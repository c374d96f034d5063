------------------------ MODULE SearchExecutionProofs ------------------------
(***************************************************************************)
(* Proofs about SearchExecution, for any number of calls, tasks and        *)
(* sources, every limit and every threshold: the limiter's count is exact, *)
(* Execute waits only for results that can still come, and a half-open     *)
(* source has a probe in flight.                                           *)
(***************************************************************************)
EXTENDS SearchExecution, FiniteSetTheorems, TLAPS

-----------------------------------------------------------------------------
(* Types *)

Labels == {"idle", "local", "class", "gate", "limiter", "blocked", "run", "recorded"}

\* The types a proof needs: the streak's bound is of no use to it.
Typed ==
    /\ pc \in [Tasks -> Labels]
    /\ calling \subseteq Calls /\ expired \subseteq Calls
    /\ results \subseteq Tasks
    /\ limit \in [Sources -> Limits] /\ inUse \in [Sources -> Nat]
    /\ threshold \in [Sources -> Thresholds]
    /\ streak \in [Sources -> Nat]
    /\ circuit \in [Sources -> {"closed", "open", "elapsed"}]
    /\ halfOpen \in [Sources -> BOOLEAN]
    /\ configs \in Nat

\* Every task is on one of the sources.
LEMMA SourceOfTask == \A t \in Tasks : t.source \in Sources
  BY DEF Sources

\* Init establishes the types.
LEMMA InitTyped == Init => Typed
  BY ExecutionAssumption DEF Init, Typed, Labels

\* Succeed and Fail keep the types of the gate.
LEMMA RecordTyped ==
    ASSUME Typed, NEW s \in Sources, Succeed(s) \/ Fail(s)
    PROVE  /\ streak' \in [Sources -> Nat]
           /\ circuit' \in [Sources -> {"closed", "open", "elapsed"}]
           /\ halfOpen' \in [Sources -> BOOLEAN]
  <1>1. CASE Succeed(s)
    BY <1>1 DEF Succeed, Typed
  <1>2. CASE Fail(s)
    <2>1. streak' \in [Sources -> Nat]
      BY <1>2 DEF Fail, Typed
    <2>2. circuit' \in [Sources -> {"closed", "open", "elapsed"}]
      BY <1>2 DEF Fail, Typed
    <2>3. halfOpen' \in [Sources -> BOOLEAN]
      BY <1>2 DEF Fail, Typed
    <2> QED BY <2>1, <2>2, <2>3
  <1> QED BY <1>1, <1>2

\* Every step keeps the types.
LEMMA StepTyped == Typed /\ [Next]_vars => Typed'
  <1> SUFFICES ASSUME Typed, [Next]_vars PROVE Typed'
    OBVIOUS
  <1>a. \A t \in Tasks : t.source \in Sources /\ t.call \in Calls
    BY SourceOfTask, ExecutionAssumption
  <1>1. ASSUME NEW c \in Calls, Execute(c) PROVE Typed'
    BY <1>1 DEF Execute, Typed, Labels, gateVars
  <1>2. ASSUME NEW c \in Calls, Expire(c) PROVE Typed'
    BY <1>2 DEF Expire, Typed, gateVars
  <1>3. ASSUME NEW c \in Calls, Return(c) PROVE Typed'
    BY <1>3 DEF Return, Typed, gateVars
  <1>4. ASSUME NEW t \in Tasks, TakeLocal(t) PROVE Typed'
    BY <1>4, <1>a DEF TakeLocal, Goto, Typed, Labels, gateVars
  <1>5. ASSUME NEW t \in Tasks, TakeClass(t) PROVE Typed'
    BY <1>5, <1>a DEF TakeClass, Goto, Typed, Labels, gateVars
  <1>6. ASSUME NEW t \in Tasks, Allow(t) PROVE Typed'
    <2>1. pc' \in [Tasks -> Labels]
      BY <1>6 DEF Allow, Goto, Typed, Labels
    <2>2. results' \subseteq Tasks
      BY <1>6 DEF Allow, Typed
    <2>3. halfOpen' \in [Sources -> BOOLEAN]
      BY <1>6, <1>a DEF Allow, Typed
    <2> QED BY <1>6, <2>1, <2>2, <2>3 DEF Allow, Typed
  <1>7. ASSUME NEW t \in Tasks, TakeLimiter(t) PROVE Typed'
    <2>1. pc' \in [Tasks -> Labels]
      BY <1>7 DEF TakeLimiter, Goto, Typed, Labels
    <2>2. inUse' \in [Sources -> Nat]
      BY <1>7, <1>a DEF TakeLimiter, Typed
    <2> QED BY <1>7, <2>1, <2>2 DEF TakeLimiter, Typed
  <1>8. ASSUME NEW t \in Tasks, Finish(t) PROVE Typed'
    <2>1. pc' \in [Tasks -> Labels] /\ results' \subseteq Tasks
      BY <1>8 DEF Finish, Goto, Typed, Labels
    <2>2. inUse' \in [Sources -> Nat]
      BY <1>8, <1>a DEF Finish, Typed
    <2> QED BY <1>8, <2>1, <2>2 DEF Finish, Typed
  <1>9. ASSUME NEW t \in Tasks, Run(t) PROVE Typed'
    <2>1. pc' \in [Tasks -> Labels]
      BY <1>9 DEF Run, Goto, Typed, Labels
    <2> QED BY <1>9, <1>a, <2>1, RecordTyped DEF Run, Typed
  <1>10. ASSUME NEW s \in Sources, ConfigureSource(s) PROVE Typed'
    BY <1>10 DEF ConfigureSource, Typed
  <1>11. ASSUME NEW s \in Sources, CooldownElapses(s) PROVE Typed'
    BY <1>11 DEF CooldownElapses, Typed
  <1>12. CASE UNCHANGED vars
    BY <1>12 DEF vars, gateVars, Typed
  <1> QED
    BY <1>1, <1>2, <1>3, <1>4, <1>5, <1>6, <1>7, <1>8, <1>9, <1>10, <1>11, <1>12
    DEF Next, TaskStep

-----------------------------------------------------------------------------
(* The limiter *)

\* The tasks that run are finitely many.
LEMMA RunningFinite ==
    \A s : IsFiniteSet(RunningOn(s)) /\ Cardinality(RunningOn(s)) \in Nat
  <1> TAKE s
  <1>1. RunningOn(s) \subseteq Tasks
    BY DEF RunningOn, TasksOn
  <1>2. IsFiniteSet(RunningOn(s))
    BY <1>1, ExecutionAssumption, FS_Subset
  <1> QED BY <1>2, FS_CardinalityType

\* A task that goes on to run joins the ones that hold a place of its source.
LEMMA RunningJoins ==
    ASSUME Typed, NEW t \in Tasks, pc[t] \notin {"run", "recorded"}, Goto(t, "run"),
           NEW s \in Sources
    PROVE  Cardinality(RunningOn(s)') =
             IF s = t.source THEN Cardinality(RunningOn(s)) + 1
                             ELSE Cardinality(RunningOn(s))
  <1>1. CASE s = t.source
    <2>1. RunningOn(s)' = RunningOn(s) \cup {t}
      BY <1>1 DEF RunningOn, TasksOn, Goto, Typed
    <2>2. t \notin RunningOn(s)
      BY DEF RunningOn
    <2> QED BY <1>1, <2>1, <2>2, RunningFinite, FS_AddElement
  <1>2. CASE s # t.source
    <2>1. RunningOn(s)' = RunningOn(s)
      BY <1>2 DEF RunningOn, TasksOn, Goto, Typed
    <2> QED BY <1>2, <2>1
  <1> QED BY <1>1, <1>2

\* A task that is done leaves them.
LEMMA RunningLeaves ==
    ASSUME Typed, NEW t \in Tasks, pc[t] = "recorded", Goto(t, "idle"),
           NEW s \in Sources
    PROVE  Cardinality(RunningOn(s)') =
             IF s = t.source THEN Cardinality(RunningOn(s)) - 1
                             ELSE Cardinality(RunningOn(s))
  <1>1. CASE s = t.source
    <2>1. RunningOn(s)' = RunningOn(s) \ {t}
      BY <1>1 DEF RunningOn, TasksOn, Goto, Typed
    <2>2. t \in RunningOn(s)
      BY <1>1 DEF RunningOn, TasksOn
    <2> QED BY <1>1, <2>1, <2>2, RunningFinite, FS_RemoveElement
  <1>2. CASE s # t.source
    <2>1. RunningOn(s)' = RunningOn(s)
      BY <1>2 DEF RunningOn, TasksOn, Goto, Typed
    <2> QED BY <1>2, <2>1
  <1> QED BY <1>1, <1>2

\* A step that moves tasks only within, or only outside, the two places that
\* hold one of the limiter's places keeps the count.
LEMMA RunningStays ==
    ASSUME \A t \in Tasks : (pc[t] \in {"run", "recorded"}) = (pc'[t] \in {"run", "recorded"}),
           inUse' = inUse, LimiterExact
    PROVE  LimiterExact'
  <1>1. \A s \in Sources : RunningOn(s)' = RunningOn(s)
    BY DEF RunningOn, TasksOn
  <1> QED BY <1>1 DEF LimiterExact

\* Every step keeps the limiter's count exact.
LEMMA StepLimiter == Typed /\ LimiterExact /\ [Next]_vars => LimiterExact'
  <1> SUFFICES ASSUME Typed, LimiterExact, [Next]_vars PROVE LimiterExact'
    OBVIOUS
  <1>1. ASSUME NEW c \in Calls, Execute(c) PROVE LimiterExact'
    <2>1. \A t \in Tasks : (pc[t] \in {"run", "recorded"}) = (pc'[t] \in {"run", "recorded"})
      BY <1>1 DEF Execute, TasksOf
    <2> QED BY <1>1, <2>1, RunningStays DEF Execute, gateVars
  <1>2. ASSUME NEW c \in Calls, Expire(c) \/ Return(c) PROVE LimiterExact'
    BY <1>2, RunningStays DEF Expire, Return, gateVars
  <1>3. ASSUME NEW t \in Tasks, TakeLocal(t) \/ TakeClass(t) \/ Allow(t) PROVE LimiterExact'
    <2>1. \A u \in Tasks : (pc[u] \in {"run", "recorded"}) = (pc'[u] \in {"run", "recorded"})
      BY <1>3 DEF TakeLocal, TakeClass, Allow, Goto, Typed
    <2> QED BY <1>3, <2>1, RunningStays DEF TakeLocal, TakeClass, Allow, gateVars
  <1>4. ASSUME NEW t \in Tasks, TakeLimiter(t) PROVE LimiterExact'
    <2>1. CASE inUse' = inUse
      <3>1. t.source \in Sources
        BY SourceOfTask
      <3>2. \A u \in Tasks : (pc[u] \in {"run", "recorded"}) = (pc'[u] \in {"run", "recorded"})
        BY <1>4, <2>1, <3>1 DEF TakeLimiter, Goto, Typed
      <3> QED BY <2>1, <3>2, RunningStays
    <2>2. CASE inUse' = [inUse EXCEPT ![t.source] = @ + 1] /\ Goto(t, "run")
      <3> SUFFICES ASSUME NEW s \in Sources PROVE inUse'[s] = Cardinality(RunningOn(s)')
        BY DEF LimiterExact
      <3>1. inUse[s] = Cardinality(RunningOn(s)) /\ inUse \in [Sources -> Nat]
        BY DEF LimiterExact, Typed
      <3>2. pc[t] \notin {"run", "recorded"}
        BY <1>4 DEF TakeLimiter
      <3> QED BY <2>2, <3>1, <3>2, RunningJoins
    <2> QED BY <1>4, <2>1, <2>2 DEF TakeLimiter
  <1>5. ASSUME NEW t \in Tasks, Finish(t) PROVE LimiterExact'
    <2> SUFFICES ASSUME NEW s \in Sources PROVE inUse'[s] = Cardinality(RunningOn(s)')
      BY DEF LimiterExact
    <2>1. inUse[s] = Cardinality(RunningOn(s)) /\ inUse \in [Sources -> Nat]
      BY DEF LimiterExact, Typed
    <2>2. pc[t] = "recorded" /\ Goto(t, "idle")
      BY <1>5 DEF Finish
    <2>3. s = t.source => inUse[s] > 0
      <3> SUFFICES ASSUME s = t.source PROVE inUse[s] > 0
        OBVIOUS
      <3>1. t \in RunningOn(s)
        BY <2>2 DEF RunningOn, TasksOn
      <3> QED BY <2>1, <3>1, RunningFinite, FS_EmptySet
    <2>4. inUse'[s] = IF s = t.source THEN inUse[s] - 1 ELSE inUse[s]
      BY <1>5, <2>1, <2>3 DEF Finish
    <2> QED BY <2>1, <2>2, <2>4, RunningLeaves
  <1>6. ASSUME NEW t \in Tasks, Run(t) PROVE LimiterExact'
    <2>1. \A u \in Tasks : (pc[u] \in {"run", "recorded"}) = (pc'[u] \in {"run", "recorded"})
      BY <1>6 DEF Run, Goto, Typed
    <2> QED BY <1>6, <2>1, RunningStays DEF Run
  <1>7. ASSUME NEW s \in Sources, ConfigureSource(s) \/ CooldownElapses(s) PROVE LimiterExact'
    BY <1>7, RunningStays DEF ConfigureSource, CooldownElapses
  <1>8. CASE UNCHANGED vars
    BY <1>8, RunningStays DEF vars, gateVars
  <1> QED
    BY <1>1, <1>2, <1>3, <1>4, <1>5, <1>6, <1>7, <1>8 DEF Next, TaskStep

\* Init satisfies it.
LEMMA InitLimiter == Init => LimiterExact
  <1> SUFFICES ASSUME Init, NEW s \in Sources PROVE inUse[s] = Cardinality(RunningOn(s))
    BY DEF LimiterExact
  <1>1. RunningOn(s) = {}
    BY DEF Init, RunningOn, TasksOn
  <1> QED BY <1>1, FS_EmptySet DEF Init

\* The limiter of a source counts exactly the tasks that hold one of its places,
\* whatever the requests' contexts do and however the limit is changed
\* (resizableSemaphore, and the deferred releases of Execute's goroutines).
THEOREM LimiterCounts == Spec => []LimiterExact
  <1>1. Init => Typed /\ LimiterExact
    BY InitTyped, InitLimiter
  <1>2. Typed /\ LimiterExact /\ [Next]_vars => Typed' /\ LimiterExact'
    BY StepTyped, StepLimiter
  <1> QED BY <1>1, <1>2, PTL DEF Spec

-----------------------------------------------------------------------------
(* The results *)

\* Every step keeps the promise of a result to the calls that wait.
LEMMA StepResults == Typed /\ ResultsComplete /\ [Next]_vars => ResultsComplete'
  <1> SUFFICES ASSUME Typed, ResultsComplete, [Next]_vars,
                      NEW c \in calling' \ expired', NEW t \in TasksOf(c), pc'[t] = "idle"
               PROVE  t \in results'
    BY DEF ResultsComplete, TasksOf
  <1>a. t \in Tasks /\ t.call = c
    BY DEF TasksOf
  <1>b. c \in calling \ expired /\ pc[t] = "idle" => t \in results
    BY DEF ResultsComplete
  <1>1. ASSUME NEW d \in Calls, Execute(d) PROVE t \in results'
    BY <1>1, <1>a, <1>b DEF Execute, TasksOf
  <1>2. ASSUME NEW d \in Calls, Expire(d) \/ Return(d) PROVE t \in results'
    BY <1>2, <1>a, <1>b DEF Expire, Return
  <1>3. ASSUME NEW u \in Tasks, TakeLocal(u) \/ TakeClass(u) \/ Allow(u) PROVE t \in results'
    BY <1>3, <1>a, <1>b DEF TakeLocal, TakeClass, Allow, Goto, Typed, Expired
  <1>4. ASSUME NEW u \in Tasks, TakeLimiter(u) PROVE t \in results'
    BY <1>4, <1>a, <1>b DEF TakeLimiter, Goto, Typed, Expired
  <1>5. ASSUME NEW u \in Tasks, Finish(u) \/ Run(u) PROVE t \in results'
    BY <1>5, <1>a, <1>b DEF Finish, Run, Goto, Typed, Expired
  <1>6. ASSUME NEW s \in Sources, ConfigureSource(s) \/ CooldownElapses(s) PROVE t \in results'
    BY <1>6, <1>a, <1>b DEF ConfigureSource, CooldownElapses
  <1>7. CASE UNCHANGED vars
    BY <1>7, <1>a, <1>b DEF vars
  <1> QED
    BY <1>1, <1>2, <1>3, <1>4, <1>5, <1>6, <1>7 DEF Next, TaskStep

\* Execute never waits for a result that no goroutine will deliver: as long as the
\* context is alive, every goroutine that is gone has left a result.
THEOREM ResultsArrive == Spec => []ResultsComplete
  <1>1. Init => Typed /\ ResultsComplete
    BY InitTyped DEF Init, ResultsComplete
  <1>2. Typed /\ ResultsComplete /\ [Next]_vars => Typed' /\ ResultsComplete'
    BY StepTyped, StepResults
  <1> QED BY <1>1, <1>2, PTL DEF Spec

-----------------------------------------------------------------------------
(* The circuit breaker *)

\* A circuit that has tripped stays at its threshold, unless the threshold was
\* raised meanwhile: a further failure opens it again.
TrippedStreak ==
    \A s \in Sources \ raised : circuit[s] # "closed" => streak[s] >= threshold[s]

\* Past a cooldown nobody is between the record of an outcome and the release of
\* the place: whoever holds a place will clear the half-open mark.
NobodyRecorded ==
    \A s \in Sources \ raised : circuit[s] = "elapsed" =>
      \A t \in TasksOn(s) : pc[t] # "recorded"

BreakerInv == Typed /\ LimiterExact /\ TrippedStreak /\ NobodyRecorded /\ ProbeInFlight

\* The steps that leave the gates alone move no task out of "limiter" or "run"
\* and none into "recorded".
LEMMA QuietBreaker ==
    ASSUME BreakerInv,
           circuit' = circuit, halfOpen' = halfOpen, streak' = streak, threshold' = threshold,
           raised' = raised,
           \A t \in Tasks : pc[t] \in {"limiter", "run"} => pc'[t] \in {"limiter", "run"},
           \A t \in Tasks : pc'[t] = "recorded" => pc[t] = "recorded"
    PROVE  TrippedStreak' /\ NobodyRecorded' /\ ProbeInFlight'
  <1>1. TrippedStreak'
    BY DEF BreakerInv, TrippedStreak
  <1>2. NobodyRecorded'
    BY DEF BreakerInv, NobodyRecorded, TasksOn
  <1>3. ProbeInFlight'
    BY DEF BreakerInv, ProbeInFlight, TasksOn
  <1> QED BY <1>1, <1>2, <1>3

\* Every step keeps the breaker's invariant.
LEMMA StepBreaker ==
    ASSUME BreakerInv, [Next]_vars
    PROVE  TrippedStreak' /\ NobodyRecorded' /\ ProbeInFlight'
  <1> USE DEF BreakerInv
  <1>a. \A t \in Tasks : t.source \in Sources
    BY SourceOfTask
  <1>b. \A s \in Sources : threshold[s] \in Nat
    BY ExecutionAssumption DEF Typed
  <1>1. ASSUME NEW c \in Calls, Execute(c) PROVE TrippedStreak' /\ NobodyRecorded' /\ ProbeInFlight'
    <2>1. \A t \in Tasks : pc[t] # "idle" => pc'[t] = pc[t]
      BY <1>1 DEF Execute, TasksOf
    <2>2. \A t \in Tasks : pc'[t] = "recorded" => pc[t] = "recorded"
      BY <1>1 DEF Execute, TasksOf
    <2> QED BY <1>1, <2>1, <2>2, QuietBreaker DEF Execute, gateVars
  <1>2. ASSUME NEW c \in Calls, Expire(c) \/ Return(c)
        PROVE  TrippedStreak' /\ NobodyRecorded' /\ ProbeInFlight'
    BY <1>2, QuietBreaker DEF Expire, Return, gateVars
  <1>3. ASSUME NEW t \in Tasks, TakeLocal(t) \/ TakeClass(t)
        PROVE  TrippedStreak' /\ NobodyRecorded' /\ ProbeInFlight'
    <2>1. /\ \A u \in Tasks : pc[u] \in {"limiter", "run"} => pc'[u] \in {"limiter", "run"}
          /\ \A u \in Tasks : pc'[u] = "recorded" => pc[u] = "recorded"
      BY <1>3 DEF TakeLocal, TakeClass, Goto, Typed
    <2> QED BY <1>3, <2>1, QuietBreaker DEF TakeLocal, TakeClass, gateVars
  <1>4. ASSUME NEW t \in Tasks, Allow(t) PROVE TrippedStreak' /\ NobodyRecorded' /\ ProbeInFlight'
    <2>1. /\ \A u \in Tasks : pc[u] \in {"limiter", "run"} => pc'[u] \in {"limiter", "run"}
          /\ \A u \in Tasks : pc'[u] = "recorded" => pc[u] = "recorded"
      BY <1>4 DEF Allow, Goto, Typed
    <2>2. CASE halfOpen' = halfOpen
      BY <1>4, <2>1, <2>2, QuietBreaker DEF Allow
    <2>3. CASE /\ circuit[t.source] = "elapsed" /\ Goto(t, "limiter")
               /\ halfOpen' = [halfOpen EXCEPT ![t.source] = TRUE]
      <3>1. TrippedStreak' /\ NobodyRecorded'
        BY <1>4, <2>1 DEF Allow, TrippedStreak, NobodyRecorded, TasksOn
      <3>2. ASSUME NEW s \in Sources \ raised, halfOpen'[s]
            PROVE  circuit'[s] = "elapsed" /\ \E u \in TasksOn(s) : pc'[u] \in {"limiter", "run"}
        <4>1. CASE s = t.source
          <5>1. t \in TasksOn(s) /\ pc'[t] = "limiter"
            BY <2>3, <4>1 DEF TasksOn, Goto, Typed
          <5> QED BY <1>4, <2>3, <4>1, <5>1 DEF Allow
        <4>2. CASE s # t.source
          <5>1. halfOpen[s]
            BY <2>3, <3>2, <4>2 DEF Typed
          <5> QED BY <1>4, <2>1, <5>1 DEF Allow, ProbeInFlight, TasksOn
        <4> QED BY <4>1, <4>2
      <3>3. ProbeInFlight'
        BY <1>4, <3>2 DEF Allow, ProbeInFlight, TasksOn
      <3> QED BY <3>1, <3>3
    <2> QED BY <1>4, <2>2, <2>3 DEF Allow
  <1>5. ASSUME NEW t \in Tasks, TakeLimiter(t)
        PROVE  TrippedStreak' /\ NobodyRecorded' /\ ProbeInFlight'
    <2>0. /\ circuit' = circuit /\ halfOpen' = halfOpen /\ streak' = streak
          /\ threshold' = threshold /\ raised' = raised
      BY <1>5 DEF TakeLimiter
    <2>1. \A u \in Tasks : pc'[u] = "recorded" => pc[u] = "recorded"
      BY <1>5 DEF TakeLimiter, Goto, Typed
    <2>2. CASE \A u \in Tasks : pc[u] \in {"limiter", "run"} => pc'[u] \in {"limiter", "run"}
      BY <2>0, <2>1, <2>2, QuietBreaker
    <2>3. CASE pc[t] = "limiter" /\ inUse[t.source] >= limit[t.source] /\ Goto(t, "blocked")
      <3>1. TrippedStreak' /\ NobodyRecorded'
        BY <2>0, <2>1 DEF TrippedStreak, NobodyRecorded, TasksOn
      <3>2. ASSUME NEW s \in Sources \ raised, halfOpen[s]
            PROVE  circuit'[s] = "elapsed" /\ \E u \in TasksOn(s) : pc'[u] \in {"limiter", "run"}
        <4>1. circuit[s] = "elapsed" /\ \E u \in TasksOn(s) : pc[u] \in {"limiter", "run"}
          BY <3>2 DEF ProbeInFlight
        <4>2. CASE s # t.source
          BY <2>0, <2>3, <4>1, <4>2 DEF Goto, Typed, TasksOn
        <4>3. CASE s = t.source
          \* The limiter is full, so a task holds a place: it runs, for it is not recorded.
          <5>1. limit[s] \in Nat \ {0} /\ inUse[s] \in Nat
            BY ExecutionAssumption DEF Typed
          <5>2. inUse[s] > 0
            BY <2>3, <4>3, <5>1
          <5>3. RunningOn(s) # {}
            BY <5>2, FS_EmptySet DEF LimiterExact
          <5>4. PICK u \in RunningOn(s) : TRUE
            BY <5>3
          <5>5. u \in TasksOn(s) /\ pc[u] = "run"
            BY <4>1, <5>4 DEF RunningOn, NobodyRecorded
          <5>6. pc'[u] = "run"
            BY <2>3, <5>5 DEF Goto, Typed, TasksOn
          <5> QED BY <2>0, <4>1, <5>5, <5>6
        <4> QED BY <4>2, <4>3
      <3>3. ProbeInFlight'
        BY <2>0, <3>2 DEF ProbeInFlight, TasksOn
      <3> QED BY <3>1, <3>3
    <2>4. CASE Goto(t, "run") \/ (pc[t] = "blocked" /\ Goto(t, "idle"))
      <3>1. \A u \in Tasks : pc[u] \in {"limiter", "run"} => pc'[u] \in {"limiter", "run"}
        BY <2>4 DEF Goto, Typed
      <3> QED BY <2>2, <3>1
    <2> QED BY <1>5, <2>3, <2>4 DEF TakeLimiter
  <1>6. ASSUME NEW t \in Tasks, Finish(t) PROVE TrippedStreak' /\ NobodyRecorded' /\ ProbeInFlight'
    <2>1. /\ \A u \in Tasks : pc[u] \in {"limiter", "run"} => pc'[u] \in {"limiter", "run"}
          /\ \A u \in Tasks : pc'[u] = "recorded" => pc[u] = "recorded"
      BY <1>6 DEF Finish, Goto, Typed
    <2> QED BY <1>6, <2>1, QuietBreaker DEF Finish
  <1>7. ASSUME NEW t \in Tasks, Run(t) PROVE TrippedStreak' /\ NobodyRecorded' /\ ProbeInFlight'
    <2> DEFINE s == t.source
    <2>0. s \in Sources /\ threshold' = threshold /\ threshold[s] \in Nat
      BY <1>7, <1>a, <1>b DEF Run
    <2>1. /\ halfOpen'[s] = FALSE
          /\ s \notin raised' => circuit'[s] # "elapsed"
          /\ s \notin raised' /\ circuit'[s] # "closed" => streak'[s] >= threshold[s]
      <3>1. CASE Succeed(s)
        BY <2>0, <3>1 DEF Succeed, Typed
      <3>2. CASE Fail(s)
        <4>0. streak[s] \in Nat
          BY <2>0 DEF Typed
        <4>1. streak'[s] = IF streak[s] < TopThreshold THEN streak[s] + 1 ELSE streak[s]
          BY <2>0, <3>2 DEF Fail, Typed
        <4>2. circuit'[s] = IF streak'[s] >= threshold[s] THEN "open" ELSE circuit[s]
          BY <2>0, <3>2 DEF Fail, Typed
        <4>3. s \notin raised /\ circuit[s] # "closed" => streak[s] >= threshold[s]
          BY <2>0 DEF TrippedStreak
        <4>4. halfOpen'[s] = FALSE
          BY <2>0, <3>2 DEF Fail, Typed
        <4>5. streak'[s] \in Nat /\ streak'[s] >= streak[s]
          BY <4>0, <4>1
        <4>6. CASE streak'[s] >= threshold[s]
          BY <4>2, <4>4, <4>6
        <4>7. CASE ~(streak'[s] >= threshold[s])
          <5>1. raised' = raised
            BY <3>2, <4>7 DEF Fail
          <5>2. ~(streak[s] >= threshold[s])
            BY <2>0, <4>0, <4>5, <4>7
          <5>3. circuit'[s] = circuit[s]
            BY <4>2, <4>7
          <5>4. s \notin raised => circuit[s] = "closed"
            BY <4>3, <5>2
          <5> QED BY <4>4, <5>1, <5>3, <5>4
        <4> QED BY <4>6, <4>7
      <3> QED BY <1>7, <3>1, <3>2 DEF Run
    <2>2. ASSUME NEW o \in Sources, o # s
          PROVE  /\ halfOpen'[o] = halfOpen[o] /\ circuit'[o] = circuit[o]
                 /\ streak'[o] = streak[o] /\ threshold'[o] = threshold[o]
                 /\ o \in raised' <=> o \in raised
                 /\ \A u \in TasksOn(o) : pc'[u] = pc[u]
      <3>1. \A u \in TasksOn(o) : pc'[u] = pc[u]
        BY <1>7, <2>2 DEF Run, Goto, Typed, TasksOn
      <3>2. halfOpen'[o] = halfOpen[o] /\ circuit'[o] = circuit[o] /\ streak'[o] = streak[o]
        BY <1>7, <2>0, <2>2 DEF Run, Succeed, Fail, Typed
      <3>3. o \in raised' <=> o \in raised
        BY <1>7, <2>2 DEF Run, Succeed, Fail
      <3> QED BY <2>0, <3>1, <3>2, <3>3
    <2> HIDE DEF s
    <2>3. TrippedStreak'
      BY <2>0, <2>1, <2>2 DEF TrippedStreak
    <2>4. NobodyRecorded'
      BY <2>1, <2>2 DEF NobodyRecorded, TasksOn
    <2>5. ProbeInFlight'
      BY <2>1, <2>2 DEF ProbeInFlight, TasksOn
    <2> QED BY <2>3, <2>4, <2>5
  <1>8. ASSUME NEW s \in Sources, ConfigureSource(s)
        PROVE  TrippedStreak' /\ NobodyRecorded' /\ ProbeInFlight'
    <2>1. PICK n \in Limits, m \in Thresholds :
            /\ threshold' = [threshold EXCEPT ![s] = m]
            /\ raised' = IF m > threshold[s] /\ circuit[s] # "closed" THEN raised \cup {s}
                         ELSE raised
      BY <1>8 DEF ConfigureSource
    <2>2. m \in Nat
      BY <2>1, ExecutionAssumption
    <2>3. /\ raised \subseteq raised' /\ pc' = pc /\ circuit' = circuit
          /\ halfOpen' = halfOpen /\ streak' = streak
      BY <1>8, <2>1 DEF ConfigureSource
    <2>4. NobodyRecorded' /\ ProbeInFlight'
      BY <2>3 DEF NobodyRecorded, ProbeInFlight, TasksOn
    <2>5. ASSUME NEW o \in Sources \ raised', circuit[o] # "closed"
          PROVE  streak[o] >= threshold'[o]
      <3>0. streak[o] \in Nat /\ threshold[o] \in Nat
        BY <1>b DEF Typed
      <3>1. streak[o] >= threshold[o]
        BY <2>3, <2>5 DEF TrippedStreak
      <3>2. CASE o = s
        <4>1. ~(m > threshold[o])
          BY <2>1, <2>5, <3>2
        <4>2. threshold'[o] = m
          BY <2>1, <3>2 DEF Typed
        <4> QED BY <2>2, <3>0, <3>1, <4>1, <4>2
      <3>3. CASE o # s
        BY <2>1, <3>1, <3>3 DEF Typed
      <3> QED BY <3>2, <3>3
    <2>6. TrippedStreak'
      BY <2>3, <2>5 DEF TrippedStreak
    <2> QED BY <2>4, <2>6
  <1>9. ASSUME NEW s \in Sources, CooldownElapses(s)
        PROVE  TrippedStreak' /\ NobodyRecorded' /\ ProbeInFlight'
    <2>1. TrippedStreak'
      BY <1>9 DEF CooldownElapses, TrippedStreak, Typed
    <2>2. NobodyRecorded'
      BY <1>9 DEF CooldownElapses, NobodyRecorded, TasksOn, Typed
    <2>3. ProbeInFlight'
      BY <1>9 DEF CooldownElapses, ProbeInFlight, TasksOn, Typed
    <2> QED BY <2>1, <2>2, <2>3
  <1>10. CASE UNCHANGED vars
    BY <1>10, QuietBreaker DEF vars, gateVars
  <1> QED
    BY <1>1, <1>2, <1>3, <1>4, <1>5, <1>6, <1>7, <1>8, <1>9, <1>10 DEF Next, TaskStep

\* A half-open source always has a task in flight that will clear the mark, however
\* many requests give up and however an admin changes limits and thresholds; a source
\* whose threshold was raised while its circuit was broken is excepted until an
\* outcome closes the circuit or opens it again (sourceGate.allow, record,
\* ConfigureSource).
THEOREM HalfOpenHasProbe == Spec => []ProbeInFlight
  <1>1. Init => BreakerInv
    <2>1. Init => TrippedStreak /\ NobodyRecorded /\ ProbeInFlight
      BY DEF Init, TrippedStreak, NobodyRecorded, ProbeInFlight
    <2> QED BY <2>1, InitTyped, InitLimiter DEF BreakerInv
  <1>2. BreakerInv /\ [Next]_vars => BreakerInv'
    BY StepTyped, StepLimiter, StepBreaker DEF BreakerInv
  <1>3. BreakerInv => ProbeInFlight
    BY DEF BreakerInv
  <1> QED BY <1>1, <1>2, <1>3, PTL DEF Spec
=============================================================================
