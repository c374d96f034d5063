--------------------------- MODULE SearchExecution ---------------------------
(***************************************************************************)
(* How the scheduler executes the tasks of a search                        *)
(* (service/scheduler/scheduler.go: Execute, sourceGate, ConfigureSource,  *)
(* resizableSemaphore).                                                    *)
(*                                                                         *)
(* Execute starts one goroutine per task.  A goroutine takes a place of    *)
(* its request, a place of its class, passes the circuit breaker of its    *)
(* source, takes a place of the source's limiter, runs, records the        *)
(* outcome and delivers it.  The request's context ends them at any of the *)
(* places where they wait; Execute returns when it has every result or     *)
(* when the context is done, while its goroutines may still be running.    *)
(*                                                                         *)
(* One class is modelled: classes share nothing but the sources' gates,    *)
(* and a source belongs to one class.  Time is abstracted: a circuit that  *)
(* is open is at some point past its cooldown.  A cooldown (seconds) is    *)
(* taken to outlast the few instructions between the record of an outcome  *)
(* and the release of the limiter's place.                                 *)
(***************************************************************************)
EXTENDS Integers, FiniteSets

CONSTANTS
    Calls,       \* concurrent callers of Execute
    Tasks,       \* tasks: records with the call and the source of each
    PerRequest,  \* perRequest of Execute
    ClassLimit,  \* capacity of the class's channel
    Limits,      \* values of MaxConcurrency that an admin may set
    Thresholds,  \* values of CircuitFailures that an admin may set
    MaxConfigs   \* bound: how often ConfigureSource changes something

Sources    == {t.source : t \in Tasks}
TasksOf(c) == {t \in Tasks : t.call = c}
TasksOn(s) == {t \in Tasks : t.source = s}

ASSUME ExecutionAssumption ==
    /\ IsFiniteSet(Tasks) /\ \A t \in Tasks : t.call \in Calls
    /\ PerRequest \in Nat \ {0} /\ ClassLimit \in Nat \ {0} /\ MaxConfigs \in Nat
    /\ Limits \subseteq Nat \ {0} /\ Limits # {} /\ IsFiniteSet(Limits)
    /\ Thresholds \subseteq Nat \ {0} /\ Thresholds # {} /\ IsFiniteSet(Thresholds)

\* No threshold is larger, so a longer streak decides nothing.
TopThreshold == CHOOSE n \in Thresholds : \A m \in Thresholds : m <= n

VARIABLES
    pc,        \* where each task's goroutine is
    calling,   \* the calls that are in Execute
    expired,   \* the calls whose context is done
    results,   \* tasks whose result is in the channel or collected
    limit,     \* limiter.limit of each source
    inUse,     \* limiter.inUse
    threshold, \* circuitFailures in force
    streak,    \* failStreak
    circuit,   \* breakUntil: "closed" (zero), "open" (ahead), "elapsed"
    halfOpen,  \* halfOpen
    configs,   \* changes of the configuration left
    raised     \* (history) the sources whose threshold was raised while their
               \* circuit was broken and that no outcome has closed or opened since

gateVars == <<limit, inUse, threshold, streak, circuit, halfOpen>>
vars     == <<pc, calling, expired, results, gateVars, configs, raised>>

TypeOK ==
    /\ pc \in [Tasks -> {"idle", "local", "class", "gate", "limiter",
                          "blocked", "run", "recorded"}]
    /\ calling \subseteq Calls /\ expired \subseteq Calls
    /\ results \subseteq Tasks
    /\ limit \in [Sources -> Limits] /\ inUse \in [Sources -> Nat]
    /\ threshold \in [Sources -> Thresholds]
    /\ streak \in [Sources -> 0..TopThreshold]
    /\ circuit \in [Sources -> {"closed", "open", "elapsed"}]
    /\ halfOpen \in [Sources -> BOOLEAN]
    /\ configs \in 0..MaxConfigs /\ raised \subseteq Sources

Init ==
    /\ pc = [t \in Tasks |-> "idle"]
    /\ calling = {} /\ expired = {} /\ results = {}
    /\ limit \in [Sources -> Limits] /\ inUse = [s \in Sources |-> 0]
    /\ threshold \in [Sources -> Thresholds]
    /\ streak = [s \in Sources |-> 0]
    /\ circuit = [s \in Sources |-> "closed"]
    /\ halfOpen = [s \in Sources |-> FALSE]
    /\ configs = MaxConfigs /\ raised = {}

Goto(t, l) == pc' = [pc EXCEPT ![t] = l]

Expired(t) == t.call \in expired

-----------------------------------------------------------------------------
(* Execute *)

\* A call starts its goroutines.  A caller is reused once its goroutines are
\* gone; a caller that returned earlier is represented by another one.
Execute(c) ==
    /\ c \notin calling /\ \A t \in TasksOf(c) : pc[t] = "idle"
    /\ calling' = calling \cup {c}
    /\ expired' = expired \ {c}
    /\ results' = results \ TasksOf(c)
    /\ pc' = [t \in Tasks |-> IF t.call = c THEN "local" ELSE pc[t]]
    /\ UNCHANGED <<gateVars, configs, raised>>

\* The timeout, or the end of the caller's context.
Expire(c) ==
    /\ c \in calling /\ c \notin expired
    /\ expired' = expired \cup {c}
    /\ UNCHANGED <<pc, calling, results, gateVars, configs, raised>>

\* Mutant: Execute waits for its goroutines, as with a wait group.
ReturnWhenIdle(c) ==
    /\ c \in calling
    /\ TasksOf(c) \subseteq results \/ c \in expired
    /\ \A t \in TasksOf(c) : pc[t] = "idle"
    /\ calling' = calling \ {c}
    /\ expired' = expired \cup {c}
    /\ UNCHANGED <<pc, results, gateVars, configs, raised>>

\* Execute returns, and cancels the context on its way out.
Return(c) ==
    /\ c \in calling
    /\ TasksOf(c) \subseteq results \/ c \in expired
    /\ calling' = calling \ {c}
    /\ expired' = expired \cup {c}
    /\ UNCHANGED <<pc, results, gateVars, configs, raised>>

-----------------------------------------------------------------------------
(* A task's goroutine *)

LocalUsers(c) == {t \in TasksOf(c) : pc[t] \notin {"idle", "local"}}
ClassUsers    == {t \in Tasks : pc[t] \notin {"idle", "local", "class"}}

\* The first two semaphores; their holders are who is past them.
TakeLocal(t) ==
    /\ pc[t] = "local"
    /\ \/ Cardinality(LocalUsers(t.call)) < PerRequest /\ Goto(t, "class")
       \/ Expired(t) /\ Goto(t, "idle")
    /\ UNCHANGED <<calling, expired, results, gateVars, configs, raised>>

TakeClass(t) ==
    /\ pc[t] = "class"
    /\ \/ Cardinality(ClassUsers) < ClassLimit /\ Goto(t, "gate")
       \/ Expired(t) /\ Goto(t, "idle")
    /\ UNCHANGED <<calling, expired, results, gateVars, configs, raised>>

\* sourceGate.allow; a task that is not allowed delivers ErrCircuitOpen.
Allow(t) ==
    LET s == t.source IN
    /\ pc[t] = "gate"
    /\ \/ /\ circuit[s] = "closed"
          /\ Goto(t, "limiter")
          /\ UNCHANGED <<halfOpen, results>>
       \/ /\ circuit[s] = "elapsed" /\ ~halfOpen[s]
          /\ halfOpen' = [halfOpen EXCEPT ![s] = TRUE]
          /\ Goto(t, "limiter")
          /\ UNCHANGED results
       \/ /\ circuit[s] = "open" \/ (circuit[s] = "elapsed" /\ halfOpen[s])
          /\ Goto(t, "idle")
          /\ results' = results \cup {t}
          /\ UNCHANGED halfOpen
    /\ UNCHANGED <<calling, expired, limit, inUse, threshold, streak, circuit, configs, raised>>

\* Mutant: the limiter looks at the context first.
TakeLimiterCtxFirst(t) ==
    LET s == t.source IN
    /\ pc[t] \in {"limiter", "blocked"}
    /\ \/ /\ ~Expired(t) /\ inUse[s] < limit[s]
          /\ inUse' = [inUse EXCEPT ![s] = @ + 1]
          /\ Goto(t, "run")
       \/ ~Expired(t) /\ inUse[s] >= limit[s] /\ Goto(t, "blocked") /\ UNCHANGED inUse
       \/ Expired(t) /\ Goto(t, "idle") /\ UNCHANGED inUse
    /\ UNCHANGED <<calling, expired, results, limit, threshold, streak, circuit,
                   halfOpen, configs, raised>>

\* limiter.Acquire: the context counts only for a task that found no place; such
\* a task may leave although a place has become free.
TakeLimiter(t) ==
    LET s == t.source IN
    /\ pc[t] \in {"limiter", "blocked"}
    /\ \/ /\ inUse[s] < limit[s]
          /\ inUse' = [inUse EXCEPT ![s] = @ + 1]
          /\ Goto(t, "run")
       \/ pc[t] = "limiter" /\ inUse[s] >= limit[s] /\ Goto(t, "blocked") /\ UNCHANGED inUse
       \/ pc[t] = "blocked" /\ Expired(t) /\ Goto(t, "idle") /\ UNCHANGED inUse
    /\ UNCHANGED <<calling, expired, results, limit, threshold, streak, circuit,
                   halfOpen, configs, raised>>

\* sourceGate.record.
Succeed(s) ==
    /\ streak' = [streak EXCEPT ![s] = 0]
    /\ circuit' = [circuit EXCEPT ![s] = "closed"]
    /\ halfOpen' = [halfOpen EXCEPT ![s] = FALSE]
    /\ raised' = raised \ {s}

Fail(s) ==
    /\ streak' = [streak EXCEPT ![s] = IF @ < TopThreshold THEN @ + 1 ELSE @]
    /\ circuit' = [circuit EXCEPT ![s] = IF streak'[s] >= threshold[s] THEN "open" ELSE @]
    /\ halfOpen' = [halfOpen EXCEPT ![s] = FALSE]
    /\ raised' = IF streak'[s] >= threshold[s] THEN raised \ {s} ELSE raised

\* The task has run, whatever became of its context, and is recorded.
Run(t) ==
    /\ pc[t] = "run"
    /\ Succeed(t.source) \/ Fail(t.source)
    /\ Goto(t, "recorded")
    /\ UNCHANGED <<calling, expired, results, limit, inUse, threshold, configs>>

\* Mutant: the place in the limiter is kept.
FinishLeaky(t) ==
    /\ pc[t] = "recorded"
    /\ \/ results' = results \cup {t}
       \/ Expired(t) /\ UNCHANGED results
    /\ Goto(t, "idle")
    /\ UNCHANGED <<calling, expired, gateVars, configs, raised>>

\* Mutant: a result is thrown away even though the call still waits.
FinishSilent(t) ==
    /\ pc[t] = "recorded"
    /\ inUse' = [inUse EXCEPT ![t.source] = @ - 1]
    /\ Goto(t, "idle")
    /\ UNCHANGED <<calling, expired, results, limit, threshold, streak, circuit,
                   halfOpen, configs, raised>>

\* Delivery into the channel, which has room for every task, and the deferred
\* releases.
Finish(t) ==
    /\ pc[t] = "recorded"
    /\ \/ results' = results \cup {t}
       \/ Expired(t) /\ UNCHANGED results
    /\ inUse' = [inUse EXCEPT ![t.source] = IF @ > 0 THEN @ - 1 ELSE @]
    /\ Goto(t, "idle")
    /\ UNCHANGED <<calling, expired, limit, threshold, streak, circuit, halfOpen, configs, raised>>

-----------------------------------------------------------------------------
(* Configuration and time *)

\* ConfigureSource, on every search, with the policy an admin has stored.
ConfigureSource(s) ==
    /\ configs > 0 /\ configs' = configs - 1
    /\ \E n \in Limits, m \in Thresholds :
         /\ <<n, m>> # <<limit[s], threshold[s]>>
         /\ limit' = [limit EXCEPT ![s] = n]
         /\ threshold' = [threshold EXCEPT ![s] = m]
         /\ raised' = IF m > threshold[s] /\ circuit[s] # "closed" THEN raised \cup {s}
                      ELSE raised
    /\ UNCHANGED <<pc, calling, expired, results, inUse, streak, circuit, halfOpen>>

CooldownElapses(s) ==
    /\ circuit[s] = "open"
    /\ \A t \in TasksOn(s) : pc[t] # "recorded"
    /\ circuit' = [circuit EXCEPT ![s] = "elapsed"]
    /\ UNCHANGED <<pc, calling, expired, results, limit, inUse, threshold, streak,
                   halfOpen, configs, raised>>

TaskStep(t) ==
    \/ TakeLocal(t) \/ TakeClass(t) \/ Allow(t) \/ TakeLimiter(t) \/ Finish(t)

Next ==
    \/ \E c \in Calls : Execute(c) \/ Expire(c) \/ Return(c)
    \/ \E t \in Tasks : TaskStep(t) \/ Run(t)
    \/ \E s \in Sources : ConfigureSource(s) \/ CooldownElapses(s)

Spec == Init /\ [][Next]_vars

\* Goroutines go on, every context has a timeout and cooldowns end.  Nothing is
\* assumed of the tasks: a source may hang for ever.
HangingSpec ==
    /\ Spec
    /\ \A c \in Calls : WF_vars(Expire(c)) /\ WF_vars(Return(c))
    /\ \A t \in Tasks : WF_vars(TaskStep(t))
    /\ \A s \in Sources : WF_vars(CooldownElapses(s))

-----------------------------------------------------------------------------
(* Properties *)

RunningOn(s) == {t \in TasksOn(s) : pc[t] \in {"run", "recorded"}}

\* The limiter's count is the number of tasks that hold one of its places, on
\* every way out and across changes of the limit.
LimiterExact == \A s \in Sources : inUse[s] = Cardinality(RunningOn(s))

\* A source that is marked half-open has a task in flight whose outcome will
\* clear the mark: a probe that gives up cannot leave its source barred.  Only a
\* threshold raised while the circuit is broken can break this, until an outcome
\* closes the circuit or opens it again: a failure that is no longer enough then
\* leaves an elapsed circuit to a second probe before its place is free.
ProbeInFlight ==
    \A s \in Sources \ raised : halfOpen[s] =>
      /\ circuit[s] = "elapsed"
      /\ \E t \in TasksOn(s) : pc[t] \in {"limiter", "run"}

\* Execute keeps waiting for a result only while somebody may still deliver it:
\* goroutines leave without a result only when the context is done.
ResultsComplete ==
    \A c \in calling \ expired : \A t \in TasksOf(c) : pc[t] = "idle" => t \in results

\* Execute returns even when sources hang, hold their places and starve others.
ExecuteReturns == \A c \in Calls : c \in calling ~> c \notin calling
=============================================================================
