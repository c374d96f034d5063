------------------------ MODULE LinkCheckQueueProofs ------------------------
(***************************************************************************)
(* Proofs about LinkCheckQueue for any number of resources, platforms and  *)
(* workers and any limits.                                                 *)
(***************************************************************************)
EXTENDS LinkCheckQueue, FiniteSetTheorems, TLAPS

\* Where a worker is decides whether it holds a candidate, and a queue that is
\* neither started nor stopping has no worker left.
Phases ==
    /\ ~(started /\ stopping)
    /\ ~started /\ ~stopping => \A w \in Workers : pc[w] = "done"
    /\ \A w \in Workers : job[w] # NoJob <=> pc[w] \in {"check", "send"}

TypedPhases == TypeOK /\ Phases

\* The scan index of claimNext is an index of q.platformOrder.
LEMMA ScanIndexInRange ==
    ASSUME TypeOK, NEW offset \in 0..(Len(order) - 1)
    PROVE  ScanIndex(offset) \in 1..Len(order) /\ order[ScanIndex(offset)] \in Platforms
<1>1. Len(order) \in Nat /\ Len(order) > 0 /\ cursor + offset \in Nat
  BY DEF TypeOK
<1>2. (cursor + offset) % Len(order) \in 0..(Len(order) - 1)
  BY <1>1
<1>3. ScanIndex(offset) \in 1..Len(order)
  BY <1>1, <1>2 DEF ScanIndex
<1> QED BY <1>3 DEF TypeOK

LEMMA InitTyped == Init => TypedPhases
<1> SUFFICES ASSUME Init PROVE TypedPhases
  OBVIOUS
<1>1. pending \in [Platforms -> Seq(Resources)]
  BY DEF Init
<1>2. failStreak \in [Platforms -> 0..CircuitFailures]
  BY QueueAssumption DEF Init
<1>3. halfOpen \in [Platforms -> BOOLEAN]
  BY DEF Init
<1>4. skip \in [Workers -> BOOLEAN] /\ timer \in [Workers -> BOOLEAN]
  BY DEF Init
<1>5. results \in Seq(Completions) /\ order \in Seq(Platforms)
  BY DEF Init
<1>6. job \in [Workers -> Resources \cup {NoJob}]
  BY DEF Init
<1>7. pc \in [Workers -> {"scan", "sleep", "check", "send", "done"}]
  BY DEF Init
<1>8. circuit \in [Platforms -> Circuits]
  BY DEF Init, Circuits
<1>9. inUse \in [Platforms -> Nat]
  BY DEF Init
<1>10. TypeOK
  BY <1>1, <1>2, <1>3, <1>4, <1>5, <1>6, <1>7, <1>8, <1>9 DEF Init, TypeOK
<1>11. Phases
  BY DEF Init, Phases
<1> QED BY <1>10, <1>11 DEF TypedPhases

LEMMA TypedStep == TypedPhases /\ [Next]_vars => TypedPhases'
<1> SUFFICES ASSUME TypedPhases, [Next]_vars PROVE TypedPhases'
  OBVIOUS
<1> USE QueueAssumption
<1>1. CASE Start
  <2>1. /\ pending' \in [Platforms -> Seq(Resources)]
        /\ inUse' \in [Platforms -> Nat]
        /\ circuit' \in [Platforms -> Circuits]
        /\ pc' \in [Workers -> {"scan", "sleep", "check", "send", "done"}]
    BY <1>1 DEF Start, Circuits
  <2>2. failStreak' \in [Platforms -> 0..CircuitFailures]
    BY <1>1 DEF Start
  <2>3. halfOpen' \in [Platforms -> BOOLEAN]
    BY <1>1 DEF Start
  <2>4. order' \in Seq(Platforms) /\ cursor' \in Nat /\ active' \in Nat
    BY <1>1 DEF Start
  <2>5. TypeOK'
    BY <1>1, <2>1, <2>2, <2>3, <2>4 DEF Start, TypedPhases, TypeOK
  <2>6. Phases'
    BY <1>1 DEF Start, TypedPhases, TypeOK, Phases
  <2> QED BY <2>5, <2>6 DEF TypedPhases
<1>2. CASE ParentCancel
  BY <1>2 DEF ParentCancel, TypedPhases, TypeOK, Phases, waitVars, platVars, workVars, writeVars, dispVars
<1>3. CASE Stop
  BY <1>3 DEF Stop, TypedPhases, TypeOK, Phases, waitVars, platVars, workVars, writeVars, dispVars
<1>4. CASE FinishStop
  BY <1>4 DEF FinishStop, GoroutinesGone, TypedPhases, TypeOK, Phases, waitVars, platVars, workVars, writeVars, dispVars
<1>5. ASSUME NEW a \in Actors, SignalWake(a) PROVE TypedPhases'
  BY <1>5 DEF SignalWake, TypedPhases, TypeOK, Phases, lifecycle, waitVars, platVars, workVars, writeVars, dispVars
<1>6. ASSUME NEW a \in Actors, NEW r \in Resources, Accept(a, r)
      PROVE  /\ queued' \subseteq Resources
             /\ pending' \in [Platforms -> Seq(Resources)]
             /\ order' \in Seq(Platforms)
             /\ owes' \subseteq Actors
  <2> DEFINE p == PlatformOf[r]
  <2>1. p \in Platforms
    OBVIOUS
  <2>2. Append(pending[p], r) \in Seq(Resources) /\ Append(order, p) \in Seq(Platforms)
    BY <2>1 DEF TypedPhases, TypeOK
  <2>3. pending' \in [Platforms -> Seq(Resources)]
    BY <1>6, <2>1, <2>2 DEF Accept, TypedPhases, TypeOK
  <2>4. order' \in Seq(Platforms)
    BY <1>6, <2>2 DEF Accept, TypedPhases, TypeOK
  <2> QED BY <1>6, <2>3, <2>4 DEF Accept, TypedPhases, TypeOK
<1>7. ASSUME NEW r \in Ingested, RunnerEnqueue(r) PROVE TypedPhases'
  <2>1. r \in Resources /\ Accept("runner", r) /\ "runner" \in Actors
    BY <1>7 DEF RunnerEnqueue, Actors
  <2>2. /\ queued' \subseteq Resources
        /\ pending' \in [Platforms -> Seq(Resources)]
        /\ order' \in Seq(Platforms)
        /\ owes' \subseteq Actors
    BY <2>1, <1>6
  <2> QED
    BY <1>7, <2>2 DEF RunnerEnqueue, TypedPhases, TypeOK, Phases, lifecycle,
                      platVars, workVars, writeVars, dispVars
<1>8. CASE DispatchFetch
  BY <1>8 DEF DispatchFetch, TypedPhases, TypeOK, Phases, lifecycle, waitVars, platVars, workVars, writeVars
<1>9. ASSUME NEW r \in DueResources, DispatchEnqueue(r) PROVE TypedPhases'
  <2>1. r \in Resources /\ "dispatcher" \in Actors
    BY DEF Actors
  <2>2. /\ queued' \subseteq Resources
        /\ pending' \in [Platforms -> Seq(Resources)]
        /\ order' \in Seq(Platforms)
        /\ owes' \subseteq Actors
    <3>1. CASE Accept("dispatcher", r)
      BY <2>1, <3>1, <1>6
    <3>2. CASE UNCHANGED <<waitVars, owes>>
      BY <3>2 DEF TypedPhases, TypeOK, waitVars
    <3> QED BY <1>9, <3>1, <3>2 DEF DispatchEnqueue
  <2>3. spc' \in {"idle", "enqueue", "done"} /\ list' \subseteq DueResources
    BY <1>9 DEF DispatchEnqueue, TypedPhases, TypeOK
  <2> QED
    BY <1>9, <2>2, <2>3 DEF DispatchEnqueue, TypedPhases, TypeOK, Phases, lifecycle,
                            platVars, workVars, writeVars
<1>10. CASE DispatchEnd
  BY <1>10 DEF DispatchEnd, TypedPhases, TypeOK, Phases, lifecycle, waitVars, platVars, workVars, writeVars
<1>11. CASE DispatchExit
  BY <1>11 DEF DispatchExit, TypedPhases, TypeOK, Phases, lifecycle, waitVars, platVars, workVars, writeVars
<1>12. ASSUME NEW w \in Workers, Claim(w) PROVE TypedPhases'
  <2>1. PICK offset \in 0..(Len(order) - 1) :
          LET p == order[ScanIndex(offset)] IN
          /\ FirstClaimable(offset)
          /\ job' = [job EXCEPT ![w] = Head(pending[p])]
          /\ pending' = [pending EXCEPT ![p] = Tail(@)]
          /\ inUse' = [inUse EXCEPT ![p] = @ + 1]
          /\ halfOpen' = [halfOpen EXCEPT ![p] = circuit[p] = "elapsed"]
          /\ cursor' = ScanIndex(offset) % Len(order)
    BY <1>12 DEF Claim
  <2> DEFINE p == order[ScanIndex(offset)]
  <2>2. p \in Platforms /\ ScanIndex(offset) \in 1..Len(order)
    BY ScanIndexInRange DEF TypedPhases
  <2>3. pending[p] \in Seq(Resources) /\ pending[p] # <<>>
    BY <2>1, <2>2 DEF FirstClaimable, Claimable, TypedPhases, TypeOK
  <2>4. Head(pending[p]) \in Resources /\ Tail(pending[p]) \in Seq(Resources)
    BY <2>3
  <2>5. cursor' \in Nat
    <3>1. Len(order) \in Nat
      BY DEF TypedPhases, TypeOK
    <3>2. Len(order) > 0 /\ ScanIndex(offset) \in Nat
      BY <2>2, <3>1
    <3> QED BY <2>1, <3>1, <3>2
  <2>6. /\ pending' \in [Platforms -> Seq(Resources)]
        /\ inUse' \in [Platforms -> Nat]
    <3>1. pending' = [pending EXCEPT ![p] = Tail(pending[p])]
      BY <2>1
    <3>2. inUse' = [inUse EXCEPT ![p] = inUse[p] + 1]
      BY <2>1
    <3> HIDE DEF p
    <3>3. pending' \in [Platforms -> Seq(Resources)]
      BY <3>1, <2>2, <2>4 DEF TypedPhases, TypeOK
    <3>4. inUse \in [Platforms -> Nat] /\ p \in Platforms
      BY <2>2 DEF TypedPhases, TypeOK
    <3>5. inUse' \in [Platforms -> Nat]
      BY <3>2, <3>4
    <3> QED BY <3>3, <3>5
  <2>7. halfOpen' \in [Platforms -> BOOLEAN]
    BY <2>1 DEF TypedPhases, TypeOK
  <2>8. job' \in [Workers -> Resources \cup {NoJob}] /\ job'[w] # NoJob
    BY <2>1, <2>4 DEF TypedPhases, TypeOK
  <2>9. TypeOK'
    <3>1. /\ active' \in Nat
          /\ pc' \in [Workers -> {"scan", "sleep", "check", "send", "done"}]
          /\ owes' \subseteq Actors
      <4>1. /\ active' = active + 1 /\ pc' = [pc EXCEPT ![w] = "check"]
            /\ owes' = owes \cup {w}
        BY <1>12 DEF Claim
      <4>2. /\ active \in Nat /\ owes \subseteq Actors
            /\ pc \in [Workers -> {"scan", "sleep", "check", "send", "done"}]
        BY DEF TypedPhases, TypeOK
      <4> QED BY <4>1, <4>2 DEF Actors
    <3>2. UNCHANGED <<lifecycle, queued, order, failStreak, circuit, wake, skip,
                      timer, results, writeVars, dispVars>>
      BY <1>12 DEF Claim
    <3> HIDE DEF p
    <3> QED BY <2>5, <2>6, <2>7, <2>8, <3>1, <3>2 DEF TypedPhases, TypeOK, lifecycle,
               writeVars, dispVars
  <2>10. Phases'
    BY <1>12, <2>1, <2>8 DEF Claim, TypedPhases, TypeOK, Phases, lifecycle
  <2> QED BY <2>9, <2>10 DEF TypedPhases
<1>13. ASSUME NEW w \in Workers, Sleep(w) PROVE TypedPhases'
  BY <1>13 DEF Sleep, TypedPhases, TypeOK, Phases, lifecycle, waitVars, platVars, writeVars, dispVars
<1>14. ASSUME NEW w \in Workers, WakeUp(w) PROVE TypedPhases'
  BY <1>14 DEF WakeUp, TypedPhases, TypeOK, Phases, lifecycle, waitVars, platVars, writeVars, dispVars
<1>15. ASSUME NEW w \in Workers, WorkerExit(w) PROVE TypedPhases'
  BY <1>15 DEF WorkerExit, TypedPhases, TypeOK, Phases, lifecycle, waitVars, platVars, writeVars, dispVars
<1>16. ASSUME NEW w \in Workers, FinishCheck(w) PROVE TypedPhases'
  <2> DEFINE p == PlatformOf[job[w]]
  <2>1. job[w] \in Resources /\ p \in Platforms
    BY <1>16 DEF FinishCheck, TypedPhases, TypeOK, Phases
  <2>2. PICK outcome \in Outcomes :
          /\ skip' = [skip EXCEPT ![w] = outcome = "cancel" /\ cancelled]
          /\ RecordOutcome(p, outcome = "fail")
    BY <1>16 DEF FinishCheck
  <2>3. skip' \in [Workers -> BOOLEAN]
    BY <2>2 DEF TypedPhases, TypeOK
  <2>4. failStreak' \in [Platforms -> 0..CircuitFailures]
    BY <2>1, <2>2 DEF RecordOutcome, TypedPhases, TypeOK
  <2>5. circuit' \in [Platforms -> Circuits]
    <3>1. \E c \in Circuits : circuit' = [circuit EXCEPT ![p] = c]
      <4> HIDE DEF p
      <4>1. circuit[p] \in Circuits
        BY <2>1 DEF TypedPhases, TypeOK
      <4> QED BY <2>2, <4>1 DEF RecordOutcome, Circuits
    <3> HIDE DEF p
    <3> QED BY <2>1, <3>1 DEF TypedPhases, TypeOK
  <2>6. halfOpen' \in [Platforms -> BOOLEAN]
    BY <2>2 DEF RecordOutcome, TypedPhases, TypeOK
  <2>7. inUse' \in [Platforms -> Nat] /\ active' \in Nat
    BY <1>16, <2>1 DEF FinishCheck, TypedPhases, TypeOK
  <2>8. TypeOK'
    BY <1>16, <2>3, <2>4, <2>5, <2>6, <2>7 DEF FinishCheck, TypedPhases, TypeOK,
         Actors, lifecycle, waitVars, writeVars, dispVars
  <2>9. Phases'
    BY <1>16 DEF FinishCheck, TypedPhases, TypeOK, Phases, lifecycle
  <2> QED BY <2>8, <2>9 DEF TypedPhases
<1>17. ASSUME NEW w \in Workers, Send(w) PROVE TypedPhases'
  BY <1>17 DEF Send, Completions, TypedPhases, TypeOK, Phases, lifecycle, waitVars, platVars, writeVars, dispVars
<1>18. ASSUME NEW p \in Platforms, CooldownElapses(p) PROVE TypedPhases'
  BY <1>18 DEF CooldownElapses, Circuits, TypedPhases, TypeOK, Phases, lifecycle, waitVars, workVars, writeVars, dispVars
<1>19. CASE Receive
  <2>1. results' \in Seq(Completions) /\ Head(results) \in Completions
    BY <1>19 DEF Receive, TypedPhases, TypeOK
  <2>2. Head(results).res \in Resources
    BY <2>1 DEF Completions
  <2>3. queued' \subseteq Resources /\ owes' \subseteq Actors /\ wbuf' \subseteq Resources
    BY <1>19, <2>2 DEF Receive, TypedPhases, TypeOK, Actors, writeVars
  <2>4. wpc' \in {"loop", "finalize", "done"}
    BY <1>19 DEF Receive, TypedPhases, TypeOK, writeVars
  <2> QED
    BY <1>19, <2>1, <2>3, <2>4 DEF Receive, TypedPhases, TypeOK, Phases, lifecycle,
                                   platVars, workVars, dispVars
<1>20. CASE Flush
  BY <1>20 DEF Flush, TypedPhases, TypeOK, Phases, lifecycle, waitVars, platVars, workVars, dispVars
<1>21. ASSUME NEW r \in Resources, Finalize(r) PROVE TypedPhases'
  BY <1>21 DEF Finalize, TypedPhases, TypeOK, Phases, Actors, lifecycle, platVars, workVars, dispVars
<1>22. CASE WriterExit
  BY <1>22 DEF WriterExit, TypedPhases, TypeOK, Phases, lifecycle, waitVars, platVars, workVars, dispVars
<1>23. CASE UNCHANGED vars
  BY <1>23 DEF vars, TypedPhases, TypeOK, Phases, lifecycle, waitVars, platVars, workVars, writeVars, dispVars
<1> QED
  BY <1>1, <1>2, <1>3, <1>4, <1>5, <1>7, <1>8, <1>9, <1>10, <1>11, <1>12, <1>13,
     <1>14, <1>15, <1>16, <1>17, <1>18, <1>19, <1>20, <1>21, <1>22, <1>23
  DEF Next, DispatcherStep, WorkerStep, WriterStep

\* The queue's state keeps its type: in particular q.active and every
\* platform's inUse never go negative, and q.platformCursor stays an index.
THEOREM QueueTypes == Spec => []TypeOK
<1>1. Spec => []TypedPhases
  BY InitTyped, TypedStep, PTL DEF Spec
<1> QED BY <1>1, PTL DEF TypedPhases

-----------------------------------------------------------------------------
(* The counters and the half-open probe *)

\* A waiting candidate waits in the queue of its own platform.
PendingByPlatform ==
    \A p \in Platforms : \A i \in 1..Len(pending[p]) : PlatformOf[pending[p][i]] = p

PoolInv == TypedPhases /\ PendingByPlatform /\ CountersExact /\ SingleProbe

LEMMA CheckingFinite ==
    ASSUME NEW p \in Platforms
    PROVE  IsFiniteSet(Checking) /\ IsFiniteSet(CheckingOn(p))
<1>1. Checking \subseteq Workers /\ CheckingOn(p) \subseteq Checking
  BY DEF Checking, CheckingOn
<1>2. IsFiniteSet(Checking)
  BY <1>1, QueueAssumption, FS_Subset
<1> QED BY <1>1, <1>2, FS_Subset

\* A step that neither starts nor ends a check keeps the counters exact.
LEMMA SameChecking ==
    ASSUME PoolInv, TypedPhases',
           \A w \in Workers : pc'[w] = "check" <=> pc[w] = "check",
           \A w \in Workers : pc[w] = "check" => job'[w] = job[w],
           UNCHANGED <<active, inUse, halfOpen>>,
           \A p \in Platforms : circuit[p] = "elapsed" => circuit'[p] = "elapsed"
    PROVE  CountersExact' /\ SingleProbe'
<1>1. Checking' = Checking
  BY DEF Checking
<1>2. ASSUME NEW p \in Platforms PROVE CheckingOn(p)' = CheckingOn(p)
  BY <1>1 DEF Checking, CheckingOn
<1>3. CountersExact'
  BY <1>1, <1>2 DEF PoolInv, CountersExact
<1>4. SingleProbe'
  BY <1>2 DEF PoolInv, SingleProbe
<1> QED BY <1>3, <1>4

LEMMA InitPool == Init => PoolInv
<1> SUFFICES ASSUME Init PROVE PoolInv
  OBVIOUS
<1>1. Checking = {}
  BY DEF Init, Checking
<1>2. \A p \in Platforms : CheckingOn(p) = {}
  BY <1>1 DEF CheckingOn
<1>3. Cardinality({}) = 0
  BY FS_EmptySet
<1>4. CountersExact
  BY <1>1, <1>2, <1>3 DEF Init, CountersExact
<1>5. \A p \in Platforms : ~halfOpen[p] /\ Cardinality(CheckingOn(p)) = 0
  BY <1>2, <1>3 DEF Init
<1>6. SingleProbe
  BY <1>5, QueueAssumption DEF SingleProbe
<1>7. PendingByPlatform
  BY DEF Init, PendingByPlatform
<1> QED BY <1>4, <1>6, <1>7, InitTyped DEF PoolInv

LEMMA PendingStep == PoolInv /\ [Next]_vars => PendingByPlatform'
<1> SUFFICES ASSUME PoolInv, [Next]_vars PROVE PendingByPlatform'
  OBVIOUS
<1> USE QueueAssumption
<1>1. ASSUME NEW a, NEW r \in Resources, Accept(a, r) PROVE PendingByPlatform'
  <2> DEFINE p == PlatformOf[r]
  <2>1. p \in Platforms /\ pending' = [pending EXCEPT ![p] = Append(pending[p], r)]
    BY <1>1 DEF Accept
  <2>2. pending \in [Platforms -> Seq(Resources)]
    BY DEF PoolInv, TypedPhases, TypeOK
  <2>3. SUFFICES ASSUME NEW q \in Platforms, NEW i \in 1..Len(pending'[q])
                 PROVE  PlatformOf[pending'[q][i]] = q
    BY DEF PendingByPlatform
  <2>4. CASE q # p
    BY <2>1, <2>2, <2>3, <2>4 DEF PoolInv, PendingByPlatform
  <2>5. CASE q = p
    <3> HIDE DEF p
    <3>1. pending'[q] = Append(pending[p], r) /\ pending[p] \in Seq(Resources)
      BY <2>1, <2>2, <2>5
    <3>2. i \in 1..Len(pending[p]) \/ i = Len(pending[p]) + 1
      BY <2>3, <3>1
    <3>3. CASE i \in 1..Len(pending[p])
      <4>1. pending'[q][i] = pending[p][i]
        BY <3>1, <3>3
      <4> QED BY <4>1, <3>3, <2>5 DEF PoolInv, PendingByPlatform
    <3>4. CASE i = Len(pending[p]) + 1
      <4>1. pending'[q][i] = r
        BY <3>1, <3>4
      <4> QED BY <4>1, <2>5 DEF p
    <3> QED BY <3>2, <3>3, <3>4
  <2> QED BY <2>4, <2>5
<1>2. ASSUME NEW w \in Workers, Claim(w) PROVE PendingByPlatform'
  <2>1. PICK offset \in 0..(Len(order) - 1) :
          /\ FirstClaimable(offset)
          /\ pending' = [pending EXCEPT ![order[ScanIndex(offset)]] = Tail(@)]
    BY <1>2 DEF Claim
  <2> DEFINE p == order[ScanIndex(offset)]
  <2>2. p \in Platforms
    BY ScanIndexInRange DEF PoolInv, TypedPhases
  <2>3. pending' = [pending EXCEPT ![p] = Tail(pending[p])]
    BY <2>1
  <2>4. pending[p] # <<>>
    BY <2>1 DEF FirstClaimable, Claimable
  <2>5. pending \in [Platforms -> Seq(Resources)]
    BY DEF PoolInv, TypedPhases, TypeOK
  <2> HIDE DEF p
  <2>6. SUFFICES ASSUME NEW q \in Platforms, NEW i \in 1..Len(pending'[q])
                 PROVE  PlatformOf[pending'[q][i]] = q
    BY DEF PendingByPlatform
  <2>7. CASE q # p
    BY <2>2, <2>3, <2>5, <2>6, <2>7 DEF PoolInv, PendingByPlatform
  <2>8. CASE q = p
    <3>1. pending'[q] = Tail(pending[p]) /\ pending[p] \in Seq(Resources)
      BY <2>2, <2>3, <2>5, <2>8
    <3>2. i + 1 \in 1..Len(pending[p]) /\ pending'[q][i] = pending[p][i + 1]
      BY <2>4, <2>6, <3>1
    <3> QED BY <3>2, <2>2, <2>8 DEF PoolInv, PendingByPlatform
  <2> QED BY <2>7, <2>8
<1>3. CASE Start
  BY <1>3 DEF Start, PendingByPlatform
<1>4. ASSUME UNCHANGED pending PROVE PendingByPlatform'
  BY <1>4 DEF PoolInv, PendingByPlatform
<1>5. UNCHANGED pending \/ Start \/ (\E w \in Workers : Claim(w))
       \/ (\E a : \E r \in Resources : Accept(a, r))
  BY DEF Next, DispatcherStep, WorkerStep, WriterStep, ParentCancel, Stop, FinishStop,
         SignalWake, RunnerEnqueue, DispatchFetch, DispatchEnqueue, DispatchEnd,
         DispatchExit, Sleep, WakeUp, WorkerExit, FinishCheck, Send, CooldownElapses,
         Receive, Flush, Finalize, WriterExit, waitVars, vars
<1> QED BY <1>1, <1>2, <1>3, <1>4, <1>5

LEMMA ClaimCounts ==
    ASSUME PoolInv, TypedPhases', NEW w \in Workers, Claim(w)
    PROVE  CountersExact' /\ SingleProbe'
<1> USE QueueAssumption
<1>1. PICK offset \in 0..(Len(order) - 1) :
        LET p == order[ScanIndex(offset)] IN
        /\ FirstClaimable(offset)
        /\ job' = [job EXCEPT ![w] = Head(pending[p])]
        /\ inUse' = [inUse EXCEPT ![p] = @ + 1]
        /\ halfOpen' = [halfOpen EXCEPT ![p] = circuit[p] = "elapsed"]
  BY DEF Claim
<1>2. PICK p \in Platforms : p = order[ScanIndex(offset)] /\ Claimable(p)
  BY <1>1, ScanIndexInRange DEF FirstClaimable, PoolInv, TypedPhases
<1>3. /\ job' = [job EXCEPT ![w] = Head(pending[p])]
      /\ inUse' = [inUse EXCEPT ![p] = inUse[p] + 1]
      /\ halfOpen' = [halfOpen EXCEPT ![p] = (circuit[p] = "elapsed")]
  BY <1>1, <1>2
<1>4. PlatformOf[Head(pending[p])] = p
  <2>1. pending[p] \in Seq(Resources) /\ pending[p] # <<>>
    BY <1>2 DEF PoolInv, TypedPhases, TypeOK, Claimable
  <2>2. 1 \in 1..Len(pending[p]) /\ Head(pending[p]) = pending[p][1]
    BY <2>1
  <2> QED BY <1>2, <2>2 DEF PoolInv, PendingByPlatform
<1>5. /\ pc \in [Workers -> {"scan", "sleep", "check", "send", "done"}]
      /\ job \in [Workers -> Resources \cup {NoJob}]
      /\ pc[w] = "scan" /\ pc' = [pc EXCEPT ![w] = "check"]
      /\ active' = active + 1 /\ circuit' = circuit
  BY DEF PoolInv, TypedPhases, TypeOK, Claim
<1>6. Checking' = Checking \cup {w} /\ w \notin Checking
  BY <1>5 DEF Checking
<1>7. CheckingOn(p)' = CheckingOn(p) \cup {w} /\ w \notin CheckingOn(p)
  BY <1>3, <1>4, <1>5, <1>6 DEF Checking, CheckingOn
<1>8. ASSUME NEW q \in Platforms, q # p PROVE CheckingOn(q)' = CheckingOn(q)
  BY <1>3, <1>4, <1>5, <1>6, <1>8 DEF Checking, CheckingOn
<1>9. Cardinality(Checking') = Cardinality(Checking) + 1
  BY <1>2, <1>6, CheckingFinite, FS_AddElement
<1>10. Cardinality(CheckingOn(p)') = Cardinality(CheckingOn(p)) + 1
  BY <1>2, <1>7, CheckingFinite, FS_AddElement
<1>11. inUse \in [Platforms -> Nat] /\ halfOpen \in [Platforms -> BOOLEAN]
  BY DEF PoolInv, TypedPhases, TypeOK
<1>12. CountersExact'
  BY <1>2, <1>3, <1>5, <1>8, <1>9, <1>10, <1>11 DEF PoolInv, CountersExact
<1>13. ASSUME NEW q \in Platforms
       PROVE  /\ Cardinality(CheckingOn(q)') <= PlatformLimit
              /\ halfOpen'[q] => circuit'[q] = "elapsed" /\ Cardinality(CheckingOn(q)') = 1
  <2>1. CASE q # p
    BY <1>3, <1>5, <1>8, <1>11, <2>1 DEF PoolInv, SingleProbe
  <2>2. CASE q = p
    <3>1. inUse[p] = Cardinality(CheckingOn(p))
      BY <1>2 DEF PoolInv, CountersExact
    <3>2. CASE circuit[p] = "elapsed"
      BY <1>2, <1>5, <1>10, <2>2, <3>1, <3>2 DEF Claimable
    <3>3. CASE circuit[p] # "elapsed"
      <4>1. ~halfOpen'[p]
        BY <1>2, <1>3, <1>11, <3>3
      <4>2. inUse[p] < PlatformLimit
        BY <1>2, <3>3 DEF Claimable
      <4> QED BY <1>2, <1>10, <1>11, <2>2, <3>1, <4>1, <4>2
    <3> QED BY <3>2, <3>3
  <2> QED BY <2>1, <2>2
<1>14. SingleProbe'
  BY <1>13 DEF SingleProbe
<1> QED BY <1>12, <1>14

LEMMA FinishCounts ==
    ASSUME PoolInv, TypedPhases', NEW w \in Workers, FinishCheck(w)
    PROVE  CountersExact' /\ SingleProbe'
<1> USE QueueAssumption
<1>1. PICK p \in Platforms : p = PlatformOf[job[w]]
  BY DEF FinishCheck, PoolInv, TypedPhases, TypeOK, Phases
<1>2. PICK failed \in BOOLEAN : RecordOutcome(p, failed)
  BY <1>1 DEF FinishCheck, Outcomes
<1>3. /\ inUse' = [inUse EXCEPT ![p] = IF inUse[p] > 0 THEN inUse[p] - 1 ELSE inUse[p]]
      /\ active' = IF active > 0 THEN active - 1 ELSE active
      /\ pc[w] = "check" /\ pc' = [pc EXCEPT ![w] = "send"] /\ job' = job
  BY <1>1 DEF FinishCheck
<1>4. /\ inUse \in [Platforms -> Nat] /\ active \in Nat
      /\ halfOpen \in [Platforms -> BOOLEAN] /\ circuit \in [Platforms -> Circuits]
      /\ pc \in [Workers -> {"scan", "sleep", "check", "send", "done"}]
  BY DEF PoolInv, TypedPhases, TypeOK
<1>5. Checking' = Checking \ {w} /\ w \in Checking
  BY <1>3, <1>4 DEF Checking
<1>6. CheckingOn(p)' = CheckingOn(p) \ {w} /\ w \in CheckingOn(p)
  BY <1>1, <1>3, <1>5 DEF Checking, CheckingOn
<1>7. ASSUME NEW q \in Platforms, q # p PROVE CheckingOn(q)' = CheckingOn(q)
  BY <1>1, <1>3, <1>5, <1>7 DEF Checking, CheckingOn
<1>8. /\ Cardinality(Checking') = Cardinality(Checking) - 1
      /\ Cardinality(Checking') \in Nat
  BY <1>1, <1>5, CheckingFinite, FS_RemoveElement, FS_CardinalityType
<1>9. /\ Cardinality(CheckingOn(p)') = Cardinality(CheckingOn(p)) - 1
      /\ Cardinality(CheckingOn(p)') \in Nat
  BY <1>1, <1>6, CheckingFinite, FS_RemoveElement, FS_CardinalityType
<1>10. halfOpen' = [halfOpen EXCEPT ![p] = FALSE]
  BY <1>2 DEF RecordOutcome
<1>11. \A q \in Platforms : q # p => circuit'[q] = circuit[q]
  BY <1>2, <1>4 DEF RecordOutcome
<1>12. CountersExact'
  BY <1>1, <1>3, <1>4, <1>7, <1>8, <1>9 DEF PoolInv, CountersExact
<1>13. ASSUME NEW q \in Platforms
       PROVE  /\ Cardinality(CheckingOn(q)') <= PlatformLimit
              /\ halfOpen'[q] => circuit'[q] = "elapsed" /\ Cardinality(CheckingOn(q)') = 1
  <2>1. CASE q # p
    BY <1>4, <1>7, <1>10, <1>11, <2>1 DEF PoolInv, SingleProbe
  <2>2. CASE q = p
    <3>1. ~halfOpen'[q]
      BY <1>1, <1>4, <1>10, <2>2
    <3>2. Cardinality(CheckingOn(p)) <= PlatformLimit
      BY <1>1 DEF PoolInv, SingleProbe
    <3>3. Cardinality(CheckingOn(p)) \in Nat
      BY CheckingFinite, FS_CardinalityType
    <3> QED BY <1>9, <2>2, <3>1, <3>2, <3>3
  <2> QED BY <2>1, <2>2
<1>14. SingleProbe'
  BY <1>13 DEF SingleProbe
<1> QED BY <1>12, <1>14

LEMMA PoolStep == PoolInv /\ [Next]_vars => PoolInv'
<1> SUFFICES ASSUME PoolInv, [Next]_vars PROVE CountersExact' /\ SingleProbe'
  BY PendingStep, TypedStep DEF PoolInv
<1>1. TypedPhases' /\ TypedPhases
  BY TypedStep DEF PoolInv
<1>2. ASSUME NEW w \in Workers, Claim(w) PROVE CountersExact' /\ SingleProbe'
  BY <1>1, <1>2, ClaimCounts
<1>3. ASSUME NEW w \in Workers, FinishCheck(w) PROVE CountersExact' /\ SingleProbe'
  BY <1>1, <1>3, FinishCounts
<1>4. CASE Start
  <2>1. Checking = {} /\ Checking' = {}
    BY <1>1, <1>4 DEF Start, Checking, TypedPhases, Phases
  <2>2. \A p \in Platforms : CheckingOn(p)' = {} /\ Cardinality(CheckingOn(p)') = 0
    BY <2>1, FS_EmptySet DEF CheckingOn
  <2>3. CountersExact'
    BY <1>4, <2>1, <2>2, FS_EmptySet DEF Start, CountersExact
  <2>4. \A p \in Platforms : ~halfOpen'[p]
    BY <1>4 DEF Start
  <2>5. SingleProbe'
    BY <2>2, <2>4, QueueAssumption DEF SingleProbe
  <2> QED BY <2>3, <2>5
<1>5. ASSUME NEW p \in Platforms, CooldownElapses(p) PROVE CountersExact' /\ SingleProbe'
  <2>1. UNCHANGED <<pc, job, active, inUse, halfOpen>>
    BY <1>5 DEF CooldownElapses, workVars
  <2>2. \A q \in Platforms : circuit[q] = "elapsed" => circuit'[q] = "elapsed"
    BY <1>1, <1>5 DEF CooldownElapses, TypedPhases, TypeOK
  <2> QED BY <1>1, <2>1, <2>2, SameChecking
<1>6. ASSUME NEW w \in Workers, Send(w) \/ Sleep(w) \/ WakeUp(w) \/ WorkerExit(w)
      PROVE  CountersExact' /\ SingleProbe'
  <2>1. UNCHANGED <<active, inUse, halfOpen, circuit>>
    BY <1>6 DEF Send, Sleep, WakeUp, WorkerExit, platVars
  <2>2. \A v \in Workers : /\ pc'[v] = "check" <=> pc[v] = "check"
                           /\ pc[v] = "check" => job'[v] = job[v]
    BY <1>1, <1>6 DEF Send, Sleep, WakeUp, WorkerExit, TypedPhases, TypeOK
  <2> QED BY <1>1, <2>1, <2>2, SameChecking
<1>7. ASSUME UNCHANGED <<pc, job, active, inUse, halfOpen, circuit>>
      PROVE  CountersExact' /\ SingleProbe'
  BY <1>1, <1>7, SameChecking
<1>8. \/ UNCHANGED <<pc, job, active, inUse, halfOpen, circuit>> \/ Start
      \/ \E w \in Workers : \/ Claim(w) \/ FinishCheck(w)
                            \/ Send(w) \/ Sleep(w) \/ WakeUp(w) \/ WorkerExit(w)
      \/ \E p \in Platforms : CooldownElapses(p)
  BY DEF Next, DispatcherStep, WorkerStep, WriterStep, ParentCancel, Stop, FinishStop,
         SignalWake, RunnerEnqueue, DispatchFetch, DispatchEnqueue, DispatchEnd,
         DispatchExit, Receive, Flush, Finalize, WriterExit, workVars, platVars, vars
<1> QED BY <1>2, <1>3, <1>4, <1>5, <1>6, <1>7, <1>8

\* q.active and every platform's inUse count exactly the checks in flight,
\* through every claim, release, stop and restart.
THEOREM QueueCounters == Spec => []CountersExact
<1>1. Spec => []PoolInv
  BY InitPool, PoolStep, PTL DEF Spec
<1> QED BY <1>1, PTL DEF PoolInv

\* No platform ever runs more than PlatformLimit checks, and a half-open
\* platform runs exactly one, whatever was in flight when its circuit opened.
THEOREM QueueSingleProbe == Spec => []SingleProbe
<1>1. Spec => []PoolInv
  BY InitPool, PoolStep, PTL DEF Spec
<1> QED BY <1>1, PTL DEF PoolInv

-----------------------------------------------------------------------------
(* Stopping *)

\* A writer that is gone left nothing, and nobody can bring it anything; a queue
\* that has stopped has no writer.
Drained ==
    /\ wpc = "done" => results = <<>> /\ wbuf = {} /\ \A w \in Workers : pc[w] = "done"
    /\ ~started /\ ~stopping => wpc = "done"

\* Every step keeps it: the writer leaves last, with the channel and its buffer empty.
LEMMA DrainedStep == TypedPhases /\ Drained /\ [Next]_vars => Drained'
<1> SUFFICES ASSUME TypedPhases, Drained, [Next]_vars PROVE Drained'
  OBVIOUS
<1>1. CASE Start
  BY <1>1 DEF Start, Drained
<1>2. CASE ParentCancel \/ Stop \/ FinishStop
  BY <1>2 DEF ParentCancel, Stop, FinishStop, GoroutinesGone, Drained, workVars, writeVars
<1>3. ASSUME NEW w \in Workers, WorkerStep(w) PROVE Drained'
  <2>1. pc[w] # "done" /\ UNCHANGED <<lifecycle, writeVars>>
    BY <1>3 DEF WorkerStep, Claim, Sleep, WakeUp, WorkerExit, FinishCheck, Send
  <2> QED BY <2>1 DEF Drained, lifecycle, writeVars
<1>4. CASE WriterStep
  <2>1. wpc # "done" /\ UNCHANGED <<lifecycle, workVars>>
    BY <1>4 DEF WriterStep, Receive, Flush, Finalize, WriterExit
  <2>2. wpc' = "done" => results' = <<>> /\ wbuf' = {} /\ \A w \in Workers : pc[w] = "done"
    BY <1>4, <2>1 DEF WriterStep, Receive, Flush, Finalize, WriterExit, WorkersDone, writeVars
  <2> QED BY <2>1, <2>2 DEF Drained, lifecycle, workVars
<1>5. CASE UNCHANGED <<lifecycle, writeVars, workVars, results>>
  BY <1>5 DEF Drained, lifecycle, writeVars, workVars
<1>6. \/ Start \/ ParentCancel \/ Stop \/ FinishStop \/ WriterStep
      \/ \E w \in Workers : WorkerStep(w)
      \/ UNCHANGED <<lifecycle, writeVars, workVars, results>>
  BY DEF Next, DispatcherStep, SignalWake, RunnerEnqueue, DispatchFetch, DispatchEnqueue,
         DispatchEnd, DispatchExit, CooldownElapses, vars
<1> QED BY <1>1, <1>2, <1>3, <1>4, <1>5, <1>6

\* When Stop has returned nothing that a worker produced is left in the channel or in
\* the writer's buffer, whichever goroutine noticed the end of the context first.
THEOREM QueueDrained == Spec => []StoppedIsDrained
<1>1. Init => Drained
  BY DEF Init, Drained
<1>2. Spec => [](TypedPhases /\ Drained)
  BY <1>1, InitTyped, TypedStep, DrainedStep, PTL DEF Spec
<1>3. Drained => StoppedIsDrained
  BY DEF Drained, StoppedIsDrained
<1> QED BY <1>2, <1>3, PTL

-----------------------------------------------------------------------------
(* One job per resource *)

JobsUnique ==
    \A w1, w2 \in Workers : w1 # w2 /\ job[w1] # NoJob => job[w1] # job[w2]

ResultsUnique ==
    \A i, j \in 1..Len(results) : results[i].res = results[j].res => i = j

PendingUnique ==
    \A p, q \in Platforms :
      \A i \in 1..Len(pending[p]), j \in 1..Len(pending[q]) :
        pending[p][i] = pending[q][j] => p = q /\ i = j

PlacesDisjoint ==
    /\ Held \cap (Waiting \cup Completed \cup wbuf) = {}
    /\ Completed \cap (Waiting \cup wbuf) = {}
    /\ Waiting \cap wbuf = {}

\* What is in one of the places, and nothing else, is in q.queued, which Enqueue asks.
AllQueued == Waiting \cup Held \cup Completed \cup wbuf = queued

JobsInv ==
    /\ TypedPhases /\ Drained
    /\ JobsUnique /\ ResultsUnique /\ PendingUnique
    /\ PlacesDisjoint /\ AllQueued

LEMMA JobsMean == JobsInv => NoDuplicateJob
BY DEF JobsInv, NoDuplicateJob, JobsUnique, ResultsUnique, PendingUnique, PlacesDisjoint

\* A queue that starts has nobody at work and nothing left over.
LEMMA JobsStart ==
    ASSUME TypedPhases, Drained, ~started /\ ~stopping,
           pending' = [p \in Platforms |-> <<>>], queued' = {},
           job' = job, results' = results, wbuf' = wbuf
    PROVE  JobsUnique' /\ ResultsUnique' /\ PendingUnique' /\ PlacesDisjoint' /\ AllQueued'
<1>1. results = <<>> /\ wbuf = {}
  BY DEF Drained
<1>2. \A w \in Workers : job[w] = NoJob
  BY DEF TypedPhases, Phases
<1>3. Waiting' = {} /\ Held' = {} /\ Completed' = {}
  BY <1>1, <1>2 DEF Waiting, Held, Completed
<1> QED BY <1>1, <1>2, <1>3 DEF JobsUnique, ResultsUnique, PendingUnique, PlacesDisjoint, AllQueued

\* Enqueue: the candidate was nowhere, and is now the last of its platform.
LEMMA AcceptPlaces ==
    ASSUME JobsInv, NEW a, NEW r \in Resources, Accept(a, r),
           job' = job, results' = results, wbuf' = wbuf
    PROVE  JobsUnique' /\ ResultsUnique' /\ PendingUnique' /\ PlacesDisjoint' /\ AllQueued'
<1>0. PICK p \in Platforms : p = PlatformOf[r]
  BY QueueAssumption
<1>1. /\ pending \in [Platforms -> Seq(Resources)]
      /\ pending' = [pending EXCEPT ![p] = Append(pending[p], r)]
      /\ r \notin queued /\ queued' = queued \cup {r}
  BY <1>0 DEF JobsInv, TypedPhases, TypeOK, Accept
<1>2. r \notin Waiting \cup Held \cup Completed \cup wbuf
  BY <1>1 DEF JobsInv, AllQueued
<1>3. /\ pending'[p] = Append(pending[p], r) /\ pending[p] \in Seq(Resources)
      /\ \A q \in Platforms : q # p => pending'[q] = pending[q]
  BY <1>1
<1>4. /\ Len(pending'[p]) = Len(pending[p]) + 1 /\ Len(pending[p]) \in Nat
      /\ pending'[p][Len(pending[p]) + 1] = r
      /\ \A i \in 1..Len(pending[p]) : pending'[p][i] = pending[p][i]
  BY <1>3
<1>5. \A q \in Platforms : \A i \in 1..Len(pending'[q]) :
        \/ q = p /\ i = Len(pending[p]) + 1 /\ pending'[q][i] = r
        \/ i \in 1..Len(pending[q]) /\ pending'[q][i] = pending[q][i]
  <2> SUFFICES ASSUME NEW q \in Platforms, NEW i \in 1..Len(pending'[q])
               PROVE  \/ q = p /\ i = Len(pending[p]) + 1 /\ pending'[q][i] = r
                      \/ i \in 1..Len(pending[q]) /\ pending'[q][i] = pending[q][i]
    OBVIOUS
  <2>1. CASE q # p
    BY <1>3, <2>1
  <2>2. CASE q = p
    <3>1. i = Len(pending[p]) + 1 \/ i \in 1..Len(pending[p])
      BY <1>4, <2>2
    <3> QED BY <1>4, <2>2, <3>1
  <2> QED BY <2>1, <2>2
<1>6. \A q \in Platforms : \A i \in 1..Len(pending[q]) :
        pending[q][i] # r /\ i \in 1..Len(pending'[q]) /\ pending'[q][i] = pending[q][i]
  <2>1. \A q \in Platforms : \A i \in 1..Len(pending[q]) : pending[q][i] # r
    BY <1>2 DEF Waiting
  <2> QED BY <1>3, <1>4, <2>1
<1>7. Waiting' = Waiting \cup {r}
  <2>1. ASSUME NEW x \in Waiting' PROVE x \in Waiting \cup {r}
    BY <1>5, <2>1 DEF Waiting
  <2>2. ASSUME NEW x \in Waiting PROVE x \in Waiting'
    BY <1>6, <2>2 DEF Waiting
  <2>3. r \in Waiting'
    <3>1. Len(pending[p]) + 1 \in 1..Len(pending'[p])
      BY <1>4
    <3> QED BY <1>4, <3>1 DEF Waiting
  <2> QED BY <2>1, <2>2, <2>3
<1>8. Held' = Held /\ Completed' = Completed
  BY DEF Held, Completed
<1>9. PendingUnique'
  <2> SUFFICES ASSUME NEW q \in Platforms, NEW s \in Platforms,
                      NEW i \in 1..Len(pending'[q]), NEW j \in 1..Len(pending'[s]),
                      pending'[q][i] = pending'[s][j]
               PROVE  q = s /\ i = j
    BY DEF PendingUnique
  <2>0. \A u, v \in Platforms : \A k \in 1..Len(pending[u]), l \in 1..Len(pending[v]) :
          pending[u][k] = pending[v][l] => u = v /\ k = l
    BY DEF JobsInv, PendingUnique
  <2>1. \/ q = p /\ i = Len(pending[p]) + 1 /\ pending'[q][i] = r
        \/ i \in 1..Len(pending[q]) /\ pending'[q][i] = pending[q][i] /\ pending[q][i] # r
    BY <1>5, <1>6
  <2>2. \/ s = p /\ j = Len(pending[p]) + 1 /\ pending'[s][j] = r
        \/ j \in 1..Len(pending[s]) /\ pending'[s][j] = pending[s][j] /\ pending[s][j] # r
    BY <1>5, <1>6
  <2>3. CASE pending'[q][i] = r
    BY <2>1, <2>2, <2>3
  <2>4. CASE pending'[q][i] # r
    BY <2>0, <2>1, <2>2, <2>4
  <2> QED BY <2>3, <2>4
<1>10. PlacesDisjoint' /\ AllQueued'
  BY <1>1, <1>2, <1>7, <1>8 DEF JobsInv, PlacesDisjoint, AllQueued
<1> QED BY <1>9, <1>10 DEF JobsInv, JobsUnique, ResultsUnique

\* claimNext: the head of a platform's queue passes to a worker.
LEMMA ClaimPlaces ==
    ASSUME JobsInv, NEW w \in Workers, Claim(w)
    PROVE  JobsUnique' /\ ResultsUnique' /\ PendingUnique' /\ PlacesDisjoint' /\ AllQueued'
<1>0. /\ pending \in [Platforms -> Seq(Resources)] /\ job \in [Workers -> Resources \cup {NoJob}]
      /\ UNCHANGED <<queued, results, wbuf>>
  BY DEF JobsInv, TypedPhases, TypeOK, Claim, writeVars
<1>1. PICK offset \in 0..(Len(order) - 1) :
        /\ FirstClaimable(offset)
        /\ job' = [job EXCEPT ![w] = Head(pending[order[ScanIndex(offset)]])]
        /\ pending' = [pending EXCEPT ![order[ScanIndex(offset)]] = Tail(@)]
  BY DEF Claim
<1>2. PICK p \in Platforms : p = order[ScanIndex(offset)]
  BY ScanIndexInRange DEF JobsInv, TypedPhases
<1>3. pending[p] \in Seq(Resources) /\ pending[p] # <<>>
  BY <1>0, <1>1, <1>2 DEF FirstClaimable, Claimable
<1>4. PICK r \in Resources : r = Head(pending[p])
  BY <1>3
<1>5. /\ job' = [job EXCEPT ![w] = r]
      /\ pending'[p] = Tail(pending[p])
      /\ \A q \in Platforms : q # p => pending'[q] = pending[q]
  BY <1>0, <1>1, <1>2, <1>4
<1>6. /\ 1 \in 1..Len(pending[p]) /\ pending[p][1] = r
      /\ \A i \in 1..Len(pending'[p]) :
           i + 1 \in 1..Len(pending[p]) /\ pending'[p][i] = pending[p][i + 1]
      /\ \A i \in 1..Len(pending[p]) : i # 1 =>
           i - 1 \in 1..Len(pending'[p]) /\ pending'[p][i - 1] = pending[p][i]
  BY <1>3, <1>4, <1>5
<1>7. job[w] = NoJob
  BY DEF Claim, JobsInv, TypedPhases, Phases
<1>8. Waiting' = Waiting \ {r}
  <2>1. ASSUME NEW x \in Waiting' PROVE x \in Waiting /\ x # r
    <3>0. PICK q \in Platforms : \E k \in 1..Len(pending'[q]) : pending'[q][k] = x
      BY <2>1 DEF Waiting
    <3>1. PICK i \in 1..Len(pending'[q]) : pending'[q][i] = x
      BY <3>0
    <3>2. CASE q = p
      <4>1. i + 1 \in 1..Len(pending[p]) /\ x = pending[p][i + 1] /\ i + 1 # 1
        BY <1>6, <3>1, <3>2
      <4> QED BY <1>6, <2>1, <4>1 DEF Waiting, JobsInv, PendingUnique
    <3>3. CASE q # p
      <4>1. i \in 1..Len(pending[q]) /\ x = pending[q][i]
        BY <1>5, <3>1, <3>3
      <4> QED BY <1>6, <2>1, <3>3, <4>1 DEF Waiting, JobsInv, PendingUnique
    <3> QED BY <3>2, <3>3
  <2>2. ASSUME NEW x \in Waiting, x # r PROVE x \in Waiting'
    <3>0. PICK q \in Platforms : \E k \in 1..Len(pending[q]) : pending[q][k] = x
      BY <2>2 DEF Waiting
    <3>1. PICK i \in 1..Len(pending[q]) : pending[q][i] = x
      BY <3>0
    <3>2. \E j \in 1..Len(pending'[q]) : pending'[q][j] = x
      <4>1. CASE q = p
        <5>1. i # 1
          BY <1>6, <2>2, <3>1, <4>1
        <5> QED BY <1>6, <3>1, <4>1, <5>1
      <4>2. CASE q # p
        BY <1>5, <3>1, <4>2
      <4> QED BY <4>1, <4>2
    <3> QED BY <2>2, <3>2 DEF Waiting
  <2> QED BY <2>1, <2>2
<1>9. r \in Waiting
  BY <1>6 DEF Waiting
<1>10. Held' = Held \cup {r} /\ Completed' = Completed
  BY <1>0, <1>5, <1>7, QueueAssumption DEF Held, Completed
<1>11. JobsUnique'
  <2>1. \A v \in Workers : job[v] # r
    BY <1>9, QueueAssumption DEF JobsInv, PlacesDisjoint, Held
  <2> QED BY <1>0, <1>5, <2>1 DEF JobsInv, JobsUnique
<1>12. PendingUnique'
  <2> SUFFICES ASSUME NEW q \in Platforms, NEW s \in Platforms,
                      NEW i \in 1..Len(pending'[q]), NEW j \in 1..Len(pending'[s]),
                      pending'[q][i] = pending'[s][j]
               PROVE  q = s /\ i = j
    BY DEF PendingUnique
  <2> DEFINE I == IF q = p THEN i + 1 ELSE i
             J == IF s = p THEN j + 1 ELSE j
  <2>1. I \in 1..Len(pending[q]) /\ pending'[q][i] = pending[q][I]
    BY <1>5, <1>6
  <2>2. J \in 1..Len(pending[s]) /\ pending'[s][j] = pending[s][J]
    BY <1>5, <1>6
  <2>3. q = s /\ I = J
    <3>0. \A u, v \in Platforms : \A k \in 1..Len(pending[u]), l \in 1..Len(pending[v]) :
            pending[u][k] = pending[v][l] => u = v /\ k = l
      BY DEF JobsInv, PendingUnique
    <3>1. PICK k \in 1..Len(pending[q]) : k = I /\ pending'[q][i] = pending[q][k]
      <4> HIDE DEF I
      <4> QED BY <2>1
    <3>2. PICK l \in 1..Len(pending[s]) : l = J /\ pending'[s][j] = pending[s][l]
      <4> HIDE DEF J
      <4> QED BY <2>2
    <3> HIDE DEF I, J
    <3>3. pending[q][k] = pending[s][l]
      BY <3>1, <3>2
    <3>4. q = s /\ k = l
      BY <3>0, <3>3
    <3> QED BY <3>1, <3>2, <3>4
  <2>4. i \in Nat /\ j \in Nat
    OBVIOUS
  <2> QED BY <2>3, <2>4
<1>13. PlacesDisjoint' /\ AllQueued'
  BY <1>0, <1>8, <1>9, <1>10 DEF JobsInv, PlacesDisjoint, AllQueued
<1> QED BY <1>0, <1>11, <1>12, <1>13 DEF JobsInv, ResultsUnique

\* A worker hands its completion over.
LEMMA SendPlaces ==
    ASSUME JobsInv, NEW w \in Workers, Send(w)
    PROVE  JobsUnique' /\ ResultsUnique' /\ PendingUnique' /\ PlacesDisjoint' /\ AllQueued'
<1>0. /\ results \in Seq(Completions) /\ job \in [Workers -> Resources \cup {NoJob}]
      /\ UNCHANGED <<queued, pending, wbuf>>
      /\ job' = [job EXCEPT ![w] = NoJob]
  BY DEF JobsInv, TypedPhases, TypeOK, Send, waitVars, writeVars
<1>1. job[w] \in Resources
  BY <1>0 DEF Send, JobsInv, TypedPhases, Phases
<1>2. PICK c \in Completions : c.res = job[w] /\ results' = Append(results, c)
  <2> DEFINE c == [res |-> job[w], skip |-> skip[w]]
  <2>1. c \in Completions /\ c.res = job[w]
    BY <1>1 DEF Completions, JobsInv, TypedPhases, TypeOK
  <2>2. results' = Append(results, c)
    BY DEF Send
  <2> QED BY <2>1, <2>2
<1>3. /\ Len(results) \in Nat /\ Len(results') = Len(results) + 1
      /\ results'[Len(results) + 1] = c
      /\ \A i \in 1..Len(results) : results'[i] = results[i]
  BY <1>0, <1>2
<1>4. job[w] \in Held /\ Held' = Held \ {job[w]}
  <2>1. \A v \in Workers : v # w => job[v] # job[w]
    BY <1>1, QueueAssumption DEF JobsInv, JobsUnique
  <2> QED BY <1>0, <1>1, <2>1, QueueAssumption DEF Held
<1>5. Completed' = Completed \cup {job[w]}
  <2>1. ASSUME NEW x \in Completed' PROVE x \in Completed \cup {job[w]}
    <3>1. PICK i \in 1..Len(results') : x = results'[i].res
      BY <2>1 DEF Completed
    <3>2. i = Len(results) + 1 \/ i \in 1..Len(results)
      BY <1>3, <3>1
    <3> QED BY <1>2, <1>3, <3>1, <3>2 DEF Completed
  <2>2. ASSUME NEW x \in Completed PROVE x \in Completed'
    <3>1. PICK i \in 1..Len(results) : x = results[i].res
      BY <2>2 DEF Completed
    <3>2. i \in 1..Len(results') /\ results'[i] = results[i]
      BY <1>3
    <3> QED BY <3>1, <3>2 DEF Completed
  <2>3. job[w] \in Completed'
    <3>1. Len(results) + 1 \in 1..Len(results')
      BY <1>3
    <3> QED BY <1>2, <1>3, <3>1 DEF Completed
  <2> QED BY <2>1, <2>2, <2>3
<1>6. Waiting' = Waiting
  BY <1>0 DEF Waiting
<1>7. JobsUnique'
  BY <1>0 DEF JobsInv, JobsUnique
<1>8. ResultsUnique'
  <2> SUFFICES ASSUME NEW i \in 1..Len(results'), NEW j \in 1..Len(results'),
                      results'[i].res = results'[j].res
               PROVE  i = j
    BY DEF ResultsUnique
  <2>0. \A k \in 1..Len(results) : results[k].res # job[w]
    BY <1>4 DEF JobsInv, PlacesDisjoint, Completed
  <2>1. ASSUME NEW k \in 1..Len(results')
        PROVE  \/ k = Len(results) + 1 /\ results'[k].res = job[w]
               \/ /\ k \in 1..Len(results) /\ results'[k].res = results[k].res
                  /\ results'[k].res # job[w]
    <3>1. k = Len(results) + 1 \/ k \in 1..Len(results)
      BY <1>3, <2>1
    <3> QED BY <1>2, <1>3, <2>0, <3>1
  <2>2. \A k, l \in 1..Len(results) : results[k].res = results[l].res => k = l
    BY DEF JobsInv, ResultsUnique
  <2>3. CASE results'[i].res = job[w]
    BY <2>1, <2>3
  <2>4. CASE results'[i].res # job[w]
    BY <2>1, <2>2, <2>4
  <2> QED BY <2>3, <2>4
<1>9. PlacesDisjoint' /\ AllQueued'
  BY <1>0, <1>4, <1>5, <1>6 DEF JobsInv, PlacesDisjoint, AllQueued
<1> QED BY <1>0, <1>7, <1>8, <1>9 DEF JobsInv, PendingUnique

\* The writer takes the first completion: it is discarded, or buffered.
LEMMA ReceivePlaces ==
    ASSUME JobsInv, Receive
    PROVE  JobsUnique' /\ ResultsUnique' /\ PendingUnique' /\ PlacesDisjoint' /\ AllQueued'
<1>0. /\ results \in Seq(Completions) /\ results # <<>> /\ results' = Tail(results)
      /\ UNCHANGED <<pending, job>>
  BY DEF JobsInv, TypedPhases, TypeOK, Receive, workVars
<1>1. PICK r \in Resources : r = Head(results).res
  <2>1. Head(results) \in Completions
    BY <1>0
  <2> QED BY <2>1 DEF Completions
<1>2. /\ 1 \in 1..Len(results) /\ results[1] = Head(results)
      /\ \A i \in 1..Len(results') :
           i + 1 \in 1..Len(results) /\ results'[i] = results[i + 1] /\ i \in Nat
      /\ \A i \in 1..Len(results) : i # 1 =>
           i - 1 \in 1..Len(results') /\ results'[i - 1] = results[i]
  BY <1>0
<1>3. \A k, l \in 1..Len(results) : results[k].res = results[l].res => k = l
  BY DEF JobsInv, ResultsUnique
<1>4. r \in Completed
  BY <1>1, <1>2 DEF Completed
<1>5. Completed' = Completed \ {r}
  <2>1. ASSUME NEW x \in Completed' PROVE x \in Completed /\ x # r
    <3>1. PICK i \in 1..Len(results') : x = results'[i].res
      BY <2>1 DEF Completed
    <3>2. i + 1 \in 1..Len(results) /\ x = results[i + 1].res /\ i + 1 # 1
      BY <1>2, <3>1
    <3> QED BY <1>1, <1>2, <1>3, <3>2 DEF Completed
  <2>2. ASSUME NEW x \in Completed, x # r PROVE x \in Completed'
    <3>1. PICK i \in 1..Len(results) : x = results[i].res
      BY <2>2 DEF Completed
    <3>2. i - 1 \in 1..Len(results') /\ results'[i - 1] = results[i]
      BY <1>1, <1>2, <2>2, <3>1
    <3> QED BY <3>1, <3>2 DEF Completed
  <2> QED BY <2>1, <2>2
<1>6. ResultsUnique'
  <2> SUFFICES ASSUME NEW i \in 1..Len(results'), NEW j \in 1..Len(results'),
                      results'[i].res = results'[j].res
               PROVE  i = j
    BY DEF ResultsUnique
  <2>1. i + 1 \in 1..Len(results) /\ results'[i] = results[i + 1] /\ i \in Nat
    BY <1>2
  <2>2. j + 1 \in 1..Len(results) /\ results'[j] = results[j + 1] /\ j \in Nat
    BY <1>2
  <2>3. PICK k \in 1..Len(results) : k = i + 1 /\ results'[i] = results[k]
    BY <2>1
  <2>4. PICK l \in 1..Len(results) : l = j + 1 /\ results'[j] = results[l]
    BY <2>2
  <2>5. results[k].res = results[l].res
    BY <2>3, <2>4
  <2>6. k = l
    BY <1>3, <2>5
  <2> QED BY <2>1, <2>2, <2>3, <2>4, <2>6
<1>7. Waiting' = Waiting /\ Held' = Held
  BY <1>0 DEF Waiting, Held
<1>8. \/ queued' = queued \ {r} /\ wbuf' = wbuf
      \/ queued' = queued /\ wbuf' = wbuf \cup {r}
  BY <1>1 DEF Receive, writeVars
<1>9. PlacesDisjoint' /\ AllQueued'
  BY <1>4, <1>5, <1>7, <1>8 DEF JobsInv, PlacesDisjoint, AllQueued
<1> QED BY <1>0, <1>6, <1>9 DEF JobsInv, JobsUnique, PendingUnique

LEMMA JobsStep == JobsInv /\ [Next]_vars => JobsInv'
<1> SUFFICES ASSUME JobsInv, [Next]_vars
             PROVE  JobsUnique' /\ ResultsUnique' /\ PendingUnique' /\ PlacesDisjoint' /\ AllQueued'
  BY TypedStep, DrainedStep DEF JobsInv
<1>1. CASE Start
  BY <1>1, JobsStart DEF JobsInv, Start
<1>2. ASSUME NEW a, NEW r \in Resources, Accept(a, r), UNCHANGED <<job, results, wbuf>>
      PROVE  JobsUnique' /\ ResultsUnique' /\ PendingUnique' /\ PlacesDisjoint' /\ AllQueued'
  BY <1>2, AcceptPlaces
<1>3. ASSUME NEW r \in Resources, Finalize(r)
      PROVE  JobsUnique' /\ ResultsUnique' /\ PendingUnique' /\ PlacesDisjoint' /\ AllQueued'
  <2>1. /\ r \in wbuf /\ wbuf' = wbuf \ {r} /\ queued' = queued \ {r}
        /\ UNCHANGED <<pending, job, results>>
    BY <1>3 DEF Finalize, workVars
  <2>2. Waiting' = Waiting /\ Held' = Held /\ Completed' = Completed
    BY <2>1 DEF Waiting, Held, Completed
  <2>3. PlacesDisjoint' /\ AllQueued'
    BY <2>1, <2>2 DEF JobsInv, PlacesDisjoint, AllQueued
  <2> QED BY <2>1, <2>3 DEF JobsInv, JobsUnique, ResultsUnique, PendingUnique
<1>4. ASSUME UNCHANGED <<pending, job, results, wbuf, queued>>
      PROVE  JobsUnique' /\ ResultsUnique' /\ PendingUnique' /\ PlacesDisjoint' /\ AllQueued'
  <2>1. Waiting' = Waiting /\ Held' = Held /\ Completed' = Completed
    BY <1>4 DEF Waiting, Held, Completed
  <2>2. PlacesDisjoint' /\ AllQueued'
    BY <1>4, <2>1 DEF JobsInv, PlacesDisjoint, AllQueued
  <2> QED BY <1>4, <2>2 DEF JobsInv, JobsUnique, ResultsUnique, PendingUnique
<1>5. \/ Start \/ Receive
      \/ \E a : \E r \in Resources : Accept(a, r) /\ UNCHANGED <<job, results, wbuf>>
      \/ \E w \in Workers : Claim(w) \/ Send(w)
      \/ \E r \in Resources : Finalize(r)
      \/ UNCHANGED <<pending, job, results, wbuf, queued>>
  BY QueueAssumption
     DEF Next, DispatcherStep, WorkerStep, WriterStep, ParentCancel, Stop, FinishStop,
         SignalWake, RunnerEnqueue, DispatchFetch, DispatchEnqueue, DispatchEnd,
         DispatchExit, Sleep, WakeUp, WorkerExit, FinishCheck, CooldownElapses,
         Flush, WriterExit, waitVars, workVars, writeVars, vars
<1> QED BY <1>1, <1>2, <1>3, <1>4, <1>5, ClaimPlaces, SendPlaces, ReceivePlaces

LEMMA JobsInitially == Init => JobsInv
<1> SUFFICES ASSUME Init PROVE JobsInv
  OBVIOUS
<1>1. Waiting = {} /\ Held = {} /\ Completed = {}
  BY DEF Init, Waiting, Held, Completed
<1>2. Drained /\ JobsUnique /\ ResultsUnique /\ PendingUnique
  BY DEF Init, Drained, JobsUnique, ResultsUnique, PendingUnique
<1>3. PlacesDisjoint /\ AllQueued
  BY <1>1 DEF Init, PlacesDisjoint, AllQueued
<1> QED BY <1>2, <1>3, InitTyped DEF JobsInv

\* A resource is waiting, checked, in the channel or with the writer at most once,
\* for any numbers of resources, platforms and workers and across every Stop and
\* Start: Enqueue's look into q.queued is enough.
THEOREM QueueNoDuplicates == Spec => []NoDuplicateJob
<1>1. Spec => []JobsInv
  BY JobsInitially, JobsStep, PTL DEF Spec
<1> QED BY <1>1, JobsMean, PTL

-----------------------------------------------------------------------------
(* Refinement of CheckJobs *)

RefineInv == PoolInv /\ JobsInv

Checked == Unsent \cup Completed \cup wbuf

Tripped == {p \in Platforms : circuit[p] # "closed"}

LEMMA JobsCardinality == \A S : CheckJobsOf!Cardinality(S) = Cardinality(S)
  BY DEF CheckJobsOf!Cardinality, Cardinality

\* Workers hold different candidates, so that counting one counts the other.
LEMMA JobsOfWorkers ==
    ASSUME RefineInv, NEW S \in SUBSET Checking
    PROVE  Cardinality({job[w] : w \in S}) = Cardinality(S)
<1> DEFINE T == {job[w] : w \in S}
           f == [w \in S |-> job[w]]
<1>1. IsFiniteSet(S) /\ S \subseteq Workers
  <2>1. S \subseteq Workers
    BY DEF Checking
  <2> QED BY <2>1, QueueAssumption, FS_Subset
<1>2. \A v, w \in S : job[v] = job[w] => v = w
  <2>1. \A w \in S : job[w] # NoJob
    BY <1>1 DEF RefineInv, PoolInv, TypedPhases, Phases, Checking
  <2> QED BY <1>1, <2>1 DEF RefineInv, JobsInv, JobsUnique
<1>3. f \in Injection(S, T)
  BY <1>2 DEF Injection, IsInjective
<1>4. f \in Surjection(S, T)
  BY DEF Surjection
<1>5. ExistsBijection(S, T)
  BY <1>3, <1>4 DEF ExistsBijection, Bijection
<1> QED BY <1>1, <1>5, FS_Bijection

\* The places of a candidate, as the abstract state has them.
LEMMA JobPlaces ==
    ASSUME RefineInv
    PROVE  /\ Held = BeingChecked \cup Unsent
           /\ BeingChecked \cap Unsent = {}
           /\ CheckJobsOf!Idle = Waiting \cup Checked
           /\ queued = CheckJobsOf!Idle \cup BeingChecked
           /\ CheckJobsOf!Idle \cap BeingChecked = {}
           /\ queued \subseteq Resources
<1> USE DEF RefineInv, JobsInv, TypedPhases
<1>1. \A w \in Workers : job[w] # NoJob <=> pc[w] \in {"check", "send"}
  BY DEF Phases
<1>2. Held = BeingChecked \cup Unsent
  BY <1>1 DEF Held, BeingChecked, Unsent, Checking
<1>3. BeingChecked \cap Unsent = {}
  <2>1. ASSUME NEW v \in Workers, NEW w \in Workers, pc[v] = "check", pc[w] = "send"
        PROVE  job[v] # job[w]
    BY <1>1, <2>1 DEF JobsUnique
  <2> QED BY <2>1 DEF BeingChecked, Unsent, Checking
<1>4. CheckJobsOf!Idle = Waiting \cup Checked
  BY DEF CheckJobsOf!Idle, CheckJobsOf!Waits, Waiting, Checked
<1>5. queued = CheckJobsOf!Idle \cup BeingChecked
  BY <1>2, <1>4 DEF AllQueued, Checked
<1>6. CheckJobsOf!Idle \cap BeingChecked = {}
  BY <1>2, <1>3, <1>4 DEF PlacesDisjoint, Checked
<1>7. queued \subseteq Resources
  BY DEF TypeOK
<1> QED BY <1>2, <1>3, <1>4, <1>5, <1>6, <1>7

\* What Full compares with the buffer is the number of accepted candidates that are not
\* being checked.
LEMMA BufferCounts ==
    ASSUME RefineInv
    PROVE  Cardinality(queued) - active = Cardinality(CheckJobsOf!Idle)
<1>1. active = Cardinality(BeingChecked)
  <2>1. active = Cardinality(Checking)
    BY DEF RefineInv, PoolInv, CountersExact
  <2>2. Cardinality({job[w] : w \in Checking}) = Cardinality(Checking)
    BY JobsOfWorkers
  <2> QED BY <2>1, <2>2 DEF BeingChecked
<1>2. IsFiniteSet(queued)
  BY JobPlaces, QueueAssumption, FS_Subset
<1>3. CheckJobsOf!Idle = queued \ BeingChecked /\ queued \cap BeingChecked = BeingChecked
  BY JobPlaces
<1>4. Cardinality(queued \ BeingChecked) = Cardinality(queued) - Cardinality(queued \cap BeingChecked)
  BY <1>2, FS_Difference
<1> QED BY <1>1, <1>3, <1>4

\* The checks of a platform, counted by candidate and by worker.
LEMMA ChecksOfPlatform ==
    ASSUME RefineInv, NEW p \in Platforms
    PROVE  Cardinality(CheckJobsOf!On(p)) = inUse[p]
           /\ (inUse[p] = 0 => CheckJobsOf!On(p) = {})
<1>1. CheckJobsOf!On(p) = {job[w] : w \in CheckingOn(p)}
  BY DEF CheckJobsOf!On, BeingChecked, CheckingOn
<1>2. CheckingOn(p) \in SUBSET Checking
  BY DEF CheckingOn
<1>3. Cardinality({job[w] : w \in CheckingOn(p)}) = Cardinality(CheckingOn(p))
  BY <1>2, JobsOfWorkers
<1>4. Cardinality(CheckingOn(p)) = inUse[p]
  BY DEF RefineInv, PoolInv, CountersExact
<1>5. ASSUME inUse[p] = 0 PROVE CheckJobsOf!On(p) = {}
  <2>1. CheckingOn(p) = {}
    BY <1>4, <1>5, CheckingFinite, FS_EmptySet
  <2> QED BY <1>1, <2>1
<1> QED BY <1>1, <1>3, <1>4, <1>5

\* Enqueue submits the candidate.
LEMMA AcceptSubmits ==
    ASSUME RefineInv, NEW a, NEW r \in Resources, Accept(a, r),
           UNCHANGED <<job, pc, results, wbuf, circuit>>
    PROVE  CheckJobsOf!Submit(r)
<1>1. r \notin CheckJobsOf!Idle \cup BeingChecked
  BY JobPlaces DEF Accept
<1>2. Cardinality(CheckJobsOf!Idle) < Buffer
  <2>1. IsFiniteSet(queued)
    BY JobPlaces, QueueAssumption, FS_Subset
  <2>2. Cardinality(queued) \in Nat /\ active \in Nat /\ Buffer \in Nat
    BY <2>1, FS_CardinalityType, QueueAssumption DEF RefineInv, PoolInv, TypedPhases, TypeOK
  <2>3. ~(Cardinality(queued) - active >= Buffer)
    BY DEF Accept, Full
  <2> QED BY <2>2, <2>3, BufferCounts
<1>3. pending' = [pending EXCEPT ![PlatformOf[r]] = Append(@, r)]
  BY DEF Accept
<1>4. BeingChecked' = BeingChecked /\ Unsent' = Unsent /\ Completed' = Completed /\ Tripped' = Tripped
  BY DEF BeingChecked, Unsent, Completed, Tripped, Checking
<1> QED BY <1>1, <1>2, <1>3, <1>4, JobsCardinality DEF CheckJobsOf!Submit, Tripped

\* claimNext begins the check of the head of a platform's queue.
LEMMA ClaimBegins ==
    ASSUME RefineInv, NEW w \in Workers, Claim(w)
    PROVE  \E p \in Platforms : CheckJobsOf!Begin(p)
<1>1. PICK offset \in 0..(Len(order) - 1) :
        /\ FirstClaimable(offset)
        /\ job' = [job EXCEPT ![w] = Head(pending[order[ScanIndex(offset)]])]
        /\ pending' = [pending EXCEPT ![order[ScanIndex(offset)]] = Tail(@)]
  BY DEF Claim
<1>2. PICK p \in Platforms : p = order[ScanIndex(offset)] /\ Claimable(p)
  BY <1>1, ScanIndexInRange DEF FirstClaimable, RefineInv, PoolInv, TypedPhases
<1>3. /\ job' = [job EXCEPT ![w] = Head(pending[p])]
      /\ pending' = [pending EXCEPT ![p] = Tail(@)]
  BY <1>1, <1>2
<1>4. /\ pc \in [Workers -> {"scan", "sleep", "check", "send", "done"}]
      /\ job \in [Workers -> Resources \cup {NoJob}] /\ inUse \in [Platforms -> Nat]
      /\ circuit \in [Platforms -> Circuits]
      /\ pc[w] = "scan" /\ pc' = [pc EXCEPT ![w] = "check"]
      /\ UNCHANGED <<results, wbuf, circuit>>
  BY DEF RefineInv, PoolInv, TypedPhases, TypeOK, Claim, writeVars
<1>5. BeingChecked' = BeingChecked \cup {Head(pending[p])}
  <2>1. Checking' = Checking \cup {w} /\ w \notin Checking
    BY <1>4 DEF Checking
  <2>2. job'[w] = Head(pending[p]) /\ \A v \in Checking : job'[v] = job[v]
    BY <1>3, <1>4, <2>1 DEF Checking
  <2> QED BY <2>1, <2>2 DEF BeingChecked
<1>6. Unsent' = Unsent
  <2>1. \A v \in Workers : (pc'[v] = "send" <=> pc[v] = "send")
    BY <1>4
  <2>2. \A v \in Workers : pc[v] = "send" => job'[v] = job[v]
    BY <1>3, <1>4
  <2> QED BY <2>1, <2>2 DEF Unsent
<1>7. Completed' = Completed /\ Tripped' = Tripped
  BY <1>4 DEF Completed, Tripped
<1>8. pending[p] # <<>> /\ inUse[p] < PlatformLimit /\ (p \in Tripped => inUse[p] = 0)
  BY <1>2, <1>4, QueueAssumption DEF Claimable, Tripped, Circuits
<1>9. CheckJobsOf!Begin(p)
  BY <1>2, <1>3, <1>4, <1>5, <1>6, <1>7, <1>8, ChecksOfPlatform, JobsCardinality
  DEF CheckJobsOf!Begin, Tripped
<1> QED BY <1>9

\* releasePlatform ends the check and touches the breaker of its platform only.
LEMMA FinishEnds ==
    ASSUME RefineInv, NEW w \in Workers, FinishCheck(w)
    PROVE  \E r \in Resources : CheckJobsOf!End(r)
<1>1. PICK r \in Resources : r = job[w]
  BY DEF FinishCheck, RefineInv, PoolInv, TypedPhases, TypeOK, Phases
<1>2. PICK failed \in BOOLEAN : RecordOutcome(PlatformOf[r], failed)
  BY <1>1 DEF FinishCheck, Outcomes
<1>3. /\ pc \in [Workers -> {"scan", "sleep", "check", "send", "done"}]
      /\ circuit \in [Platforms -> Circuits]
      /\ pc[w] = "check" /\ pc' = [pc EXCEPT ![w] = "send"] /\ job' = job
      /\ UNCHANGED <<results, wbuf, pending>>
  BY DEF RefineInv, PoolInv, TypedPhases, TypeOK, FinishCheck, waitVars, writeVars
<1>4. \A p \in Platforms : p # PlatformOf[r] => circuit'[p] = circuit[p]
  <2>1. CASE failed
    BY <1>2, <1>3, <2>1 DEF RecordOutcome
  <2>2. CASE ~failed
    BY <1>2, <1>3, <2>2 DEF RecordOutcome
  <2> QED BY <2>1, <2>2
<1>5. Tripped' \ {PlatformOf[r]} = Tripped \ {PlatformOf[r]}
  BY <1>4 DEF Tripped
<1>6. \A v \in Workers : v # w /\ pc[v] = "check" => job[v] # r
  <2>1. r # NoJob
    BY QueueAssumption
  <2> QED BY <1>1, <2>1 DEF RefineInv, JobsInv, JobsUnique
<1>7. r \in BeingChecked /\ BeingChecked' = BeingChecked \ {r}
  <2>1. Checking' = Checking \ {w} /\ w \in Checking
    BY <1>3 DEF Checking
  <2>2. \A v \in Checking : job'[v] = job[v] /\ (job[v] = r <=> v = w)
    BY <1>1, <1>3, <1>6 DEF Checking
  <2> QED BY <1>1, <2>1, <2>2 DEF BeingChecked
<1>8. Unsent' = Unsent \cup {r}
  BY <1>1, <1>3 DEF Unsent
<1>9. Checked' = Checked \cup {r}
  BY <1>3, <1>8 DEF Checked, Completed
<1>10. CheckJobsOf!End(r)
  BY <1>3, <1>5, <1>7, <1>9 DEF CheckJobsOf!End, Tripped, Checked
<1> QED BY <1>10

\* A step that leaves the queues, the checks, the unsettled results and the breakers
\* as they are changes nothing of the abstract state.
LEMMA JobsStutter ==
    ASSUME pending' = pending, BeingChecked' = BeingChecked, Checked' = Checked,
           Tripped' = Tripped
    PROVE  UNCHANGED CheckJobsOf!vars
  BY DEF CheckJobsOf!vars, Checked, Tripped

\* Sending a result moves it from the worker to the channel.
LEMMA SendStutters ==
    ASSUME RefineInv, NEW w \in Workers, Send(w)
    PROVE  UNCHANGED CheckJobsOf!vars
<1>1. /\ pc \in [Workers -> {"scan", "sleep", "check", "send", "done"}]
      /\ job \in [Workers -> Resources \cup {NoJob}] /\ results \in Seq(Completions)
      /\ pc[w] = "send" /\ pc' = [pc EXCEPT ![w] = "scan"]
      /\ job' = [job EXCEPT ![w] = NoJob]
      /\ UNCHANGED <<pending, wbuf, circuit>>
  BY DEF RefineInv, PoolInv, TypedPhases, TypeOK, Send, waitVars, platVars, writeVars
<1>2. PICK r \in Resources : r = job[w]
  BY <1>1 DEF RefineInv, PoolInv, TypedPhases, Phases
<1>3. PICK c \in Completions : c.res = r /\ results' = Append(results, c)
  <2> DEFINE c == [res |-> job[w], skip |-> skip[w]]
  <2>1. c \in Completions /\ c.res = r
    BY <1>2 DEF Completions, RefineInv, PoolInv, TypedPhases, TypeOK
  <2>2. results' = Append(results, c)
    BY DEF Send
  <2> QED BY <2>1, <2>2
<1>4. /\ Len(results) \in Nat /\ Len(results') = Len(results) + 1
      /\ results'[Len(results) + 1] = c
      /\ \A i \in 1..Len(results) : results'[i] = results[i]
  BY <1>1, <1>3
<1>5. Completed' = Completed \cup {r}
  <2>1. \A x : x \in Completed' <=> \E i \in 1..(Len(results) + 1) : x = results'[i].res
    BY <1>4 DEF Completed
  <2>2. \A i \in 1..(Len(results) + 1) : i \in 1..Len(results) \/ i = Len(results) + 1
    BY <1>4
  <2>3. \A x \in Completed' : x \in Completed \cup {r}
    BY <1>3, <1>4, <2>1, <2>2 DEF Completed
  <2>4. \A x \in Completed : x \in Completed'
    BY <1>4, <2>1 DEF Completed
  <2>5. r \in Completed'
    BY <1>3, <1>4, <2>1
  <2> QED BY <2>3, <2>4, <2>5
<1>6. \A v \in Workers : v # w => job[v] # r
  <2>1. r # NoJob
    BY QueueAssumption
  <2> QED BY <1>2, <2>1 DEF RefineInv, JobsInv, JobsUnique
<1>7. Unsent' = Unsent \ {r} /\ r \in Unsent
  BY <1>1, <1>2, <1>6 DEF Unsent
<1>8. BeingChecked' = BeingChecked
  <2>1. Checking' = Checking /\ w \notin Checking
    BY <1>1 DEF Checking
  <2>2. \A v \in Checking : job'[v] = job[v]
    BY <1>1, <2>1 DEF Checking
  <2> QED BY <2>1, <2>2 DEF BeingChecked
<1>9. Checked' = Checked /\ Tripped' = Tripped
  BY <1>1, <1>5, <1>7 DEF Checked, Tripped
<1> QED BY <1>1, <1>8, <1>9, JobsStutter

\* The writer settles a result that is not to be stored, or keeps it.
LEMMA ReceiveSettles ==
    ASSUME RefineInv, Receive
    PROVE  (\E r \in Resources : CheckJobsOf!Settle(r)) \/ UNCHANGED CheckJobsOf!vars
<1>1. /\ results \in Seq(Completions) /\ results # <<>> /\ results' = Tail(results)
      /\ UNCHANGED <<pending, job, pc, circuit>>
  BY DEF RefineInv, PoolInv, TypedPhases, TypeOK, Receive, workVars, platVars
<1>2. PICK r \in Resources : r = Head(results).res
  <2>1. Head(results) \in Completions
    BY <1>1
  <2> QED BY <2>1 DEF Completions
<1>3. BeingChecked' = BeingChecked /\ Unsent' = Unsent /\ Tripped' = Tripped
  BY <1>1 DEF BeingChecked, Unsent, Tripped, Checking
<1>4. r \in Completed /\ Completed' = Completed \ {r}
  <2>1. /\ 1 \in 1..Len(results) /\ results[1] = Head(results)
        /\ \A i \in 1..Len(results') :
             i + 1 \in 1..Len(results) /\ results'[i] = results[i + 1] /\ i + 1 # 1
        /\ \A i \in 1..Len(results) : i # 1 =>
             i - 1 \in 1..Len(results') /\ results'[i - 1] = results[i]
    BY <1>1
  <2>2. \A k \in 1..Len(results) : results[k].res = r => k = 1
    BY <1>2, <2>1 DEF RefineInv, JobsInv, ResultsUnique
  <2>3. r \in Completed
    BY <1>2, <2>1 DEF Completed
  <2>4. ASSUME NEW x \in Completed' PROVE x \in Completed \ {r}
    <3>1. PICK i \in 1..Len(results') : x = results'[i].res
      BY <2>4 DEF Completed
    <3>2. PICK k \in 1..Len(results) : k = i + 1 /\ k # 1 /\ x = results[k].res
      BY <2>1, <3>1
    <3> QED BY <2>2, <3>2 DEF Completed
  <2>5. ASSUME NEW x \in Completed, x # r PROVE x \in Completed'
    <3>1. PICK i \in 1..Len(results) : x = results[i].res
      BY <2>5 DEF Completed
    <3>2. PICK k \in 1..Len(results') : results'[k] = results[i]
      BY <1>2, <2>1, <2>5, <3>1
    <3> QED BY <3>1, <3>2 DEF Completed
  <2> QED BY <2>3, <2>4, <2>5
<1>5. r \notin Unsent \cup wbuf
  BY <1>4, JobPlaces DEF RefineInv, JobsInv, PlacesDisjoint
<1>6. CASE wbuf' = wbuf
  <2>1. r \in Checked /\ Checked' = Checked \ {r}
    BY <1>3, <1>4, <1>5, <1>6 DEF Checked
  <2>2. CheckJobsOf!Settle(r)
    BY <1>1, <1>3, <2>1 DEF CheckJobsOf!Settle, Checked, Tripped
  <2> QED BY <2>2
<1>7. CASE wbuf' = wbuf \cup {r}
  <2>1. Checked' = Checked
    BY <1>3, <1>4, <1>7 DEF Checked
  <2> QED BY <1>1, <1>3, <2>1, JobsStutter
<1> QED BY <1>2, <1>6, <1>7 DEF Receive, writeVars

\* finalizeCompletion settles a stored result.
LEMMA FinalizeSettles ==
    ASSUME RefineInv, NEW r \in Resources, Finalize(r)
    PROVE  CheckJobsOf!Settle(r)
<1>1. r \in wbuf /\ wbuf' = wbuf \ {r} /\ UNCHANGED <<pending, job, pc, circuit, results>>
  BY DEF Finalize, workVars, platVars
<1>2. /\ BeingChecked' = BeingChecked /\ Unsent' = Unsent /\ Tripped' = Tripped
      /\ Completed' = Completed
  BY <1>1 DEF BeingChecked, Unsent, Tripped, Checking, Completed
<1>3. r \notin Unsent \cup Completed
  BY <1>1, JobPlaces DEF RefineInv, JobsInv, PlacesDisjoint
<1>4. r \in Checked /\ Checked' = Checked \ {r}
  BY <1>1, <1>2, <1>3 DEF Checked
<1> QED BY <1>1, <1>2, <1>4 DEF CheckJobsOf!Settle, Checked, Tripped

\* Start begins a generation: every result of the last one was settled before Stop
\* returned.
LEMMA StartRestarts ==
    ASSUME RefineInv, Start
    PROVE  CheckJobsOf!Restart
<1>1. results = <<>> /\ wbuf = {} /\ \A w \in Workers : pc[w] = "done"
  BY DEF RefineInv, JobsInv, Drained, Start
<1>2. BeingChecked = {} /\ Unsent = {} /\ Completed = {}
  BY <1>1 DEF BeingChecked, Unsent, Completed, Checking
<1>3. /\ pending' = [p \in Platforms |-> <<>>] /\ circuit' = [p \in Platforms |-> "closed"]
      /\ pc' = [w \in Workers |-> "scan"] /\ UNCHANGED <<results, wbuf>>
  BY DEF Start
<1>4. BeingChecked' = {} /\ Unsent' = {} /\ Completed' = {} /\ wbuf' = {}
  BY <1>1, <1>2, <1>3 DEF BeingChecked, Unsent, Completed, Checking
<1>5. Tripped' = {}
  BY <1>3 DEF Tripped
<1> QED BY <1>1, <1>2, <1>3, <1>4, <1>5 DEF CheckJobsOf!Restart, Tripped

\* Every other step moves neither a candidate nor a breaker between open and closed.
LEMMA QuietSteps ==
    ASSUME RefineInv,
           pending' = pending, results' = results, wbuf' = wbuf, job' = job,
           \A w \in Workers : (pc'[w] = "check" <=> pc[w] = "check")
                              /\ (pc'[w] = "send" <=> pc[w] = "send"),
           \A p \in Platforms : circuit'[p] = "closed" <=> circuit[p] = "closed"
    PROVE  UNCHANGED CheckJobsOf!vars
<1>1. BeingChecked' = BeingChecked /\ Unsent' = Unsent /\ Completed' = Completed
  BY DEF BeingChecked, Unsent, Completed, Checking
<1>2. Checked' = Checked /\ Tripped' = Tripped
  BY <1>1 DEF Checked, Tripped
<1> QED BY <1>1, <1>2, JobsStutter

LEMMA QueueRefinesStep ==
    RefineInv /\ [Next]_vars => [CheckJobsOf!Next]_CheckJobsOf!vars
<1> SUFFICES ASSUME RefineInv, [Next]_vars PROVE [CheckJobsOf!Next]_CheckJobsOf!vars
  OBVIOUS
<1>t. /\ pc \in [Workers -> {"scan", "sleep", "check", "send", "done"}]
      /\ circuit \in [Platforms -> Circuits]
  BY DEF RefineInv, PoolInv, TypedPhases, TypeOK
<1>1. CASE Start
  BY <1>1, StartRestarts DEF CheckJobsOf!Next
<1>2. ASSUME NEW a, NEW r \in Resources, Accept(a, r),
             UNCHANGED <<job, pc, results, wbuf, circuit>>
      PROVE  CheckJobsOf!Next
  BY <1>2, AcceptSubmits DEF CheckJobsOf!Next
<1>3. ASSUME NEW w \in Workers, Claim(w) PROVE CheckJobsOf!Next
  BY <1>3, ClaimBegins DEF CheckJobsOf!Next
<1>4. ASSUME NEW w \in Workers, FinishCheck(w) PROVE CheckJobsOf!Next
  BY <1>4, FinishEnds DEF CheckJobsOf!Next
<1>5. ASSUME NEW w \in Workers, Send(w) PROVE UNCHANGED CheckJobsOf!vars
  BY <1>5, SendStutters
<1>6. CASE Receive
  BY <1>6, ReceiveSettles DEF CheckJobsOf!Next
<1>7. ASSUME NEW r \in Resources, Finalize(r) PROVE CheckJobsOf!Next
  BY <1>7, FinalizeSettles DEF CheckJobsOf!Next
<1>8. ASSUME NEW w \in Workers, Sleep(w) \/ WakeUp(w) \/ WorkerExit(w)
      PROVE  UNCHANGED CheckJobsOf!vars
  <2>1. /\ UNCHANGED <<pending, results, wbuf, job, circuit>>
        /\ pc[w] \in {"scan", "sleep"}
        /\ \E l \in {"scan", "sleep", "done"} : pc' = [pc EXCEPT ![w] = l]
    BY <1>8 DEF Sleep, WakeUp, WorkerExit, waitVars, platVars, writeVars
  <2>2. \A v \in Workers : (pc'[v] = "check" <=> pc[v] = "check")
                           /\ (pc'[v] = "send" <=> pc[v] = "send")
    BY <1>t, <2>1
  <2> QED BY <2>1, <2>2, QuietSteps
<1>9. ASSUME NEW p \in Platforms, CooldownElapses(p) PROVE UNCHANGED CheckJobsOf!vars
  <2>1. UNCHANGED <<pending, results, wbuf, job, pc>>
    BY <1>9 DEF CooldownElapses, waitVars, workVars, writeVars
  <2>2. \A q \in Platforms : circuit'[q] = "closed" <=> circuit[q] = "closed"
    BY <1>t, <1>9 DEF CooldownElapses
  <2> QED BY <2>1, <2>2, QuietSteps
<1>10. ASSUME UNCHANGED <<pending, results, wbuf, job, pc, circuit>>
       PROVE  UNCHANGED CheckJobsOf!vars
  BY <1>10, QuietSteps
<1>11. \/ Start \/ Receive
       \/ \E a : \E r \in Resources : Accept(a, r) /\ UNCHANGED <<job, pc, results, wbuf, circuit>>
       \/ \E w \in Workers : Claim(w) \/ FinishCheck(w) \/ Send(w)
       \/ \E w \in Workers : Sleep(w) \/ WakeUp(w) \/ WorkerExit(w)
       \/ \E r \in Resources : Finalize(r)
       \/ \E p \in Platforms : CooldownElapses(p)
       \/ UNCHANGED <<pending, results, wbuf, job, pc, circuit>>
  BY QueueAssumption
     DEF Next, DispatcherStep, WorkerStep, WriterStep, ParentCancel, Stop, FinishStop,
         SignalWake, RunnerEnqueue, DispatchFetch, DispatchEnqueue, DispatchEnd,
         DispatchExit, Flush, WriterExit, waitVars, workVars, writeVars, platVars, vars
<1> QED BY <1>1, <1>2, <1>3, <1>4, <1>5, <1>6, <1>7, <1>8, <1>9, <1>10, <1>11

\* The queue implements CheckJobs for any resources, platforms, workers and limits: what
\* is accepted is checked once, in the order of its platform, and settled once
\* (linkcheck.go).
THEOREM QueueRefines == Spec => ImplementsCheckJobs
<1>1. Init => CheckJobsOf!Init
  BY DEF Init, CheckJobsOf!Init, BeingChecked, Unsent, Completed, Checking
<1>2. Spec => []RefineInv
  BY InitPool, PoolStep, JobsInitially, JobsStep, PTL DEF Spec, RefineInv
<1> QED
  BY <1>1, <1>2, QueueRefinesStep, PTL DEF Spec, ImplementsCheckJobs, CheckJobsOf!Spec
=============================================================================
