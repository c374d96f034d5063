-------------------------- MODULE KeywordSyncProofs --------------------------
(***************************************************************************)
(* Proofs about KeywordSync for any number of processes, sources,          *)
(* iterations, requests and disruptions.                                   *)
(*                                                                         *)
(* Everything rests on what a worker may assume while it executes a run    *)
(* (WorkersOK) and on the order of the runs of one source (RunsOrdered).   *)
(* The many actions touch the database by the few transactions listed in   *)
(* Transaction, and the invariants of the tables are proved from those.    *)
(***************************************************************************)
EXTENDS KeywordSync, FiniteSetTheorems, TLAPS

\* Where a worker has no run, where it has one, where it has counted the
\* iterations of it, and where it is at one of them.
Idle == {"down", "recover", "enqueue", "claim"}
InIteration == {"begin", "request", "complete"}
Counting == InIteration \cup {"next", "last", "finalize"}
Busy == InIteration \cup {"next", "last", "finalize", "fail", "interrupt"}

WorkersOK ==
    /\ pc \in [Workers -> Idle \cup Busy]
    /\ run \in [Workers -> Runs \cup {0}] /\ idx \in [Workers -> 0..Iterations]
    /\ succ \in [Workers -> Nat] /\ fail \in [Workers -> Nat]
    /\ \A w \in Workers :
         /\ pc[w] \in Busy => run[w] \in Runs
         /\ pc[w] \in Idle => run[w] = 0 /\ idx[w] = 0 /\ succ[w] = 0 /\ fail[w] = 0
         /\ pc[w] \in InIteration => idx[w] \in Steps
         /\ pc[w] = "finalize" => succ[w] > 0

SourcesTyped ==
    /\ live \in [Sources -> BOOLEAN] /\ rev \in [Sources -> Revs]
    /\ applied \in [Sources -> Nat]
    /\ stale \in [Sources -> BOOLEAN] /\ synced \in [Sources -> BOOLEAN]
    /\ last \in [Sources -> {"pending", "running", "success", "partial", "failed"}]

RunsTyped ==
    /\ rstat \in [Runs -> RunStatuses] /\ rsrc \in [Runs -> Sources]
    /\ rrev \in [Runs -> Revs] /\ holder \in [Runs -> Workers \cup {NoWorker}]
    /\ lease \in [Runs -> {"none", "live", "expired"}]
    /\ iter \in [Runs -> [Steps -> StepStatuses]] /\ nrun \in Nat
    /\ past \in [Runs -> SUBSET {"success", "failed"}]
    /\ \A r \in Runs : rstat[r] = "none" <=> r > nrun

\* The queued run of a source is its newest; no run of a source that is running
\* or was applied is newer than the one that is running.
RunsOrdered ==
    \A r, q \in Runs : rsrc[q] = rsrc[r] =>
      /\ rstat[r] = "queued" /\ rstat[q] # "none" => q <= r
      /\ rstat[r] = "running" /\ rstat[q] \in {"running", "success", "partial"} => q <= r

TablesOK == SourcesTyped /\ RunsTyped /\ RunsOrdered

\* A step of a worker or of the admin does one of these to the tables.
NewRun(s) == live[s] /\ InsertRun(s, "queued", NoWorker, "none") /\ UNCHANGED srcVars
StartRun(w, r) == Candidate(r) /\ ClaimTx(w, r)
EndsRun(w) == run[w] \in Runs /\ \E st \in {"failed", "interrupted"} : EndTx(w, st)
Applies(w) == run[w] \in Runs /\ pc[w] = "finalize" /\ FinalizeTx(w)
Writes(w) ==
    /\ run[w] \in Runs /\ idx[w] \in Steps /\ pc[w] \in InIteration /\ HasLease(w)
    /\ BeginTx(w) \/ CompleteTx(w)
    /\ \E st \in {"running", "success", "failed"} : SetIteration(w, st)
Renewal == UNCHANGED <<srcVars, rstat, rsrc, rrev, holder, iter, past, nrun>>
           /\ lease' \in [Runs -> {"none", "live", "expired"}]
Configures(s) ==
    /\ live[s] /\ rev[s] < MaxRev
    /\ rev' = [rev EXCEPT ![s] = @ + 1]
    /\ stale' = [stale EXCEPT ![s] = @ \/ synced[s] \/ applied[s] > 0]
    /\ UNCHANGED <<live, applied, synced, last, runVars>>
Deletes(s) ==
    /\ InStatus(s, "queued") \cup InStatus(s, "running") = {}
    /\ live' = [live EXCEPT ![s] = FALSE]
    /\ UNCHANGED <<rev, applied, stale, synced, last, runVars>>

Quiet ==
    \/ UNCHANGED dbVars
    \/ \E s \in Sources : NewRun(s) \/ Configures(s) \/ Deletes(s)
    \/ \E w \in Workers, r \in Runs : StartRun(w, r)
    \/ \E w \in Workers : EndsRun(w) \/ Applies(w)
    \/ \E r \in Runs : RecoverTx(r)
    \/ Renewal

Transaction == Quiet \/ \E w \in Workers : Writes(w)

-----------------------------------------------------------------------------
LEMMA BoundsTyped ==
    /\ Iterations \in Nat \ {0} /\ MaxRev \in Nat \ {0}
    /\ Cardinality(Runs) \in Nat /\ Runs \subseteq Nat \ {0}
    /\ Revs = 1..MaxRev /\ Steps = 1..Iterations
<1>1. Cardinality(Sources) \in Nat
  BY SyncAssumption, FS_CardinalityType
<1> DEFINE n == MaxRequests + Cardinality(Sources) * (MaxRev - 1)
<1>2. n \in Nat
  BY <1>1, SyncAssumption
<1>3. Runs = 1..n
  BY DEF Runs
<1> HIDE DEF n
<1>4. Cardinality(1..n) = IF 1 > n THEN 0 ELSE n - 1 + 1
  BY <1>2, FS_Interval
<1> QED BY <1>2, <1>3, <1>4, SyncAssumption DEF Revs, Steps

\* Whoever knows the run of w knows what has become of it: a step forgets it,
\* leaves it and what w has counted alone, or has just started it.
Steady(w) ==
    \/ run'[w] = 0
    \/ /\ run'[w] = run[w] /\ succ'[w] = succ[w] /\ fail'[w] = fail[w]
       /\ pc'[w] \in Counting => pc[w] \in Counting
    \/ /\ run'[w] \in Runs /\ succ'[w] = 0 /\ fail'[w] = 0
       /\ \E r \in Runs : StartRun(w, r) /\ run'[w] = Claimed(r)

\* w writes an iteration, and counts what it has completed.
Records(w) ==
    /\ Writes(w) /\ HasLease(w) /\ \A v \in Workers \ {w} : Steady(v)
    /\ \/ BeginTx(w) /\ Steady(w)
       \/ /\ CompleteTx(w)
          /\ \/ run'[w] = 0 \/ (run'[w] = run[w] /\ pc'[w] \notin Counting)
             \/ Completed(w)

LEMMA StepKinds ==
    WorkersOK /\ RunsTyped /\ [Next]_vars =>
      (Quiet /\ \A w \in Workers : Steady(w)) \/ \E w \in Workers : Records(w)
<1> SUFFICES ASSUME WorkersOK, RunsTyped, [Next]_vars
             PROVE  (Quiet /\ \A w \in Workers : Steady(w)) \/ \E w \in Workers : Records(w)
  OBVIOUS
<1> DEFINE AllSteady == \A w \in Workers : Steady(w)
<1>1. ASSUME UNCHANGED <<pc, workVars>> PROVE AllSteady
  BY <1>1 DEF workVars, Steady
<1>2. ASSUME NEW w \in Workers, NEW l, Forget(w, l) PROVE AllSteady
  BY <1>2 DEF Forget, Goto, Steady, WorkersOK
<1>3. ASSUME NEW w \in Workers, NEW l, Goto(w, l), UNCHANGED <<run, succ, fail>>,
             l \in Counting => pc[w] \in Counting
      PROVE  AllSteady
  BY <1>3 DEF Goto, Steady, WorkersOK
<1> HIDE DEF AllSteady
<1>4. ASSUME UNCHANGED vars PROVE Quiet /\ AllSteady
  BY <1>1, <1>4 DEF vars, Quiet
<1>5. ASSUME NEW s \in Sources, live[s], EnqueueTx(s) PROVE Quiet
  BY <1>5 DEF EnqueueTx, NewRun, Quiet
<1>6. ASSUME NEW s \in Sources, UpdateSource(s) PROVE Quiet /\ AllSteady
  BY <1>1, <1>6 DEF UpdateSource, Configures, Quiet
<1>7. ASSUME NEW s \in Sources, DeleteSource(s) PROVE Quiet /\ AllSteady
  BY <1>1, <1>7 DEF DeleteSource, Deletes, Quiet
<1>8. ASSUME NEW s \in Sources, Trigger(s) PROVE Quiet /\ AllSteady
  BY <1>1, <1>5, <1>8 DEF Trigger
<1>9. ASSUME NEW w \in Workers, Start(w) \/ Exit(w) PROVE Quiet /\ AllSteady
  BY <1>3, <1>9 DEF Start, Exit, workVars, Quiet, Counting, InIteration
<1>10. ASSUME NEW w \in Workers, Close(w) PROVE Quiet /\ AllSteady
  BY <1>1, <1>10 DEF Close, Quiet
<1>11. ASSUME NEW w \in Workers, Crash(w) PROVE Quiet /\ AllSteady
  BY <1>2, <1>11 DEF Crash, Quiet
<1>12. ASSUME NEW w \in Workers, HeartbeatFails(w) PROVE Quiet /\ AllSteady
  BY <1>12 DEF HeartbeatFails, Quiet, Steady, AllSteady
<1>13. ASSUME NEW w \in Workers, LoopHead(w) PROVE Quiet /\ AllSteady
  BY <1>13 DEF LoopHead, Goto, Quiet, Steady, AllSteady, Counting, InIteration, WorkersOK
<1>14. ASSUME NEW w \in Workers, Request(w) PROVE Quiet /\ AllSteady
  BY <1>3, <1>14 DEF Request, Quiet, Counting, InIteration
<1>15. ASSUME NEW w \in Workers, Recover(w) PROVE Quiet /\ AllSteady
  <2>1. Quiet
    BY <1>15 DEF Recover, Quiet
  <2>2. AllSteady
    BY <1>1, <1>3, <1>15 DEF Recover, workVars, Counting, InIteration
  <2> QED BY <2>1, <2>2
<1>16. ASSUME NEW w \in Workers, EnqueueDue(w) PROVE Quiet /\ AllSteady
  <2>1. ASSUME UNCHANGED dbVars PROVE Quiet
    BY <2>1 DEF Quiet
  <2>2. Quiet
    BY <1>5, <1>16, <2>1 DEF EnqueueDue
  <2>3. AllSteady
    BY <1>1, <1>3, <1>16 DEF EnqueueDue, workVars, Counting, InIteration
  <2> QED BY <2>2, <2>3
<1>17. ASSUME NEW w \in Workers, ClaimNext(w) PROVE Quiet /\ AllSteady
  <2>1. Quiet
    BY <1>17 DEF ClaimNext, StartRun, Quiet
  <2>2. pc[w] = "claim" /\ UNCHANGED <<succ, fail>> /\ succ[w] = 0 /\ fail[w] = 0
    BY <1>17 DEF ClaimNext, WorkersOK, Idle
  <2>3. CASE Goto(w, "recover") /\ UNCHANGED run
    BY <1>3, <2>1, <2>2, <2>3 DEF Counting, InIteration
  <2>4. ASSUME NEW r \in Runs, StartRun(w, r), Goto(w, "next") \/ Goto(w, "fail"),
               run' = [run EXCEPT ![w] = Claimed(r)]
        PROVE  AllSteady
    <3>1. Claimed(r) \in Runs
      BY <2>4 DEF StartRun, ClaimTx, InsertRun, Claimed
    <3>2. run'[w] = Claimed(r)
      BY <2>4 DEF WorkersOK
    <3>3. \A v \in Workers \ {w} : run'[v] = run[v] /\ pc'[v] = pc[v]
      BY <2>4 DEF WorkersOK, Goto
    <3> QED BY <2>2, <2>4, <3>1, <3>2, <3>3 DEF Steady, AllSteady
  <2> QED BY <1>17, <2>1, <2>3, <2>4 DEF ClaimNext, StartRun
<1>18. ASSUME NEW w \in Workers, pc[w] \in InIteration, BeginTx(w) \/ CompleteTx(w)
       PROVE  Writes(w) /\ HasLease(w)
  <2>1. run[w] \in Runs /\ idx[w] \in Steps
    BY <1>18 DEF WorkersOK, Busy
  <2>2. PICK st \in {"running", "success", "failed"} : HasLease(w) /\ SetIteration(w, st)
    BY <1>18 DEF BeginTx, CompleteTx, MayBegin, IterationOpen
  <2> QED BY <1>18, <2>1, <2>2 DEF Writes
<1>19. ASSUME NEW w \in Workers, Begin(w)
       PROVE  (Quiet /\ AllSteady) \/ Records(w)
  <2>1. AllSteady
    BY <1>2, <1>3, <1>19 DEF Begin, Return, workVars, Counting, InIteration
  <2>2. CASE UNCHANGED dbVars
    BY <2>1, <2>2 DEF Quiet
  <2>3. CASE BeginTx(w)
    BY <1>18, <1>19, <2>1, <2>3 DEF Begin, InIteration, Records, AllSteady
  <2> QED BY <1>19, <2>2, <2>3 DEF Begin
<1>20. ASSUME NEW w \in Workers, Complete(w)
       PROVE  (Quiet /\ AllSteady) \/ Records(w)
  <2>1. CASE Return(w) /\ UNCHANGED dbVars
    BY <1>2, <2>1 DEF Return, Quiet
  <2>2. CASE Goto(w, "interrupt") /\ UNCHANGED workVars /\ UNCHANGED dbVars
    BY <1>3, <2>2 DEF workVars, Quiet, Counting, InIteration
  <2>3. CASE CompleteTx(w) /\ (Completed(w) \/ Return(w)
                               \/ (Goto(w, "interrupt") /\ UNCHANGED workVars))
    <3>1. Writes(w) /\ HasLease(w)
      BY <1>18, <1>20, <2>3 DEF Complete, InIteration
    <3>2. CASE Completed(w)
      <4>1. \A v \in Workers \ {w} : Steady(v)
        BY <3>2 DEF Completed, Goto, Steady, WorkersOK
      <4> QED BY <2>3, <3>1, <3>2, <4>1 DEF Records
    <3>3. CASE Return(w)
      <4>1. AllSteady
        BY <1>2, <3>3 DEF Return
      <4>2. run'[w] = 0
        BY <3>3 DEF Return, Forget, WorkersOK
      <4> QED BY <2>3, <3>1, <4>1, <4>2 DEF Records, AllSteady
    <3>4. CASE Goto(w, "interrupt") /\ UNCHANGED workVars
      <4>1. AllSteady
        BY <1>3, <3>4 DEF workVars, Counting, InIteration
      <4>2. run'[w] = run[w] /\ pc'[w] \notin Counting
        BY <3>4 DEF Goto, workVars, WorkersOK, Counting, InIteration
      <4> QED BY <2>3, <3>1, <4>1, <4>2 DEF Records, AllSteady
    <3> QED BY <2>3, <3>2, <3>3, <3>4
  <2> QED BY <1>20, <2>1, <2>2, <2>3 DEF Complete
<1>21. ASSUME NEW w \in Workers, Finalize(w) PROVE Quiet /\ AllSteady
  <2>1. ASSUME UNCHANGED dbVars PROVE Quiet
    BY <2>1 DEF Quiet
  <2>2. ASSUME FinalizeTx(w) PROVE Quiet
    BY <1>21, <2>2 DEF Finalize, Applies, Quiet, WorkersOK, Busy
  <2>3. Quiet
    BY <1>21, <2>1, <2>2 DEF Finalize
  <2>4. AllSteady
    BY <1>2, <1>3, <1>21 DEF Finalize, Return, workVars, Counting, InIteration
  <2> QED BY <2>3, <2>4
<1>22. ASSUME NEW w \in Workers, EndRun(w) PROVE Quiet /\ AllSteady
  <2>1. ASSUME UNCHANGED dbVars PROVE Quiet
    BY <2>1 DEF Quiet
  <2>2. ASSUME NEW st \in {"failed", "interrupted"}, EndTx(w, st) PROVE Quiet
    BY <1>22, <2>2 DEF EndRun, EndsRun, Quiet, WorkersOK, Busy
  <2>3. Quiet
    BY <1>22, <2>1, <2>2 DEF EndRun
  <2>4. AllSteady
    BY <1>2, <1>22 DEF EndRun, Return
  <2> QED BY <2>3, <2>4
<1>23. ASSUME NEW r \in Runs, LeaseExpires(r) PROVE Quiet /\ AllSteady
  <2>1. lease' \in [Runs -> {"none", "live", "expired"}]
    BY <1>23 DEF LeaseExpires, RunsTyped
  <2> QED BY <1>1, <1>23, <2>1 DEF LeaseExpires, Renewal, Quiet
<1>24. (Quiet /\ AllSteady) \/ \E w \in Workers : Records(w)
  BY <1>4, <1>6, <1>7, <1>8, <1>9, <1>10, <1>11, <1>12, <1>13, <1>14, <1>15, <1>16,
     <1>17, <1>19, <1>20, <1>21, <1>22, <1>23 DEF Next, WorkerStep
<1> QED BY <1>24 DEF AllSteady

LEMMA StepIsTransaction == WorkersOK /\ RunsTyped /\ [Next]_vars => Transaction
<1> QED BY StepKinds DEF Transaction, Records

-----------------------------------------------------------------------------
LEMMA StartsOK == Init => WorkersOK /\ TablesOK
<1> SUFFICES ASSUME Init PROVE WorkersOK /\ TablesOK
  OBVIOUS
<1>1. WorkersOK
  BY BoundsTyped DEF Init, WorkersOK, Idle, Busy, InIteration
<1>2. SourcesTyped
  BY BoundsTyped DEF Init, SourcesTyped
<1>3. (CHOOSE s \in Sources : TRUE) \in Sources
  BY SyncAssumption
<1>4. RunsTyped
  BY <1>3, BoundsTyped DEF Init, RunsTyped, RunStatuses, StepStatuses
<1>5. RunsOrdered
  BY DEF Init, RunsOrdered
<1> QED BY <1>1, <1>2, <1>4, <1>5 DEF TablesOK

LEMMA WorkersStep == WorkersOK /\ RunsTyped /\ [Next]_vars => WorkersOK'
<1> SUFFICES ASSUME WorkersOK, RunsTyped, [Next]_vars PROVE WorkersOK'
  OBVIOUS
<1> USE BoundsTyped DEF Idle, Busy, InIteration
<1>1. CASE UNCHANGED <<pc, workVars>>
  BY <1>1 DEF workVars, WorkersOK
<1>2. ASSUME NEW w \in Workers, NEW l \in Idle, Forget(w, l) PROVE WorkersOK'
  <2>1. /\ pc' \in [Workers -> Idle \cup Busy]
        /\ run' \in [Workers -> Runs \cup {0}] /\ idx' \in [Workers -> 0..Iterations]
        /\ succ' \in [Workers -> Nat] /\ fail' \in [Workers -> Nat]
    BY <1>2 DEF Forget, Goto, WorkersOK
  <2> QED BY <1>2, <2>1 DEF Forget, Goto, WorkersOK
<1>3. ASSUME NEW w \in Workers, NEW l \in Idle, pc[w] \in Idle, Goto(w, l), UNCHANGED workVars
      PROVE  WorkersOK'
  <2>1. pc' \in [Workers -> Idle \cup Busy]
    BY <1>3 DEF Goto, WorkersOK
  <2> QED BY <1>3, <2>1 DEF Goto, WorkersOK, workVars
<1>4. ASSUME NEW w \in Workers, NEW l \in Busy, pc[w] \in Busy, Goto(w, l),
             l \in InIteration => idx[w] \in Steps, l = "finalize" => succ[w] > 0,
             UNCHANGED workVars
      PROVE  WorkersOK'
  <2>1. pc' \in [Workers -> Idle \cup Busy]
    BY <1>4 DEF Goto, WorkersOK
  <2> QED BY <1>4, <2>1 DEF Goto, WorkersOK, workVars
<1>5. ASSUME NEW w \in Workers, Start(w) \/ Exit(w) PROVE WorkersOK'
  BY <1>3, <1>5 DEF Start, Exit
<1>6. ASSUME NEW w \in Workers, Crash(w) PROVE WorkersOK'
  BY <1>2, <1>6 DEF Crash
<1>7. ASSUME NEW w \in Workers, Close(w) PROVE WorkersOK'
  BY <1>1, <1>7 DEF Close
<1>8. ASSUME NEW w \in Workers, HeartbeatFails(w) PROVE WorkersOK'
  BY <1>8 DEF HeartbeatFails, WorkersOK
<1>9. ASSUME NEW w \in Workers, Recover(w) \/ EnqueueDue(w) PROVE WorkersOK'
  BY <1>1, <1>3, <1>9 DEF Recover, EnqueueDue
<1>10. ASSUME NEW w \in Workers, ClaimNext(w) PROVE WorkersOK'
  <2>1. pc[w] = "claim" /\ UNCHANGED <<idx, succ, fail, out, lost>>
    BY <1>10 DEF ClaimNext
  <2>2. CASE Goto(w, "recover") /\ UNCHANGED run
    BY <1>3, <2>1, <2>2 DEF workVars
  <2>3. ASSUME NEW r \in Runs, ClaimTx(w, r), Goto(w, "next") \/ Goto(w, "fail"),
               run' = [run EXCEPT ![w] = Claimed(r)]
        PROVE  WorkersOK'
    <3>1. Claimed(r) \in Runs
      BY <2>3 DEF ClaimTx, InsertRun, Claimed
    <3>2. PICK l \in {"next", "fail"} : pc' = [pc EXCEPT ![w] = l]
      BY <2>3 DEF Goto
    <3>3. pc' \in [Workers -> Idle \cup Busy] /\ run' \in [Workers -> Runs \cup {0}]
      BY <2>3, <3>1, <3>2 DEF WorkersOK
    <3> QED BY <2>1, <2>3, <3>1, <3>2, <3>3 DEF WorkersOK
  <2> QED BY <1>10, <2>2, <2>3 DEF ClaimNext
<1>11. ASSUME NEW w \in Workers, LoopHead(w) PROVE WorkersOK'
  <2> DEFINE more == pc[w] = "next" /\ (Endless(run[w]) \/ idx[w] < Iterations)
  <2>1. pc[w] \in {"next", "last"} /\ UNCHANGED <<run, succ, fail>>
    BY <1>11 DEF LoopHead
  <2>2. CASE Cancelled(w)
    <3>1. pc' = [pc EXCEPT ![w] = "interrupt"] /\ idx' = [idx EXCEPT ![w] = @]
      BY <1>11, <2>2 DEF LoopHead, Goto
    <3> QED BY <2>1, <3>1 DEF WorkersOK
  <2>3. CASE ~Cancelled(w) /\ more
    <3> DEFINE i == NextIndex(w)
    <3>1. pc' = [pc EXCEPT ![w] = "begin"] /\ idx' = [idx EXCEPT ![w] = i]
      BY <1>11, <2>3 DEF LoopHead, Goto
    <3>2. i \in Steps
      BY <2>3 DEF NextIndex, WorkersOK
    <3> HIDE DEF i
    <3>3. pc' \in [Workers -> Idle \cup Busy] /\ idx' \in [Workers -> 0..Iterations]
      BY <3>1, <3>2 DEF WorkersOK
    <3> QED BY <2>1, <3>1, <3>2, <3>3 DEF WorkersOK
  <2>4. CASE ~Cancelled(w) /\ ~more
    <3>1. /\ pc' = [pc EXCEPT ![w] = IF succ[w] = 0 THEN "fail" ELSE "finalize"]
          /\ idx' = [idx EXCEPT ![w] = @]
      BY <1>11, <2>4 DEF LoopHead, Goto
    <3>2. pc' \in [Workers -> Idle \cup Busy]
      BY <3>1 DEF WorkersOK
    <3>3. CASE succ[w] = 0
      BY <2>1, <3>1, <3>2, <3>3 DEF WorkersOK
    <3>4. CASE succ[w] # 0
      BY <2>1, <3>1, <3>2, <3>4 DEF WorkersOK
    <3> QED BY <3>3, <3>4
  <2> QED BY <2>2, <2>3, <2>4
<1>12. ASSUME NEW w \in Workers, Begin(w) PROVE WorkersOK'
  <2>1. CASE Return(w)
    BY <1>2, <2>1 DEF Return
  <2>2. CASE Goto(w, "request") /\ UNCHANGED workVars
    BY <1>4, <1>12, <2>2 DEF Begin, WorkersOK
  <2> QED BY <1>12, <2>1, <2>2 DEF Begin
<1>13. ASSUME NEW w \in Workers, Request(w) PROVE WorkersOK'
  BY <1>13 DEF Request, Goto, WorkersOK
<1>14. ASSUME NEW w \in Workers, Complete(w) PROVE WorkersOK'
  <2>1. CASE Return(w)
    BY <1>2, <2>1 DEF Return
  <2>2. CASE Goto(w, "interrupt") /\ UNCHANGED workVars
    BY <1>4, <1>14, <2>2 DEF Complete
  <2>3. CASE Completed(w)
    <3>1. pc[w] = "complete" /\ run[w] \in Runs
      BY <1>14 DEF Complete, WorkersOK
    <3>2. PICK l \in {"next", "last", "fail"} : pc' = [pc EXCEPT ![w] = l]
      BY <2>3 DEF Completed, Goto
    <3>3. pc' \in [Workers -> Idle \cup Busy] /\ UNCHANGED <<run, idx>>
      BY <2>3, <3>2 DEF Completed, WorkersOK
    <3>4. PICK m \in Nat, n \in Nat :
            succ' = [succ EXCEPT ![w] = m] /\ fail' = [fail EXCEPT ![w] = n]
      <4>1. succ[w] \in Nat /\ fail[w] \in Nat
        BY DEF WorkersOK
      <4>2. CASE out[w] = "success"
        BY <2>3, <4>1, <4>2 DEF Completed
      <4>3. CASE out[w] # "success"
        BY <2>3, <4>1, <4>3 DEF Completed
      <4> QED BY <4>2, <4>3
    <3>5. succ' \in [Workers -> Nat] /\ fail' \in [Workers -> Nat]
      BY <3>4 DEF WorkersOK
    <3> QED BY <3>1, <3>2, <3>3, <3>4, <3>5 DEF WorkersOK
  <2> QED BY <1>14, <2>1, <2>2, <2>3 DEF Complete
<1>15. ASSUME NEW w \in Workers, Finalize(w) PROVE WorkersOK'
  <2>1. CASE Return(w)
    BY <1>2, <2>1 DEF Return
  <2> QED BY <1>4, <1>15, <2>1 DEF Finalize
<1>16. ASSUME NEW w \in Workers, EndRun(w) PROVE WorkersOK'
  BY <1>2, <1>16 DEF EndRun, Return
<1>17. ASSUME NEW s \in Sources, UpdateSource(s) \/ DeleteSource(s) \/ Trigger(s)
       PROVE  WorkersOK'
  BY <1>1, <1>17 DEF UpdateSource, DeleteSource, Trigger
<1>18. ASSUME NEW r \in Runs, LeaseExpires(r) PROVE WorkersOK'
  BY <1>1, <1>18 DEF LeaseExpires
<1>19. CASE UNCHANGED vars
  BY <1>1, <1>19 DEF vars
<1> QED
  BY <1>5, <1>6, <1>7, <1>8, <1>9, <1>10, <1>11, <1>12, <1>13, <1>14, <1>15, <1>16,
     <1>17, <1>18, <1>19 DEF Next, WorkerStep

-----------------------------------------------------------------------------
LEMMA CloseIterationsTyped ==
    ASSUME NEW its \in [Steps -> StepStatuses], NEW st \in {"skipped", "interrupted"}
    PROVE  /\ CloseIterations(its, st) \in [Steps -> StepStatuses]
           /\ \A i \in Steps :
                /\ CloseIterations(its, st)[i] \notin {"queued", "running"}
                /\ CloseIterations(its, st)[i] = "success" <=> its[i] = "success"
                /\ CloseIterations(its, st)[i] = "failed" <=> its[i] = "failed"
<1> QED BY DEF CloseIterations, StepStatuses

\* The new run is the newest, and the run that waited is given up.
LEMMA InsertKeepsOrder ==
    ASSUME RunsTyped, RunsOrdered, NEW s \in Sources, NEW st \in {"queued", "running"},
           NEW w \in Workers \cup {NoWorker}, NEW l \in {"none", "live"},
           rev[s] \in Revs, InsertRun(s, st, w, l),
           st = "running" => InStatus(s, "running") = {}
    PROVE  /\ RunsTyped' /\ RunsOrdered'
           /\ nrun + 1 \in Runs /\ rstat[nrun + 1] = "none"
           /\ rstat'[nrun + 1] = st /\ rsrc'[nrun + 1] = s
           /\ rrev'[nrun + 1] = rev[s] /\ holder'[nrun + 1] = w
           /\ iter'[nrun + 1] = FirstIterations(rev[s])
           /\ \A r \in Runs \ {nrun + 1} :
                /\ rsrc'[r] = rsrc[r] /\ rrev'[r] = rrev[r] /\ holder'[r] = holder[r]
                /\ \/ /\ rsrc[r] = s /\ rstat[r] = "queued" /\ rstat'[r] = "cancelled"
                      /\ iter'[r] = CloseIterations(iter[r], "skipped")
                   \/ /\ ~(rsrc[r] = s /\ rstat[r] = "queued")
                      /\ rstat'[r] = rstat[r] /\ iter'[r] = iter[r]
<1> DEFINE n == nrun + 1
           old == InStatus(s, "queued")
<1> USE BoundsTyped
<1>1. n \in Runs /\ nrun' = n /\ rstat[n] = "none" /\ n \notin old
  BY DEF InsertRun, RunsTyped, InStatus
<1>2. /\ rstat' = [r \in Runs |-> IF r = n THEN st ELSE IF r \in old THEN "cancelled"
                                  ELSE rstat[r]]
      /\ iter' = [r \in Runs |-> IF r = n THEN FirstIterations(rev[s])
                                 ELSE IF r \in old THEN CloseIterations(iter[r], "skipped")
                                 ELSE iter[r]]
      /\ rsrc' = [rsrc EXCEPT ![n] = s] /\ rrev' = [rrev EXCEPT ![n] = rev[s]]
      /\ holder' = [holder EXCEPT ![n] = w] /\ lease' = [lease EXCEPT ![n] = l]
      /\ UNCHANGED past
  BY DEF InsertRun
<1>3. /\ \A r \in old : r \in Runs /\ rsrc[r] = s /\ rstat[r] = "queued"
      /\ \A r \in Runs \ old : ~(rsrc[r] = s /\ rstat[r] = "queued")
  BY DEF InStatus
<1>4. \A r \in Runs : CloseIterations(iter[r], "skipped") \in [Steps -> StepStatuses]
  BY CloseIterationsTyped DEF RunsTyped
<1> HIDE DEF n, old
<1>5. /\ rstat' \in [Runs -> RunStatuses] /\ rsrc' \in [Runs -> Sources]
      /\ rrev' \in [Runs -> Revs] /\ holder' \in [Runs -> Workers \cup {NoWorker}]
      /\ lease' \in [Runs -> {"none", "live", "expired"}]
      /\ past' \in [Runs -> SUBSET {"success", "failed"}]
  BY <1>1, <1>2 DEF RunsTyped, RunStatuses
<1>6. iter' \in [Runs -> [Steps -> StepStatuses]]
  <2>1. FirstIterations(rev[s]) \in [Steps -> StepStatuses]
    BY DEF FirstIterations, StepStatuses
  <2> QED BY <1>1, <1>2, <1>4, <2>1 DEF RunsTyped
<1>7. n \in Nat /\ \A r \in Runs : r <= n <=> r = n \/ r <= nrun
  BY DEF RunsTyped, n
<1>8. \A r \in Runs : rstat'[r] = "none" <=> r > n
  BY <1>1, <1>2, <1>3, <1>7 DEF RunsTyped
<1>9. RunsTyped'
  BY <1>1, <1>5, <1>6, <1>7, <1>8 DEF RunsTyped
<1>10. RunsOrdered'
  <2> SUFFICES ASSUME NEW r \in Runs, NEW q \in Runs, rsrc'[q] = rsrc'[r]
               PROVE  /\ rstat'[r] = "queued" /\ rstat'[q] # "none" => q <= r
                      /\ rstat'[r] = "running"
                           /\ rstat'[q] \in {"running", "success", "partial"} => q <= r
    BY DEF RunsOrdered
  <2>1. CASE r = n
    BY <2>1, <1>7, <1>8
  <2>2. CASE r # n /\ q = n
    <3>1. rsrc[r] = s
      BY <2>2, <1>1, <1>2 DEF RunsTyped
    <3>2. rstat'[r] # "queued"
      BY <2>2, <3>1, <1>2, <1>3
    <3>3. ~(rstat'[r] = "running" /\ st = "running")
      BY <2>2, <3>1, <1>2 DEF InStatus
    <3> QED BY <2>2, <3>2, <3>3, <1>1, <1>2
  <2>3. CASE r # n /\ q # n
    <3>1. rsrc[q] = rsrc[r]
      BY <2>3, <1>1, <1>2 DEF RunsTyped
    <3> QED BY <2>3, <3>1, <1>2, <1>3 DEF RunsOrdered
  <2> QED BY <2>1, <2>2, <2>3
<1>11. /\ rstat'[n] = st /\ rsrc'[n] = s /\ rrev'[n] = rev[s] /\ holder'[n] = w
       /\ iter'[n] = FirstIterations(rev[s])
  BY <1>1, <1>2 DEF RunsTyped
<1>12. \A r \in Runs \ {n} :
         /\ rsrc'[r] = rsrc[r] /\ rrev'[r] = rrev[r] /\ holder'[r] = holder[r]
         /\ \/ /\ rsrc[r] = s /\ rstat[r] = "queued" /\ rstat'[r] = "cancelled"
               /\ iter'[r] = CloseIterations(iter[r], "skipped")
            \/ /\ ~(rsrc[r] = s /\ rstat[r] = "queued")
               /\ rstat'[r] = rstat[r] /\ iter'[r] = iter[r]
  BY <1>2, <1>3 DEF RunsTyped
<1> QED BY <1>1, <1>9, <1>10, <1>11, <1>12 DEF n

\* A run that ends was the only one of its source that was running.
LEMMA CloseKeepsOrder ==
    ASSUME RunsTyped, RunsOrdered, NEW r \in Runs, rstat[r] = "running",
           NEW status \in Terminal, NEW st \in {"skipped", "interrupted"},
           CloseRun(r, status, st)
    PROVE  /\ RunsTyped' /\ RunsOrdered' /\ UNCHANGED <<rsrc, rrev, past, nrun>>
           /\ rstat'[r] = status /\ iter'[r] = CloseIterations(iter[r], st)
           /\ \A q \in Runs \ {r} :
                rstat'[q] = rstat[q] /\ iter'[q] = iter[q] /\ holder'[q] = holder[q]
           /\ \A q \in Runs \ {r} : rsrc[q] = rsrc[r] => rstat'[q] # "running"
<1> USE BoundsTyped
<1>1. CloseIterations(iter[r], st) \in [Steps -> StepStatuses]
  BY CloseIterationsTyped DEF RunsTyped
<1>2. /\ rstat' = [rstat EXCEPT ![r] = status]
      /\ iter' = [iter EXCEPT ![r] = CloseIterations(iter[r], st)]
      /\ holder' = [holder EXCEPT ![r] = NoWorker] /\ lease' = [lease EXCEPT ![r] = "none"]
      /\ UNCHANGED <<rsrc, rrev, past, nrun>>
  BY DEF CloseRun
<1>3. /\ rstat' \in [Runs -> RunStatuses]
      /\ holder' \in [Runs -> Workers \cup {NoWorker}]
      /\ lease' \in [Runs -> {"none", "live", "expired"}]
  BY <1>2 DEF RunsTyped, Terminal, RunStatuses
<1>4. iter' \in [Runs -> [Steps -> StepStatuses]]
  BY <1>1, <1>2 DEF RunsTyped
<1>5. \A q \in Runs : rstat'[q] = "none" <=> rstat[q] = "none"
  BY <1>2 DEF RunsTyped, Terminal
<1>6. RunsTyped'
  BY <1>2, <1>3, <1>4, <1>5 DEF RunsTyped
<1>7. \A q \in Runs \ {r} : rsrc[q] = rsrc[r] => rstat[q] # "running"
  BY DEF RunsOrdered
<1>8. \A q \in Runs \ {r} :
        rstat'[q] = rstat[q] /\ iter'[q] = iter[q] /\ holder'[q] = holder[q]
  BY <1>2 DEF RunsTyped
<1>9. rstat'[r] = status /\ iter'[r] = CloseIterations(iter[r], st)
  BY <1>2 DEF RunsTyped
<1>10. RunsOrdered'
  <2>1. rstat'[r] \notin {"none", "queued", "running"}
    BY <1>9 DEF Terminal
  <2> SUFFICES ASSUME NEW p \in Runs, NEW q \in Runs, rsrc[q] = rsrc[p]
               PROVE  /\ rstat'[p] = "queued" /\ rstat'[q] # "none" => q <= p
                      /\ rstat'[p] = "running"
                           /\ rstat'[q] \in {"running", "success", "partial"} => q <= p
    BY <1>2 DEF RunsOrdered
  <2>2. CASE p = r
    BY <2>1, <2>2
  <2>3. CASE p # r /\ q = r
    BY <2>1, <2>3, <1>7, <1>8 DEF RunsOrdered
  <2>4. CASE p # r /\ q # r
    BY <2>4, <1>8 DEF RunsOrdered
  <2> QED BY <2>2, <2>3, <2>4
<1> QED BY <1>2, <1>6, <1>7, <1>8, <1>9, <1>10

\* A claim starts the candidate, or the run that replaces it, with the current
\* configuration of a source that has no other run running.
LEMMA ClaimKeepsOrder ==
    ASSUME TablesOK, NEW w \in Workers, NEW r \in Runs, StartRun(w, r)
    PROVE  /\ RunsTyped' /\ RunsOrdered'
           /\ Claimed(r) \in Runs /\ rsrc[r] \in Sources /\ rstat[r] = "queued"
           /\ InStatus(rsrc[r], "running") = {}
           /\ rstat'[Claimed(r)] = "running" /\ rsrc'[Claimed(r)] = rsrc[r]
           /\ rrev'[Claimed(r)] = rev[rsrc[r]] /\ holder'[Claimed(r)] = w
           /\ \/ Claimed(r) = r /\ iter' = iter
              \/ /\ rstat[Claimed(r)] = "none"
                 /\ iter'[Claimed(r)] = FirstIterations(rev[rsrc[r]])
           /\ \A q \in Runs \ {Claimed(r)} :
                /\ rsrc'[q] = rsrc[q] /\ rrev'[q] = rrev[q] /\ holder'[q] = holder[q]
                /\ \/ /\ rsrc[q] = rsrc[r] /\ rstat[q] = "queued" /\ rstat'[q] = "cancelled"
                      /\ iter'[q] = CloseIterations(iter[q], "skipped")
                   \/ rstat'[q] = rstat[q] /\ iter'[q] = iter[q]
           /\ last' = [last EXCEPT ![rsrc[r]] = "running"]
           /\ UNCHANGED <<live, rev, applied, stale, synced>>
<1> DEFINE c == Claimed(r)
<1> USE DEF TablesOK
<1>1. /\ rstat[r] = "queued" /\ InStatus(rsrc[r], "running") = {}
      /\ rsrc[r] \in Sources /\ rev[rsrc[r]] \in Revs
  BY DEF StartRun, Candidate, RunsTyped, SourcesTyped
<1>2. /\ last' = [last EXCEPT ![rsrc[r]] = "running"]
      /\ UNCHANGED <<live, rev, applied, stale, synced>>
  BY DEF StartRun, ClaimTx
<1>3. CASE c = r
  <2>1. /\ rstat' = [rstat EXCEPT ![r] = "running"] /\ holder' = [holder EXCEPT ![r] = w]
        /\ lease' = [lease EXCEPT ![r] = "live"] /\ UNCHANGED <<rsrc, rrev, iter, past, nrun>>
    BY <1>3 DEF StartRun, ClaimTx
  <2>2. rrev[r] = rev[rsrc[r]]
    <3>1. r # nrun + 1
      BY <1>1, BoundsTyped DEF RunsTyped
    <3> QED BY <1>3, <3>1 DEF Claimed
  <2>3. RunsTyped'
    BY <2>1, <1>1 DEF RunsTyped, RunStatuses
  <2>4. /\ \A q \in Runs \ {r} : rstat'[q] = rstat[q] /\ holder'[q] = holder[q]
        /\ rstat'[r] = "running" /\ holder'[r] = w
    BY <2>1 DEF RunsTyped
  <2>5. RunsOrdered'
    <3> SUFFICES ASSUME NEW p \in Runs, NEW q \in Runs, rsrc[q] = rsrc[p]
                 PROVE  /\ rstat'[p] = "queued" /\ rstat'[q] # "none" => q <= p
                        /\ rstat'[p] = "running"
                             /\ rstat'[q] \in {"running", "success", "partial"} => q <= p
      BY <2>1 DEF RunsOrdered
    <3>1. CASE p = r
      BY <3>1, <2>4, <1>1, BoundsTyped DEF RunsOrdered
    <3>2. CASE p # r /\ q = r
      BY <3>2, <2>4, <1>1 DEF RunsOrdered, InStatus
    <3>3. CASE p # r /\ q # r
      BY <3>3, <2>4 DEF RunsOrdered
    <3> QED BY <3>1, <3>2, <3>3
  <2> QED BY <1>1, <1>2, <1>3, <2>1, <2>2, <2>3, <2>4, <2>5
<1>4. CASE c # r
  <2>1. InsertRun(rsrc[r], "running", w, "live")
    BY <1>4 DEF StartRun, ClaimTx
  <2>2. c = nrun + 1
    BY <1>4 DEF Claimed
  <2>3. /\ RunsTyped' /\ RunsOrdered'
        /\ nrun + 1 \in Runs /\ rstat[nrun + 1] = "none"
        /\ rstat'[nrun + 1] = "running" /\ rsrc'[nrun + 1] = rsrc[r]
        /\ rrev'[nrun + 1] = rev[rsrc[r]] /\ holder'[nrun + 1] = w
        /\ iter'[nrun + 1] = FirstIterations(rev[rsrc[r]])
        /\ \A q \in Runs \ {nrun + 1} :
             /\ rsrc'[q] = rsrc[q] /\ rrev'[q] = rrev[q] /\ holder'[q] = holder[q]
             /\ \/ /\ rsrc[q] = rsrc[r] /\ rstat[q] = "queued" /\ rstat'[q] = "cancelled"
                   /\ iter'[q] = CloseIterations(iter[q], "skipped")
                \/ /\ ~(rsrc[q] = rsrc[r] /\ rstat[q] = "queued")
                   /\ rstat'[q] = rstat[q] /\ iter'[q] = iter[q]
    BY <2>1, <1>1, InsertKeepsOrder
  <2> QED BY <1>1, <1>2, <2>2, <2>3
<1> QED BY <1>3, <1>4

\* What else a transaction leaves of the tables.
LEMMA TablesStep == TablesOK /\ Transaction => TablesOK'
<1> SUFFICES ASSUME TablesOK, Transaction PROVE TablesOK'
  OBVIOUS
<1> USE BoundsTyped DEF TablesOK
<1>1. CASE UNCHANGED dbVars
  BY <1>1 DEF dbVars, srcVars, runVars, SourcesTyped, RunsTyped, RunsOrdered
<1>2. ASSUME NEW s \in Sources, NewRun(s) PROVE TablesOK'
  <2>1. RunsTyped' /\ RunsOrdered'
    <3>1. rev[s] \in Revs
      BY DEF SourcesTyped
    <3> QED BY <1>2, <3>1, InsertKeepsOrder DEF NewRun
  <2> QED BY <1>2, <2>1 DEF NewRun, srcVars, SourcesTyped
<1>3. ASSUME NEW s \in Sources, Configures(s) PROVE TablesOK'
  <2>1. stale' \in [Sources -> BOOLEAN]
    BY <1>3 DEF Configures, SourcesTyped
  <2>2. rev' \in [Sources -> Revs]
    <3>1. rev[s] + 1 \in Revs
      BY <1>3 DEF Configures, SourcesTyped
    <3> QED BY <1>3, <3>1 DEF Configures, SourcesTyped
  <2> QED BY <1>3, <2>1, <2>2 DEF Configures, runVars, SourcesTyped, RunsTyped, RunsOrdered
<1>4. ASSUME NEW s \in Sources, Deletes(s) PROVE TablesOK'
  <2>1. live' \in [Sources -> BOOLEAN]
    BY <1>4 DEF Deletes, SourcesTyped
  <2> QED BY <1>4, <2>1 DEF Deletes, runVars, SourcesTyped, RunsTyped, RunsOrdered
<1>5. ASSUME NEW w \in Workers, NEW r \in Runs, StartRun(w, r) PROVE TablesOK'
  <2>1. /\ RunsTyped' /\ RunsOrdered' /\ rsrc[r] \in Sources
        /\ last' = [last EXCEPT ![rsrc[r]] = "running"]
        /\ UNCHANGED <<live, rev, applied, stale, synced>>
    BY <1>5, ClaimKeepsOrder
  <2> QED BY <2>1 DEF SourcesTyped
<1>6. ASSUME NEW r \in Runs, SourceFailed(r) PROVE SourcesTyped'
  <2>1. rsrc[r] \in Sources
    BY DEF RunsTyped
  <2>2. stale' \in [Sources -> BOOLEAN]
    BY <1>6 DEF SourceFailed, SourcesTyped
  <2>3. synced' \in [Sources -> BOOLEAN]
    BY <1>6 DEF SourceFailed, SourcesTyped
  <2>4. last' \in [Sources -> {"pending", "running", "success", "partial", "failed"}]
    BY <1>6, <2>1 DEF SourceFailed, SourcesTyped
  <2> QED BY <1>6, <2>2, <2>3, <2>4 DEF SourceFailed, SourcesTyped
<1>7. ASSUME NEW w \in Workers, EndsRun(w) PROVE TablesOK'
  <2>1. PICK st \in {"failed", "interrupted"} : EndTx(w, st)
    BY <1>7 DEF EndsRun
  <2>2. /\ run[w] \in Runs /\ rstat[run[w]] = "running" /\ SourceFailed(run[w])
        /\ CloseRun(run[w], st, "interrupted") /\ st \in Terminal
    BY <1>7, <2>1 DEF EndsRun, EndTx, HasLease, Terminal
  <2>3. RunsTyped' /\ RunsOrdered'
    BY <2>2, CloseKeepsOrder
  <2> QED BY <1>6, <2>2, <2>3
<1>8. ASSUME NEW w \in Workers, Applies(w) PROVE TablesOK'
  <2> DEFINE r == run[w]
             status == IF fail[w] > 0 THEN "partial" ELSE "success"
  <2>1. /\ r \in Runs /\ rstat[r] = "running" /\ CloseRun(r, status, "skipped")
        /\ last' = [last EXCEPT ![rsrc[r]] = status]
        /\ synced' = [synced EXCEPT ![rsrc[r]] = TRUE]
        /\ applied' = [applied EXCEPT ![rsrc[r]] = rrev[r]]
        /\ stale' = [stale EXCEPT ![rsrc[r]] = rev[rsrc[r]] # rrev[r]]
        /\ UNCHANGED <<live, rev>>
    BY <1>8 DEF Applies, FinalizeTx, HasLease
  <2>2. status \in {"partial", "success"} /\ status \in Terminal
    BY DEF Terminal
  <2> HIDE DEF r, status
  <2>3. RunsTyped' /\ RunsOrdered'
    BY <2>1, <2>2, CloseKeepsOrder
  <2>4. rsrc[r] \in Sources /\ rrev[r] \in Nat
    BY <2>1 DEF RunsTyped
  <2>5. /\ last' \in [Sources -> {"pending", "running", "success", "partial", "failed"}]
        /\ applied' \in [Sources -> Nat]
    BY <2>1, <2>2, <2>4 DEF SourcesTyped
  <2>6. synced' \in [Sources -> BOOLEAN]
    BY <2>1 DEF SourcesTyped
  <2>7. stale' \in [Sources -> BOOLEAN]
    BY <2>1 DEF SourcesTyped
  <2> QED BY <2>1, <2>3, <2>5, <2>6, <2>7 DEF SourcesTyped
<1>9. ASSUME NEW w \in Workers, Writes(w) PROVE TablesOK'
  <2>1. PICK st \in {"running", "success", "failed"} : SetIteration(w, st)
    BY <1>9 DEF Writes
  <2>2. /\ run[w] \in Runs /\ idx[w] \in Steps
        /\ iter' = [iter EXCEPT ![run[w]][idx[w]] = st]
        /\ UNCHANGED <<srcVars, rstat, rsrc, rrev, holder, lease, nrun>>
    BY <1>9, <2>1 DEF Writes, SetIteration
  <2>3. iter' \in [Runs -> [Steps -> StepStatuses]]
    BY <2>2 DEF RunsTyped, StepStatuses
  <2>4. past' \in [Runs -> SUBSET {"success", "failed"}]
    BY <1>9, <2>2 DEF Writes, BeginTx, CompleteTx, RunsTyped
  <2> QED BY <2>2, <2>3, <2>4 DEF srcVars, SourcesTyped, RunsTyped, RunsOrdered
<1>10. ASSUME NEW r \in Runs, RecoverTx(r) PROVE TablesOK'
  <2>1. rstat[r] = "running" /\ CloseRun(r, "interrupted", "interrupted")
        /\ "interrupted" \in Terminal
    BY <1>10 DEF RecoverTx, Terminal
  <2>2. RunsTyped' /\ RunsOrdered'
    BY <2>1, CloseKeepsOrder
  <2>3. SourcesTyped'
    <3>1. CASE UNCHANGED srcVars
      BY <3>1 DEF srcVars, SourcesTyped
    <3> QED BY <1>6, <1>10, <3>1 DEF RecoverTx
  <2> QED BY <2>2, <2>3
<1>11. CASE Renewal
  BY <1>11 DEF Renewal, srcVars, SourcesTyped, RunsTyped, RunsOrdered
<1> QED
  BY <1>1, <1>2, <1>3, <1>4, <1>5, <1>7, <1>8, <1>9, <1>10, <1>11 DEF Transaction, Quiet

LEMMA SyncInvariant == Spec => [](WorkersOK /\ TablesOK)
<1>1. WorkersOK /\ TablesOK /\ [Next]_vars => (WorkersOK /\ TablesOK)'
  BY WorkersStep, StepIsTransaction, TablesStep DEF TablesOK
<1> QED BY <1>1, StartsOK, PTL DEF Spec

-----------------------------------------------------------------------------
\* SourceInSync, for one source.
RowOK(s) ==
    /\ last[s] = "running" <=> \E r \in Runs : rsrc[r] = s /\ rstat[r] = "running"
    /\ (\E r \in Runs : rsrc[r] = s /\ rstat[r] \in {"queued", "running"}) => live[s]
    /\ applied[s] \notin {0, rev[s]} => stale[s]

LEMMA SourceStep == TablesOK /\ SourceInSync /\ Transaction => SourceInSync'
<1> SUFFICES ASSUME TablesOK, SourceInSync, Transaction, NEW s \in Sources
             PROVE  RowOK(s)'
  BY DEF SourceInSync, InStatus, RowOK
<1>0. \A t \in Sources : RowOK(t)
  BY DEF SourceInSync, InStatus, RowOK
<1> USE DEF TablesOK, RowOK
<1>1. CASE UNCHANGED dbVars
  BY <1>0, <1>1 DEF dbVars, srcVars, runVars
<1>2. ASSUME NEW t \in Sources, NewRun(t)
      PROVE  RowOK(s)'
  <2>1. /\ nrun + 1 \in Runs /\ rstat[nrun + 1] = "none"
        /\ rstat'[nrun + 1] = "queued" /\ rsrc'[nrun + 1] = t
        /\ \A r \in Runs \ {nrun + 1} :
             /\ rsrc'[r] = rsrc[r]
             /\ (rstat[r] = "queued" /\ rstat'[r] = "cancelled") \/ rstat'[r] = rstat[r]
    <3>1. rev[t] \in Revs
      BY DEF SourcesTyped
    <3> QED BY <1>2, <3>1, InsertKeepsOrder DEF NewRun
  <2>2. live[t] /\ UNCHANGED srcVars
    BY <1>2 DEF NewRun
  <2> QED BY <1>0, <2>1, <2>2 DEF srcVars
<1>3. ASSUME NEW t \in Sources, Configures(t)
      PROVE  RowOK(s)'
  <2>1. UNCHANGED <<live, last, applied, rsrc, rstat>>
    BY <1>3 DEF Configures, runVars
  <2>2. applied'[s] \notin {0, rev'[s]} => stale'[s]
    <3>1. CASE s = t
      BY <1>3, <3>1 DEF Configures, SourcesTyped
    <3>2. CASE s # t
      BY <1>0, <1>3, <3>2 DEF Configures, SourcesTyped
    <3> QED BY <3>1, <3>2
  <2> QED BY <1>0, <2>1, <2>2
<1>4. ASSUME NEW t \in Sources, Deletes(t)
      PROVE  RowOK(s)'
  <2>1. UNCHANGED <<rev, applied, stale, last, rsrc, rstat>>
    BY <1>4 DEF Deletes, runVars
  <2>2. (\E r \in Runs : rsrc[r] = s /\ rstat[r] \in {"queued", "running"}) => live'[s]
    <3>1. CASE s = t
      BY <1>4, <3>1 DEF Deletes, InStatus
    <3>2. CASE s # t
      BY <1>0, <1>4, <3>2 DEF Deletes, SourcesTyped
    <3> QED BY <3>1, <3>2
  <2> QED BY <1>0, <2>1, <2>2
<1>5. ASSUME NEW w \in Workers, NEW r \in Runs, StartRun(w, r)
      PROVE  RowOK(s)'
  <2> DEFINE c == Claimed(r)
  <2>1. /\ c \in Runs /\ rsrc[r] \in Sources /\ rstat[r] = "queued"
        /\ rstat'[c] = "running" /\ rsrc'[c] = rsrc[r]
        /\ \A q \in Runs \ {c} :
             /\ rsrc'[q] = rsrc[q]
             /\ (rstat[q] = "queued" /\ rstat'[q] = "cancelled") \/ rstat'[q] = rstat[q]
        /\ last' = [last EXCEPT ![rsrc[r]] = "running"]
        /\ UNCHANGED <<live, rev, applied, stale, synced>>
    BY <1>5, ClaimKeepsOrder
  <2>2. c = r \/ rstat[c] = "none"
    BY <1>5, ClaimKeepsOrder
  <2> HIDE DEF c
  <2>3. live[rsrc[r]]
    BY <1>0, <2>1
  <2>4. last'[s] = "running" <=> last[s] = "running" \/ s = rsrc[r]
    BY <2>1 DEF SourcesTyped
  <2> QED BY <1>0, <2>1, <2>2, <2>3, <2>4
<1>6. ASSUME NEW r \in Runs, rstat[r] = "running", NEW st \in Terminal,
             NEW i \in {"skipped", "interrupted"}, CloseRun(r, st, i),
             last'[rsrc[r]] # "running", \A t \in Sources \ {rsrc[r]} : last'[t] = last[t],
             UNCHANGED live
      PROVE  /\ last'[s] = "running" <=> \E q \in Runs : rsrc'[q] = s /\ rstat'[q] = "running"
             /\ (\E q \in Runs : rsrc'[q] = s /\ rstat'[q] \in {"queued", "running"})
                  => live'[s]
  <2>1. /\ rsrc' = rsrc /\ rstat'[r] = st
        /\ \A q \in Runs \ {r} : rstat'[q] = rstat[q]
        /\ \A q \in Runs \ {r} : rsrc[q] = rsrc[r] => rstat'[q] # "running"
    BY <1>6, CloseKeepsOrder
  <2>2. st \notin {"queued", "running"}
    BY DEF Terminal
  <2> QED BY <1>0, <1>6, <2>1, <2>2
<1>7. ASSUME NEW r \in Runs, rstat[r] = "running", SourceFailed(r)
      PROVE  /\ last'[rsrc[r]] # "running" /\ UNCHANGED live
             /\ \A t \in Sources \ {rsrc[r]} : last'[t] = last[t]
             /\ applied'[s] \notin {0, rev'[s]} => stale'[s]
  <2>1. rsrc[r] \in Sources /\ live[rsrc[r]]
    BY <1>0, <1>7 DEF RunsTyped
  <2>2. last' = [last EXCEPT ![rsrc[r]] = "failed"]
    BY <1>7, <2>1 DEF SourceFailed
  <2>3. stale[s] => stale'[s]
    BY <1>7 DEF SourceFailed, SourcesTyped
  <2> QED BY <1>0, <1>7, <2>1, <2>2, <2>3 DEF SourceFailed, SourcesTyped
<1>8. ASSUME NEW w \in Workers, EndsRun(w)
      PROVE  RowOK(s)'
  <2>1. PICK st \in {"failed", "interrupted"} : EndTx(w, st)
    BY <1>8 DEF EndsRun
  <2>2. /\ run[w] \in Runs /\ rstat[run[w]] = "running" /\ SourceFailed(run[w])
        /\ CloseRun(run[w], st, "interrupted") /\ st \in Terminal
    BY <1>8, <2>1 DEF EndsRun, EndTx, HasLease, Terminal
  <2> QED BY <1>6, <1>7, <2>2
<1>9. ASSUME NEW w \in Workers, Applies(w)
      PROVE  RowOK(s)'
  <2> DEFINE r == run[w]
             status == IF fail[w] > 0 THEN "partial" ELSE "success"
  <2>1. /\ r \in Runs /\ rstat[r] = "running" /\ CloseRun(r, status, "skipped")
        /\ last' = [last EXCEPT ![rsrc[r]] = status]
        /\ applied' = [applied EXCEPT ![rsrc[r]] = rrev[r]]
        /\ stale' = [stale EXCEPT ![rsrc[r]] = rev[rsrc[r]] # rrev[r]]
        /\ UNCHANGED <<live, rev>>
    BY <1>9 DEF Applies, FinalizeTx, HasLease
  <2>2. status \in Terminal /\ status # "running"
    BY DEF Terminal
  <2> HIDE DEF r, status
  <2>3. rsrc[r] \in Sources
    BY <2>1 DEF RunsTyped
  <2>4. last'[rsrc[r]] # "running" /\ \A t \in Sources \ {rsrc[r]} : last'[t] = last[t]
    BY <2>1, <2>2, <2>3 DEF SourcesTyped
  <2>5. applied'[s] \notin {0, rev'[s]} => stale'[s]
    <3>1. CASE s = rsrc[r]
      BY <2>1, <3>1 DEF SourcesTyped
    <3>2. CASE s # rsrc[r]
      BY <1>0, <2>1, <3>2 DEF SourcesTyped
    <3> QED BY <3>1, <3>2
  <2> QED BY <1>6, <2>1, <2>2, <2>4, <2>5
<1>10. ASSUME NEW w \in Workers, Writes(w)
       PROVE  UNCHANGED <<live, rev, applied, stale, last, rsrc, rstat>>
  BY <1>10 DEF Writes, SetIteration, srcVars
<1>11. ASSUME NEW r \in Runs, RecoverTx(r)
       PROVE  RowOK(s)'
  <2>1. /\ rstat[r] = "running" /\ CloseRun(r, "interrupted", "interrupted")
        /\ "interrupted" \in Terminal
    BY <1>11 DEF RecoverTx, Terminal
  <2>2. last[rsrc[r]] = "running"
    BY <1>0, <2>1 DEF RunsTyped
  <2>3. SourceFailed(r)
    BY <1>11, <2>2 DEF RecoverTx
  <2> QED BY <1>6, <1>7, <2>1, <2>3
<1>12. CASE Renewal
  BY <1>0, <1>12 DEF Renewal, srcVars
<1> QED
  BY <1>0, <1>1, <1>2, <1>3, <1>4, <1>5, <1>8, <1>9, <1>10, <1>11, <1>12 DEF Transaction, Quiet

\* The admin's view of a source agrees with its runs (the transactions of
\* keyword_api_sync_runs.go and keyword_api_sources.go).
THEOREM SourcesStayInSync == Spec => []SourceInSync
<1>1. Init => SourceInSync
  BY DEF Init, SourceInSync, InStatus
<1>2. WorkersOK /\ TablesOK /\ SourceInSync /\ [Next]_vars => SourceInSync'
  BY StepIsTransaction, SourceStep DEF TablesOK
<1> QED BY <1>1, <1>2, SyncInvariant, PTL DEF Spec

-----------------------------------------------------------------------------
\* A run starts with the configuration its source has when it is claimed
\* (claimNextKeywordAPISyncRun).
THEOREM ClaimsAreCurrent == Spec => ClaimIsCurrent
<1>1. ASSUME TablesOK, Transaction, NEW q \in Runs, rstat[q] # "running", rstat'[q] = "running"
      PROVE  rrev'[q] = rev[rsrc'[q]]
  <2> USE <1>1 DEF TablesOK
  <2>1. ASSUME NEW s \in Sources, NewRun(s) PROVE FALSE
    <3>1. rev[s] \in Revs /\ InsertRun(s, "queued", NoWorker, "none")
      BY <2>1 DEF SourcesTyped, NewRun
    <3>2. /\ rstat'[nrun + 1] = "queued"
          /\ \A r \in Runs \ {nrun + 1} : rstat'[r] = "cancelled" \/ rstat'[r] = rstat[r]
      BY <3>1, InsertKeepsOrder
    <3> QED BY <3>2
  <2>2. ASSUME NEW w \in Workers, NEW r \in Runs, StartRun(w, r) PROVE rrev'[q] = rev[rsrc'[q]]
    <3>1. /\ rsrc'[Claimed(r)] = rsrc[r] /\ rrev'[Claimed(r)] = rev[rsrc[r]]
          /\ \A p \in Runs \ {Claimed(r)} : rstat'[p] = "cancelled" \/ rstat'[p] = rstat[p]
      BY <2>2, ClaimKeepsOrder
    <3> QED BY <3>1
  <2>3. ASSUME NEW r \in Runs, NEW st \in Terminal, rstat' = [rstat EXCEPT ![r] = st]
        PROVE  FALSE
    BY <2>3 DEF RunsTyped, Terminal
  <2>4. CASE UNCHANGED rstat
    BY <2>4
  <2>5. ASSUME NEW w \in Workers, EndsRun(w) \/ Applies(w) PROVE FALSE
    BY <2>3, <2>5 DEF EndsRun, EndTx, Applies, FinalizeTx, CloseRun, Terminal
  <2>6. ASSUME NEW r \in Runs, RecoverTx(r) PROVE FALSE
    BY <2>3, <2>6 DEF RecoverTx, CloseRun, Terminal
  <2>7. CASE UNCHANGED dbVars \/ Renewal \/ (\E w \in Workers : Writes(w))
             \/ (\E s \in Sources : Configures(s) \/ Deletes(s))
    BY <2>4, <2>7 DEF dbVars, runVars, Renewal, Writes, SetIteration, Configures, Deletes
  <2> QED BY <2>1, <2>2, <2>5, <2>6, <2>7 DEF Transaction, Quiet
<1>2. WorkersOK /\ TablesOK /\ [Next]_vars =>
        [\A r \in Runs : rstat[r] # "running" /\ rstat'[r] = "running"
                           => rrev'[r] = rev[rsrc'[r]]]_vars
  BY <1>1, StepIsTransaction DEF TablesOK
<1> QED BY <1>2, SyncInvariant, PTL DEF Spec, ClaimIsCurrent

-----------------------------------------------------------------------------
LEMMA PhaseOf ==
    ASSUME NEW st \in RunStatuses
    PROVE  /\ Phase(st) = "absent" <=> st = "none"
           /\ Phase(st) = "queued" <=> st = "queued"
           /\ Phase(st) = "running" <=> st = "running"
           /\ Phase(st) = "applied" <=> st \in {"success", "partial"}
           /\ Phase(st) = "dropped" <=> st \in {"failed", "interrupted", "cancelled"}
<1> QED BY DEF Phase, RunStatuses

\* The refinement mapping.
PhaseBar == [r \in Runs |-> Phase(rstat[r])]

LEMMA InsertIsCreate ==
    ASSUME TablesOK, NEW s \in Sources, NEW st \in {"queued", "running"},
           NEW w \in Workers \cup {NoWorker}, NEW l \in {"none", "live"},
           InsertRun(s, st, w, l), st = "running" => InStatus(s, "running") = {}
    PROVE  SyncRuns!Create(nrun + 1, s, st) /\ nrun + 1 \in Runs
<1> DEFINE n == nrun + 1
<1>1. rev[s] \in Revs
  BY DEF TablesOK, SourcesTyped
<1>2. /\ RunsTyped' /\ n \in Runs /\ rstat[n] = "none" /\ rstat'[n] = st
      /\ \A r \in Runs \ {n} :
           \/ rsrc[r] = s /\ rstat[r] = "queued" /\ rstat'[r] = "cancelled"
           \/ ~(rsrc[r] = s /\ rstat[r] = "queued") /\ rstat'[r] = rstat[r]
  BY <1>1, InsertKeepsOrder DEF TablesOK
<1>3. rsrc' = [rsrc EXCEPT ![n] = s]
  BY DEF InsertRun
<1> HIDE DEF n
<1>4. \A r \in Runs : rstat[r] \in RunStatuses /\ rstat'[r] \in RunStatuses
  BY <1>2 DEF TablesOK, RunsTyped
<1>5. PhaseBar[n] = "absent"
  BY <1>2, <1>4, PhaseOf DEF PhaseBar
<1>6. /\ SyncRuns!InPhase(s, "queued") = InStatus(s, "queued")
      /\ SyncRuns!InPhase(s, "running") = InStatus(s, "running")
  BY <1>4, PhaseOf DEF SyncRuns!InPhase, InStatus
<1>7. PhaseBar' = [k \in Runs |-> IF k = n THEN st
                                  ELSE IF k \in InStatus(s, "queued") THEN "dropped"
                                  ELSE PhaseBar[k]]
  <2> SUFFICES ASSUME NEW k \in Runs
               PROVE  Phase(rstat'[k]) = IF k = n THEN st
                                         ELSE IF k \in InStatus(s, "queued") THEN "dropped"
                                         ELSE Phase(rstat[k])
    BY DEF PhaseBar
  <2>1. CASE k = n
    BY <2>1, <1>2, <1>4, PhaseOf
  <2>2. CASE k # n /\ k \in InStatus(s, "queued")
    BY <2>2, <1>2, <1>4, PhaseOf DEF InStatus
  <2>3. CASE k # n /\ k \notin InStatus(s, "queued")
    BY <2>3, <1>2 DEF InStatus
  <2> QED BY <2>1, <2>2, <2>3
<1> QED BY <1>2, <1>3, <1>5, <1>6, <1>7 DEF SyncRuns!Create, PhaseBar, n

\* A run that leaves "running" is applied or dropped.
LEMMA CloseIsEnd ==
    ASSUME TablesOK, NEW r \in Runs, rstat[r] = "running", NEW st \in Terminal,
           st # "cancelled", NEW i \in {"skipped", "interrupted"}, CloseRun(r, st, i)
    PROVE  SyncRuns!Apply(r) \/ SyncRuns!Drop(r)
<1> USE DEF TablesOK
<1>1. /\ RunsTyped' /\ rsrc' = rsrc /\ rstat'[r] = st
      /\ \A q \in Runs \ {r} : rstat'[q] = rstat[q]
  BY CloseKeepsOrder
<1>2. \A q \in Runs : rstat[q] \in RunStatuses /\ rstat'[q] \in RunStatuses
  BY <1>1 DEF RunsTyped
<1>3. PhaseBar[r] = "running"
  BY <1>2, PhaseOf DEF PhaseBar
<1>4. PhaseBar' = [PhaseBar EXCEPT ![r] = Phase(st)]
  BY <1>1 DEF PhaseBar
<1>5. CASE st \in {"success", "partial"}
  <2>1. Phase(st) = "applied" /\ rstat'[r] \in RunStatuses
    BY <1>1, <1>2, <1>5, PhaseOf
  <2>2. ASSUME NEW k \in SyncRuns!InPhase(rsrc[r], "applied") PROVE k < r
    <3>1. k \in Runs /\ rsrc[k] = rsrc[r] /\ Phase(rstat[k]) = "applied"
      BY <2>2 DEF SyncRuns!InPhase
    <3>2. rstat[k] \in {"success", "partial"} /\ k # r
      BY <3>1, <1>2, PhaseOf
    <3>3. k <= r
      BY <3>1, <3>2 DEF RunsOrdered
    <3> QED BY <3>1, <3>2, <3>3, BoundsTyped
  <2> QED BY <1>1, <1>3, <1>4, <2>1, <2>2 DEF SyncRuns!Apply, PhaseBar
<1>6. CASE st \in {"failed", "interrupted"}
  <2>1. Phase(st) = "dropped"
    BY <1>1, <1>2, <1>6, PhaseOf
  <2> QED BY <1>1, <1>3, <1>4, <2>1 DEF SyncRuns!Drop, PhaseBar
<1> QED BY <1>5, <1>6 DEF Terminal

LEMMA TransactionRefines ==
    TablesOK /\ Transaction => SyncRuns!Next \/ UNCHANGED SyncRuns!vars
<1> SUFFICES ASSUME TablesOK, Transaction PROVE SyncRuns!Next \/ UNCHANGED SyncRuns!vars
  OBVIOUS
<1> USE DEF TablesOK
<1>1. CASE UNCHANGED <<rstat, rsrc>>
  BY <1>1 DEF SyncRuns!vars
<1>2. ASSUME NEW s \in Sources, NewRun(s) PROVE SyncRuns!Next
  <2>1. SyncRuns!Create(nrun + 1, s, "queued") /\ nrun + 1 \in Runs
    BY <1>2, InsertIsCreate DEF NewRun
  <2> QED BY <2>1 DEF SyncRuns!Next
<1>3. ASSUME NEW w \in Workers, NEW r \in Runs, StartRun(w, r) PROVE SyncRuns!Next
  <2>1. rsrc[r] \in Sources /\ rstat[r] = "queued" /\ InStatus(rsrc[r], "running") = {}
    BY <1>3, ClaimKeepsOrder
  <2>2. CASE Claimed(r) = r
    <3>1. rstat' = [rstat EXCEPT ![r] = "running"] /\ rsrc' = rsrc
      BY <1>3, <2>2 DEF StartRun, ClaimTx
    <3>2. \A q \in Runs : rstat[q] \in RunStatuses
      BY DEF RunsTyped
    <3>3. PhaseBar' = [PhaseBar EXCEPT ![r] = Phase("running")]
      BY <3>1 DEF PhaseBar, RunsTyped
    <3>4. Phase("running") = "running" /\ Phase("queued") = "queued"
      BY PhaseOf DEF RunStatuses
    <3>5. SyncRuns!InPhase(rsrc[r], "running") = {}
      BY <2>1, <3>2, PhaseOf DEF SyncRuns!InPhase, InStatus
    <3>6. SyncRuns!Claim(r)
      BY <2>1, <3>1, <3>3, <3>4, <3>5 DEF SyncRuns!Claim, PhaseBar
    <3> QED BY <3>6 DEF SyncRuns!Next
  <2>3. CASE Claimed(r) # r
    <3>1. InsertRun(rsrc[r], "running", w, "live")
      BY <1>3, <2>3 DEF StartRun, ClaimTx
    <3>2. SyncRuns!Create(nrun + 1, rsrc[r], "running") /\ nrun + 1 \in Runs
      BY <2>1, <3>1, InsertIsCreate
    <3> QED BY <2>1, <3>2 DEF SyncRuns!Next
  <2> QED BY <2>2, <2>3
<1>4. ASSUME NEW r \in Runs, rstat[r] = "running", NEW st \in Terminal, st # "cancelled",
             NEW i \in {"skipped", "interrupted"}, CloseRun(r, st, i)
      PROVE  SyncRuns!Next
  BY <1>4, CloseIsEnd DEF SyncRuns!Next
<1>5. ASSUME NEW w \in Workers, EndsRun(w) \/ Applies(w) PROVE SyncRuns!Next
  <2>1. run[w] \in Runs /\ rstat[run[w]] = "running"
    BY <1>5 DEF EndsRun, EndTx, Applies, FinalizeTx, HasLease
  <2>2. \E st \in Terminal \ {"cancelled"}, i \in {"skipped", "interrupted"} :
          CloseRun(run[w], st, i)
    BY <1>5 DEF EndsRun, EndTx, Applies, FinalizeTx, Terminal
  <2> QED BY <1>4, <2>1, <2>2
<1>6. ASSUME NEW r \in Runs, RecoverTx(r) PROVE SyncRuns!Next
  BY <1>4, <1>6 DEF RecoverTx, Terminal
<1>7. CASE UNCHANGED dbVars \/ Renewal \/ (\E w \in Workers : Writes(w))
           \/ (\E s \in Sources : Configures(s) \/ Deletes(s))
  BY <1>1, <1>7 DEF dbVars, runVars, Renewal, Writes, SetIteration, Configures, Deletes
<1> QED BY <1>2, <1>3, <1>5, <1>6, <1>7 DEF Transaction, Quiet

\* Workers, leases, retries and recovery implement SyncJobs
\* (keywordsync/history.go over the run store).
THEOREM SyncRefines == Spec => ImplementsSyncJobs
<1>1. Init => SyncRuns!Init
  <2> SUFFICES ASSUME Init PROVE SyncRuns!Init
    OBVIOUS
  <2>1. (CHOOSE s \in Sources : TRUE) \in Sources
    BY SyncAssumption
  <2>2. rsrc \in [Runs -> Sources]
    BY <2>1 DEF Init
  <2>3. Phase("none") = "absent"
    BY PhaseOf DEF RunStatuses
  <2>4. [r \in Runs |-> Phase(rstat[r])] = [r \in Runs |-> "absent"]
    BY <2>3 DEF Init
  <2> QED BY <2>2, <2>4 DEF SyncRuns!Init
<1>2. WorkersOK /\ TablesOK /\ [Next]_vars => [SyncRuns!Next]_SyncRuns!vars
  BY StepIsTransaction, TransactionRefines DEF TablesOK
<1> QED BY <1>1, <1>2, SyncInvariant, PTL DEF Spec, ImplementsSyncJobs, SyncRuns!Spec

-----------------------------------------------------------------------------
Has(its, old, st) == st \in old \/ \E i \in Steps : its[i] = st

\* What a worker has counted is what it has written, as long as it has the lease.
CountsOK(w) ==
    run[w] \in Runs =>
      /\ rstat[run[w]] \notin {"none", "queued"}
      /\ pc[w] \in Counting /\ HasLease(w) =>
           /\ succ[w] > 0 => Has(iter[run[w]], past[run[w]], "success")
           /\ fail[w] > 0 <=> Has(iter[run[w]], past[run[w]], "failed")

\* OutcomeOfIterations, for one run; no iteration of a queued run has ended.
OutcomeOK(r) ==
    /\ rstat[r] \in {"none", "queued"} =>
         past[r] = {} /\ \A i \in Steps : iter[r][i] \in {"none", "queued"}
    /\ rstat[r] \in Terminal =>
         ~Has(iter[r], past[r], "queued") /\ ~Has(iter[r], past[r], "running")
    /\ rstat[r] = "success" =>
         Has(iter[r], past[r], "success") /\ ~Has(iter[r], past[r], "failed")
    /\ rstat[r] = "partial" =>
         Has(iter[r], past[r], "success") /\ Has(iter[r], past[r], "failed")

OutcomesInv == (\A w \in Workers : CountsOK(w)) /\ (\A r \in Runs : OutcomeOK(r))

LEMMA QuietPast == Quiet => UNCHANGED past
<1> SUFFICES ASSUME Quiet PROVE UNCHANGED past
  OBVIOUS
<1>1. CASE UNCHANGED dbVars \/ Renewal \/ (\E s \in Sources : Configures(s) \/ Deletes(s))
  BY <1>1 DEF dbVars, runVars, Renewal, Configures, Deletes
<1>2. ASSUME NEW s \in Sources, NewRun(s) PROVE UNCHANGED past
  BY <1>2 DEF NewRun, InsertRun
<1>3. ASSUME NEW w \in Workers, NEW r \in Runs, StartRun(w, r) PROVE UNCHANGED past
  BY <1>3 DEF StartRun, ClaimTx, InsertRun
<1>4. ASSUME NEW w \in Workers, EndsRun(w) \/ Applies(w) PROVE UNCHANGED past
  BY <1>4 DEF EndsRun, EndTx, Applies, FinalizeTx, CloseRun
<1>5. ASSUME NEW r \in Runs, RecoverTx(r) PROVE UNCHANGED past
  BY <1>5 DEF RecoverTx, CloseRun
<1> QED BY <1>1, <1>2, <1>3, <1>4, <1>5 DEF Quiet

\* A transaction other than an iteration's leaves a run that it does not start
\* or end as it is.
LEMMA QuietKeeps ==
    ASSUME TablesOK, Quiet, NEW r \in Runs, rstat[r] \notin {"none", "queued"}
    PROVE  /\ rstat'[r] \notin {"none", "queued"}
           /\ rstat'[r] = "running" =>
                /\ rstat[r] = "running" /\ holder'[r] = holder[r] /\ iter'[r] = iter[r]
<1> USE DEF TablesOK
<1>1. CASE UNCHANGED <<rstat, holder, iter>>
  BY <1>1
<1>2. ASSUME NEW s \in Sources, NewRun(s)
      PROVE  rstat'[r] = rstat[r] /\ holder'[r] = holder[r] /\ iter'[r] = iter[r]
  <2>1. rev[s] \in Revs /\ InsertRun(s, "queued", NoWorker, "none")
    BY <1>2 DEF SourcesTyped, NewRun
  <2>2. /\ rstat[nrun + 1] = "none"
        /\ \A q \in Runs \ {nrun + 1} :
             holder'[q] = holder[q]
             /\ (rstat[q] = "queued" \/ (rstat'[q] = rstat[q] /\ iter'[q] = iter[q]))
    BY <2>1, InsertKeepsOrder
  <2> QED BY <2>2
<1>3. ASSUME NEW w \in Workers, NEW c \in Runs, StartRun(w, c)
      PROVE  rstat'[r] = rstat[r] /\ holder'[r] = holder[r] /\ iter'[r] = iter[r]
  <2>1. /\ rstat[c] = "queued" /\ (Claimed(c) = c \/ rstat[Claimed(c)] = "none")
        /\ \A q \in Runs \ {Claimed(c)} :
             holder'[q] = holder[q]
             /\ (rstat[q] = "queued" \/ (rstat'[q] = rstat[q] /\ iter'[q] = iter[q]))
    BY <1>3, ClaimKeepsOrder
  <2> QED BY <2>1
<1>4. ASSUME NEW c \in Runs, rstat[c] = "running", NEW st \in Terminal,
             NEW i \in {"skipped", "interrupted"}, CloseRun(c, st, i)
      PROVE  /\ rstat'[r] \notin {"none", "queued"}
             /\ rstat'[r] = "running" =>
                  /\ rstat[r] = "running" /\ holder'[r] = holder[r] /\ iter'[r] = iter[r]
  <2>1. /\ rstat'[c] = st
        /\ \A q \in Runs \ {c} :
             rstat'[q] = rstat[q] /\ iter'[q] = iter[q] /\ holder'[q] = holder[q]
    BY <1>4, CloseKeepsOrder
  <2>2. st \notin {"none", "queued", "running"}
    BY DEF Terminal
  <2> QED BY <2>1, <2>2
<1>5. ASSUME NEW w \in Workers, EndsRun(w) \/ Applies(w)
      PROVE  /\ run[w] \in Runs /\ rstat[run[w]] = "running"
             /\ \E st \in Terminal, i \in {"skipped", "interrupted"} : CloseRun(run[w], st, i)
  BY <1>5 DEF EndsRun, EndTx, Applies, FinalizeTx, HasLease, Terminal
<1>6. ASSUME NEW c \in Runs, RecoverTx(c)
      PROVE  /\ rstat[c] = "running"
             /\ \E st \in Terminal, i \in {"skipped", "interrupted"} : CloseRun(c, st, i)
  BY <1>6 DEF RecoverTx, Terminal
<1>7. CASE UNCHANGED dbVars \/ Renewal \/ (\E s \in Sources : Configures(s) \/ Deletes(s))
  BY <1>1, <1>7 DEF dbVars, runVars, Renewal, Configures, Deletes
<1> QED BY <1>2, <1>3, <1>4, <1>5, <1>6, <1>7 DEF Quiet

\* Closing a run keeps what its iterations came to.
LEMMA ClosedOutcome ==
    ASSUME TablesOK, NEW r \in Runs, NEW i \in {"skipped", "interrupted"}
    PROVE  LET its == CloseIterations(iter[r], i) IN
           /\ ~Has(its, past[r], "queued") /\ ~Has(its, past[r], "running")
           /\ Has(its, past[r], "success") <=> Has(iter[r], past[r], "success")
           /\ Has(its, past[r], "failed") <=> Has(iter[r], past[r], "failed")
<1>1. iter[r] \in [Steps -> StepStatuses] /\ past[r] \subseteq {"success", "failed"}
  BY DEF TablesOK, RunsTyped
<1> DEFINE its == CloseIterations(iter[r], i)
<1>2. \A k \in Steps : /\ its[k] \notin {"queued", "running"}
                       /\ its[k] = "success" <=> iter[r][k] = "success"
                       /\ its[k] = "failed" <=> iter[r][k] = "failed"
  BY <1>1, CloseIterationsTyped
<1> HIDE DEF its
<1>3. /\ ~Has(its, past[r], "queued") /\ ~Has(its, past[r], "running")
      /\ Has(its, past[r], "success") <=> Has(iter[r], past[r], "success")
      /\ Has(its, past[r], "failed") <=> Has(iter[r], past[r], "failed")
  BY <1>1, <1>2 DEF Has
<1> QED BY <1>3 DEF its

LEMMA QuietOutcomes ==
    ASSUME WorkersOK, TablesOK, OutcomesInv, Quiet, NEW r \in Runs
    PROVE  OutcomeOK(r)'
<1> USE DEF TablesOK
<1>0. (\A q \in Runs : OutcomeOK(q)) /\ UNCHANGED past
  BY QuietPast DEF OutcomesInv
<1>1. ASSUME rstat'[r] = rstat[r], iter'[r] = iter[r] PROVE OutcomeOK(r)'
  BY <1>0, <1>1 DEF OutcomeOK
<1>2. ASSUME NEW n, rstat[r] = "none", rstat'[r] = "queued", iter'[r] = FirstIterations(n)
      PROVE  OutcomeOK(r)'
  <2>1. past'[r] = {} /\ \A i \in Steps : iter'[r][i] \in {"none", "queued"}
    BY <1>0, <1>2 DEF OutcomeOK, FirstIterations
  <2> QED BY <1>2, <2>1 DEF OutcomeOK, Terminal
<1>3. ASSUME NEW i \in {"skipped", "interrupted"}, iter'[r] = CloseIterations(iter[r], i),
             rstat'[r] \in {"failed", "interrupted", "cancelled"}
      PROVE  OutcomeOK(r)'
  <2>1. ~Has(iter'[r], past'[r], "queued") /\ ~Has(iter'[r], past'[r], "running")
    BY <1>0, <1>3, ClosedOutcome
  <2> QED BY <1>3, <2>1 DEF OutcomeOK
<1>4. ASSUME NEW s \in Sources, NewRun(s) PROVE OutcomeOK(r)'
  <2>1. rev[s] \in Revs /\ InsertRun(s, "queued", NoWorker, "none")
    BY <1>4 DEF SourcesTyped, NewRun
  <2>2. /\ rstat[nrun + 1] = "none" /\ rstat'[nrun + 1] = "queued"
        /\ iter'[nrun + 1] = FirstIterations(rev[s])
        /\ \A q \in Runs \ {nrun + 1} :
             \/ rstat'[q] = "cancelled" /\ iter'[q] = CloseIterations(iter[q], "skipped")
             \/ rstat'[q] = rstat[q] /\ iter'[q] = iter[q]
    BY <2>1, InsertKeepsOrder
  <2> QED BY <1>1, <1>2, <1>3, <2>2
<1>5. ASSUME NEW w \in Workers, NEW c \in Runs, StartRun(w, c) PROVE OutcomeOK(r)'
  <2>1. /\ rstat'[Claimed(c)] = "running"
        /\ \A q \in Runs \ {Claimed(c)} :
             \/ rstat'[q] = "cancelled" /\ iter'[q] = CloseIterations(iter[q], "skipped")
             \/ rstat'[q] = rstat[q] /\ iter'[q] = iter[q]
    BY <1>5, ClaimKeepsOrder
  <2>2. CASE r = Claimed(c)
    BY <2>1, <2>2 DEF OutcomeOK, Terminal
  <2>3. CASE r # Claimed(c)
    BY <1>1, <1>3, <2>1, <2>3
  <2> QED BY <2>2, <2>3
<1>6. ASSUME NEW c \in Runs, rstat[c] = "running", NEW st \in {"failed", "interrupted"},
             CloseRun(c, st, "interrupted")
      PROVE  OutcomeOK(r)'
  <2>1. /\ rstat'[c] = st /\ iter'[c] = CloseIterations(iter[c], "interrupted")
        /\ \A q \in Runs \ {c} : rstat'[q] = rstat[q] /\ iter'[q] = iter[q]
    BY <1>6, CloseKeepsOrder DEF Terminal
  <2> QED BY <1>1, <1>3, <2>1
<1>7. ASSUME NEW w \in Workers, EndsRun(w) PROVE OutcomeOK(r)'
  BY <1>6, <1>7 DEF EndsRun, EndTx, HasLease
<1>8. ASSUME NEW c \in Runs, RecoverTx(c) PROVE OutcomeOK(r)'
  BY <1>6, <1>8 DEF RecoverTx
<1>9. ASSUME NEW w \in Workers, Applies(w) PROVE OutcomeOK(r)'
  <2> DEFINE c == run[w]
             st == IF fail[w] > 0 THEN "partial" ELSE "success"
  <2>1. /\ c \in Runs /\ rstat[c] = "running" /\ HasLease(w) /\ pc[w] = "finalize"
        /\ CloseRun(c, st, "skipped") /\ st \in Terminal
    BY <1>9 DEF Applies, FinalizeTx, HasLease, Terminal
  <2>2. succ[w] > 0 /\ fail[w] \in Nat
    BY <2>1 DEF WorkersOK
  <2>3. Has(iter[c], past[c], "success") /\ (fail[w] > 0 <=> Has(iter[c], past[c], "failed"))
    BY <2>1, <2>2 DEF OutcomesInv, CountsOK, Counting
  <2>4. /\ rstat'[c] = st /\ iter'[c] = CloseIterations(iter[c], "skipped")
        /\ \A q \in Runs \ {c} : rstat'[q] = rstat[q] /\ iter'[q] = iter[q]
    BY <2>1, CloseKeepsOrder
  <2>5. st = "partial" \/ st = "success"
    OBVIOUS
  <2>6. st = "partial" <=> fail[w] > 0
    OBVIOUS
  <2> HIDE DEF c, st
  <2>7. CASE r = c
    <3>1. /\ ~Has(iter'[c], past'[c], "queued") /\ ~Has(iter'[c], past'[c], "running")
          /\ Has(iter'[c], past'[c], "success") <=> Has(iter[c], past[c], "success")
          /\ Has(iter'[c], past'[c], "failed") <=> Has(iter[c], past[c], "failed")
      BY <1>0, <2>1, <2>4, ClosedOutcome
    <3> QED BY <2>3, <2>4, <2>5, <2>6, <2>7, <3>1 DEF OutcomeOK
  <2>8. CASE r # c
    BY <1>1, <2>4, <2>8
  <2> QED BY <2>7, <2>8
<1>10. CASE UNCHANGED dbVars \/ Renewal \/ (\E s \in Sources : Configures(s) \/ Deletes(s))
  <2>1. UNCHANGED <<rstat, iter>>
    BY <1>10 DEF dbVars, runVars, Renewal, Configures, Deletes
  <2> QED BY <1>1, <2>1
<1> QED BY <1>4, <1>5, <1>7, <1>8, <1>9, <1>10 DEF Quiet

\* A worker whose run goes on knows its iterations after a quiet step.
LEMMA QuietCounts ==
    ASSUME WorkersOK, TablesOK, OutcomesInv, Quiet, NEW w \in Workers, Steady(w)
    PROVE  CountsOK(w)'
<1> USE DEF TablesOK
<1>1. CASE run'[w] = 0
  BY <1>1, BoundsTyped DEF CountsOK
<1>2. CASE /\ run'[w] = run[w] /\ succ'[w] = succ[w] /\ fail'[w] = fail[w]
           /\ pc'[w] \in Counting => pc[w] \in Counting
  <2> SUFFICES ASSUME run[w] \in Runs PROVE CountsOK(w)'
    BY <1>2 DEF CountsOK
  <2>1. CountsOK(w) /\ rstat[run[w]] \notin {"none", "queued"}
    BY DEF OutcomesInv, CountsOK
  <2>2. /\ rstat'[run[w]] \notin {"none", "queued"}
        /\ rstat'[run[w]] = "running" =>
             /\ rstat[run[w]] = "running" /\ holder'[run[w]] = holder[run[w]]
             /\ iter'[run[w]] = iter[run[w]]
    BY <2>1, QuietKeeps
  <2>3. (HasLease(w)' => HasLease(w) /\ iter'[run[w]] = iter[run[w]]) /\ UNCHANGED past
    BY <1>2, <2>2, QuietPast DEF HasLease
  <2> QED BY <1>2, <2>1, <2>2, <2>3 DEF CountsOK
<1>3. CASE /\ run'[w] \in Runs /\ succ'[w] = 0 /\ fail'[w] = 0
           /\ \E r \in Runs : StartRun(w, r) /\ run'[w] = Claimed(r)
  <2>1. PICK r \in Runs : StartRun(w, r) /\ run'[w] = Claimed(r)
    BY <1>3
  <2>2. /\ rstat[r] = "queued" /\ rstat'[Claimed(r)] = "running"
        /\ \/ Claimed(r) = r /\ iter' = iter
           \/ /\ rstat[Claimed(r)] = "none"
              /\ iter'[Claimed(r)] = FirstIterations(rev[rsrc[r]])
    BY <2>1, ClaimKeepsOrder
  <2>3. UNCHANGED past /\ past[Claimed(r)] = {}
    BY <1>3, <2>1, <2>2, QuietPast DEF OutcomesInv, OutcomeOK
  <2>4. \A i \in Steps : iter'[Claimed(r)][i] \in {"none", "queued"}
    BY <2>2 DEF OutcomesInv, OutcomeOK, FirstIterations
  <2>5. ~Has(iter'[Claimed(r)], past'[Claimed(r)], "failed")
    BY <2>3, <2>4 DEF Has
  <2> QED BY <1>3, <2>1, <2>2, <2>5 DEF CountsOK
<1> QED BY <1>1, <1>2, <1>3 DEF Steady

\* Writing an iteration leaves what the others came to, and an ended one whose
\* place it takes is remembered.
LEMMA WriteOutcome ==
    ASSUME TablesOK, NEW r \in Runs, NEW i \in Steps,
           NEW st \in {"running", "success", "failed"},
           iter' = [iter EXCEPT ![r][i] = st],
           past' = [past EXCEPT ![r] = @ \cup ({iter[r][i]} \cap {"success", "failed"})]
    PROVE  /\ \A q \in Runs \ {r} : iter'[q] = iter[q] /\ past'[q] = past[q]
           /\ Has(iter'[r], past'[r], "success") <=>
                st = "success" \/ Has(iter[r], past[r], "success")
           /\ Has(iter'[r], past'[r], "failed") <=>
                st = "failed" \/ Has(iter[r], past[r], "failed")
<1>1. /\ iter \in [Runs -> [Steps -> StepStatuses]]
      /\ past \in [Runs -> SUBSET {"success", "failed"}]
  BY DEF TablesOK, RunsTyped
<1>2. \A q \in Runs \ {r} : iter'[q] = iter[q] /\ past'[q] = past[q]
  BY <1>1
<1>3. /\ iter'[r][i] = st
      /\ \A k \in Steps \ {i} : iter'[r][k] = iter[r][k]
  BY <1>1
<1>4. \A s \in {"success", "failed"} : s \in past'[r] <=> s \in past[r] \/ s = iter[r][i]
  BY <1>1
<1> QED BY <1>2, <1>3, <1>4 DEF Has

\* Both transactions on an iteration are of that form.
LEMMA WriteForm ==
    ASSUME TablesOK, NEW w \in Workers, Writes(w)
    PROVE  LET r == run[w]  i == idx[w] IN
           /\ past' = [past EXCEPT ![r] = @ \cup ({iter[r][i]} \cap {"success", "failed"})]
           /\ BeginTx(w) => iter' = [iter EXCEPT ![r][i] = "running"]
           /\ CompleteTx(w) /\ out[w] = "success" => iter' = [iter EXCEPT ![r][i] = "success"]
           /\ CompleteTx(w) /\ out[w] # "success" => iter' = [iter EXCEPT ![r][i] = "failed"]
<1> DEFINE r == run[w]
           i == idx[w]
<1>1. past \in [Runs -> SUBSET {"success", "failed"}] /\ r \in Runs
  BY DEF TablesOK, RunsTyped, Writes
<1>2. past' = [past EXCEPT ![r] = @ \cup ({iter[r][i]} \cap {"success", "failed"})]
  <2>1. CASE BeginTx(w)
    BY <2>1 DEF BeginTx
  <2>2. CASE CompleteTx(w)
    <3>1. {iter[r][i]} \cap {"success", "failed"} = {} /\ past' = past
      BY <2>2 DEF CompleteTx, IterationOpen
    <3> QED BY <1>1, <3>1
  <2> QED BY <2>1, <2>2 DEF Writes
<1>3. BeginTx(w) => iter' = [iter EXCEPT ![r][i] = "running"]
  BY DEF BeginTx, SetIteration
<1>4. CompleteTx(w) /\ out[w] = "success" => iter' = [iter EXCEPT ![r][i] = "success"]
  BY DEF CompleteTx, SetIteration
<1>5. CompleteTx(w) /\ out[w] # "success" => iter' = [iter EXCEPT ![r][i] = "failed"]
  BY DEF CompleteTx, SetIteration
<1> QED BY <1>2, <1>3, <1>4, <1>5

LEMMA RecordsOutcomes ==
    ASSUME WorkersOK, TablesOK, OutcomesInv, NEW w \in Workers, Records(w)
    PROVE  OutcomesInv'
<1> DEFINE c == run[w]
           i == idx[w]
<1>0. Writes(w)
  BY DEF Records
<1>1. /\ past' = [past EXCEPT ![c] = @ \cup ({iter[c][i]} \cap {"success", "failed"})]
      /\ BeginTx(w) => iter' = [iter EXCEPT ![c][i] = "running"]
      /\ CompleteTx(w) /\ out[w] = "success" => iter' = [iter EXCEPT ![c][i] = "success"]
      /\ CompleteTx(w) /\ out[w] # "success" => iter' = [iter EXCEPT ![c][i] = "failed"]
  BY <1>0, WriteForm
<1>2. /\ c \in Runs /\ i \in Steps /\ rstat[c] = "running" /\ holder[c] = w
      /\ UNCHANGED <<rstat, holder>> /\ pc[w] \in Counting
  BY <1>0 DEF Writes, SetIteration, HasLease, Counting
<1>3. \A q \in Runs \ {c} : iter'[q] = iter[q] /\ past'[q] = past[q]
  <2>1. PICK st \in {"running", "success", "failed"} : iter' = [iter EXCEPT ![c][i] = st]
    BY <1>0 DEF Writes, SetIteration
  <2> QED BY <1>1, <1>2, <2>1, WriteOutcome
<1>4. ASSUME NEW r \in Runs PROVE OutcomeOK(r)'
  <2>1. CASE r = c
    BY <1>2, <2>1 DEF OutcomeOK, Terminal
  <2>2. CASE r # c
    BY <1>2, <1>3, <2>2 DEF OutcomesInv, OutcomeOK
  <2> QED BY <2>1, <2>2
<1>5. ASSUME NEW v \in Workers, NEW r \in Runs, StartRun(v, r) PROVE FALSE
  <2>1. /\ rstat[r] = "queued" /\ rstat'[Claimed(r)] = "running"
        /\ Claimed(r) = r \/ rstat[Claimed(r)] = "none"
    BY <1>5, ClaimKeepsOrder
  <2> QED BY <1>2, <2>1
<1>6. ASSUME NEW v \in Workers \ {w} PROVE CountsOK(v)'
  <2>1. Steady(v) /\ CountsOK(v)
    BY DEF Records, OutcomesInv
  <2>2. CASE run'[v] = 0
    BY <2>2, BoundsTyped DEF CountsOK
  <2>3. CASE /\ run'[v] = run[v] /\ succ'[v] = succ[v] /\ fail'[v] = fail[v]
             /\ pc'[v] \in Counting => pc[v] \in Counting
    <3>1. HasLease(v)' => HasLease(v) /\ run[v] # c
      BY <1>2, <2>3 DEF HasLease
    <3> QED BY <1>2, <1>3, <2>1, <2>3, <3>1 DEF CountsOK
  <2> QED BY <1>5, <2>1, <2>2, <2>3 DEF Steady
<1>7. CountsOK(w)'
  <2>1. /\ succ[w] > 0 => Has(iter[c], past[c], "success")
        /\ fail[w] > 0 <=> Has(iter[c], past[c], "failed")
    BY <1>2 DEF OutcomesInv, CountsOK, HasLease
  <2>2. CASE run'[w] = 0
    BY <2>2, BoundsTyped DEF CountsOK
  <2>3. CASE run'[w] = c /\ pc'[w] \notin Counting
    BY <1>2, <2>3 DEF CountsOK
  <2>4. CASE BeginTx(w) /\ Steady(w)
    <3>1. iter' = [iter EXCEPT ![c][i] = "running"]
      BY <1>1, <2>4
    <3>2. /\ Has(iter'[c], past'[c], "success") <=> Has(iter[c], past[c], "success")
          /\ Has(iter'[c], past'[c], "failed") <=> Has(iter[c], past[c], "failed")
      <4>1. /\ Has(iter'[c], past'[c], "success") <=>
                 "running" = "success" \/ Has(iter[c], past[c], "success")
            /\ Has(iter'[c], past'[c], "failed") <=>
                 "running" = "failed" \/ Has(iter[c], past[c], "failed")
        BY <1>1, <1>2, <3>1, WriteOutcome
      <4> QED BY <4>1
    <3>3. CASE run'[w] = c /\ succ'[w] = succ[w] /\ fail'[w] = fail[w]
      BY <1>2, <2>1, <3>2, <3>3 DEF CountsOK
    <3> QED BY <1>5, <2>2, <2>4, <3>3 DEF Steady
  <2>5. CASE CompleteTx(w) /\ Completed(w)
    <3>1. run'[w] = c /\ succ[w] \in Nat /\ fail[w] \in Nat
      BY <2>5 DEF Completed, WorkersOK
    <3>2. CASE out[w] = "success"
      <4>1. iter' = [iter EXCEPT ![c][i] = "success"]
        BY <1>1, <2>5, <3>2
      <4>2. /\ Has(iter'[c], past'[c], "success") <=>
                 "success" = "success" \/ Has(iter[c], past[c], "success")
            /\ Has(iter'[c], past'[c], "failed") <=>
                 "success" = "failed" \/ Has(iter[c], past[c], "failed")
        BY <1>1, <1>2, <4>1, WriteOutcome
      <4>3. fail'[w] = fail[w]
        BY <2>5, <3>2 DEF Completed, WorkersOK
      <4> QED BY <1>2, <2>1, <3>1, <4>2, <4>3 DEF CountsOK
    <3>3. CASE out[w] # "success"
      <4>1. iter' = [iter EXCEPT ![c][i] = "failed"]
        BY <1>1, <2>5, <3>3
      <4>2. /\ Has(iter'[c], past'[c], "success") <=>
                 "failed" = "success" \/ Has(iter[c], past[c], "success")
            /\ Has(iter'[c], past'[c], "failed") <=>
                 "failed" = "failed" \/ Has(iter[c], past[c], "failed")
        BY <1>1, <1>2, <4>1, WriteOutcome
      <4>3. succ'[w] = succ[w] /\ fail'[w] > 0
        BY <2>5, <3>1, <3>3 DEF Completed, WorkersOK
      <4> QED BY <1>2, <2>1, <3>1, <4>2, <4>3 DEF CountsOK
    <3> QED BY <3>2, <3>3
  <2> QED BY <2>2, <2>3, <2>4, <2>5 DEF Records
<1> QED BY <1>4, <1>6, <1>7 DEF OutcomesInv

\* The status of a run is the outcome of its iterations, whoever ended it
\* (executeTrackedRun and the run store).
THEOREM OutcomesHold == Spec => []OutcomeOfIterations
<1>1. Init => OutcomesInv
  <2> SUFFICES ASSUME Init PROVE OutcomesInv
    OBVIOUS
  <2>1. \A w \in Workers : CountsOK(w)
    BY BoundsTyped DEF Init, CountsOK
  <2>2. \A r \in Runs : OutcomeOK(r)
    BY DEF Init, OutcomeOK, Terminal
  <2> QED BY <2>1, <2>2 DEF OutcomesInv
<1>2. ASSUME WorkersOK, TablesOK, OutcomesInv, [Next]_vars PROVE OutcomesInv'
  <2>1. CASE Quiet /\ \A w \in Workers : Steady(w)
    <3>1. \A w \in Workers : CountsOK(w)'
      BY <1>2, <2>1, QuietCounts
    <3>2. \A r \in Runs : OutcomeOK(r)'
      BY <1>2, <2>1, QuietOutcomes
    <3> QED BY <3>1, <3>2 DEF OutcomesInv
  <2>2. ASSUME NEW w \in Workers, Records(w) PROVE OutcomesInv'
    BY <1>2, <2>2, RecordsOutcomes
  <2> QED BY <1>2, <2>1, <2>2, StepKinds DEF TablesOK
<1>3. OutcomesInv => OutcomeOfIterations
  BY DEF OutcomesInv, OutcomeOK, OutcomeOfIterations, Has
<1> QED BY <1>1, <1>2, <1>3, SyncInvariant, PTL DEF Spec

=============================================================================
