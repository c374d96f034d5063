----------------------- MODULE CollectionRunnerProofs -----------------------
(***************************************************************************)
(* Proofs about CollectionRunner for any keywords, concurrent recordings,  *)
(* faults and bounds.                                                      *)
(*                                                                         *)
(* The many actions change the run store by the few transactions listed in *)
(* Transaction, and the invariant of the store (StoreInv) is proved from   *)
(* those.  Who may be where (Control) and what a caller may assume of its  *)
(* variables (Work) are proved per action.                                 *)
(***************************************************************************)
EXTENDS CollectionRunner, FiniteSetTheorems, TLAPS

\* Where the holder of the guard is, by who may hold it there.
Fresh   == {"recover", "create", "mark", "collect", "complete", "require", "finish"}
Resumed == {"rcollect", "rcomplete", "rclaim"}
Guarded == Fresh \cup Resumed \cup {"tick_claim"}
Starting == {"start_recover", "start_claim"}

\* Where an external recording holds persistMu, and where it has an item.
Recorded == {"x_mark", "x_complete", "x_finish"}
Locked   == Recorded \cup {"x_create"}

TickLabels ==
    Guarded \cup Starting \cup {"idle", "exited", "tick_recover", "tick_pending", "begin"}
ManualLabels   == Fresh \cup {"idle"}
ExternalLabels == Locked \cup {"idle", "x_lock"}
Labels         == TickLabels \cup ManualLabels \cup ExternalLabels

StoreTyped ==
    /\ istat \in [Items -> Statuses] /\ found \in [Items -> BOOLEAN]
    /\ bstat \in [Batches -> Statuses] /\ nbatch \in 0..MaxBatches

\* No item belongs to a batch that was not created.
NoneBefore == \A i \in Items : i[1] > nbatch => istat[i] = "none"

Rows == StoreTyped /\ NoneBefore /\ BatchInSync

\* A recovery between its statements: it is due, the items it has reset are still
\* running for everybody else, and what else runs was marked since.
RecoveryExact ==
    /\ reset \subseteq Running
    /\ Recovering =>
         /\ ~recovered
         /\ \A i \in Items : istat[i] = "running" => i \in reset \/ i[1] \in torn

StoreInv == Rows /\ RecoveryExact

\* What a step may do to persistMu and to a recovery under way.
LockStep ==
    \/ UNCHANGED lockVars /\ recovered' \in {recovered, FALSE}
    \/ ~Recovering' /\ reset' \in {reset, {}}
    \/ UNCHANGED dbVars /\ reset' = Running /\ recovered' = FALSE

\* What a step may do to the run store.
Ordinary ==
    \/ \E t \in Triggers, ks \in (SUBSET Keywords) \ {{}} : CreateRun(t, ks)
    \/ \E i \in Items : MarkRunItemRunning(i)
    \/ \E i \in Items, res \in Results : CompleteRunItem(i, res)
    \/ \E b \in Batches, status \in Terminal : CompleteRun(b, status)

Recovery == Recovering /\ RecoverRunningItems /\ ~Recovering' /\ reset' = {}

Transaction == LockStep /\ (UNCHANGED dbVars \/ Ordinary \/ Recovery)

\* The variables of the callers, and what they mean where a caller is.
WorkTyped ==
    /\ batch \in [Callers -> 0..MaxBatches]
    /\ cur \in [Callers -> Items \cup {NoItem}]
    /\ todo \in [Callers -> SUBSET Keywords]
    /\ out \in [Callers -> Results]
    /\ tally \in [Callers -> {"failed", "success_empty", "success"}]

InternalWork ==
    \A c \in Internals :
      /\ batch[c] <= nbatch
      /\ pc[c] \in {"mark", "require", "finish"} => batch[c] \in Batches
      /\ Working(c) => cur[c] \in Items /\ cur[c][1] = batch[c]

\* The item of a recording is in a batch of its own.
ExternalWork ==
    \A x \in Externals : pc[x] \in Recorded =>
      /\ cur[x] \in Items /\ cur[x][1] <= nbatch
      /\ \A c \in Internals : batch[c] # cur[x][1]

Work == WorkTyped /\ InternalWork /\ ExternalWork

PlacesTyped ==
    /\ pc \in [Callers -> Labels]
    /\ pc["tick"] \in TickLabels /\ pc["manual"] \in ManualLabels
    /\ \A x \in Externals : pc[x] \in ExternalLabels

\* The guard is taken exactly while one internal caller is where it is held.
GuardExact ==
    /\ active \in BOOLEAN
    /\ active <=> pc["tick"] \in Guarded \/ pc["manual"] \in Guarded
    /\ ~(pc["tick"] \in Guarded /\ pc["manual"] \in Guarded)

LockExact == \A x \in Externals : pc[x] \in Locked => persist = x

\* Nothing runs in a process that is down, and only the schedule loop in one
\* that is starting.
Phases ==
    /\ up \in {"down", "starting", "up", "stopping"} /\ cancelled \in BOOLEAN
    /\ cancelled => up \in {"up", "stopping"}
    /\ up = "down" => pc["tick"] = "idle"
    /\ up = "starting" <=> pc["tick"] \in Starting
    /\ up \in {"down", "starting"} =>
         pc["manual"] = "idle" /\ \A x \in Externals : pc[x] = "idle"

\* The wait group counts the schedule loop, the holder of the guard and the
\* recordings.
Recordings == {x \in Externals : pc[x] # "idle"}
LoopCount  == IF up = "down" \/ pc["tick"] = "exited" THEN 0 ELSE 1
GuardCount == IF active THEN 1 ELSE 0
WaitExact  == wg = LoopCount + GuardCount + Cardinality(Recordings)

Control == PlacesTyped /\ GuardExact /\ LockExact /\ Phases
Counted == Control /\ WaitExact

\* The manual batch works on recovered items only; a worker's item is running.
Ownership ==
    ~asked =>
      /\ pc["manual"] \in Fresh \ {"recover", "finish"} => recovered
      /\ WorkerOwnsItem

RunnerInv == StoreInv /\ Work /\ Counted /\ Ownership

-----------------------------------------------------------------------------
(* The run store *)

LEMMA StoreStart == Init => StoreInv
<1>1. Init => Rows
  BY RunnerAssumption
     DEF Init, Rows, StoreTyped, NoneBefore, BatchInSync, Batches, Statuses, Items
<1>2. Init => RecoveryExact
  BY DEF Init, RecoveryExact
<1> QED BY <1>1, <1>2 DEF StoreInv

LEMMA ItemParts ==
    \A i \in Items : i[1] \in Batches /\ i[2] \in Keywords /\ i[1] \in Nat /\ i \in ItemsOf(i[1])
BY RunnerAssumption DEF Items, Batches, ItemsOf

\* The status finalizeRunTx computes for a batch is one its items agree with.
LEMMA AggregateAgrees ==
    ASSUME NEW b, NEW st \in [Items -> Statuses], NEW fd
    PROVE  /\ Aggregate(b, st, fd) \in Statuses
           /\ Aggregate(b, st, fd) = "running" <=> \E i \in ItemsOf(b) : st[i] = "running"
           /\ Aggregate(b, st, fd) \in Terminal
                <=> ~ \E i \in ItemsOf(b) : st[i] \in {"pending", "running"}
<1> DEFINE its == {i \in ItemsOf(b) : st[i] # "none"}
           Some(s) == \E i \in its : st[i] = s
<1>1. /\ Some("running") <=> \E i \in ItemsOf(b) : st[i] = "running"
      /\ Some("pending") <=> \E i \in ItemsOf(b) : st[i] = "pending"
  OBVIOUS
<1>2. Aggregate(b, st, fd) =
        IF Some("running") THEN "running"
        ELSE IF Some("pending") THEN "pending"
        ELSE IF Some("partial") THEN "partial"
        ELSE IF Some("success") \/ \E i \in its : fd[i] THEN "success"
        ELSE IF Some("success_empty") THEN "success_empty" ELSE "failed"
  BY DEF Aggregate
<1> HIDE DEF its, Some
<1>3. CASE Some("running")
  BY <1>1, <1>2, <1>3 DEF Statuses, Terminal
<1>4. CASE ~Some("running") /\ Some("pending")
  BY <1>1, <1>2, <1>4 DEF Statuses, Terminal
<1>5. CASE ~Some("running") /\ ~Some("pending")
  <2>1. Aggregate(b, st, fd) \in {"partial", "success", "success_empty", "failed"}
    BY <1>2, <1>5
  <2> QED BY <1>1, <1>5, <2>1 DEF Statuses, Terminal
<1> QED BY <1>3, <1>4, <1>5

\* A batch and its items agree.
Agrees(b) ==
    /\ bstat[b] = "running" => \E i \in ItemsOf(b) : istat[i] = "running"
    /\ b \notin torn => \A i \in ItemsOf(b) : istat[i] = "running" => bstat[b] = "running"
    /\ bstat[b] \in Terminal <=> ~Unfinished(b)

LEMMA SyncIsAgreement == BatchInSync <=> \A b \in 1..nbatch : Agrees(b)
BY DEF BatchInSync, Agrees

\* A batch that a transaction leaves alone.
LEMMA UntouchedAgrees ==
    ASSUME Rows, NEW d \in 1..nbatch, bstat'[d] = bstat[d], d \in torn => d \in torn',
           \A i \in ItemsOf(d) : istat'[i] = istat[i]
    PROVE  Agrees(d)'
<1>1. Agrees(d)
  BY SyncIsAgreement DEF Rows
<1>2. Unfinished(d)' <=> Unfinished(d)
  BY DEF Unfinished, ItemsOf
<1> QED BY <1>1, <1>2 DEF Agrees, ItemsOf

LEMMA CreateKeepsRows ==
    ASSUME Rows, NEW t, NEW ks \in (SUBSET Keywords) \ {{}}, CreateRun(t, ks)
    PROVE  Rows'
<1> DEFINE b == nbatch + 1
<1>1. /\ nbatch \in Nat /\ b \in Batches /\ nbatch' = b
      /\ istat' = [i \in Items |-> IF i[1] = b /\ i[2] \in ks THEN "pending" ELSE istat[i]]
      /\ bstat' = [bstat EXCEPT ![b] = "pending"] /\ found' = found /\ torn' = torn
  BY RunnerAssumption DEF Rows, StoreTyped, CreateRun, Batches
<1>2. StoreTyped'
  BY <1>1 DEF Rows, StoreTyped, Statuses, Batches
<1>3. NoneBefore'
  BY <1>1, ItemParts DEF Rows, NoneBefore
<1>4. ASSUME NEW d \in 1..nbatch'
      PROVE  Agrees(d)'
  <2>1. CASE d = b
    <3>1. \A i \in ItemsOf(b) : istat[i] = "none"
      BY <1>1, ItemParts DEF Rows, NoneBefore, ItemsOf
    <3>2. \A i \in ItemsOf(b) : istat'[i] \in {"none", "pending"}
      BY <1>1, <3>1 DEF ItemsOf
    <3>3. PICK k \in ks : k \in Keywords
      OBVIOUS
    <3>4. <<b, k>> \in ItemsOf(b) /\ istat'[<<b, k>>] = "pending"
      BY <1>1, <3>3 DEF ItemsOf, Items
    <3>5. Unfinished(d)' /\ bstat'[d] = "pending"
      BY <1>1, <2>1, <3>4 DEF Rows, StoreTyped, Unfinished
    <3> QED BY <2>1, <3>2, <3>5 DEF Terminal, Agrees
  <2>2. CASE d # b
    <3>1. d \in 1..nbatch /\ d \in Batches
      <4>1. d \in Nat /\ d >= 1 /\ d <= b
        BY <1>1
      <4> QED BY <1>1, <2>2, <4>1, RunnerAssumption DEF Batches
    <3>2. \A i \in ItemsOf(d) : istat'[i] = istat[i]
      BY <1>1, <2>2 DEF ItemsOf
    <3>3. bstat'[d] = bstat[d]
      BY <1>1, <2>2, <3>1 DEF Rows, StoreTyped
    <3> QED BY <1>1, <3>1, <3>2, <3>3, UntouchedAgrees
  <2> QED BY <2>1, <2>2
<1> QED BY <1>2, <1>3, <1>4, SyncIsAgreement DEF Rows, BatchInSync, Agrees

LEMMA MarkKeepsRows ==
    ASSUME Rows, NEW i \in Items, MarkRunItemRunning(i)
    PROVE  Rows'
<1>1. /\ istat[i] = "pending" /\ istat' = [istat EXCEPT ![i] = "running"]
      /\ bstat' = [bstat EXCEPT ![i[1]] = "running"]
      /\ found' = found /\ nbatch' = nbatch
      /\ \A d : d # i[1] => (d \in torn' <=> d \in torn)
  BY DEF MarkRunItemRunning
<1>2. StoreTyped' /\ NoneBefore'
  BY <1>1, ItemParts DEF Rows, StoreTyped, NoneBefore, Statuses
<1>3. ASSUME NEW d \in 1..nbatch
      PROVE  Agrees(d)'
  <2>0. d \in Batches
    BY RunnerAssumption DEF Rows, StoreTyped, Batches
  <2>1. CASE d = i[1]
    <3>1. i \in ItemsOf(d) /\ istat'[i] = "running" /\ bstat'[d] = "running"
      BY <1>1, <2>0, <2>1, ItemParts DEF Rows, StoreTyped
    <3> QED BY <3>1 DEF Unfinished, Terminal, Agrees
  <2>2. CASE d # i[1]
    <3>1. \A j \in ItemsOf(d) : istat'[j] = istat[j]
      BY <1>1, <2>2 DEF ItemsOf, Rows, StoreTyped
    <3>2. bstat'[d] = bstat[d]
      BY <1>1, <2>0, <2>2 DEF Rows, StoreTyped
    <3> QED BY <1>1, <2>2, <3>1, <3>2, UntouchedAgrees
  <2> QED BY <2>1, <2>2
<1> QED BY <1>1, <1>2, <1>3 DEF Rows, BatchInSync, Agrees

LEMMA CompleteKeepsRows ==
    ASSUME Rows, NEW i \in Items, NEW res \in Results, CompleteRunItem(i, res)
    PROVE  Rows'
<1>0. res[1] \in Terminal /\ res[2] \in BOOLEAN
  BY DEF Results
<1>1. /\ istat[i] = "running" /\ istat' = [istat EXCEPT ![i] = res[1]]
      /\ found' = [found EXCEPT ![i] = res[2]]
      /\ bstat' = [bstat EXCEPT ![i[1]] = Aggregate(i[1], istat', found')]
      /\ nbatch' = nbatch
      /\ \A d : d # i[1] => (d \in torn' <=> d \in torn)
  BY DEF CompleteRunItem
<1>2. istat' \in [Items -> Statuses] /\ found' \in [Items -> BOOLEAN]
  BY <1>0, <1>1 DEF Rows, StoreTyped, Statuses
<1>3. /\ Aggregate(i[1], istat', found') \in Statuses
      /\ Aggregate(i[1], istat', found') = "running"
           <=> \E j \in ItemsOf(i[1]) : istat'[j] = "running"
      /\ Aggregate(i[1], istat', found') \in Terminal
           <=> ~ \E j \in ItemsOf(i[1]) : istat'[j] \in {"pending", "running"}
  BY <1>2, AggregateAgrees
<1>4. StoreTyped'
  BY <1>1, <1>2, <1>3 DEF Rows, StoreTyped
<1>5. NoneBefore'
  BY <1>1, ItemParts DEF Rows, StoreTyped, NoneBefore
<1>6. ASSUME NEW d \in 1..nbatch
      PROVE  Agrees(d)'
  <2>0. d \in Batches
    BY RunnerAssumption DEF Rows, StoreTyped, Batches
  <2>1. CASE d = i[1]
    <3>1. bstat'[d] = Aggregate(i[1], istat', found')
      BY <1>1, <2>0, <2>1 DEF Rows, StoreTyped
    <3> QED BY <1>3, <2>1, <3>1 DEF Unfinished, Agrees
  <2>2. CASE d # i[1]
    <3>1. \A j \in ItemsOf(d) : istat'[j] = istat[j]
      BY <1>1, <2>2 DEF ItemsOf, Rows, StoreTyped
    <3>2. bstat'[d] = bstat[d]
      BY <1>1, <2>0, <2>2 DEF Rows, StoreTyped
    <3> QED BY <1>1, <2>2, <3>1, <3>2, UntouchedAgrees
  <2> QED BY <2>1, <2>2
<1> QED BY <1>1, <1>4, <1>5, <1>6 DEF Rows, BatchInSync, Agrees

LEMMA FinishKeepsRows ==
    ASSUME Rows, NEW b \in Batches, NEW status \in Terminal, CompleteRun(b, status)
    PROVE  Rows'
<1>1. /\ ~Unfinished(b) /\ bstat' = [bstat EXCEPT ![b] = status]
      /\ istat' = istat /\ found' = found /\ nbatch' = nbatch /\ torn' = torn
  BY DEF CompleteRun
<1>2. StoreTyped' /\ NoneBefore'
  BY <1>1 DEF Rows, StoreTyped, NoneBefore, Statuses
<1>3. ASSUME NEW d \in 1..nbatch
      PROVE  Agrees(d)'
  <2>0. d \in Batches
    BY RunnerAssumption DEF Rows, StoreTyped, Batches
  <2>1. CASE d = b
    <3>1. bstat'[d] = status /\ status # "running"
      BY <1>1, <2>0, <2>1 DEF Rows, StoreTyped, Terminal
    <3> QED BY <1>1, <2>1, <3>1 DEF Unfinished, Agrees
  <2>2. CASE d # b
    <3>1. bstat'[d] = bstat[d]
      BY <1>1, <2>0, <2>2 DEF Rows, StoreTyped
    <3> QED BY <1>1, <3>1, UntouchedAgrees
  <2> QED BY <2>1, <2>2
<1> QED BY <1>1, <1>2, <1>3 DEF Rows, BatchInSync, Agrees

\* What runs after a recovery was marked since its first statement.
LEMMA RecoverKeepsRows ==
    ASSUME StoreInv, Recovering, RecoverRunningItems
    PROVE  Rows'
<1>1. /\ istat' = [i \in Items |-> IF i \in reset THEN "pending" ELSE istat[i]]
      /\ bstat' = [b \in Batches |->
                     IF bstat[b] = "running" /\ \E i \in ItemsOf(b) : istat'[i] = "pending"
                     THEN "pending" ELSE bstat[b]]
      /\ found' = found /\ nbatch' = nbatch /\ torn' = torn
  BY DEF RecoverRunningItems
<1>0. /\ Rows
      /\ \A i \in reset : i \in Items /\ istat[i] = "running"
      /\ \A i \in Items : istat[i] = "running" => i \in reset \/ i[1] \in torn
  BY DEF StoreInv, RecoveryExact, Running
<1>2. StoreTyped' /\ NoneBefore'
  BY <1>0, <1>1 DEF Rows, StoreTyped, NoneBefore, Statuses
<1>3. ASSUME NEW d \in 1..nbatch
      PROVE  Agrees(d)'
  <2>0. d \in Batches /\ Agrees(d)
    BY <1>0, RunnerAssumption, SyncIsAgreement DEF Rows, StoreTyped, Batches
  <2>1. \A j \in ItemsOf(d) : j \in Items /\ j[1] = d
    BY DEF ItemsOf
  <2>2. Unfinished(d)' <=> Unfinished(d)
    BY <1>0, <1>1, <2>1 DEF Unfinished
  <2>3. d \notin torn => \A j \in ItemsOf(d) : istat'[j] # "running"
    BY <1>0, <1>1, <2>1
  <2>4. CASE bstat[d] = "running"
    <3>1. PICK j \in ItemsOf(d) : istat[j] = "running"
      BY <2>0, <2>4 DEF Agrees
    <3>2. istat'[j] \in {"pending", "running"} /\ Unfinished(d)
      BY <1>1, <2>1, <3>1 DEF Unfinished
    <3>3. bstat'[d] = IF \E i \in ItemsOf(d) : istat'[i] = "pending" THEN "pending" ELSE "running"
      BY <1>1, <2>0, <2>4
    <3> QED BY <1>1, <2>2, <2>3, <3>1, <3>2, <3>3 DEF Terminal, Agrees
  <2>5. CASE bstat[d] # "running"
    <3>1. bstat'[d] = bstat[d]
      BY <1>1, <2>0, <2>5
    <3> QED BY <1>1, <2>0, <2>2, <2>3, <2>5, <3>1 DEF Agrees
  <2> QED BY <2>4, <2>5
<1> QED BY <1>1, <1>2, <1>3 DEF Rows, BatchInSync, Agrees

\* An ordinary transaction leaves the items of a recovery alone, and what it marks
\* during a recovery is noted.
LEMMA OrdinaryRunning ==
    ASSUME StoreInv, Ordinary
    PROVE  /\ \A i \in reset : i \in Items /\ istat'[i] = "running"
           /\ Recovering => \A i \in Items : istat'[i] = "running" => i \in reset \/ i[1] \in torn'
<1>0. /\ \A i \in reset : i \in Items /\ istat[i] = "running"
      /\ Recovering => \A i \in Items : istat[i] = "running" => i \in reset \/ i[1] \in torn
      /\ istat \in [Items -> Statuses] /\ NoneBefore /\ nbatch \in Nat
  BY RunnerAssumption DEF StoreInv, Rows, StoreTyped, RecoveryExact, Running
<1>1. ASSUME NEW t \in Triggers, NEW ks \in (SUBSET Keywords) \ {{}}, CreateRun(t, ks)
      PROVE  /\ \A i \in reset : istat'[i] = "running"
             /\ torn' = torn /\ \A i \in Items : istat'[i] = "running" => istat[i] = "running"
  <2>1. \A i \in Items : istat'[i] = istat[i] \/ (istat'[i] = "pending" /\ i[1] = nbatch + 1)
    BY <1>1 DEF CreateRun
  <2>2. \A i \in Items : i[1] = nbatch + 1 => istat[i] = "none"
    BY <1>0, ItemParts DEF NoneBefore
  <2> QED BY <1>0, <1>1, <2>1, <2>2 DEF CreateRun
<1>2. ASSUME NEW j \in Items, MarkRunItemRunning(j)
      PROVE  /\ \A i \in reset : istat'[i] = "running"
             /\ Recovering => torn \subseteq torn' /\ j[1] \in torn'
             /\ \A i \in Items : i # j => istat'[i] = istat[i]
  BY <1>0, <1>2 DEF MarkRunItemRunning
<1>3. ASSUME NEW j \in Items, NEW res \in Results, CompleteRunItem(j, res)
      PROVE  /\ \A i \in reset : istat'[i] = "running"
             /\ Recovering => torn' = torn
             /\ \A i \in Items : istat'[i] = "running" => istat[i] = "running"
  BY <1>0, <1>3 DEF CompleteRunItem
<1>4. ASSUME NEW b \in Batches, NEW status \in Terminal, CompleteRun(b, status)
      PROVE  istat' = istat /\ torn' = torn
  BY <1>4 DEF CompleteRun
<1>5. \A i \in reset : i \in Items /\ istat'[i] = "running"
  BY <1>0, <1>1, <1>2, <1>3, <1>4 DEF Ordinary
<1>6. ASSUME Recovering, NEW i \in Items, istat'[i] = "running"
      PROVE  i \in reset \/ i[1] \in torn'
  BY <1>0, <1>1, <1>2, <1>3, <1>4, <1>6 DEF Ordinary
<1> QED BY <1>5, <1>6

LEMMA LockKeeps ==
    ASSUME StoreInv, LockStep, UNCHANGED dbVars \/ Ordinary
    PROVE  RecoveryExact'
<1>0. /\ \A i \in reset : i \in Items /\ istat'[i] = "running"
      /\ Recovering => \A i \in Items : istat'[i] = "running" => i \in reset \/ i[1] \in torn'
  <2>1. CASE UNCHANGED dbVars
    BY <2>1 DEF dbVars, StoreInv, RecoveryExact, Running
  <2> QED BY <2>1, OrdinaryRunning
<1>1. CASE UNCHANGED lockVars /\ recovered' \in {recovered, FALSE}
  <2>1. persist' = persist /\ reset' = reset
    BY <1>1 DEF lockVars
  <2>2. Recovering => ~recovered'
    BY <1>1 DEF StoreInv, RecoveryExact
  <2> QED BY <1>0, <2>1, <2>2 DEF RecoveryExact, Running, Recovering
<1>2. CASE ~Recovering' /\ reset' \in {reset, {}}
  BY <1>0, <1>2 DEF RecoveryExact, Running
<1>3. CASE UNCHANGED dbVars /\ reset' = Running /\ recovered' = FALSE
  BY <1>3 DEF RecoveryExact, Running, dbVars
<1> QED BY <1>1, <1>2, <1>3 DEF LockStep

LEMMA StoreStep == StoreInv /\ Transaction => StoreInv'
<1> SUFFICES ASSUME StoreInv, Transaction PROVE StoreInv'
  OBVIOUS
<1>0. Rows
  BY DEF StoreInv
<1>1. CASE UNCHANGED dbVars
  <2>1. Rows'
    BY <1>0, <1>1 DEF dbVars, Rows, StoreTyped, NoneBefore, BatchInSync, Unfinished, ItemsOf
  <2> QED BY <1>1, <2>1, LockKeeps DEF StoreInv, Transaction
<1>2. CASE Ordinary
  <2>1. Rows'
    BY <1>0, <1>2, CreateKeepsRows, MarkKeepsRows, CompleteKeepsRows, FinishKeepsRows
    DEF Ordinary
  <2> QED BY <1>2, <2>1, LockKeeps DEF StoreInv, Transaction
<1>3. CASE Recovery
  <2>1. Rows'
    BY <1>3, RecoverKeepsRows DEF Recovery
  <2>2. RecoveryExact'
    BY <1>3 DEF Recovery, RecoveryExact
  <2> QED BY <2>1, <2>2 DEF StoreInv
<1> QED BY <1>1, <1>2, <1>3 DEF Transaction

\* No transaction touches a finished item.
LEMMA FinishedStays ==
    ASSUME StoreInv, Transaction, NEW i \in Items, istat[i] \in Terminal
    PROVE  istat'[i] = istat[i]
<1>0. istat[i] \notin {"none", "pending", "running"}
  BY DEF Terminal
<1>1. CASE UNCHANGED dbVars
  BY <1>1 DEF dbVars
<1>2. ASSUME NEW t \in Triggers, NEW ks \in (SUBSET Keywords) \ {{}}, CreateRun(t, ks)
      PROVE  istat'[i] = istat[i]
  <2>1. nbatch \in Nat /\ ~(i[1] > nbatch)
    BY <1>0, RunnerAssumption DEF StoreInv, Rows, StoreTyped, NoneBefore
  <2> QED BY <1>2, <2>1, ItemParts DEF CreateRun
<1>3. ASSUME NEW j \in Items, istat[j] \in {"pending", "running"},
             NEW v, istat' = [istat EXCEPT ![j] = v]
      PROVE  istat'[i] = istat[i]
  BY <1>0, <1>3 DEF StoreInv, Rows, StoreTyped
<1>4. CASE Recovery
  <2>1. i \notin reset
    BY <1>0 DEF StoreInv, RecoveryExact, Running
  <2> QED BY <1>4, <2>1 DEF Recovery, RecoverRunningItems
<1>5. CASE Ordinary
  BY <1>2, <1>3, <1>5 DEF Ordinary, MarkRunItemRunning, CompleteRunItem, CompleteRun
<1> QED BY <1>1, <1>4, <1>5 DEF Transaction

-----------------------------------------------------------------------------
(* Every step is one of the transactions *)

\* The locks of the callers are no recovery.
LEMMA NoRecovery == NoOne \notin Internals /\ \A x \in Externals : x \notin Internals
BY RunnerAssumption DEF Callers

\* Where a step leaves persistMu alone, or gives it up.
LEMMA LockKept ==
    ASSUME \/ UNCHANGED lockVars /\ recovered' \in {recovered, FALSE}
           \/ persist' = NoOne /\ reset' \in {reset, {}}
    PROVE  LockStep
BY NoRecovery DEF LockStep, Recovering

LEMMA RecoverTransacts ==
    ASSUME NEW c \in Internals, NEW l, EnsureRecovered(c, l) \/ RecoveryFails(c)
    PROVE  Transaction
<1>1. CASE EnsureRecovered(c, l)
  <2>1. CASE persist = NoOne /\ recovered /\ UNCHANGED <<dbVars, lockVars, recovered>>
    BY <2>1, LockKept DEF Transaction
  <2>2. CASE persist = NoOne /\ ~recovered /\ reset' = Running /\ UNCHANGED <<dbVars, recovered>>
    BY <2>2 DEF Transaction, LockStep
  <2>3. CASE persist = c /\ RecoverRunningItems /\ persist' = NoOne /\ reset' = {}
    BY <2>3, NoRecovery, LockKept DEF Transaction, Recovery, Recovering
  <2> QED BY <1>1, <2>1, <2>2, <2>3 DEF EnsureRecovered
<1>2. CASE RecoveryFails(c)
  <2>1. LockStep
    BY <1>2, LockKept DEF RecoveryFails
  <2> QED BY <1>2, <2>1, NoRecovery DEF RecoveryFails, Transaction, Recovery, Recovering
<1> QED BY <1>1, <1>2

LEMMA InternalTransacts ==
    ASSUME Work, NEW c \in Internals, InternalStep(c)
    PROVE  Transaction
<1>0. c \in Callers
  BY DEF Callers
<1>k. BatchRecover(c) \/ LockStep
  <2>1. CASE BatchCreate(c) \/ Mark(c) \/ Collect(c) \/ Complete(c) \/ Require(c) \/ Finish(c)
    BY <2>1, LockKept DEF BatchCreate, Mark, Collect, Complete, Require, RequireRecovery, Finish
  <2>2. CASE ResumedComplete(c) \/ ResumedClaim(c)
    BY <2>2, LockKept DEF ResumedComplete, ResumedClaim, ClaimFails, RequireRecovery
  <2> QED BY <2>1, <2>2 DEF InternalStep
<1>1. CASE BatchRecover(c)
  BY <1>1, RecoverTransacts DEF BatchRecover
<1>2. CASE BatchCreate(c)
  <2>1. LockStep
    BY <1>2, LockKept DEF BatchCreate
  <2> QED BY <1>2, <2>1 DEF BatchCreate, TriggerOf, Triggers, Transaction, Ordinary
<1>3. CASE Mark(c)
  <2>1. \A k \in Keywords : <<batch[c], k>> \in Items
    BY <1>3 DEF Mark, Work, InternalWork, Items
  <2>2. LockStep
    BY <1>3, LockKept DEF Mark
  <2> QED BY <1>3, <2>1, <2>2 DEF Mark, Transaction, Ordinary
<1>4. CASE Collect(c) \/ Require(c)
  BY <1>4, LockKept DEF Collect, Require, RequireRecovery, Transaction
<1>5. CASE Complete(c) \/ ResumedComplete(c)
  <2>1. cur[c] \in Items /\ out[c] \in Results
    BY <1>0, <1>5 DEF Complete, ResumedComplete, Work, InternalWork, WorkTyped, Working
  <2>2. LockStep
    BY <1>5, LockKept DEF Complete, ResumedComplete, RequireRecovery
  <2> QED BY <1>5, <2>1, <2>2
          DEF Complete, ResumedComplete, CompleteItemFails, Transaction, Ordinary
<1>6. CASE Finish(c)
  <2>1. batch[c] \in Batches /\ tally[c] \in Terminal
    BY <1>0, <1>6 DEF Finish, Work, InternalWork, WorkTyped, Terminal
  <2>2. LockStep
    BY <1>6, LockKept DEF Finish
  <2> QED BY <1>6, <2>1, <2>2 DEF Finish, Transaction, Ordinary
<1>7. CASE ResumedClaim(c)
  <2>1. LockStep
    BY <1>7, LockKept DEF ResumedClaim, ClaimFails, RequireRecovery
  <2> QED BY <1>7, <2>1 DEF ResumedClaim, Claim, ClaimFails, Transaction, Ordinary
<1> QED BY <1>1, <1>2, <1>3, <1>4, <1>5, <1>6, <1>7 DEF InternalStep

LEMMA ExternalTransacts ==
    ASSUME Work, NEW x \in Externals, ExternalBegin(x) \/ ExternalStep(x)
    PROVE  Transaction
<1>0. x \in Callers
  BY DEF Callers
<1>k. LockStep
  <2>1. CASE ExternalBegin(x)
    BY <2>1, LockKept DEF ExternalBegin
  <2>2. CASE ExternalLock(x)
    BY <2>2, NoRecovery DEF ExternalLock, LockStep, Recovering
  <2>3. CASE ExternalCreate(x) \/ ExternalMark(x) \/ ExternalComplete(x) \/ ExternalFinish(x)
    BY <2>3, LockKept DEF ExternalCreate, ExternalMark, ExternalComplete, ExternalFinish,
                          ExternalReturn
  <2> QED BY <2>1, <2>2, <2>3 DEF ExternalStep
<1>1. CASE ExternalBegin(x) \/ ExternalLock(x)
  BY <1>1, <1>k DEF ExternalBegin, ExternalLock, Transaction
<1>2. CASE ExternalCreate(x)
  <2>1. \A k \in Keywords : {k} \in (SUBSET Keywords) \ {{}}
    OBVIOUS
  <2> QED BY <1>2, <1>k, <2>1 DEF ExternalCreate, Triggers, Transaction, Ordinary
<1>3. CASE ExternalMark(x)
  <2>1. cur[x] \in Items
    BY <1>3 DEF ExternalMark, Work, ExternalWork, Recorded
  <2> QED BY <1>3, <1>k, <2>1 DEF ExternalMark, Transaction, Ordinary
<1>4. CASE ExternalComplete(x)
  <2>1. cur[x] \in Items /\ out[x] \in Results
    BY <1>0, <1>4 DEF ExternalComplete, Work, WorkTyped, ExternalWork, Recorded
  <2> QED BY <1>4, <1>k, <2>1 DEF ExternalComplete, CompleteItemFails, Transaction, Ordinary
<1>5. CASE ExternalFinish(x)
  <2>1. cur[x] \in Items /\ out[x] \in Results
    BY <1>0, <1>5 DEF ExternalFinish, Work, WorkTyped, ExternalWork, Recorded
  <2>2. cur[x][1] \in Batches /\ out[x][1] \in Terminal
    BY <2>1, ItemParts DEF Results
  <2> QED BY <1>5, <1>k, <2>2 DEF ExternalFinish, Transaction, Ordinary
<1> QED BY <1>1, <1>2, <1>3, <1>4, <1>5 DEF ExternalStep

LEMMA StepTransacts == Work /\ Step => Transaction
<1> SUFFICES ASSUME Work, Step PROVE Transaction
  OBVIOUS
<1>0. "tick" \in Internals /\ "manual" \in Internals
  BY DEF Internals
<1>1. CASE Start \/ AppCancel \/ Stop \/ LoopExit
  BY <1>1, LockKept DEF Start, AppCancel, Stop, LoopExit, Transaction
<1>2. CASE StopReturns \/ Crash \/ StartFails
  <2>1. Die
    BY <1>2 DEF StopReturns, Crash, StartFails
  <2>2. LockStep /\ ~Recovering' /\ reset' = {}
    BY <2>1, NoRecovery, LockKept DEF Die, Recovering
  <2> QED BY <1>0, <1>2, <2>2 DEF StopReturns, Crash, StartFails, Transaction, Ordinary, Recovery,
                             Recovering
<1>3. CASE StartRecover \/ TickRecover
  BY <1>0, <1>3, RecoverTransacts DEF StartRecover, TickRecover
<1>4. CASE StartClaim \/ TickClaim
  <2>1. LockStep
    BY <1>4, LockKept DEF StartClaim, TickClaim, ClaimFails, RequireRecovery
  <2> QED BY <1>4, <2>1 DEF StartClaim, TickClaim, Claim, ClaimFails, Transaction, Ordinary
<1>5. CASE Tick \/ TickPending \/ TickBegin \/ ManualBegin
  BY <1>5, LockKept DEF Tick, TickPending, TickBegin, ManualBegin, memVars, Transaction
<1>6. CASE InternalStep("tick") \/ InternalStep("manual")
  BY <1>0, <1>6, InternalTransacts
<1>7. CASE \E x \in Externals : ExternalBegin(x) \/ ExternalStep(x)
  BY <1>7, ExternalTransacts
<1> QED BY <1>1, <1>2, <1>3, <1>4, <1>5, <1>6, <1>7 DEF Step, TickStep

-----------------------------------------------------------------------------
(* The variables of the callers *)

LEMMA EmptyWork ==
    <<"failed", FALSE>> \in Results /\ 0 \in 0..MaxBatches /\ {} \in SUBSET Keywords
<1>1. "failed" \in Terminal /\ FALSE \in BOOLEAN
  BY DEF Terminal
<1>2. <<"failed", FALSE>> \in Results
  BY <1>1, Zenon DEF Results
<1>3. 0 \in 0..MaxBatches /\ {} \in SUBSET Keywords
  BY RunnerAssumption
<1> QED BY <1>2, <1>3

LEMMA WorkStart == Init => Work
<1> SUFFICES ASSUME Init PROVE Work
  OBVIOUS
<1>2. WorkTyped
  BY EmptyWork DEF Init, WorkTyped
<1>3. \A c \in Callers : pc[c] = "idle" /\ batch[c] = 0
  BY DEF Init
<1>4. InternalWork
  BY <1>3 DEF Init, InternalWork, Working, Callers
<1>5. ExternalWork
  BY <1>3 DEF ExternalWork, Recorded, Callers
<1> QED BY <1>2, <1>4, <1>5 DEF Work

LEMMA BatchesGrow ==
    ASSUME StoreTyped, Transaction
    PROVE  nbatch \in Nat /\ nbatch' \in Nat /\ nbatch <= nbatch'
<1>1. nbatch \in Nat
  BY RunnerAssumption DEF StoreTyped
<1>2. nbatch' = nbatch \/ nbatch' = nbatch + 1
  BY DEF Transaction, Ordinary, Recovery, dbVars, CreateRun, MarkRunItemRunning,
         CompleteRunItem, CompleteRun, RecoverRunningItems
<1> QED BY <1>1, <1>2

\* A step of the internal caller c leaves the others' variables alone, and what it
\* leaves in its own fits the place it goes to.
Fits(c) ==
    /\ WorkTyped'
    /\ \A d \in Callers \ {c} : pc'[d] = pc[d] /\ batch'[d] = batch[d] /\ cur'[d] = cur[d]
    /\ batch'[c] <= nbatch'
    /\ pc'[c] \in {"mark", "require", "finish"} => batch'[c] \in Batches
    /\ Working(c)' => cur'[c] \in Items /\ cur'[c][1] = batch'[c]
    /\ \A x \in Externals : pc[x] \in Recorded => batch'[c] # cur[x][1]

LEMMA FittingStep ==
    ASSUME Work, StoreTyped, Transaction, NEW c \in Internals, Fits(c)
    PROVE  Work'
<1>1. \A d \in Callers \ {c} : pc'[d] = pc[d] /\ batch'[d] = batch[d] /\ cur'[d] = cur[d]
  BY DEF Fits
<1>2. nbatch \in Nat /\ nbatch' \in Nat /\ nbatch <= nbatch'
  BY BatchesGrow
<1>3. InternalWork'
  <2> SUFFICES ASSUME NEW d \in Internals
               PROVE  /\ batch'[d] <= nbatch'
                      /\ pc'[d] \in {"mark", "require", "finish"} => batch'[d] \in Batches
                      /\ Working(d)' => cur'[d] \in Items /\ cur'[d][1] = batch'[d]
    BY DEF InternalWork
  <2>1. CASE d = c
    BY <2>1 DEF Fits
  <2>2. CASE d # c
    <3>1. pc'[d] = pc[d] /\ batch'[d] = batch[d] /\ cur'[d] = cur[d] /\ d \in Callers
      BY <1>1, <2>2 DEF Callers
    <3>2. batch[d] \in 0..MaxBatches /\ batch[d] <= nbatch
      BY <3>1 DEF Work, WorkTyped, InternalWork
    <3>3. batch'[d] <= nbatch'
      BY <1>2, <3>1, <3>2, RunnerAssumption
    <3> QED BY <3>1, <3>3 DEF Work, InternalWork, Working
  <2> QED BY <2>1, <2>2
<1>4. ExternalWork'
  <2> SUFFICES ASSUME NEW x \in Externals, pc'[x] \in Recorded
               PROVE  /\ cur'[x] \in Items /\ cur'[x][1] <= nbatch'
                      /\ \A d \in Internals : batch'[d] # cur'[x][1]
    BY DEF ExternalWork
  <2>1. pc'[x] = pc[x] /\ cur'[x] = cur[x]
    BY <1>1, RunnerAssumption DEF Callers
  <2>2. cur[x] \in Items /\ cur[x][1] <= nbatch /\ \A d \in Internals : batch[d] # cur[x][1]
    BY <2>1 DEF Work, ExternalWork
  <2>3. cur[x][1] <= nbatch'
    BY <1>2, <2>2, ItemParts
  <2>4. \A d \in Internals : batch'[d] # cur[x][1]
    BY <1>1, <2>1, <2>2 DEF Callers, Fits
  <2> QED BY <2>1, <2>2, <2>3, <2>4
<1> QED BY <1>3, <1>4 DEF Work, Fits

LEMMA Stays ==
    ASSUME PlacesTyped, NEW c \in Callers, pc' = pc
    PROVE  Goto(c, pc[c])
BY DEF PlacesTyped, Goto

\* The three ways a caller's variables change: it is done, it goes on with its
\* batch, it takes up an item.
LEMMA ForgetFits ==
    ASSUME Work, StoreTyped, Transaction, PlacesTyped, NEW c \in Internals, Forget(c)
    PROVE  Fits(c)
<1>0. c \in Callers
  BY DEF Callers
<1>1. WorkTyped'
  BY <1>0, EmptyWork DEF Work, WorkTyped, Forget
<1>2. pc'[c] = "idle" /\ batch'[c] = 0
  BY <1>0 DEF Work, WorkTyped, PlacesTyped, Forget
<1>3. \A d \in Callers \ {c} : pc'[d] = pc[d] /\ batch'[d] = batch[d] /\ cur'[d] = cur[d]
  BY DEF Work, WorkTyped, PlacesTyped, Forget
<1>4. \A x \in Externals : pc[x] \in Recorded => cur[x][1] # 0
  BY ItemParts DEF Work, ExternalWork, Batches
<1> QED BY <1>1, <1>2, <1>3, <1>4, BatchesGrow DEF Fits, Working

LEMMA GoOnFits ==
    ASSUME Work, StoreTyped, Transaction, PlacesTyped, NEW c \in Internals, NEW l \in Labels,
           Goto(c, l), batch' = batch, WorkTyped',
           \A d \in Callers \ {c} : cur'[d] = cur[d],
           l \in {"mark", "require", "finish"} => batch[c] \in Batches,
           l \in {"collect", "complete", "rcollect", "rcomplete"} =>
             cur'[c] \in Items /\ cur'[c][1] = batch[c]
    PROVE  Fits(c)
<1>0. c \in Callers
  BY DEF Callers
<1>1. pc'[c] = l /\ \A d \in Callers \ {c} : pc'[d] = pc[d]
  BY <1>0 DEF PlacesTyped, Goto
<1>2. batch[c] \in Nat /\ batch[c] <= nbatch
  BY <1>0, RunnerAssumption DEF Work, WorkTyped, InternalWork
<1>3. batch[c] <= nbatch'
  BY <1>2, BatchesGrow
<1>4. \A x \in Externals : pc[x] \in Recorded => batch[c] # cur[x][1]
  BY DEF Work, ExternalWork
<1> QED BY <1>1, <1>3, <1>4 DEF Fits, Working

LEMMA ClaimFits ==
    ASSUME Work, StoreInv, Transaction, PlacesTyped, LockExact,
           NEW c \in Internals, NEW i \in Items, Claim(c, i)
    PROVE  Fits(c)
<1>0. c \in Callers
  BY DEF Callers
<1>1. pc'[c] = "rcollect" /\ \A d \in Callers \ {c} : pc'[d] = pc[d]
  BY <1>0 DEF PlacesTyped, Claim, Goto
<1>2. i[1] \in 0..MaxBatches
  BY ItemParts, RunnerAssumption DEF Batches
<1>3. WorkTyped'
  BY <1>0, <1>2 DEF Work, WorkTyped, Claim
<1>4. cur'[c] = i /\ batch'[c] = i[1]
  BY <1>0 DEF Work, WorkTyped, Claim
<1>5. \A d \in Callers \ {c} : batch'[d] = batch[d] /\ cur'[d] = cur[d]
  BY <1>0 DEF Work, WorkTyped, Claim
<1>6. i[1] <= nbatch'
  <2>1. ~(i[1] > nbatch)
    BY DEF StoreInv, Rows, NoneBefore, Claim, NextClaim
  <2> QED BY <2>1, ItemParts, BatchesGrow DEF StoreInv, Rows
<1>7. \A x \in Externals : pc[x] \notin Recorded
  BY RunnerAssumption DEF LockExact, Claim, Locked, Callers
<1> QED BY <1>1, <1>3, <1>4, <1>5, <1>6, <1>7 DEF Fits

LEMMA InternalFits ==
    ASSUME Work, StoreInv, Transaction, PlacesTyped, LockExact,
           NEW c \in Internals, InternalStep(c)
    PROVE  Fits(c)
<1>0. c \in Callers /\ StoreTyped
  BY DEF Callers, StoreInv, Rows
<1>l. {"recover", "create", "require", "mark", "collect", "complete", "finish", "rcomplete", "rclaim"} \subseteq Labels
  BY DEF Labels, TickLabels, Guarded, Fresh, Resumed
<1>1. CASE BatchRecover(c)
  <2>1. CASE Release(c)
    BY <1>0, <2>1, ForgetFits DEF Release
  <2>2. CASE Goto(c, "create") /\ UNCHANGED workVars
    BY <1>0, <1>l, <2>2, GoOnFits DEF workVars, Work, WorkTyped
  <2>3. CASE pc' = pc /\ UNCHANGED workVars
    <3>1. Goto(c, "recover")
      BY <1>0, <1>1, <2>3, Stays DEF BatchRecover
    <3> QED BY <1>0, <1>l, <2>3, <3>1, GoOnFits DEF workVars, Work, WorkTyped
  <2> QED BY <1>1, <2>1, <2>2, <2>3 DEF BatchRecover, EnsureRecovered
<1>2. CASE BatchCreate(c)
  <2>1. CASE Release(c)
    BY <1>0, <2>1, ForgetFits DEF Release
  <2>2. ASSUME NEW ks \in SUBSET Keywords, nbatch' = nbatch + 1, nbatch < MaxBatches,
               todo' = [todo EXCEPT ![c] = ks], batch' = [batch EXCEPT ![c] = nbatch'],
               Goto(c, "mark"), UNCHANGED <<cur, out, tally>>
        PROVE  Fits(c)
    <3>0. nbatch \in Nat /\ nbatch' \in Batches /\ nbatch' \in 0..MaxBatches
      BY <2>2, BatchesGrow, RunnerAssumption DEF StoreInv, Rows, Batches
    <3>1. WorkTyped'
      BY <2>2, <3>0 DEF Work, WorkTyped
    <3>2. pc'[c] = "mark" /\ \A d \in Callers \ {c} : pc'[d] = pc[d]
      BY <1>0, <2>2 DEF PlacesTyped, Goto
    <3>3. batch'[c] = nbatch' /\ \A d \in Callers \ {c} : batch'[d] = batch[d]
      BY <1>0, <2>2 DEF Work, WorkTyped
    <3>4. nbatch' <= nbatch'
      BY <3>0, <2>2
    <3>5. \A x \in Externals : pc[x] \in Recorded => nbatch' # cur[x][1]
      BY <2>2, <3>0, ItemParts DEF Work, ExternalWork
    <3> QED BY <2>2, <3>0, <3>1, <3>2, <3>3, <3>4, <3>5 DEF Fits, Working
  <2> QED BY <1>2, <2>1, <2>2 DEF BatchCreate, CreateRun
<1>3. CASE Mark(c)
  <2>0. batch[c] \in Batches
    BY <1>3 DEF Mark, Work, InternalWork
  <2>1. CASE Release(c)
    BY <1>0, <2>1, ForgetFits DEF Release
  <2>2. ASSUME NEW l \in {"require", "finish"}, Goto(c, l), UNCHANGED workVars PROVE Fits(c)
    BY <1>0, <1>l, <2>0, <2>2, GoOnFits DEF workVars, Work, WorkTyped
  <2>3. ASSUME NEW k \in Keywords, cur' = [cur EXCEPT ![c] = <<batch[c], k>>],
               todo' = [todo EXCEPT ![c] = @ \ {k}], Goto(c, "collect"),
               UNCHANGED <<batch, out, tally>>
        PROVE  Fits(c)
    <3>1. <<batch[c], k>> \in Items
      BY <2>0 DEF Items
    <3>2. WorkTyped'
      BY <1>0, <2>3, <3>1 DEF Work, WorkTyped
    <3>3. cur'[c] \in Items /\ cur'[c][1] = batch[c]
      BY <1>0, <2>3, <3>1 DEF Work, WorkTyped
    <3>4. \A d \in Callers \ {c} : cur'[d] = cur[d]
      BY <2>3 DEF Work, WorkTyped
    <3> QED BY <1>0, <1>l, <2>3, <3>2, <3>3, <3>4, GoOnFits
  <2> QED BY <1>3, <2>1, <2>2, <2>3 DEF Mark
<1>4. CASE Collect(c)
  <2>1. CASE Release(c)
    BY <1>0, <2>1, ForgetFits DEF Release
  <2>2. ASSUME NEW l \in {"complete", "rcomplete"}, Goto(c, l),
               NEW res \in Sample, out' = [out EXCEPT ![c] = res],
               UNCHANGED <<batch, cur, todo, tally>>
        PROVE  Fits(c)
    <3>1. cur[c] \in Items /\ cur[c][1] = batch[c]
      BY <1>4 DEF Collect, Work, InternalWork, Working
    <3>2. WorkTyped'
      BY <2>2, RunnerAssumption DEF Work, WorkTyped
    <3> QED BY <1>0, <1>l, <2>2, <3>1, <3>2, GoOnFits
  <2> QED BY <1>4, <2>1, <2>2 DEF Collect
<1>5. CASE Complete(c)
  <2>0. batch[c] \in Batches
    BY <1>5, ItemParts DEF Complete, Work, InternalWork, Working
  <2>1. Tally(tally[c], out[c][1]) \in {"failed", "success_empty", "success"}
    BY <1>0 DEF Work, WorkTyped, Tally
  <2>2. WorkTyped' /\ batch' = batch
    BY <1>0, <1>5, <2>1, EmptyWork DEF Complete, Work, WorkTyped
  <2>3. \A d \in Callers \ {c} : cur'[d] = cur[d]
    BY <1>5 DEF Complete, Work, WorkTyped
  <2>4. CASE Goto(c, "mark")
    BY <1>0, <1>l, <2>0, <2>2, <2>3, <2>4, GoOnFits
  <2>5. CASE Goto(c, "require")
    BY <1>0, <1>l, <2>0, <2>2, <2>3, <2>5, GoOnFits
  <2> QED BY <1>5, <2>4, <2>5 DEF Complete
<1>6. CASE Finish(c)
  BY <1>0, <1>6, ForgetFits DEF Finish, Release
<1>7. CASE ResumedComplete(c)
  <2>1. CASE Release(c)
    BY <1>0, <2>1, ForgetFits DEF Release
  <2>2. ASSUME cur' = [cur EXCEPT ![c] = NoItem],
               out' = [out EXCEPT ![c] = <<"failed", FALSE>>],
               Goto(c, "rclaim"), UNCHANGED <<batch, todo, tally>>
        PROVE  Fits(c)
    <3>1. WorkTyped' /\ batch' = batch
      BY <2>2, EmptyWork DEF Work, WorkTyped
    <3>2. \A d \in Callers \ {c} : cur'[d] = cur[d]
      BY <2>2 DEF Work, WorkTyped
    <3> QED BY <1>0, <1>l, <2>2, <3>1, <3>2, GoOnFits
  <2> QED BY <1>7, <2>1, <2>2 DEF ResumedComplete
<1>8. CASE ResumedClaim(c)
  <2>1. CASE Release(c)
    BY <1>0, <2>1, ForgetFits DEF Release
  <2> QED BY <1>8, <2>1, ClaimFits DEF ResumedClaim, ClaimFails
<1>9. CASE Require(c)
  <2>1. batch[c] \in Batches
    BY <1>9 DEF Require, Work, InternalWork
  <2> QED BY <1>0, <1>9, <1>l, <2>1, GoOnFits DEF Require, workVars, Work, WorkTyped
<1> QED BY <1>1, <1>2, <1>3, <1>4, <1>5, <1>6, <1>7, <1>8, <1>9 DEF InternalStep

\* The same for a step of the recording x.
FitsRecording(x) ==
    /\ WorkTyped'
    /\ \A d \in Callers \ {x} : pc'[d] = pc[d] /\ batch'[d] = batch[d] /\ cur'[d] = cur[d]
    /\ pc'[x] \in Recorded =>
         /\ cur'[x] \in Items /\ cur'[x][1] <= nbatch'
         /\ \A c \in Internals : batch[c] # cur'[x][1]

LEMMA RecordingStep ==
    ASSUME Work, StoreTyped, Transaction, NEW x \in Externals, FitsRecording(x)
    PROVE  Work'
<1>1. \A d \in Callers \ {x} : pc'[d] = pc[d] /\ batch'[d] = batch[d] /\ cur'[d] = cur[d]
  BY DEF FitsRecording
<1>2. nbatch \in Nat /\ nbatch' \in Nat /\ nbatch <= nbatch'
  BY BatchesGrow
<1>3. \A c \in Internals : pc'[c] = pc[c] /\ batch'[c] = batch[c] /\ cur'[c] = cur[c]
  BY <1>1, RunnerAssumption DEF Callers
<1>4. \A c \in Internals : batch[c] \in Nat
  BY RunnerAssumption DEF Work, WorkTyped, Callers
<1>5. \A c \in Internals : batch[c] <= nbatch'
  BY <1>2, <1>4 DEF Work, InternalWork
<1>6. InternalWork'
  BY <1>3, <1>5 DEF Work, InternalWork, Working
<1>7. ExternalWork'
  <2> SUFFICES ASSUME NEW y \in Externals, pc'[y] \in Recorded
               PROVE  /\ cur'[y] \in Items /\ cur'[y][1] <= nbatch'
                      /\ \A d \in Internals : batch'[d] # cur'[y][1]
    BY DEF ExternalWork
  <2>1. CASE y = x
    BY <1>3, <2>1 DEF FitsRecording
  <2>2. CASE y # x
    <3>1. pc'[y] = pc[y] /\ cur'[y] = cur[y]
      BY <1>1, <2>2 DEF Callers
    <3>2. cur[y] \in Items /\ cur[y][1] <= nbatch
      BY <3>1 DEF Work, ExternalWork
    <3>3. cur[y][1] <= nbatch'
      BY <1>2, <3>2, ItemParts
    <3> QED BY <1>3, <3>1, <3>2, <3>3 DEF Work, ExternalWork
  <2> QED BY <2>1, <2>2
<1> QED BY <1>6, <1>7 DEF Work, FitsRecording

LEMMA ReturnFits ==
    ASSUME Work, PlacesTyped, NEW x \in Externals, Forget(x)
    PROVE  FitsRecording(x)
<1>0. x \in Callers
  BY DEF Callers
<1>1. WorkTyped'
  BY <1>0, EmptyWork DEF Work, WorkTyped, Forget
<1>2. pc'[x] = "idle"
  BY <1>0 DEF PlacesTyped, Forget
<1>3. \A d \in Callers \ {x} : pc'[d] = pc[d] /\ batch'[d] = batch[d] /\ cur'[d] = cur[d]
  BY DEF Work, WorkTyped, PlacesTyped, Forget
<1> QED BY <1>1, <1>2, <1>3 DEF FitsRecording, Recorded

LEMMA ExternalFits ==
    ASSUME Work, StoreInv, Transaction, PlacesTyped,
           NEW x \in Externals, ExternalBegin(x) \/ ExternalStep(x)
    PROVE  FitsRecording(x)
<1>0. x \in Callers
  BY DEF Callers
<1>r. CASE ExternalReturn(x)
  BY <1>r, ReturnFits DEF ExternalReturn
<1>g. ASSUME NEW l, Goto(x, l)
      PROVE  pc'[x] = l /\ \A d \in Callers \ {x} : pc'[d] = pc[d]
  BY <1>0, <1>g DEF PlacesTyped, Goto
<1>1. CASE ExternalBegin(x) \/ ExternalLock(x)
  <2>1. WorkTyped' /\ batch' = batch /\ cur' = cur
    BY <1>1 DEF ExternalBegin, ExternalLock, workVars, Work, WorkTyped
  <2>2. PICK l \in {"x_lock", "x_create"} : Goto(x, l)
    BY <1>1 DEF ExternalBegin, ExternalLock
  <2> QED BY <1>g, <2>1, <2>2 DEF FitsRecording, Recorded
<1>2. CASE ExternalCreate(x)
  <2>1. ASSUME NEW k \in Keywords, nbatch' = nbatch + 1, nbatch < MaxBatches,
               cur' = [cur EXCEPT ![x] = <<nbatch', k>>], Goto(x, "x_mark"),
               UNCHANGED <<batch, todo, out, tally>>
        PROVE  FitsRecording(x)
    <3>0. nbatch \in Nat /\ nbatch' \in Batches /\ nbatch' <= nbatch'
      BY <2>1, BatchesGrow, RunnerAssumption DEF StoreInv, Rows, Batches
    <3>1. <<nbatch', k>> \in Items
      BY <2>1, <3>0 DEF Items
    <3>2. WorkTyped'
      BY <2>1, <3>1 DEF Work, WorkTyped
    <3>3. cur'[x] = <<nbatch', k>> /\ \A d \in Callers \ {x} : cur'[d] = cur[d]
      BY <1>0, <2>1 DEF Work, WorkTyped
    <3>4. \A c \in Internals : batch[c] \in Nat /\ batch[c] <= nbatch
      BY RunnerAssumption DEF Work, WorkTyped, InternalWork, Callers
    <3>5. \A c \in Internals : batch[c] # nbatch'
      BY <2>1, <3>0, <3>4
    <3> QED BY <1>g, <2>1, <3>0, <3>1, <3>2, <3>3, <3>5 DEF FitsRecording
  <2> QED BY <1>2, <1>r, <2>1 DEF ExternalCreate, CreateRun
<1>3. CASE ExternalMark(x)
  <2>0. cur[x] \in Items /\ cur[x][1] <= nbatch /\ \A c \in Internals : batch[c] # cur[x][1]
    BY <1>3 DEF ExternalMark, Recorded, Work, ExternalWork
  <2>1. cur[x][1] <= nbatch'
    BY <2>0, BatchesGrow, ItemParts DEF StoreInv, Rows
  <2>2. ASSUME NEW res \in Sample, out' = [out EXCEPT ![x] = res], Goto(x, "x_complete"),
               UNCHANGED <<batch, cur, todo, tally>>
        PROVE  FitsRecording(x)
    <3>1. WorkTyped'
      BY <2>2, RunnerAssumption DEF Work, WorkTyped
    <3> QED BY <1>g, <2>0, <2>1, <2>2, <3>1 DEF FitsRecording
  <2> QED BY <1>3, <1>r, <2>2 DEF ExternalMark
<1>4. CASE ExternalComplete(x)
  <2>0. cur[x] \in Items /\ cur[x][1] <= nbatch /\ \A c \in Internals : batch[c] # cur[x][1]
    BY <1>4 DEF ExternalComplete, Recorded, Work, ExternalWork
  <2>1. cur[x][1] <= nbatch'
    BY <2>0, BatchesGrow, ItemParts DEF StoreInv, Rows
  <2>2. CASE Goto(x, "x_finish") /\ UNCHANGED workVars
    <3>1. WorkTyped' /\ UNCHANGED <<batch, cur>>
      BY <2>2 DEF Work, WorkTyped, workVars
    <3> QED BY <1>g, <2>0, <2>1, <2>2, <3>1 DEF FitsRecording
  <2> QED BY <1>4, <1>r, <2>2 DEF ExternalComplete
<1>5. CASE ExternalFinish(x)
  BY <1>5, <1>r DEF ExternalFinish
<1> QED BY <1>1, <1>2, <1>3, <1>4, <1>5 DEF ExternalStep

LEMMA DeathForgets ==
    ASSUME StoreTyped, Transaction, Die
    PROVE  Work' /\ \A c \in Callers : pc'[c] = "idle"
<1>1. WorkTyped' /\ \A c \in Callers : pc'[c] = "idle" /\ batch'[c] = 0
  BY EmptyWork DEF Die, WorkTyped
<1>2. 0 <= nbatch'
  BY BatchesGrow
<1> QED BY <1>1, <1>2 DEF Work, InternalWork, ExternalWork, Working, Recorded, Callers

LEMMA WorkStep == Work /\ StoreInv /\ PlacesTyped /\ LockExact /\ Step => Work'
<1> SUFFICES ASSUME Work, StoreInv, PlacesTyped, LockExact, Step PROVE Work'
  OBVIOUS
<1>0. StoreTyped /\ Transaction /\ "tick" \in Internals /\ "manual" \in Internals
  BY StepTransacts DEF StoreInv, Rows, Internals
<1>f. ASSUME NEW c \in Internals, Fits(c) PROVE Work'
  BY <1>0, <1>f, FittingStep
<1>g. ASSUME NEW c \in Internals,
             NEW l \in {"idle", "exited", "start_recover", "start_claim", "tick_recover",
                        "tick_pending", "tick_claim", "begin", "recover"},
             Goto(c, l), UNCHANGED workVars
      PROVE  Work'
  <2>1. l \in Labels /\ WorkTyped' /\ UNCHANGED <<batch, cur>>
    BY <1>g DEF Labels, TickLabels, Guarded, Fresh, Starting, Work, WorkTyped, workVars
  <2> QED BY <1>0, <1>f, <1>g, <2>1, GoOnFits
<1>d. CASE Die
  BY <1>0, <1>d, DeathForgets
<1>r. ASSUME NEW c \in Internals, Release(c) PROVE Work'
  BY <1>0, <1>f, <1>r, ForgetFits DEF Release
<1>c. ASSUME NEW c \in Internals, NEW i \in Items, Claim(c, i) PROVE Work'
  BY <1>0, <1>f, <1>c, ClaimFits
<1>1. CASE StartFails \/ StopReturns \/ Crash
  BY <1>1, <1>d DEF StartFails, StopReturns, Crash
<1>2. CASE AppCancel \/ Stop
  BY <1>2 DEF AppCancel, Stop, dbVars, workVars, Work, WorkTyped, InternalWork, ExternalWork,
              Working
<1>3. CASE Start \/ LoopExit \/ Tick
  BY <1>0, <1>3, <1>g DEF Start, LoopExit, Tick
<1>4. CASE StartRecover \/ TickRecover
  <2>1. CASE pc' = pc
    <3>1. pc["tick"] \in {"start_recover", "tick_recover"} /\ Goto("tick", pc["tick"])
      BY <1>4, <2>1, Stays DEF StartRecover, TickRecover, Callers, Internals
    <3> QED BY <1>0, <1>4, <1>g, <3>1 DEF StartRecover, TickRecover
  <2> QED BY <1>0, <1>4, <1>g, <2>1 DEF StartRecover, TickRecover, EnsureRecovered
<1>5. CASE TickPending \/ TickBegin \/ ManualBegin
  BY <1>0, <1>5, <1>g DEF TickPending, TickBegin, ManualBegin, AcquireActive
<1>6. CASE StartClaim \/ TickClaim
  BY <1>0, <1>6, <1>c, <1>g, <1>r DEF StartClaim, TickClaim, ClaimFails
<1>7. CASE InternalStep("tick") \/ InternalStep("manual")
  BY <1>0, <1>7, <1>f, InternalFits
<1>8. CASE \E x \in Externals : ExternalBegin(x) \/ ExternalStep(x)
  BY <1>0, <1>8, ExternalFits, RecordingStep
<1> QED BY <1>1, <1>2, <1>3, <1>4, <1>5, <1>6, <1>7, <1>8 DEF Step, TickStep

-----------------------------------------------------------------------------
(* Who is where *)

LEMMA ControlStart == Init => Counted
<1> SUFFICES ASSUME Init PROVE Counted
  OBVIOUS
<1>1. \A c \in Callers : pc[c] = "idle"
  BY DEF Init
<1>2. pc["tick"] = "idle" /\ pc["manual"] = "idle" /\ \A x \in Externals : pc[x] = "idle"
  BY <1>1 DEF Callers, Internals
<1>3. PlacesTyped
  BY <1>2 DEF Init, PlacesTyped, Labels, TickLabels, ManualLabels, ExternalLabels
<1>4. "idle" \notin Guarded /\ "idle" \notin Starting /\ "idle" \notin Locked
  BY DEF Guarded, Fresh, Resumed, Starting, Locked, Recorded
<1>5. Control
  BY <1>2, <1>3, <1>4 DEF Init, Control, GuardExact, LockExact, Phases
<1>6. Recordings = {}
  BY <1>2 DEF Recordings
<1>7. WaitExact
  BY <1>2, <1>6, FS_EmptySet DEF Init, WaitExact, LoopCount, GuardCount
<1> QED BY <1>5, <1>7 DEF Counted

\* A step of an internal caller that goes from one place to another.
LEMMA Moves ==
    ASSUME PlacesTyped, NEW c \in Callers, NEW l, Goto(c, l)
    PROVE  pc'[c] = l /\ \A d \in Callers \ {c} : pc'[d] = pc[d]
BY DEF PlacesTyped, Goto

LEMMA Forgets ==
    ASSUME NEW c, Forget(c)
    PROVE  Goto(c, "idle")
BY DEF Forget, Goto

\* What a step of an internal caller does to the guard.
Keeps(c) == active' = active /\ wg' = wg /\ (pc[c] \in Guarded <=> pc'[c] \in Guarded)
Takes(c) == ~active /\ active' = TRUE /\ wg' = wg + 1 /\ pc[c] \notin Guarded /\ pc'[c] \in Guarded
Frees(c) == active' = FALSE /\ wg' = wg - 1 /\ pc[c] \in Guarded /\ pc'[c] \notin Guarded

InternalMove(c) ==
    /\ pc' = [pc EXCEPT ![c] = pc'[c]]
    /\ pc'[c] \in IF c = "tick" THEN TickLabels ELSE ManualLabels
    /\ Keeps(c) \/ Takes(c) \/ Frees(c)
    /\ cancelled' = cancelled /\ (persist' = persist \/ persist \notin Externals)

LEMMA InternalMoves ==
    ASSUME Control, NEW c \in Internals, InternalStep(c)
    PROVE  /\ InternalMove(c) /\ up' = up
           /\ pc[c] \in Guarded /\ pc'[c] \in Guarded \cup {"idle"}
<1>0. c \in Callers /\ PlacesTyped /\ (c = "tick" \/ c = "manual")
  BY DEF Callers, Control, Internals
<1>1. /\ pc[c] \in Guarded /\ up' = up /\ cancelled' = cancelled
      /\ c = "manual" => pc[c] \in Fresh
  BY <1>0 DEF InternalStep, BatchRecover, BatchCreate, Mark, Collect, Complete, Require, Finish,
         ResumedComplete, ResumedClaim, Guarded, Fresh, Resumed, PlacesTyped, ManualLabels
<1>p. persist' = persist \/ persist \notin Externals
  <2>1. CASE BatchRecover(c)
    <3>1. persist \in {c, NoOne}
      BY <2>1 DEF BatchRecover, EnsureRecovered, RecoveryFails
    <3> QED BY <3>1, RunnerAssumption DEF Callers
  <2> QED BY <2>1 DEF InternalStep, BatchCreate, Mark, Collect, Complete, Require, Finish,
                      ResumedComplete, ResumedClaim, lockVars
<1> DEFINE Goes == /\ \E l \in Guarded : Goto(c, l) /\ (c = "manual" => l \in Fresh)
                   /\ UNCHANGED <<active, wg>>
<1>2. Release(c) \/ Goes
  <2>0. {"recover", "create", "mark", "collect", "complete", "require", "finish"}
          \subseteq Fresh \cap Guarded
    BY DEF Guarded, Fresh
  <2>1. CASE BatchRecover(c)
    <3>1. CASE pc' = pc /\ UNCHANGED <<active, wg>>
      <4>1. Goto(c, "recover")
        BY <1>0, <2>1, <3>1, Stays DEF BatchRecover
      <4> QED BY <2>0, <3>1, <4>1
    <3> QED BY <2>0, <2>1, <3>1 DEF BatchRecover, EnsureRecovered
  <2>2. CASE BatchCreate(c)
    BY <2>0, <2>2 DEF BatchCreate
  <2>3. CASE Mark(c)
    BY <2>0, <2>3 DEF Mark
  <2>4. CASE Collect(c)
    <3>1. c = "manual" => pc[c] = "collect"
      BY <1>1, <2>4 DEF Collect, Fresh
    <3>2. "rcomplete" \in Guarded
      BY DEF Guarded, Resumed
    <3> QED BY <2>0, <2>4, <3>1, <3>2 DEF Collect
  <2>5. CASE Complete(c)
    BY <2>0, <2>5 DEF Complete
  <2>6. CASE Require(c) \/ Finish(c)
    BY <2>0, <2>6 DEF Require, Finish
  <2>7. CASE ResumedComplete(c) \/ ResumedClaim(c)
    <3>1. c # "manual"
      BY <1>1, <2>7 DEF ResumedComplete, ResumedClaim, Fresh
    <3>2. "rclaim" \in Guarded /\ "rcollect" \in Guarded
      BY DEF Guarded, Resumed
    <3> QED BY <2>7, <3>1, <3>2 DEF ResumedComplete, ResumedClaim, ClaimFails, Claim
  <2> QED BY <2>1, <2>2, <2>3, <2>4, <2>5, <2>6, <2>7 DEF InternalStep
<1>3. "idle" \notin Guarded /\ Guarded \cup {"idle"} \subseteq TickLabels
      /\ Fresh \cup {"idle"} \subseteq ManualLabels
  BY DEF Guarded, Fresh, Resumed, TickLabels, ManualLabels
<1>4. CASE Release(c)
  <2>1. Goto(c, "idle") /\ pc'[c] = "idle"
    BY <1>0, <1>4, Forgets, Moves DEF Release
  <2> QED BY <1>0, <1>1, <1>p, <1>3, <1>4, <2>1 DEF InternalMove, Frees, Release, Goto
<1>5. CASE Goes
  <2>1. PICK l \in Guarded : Goto(c, l) /\ (c = "manual" => l \in Fresh)
    BY <1>5
  <2>2. pc'[c] = l
    BY <1>0, <2>1, Moves
  <2> QED BY <1>0, <1>1, <1>p, <1>3, <1>5, <2>1, <2>2 DEF InternalMove, Keeps, Goto
<1> QED BY <1>2, <1>4, <1>5

LEMMA RecordingsFinite ==
    IsFiniteSet(Recordings) /\ Cardinality(Recordings) \in Nat /\ Recordings \subseteq Externals
<1>1. Recordings \subseteq Externals
  BY DEF Recordings
<1> QED BY <1>1, FS_Subset, FS_CardinalityType, RunnerAssumption

\* The wait group follows a step in which no recording begins or ends.
LEMMA WaitFollows ==
    ASSUME Counted, \A x \in Externals : pc'[x] = pc[x],
           wg' = wg + (LoopCount' - LoopCount) + (GuardCount' - GuardCount)
    PROVE  WaitExact'
<1>1. Recordings' = Recordings
  BY DEF Recordings
<1>2. Cardinality(Recordings)' = Cardinality(Recordings)
  BY <1>1
<1>3. LoopCount \in {0, 1} /\ LoopCount' \in {0, 1} /\ GuardCount \in {0, 1} /\ GuardCount' \in {0, 1}
  BY DEF LoopCount, GuardCount
<1>4. wg \in Nat
  BY <1>3, RecordingsFinite DEF Counted, WaitExact
<1> QED BY <1>2, <1>3, <1>4, RecordingsFinite DEF Counted, WaitExact

LEMMA MoveKeeps ==
    ASSUME Counted, NEW c \in Internals, InternalMove(c), up' = up, up \in {"up", "stopping"},
           pc[c] \notin Starting \cup {"exited"}, pc'[c] \notin Starting \cup {"exited"}
    PROVE  Counted'
<1>0. /\ c \in Callers /\ PlacesTyped /\ c \in {"tick", "manual"} /\ c \notin Externals
      /\ "tick" \in Callers /\ "manual" \in Callers
  BY RunnerAssumption DEF Callers, Counted, Control, Internals
<1>1. \A d \in Callers \ {c} : pc'[d] = pc[d]
  BY DEF InternalMove, PlacesTyped, Counted, Control
<1>2. \A x \in Externals : pc'[x] = pc[x]
  BY <1>0, <1>1 DEF Callers
<1>3. PlacesTyped'
  <2>1. pc' \in [Callers -> Labels]
    BY <1>0 DEF InternalMove, PlacesTyped, Labels
  <2> QED BY <1>0, <1>1, <1>2, <2>1 DEF InternalMove, PlacesTyped
<1>4. GuardExact'
  <2>1. GuardExact
    BY DEF Counted, Control
  <2>2. \/ c = "tick" /\ pc'["manual"] = pc["manual"]
        \/ c = "manual" /\ pc'["tick"] = pc["tick"]
    BY <1>0, <1>1
  <2>3. CASE Keeps(c)
    BY <2>1, <2>2, <2>3, Zenon DEF Keeps, GuardExact
  <2>4. CASE Takes(c)
    BY <2>1, <2>2, <2>4, Zenon DEF Takes, GuardExact
  <2>5. CASE Frees(c)
    BY <2>1, <2>2, <2>5, Zenon DEF Frees, GuardExact
  <2> QED BY <2>3, <2>4, <2>5 DEF InternalMove
<1>5. LockExact'
  BY <1>2 DEF InternalMove, Counted, Control, LockExact
<1>6. Phases'
  BY <1>0, <1>1, <1>2 DEF InternalMove, Counted, Control, Phases
<1>7. LoopCount' = LoopCount
  BY <1>0, <1>1 DEF LoopCount
<1>8. WaitExact'
  <2>1. LoopCount \in {0, 1} /\ GuardCount \in {0, 1} /\ GuardCount' \in {0, 1}
    BY DEF LoopCount, GuardCount
  <2>2. wg \in Nat
    BY <2>1, RecordingsFinite DEF Counted, WaitExact
  <2>3. wg' = wg + (GuardCount' - GuardCount)
    <3>1. CASE Keeps(c)
      BY <2>1, <2>2, <3>1 DEF Keeps, GuardCount
    <3>2. CASE Takes(c)
      BY <2>2, <3>2 DEF Takes, GuardCount
    <3>3. CASE Frees(c)
      <4>1. active
        BY <1>0, <3>3 DEF Frees, Counted, Control, GuardExact
      <4> QED BY <2>2, <3>3, <4>1 DEF Frees, GuardCount
    <3> QED BY <3>1, <3>2, <3>3 DEF InternalMove
  <2>4. wg' = wg + (LoopCount' - LoopCount) + (GuardCount' - GuardCount)
    BY <1>7, <2>1, <2>2, <2>3
  <2> QED BY <1>2, <2>4, WaitFollows
<1> QED BY <1>3, <1>4, <1>5, <1>6, <1>8 DEF Counted, Control

LEMMA DeathCounts == Die => Counted'
<1> SUFFICES ASSUME Die PROVE Counted'
  OBVIOUS
<1>1. \A c \in Callers : pc'[c] = "idle"
  BY DEF Die
<1>2. pc'["tick"] = "idle" /\ pc'["manual"] = "idle" /\ \A x \in Externals : pc'[x] = "idle"
  BY <1>1 DEF Callers, Internals
<1>3. PlacesTyped'
  BY <1>2 DEF Die, PlacesTyped, Labels, TickLabels, ManualLabels, ExternalLabels
<1>4. "idle" \notin Guarded /\ "idle" \notin Starting /\ "idle" \notin Locked
  BY DEF Guarded, Fresh, Resumed, Starting, Locked, Recorded
<1>5. Control'
  BY <1>2, <1>3, <1>4 DEF Die, Control, GuardExact, LockExact, Phases
<1>6. Recordings' = {}
  BY <1>2 DEF Recordings
<1>7. WaitExact'
  BY <1>2, <1>6, FS_EmptySet DEF Die, WaitExact, LoopCount, GuardCount
<1> QED BY <1>5, <1>7 DEF Counted

\* Start, the two steps within it, and the end of the process's life.
LEMMA LifeCounts ==
    ASSUME Counted,
           Start \/ StartRecover \/ StartClaim \/ AppCancel \/ Stop \/ LoopExit
    PROVE  Counted'
<1>0. /\ PlacesTyped /\ GuardExact /\ LockExact /\ Phases /\ WaitExact
      /\ "tick" \in Callers /\ "manual" \in Callers /\ "tick" # "manual"
  BY DEF Callers, Counted, Control, Internals
<1>a. LoopCount \in {0, 1} /\ GuardCount \in {0, 1} /\ wg \in Nat
  <2>1. LoopCount \in {0, 1} /\ GuardCount \in {0, 1}
    BY DEF LoopCount, GuardCount
  <2> QED BY <1>0, <2>1, RecordingsFinite DEF WaitExact
\* What the steps of the schedule loop have in common.
<1>b. ASSUME NEW l \in TickLabels, Goto("tick", l),
             persist' = persist \/ persist \notin Externals,
             GuardExact', Phases',
             wg' = wg + (LoopCount' - LoopCount) + (GuardCount' - GuardCount)
      PROVE  Counted'
  <2>1. pc'["tick"] = l /\ \A d \in Callers \ {"tick"} : pc'[d] = pc[d]
    BY <1>0, <1>b, Moves
  <2>2. \A x \in Externals : pc'[x] = pc[x]
    BY <2>1, RunnerAssumption DEF Callers, Internals
  <2>3. pc' \in [Callers -> Labels]
    BY <1>0, <1>b DEF Goto, PlacesTyped, Labels
  <2>4. PlacesTyped' /\ LockExact'
    BY <1>0, <1>b, <2>1, <2>2, <2>3 DEF PlacesTyped, LockExact
  <2>5. WaitExact'
    BY <1>b, <2>2, WaitFollows
  <2> QED BY <1>b, <2>4, <2>5 DEF Counted, Control
<1>c. ASSUME NEW l, Goto("tick", l)
      PROVE  /\ pc'["tick"] = l /\ pc'["manual"] = pc["manual"]
             /\ \A x \in Externals : pc'[x] = pc[x]
  BY <1>0, <1>c, Moves, RunnerAssumption DEF Callers, Internals
<1>s. /\ Starting \subseteq TickLabels /\ {"idle", "exited", "rcollect"} \subseteq TickLabels
      /\ "idle" \notin Starting /\ "exited" \notin Starting /\ "rcollect" \notin Starting
      /\ "idle" \notin Guarded /\ "exited" \notin Guarded /\ "rcollect" \in Guarded
      /\ "start_recover" \in Starting \ Guarded /\ "start_claim" \in Starting \ Guarded
  BY DEF TickLabels, Starting, Guarded, Fresh, Resumed
<1>1. CASE Start
  <2>1. /\ pc'["tick"] = "start_recover" /\ pc'["manual"] = "idle"
        /\ pc["tick"] = "idle" /\ pc["manual"] = "idle"
        /\ \A x \in Externals : pc'[x] = "idle" /\ pc[x] = "idle"
    BY <1>0, <1>1, <1>c DEF Start, Phases
  <2>2. ~active /\ GuardExact'
    BY <1>0, <1>1, <1>s, <2>1 DEF Start, GuardExact
  <2>3. Phases'
    BY <1>0, <1>1, <1>s, <2>1 DEF Start, Phases
  <2>4. LoopCount = 0 /\ LoopCount' = 1 /\ GuardCount = 0 /\ GuardCount' = 0
    BY <1>1, <2>1, <2>2 DEF Start, LoopCount, GuardCount
  <2>5. Recordings = {}
    BY <2>1 DEF Recordings
  <2>6. wg = 0
    BY <1>0, <2>4, <2>5, FS_EmptySet DEF WaitExact
  <2>7. wg' = 1 /\ Goto("tick", "start_recover") /\ persist' = persist
    BY <1>1 DEF Start, lockVars
  <2> QED BY <1>b, <1>s, <2>2, <2>3, <2>4, <2>6, <2>7
<1>2. CASE StartRecover
  <2>a. PICK l \in Starting : Goto("tick", l)
    <3>1. CASE pc' = pc
      BY <1>0, <1>2, <1>s, <3>1, Stays DEF StartRecover
    <3> QED BY <1>2, <1>s, <3>1 DEF StartRecover, EnsureRecovered
  <2>0. UNCHANGED <<up, cancelled, active, wg>> /\ persist \notin Externals
    BY <1>2, RunnerAssumption DEF StartRecover, EnsureRecovered, Callers, Internals
  <2>1. pc["tick"] = "start_recover" /\ pc'["tick"] = l /\ pc'["manual"] = pc["manual"]
        /\ \A x \in Externals : pc'[x] = pc[x]
    BY <1>2, <1>c, <2>a DEF StartRecover
  <2>b. l \notin Guarded /\ l # "exited" /\ l \in TickLabels
    BY <1>s DEF Starting
  <2>2. GuardExact' /\ Phases'
    BY <1>0, <1>s, <2>0, <2>1, <2>b DEF GuardExact, Phases
  <2>3. LoopCount' = LoopCount /\ GuardCount' = GuardCount
    BY <2>0, <2>1, <2>b DEF LoopCount, GuardCount
  <2> QED BY <1>a, <1>b, <2>a, <2>b, <2>0, <2>2, <2>3
<1>3. CASE StartClaim
  <2>0. /\ pc["tick"] = "start_claim" /\ up = "starting" /\ up' = "up" /\ pc["manual"] = "idle"
        /\ UNCHANGED <<cancelled, persist>> /\ ~active
    BY <1>0, <1>3, <1>s DEF StartClaim, Phases, GuardExact, lockVars
  <2>1. CASE Goto("tick", "rcollect") /\ active' = TRUE /\ wg' = wg + 1
    <3>1. GuardExact' /\ Phases'
      BY <1>0, <1>c, <1>s, <2>0, <2>1 DEF GuardExact, Phases
    <3>2. LoopCount = 1 /\ LoopCount' = 1 /\ GuardCount = 0 /\ GuardCount' = 1
      BY <1>c, <2>0, <2>1 DEF LoopCount, GuardCount
    <3> QED BY <1>a, <1>b, <1>s, <2>0, <2>1, <3>1, <3>2
  <2>2. CASE Goto("tick", "idle") /\ UNCHANGED <<active, wg>>
    <3>1. GuardExact' /\ Phases'
      BY <1>0, <1>c, <1>s, <2>0, <2>2 DEF GuardExact, Phases
    <3>2. LoopCount = 1 /\ LoopCount' = 1 /\ GuardCount' = GuardCount
      BY <1>c, <2>0, <2>2 DEF LoopCount, GuardCount
    <3> QED BY <1>a, <1>b, <1>s, <2>0, <2>2, <3>1, <3>2
  <2> QED BY <1>3, <2>1, <2>2 DEF StartClaim, Claim
<1>4. CASE AppCancel \/ Stop
  <2>1. /\ up = "up" /\ up' \in {"up", "stopping"} /\ cancelled' \in BOOLEAN
        /\ UNCHANGED <<pc, active, wg, persist>>
    BY <1>0, <1>4 DEF AppCancel, Stop, Phases, lockVars
  <2>2. Control'
    BY <1>0, <2>1 DEF Control, PlacesTyped, GuardExact, LockExact, Phases
  <2>3. LoopCount' = LoopCount /\ GuardCount' = GuardCount
    BY <2>1 DEF LoopCount, GuardCount
  <2>4. WaitExact'
    BY <1>a, <2>1, <2>3, WaitFollows
  <2> QED BY <2>2, <2>4 DEF Counted
<1>5. CASE LoopExit
  <2>0. /\ Goto("tick", "exited") /\ UNCHANGED <<up, cancelled, active, persist>>
        /\ wg' = wg - 1 /\ pc["tick"] = "idle" /\ up \in {"up", "stopping"}
    BY <1>0, <1>5 DEF LoopExit, Phases, lockVars
  <2>1. GuardExact' /\ Phases'
    BY <1>0, <1>c, <1>s, <2>0 DEF GuardExact, Phases
  <2>2. LoopCount = 1 /\ LoopCount' = 0 /\ GuardCount' = GuardCount
    BY <1>c, <2>0 DEF LoopCount, GuardCount
  <2> QED BY <1>a, <1>b, <1>s, <2>0, <2>1, <2>2
<1> QED BY <1>1, <1>2, <1>3, <1>4, <1>5

\* The steps of the schedule loop and of StartManual outside a batch.
LEMMA LoopCounts ==
    ASSUME Counted,
           Tick \/ TickRecover \/ TickPending \/ TickClaim \/ TickBegin \/ ManualBegin
    PROVE  Counted'
<1>0. /\ PlacesTyped /\ GuardExact /\ Phases
      /\ "tick" \in Callers /\ "manual" \in Callers /\ "tick" # "manual"
      /\ "tick" \in Internals /\ "manual" \in Internals
  BY DEF Callers, Counted, Control, Internals
<1> DEFINE Away == {"idle", "tick_recover", "tick_pending", "begin"}
<1>1. /\ Guarded \cup Away \subseteq TickLabels /\ Fresh \cup {"idle"} \subseteq ManualLabels
      /\ \A l \in Away : l \notin Guarded \cup Starting \cup {"exited"}
      /\ \A l \in Guarded : l \notin Starting \cup {"exited"}
      /\ {"tick_claim", "recover", "rcollect"} \subseteq Guarded /\ "recover" \in Fresh
  BY DEF TickLabels, ManualLabels, Starting, Guarded, Fresh, Resumed
<1>c. PICK c \in Internals :
        \/ c = "tick" /\ (Tick \/ TickRecover \/ TickPending \/ TickClaim \/ TickBegin)
        \/ c = "manual" /\ ManualBegin
  BY <1>0
<1>2. /\ up' = up /\ cancelled' = cancelled
      /\ pc[c] \in Away \cup {"tick_claim"} /\ c \in Callers
      /\ pc[c] = "idle" => up = "up"
  BY <1>0, <1>c DEF Tick, TickRecover, TickPending, TickClaim, TickBegin, ManualBegin, memVars
<1>p. persist' = persist \/ persist \notin Externals
  <2>1. CASE TickRecover
    <3>1. persist \in {"tick", NoOne}
      BY <2>1 DEF TickRecover, EnsureRecovered, RecoveryFails
    <3> QED BY <3>1, RunnerAssumption DEF Callers, Internals
  <2> QED BY <1>c, <2>1 DEF Tick, TickPending, TickClaim, TickBegin, ManualBegin, memVars, lockVars
<1>3. up \in {"up", "stopping"}
  BY <1>0, <1>1, <1>2, <1>c DEF Phases, Internals
<1>4. ASSUME NEW l \in Away \cup Guarded, Goto(c, l), c = "manual" => l \in {"idle", "recover"},
             \/ UNCHANGED <<active, wg>> /\ (pc[c] \in Guarded <=> l \in Guarded)
             \/ ~active /\ active' = TRUE /\ wg' = wg + 1 /\ pc[c] \notin Guarded /\ l \in Guarded
             \/ active' = FALSE /\ wg' = wg - 1 /\ pc[c] \in Guarded /\ l \notin Guarded
      PROVE  Counted'
  <2>1. pc'[c] = l
    BY <1>0, <1>2, <1>4, Moves
  <2>2. pc' = [pc EXCEPT ![c] = pc'[c]]
    BY <1>4, <2>1 DEF Goto
  <2>3. pc'[c] \in IF c = "tick" THEN TickLabels ELSE ManualLabels
    BY <1>1, <1>4, <1>c, <2>1
  <2>4. InternalMove(c)
    BY <1>2, <1>p, <1>4, <2>1, <2>2, <2>3 DEF InternalMove, Keeps, Takes, Frees
  <2>5. pc[c] \notin Starting \cup {"exited"} /\ pc'[c] \notin Starting \cup {"exited"}
    BY <1>1, <1>2, <1>4, <2>1
  <2> QED BY <1>2, <1>3, <2>4, <2>5, MoveKeeps
<1>5. ASSUME NEW l \in {"tick_claim", "recover"}, AcquireActive(c, l), pc[c] \in Away,
             c = "manual" => l = "recover"
      PROVE  Counted'
  BY <1>1, <1>4, <1>5 DEF AcquireActive
<1>6. CASE c = "tick" /\ Tick
  BY <1>1, <1>4, <1>6 DEF Tick, memVars
<1>7. CASE c = "tick" /\ TickRecover
  <2>1. CASE pc' = pc
    <3>1. Goto(c, "tick_recover")
      BY <1>0, <1>7, <2>1, Stays DEF TickRecover
    <3> QED BY <1>1, <1>4, <1>7, <3>1 DEF TickRecover
  <2> QED BY <1>1, <1>4, <1>7, <2>1 DEF TickRecover, EnsureRecovered
<1>8. CASE c = "tick" /\ TickPending
  BY <1>5, <1>8 DEF TickPending
<1>9. CASE c = "tick" /\ TickBegin
  BY <1>5, <1>9 DEF TickBegin
<1>10. CASE c = "manual" /\ ManualBegin
  BY <1>5, <1>10 DEF ManualBegin
<1>11. CASE c = "tick" /\ TickClaim
  <2>0. pc[c] = "tick_claim" /\ pc[c] \in Guarded
    BY <1>1, <1>11 DEF TickClaim
  <2>1. CASE Release(c)
    BY <1>1, <1>4, <1>11, <2>0, <2>1, Forgets DEF Release
  <2>2. CASE Goto(c, "begin") /\ active' = FALSE /\ wg' = wg - 1
    BY <1>1, <1>4, <1>11, <2>0, <2>2
  <2>3. CASE Goto(c, "rcollect") /\ UNCHANGED <<active, wg>>
    BY <1>1, <1>4, <1>11, <2>0, <2>3
  <2> QED BY <1>11, <2>1, <2>2, <2>3 DEF TickClaim, Claim, ClaimFails
<1> QED BY <1>6, <1>7, <1>8, <1>9, <1>10, <1>11, <1>c

\* A recording begins, takes the lock, goes on, or returns.
LEMMA RecordingCounts ==
    ASSUME Counted, NEW x \in Externals, ExternalBegin(x) \/ ExternalStep(x)
    PROVE  Counted'
<1>0. /\ PlacesTyped /\ GuardExact /\ LockExact /\ Phases /\ WaitExact
      /\ x \in Callers /\ x # "tick" /\ x # "manual"
      /\ "tick" \in Callers /\ "manual" \in Callers
  BY RunnerAssumption DEF Callers, Counted, Control, Internals
<1>1. /\ UNCHANGED <<up, cancelled, active>>
      /\ \/ /\ pc[x] = "idle" /\ up = "up" /\ wg' = wg + 1 /\ Goto(x, "x_lock")
            /\ persist' = persist
         \/ /\ pc[x] = "x_lock" /\ persist = NoOne /\ persist' = x /\ Goto(x, "x_create")
            /\ wg' = wg
         \/ /\ pc[x] \in Locked /\ \E l \in Recorded : Goto(x, l)
            /\ UNCHANGED <<persist, wg>>
         \/ pc[x] \in Locked /\ ExternalReturn(x)
  <2>1. Recorded = {"x_mark", "x_complete", "x_finish"} /\ Locked = Recorded \cup {"x_create"}
    BY DEF Recorded, Locked
  <2>2. CASE ExternalBegin(x) \/ ExternalLock(x)
    BY <2>2 DEF ExternalBegin, ExternalLock, lockVars
  <2>3. CASE ExternalCreate(x)
    BY <2>1, <2>3 DEF ExternalCreate, lockVars
  <2>4. CASE ExternalMark(x)
    BY <2>1, <2>4 DEF ExternalMark, lockVars
  <2>5. CASE ExternalComplete(x) \/ ExternalFinish(x)
    BY <2>1, <2>5 DEF ExternalComplete, ExternalFinish, lockVars
  <2> QED BY <2>2, <2>3, <2>4, <2>5 DEF ExternalStep
<1>2. PICK l \in ExternalLabels :
        /\ Goto(x, l)
        /\ \/ /\ pc[x] = "idle" /\ l = "x_lock" /\ up = "up" /\ wg' = wg + 1 /\ persist' = persist
           \/ /\ pc[x] = "x_lock" /\ l = "x_create" /\ persist = NoOne /\ persist' = x /\ wg' = wg
           \/ /\ pc[x] \in Locked /\ l \in Recorded /\ UNCHANGED <<persist, wg>>
           \/ /\ pc[x] \in Locked /\ l = "idle" /\ persist' = NoOne /\ wg' = wg - 1
  <2>1. {"x_lock", "x_create", "idle"} \cup Recorded \subseteq ExternalLabels
    BY DEF ExternalLabels, Locked
  <2> QED BY <1>1, <2>1, Forgets DEF ExternalReturn
<1>3. pc'[x] = l /\ \A d \in Callers \ {x} : pc'[d] = pc[d]
  BY <1>0, <1>2, Moves
<1>4. pc'["tick"] = pc["tick"] /\ pc'["manual"] = pc["manual"]
  BY <1>0, <1>3
<1>5. PlacesTyped'
  <2>1. pc' \in [Callers -> Labels]
    BY <1>0, <1>2 DEF Goto, PlacesTyped, Labels
  <2>2. \A y \in Externals : pc'[y] \in ExternalLabels
    BY <1>0, <1>2, <1>3 DEF PlacesTyped, Callers
  <2> QED BY <1>0, <1>4, <2>1, <2>2 DEF PlacesTyped
<1>6. GuardExact'
  BY <1>0, <1>1, <1>4 DEF GuardExact
<1>7. LockExact'
  <2> SUFFICES ASSUME NEW y \in Externals, pc'[y] \in Locked PROVE persist' = y
    BY DEF LockExact
  <2>0. NoOne # y /\ y \in Callers /\ "x_lock" \notin Locked /\ "idle" \notin Locked
        /\ "x_create" \in Locked
    BY RunnerAssumption DEF Callers, Locked, Recorded
  <2>1. CASE y = x
    BY <1>0, <1>2, <1>3, <2>0, <2>1 DEF LockExact
  <2>2. CASE y # x
    <3>1. persist = y
      BY <1>0, <1>3, <2>0, <2>2 DEF LockExact
    <3>2. pc[x] \notin Locked
      BY <1>0, <2>2, <3>1 DEF LockExact
    <3> QED BY <1>2, <2>0, <3>1, <3>2
  <2> QED BY <2>1, <2>2
<1>8. up \notin {"down", "starting"}
  <2>1. "idle" \notin Locked
    BY DEF Locked, Recorded
  <2> QED BY <1>0, <1>2, <2>1 DEF Phases
<1>9. Phases'
  BY <1>0, <1>1, <1>4, <1>8 DEF Phases
<1>10. WaitExact'
  <2>1. LoopCount' = LoopCount /\ GuardCount' = GuardCount
        /\ LoopCount \in {0, 1} /\ GuardCount \in {0, 1}
    BY <1>1, <1>4 DEF LoopCount, GuardCount
  <2>2. \A y \in Externals \ {x} : pc'[y] = pc[y]
    BY <1>3 DEF Callers
  <2>3. "idle" \notin Locked /\ "idle" \notin Recorded
    BY DEF Locked, Recorded
  <2>4. CASE pc[x] = "idle" /\ l = "x_lock" /\ wg' = wg + 1
    <3>1. Recordings' = Recordings \cup {x} /\ x \notin Recordings
      BY <1>3, <2>2, <2>4 DEF Recordings
    <3>2. Cardinality(Recordings)' = Cardinality(Recordings) + 1
      BY <3>1, RecordingsFinite, FS_AddElement
    <3> QED BY <1>0, <2>1, <2>4, <3>2, RecordingsFinite DEF WaitExact
  <2>5. CASE pc[x] # "idle" /\ l # "idle" /\ wg' = wg
    <3>1. Recordings' = Recordings
      BY <1>3, <2>2, <2>5 DEF Recordings
    <3>2. Cardinality(Recordings)' = Cardinality(Recordings)
      BY <3>1
    <3> QED BY <1>0, <2>1, <2>5, <3>2 DEF WaitExact
  <2>6. CASE pc[x] # "idle" /\ l = "idle" /\ wg' = wg - 1
    <3>1. Recordings' = Recordings \ {x} /\ x \in Recordings
      BY <1>3, <2>2, <2>6 DEF Recordings
    <3>2. Cardinality(Recordings)' = Cardinality(Recordings) - 1
      BY <3>1, RecordingsFinite, FS_RemoveElement
    <3> QED BY <1>0, <2>1, <2>6, <3>2, RecordingsFinite DEF WaitExact
  <2> QED BY <1>2, <2>3, <2>4, <2>5, <2>6
<1> QED BY <1>5, <1>6, <1>7, <1>9, <1>10 DEF Counted, Control

LEMMA ControlStep == Counted /\ Step => Counted'
<1> SUFFICES ASSUME Counted, Step PROVE Counted'
  OBVIOUS
<1>1. ASSUME NEW c \in Internals, InternalStep(c) PROVE Counted'
  <2>1. /\ InternalMove(c) /\ up' = up
        /\ pc[c] \in Guarded /\ pc'[c] \in Guarded \cup {"idle"}
    BY <1>1, InternalMoves DEF Counted
  <2>2. pc[c] \notin Starting \cup {"exited"} /\ pc'[c] \notin Starting \cup {"exited"}
        /\ pc[c] # "idle"
    BY <2>1 DEF Guarded, Fresh, Resumed, Starting
  <2>3. up \in {"up", "stopping"}
    BY <2>2 DEF Counted, Control, Phases, Internals
  <2> QED BY <2>1, <2>2, <2>3, MoveKeeps
<1>2. CASE StartFails \/ StopReturns \/ Crash
  BY <1>2, DeathCounts DEF StartFails, StopReturns, Crash
<1>3. "tick" \in Internals /\ "manual" \in Internals
  BY DEF Internals
<1> QED BY <1>1, <1>2, <1>3, LifeCounts, LoopCounts, RecordingCounts DEF Step, TickStep

-----------------------------------------------------------------------------
(* Whose item it is *)

\* Where the manual batch relies on the recovery that it has seen.
Relying == Fresh \ {"recover", "finish"}

LEMMA Alone ==
    ASSUME Control, NEW c \in Internals, NEW d \in Internals, c # d, pc[c] \in Guarded
    PROVE  pc[d] \notin Guarded
BY DEF Control, GuardExact, Internals

LEMMA WorkingIsGuarded ==
    /\ \A c \in Internals : Working(c) => pc[c] \in Guarded
    /\ Relying \subseteq Guarded
BY DEF Working, Guarded, Fresh, Resumed, Relying

\* The holder of the guard makes a step: what the others have does not matter.
LEMMA HolderOwns ==
    ASSUME Control, NEW c \in Internals, pc[c] \in Guarded,
           \A d \in Internals \ {c} : pc'[d] = pc[d],
           c = "manual" /\ pc'[c] \in Relying => recovered',
           Working(c)' => istat'[cur'[c]] = "running"
    PROVE  Ownership'
<1>1. \A d \in Internals \ {c} : pc'[d] \notin Guarded
  BY Alone
<1>2. \A d \in Internals \ {c} : ~Working(d)'
  BY <1>1 DEF Working, Guarded, Fresh, Resumed
<1>3. WorkerOwnsItem'
  BY <1>2 DEF WorkerOwnsItem
<1>4. pc'["manual"] \in Relying => recovered'
  BY <1>1, WorkingIsGuarded DEF Internals
<1> QED BY <1>3, <1>4 DEF Ownership, Relying

LEMMA InternalOwns ==
    ASSUME StoreInv, Work, Control, Ownership, ~asked, NEW c \in Internals, InternalStep(c)
    PROVE  Ownership'
<1>0. PlacesTyped /\ c \in Callers /\ c \in {"tick", "manual"}
  BY DEF Control, Callers, Internals
<1>1. /\ pc[c] \in Guarded /\ \A d \in Internals \ {c} : pc'[d] = pc[d]
  <2>1. InternalMove(c) /\ pc[c] \in Guarded
    BY InternalMoves
  <2> QED BY <1>0, <2>1 DEF InternalMove, PlacesTyped, Callers
<1>2. c = "manual" /\ pc[c] \in Relying => recovered
  BY DEF Ownership, Relying
<1>3. ASSUME NEW l, Goto(c, l),
             l \in Relying => recovered' \/ (recovered' = recovered /\ pc[c] \in Relying),
             l \in {"collect", "complete", "rcollect", "rcomplete"} => istat'[cur'[c]] = "running"
      PROVE  Ownership'
  <2>1. pc'[c] = l
    BY <1>0, <1>3, Moves
  <2>2. c = "manual" /\ pc'[c] \in Relying => recovered'
    BY <1>2, <1>3, <2>1
  <2>3. Working(c)' => istat'[cur'[c]] = "running"
    BY <1>3, <2>1 DEF Working
  <2> QED BY <1>1, <2>2, <2>3, HolderOwns
<1>r. CASE Release(c)
  <2>1. Goto(c, "idle") /\ "idle" \notin Relying
    BY <1>r, Forgets DEF Release, Relying, Fresh
  <2> QED BY <1>3, <2>1
<1>s. /\ {"create", "mark", "collect", "complete", "require"} \subseteq Relying
      /\ \A l \in {"finish", "rcollect", "rcomplete", "rclaim"} : l \notin Relying
  BY DEF Relying, Fresh
<1>4. CASE BatchRecover(c)
  <2>1. CASE pc' = pc
    <3>1. Goto(c, "recover") /\ "recover" \notin Relying
      BY <1>0, <1>4, <2>1, Stays DEF BatchRecover, Relying
    <3> QED BY <1>3, <3>1
  <2>2. CASE Goto(c, "create")
    BY <1>3, <1>4, <1>r, <2>1, <2>2 DEF BatchRecover, EnsureRecovered
  <2> QED BY <1>4, <1>r, <2>1, <2>2 DEF BatchRecover, EnsureRecovered
<1>5. CASE BatchCreate(c)
  BY <1>3, <1>5, <1>r, <1>s DEF BatchCreate
<1>6. CASE Mark(c)
  <2>0. batch[c] \in Batches
    BY <1>6 DEF Mark, Work, InternalWork
  <2>1. ASSUME NEW k \in Keywords, MarkRunItemRunning(<<batch[c], k>>),
               cur' = [cur EXCEPT ![c] = <<batch[c], k>>], Goto(c, "collect"),
               recovered' = recovered
        PROVE  Ownership'
    <3>1. <<batch[c], k>> \in Items
      BY <2>0 DEF Items
    <3>2. cur'[c] = <<batch[c], k>>
      BY <1>0, <2>1 DEF Work, WorkTyped
    <3>3. istat'[<<batch[c], k>>] = "running"
      BY <2>1, <3>1 DEF MarkRunItemRunning, StoreInv, Rows, StoreTyped
    <3> QED BY <1>3, <1>6, <1>s, <2>1, <3>2, <3>3 DEF Mark
  <2>2. CASE Goto(c, "finish")
    BY <1>3, <1>s, <2>2
  <2>3. CASE Goto(c, "require") /\ recovered' = recovered
    BY <1>3, <1>6, <1>s, <2>3 DEF Mark
  <2> QED BY <1>6, <1>r, <2>1, <2>2, <2>3 DEF Mark
<1>7. CASE Collect(c)
  <2>1. istat[cur[c]] = "running"
    BY <1>7 DEF Collect, Ownership, WorkerOwnsItem, Working
  <2>2. CASE ~cancelled
    <3>1. UNCHANGED <<istat, cur, recovered>>
      BY <1>7, <1>r, <2>2 DEF Collect, dbVars
    <3> QED BY <1>3, <1>7, <1>s, <2>1, <2>2, <3>1 DEF Collect
  <2> QED BY <1>7, <1>r, <2>2 DEF Collect
<1>8. CASE Complete(c)
  BY <1>3, <1>8, <1>s DEF Complete
<1>9. CASE Finish(c)
  BY <1>9, <1>r DEF Finish
<1>10. CASE ResumedComplete(c)
  BY <1>3, <1>10, <1>r, <1>s DEF ResumedComplete
<1>11. CASE ResumedClaim(c)
  <2>1. ASSUME NEW i \in Items, Claim(c, i) PROVE Ownership'
    <3>1. cur'[c] = i /\ istat'[i] = "running" /\ Goto(c, "rcollect")
      BY <1>0, <2>1 DEF Claim, MarkRunItemRunning, StoreInv, Rows, StoreTyped, Work, WorkTyped
    <3> QED BY <1>3, <1>s, <3>1
  <2> QED BY <1>11, <1>r, <2>1 DEF ResumedClaim, ClaimFails
<1>12. CASE Require(c)
  BY <1>3, <1>12, <1>s DEF Require
<1> QED BY <1>4, <1>5, <1>6, <1>7, <1>8, <1>9, <1>10, <1>11, <1>12 DEF InternalStep

\* The steps that touch neither the store nor a worker's item.
LEMMA QuietOwns ==
    ASSUME Ownership, ~asked, UNCHANGED <<istat, cur>>, recovered' \/ recovered' = recovered,
           \A c \in Internals : pc'[c] = pc[c] \/ pc'[c] \notin Guarded \/ pc'[c] \in {"recover", "tick_claim"}
    PROVE  Ownership'
<1>1. \A c \in Internals : Working(c)' => Working(c)
  BY DEF Working, Guarded, Fresh, Resumed
<1>2. WorkerOwnsItem'
  BY <1>1 DEF Ownership, WorkerOwnsItem
<1>3. pc'["manual"] \in Relying => pc["manual"] \in Relying
  BY DEF Relying, Fresh, Guarded, Internals
<1> QED BY <1>2, <1>3 DEF Ownership, Relying

LEMMA LoopOwns ==
    ASSUME StoreInv, Work, Counted, Ownership, ~asked,
           \/ Start \/ StartRecover \/ StartClaim \/ AppCancel \/ Stop \/ LoopExit
           \/ Tick \/ TickRecover \/ TickPending \/ TickClaim \/ TickBegin \/ ManualBegin
    PROVE  Ownership'
<1>0. /\ Control /\ PlacesTyped /\ "tick" \in Internals /\ "manual" \in Internals
      /\ "tick" \in Callers /\ "manual" \in Callers /\ "tick" # "manual"
      /\ \A c \in Internals : c = "tick" \/ c = "manual"
  BY DEF Counted, Control, Callers, Internals
<1>s. \A l \in {"idle", "exited", "start_recover", "start_claim", "tick_recover",
                "tick_pending", "begin"} : l \notin Guarded
  BY DEF Guarded, Fresh, Resumed
<1>q. ASSUME NEW c \in Internals, UNCHANGED <<istat, cur>>, recovered' \/ recovered' = recovered,
             NEW l \in {"idle", "exited", "start_recover", "start_claim", "tick_recover",
                        "tick_pending", "begin", "recover", "tick_claim"}, Goto(c, l)
      PROVE  Ownership'
  <2>1. pc'[c] = l /\ \A d \in Callers \ {c} : pc'[d] = pc[d]
    BY <1>0, <1>q, Moves
  <2>2. \A d \in Internals : pc'[d] = pc[d] \/ pc'[d] \notin Guarded \/ pc'[d] \in {"recover", "tick_claim"}
    BY <1>0, <1>q, <1>s, <2>1
  <2> QED BY <1>q, <2>2, QuietOwns
\* While Start runs, and where the loop has the guard, nobody else works.
<1>a. ASSUME NEW l, Goto("tick", l), pc["manual"] \notin Guarded,
             l \in {"collect", "complete", "rcollect", "rcomplete"} => istat'[cur'["tick"]] = "running"
      PROVE  Ownership'
  <2>1. pc'["tick"] = l /\ pc'["manual"] = pc["manual"]
    BY <1>0, <1>a, Moves
  <2>2. ~Working("manual")' /\ pc'["manual"] \notin Relying
    BY <1>a, <2>1 DEF Working, Guarded, Fresh, Resumed, Relying
  <2>3. Working("tick")' => istat'[cur'["tick"]] = "running"
    BY <1>a, <2>1 DEF Working
  <2>4. WorkerOwnsItem'
    BY <1>0, <2>2, <2>3 DEF WorkerOwnsItem
  <2> QED BY <2>2, <2>4 DEF Ownership, Relying
<1>c. ASSUME NEW i \in Items, Claim("tick", i), pc["manual"] \notin Guarded
      PROVE  Ownership'
  <2>1. cur'["tick"] = i /\ istat'[i] = "running" /\ Goto("tick", "rcollect")
    BY <1>0, <1>c DEF Claim, MarkRunItemRunning, StoreInv, Rows, StoreTyped, Work, WorkTyped
  <2> QED BY <1>a, <1>c, <2>1
<1>1. CASE Start \/ LoopExit \/ Tick
  BY <1>0, <1>1, <1>q DEF Start, LoopExit, Tick, dbVars, memVars, workVars
<1>2. CASE AppCancel \/ Stop
  BY <1>0, <1>2, QuietOwns DEF AppCancel, Stop, dbVars, workVars
<1>3. CASE StartRecover \/ StartClaim
  <2>1. pc["manual"] \notin Guarded
    BY <1>0, <1>3, <1>s DEF StartRecover, StartClaim, Control, Phases, Starting
  <2>2. CASE pc' = pc
    <3>1. pc["tick"] \in Starting /\ Goto("tick", pc["tick"])
      BY <1>0, <1>3, <2>2, Stays DEF StartRecover, StartClaim, Starting
    <3>2. pc["tick"] \notin {"collect", "complete", "rcollect", "rcomplete"}
      BY <3>1 DEF Starting
    <3> QED BY <1>a, <2>1, <3>1, <3>2
  <2> QED BY <1>3, <1>a, <1>c, <2>1, <2>2 DEF StartRecover, StartClaim, EnsureRecovered
<1>4. CASE TickRecover
  <2>0. cur' = cur
    BY <1>4 DEF TickRecover, workVars
  <2>1. CASE recovered
    <3>1. persist # "tick"
      BY <1>0, <2>1 DEF StoreInv, RecoveryExact, Recovering
    <3> QED BY <1>0, <1>4, <1>q, <2>0, <2>1, <3>1
            DEF TickRecover, EnsureRecovered, RecoveryFails, dbVars
  <2>2. CASE ~recovered
    <3>1. PICK l \in {"idle", "tick_pending", "tick_recover"} : Goto("tick", l)
      <4>1. CASE pc' = pc
        BY <1>0, <1>4, <4>1, Stays DEF TickRecover
      <4> QED BY <1>4, <4>1 DEF TickRecover, EnsureRecovered
    <3>2. pc'["tick"] = l /\ pc'["manual"] = pc["manual"] /\ pc["manual"] \notin Relying
      BY <1>0, <2>2, <3>1, Moves DEF Ownership, Relying
    <3>3. pc["manual"] \in ManualLabels
      BY <1>0 DEF PlacesTyped
    <3>4. \A c \in Internals : ~Working(c)'
      BY <1>0, <3>2, <3>3 DEF Working, Relying, Fresh, ManualLabels
    <3> QED BY <3>2, <3>4 DEF Ownership, WorkerOwnsItem, Relying
  <2> QED BY <2>1, <2>2
<1>5. CASE TickPending \/ TickBegin \/ ManualBegin
  BY <1>0, <1>5, <1>q DEF TickPending, TickBegin, ManualBegin, AcquireActive, dbVars, workVars
<1>6. CASE TickClaim
  <2>1. "tick_claim" \in Guarded
    BY DEF Guarded
  <2>2. pc["manual"] \notin Guarded
    BY <1>0, <1>6, <2>1, Alone DEF TickClaim
  <2>3. CASE Release("tick")
    BY <1>a, <2>2, <2>3, Forgets DEF Release
  <2> QED BY <1>6, <1>a, <1>c, <2>2, <2>3 DEF TickClaim, ClaimFails
<1> QED BY <1>1, <1>2, <1>3, <1>4, <1>5, <1>6

LEMMA RecordingOwns ==
    ASSUME StoreInv, Work, Counted, Ownership, ~asked, ~RecordingFails,
           NEW x \in Externals, ExternalBegin(x) \/ ExternalStep(x)
    PROVE  Ownership'
<1>0. /\ PlacesTyped /\ x \in Callers /\ x \notin Internals
      /\ \A c \in Internals : c \in Callers \ {x}
  BY RunnerAssumption DEF Counted, Control, Callers
<1>1. FitsRecording(x)
  BY <1>0, ExternalFits, ExternalTransacts
<1>2. \A c \in Internals : pc'[c] = pc[c] /\ cur'[c] = cur[c]
  BY <1>0, <1>1 DEF FitsRecording
<1>r. ASSUME ExternalReturn(x), pc[x] \in {"x_mark", "x_complete"} PROVE FALSE
  <2>1. pc'[x] = "idle"
    BY <1>0, <1>r, Forgets, Moves DEF ExternalReturn
  <2> QED BY <1>r, <2>1 DEF RecordingFails
<1>3. recovered' = recovered
  BY <1>r DEF ExternalStep, ExternalBegin, ExternalLock, ExternalCreate, ExternalMark,
              ExternalComplete, ExternalFinish
<1>4. ASSUME NEW c \in Internals, Working(c), istat[cur[c]] = "running"
      PROVE  istat'[cur[c]] = "running"
  <2>0. cur[c] \in Items /\ cur[c][1] = batch[c] /\ batch[c] <= nbatch /\ nbatch \in Nat
    BY <1>4, RunnerAssumption DEF Work, InternalWork, StoreInv, Rows, StoreTyped
  <2>1. CASE istat' = istat
    BY <1>4, <2>1
  <2>2. ASSUME NEW k \in Keywords, CreateRun("external", {k})
        PROVE  istat'[cur[c]] = "running"
    <3>1. cur[c][1] # nbatch + 1
      BY <2>0, ItemParts
    <3> QED BY <1>4, <2>0, <2>2, <3>1 DEF CreateRun
  <2>3. ASSUME NEW i \in Items, MarkRunItemRunning(i)
        PROVE  istat'[cur[c]] = "running"
    BY <1>4, <2>0, <2>3 DEF MarkRunItemRunning, StoreInv, Rows, StoreTyped
  <2>4. ASSUME pc[x] = "x_complete", CompleteRunItem(cur[x], out[x])
        PROVE  istat'[cur[c]] = "running"
    <3>1. cur[x] \in Items /\ cur[x] # cur[c]
      BY <2>0, <2>4 DEF Work, ExternalWork, Recorded
    <3> QED BY <1>4, <2>0, <2>4, <3>1 DEF CompleteRunItem, StoreInv, Rows, StoreTyped
  <2>5. CASE ExternalBegin(x) \/ ExternalLock(x) \/ ExternalFinish(x)
    BY <2>1, <2>5 DEF ExternalBegin, ExternalLock, ExternalFinish, CompleteRun, dbVars
  <2>6. CASE ExternalCreate(x)
    BY <2>1, <2>2, <2>6 DEF ExternalCreate, dbVars
  <2>7. CASE ExternalMark(x)
    <3>1. cur[x] \in Items
      BY <2>7 DEF ExternalMark, Work, ExternalWork, Recorded
    <3> QED BY <2>1, <2>3, <2>7, <3>1 DEF ExternalMark, dbVars
  <2>8. CASE ExternalComplete(x)
    BY <2>1, <2>4, <2>8 DEF ExternalComplete, CompleteItemFails, dbVars
  <2> QED BY <2>5, <2>6, <2>7, <2>8 DEF ExternalStep
<1>5. WorkerOwnsItem'
  BY <1>2, <1>4 DEF Ownership, WorkerOwnsItem, Working
<1>6. pc'["manual"] = pc["manual"]
  BY <1>2 DEF Internals
<1> QED BY <1>3, <1>5, <1>6 DEF Ownership

LEMMA OwnershipStep ==
    ASSUME StoreInv, Work, Counted, Ownership, Next, Counted'
    PROVE  Ownership'
<1> SUFFICES ASSUME ~asked' PROVE Ownership'
  BY DEF Ownership
<1>1. CASE up' = "down"
  <2>1. pc'["tick"] = "idle" /\ pc'["manual"] = "idle"
    BY <1>1 DEF Counted, Control, Phases
  <2> QED BY <2>1 DEF Ownership, WorkerOwnsItem, Working, Internals, Fresh
<1>2. CASE up' # "down"
  <2>1. ~asked /\ ~RecordingFails /\ Step
    BY <1>2 DEF Next
  <2>2. CASE StartFails \/ StopReturns \/ Crash
    BY <1>2, <2>2 DEF StartFails, StopReturns, Crash, Die
  <2>3. Control /\ "tick" \in Internals /\ "manual" \in Internals
    BY DEF Counted, Internals
  <2> QED BY <2>1, <2>2, <2>3, LoopOwns, InternalOwns, RecordingOwns DEF Step, TickStep
<1> QED BY <1>1, <1>2

-----------------------------------------------------------------------------
(* The results *)

LEMMA RunnerStart == Init => RunnerInv
<1>1. Init => Ownership
  BY DEF Init, Ownership, WorkerOwnsItem, Working, Internals, Callers, Fresh
<1> QED BY <1>1, StoreStart, WorkStart, ControlStart DEF RunnerInv

LEMMA RunnerStep == RunnerInv /\ [Next]_vars => RunnerInv'
<1> SUFFICES ASSUME RunnerInv, [Next]_vars PROVE RunnerInv'
  OBVIOUS
<1>0. StoreInv /\ Work /\ Counted /\ Ownership /\ PlacesTyped /\ LockExact
  BY DEF RunnerInv, Counted, Control
<1>1. CASE Next
  <2>1. Step
    BY <1>1 DEF Next
  <2>2. StoreInv' /\ Work' /\ Counted'
    BY <1>0, <2>1, StepTransacts, StoreStep, WorkStep, ControlStep
  <2>3. Ownership'
    BY <1>0, <1>1, <2>2, OwnershipStep
  <2> QED BY <2>2, <2>3 DEF RunnerInv
<1>2. CASE UNCHANGED vars
  <2>1. UNCHANGED <<istat, found, bstat, nbatch, pc, batch, cur, todo, out, tally, up,
                    cancelled, recovered, active, wg, persist, reset, torn, asked>>
    BY <1>2 DEF vars, runVars, dbVars, memVars, lockVars, workVars
  <2>2. StoreInv'
    <3>1. Rows'
      BY <1>0, <2>1 DEF StoreInv, Rows, StoreTyped, NoneBefore, BatchInSync, Unfinished
    <3>2. RecoveryExact'
      BY <1>0, <2>1 DEF StoreInv, RecoveryExact, Running, Recovering
    <3> QED BY <3>1, <3>2 DEF StoreInv
  <2>3. Work'
    BY <1>0, <2>1 DEF Work, WorkTyped, InternalWork, ExternalWork, Working
  <2>4. Counted'
    BY <1>0, <2>1 DEF Counted, Control, PlacesTyped, GuardExact, LockExact, Phases,
                      WaitExact, LoopCount, GuardCount, Recordings
  <2>5. Ownership'
    BY <1>0, <2>1 DEF Ownership, WorkerOwnsItem, Working
  <2> QED BY <2>2, <2>3, <2>4, <2>5 DEF RunnerInv
<1> QED BY <1>1, <1>2

LEMMA RunnerInvariant == Spec => []RunnerInv
BY RunnerStart, RunnerStep, PTL DEF Spec

\* A batch is running, pending or finished exactly when its items say so, whichever
\* call of runner.go fails before or after its commit and whenever the process dies;
\* only an item marked running between the two statements of RecoverRunningItems may
\* run in a batch that is pending.
THEOREM BatchesInSync == Spec => []BatchInSync
<1>1. RunnerInv => BatchInSync
  BY DEF RunnerInv, StoreInv, Rows
<1> QED BY <1>1, RunnerInvariant, PTL

\* When Stop has seen the wait group at zero no tick, batch or recording is under
\* way: the group counts the loop, the holder of the guard and every recording.
THEOREM StopWaits == Spec => []StopWaitsForAll
<1>1. RunnerInv => StopWaitsForAll
  <2> SUFFICES ASSUME RunnerInv, up = "stopping", wg = 0, NEW c \in Callers
               PROVE  pc[c] \in {"idle", "exited"}
    BY DEF StopWaitsForAll
  <2>0. Counted /\ Control /\ WaitExact
    BY DEF RunnerInv, Counted
  <2>1. LoopCount \in {0, 1} /\ GuardCount \in {0, 1}
    BY DEF LoopCount, GuardCount
  <2>2. LoopCount = 0 /\ GuardCount = 0 /\ Cardinality(Recordings) = 0
    BY <2>0, <2>1, RecordingsFinite DEF WaitExact
  <2>3. pc["tick"] = "exited" /\ ~active
    BY <2>2 DEF LoopCount, GuardCount
  <2>4. pc["manual"] = "idle"
    <3>1. pc["manual"] \in ManualLabels /\ pc["manual"] \notin Guarded
      BY <2>0, <2>3 DEF Control, PlacesTyped, GuardExact
    <3> QED BY <3>1 DEF ManualLabels, Guarded
  <2>5. Recordings = {}
    BY <2>2, RecordingsFinite, FS_EmptySet
  <2> QED BY <2>3, <2>4, <2>5 DEF Recordings, Callers, Internals
<1> QED BY <1>1, RunnerInvariant, PTL

\* Until a failed recording asks for a recovery, the item a worker collects is
\* running and no two workers collect at once: the guard and ensureRecovered keep
\* the tick, StartManual and a restarted process apart.
THEOREM ItemsOwned == Spec => []OwnedUntilAsked
<1>1. RunnerInv => OwnedUntilAsked
  <2> SUFFICES ASSUME RunnerInv, ~asked
               PROVE  /\ WorkerOwnsItem
                      /\ \A c, d \in Internals : Working(c) /\ Working(d) => c = d
    BY DEF OwnedUntilAsked
  <2>1. WorkerOwnsItem
    BY DEF RunnerInv, Ownership
  <2>2. Control
    BY DEF RunnerInv, Counted
  <2> QED BY <2>1, <2>2, Alone, WorkingIsGuarded
<1> QED BY <1>1, RunnerInvariant, PTL

\* No step of the runner, a crash and a recovery included, changes the status of a
\* finished item.
THEOREM FinishedStaysFinished == Spec => FinishedIsFinal
<1>1. RunnerInv /\ [Next]_vars =>
        [\A i \in Items : istat[i] \in Terminal => istat'[i] = istat[i]]_vars
  <2> SUFFICES ASSUME RunnerInv, Next, NEW i \in Items, istat[i] \in Terminal
               PROVE  istat'[i] = istat[i]
    OBVIOUS
  <2>1. StoreInv /\ Work /\ Step
    BY DEF RunnerInv, Next
  <2> QED BY <2>1, StepTransacts, FinishedStays
<1> QED BY <1>1, RunnerInvariant, PTL DEF Spec, FinishedIsFinal

=============================================================================
