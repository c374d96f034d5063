-------------------------- MODULE CollectionRunner --------------------------
(***************************************************************************)
(* The collection runner (collection/runner.go) over the persistent run    *)
(* store (storage/runs.go, behind integration/collection_adapter.go).      *)
(*                                                                         *)
(* Internal batches come from the scheduler's tick or from an admin's      *)
(* StartManual; at most one runs at a time, guarded by `active'.  Items    *)
(* that an error, a stop or a crash leaves behind are made pending again   *)
(* by RecoverRunning and drained by ClaimPending.  RecordExternal writes   *)
(* the batch of a search that has already happened; it does not take the   *)
(* guard and serializes with recovery and claims by persistMu.             *)
(*                                                                         *)
(* Granularity: one action per repository call, each a transaction, except *)
(* for RecoverRunning, whose two statements are two actions: at READ       *)
(* COMMITTED a batch that works meanwhile may commit between them.  A call *)
(* ends in one of three ways: committed, failed without effect, or         *)
(* committed and reported as failed (the commit's answer is lost, or the   *)
(* read that CreateRun, ClaimPending and CompleteRunItem make after their  *)
(* commit fails).                                                          *)
(*                                                                         *)
(* The goroutine that startPending and startBatch spawn continues as its   *)
(* caller: while it runs, `active' makes every tick return at once, so the *)
(* schedule loop has nothing else to do.                                   *)
(*                                                                         *)
(* Keywords are numbered in priority order.  Which keywords are enabled    *)
(* and past their cooldown when a batch is made is left open.              *)
(***************************************************************************)
EXTENDS Integers, FiniteSets

CONSTANTS
    Keywords,       \* managed keywords, numbered by falling priority
    MaxBatches,     \* bound: batches ever created
    Externals,      \* concurrent RecordExternal calls
    FaultyCallers,  \* the callers whose repository calls may fail
    CanCrash,       \* whether the process may die
    MaxDisruptions, \* bound: failing calls, shutdowns and crashes together
    MaxRequests,    \* bound: admin and external requests
    Sample,         \* bound: the results of a collection that are explored
    NoOne           \* no holder of persistMu

Internals == {"tick", "manual"}
Callers   == Internals \cup Externals
Batches   == 1..MaxBatches
Items     == Batches \X Keywords

Terminal == {"success", "success_empty", "partial", "failed"}

\* A status and whether found_count > 0.
Results == Terminal \X BOOLEAN

ASSUME RunnerAssumption ==
    /\ Keywords \subseteq Nat /\ IsFiniteSet(Keywords)
    /\ MaxBatches \in Nat /\ MaxDisruptions \in Nat /\ MaxRequests \in Nat
    /\ CanCrash \in BOOLEAN /\ Sample \subseteq Results
    /\ Externals \cap Internals = {} /\ IsFiniteSet(Externals)
    /\ FaultyCallers \subseteq Callers
    /\ NoOne \notin Callers

Statuses == {"none", "pending", "running"} \cup Terminal
Triggers == {"none", "scheduled", "manual", "external"}
NoItem   == <<0, 0>>

VARIABLES
    \* the database
    istat,     \* collection_run_items.status, "none" for a row not inserted
    found,     \* collection_run_items.found_count > 0
    bstat,     \* collection_runs.status
    trigger,   \* collection_runs.trigger
    nbatch,    \* batches created so far
    \* the process
    up,        \* "down", "starting", "up" (started), "stopping" (Stop waits)
    cancelled, \* runCtx is done
    recovered, \* r.recovered
    active,    \* r.active
    wg,        \* r.wg
    persist,   \* the holder of r.persistMu, and of r.recoveryMu in a recovery
    reset,     \* the items a recovery under way has reset and not committed
    pc,        \* where each caller is
    batch,     \* the batch a caller works on
    cur,       \* the item a caller works on
    todo,      \* items of a fresh batch not started yet
    out,       \* status and found_count > 0 of the completion in hand
    tally,     \* DetermineRunStatus of what runBatch has seen so far
    \* bounds
    budget,    \* disruptions left
    requests,  \* requests left
    \* history
    torn,      \* batches with an item marked running between the two statements
               \* of a recovery, until a later mark or completion of an item
    asked      \* a failed recording has required a recovery since the start

dbVars   == <<istat, found, bstat, trigger, nbatch, torn>>
lockVars == <<persist, reset>>
memVars  == <<up, cancelled, recovered, active, wg, lockVars>>
workVars == <<batch, cur, todo, out, tally>>
runVars  == <<dbVars, memVars, pc, workVars, budget, requests>>
vars     == <<runVars, asked>>

TypeOK ==
    /\ istat \in [Items -> Statuses]
    /\ found \in [Items -> BOOLEAN]
    /\ bstat \in [Batches -> Statuses]
    /\ trigger \in [Batches -> Triggers]
    /\ nbatch \in 0..MaxBatches
    /\ up \in {"down", "starting", "up", "stopping"}
    /\ cancelled \in BOOLEAN /\ recovered \in BOOLEAN /\ active \in BOOLEAN
    /\ wg \in Nat
    /\ persist \in Callers \cup {NoOne} /\ reset \subseteq Items
    /\ pc \in [Callers -> {"idle", "exited", "start_recover", "start_claim",
                           "tick_recover", "tick_pending", "tick_claim", "begin",
                           "recover", "create", "mark", "collect", "complete",
                           "require", "finish", "rcollect", "rcomplete", "rclaim",
                           "x_lock", "x_create", "x_mark", "x_complete", "x_finish"}]
    /\ batch \in [Callers -> 0..MaxBatches]
    /\ cur \in [Callers -> Items \cup {NoItem}]
    /\ todo \in [Callers -> SUBSET Keywords]
    /\ out \in [Callers -> Results]
    /\ tally \in [Callers -> {"failed", "success_empty", "success"}]
    /\ budget \in 0..MaxDisruptions
    /\ requests \in 0..MaxRequests
    /\ torn \subseteq Batches /\ asked \in BOOLEAN

Init ==
    /\ istat = [i \in Items |-> "none"]
    /\ found = [i \in Items |-> FALSE]
    /\ bstat = [b \in Batches |-> "none"]
    /\ trigger = [b \in Batches |-> "none"]
    /\ nbatch = 0
    /\ up = "down" /\ cancelled = FALSE /\ recovered = FALSE /\ active = FALSE
    /\ wg = 0 /\ persist = NoOne /\ reset = {}
    /\ pc = [c \in Callers |-> "idle"]
    /\ batch = [c \in Callers |-> 0]
    /\ cur = [c \in Callers |-> NoItem]
    /\ todo = [c \in Callers |-> {}]
    /\ out = [c \in Callers |-> <<"failed", FALSE>>]
    /\ tally = [c \in Callers |-> "failed"]
    /\ budget = MaxDisruptions /\ requests = MaxRequests
    /\ torn = {} /\ asked = FALSE

-----------------------------------------------------------------------------
(* The run store *)

ItemsOf(b) == {i \in Items : i[1] = b}

\* finalizeRunTx: the status of a batch whose items have statuses st.
Aggregate(b, st, fd) ==
    LET its == {i \in ItemsOf(b) : st[i] # "none"}
        Some(s) == \E i \in its : st[i] = s
    IN  IF Some("running") THEN "running"
        ELSE IF Some("pending") THEN "pending"
        ELSE IF Some("partial") THEN "partial"
        ELSE IF Some("success") \/ \E i \in its : fd[i] THEN "success"
        ELSE IF Some("success_empty") THEN "success_empty" ELSE "failed"

\* CreateRun: a batch with one pending item per keyword.
CreateRun(t, ks) ==
    LET b == nbatch + 1 IN
    /\ nbatch < MaxBatches
    /\ nbatch' = b
    /\ istat' = [i \in Items |-> IF i[1] = b /\ i[2] \in ks THEN "pending" ELSE istat[i]]
    /\ bstat' = [bstat EXCEPT ![b] = "pending"]
    /\ trigger' = [trigger EXCEPT ![b] = t]
    /\ UNCHANGED <<found, torn>>

\* A recovery is between its two statements.
Recovering == persist \in Internals

\* MarkRunItemRunning: WHERE status='pending'.
MarkRunItemRunning(i) ==
    /\ istat[i] = "pending"
    /\ istat' = [istat EXCEPT ![i] = "running"]
    /\ bstat' = [bstat EXCEPT ![i[1]] = "running"]
    /\ torn' = IF Recovering THEN torn \cup {i[1]} ELSE torn \ {i[1]}
    /\ UNCHANGED <<found, trigger, nbatch>>

\* The item ClaimNextRunItem takes: none while one is running anywhere;
\* otherwise the pending one of the oldest batch and highest priority.
NextClaim(i) ==
    /\ \A j \in Items : istat[j] # "running"
    /\ istat[i] = "pending"
    /\ \A j \in Items : istat[j] = "pending" =>
         i[1] < j[1] \/ (i[1] = j[1] /\ i[2] <= j[2])

\* CompleteRunItem: only a running item, whose row is waited for while a recovery
\* holds it, and its batch is brought in line.
CompleteRunItem(i, res) ==
    /\ istat[i] = "running" /\ i \notin reset
    /\ istat' = [istat EXCEPT ![i] = res[1]]
    /\ found' = [found EXCEPT ![i] = res[2]]
    /\ bstat' = [bstat EXCEPT ![i[1]] = Aggregate(i[1], istat', found')]
    /\ torn' = IF Recovering THEN torn ELSE torn \ {i[1]}
    /\ UNCHANGED <<trigger, nbatch>>

\* CompleteRun: refused while an item is unfinished.
Unfinished(b) == \E i \in ItemsOf(b) : istat[i] \in {"pending", "running"}

CompleteRun(b, status) ==
    /\ ~Unfinished(b)
    /\ bstat' = [bstat EXCEPT ![b] = status]
    /\ UNCHANGED <<istat, found, trigger, nbatch, torn>>

Running == {i \in Items : istat[i] = "running"}

\* Mutants: the batch keeps its status; the batch's status selects the items.
RecoverItemsOnly ==
    /\ istat' = [i \in Items |-> IF i \in reset THEN "pending" ELSE istat[i]]
    /\ UNCHANGED <<found, bstat, trigger, nbatch, torn>>

RecoverWholeBatch ==
    /\ istat' = [i \in Items |-> IF istat[i] # "none" /\ bstat[i[1]] = "running"
                                 THEN "pending" ELSE istat[i]]
    /\ bstat' = [b \in Batches |-> IF bstat[b] = "running" THEN "pending" ELSE bstat[b]]
    /\ UNCHANGED <<found, trigger, nbatch, torn>>

\* RecoverRunningItems, from its second statement on: the items the first one has
\* reset, whoever ran them, and the running batches that now have a pending item.
RecoverRunningItems ==
    /\ istat' = [i \in Items |-> IF i \in reset THEN "pending" ELSE istat[i]]
    /\ bstat' = [b \in Batches |->
                   IF bstat[b] = "running" /\ \E i \in ItemsOf(b) : istat'[i] = "pending"
                   THEN "pending" ELSE bstat[b]]
    /\ UNCHANGED <<found, trigger, nbatch, torn>>

-----------------------------------------------------------------------------
(* Failing calls *)

\* A repository call of c fails: its context is done, or the database is in
\* trouble, which costs one disruption.
Fails(c) ==
    \/ c \in Internals /\ cancelled /\ budget' = budget
    \/ c \in FaultyCallers /\ budget > 0 /\ budget' = budget - 1

Succeeds == budget' = budget

\* Mutant: the failure is forgotten.
RecoveryNotRequired == recovered' = recovered

\* requireRecovery waits for recoveryMu.
RequireRecovery == ~Recovering /\ recovered' = FALSE

\* c is done: releaseActive, wg.Done, and its variables are gone.
Forget(c) ==
    /\ pc' = [pc EXCEPT ![c] = "idle"]
    /\ batch' = [batch EXCEPT ![c] = 0]
    /\ cur' = [cur EXCEPT ![c] = NoItem]
    /\ todo' = [todo EXCEPT ![c] = {}]
    /\ out' = [out EXCEPT ![c] = <<"failed", FALSE>>]
    /\ tally' = [tally EXCEPT ![c] = "failed"]

Release(c) == active' = FALSE /\ wg' = wg - 1 /\ Forget(c)

\* The process is gone: nothing of its memory is left.
Die ==
    /\ up' = "down" /\ cancelled' = FALSE /\ recovered' = FALSE /\ active' = FALSE
    /\ wg' = 0 /\ persist' = NoOne /\ reset' = {}
    /\ pc' = [c \in Callers |-> "idle"]
    /\ batch' = [c \in Callers |-> 0]
    /\ cur' = [c \in Callers |-> NoItem]
    /\ todo' = [c \in Callers |-> {}]
    /\ out' = [c \in Callers |-> <<"failed", FALSE>>]
    /\ tally' = [c \in Callers |-> "failed"]

Goto(c, l) == pc' = [pc EXCEPT ![c] = l]

-----------------------------------------------------------------------------
(* Start, Stop, crash *)

\* Start, up to ensureRecovered; wg counts the schedule loop.
Start ==
    /\ up = "down"
    /\ up' = "starting" /\ wg' = 1
    /\ Goto("tick", "start_recover")
    /\ UNCHANGED <<dbVars, cancelled, recovered, active, lockVars, workVars, budget,
                   requests>>

\* main exits when Start returns an error.
StartFails ==
    /\ pc["tick"] \in {"start_recover", "start_claim"}
    /\ Fails("tick")
    /\ \/ UNCHANGED dbVars
       \/ pc["tick"] = "start_recover" /\ persist = "tick" /\ RecoverRunningItems
       \/ /\ pc["tick"] = "start_claim"
          /\ \E i \in Items : NextClaim(i) /\ MarkRunItemRunning(i)
    /\ Die
    /\ UNCHANGED requests

\* ensureRecovered by c, which then goes on at label l: nothing is to be done, or
\* the first statement of the recovery, and after it the second and the commit.
EnsureRecovered(c, l) ==
    /\ \/ /\ persist = NoOne /\ recovered
          /\ Goto(c, l)
          /\ UNCHANGED <<dbVars, lockVars, recovered>>
       \/ /\ persist = NoOne /\ ~recovered
          /\ persist' = c /\ reset' = Running
          /\ UNCHANGED <<dbVars, recovered, pc>>
       \/ /\ persist = c
          /\ RecoverRunningItems
          /\ persist' = NoOne /\ reset' = {}
          /\ recovered' = TRUE
          /\ Goto(c, l)
    /\ Succeeds

\* The recovery of c fails: it is rolled back, or it is committed and the answer lost.
RecoveryFails(c) ==
    /\ persist \in {c, NoOne} /\ ~recovered /\ Fails(c)
    /\ UNCHANGED dbVars \/ (persist = c /\ RecoverRunningItems)
    /\ persist' = NoOne /\ reset' = {}
    /\ UNCHANGED recovered

\* The claim of startPending and runClaimedPending: an item is taken.
Claim(c, i) ==
    /\ persist = NoOne
    /\ NextClaim(i) /\ MarkRunItemRunning(i)
    /\ Succeeds
    /\ cur' = [cur EXCEPT ![c] = i]
    /\ batch' = [batch EXCEPT ![c] = i[1]]
    /\ Goto(c, "rcollect")
    /\ UNCHANGED <<todo, out, tally>>

NothingToClaim == persist = NoOne /\ ~ \E i \in Items : NextClaim(i)

StartRecover ==
    /\ pc["tick"] = "start_recover"
    /\ EnsureRecovered("tick", "start_claim")
    /\ UNCHANGED <<up, cancelled, active, wg, workVars, requests>>

\* startPending within Start, after which Start returns.
StartClaim ==
    /\ pc["tick"] = "start_claim"
    /\ \/ /\ \E i \in Items : Claim("tick", i)
          /\ active' = TRUE /\ wg' = wg + 1
       \/ /\ NothingToClaim /\ Succeeds
          /\ Goto("tick", "idle")
          /\ UNCHANGED <<dbVars, active, wg, workVars>>
    /\ up' = "up"
    /\ UNCHANGED <<cancelled, recovered, lockVars, requests>>

\* main cancels the application context, then calls Stop.
AppCancel ==
    /\ up = "up" /\ ~cancelled /\ budget > 0
    /\ cancelled' = TRUE /\ budget' = budget - 1
    /\ UNCHANGED <<dbVars, up, recovered, active, wg, lockVars, pc, workVars, requests>>

Stop ==
    /\ up = "up" /\ cancelled
    /\ up' = "stopping"
    /\ UNCHANGED <<dbVars, cancelled, recovered, active, wg, lockVars, pc, workVars,
                   budget, requests>>

LoopExit ==
    /\ cancelled /\ pc["tick"] = "idle"
    /\ wg' = wg - 1
    /\ Goto("tick", "exited")
    /\ UNCHANGED <<dbVars, up, cancelled, recovered, active, lockVars, workVars,
                   budget, requests>>

StopReturns ==
    /\ up = "stopping" /\ wg = 0
    /\ Die
    /\ UNCHANGED <<dbVars, budget, requests>>

Crash ==
    /\ CanCrash /\ up # "down" /\ budget > 0
    /\ budget' = budget - 1
    /\ Die
    /\ UNCHANGED <<dbVars, requests>>

-----------------------------------------------------------------------------
(* The schedule loop *)

\* tick finds no batch running.
Tick ==
    /\ pc["tick"] = "idle" /\ up = "up" /\ ~cancelled
    /\ ~active
    /\ Goto("tick", "tick_recover")
    /\ UNCHANGED <<dbVars, memVars, workVars, budget, requests>>

TickRecover ==
    /\ pc["tick"] = "tick_recover"
    /\ \/ EnsureRecovered("tick", "tick_pending")
       \/ RecoveryFails("tick") /\ Goto("tick", "idle")
    /\ UNCHANGED <<up, cancelled, active, wg, workVars, requests>>

\* Mutant: the guard is taken whether or not it is free.
AcquireActiveAnyway(c, l) ==
    \/ /\ up = "up"
       /\ active' = TRUE /\ wg' = wg + 1
       /\ Goto(c, l)
    \/ /\ up # "up"
       /\ Goto(c, "idle")
       /\ UNCHANGED <<active, wg>>

\* startPending and startBatch take the guard, or return ErrBatchRunning or
\* ErrNotStarted.
AcquireActive(c, l) ==
    \/ /\ up = "up" /\ ~active
       /\ active' = TRUE /\ wg' = wg + 1
       /\ Goto(c, l)
    \/ /\ up # "up" \/ active
       /\ Goto(c, "idle")
       /\ UNCHANGED <<active, wg>>

TickPending ==
    /\ pc["tick"] = "tick_pending"
    /\ AcquireActive("tick", "tick_claim")
    /\ UNCHANGED <<dbVars, up, cancelled, recovered, lockVars, workVars, budget, requests>>

\* ClaimPending failed: nothing was claimed, or an item was claimed and its
\* batch could not be read.
ClaimFails(c) ==
    /\ persist = NoOne /\ Fails(c)
    /\ UNCHANGED dbVars \/ \E i \in Items : NextClaim(i) /\ MarkRunItemRunning(i)
    /\ RequireRecovery
    /\ Release(c)

TickClaim ==
    /\ pc["tick"] = "tick_claim"
    /\ \/ /\ \E i \in Items : Claim("tick", i)
          /\ UNCHANGED <<recovered, active, wg>>
       \/ /\ NothingToClaim /\ Succeeds
          /\ active' = FALSE /\ wg' = wg - 1
          /\ Goto("tick", "begin")
          /\ UNCHANGED <<dbVars, recovered, workVars>>
       \/ ClaimFails("tick")
    /\ UNCHANGED <<up, cancelled, lockVars, requests>>

-----------------------------------------------------------------------------
(* Fresh batches *)

\* StartScheduled, and StartManual on an admin's request.
TickBegin ==
    /\ pc["tick"] = "begin"
    /\ AcquireActive("tick", "recover")
    /\ UNCHANGED <<dbVars, up, cancelled, recovered, lockVars, workVars, budget, requests>>

ManualBegin ==
    /\ pc["manual"] = "idle" /\ up = "up" /\ requests > 0
    /\ requests' = requests - 1
    /\ AcquireActive("manual", "recover")
    /\ UNCHANGED <<dbVars, up, cancelled, recovered, lockVars, workVars, budget>>

BatchRecover(c) ==
    /\ pc[c] = "recover"
    /\ \/ /\ EnsureRecovered(c, "create")
          /\ UNCHANGED <<active, wg, workVars>>
       \/ RecoveryFails(c) /\ Release(c)
    /\ UNCHANGED <<up, cancelled, requests>>

TriggerOf(c) == IF c = "tick" THEN "scheduled" ELSE "manual"

\* Select the keywords and create the batch, or give up without one.
BatchCreate(c) ==
    /\ pc[c] = "create"
    /\ \/ \E ks \in (SUBSET Keywords) \ {{}} :
            /\ CreateRun(TriggerOf(c), ks)
            /\ \/ /\ Succeeds
                  /\ todo' = [todo EXCEPT ![c] = ks]
                  /\ batch' = [batch EXCEPT ![c] = nbatch']
                  /\ Goto(c, "mark")
                  /\ UNCHANGED <<active, wg, cur, out, tally>>
               \/ Fails(c) /\ Release(c)
       \/ /\ Succeeds \/ Fails(c)
          /\ Release(c)
          /\ UNCHANGED dbVars
    /\ UNCHANGED <<up, cancelled, recovered, lockVars, requests>>

\* The items of a batch are listed by priority.
FirstTodo(c, k) == k \in todo[c] /\ \A j \in todo[c] : k <= j

\* runBatch, the head of the loop: the context is looked at and the next item
\* marked running.
Mark(c) ==
    /\ pc[c] = "mark"
    /\ \/ /\ cancelled
          /\ Release(c)
          /\ UNCHANGED <<dbVars, recovered, budget>>
       \/ /\ todo[c] = {} /\ ~cancelled
          /\ Goto(c, "finish")
          /\ UNCHANGED <<dbVars, recovered, active, wg, workVars, budget>>
       \/ \E k \in Keywords :
            LET i == <<batch[c], k>> IN
            /\ FirstTodo(c, k) /\ ~cancelled
            /\ \/ /\ MarkRunItemRunning(i) /\ Succeeds
                  /\ cur' = [cur EXCEPT ![c] = i]
                  /\ todo' = [todo EXCEPT ![c] = @ \ {k}]
                  /\ Goto(c, "collect")
                  /\ UNCHANGED <<recovered, batch, out, tally>>
               \/ /\ \/ istat[i] # "pending" /\ Succeeds /\ UNCHANGED dbVars
                     \/ Fails(c) /\ (UNCHANGED dbVars \/ MarkRunItemRunning(i))
                  /\ Goto(c, "require")
                  /\ UNCHANGED <<recovered, workVars>>
            /\ UNCHANGED <<active, wg>>
    /\ UNCHANGED <<up, cancelled, lockVars, requests>>

\* What collectKeyword can report: results whose ingestion failed count as
\* found although the item has not succeeded.
CollectResults == {<<"success", TRUE>>} \cup ({"success_empty", "failed"} \X BOOLEAN)

\* collectKeyword returns; a done context abandons the item as it is.
Collect(c) ==
    /\ pc[c] \in {"collect", "rcollect"}
    /\ \/ /\ cancelled
          /\ Release(c)
       \/ /\ ~cancelled
          /\ \E res \in CollectResults \cap Sample : out' = [out EXCEPT ![c] = res]
          /\ Goto(c, IF pc[c] = "collect" THEN "complete" ELSE "rcomplete")
          /\ UNCHANGED <<active, wg, batch, cur, todo, tally>>
    /\ UNCHANGED <<dbVars, up, cancelled, recovered, lockVars, budget, requests>>

\* The ways CompleteItem fails: a conflict, or a fault before or after the
\* commit.
CompleteItemFails(c) ==
    /\ \/ istat[cur[c]] # "running" /\ Succeeds /\ UNCHANGED dbVars
       \/ Fails(c) /\ (UNCHANGED dbVars \/ CompleteRunItem(cur[c], out[c]))

\* anyData and anyCompleted of runBatch, as DetermineRunStatus will see them.
Tally(t, status) ==
    IF status = "success" \/ t = "success" THEN "success"
    ELSE IF status = "success_empty" THEN "success_empty" ELSE t

Complete(c) ==
    /\ pc[c] = "complete"
    /\ \/ /\ CompleteRunItem(cur[c], out[c]) /\ Succeeds
          /\ tally' = [tally EXCEPT ![c] = Tally(@, out[c][1])]
          /\ Goto(c, "mark")
       \/ /\ CompleteItemFails(c)
          /\ Goto(c, "require")
          /\ UNCHANGED tally
    /\ cur' = [cur EXCEPT ![c] = NoItem]
    /\ out' = [out EXCEPT ![c] = <<"failed", FALSE>>]
    /\ UNCHANGED <<up, cancelled, recovered, active, wg, lockVars, batch, todo, requests>>

\* After a failed call of the batch, which a recovery under way may delay.
Require(c) ==
    /\ pc[c] = "require"
    /\ RequireRecovery
    /\ Goto(c, "finish")
    /\ UNCHANGED <<dbVars, up, cancelled, active, wg, lockVars, workVars, budget, requests>>

\* The end of runBatch: CompleteBatch, whose failure is only reported.
Finish(c) ==
    /\ pc[c] = "finish"
    /\ \/ cancelled /\ UNCHANGED <<dbVars, budget>>
       \/ ~cancelled /\ CompleteRun(batch[c], tally[c]) /\ (Succeeds \/ Fails(c))
       \/ ~cancelled /\ Unfinished(batch[c]) /\ Succeeds /\ UNCHANGED dbVars
       \/ ~cancelled /\ Fails(c) /\ UNCHANGED dbVars
    /\ Release(c)
    /\ UNCHANGED <<up, cancelled, recovered, lockVars, requests>>

-----------------------------------------------------------------------------
(* Resumed items: runClaimedPending *)

ResumedComplete(c) ==
    /\ pc[c] = "rcomplete"
    /\ \/ /\ CompleteRunItem(cur[c], out[c]) /\ Succeeds
          /\ cur' = [cur EXCEPT ![c] = NoItem]
          /\ out' = [out EXCEPT ![c] = <<"failed", FALSE>>]
          /\ Goto(c, "rclaim")
          /\ UNCHANGED <<recovered, active, wg, batch, todo, tally>>
       \/ /\ CompleteItemFails(c) /\ RequireRecovery
          /\ Release(c)
    /\ UNCHANGED <<up, cancelled, lockVars, requests>>

ResumedClaim(c) ==
    /\ pc[c] = "rclaim"
    /\ \/ /\ \E i \in Items : Claim(c, i)
          /\ UNCHANGED <<recovered, active, wg>>
       \/ /\ NothingToClaim /\ Succeeds
          /\ Release(c)
          /\ UNCHANGED <<dbVars, recovered>>
       \/ ClaimFails(c)
    /\ UNCHANGED <<up, cancelled, lockVars, requests>>

-----------------------------------------------------------------------------
(* RecordExternal *)

\* Mutant: Stop does not know of the recording.
ExternalBeginUncounted(x) ==
    /\ pc[x] = "idle" /\ up = "up" /\ requests > 0
    /\ requests' = requests - 1
    /\ Goto(x, "x_lock")
    /\ UNCHANGED <<dbVars, up, cancelled, recovered, active, wg, lockVars, workVars, budget>>

ExternalBegin(x) ==
    /\ pc[x] = "idle" /\ up = "up" /\ requests > 0
    /\ requests' = requests - 1
    /\ wg' = wg + 1
    /\ Goto(x, "x_lock")
    /\ UNCHANGED <<dbVars, up, cancelled, recovered, active, lockVars, workVars, budget>>

ExternalLock(x) ==
    /\ pc[x] = "x_lock" /\ persist = NoOne
    /\ persist' = x
    /\ Goto(x, "x_create")
    /\ UNCHANGED <<dbVars, reset, up, cancelled, recovered, active, wg, workVars, budget, requests>>

ExternalReturn(x) == persist' = NoOne /\ reset' = reset /\ wg' = wg - 1 /\ Forget(x)

\* FindKeyword and CreateBatch; the bound on batches acts like a failed call.
ExternalCreate(x) ==
    /\ pc[x] = "x_create"
    /\ \/ \E k \in Keywords :
            /\ CreateRun("external", {k})
            /\ \/ /\ Succeeds
                  /\ cur' = [cur EXCEPT ![x] = <<nbatch', k>>]
                  /\ Goto(x, "x_mark")
                  /\ UNCHANGED <<lockVars, wg, batch, todo, out, tally>>
               \/ Fails(x) /\ ExternalReturn(x)
       \/ /\ Fails(x) \/ (nbatch = MaxBatches /\ Succeeds)
          /\ ExternalReturn(x)
          /\ UNCHANGED dbVars
    /\ UNCHANGED <<up, cancelled, recovered, active, requests>>

\* What a finished external search reports: ingestion may fail, the search may
\* have been partial.
ExternalResults ==
    {<<"success", TRUE>>, <<"failed", TRUE>>, <<"success_empty", FALSE>>}
    \cup ({"partial"} \X BOOLEAN)

\* MarkItemRunning, and after it the ingestion that fixes the result.
ExternalMark(x) ==
    /\ pc[x] = "x_mark"
    /\ \/ /\ MarkRunItemRunning(cur[x]) /\ Succeeds
          /\ \E res \in ExternalResults \cap Sample : out' = [out EXCEPT ![x] = res]
          /\ Goto(x, "x_complete")
          /\ UNCHANGED <<recovered, lockVars, wg, batch, cur, todo, tally>>
       \/ /\ \/ istat[cur[x]] # "pending" /\ Succeeds /\ UNCHANGED dbVars
             \/ Fails(x) /\ (UNCHANGED dbVars \/ MarkRunItemRunning(cur[x]))
          /\ RequireRecovery
          /\ ExternalReturn(x)
    /\ UNCHANGED <<up, cancelled, active, requests>>

ExternalComplete(x) ==
    /\ pc[x] = "x_complete"
    /\ \/ /\ CompleteRunItem(cur[x], out[x]) /\ Succeeds
          /\ Goto(x, "x_finish")
          /\ UNCHANGED <<recovered, lockVars, wg, workVars>>
       \/ /\ CompleteItemFails(x) /\ RequireRecovery
          /\ ExternalReturn(x)
    /\ UNCHANGED <<up, cancelled, active, requests>>

ExternalFinish(x) ==
    /\ pc[x] = "x_finish"
    /\ \/ CompleteRun(cur[x][1], out[x][1]) /\ (Succeeds \/ Fails(x))
       \/ Fails(x) /\ UNCHANGED dbVars
    /\ ExternalReturn(x)
    /\ UNCHANGED <<up, cancelled, recovered, active, requests>>

-----------------------------------------------------------------------------
InternalStep(c) ==
    \/ BatchRecover(c) \/ BatchCreate(c) \/ Mark(c) \/ Collect(c) \/ Complete(c)
    \/ Require(c) \/ Finish(c) \/ ResumedComplete(c) \/ ResumedClaim(c)

TickStep ==
    \/ StartRecover \/ StartClaim \/ Tick \/ TickRecover \/ TickPending \/ TickClaim
    \/ TickBegin \/ InternalStep("tick")

ExternalStep(x) ==
    \/ ExternalLock(x) \/ ExternalCreate(x) \/ ExternalMark(x) \/ ExternalComplete(x)
    \/ ExternalFinish(x)

Step ==
    \/ Start \/ StartFails \/ AppCancel \/ Stop \/ LoopExit \/ StopReturns \/ Crash
    \/ TickStep
    \/ ManualBegin \/ InternalStep("manual")
    \/ \E x \in Externals : ExternalBegin(x) \/ ExternalStep(x)

\* A recording that was to mark or complete its item has ended.
RecordingFails == \E x \in Externals : pc[x] \in {"x_mark", "x_complete"} /\ pc'[x] = "idle"

Next == Step /\ asked' = (up' # "down" /\ (asked \/ RecordingFails))

Spec == Init /\ [][Next]_vars

-----------------------------------------------------------------------------
(* Properties *)

Working(c) == pc[c] \in {"collect", "complete", "rcollect", "rcomplete"}

\* "CompleteItem must keep the containing batch aggregate status in sync": a
\* batch is running, pending or finished exactly when its items say so.  Only an
\* item that was marked running between the two statements of a recovery may run
\* in a batch that is pending.
BatchInSync ==
    \A b \in 1..nbatch :
      /\ bstat[b] = "running" => \E i \in ItemsOf(b) : istat[i] = "running"
      /\ b \notin torn => \A i \in ItemsOf(b) : istat[i] = "running" => bstat[b] = "running"
      /\ bstat[b] \in Terminal <=> ~Unfinished(b)

\* When Stop has seen the wait group at zero, nobody is left who could write.
StopWaitsForAll ==
    up = "stopping" /\ wg = 0 => \A c \in Callers : pc[c] \in {"idle", "exited"}

\* A finished item is never run or recovered again.
FinishedIsFinal ==
    [][\A i \in Items : istat[i] \in Terminal => istat'[i] = istat[i]]_vars

\* "RecoverRunning changes abandoned running items back to pending": the item a
\* worker is collecting stays its own.
WorkerOwnsItem == \A c \in Internals : Working(c) => istat[cur[c]] = "running"

\* Until a failed recording requires a recovery, no recovery takes an item from
\* the worker that collects it and no two workers collect the same one: the guard
\* and ensureRecovered keep tick, StartManual and a restarted process apart.
OwnedUntilAsked ==
    ~asked =>
      /\ WorkerOwnsItem
      /\ \A c, d \in Internals : Working(c) /\ Working(d) => c = d

\* Goroutines are scheduled, calls return, the ticker fires, Stop is called after
\* the context ended, and a process that is down is started again.
Fairness ==
    /\ WF_runVars(TickStep) /\ WF_runVars(InternalStep("manual"))
    /\ \A x \in Externals : WF_runVars(ExternalStep(x))
    /\ WF_runVars(Start) /\ WF_runVars(Stop) /\ WF_runVars(LoopExit) /\ WF_runVars(StopReturns)

FairSpec == Spec /\ Fairness

\* No work is lost: once disruptions end, every item that was ever created is
\* collected and finished, whichever call failed and whenever the process died.
EveryItemFinishes ==
    \A i \in Items : istat[i] \in {"pending", "running"} ~> istat[i] \in Terminal
=============================================================================
