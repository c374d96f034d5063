----------------------------- MODULE KeywordSync -----------------------------
(***************************************************************************)
(* The synchronisation of API keyword sources: the worker loop of          *)
(* keywordsync/history.go in every process that shares the database, the   *)
(* run store of storage/keyword_api_sync_runs.go with its leases, and the  *)
(* admin's changes of storage/keyword_api_sources.go.                      *)
(*                                                                         *)
(* Granularity: one action per store call, each a transaction that locks   *)
(* the source before the run.  A call ends in one of three ways: committed,*)
(* failed without effect, or committed and reported as failed (the store   *)
(* contexts have timeouts).                                                *)
(*                                                                         *)
(* Data left out: requests, extracted values and messages.  An iteration   *)
(* ends in success or failure, and whether the no-keyword limit then ends  *)
(* the loop is left open.  When a source is due is left open too.  Time is *)
(* a lease that is live or expired; Renew never revives an expired one.    *)
(*                                                                         *)
(* A configuration with iteration_unlimited has no last iteration.  Of its *)
(* runs the model keeps the latest iteration, as their first, and what the *)
(* earlier ones came to.                                                   *)
(***************************************************************************)
EXTENDS Integers, FiniteSets

CONSTANTS
    Workers,        \* processes running the tracked loop
    Sources,        \* API keyword sources
    Iterations,     \* iteration_count of every source
    Unlimited,      \* the revisions with iteration_unlimited
    MaxRev,         \* bound: configuration revisions of a source
    MaxRequests,    \* bound: scheduled and manual requests
    MaxDisruptions, \* bound: failing calls, late heartbeats, shutdowns, crashes
    NoWorker        \* no lease holder

ASSUME SyncAssumption ==
    /\ IsFiniteSet(Workers) /\ NoWorker \notin Workers
    /\ IsFiniteSet(Sources) /\ Sources # {}
    /\ Iterations \in Nat \ {0} /\ MaxRev \in Nat \ {0}
    /\ Unlimited \subseteq 1..MaxRev
    /\ MaxRequests \in Nat /\ MaxDisruptions \in Nat

Revs  == 1..MaxRev
Steps == 1..Iterations
\* Every change of a configuration replaces at most one queued run.
Runs  == 1..(MaxRequests + Cardinality(Sources) * (MaxRev - 1))

RunStatuses  == {"none", "queued", "running", "success", "partial", "failed",
                 "interrupted", "cancelled"}
Terminal     == {"success", "partial", "failed", "interrupted", "cancelled"}
StepStatuses == {"none", "queued", "running", "success", "failed", "skipped",
                 "interrupted"}

VARIABLES
    \* keyword_api_sources
    live,     \* the row exists
    rev,      \* sync_config_revision
    applied,  \* last_applied_config_revision, 0 before the first
    stale,    \* result_stale
    synced,   \* last_synced_at is set
    last,     \* last_status
    \* keyword_api_sync_runs and keyword_api_sync_iterations
    rstat,    \* status, "none" for a row not inserted
    rsrc,     \* source_id_snapshot
    rrev,     \* config_revision
    holder,   \* whose lease_owner and lease_token the run has
    lease,    \* "none", "live" or "expired": lease_until against the clock
    iter,     \* the statuses of the run's iterations, "none" without a row
    past,     \* the outcomes of the earlier iterations of an unlimited run
    nrun,     \* runs inserted so far
    \* the processes
    pc,       \* where each worker is, "down" when its process is
    run,      \* the claimed run, 0 when there is none
    idx,      \* the iteration at hand
    succ,     \* successCount, 1 for any other than zero
    fail,     \* failureCount, 1 for any other than zero
    out,      \* the status in the input of CompleteKeywordAPISyncIteration
    lost,     \* the heartbeat has cancelled runCtx
    closing,  \* the service's context is done
    \* bounds
    budget,   \* disruptions left
    requests  \* requests left

srcVars  == <<live, rev, applied, stale, synced, last>>
runVars  == <<rstat, rsrc, rrev, holder, lease, iter, past, nrun>>
dbVars   == <<srcVars, runVars>>
workVars == <<run, idx, succ, fail, out, lost>>
vars     == <<dbVars, pc, workVars, closing, budget, requests>>

TypeOK ==
    /\ live \in [Sources -> BOOLEAN] /\ rev \in [Sources -> Revs]
    /\ applied \in [Sources -> 0..MaxRev]
    /\ stale \in [Sources -> BOOLEAN] /\ synced \in [Sources -> BOOLEAN]
    /\ last \in [Sources -> {"pending", "running", "success", "partial", "failed"}]
    /\ rstat \in [Runs -> RunStatuses] /\ rsrc \in [Runs -> Sources]
    /\ rrev \in [Runs -> Revs] /\ holder \in [Runs -> Workers \cup {NoWorker}]
    /\ lease \in [Runs -> {"none", "live", "expired"}]
    /\ iter \in [Runs -> [Steps -> StepStatuses]]
    /\ past \in [Runs -> SUBSET {"success", "failed"}] /\ nrun \in 0..Cardinality(Runs)
    /\ pc \in [Workers -> {"down", "recover", "enqueue", "claim", "next",
                           "last", "begin", "request", "complete", "finalize",
                           "fail", "interrupt"}]
    /\ run \in [Workers -> Runs \cup {0}] /\ idx \in [Workers -> 0..Iterations]
    /\ succ \in [Workers -> 0..1] /\ fail \in [Workers -> 0..1]
    /\ out \in [Workers -> {"none", "success", "failed", "strict", "aborted"}]
    /\ lost \in [Workers -> BOOLEAN] /\ closing \in [Workers -> BOOLEAN]
    /\ budget \in 0..MaxDisruptions /\ requests \in 0..MaxRequests

Init ==
    /\ live = [s \in Sources |-> TRUE] /\ rev = [s \in Sources |-> 1]
    /\ applied = [s \in Sources |-> 0]
    /\ stale = [s \in Sources |-> FALSE] /\ synced = [s \in Sources |-> FALSE]
    /\ last = [s \in Sources |-> "pending"]
    /\ rstat = [r \in Runs |-> "none"]
    /\ rsrc = [r \in Runs |-> CHOOSE s \in Sources : TRUE]
    /\ rrev = [r \in Runs |-> 1] /\ holder = [r \in Runs |-> NoWorker]
    /\ lease = [r \in Runs |-> "none"]
    /\ iter = [r \in Runs |-> [i \in Steps |-> "none"]]
    /\ past = [r \in Runs |-> {}] /\ nrun = 0
    /\ pc = [w \in Workers |-> "down"]
    /\ run = [w \in Workers |-> 0] /\ idx = [w \in Workers |-> 0]
    /\ succ = [w \in Workers |-> 0] /\ fail = [w \in Workers |-> 0]
    /\ out = [w \in Workers |-> "none"]
    /\ lost = [w \in Workers |-> FALSE] /\ closing = [w \in Workers |-> FALSE]
    /\ budget = MaxDisruptions /\ requests = MaxRequests

-----------------------------------------------------------------------------
(* The run store *)

InStatus(s, st) == {r \in Runs : rsrc[r] = s /\ rstat[r] = st}

\* cancelUnfinishedKeywordAPISyncIterationsTx: started ones become st.
CloseIterations(its, st) ==
    [i \in Steps |-> IF its[i] = "queued" THEN "skipped"
                     ELSE IF its[i] = "running" THEN st ELSE its[i]]

\* A run for the current configuration of s is queued or running already.
AlreadyActive(s) ==
    \E r \in InStatus(s, "running") \cup InStatus(s, "queued") : rrev[r] = rev[s]

\* The rows that a run with configuration n is inserted with.
FirstIterations(n) == [i \in Steps |-> IF n \in Unlimited THEN "none" ELSE "queued"]

\* Run nrun + 1 of s is inserted with status st; the queued run of s, which has
\* an older configuration, is cancelled.
InsertRun(s, st, w, l) ==
    LET n   == nrun + 1
        old == InStatus(s, "queued")
    IN
    /\ n \in Runs
    /\ nrun' = n
    /\ rstat' = [r \in Runs |-> IF r = n THEN st ELSE IF r \in old THEN "cancelled"
                                ELSE rstat[r]]
    /\ iter' = [r \in Runs |-> IF r = n THEN FirstIterations(rev[s])
                               ELSE IF r \in old THEN CloseIterations(iter[r], "skipped")
                               ELSE iter[r]]
    /\ rsrc' = [rsrc EXCEPT ![n] = s] /\ rrev' = [rrev EXCEPT ![n] = rev[s]]
    /\ holder' = [holder EXCEPT ![n] = w] /\ lease' = [lease EXCEPT ![n] = l]
    /\ UNCHANGED past

\* enqueueKeywordAPISourceSyncTx.
EnqueueTx(s) ==
    \/ AlreadyActive(s) /\ UNCHANGED <<dbVars, requests>>
    \/ /\ ~AlreadyActive(s) /\ requests > 0
       /\ requests' = requests - 1
       /\ InsertRun(s, "queued", NoWorker, "none")
       /\ UNCHANGED srcVars

\* The oldest queued run of a source that has none running.
Candidate(r) ==
    LET Free(q) == rstat[q] = "queued" /\ InStatus(rsrc[q], "running") = {}
    IN  Free(r) /\ \A q \in Runs : Free(q) => r <= q

\* Mutant: a run is executed for whatever configuration it was queued with.
ClaimedAsQueued(r) == r

\* The run that a claim of candidate r starts: r, or the one that replaces it
\* when the configuration has changed since r was queued.
Claimed(r) == IF rrev[r] = rev[rsrc[r]] THEN r ELSE nrun + 1

\* claimNextKeywordAPISyncRun takes candidate r.
ClaimTx(w, r) ==
    LET s == rsrc[r] IN
    /\ \/ /\ Claimed(r) = r
          /\ rstat' = [rstat EXCEPT ![r] = "running"]
          /\ holder' = [holder EXCEPT ![r] = w] /\ lease' = [lease EXCEPT ![r] = "live"]
          /\ UNCHANGED <<rsrc, rrev, iter, past, nrun>>
       \/ Claimed(r) # r /\ InsertRun(s, "running", w, "live")
    /\ last' = [last EXCEPT ![s] = "running"]
    /\ UNCHANGED <<live, rev, applied, stale, synced>>

\* Mutant: the status of the run is not looked at.
HasLeaseOnceHeld(w) == run[w] # 0

\* validateKeywordAPISyncLease: status, owner and token, not the time.
HasLease(w) == rstat[run[w]] = "running" /\ holder[run[w]] = w

\* A run leaves "running": its iterations and lease are closed.
CloseRun(r, status, st) ==
    /\ rstat' = [rstat EXCEPT ![r] = status]
    /\ iter' = [iter EXCEPT ![r] = CloseIterations(@, st)]
    /\ holder' = [holder EXCEPT ![r] = NoWorker]
    /\ lease' = [lease EXCEPT ![r] = "none"]
    /\ UNCHANGED <<rsrc, rrev, past, nrun>>

SetIteration(w, st) ==
    /\ iter' = [iter EXCEPT ![run[w]][idx[w]] = st]
    /\ UNCHANGED <<srcVars, rstat, rsrc, rrev, holder, lease, nrun>>

\* The iteration at hand may be written: there is no row, or an open one.
IterationOpen(w) ==
    HasLease(w) /\ iter[run[w]][idx[w]] \in {"none", "queued", "running"}

\* The configuration of run r is unlimited.
Endless(r) == rrev[r] \in Unlimited

\* Every iteration of an unlimited run is a new row; what became of the one whose
\* place it takes in iter goes to past.
MayBegin(w) == IterationOpen(w) \/ (HasLease(w) /\ Endless(run[w]))

BeginTx(w) ==
    /\ MayBegin(w)
    /\ SetIteration(w, "running")
    /\ past' = [past EXCEPT ![run[w]] =
                  @ \cup ({iter[run[w]][idx[w]]} \cap {"success", "failed"})]

CompleteTx(w) ==
    /\ IterationOpen(w)
    /\ SetIteration(w, IF out[w] = "success" THEN "success" ELSE "failed")
    /\ UNCHANGED past

\* FinalizeKeywordAPISyncRun: keywords and source items are stored in the same
\* transaction.
FinalizeTx(w) ==
    LET r == run[w]
        s == rsrc[r]
        status == IF fail[w] > 0 THEN "partial" ELSE "success"
    IN
    /\ HasLease(w) /\ live[s]
    /\ CloseRun(r, status, "skipped")
    /\ last' = [last EXCEPT ![s] = status]
    /\ synced' = [synced EXCEPT ![s] = TRUE]
    /\ applied' = [applied EXCEPT ![s] = rrev[r]]
    /\ stale' = [stale EXCEPT ![s] = rev[s] # rrev[r]]
    /\ UNCHANGED <<live, rev>>

\* Fail, Interrupt and recovery leave their mark on the source.
SourceFailed(r) ==
    LET s == rsrc[r] IN
    /\ last' = [last EXCEPT ![s] = IF live[s] THEN "failed" ELSE @]
    /\ synced' = [synced EXCEPT ![s] = @ \/ live[s]]
    /\ stale' = [stale EXCEPT ![s] = @ \/ (live[s] /\ rev[s] # rrev[r])]
    /\ UNCHANGED <<live, rev, applied>>

\* FailKeywordAPISyncRun and InterruptKeywordAPISyncRun.
EndTx(w, status) ==
    /\ HasLease(w)
    /\ CloseRun(run[w], status, "interrupted")
    /\ SourceFailed(run[w])

\* Mutant: the source still looks as if the run were in progress.
RecoverRunOnly(r) ==
    /\ rstat[r] = "running" /\ lease[r] = "expired"
    /\ CloseRun(r, "interrupted", "interrupted")
    /\ UNCHANGED srcVars

\* Mutant: the comparison with the clock is the wrong way round.
RecoverLiveRun(r) ==
    /\ rstat[r] = "running" /\ lease[r] = "live"
    /\ CloseRun(r, "interrupted", "interrupted")
    /\ SourceFailed(r)

\* recoverExpiredKeywordAPISyncRun; the source is only touched while it says
\* that a run is in progress.
RecoverTx(r) ==
    /\ rstat[r] = "running" /\ lease[r] = "expired"
    /\ CloseRun(r, "interrupted", "interrupted")
    /\ \/ last[rsrc[r]] = "running" /\ SourceFailed(r)
       \/ last[rsrc[r]] # "running" /\ UNCHANGED srcVars

-----------------------------------------------------------------------------
(* The admin *)

\* UpdateKeywordAPISource with a change of the request configuration.
UpdateSource(s) ==
    /\ live[s] /\ rev[s] < MaxRev
    /\ rev' = [rev EXCEPT ![s] = @ + 1]
    /\ stale' = [stale EXCEPT ![s] = @ \/ synced[s] \/ applied[s] > 0]
    /\ UNCHANGED <<live, applied, synced, last, runVars, pc, workVars, closing, budget,
                   requests>>

\* DeleteKeywordAPISource: refused while a run is queued or running.
DeleteSource(s) ==
    /\ live[s] /\ InStatus(s, "queued") \cup InStatus(s, "running") = {}
    /\ live' = [live EXCEPT ![s] = FALSE]
    /\ UNCHANGED <<rev, applied, stale, synced, last, runVars, pc, workVars, closing,
                   budget, requests>>

\* TriggerNow, in any process whose service runs.
Trigger(s) ==
    /\ live[s] /\ \E w \in Workers : pc[w] # "down" /\ ~closing[w]
    /\ EnqueueTx(s)
    /\ UNCHANGED <<pc, workVars, closing, budget>>

-----------------------------------------------------------------------------
(* The worker *)

Disruption == budget > 0 /\ budget' = budget - 1
Calm       == budget' = budget

Goto(w, l) == pc' = [pc EXCEPT ![w] = l]

\* What the worker w knew of its run is gone; it goes on at l.
Forget(w, l) ==
    /\ Goto(w, l)
    /\ run' = [run EXCEPT ![w] = 0] /\ idx' = [idx EXCEPT ![w] = 0]
    /\ succ' = [succ EXCEPT ![w] = 0] /\ fail' = [fail EXCEPT ![w] = 0]
    /\ out' = [out EXCEPT ![w] = "none"] /\ lost' = [lost EXCEPT ![w] = FALSE]

\* executeTrackedRun returns, and runTrackedCycle claims the next run.
Return(w) == Forget(w, "claim")

\* Start of the service in a new process.
Start(w) ==
    /\ pc[w] = "down"
    /\ Goto(w, "recover")
    /\ UNCHANGED <<dbVars, workVars, closing, budget, requests>>

\* Close cancels the context; the loop ends once no run is at hand.
Close(w) ==
    /\ pc[w] # "down" /\ ~closing[w] /\ Disruption
    /\ closing' = [closing EXCEPT ![w] = TRUE]
    /\ UNCHANGED <<dbVars, pc, workVars, requests>>

Exit(w) ==
    /\ closing[w] /\ pc[w] \in {"recover", "enqueue", "claim"}
    /\ closing' = [closing EXCEPT ![w] = FALSE]
    /\ Goto(w, "down")
    /\ UNCHANGED <<dbVars, workVars, budget, requests>>

Crash(w) ==
    /\ pc[w] # "down" /\ Disruption
    /\ closing' = [closing EXCEPT ![w] = FALSE]
    /\ Forget(w, "down")
    /\ UNCHANGED <<dbVars, requests>>

\* RecoverExpiredKeywordAPISyncRuns, one run at a time, and then on.
Recover(w) ==
    /\ pc[w] = "recover" /\ ~closing[w]
    /\ \/ \E r \in Runs : RecoverTx(r) /\ Calm /\ UNCHANGED pc
       \/ /\ Calm /\ \A r \in Runs : lease[r] # "expired"
          /\ Goto(w, "enqueue") /\ UNCHANGED dbVars
       \/ /\ Disruption /\ Goto(w, "enqueue")
          /\ UNCHANGED dbVars \/ \E r \in Runs : RecoverTx(r)
    /\ UNCHANGED <<workVars, closing, requests>>

\* EnqueueDueKeywordAPISourceSync until no source is due.
EnqueueDue(w) ==
    /\ pc[w] = "enqueue" /\ ~closing[w]
    /\ \/ \E s \in Sources : live[s] /\ EnqueueTx(s) /\ Calm /\ UNCHANGED pc
       \/ Calm /\ Goto(w, "claim") /\ UNCHANGED <<dbVars, requests>>
       \/ /\ Disruption /\ Goto(w, "claim")
          /\ \/ UNCHANGED <<dbVars, requests>>
             \/ \E s \in Sources : live[s] /\ EnqueueTx(s)
    /\ UNCHANGED <<workVars, closing>>

\* ClaimNextKeywordAPISyncRun, and the validation of the claimed configuration;
\* a cycle that finds nothing or fails ends, and the next one begins.
ClaimNext(w) ==
    /\ pc[w] = "claim" /\ ~closing[w]
    /\ \/ \E r \in Runs :
            /\ Candidate(r) /\ ClaimTx(w, r)
            /\ \/ /\ Calm /\ (Goto(w, "next") \/ Goto(w, "fail"))
                  /\ run' = [run EXCEPT ![w] = Claimed(r)]
               \/ Disruption /\ Goto(w, "recover") /\ UNCHANGED run
       \/ /\ (Calm /\ ~ \E r \in Runs : Candidate(r)) \/ Disruption
          /\ Goto(w, "recover") /\ UNCHANGED <<dbVars, run>>
    /\ UNCHANGED <<idx, succ, fail, out, lost, closing, requests>>

\* runCtx is done.
Cancelled(w) == closing[w] \/ lost[w]

\* The place in iter of the iteration that follows.
NextIndex(w) == IF Endless(run[w]) THEN 1 ELSE idx[w] + 1

\* The head of the loop (iterationAllowsIndex), and what follows it: "last" when
\* the no-keyword limit has ended it.
LoopHead(w) ==
    /\ pc[w] \in {"next", "last"}
    /\ LET more == pc[w] = "next" /\ (Endless(run[w]) \/ idx[w] < Iterations) IN
       /\ Goto(w, IF Cancelled(w) THEN "interrupt"
                  ELSE IF more THEN "begin"
                  ELSE IF succ[w] = 0 THEN "fail" ELSE "finalize")
       /\ idx' = [idx EXCEPT ![w] = IF more /\ ~Cancelled(w) THEN NextIndex(w) ELSE @]
    /\ UNCHANGED <<dbVars, run, succ, fail, out, lost, closing, budget, requests>>

\* BeginKeywordAPISyncIteration; after an error the run is left as it is.
Begin(w) ==
    /\ pc[w] = "begin"
    /\ \/ Calm /\ BeginTx(w) /\ Goto(w, "request") /\ UNCHANGED workVars
       \/ Calm /\ ~MayBegin(w) /\ Return(w) /\ UNCHANGED dbVars
       \/ Disruption /\ (BeginTx(w) \/ UNCHANGED dbVars) /\ Return(w)
    /\ UNCHANGED <<closing, requests>>

\* The request and the extraction: success or failure.  A request that fails
\* with runCtx done is recorded and ends the run; so does a strict stop check
\* that cannot read the keyword table.
Request(w) ==
    /\ pc[w] = "request"
    /\ \E o \in {"success", "failed", "strict", "aborted"} :
         /\ o = "aborted" => Cancelled(w)
         /\ IF o = "strict" /\ ~Cancelled(w) THEN Disruption ELSE Calm
         /\ out' = [out EXCEPT ![w] = o]
    /\ Goto(w, "complete")
    /\ UNCHANGED <<dbVars, run, idx, succ, fail, lost, closing, requests>>

\* After CompleteKeywordAPISyncIteration without an error.
Completed(w) ==
    /\ succ' = [succ EXCEPT ![w] = IF out[w] = "success" THEN 1 ELSE @]
    /\ fail' = [fail EXCEPT ![w] = IF out[w] # "success" THEN 1 ELSE @]
    /\ out' = [out EXCEPT ![w] = "none"]
    /\ \/ out[w] \in {"success", "failed"} /\ (Goto(w, "next") \/ Goto(w, "last"))
       \/ out[w] = "strict" /\ Goto(w, "fail")
    /\ UNCHANGED <<run, idx, lost>>

\* Mutant: the run goes on although its iteration could not be written.
CompleteUnchecked(w) ==
    /\ pc[w] = "complete"
    /\ \/ Calm /\ CompleteTx(w)
       \/ Calm /\ ~IterationOpen(w) /\ UNCHANGED dbVars
       \/ Disruption /\ (CompleteTx(w) \/ UNCHANGED dbVars)
    /\ \/ out[w] # "aborted" /\ Completed(w)
       \/ out[w] = "aborted" /\ Goto(w, "interrupt") /\ UNCHANGED workVars
    /\ UNCHANGED <<closing, requests>>

Complete(w) ==
    /\ pc[w] = "complete"
    /\ \/ /\ Calm /\ CompleteTx(w)
          /\ \/ out[w] # "aborted" /\ Completed(w)
             \/ out[w] = "aborted" /\ Goto(w, "interrupt") /\ UNCHANGED workVars
       \/ /\ \/ Calm /\ ~IterationOpen(w) /\ UNCHANGED dbVars
             \/ Disruption /\ (CompleteTx(w) \/ UNCHANGED dbVars)
          /\ \/ out[w] # "aborted" /\ Return(w)
             \/ out[w] = "aborted" /\ Goto(w, "interrupt") /\ UNCHANGED workVars
    /\ UNCHANGED <<closing, requests>>

\* FinalizeKeywordAPISyncRun; an error is followed by FailKeywordAPISyncRun.
Finalize(w) ==
    /\ pc[w] = "finalize"
    /\ \/ Calm /\ FinalizeTx(w) /\ Return(w)
       \/ /\ \/ Calm /\ ~(HasLease(w) /\ live[rsrc[run[w]]]) /\ UNCHANGED dbVars
             \/ Disruption /\ (FinalizeTx(w) \/ UNCHANGED dbVars)
          /\ Goto(w, "fail") /\ UNCHANGED workVars
    /\ UNCHANGED <<closing, requests>>

\* failTrackedRun and interruptTrackedRun: an error is only reported.
EndRun(w) ==
    /\ pc[w] \in {"fail", "interrupt"}
    /\ \/ /\ EndTx(w, IF pc[w] = "fail" THEN "failed" ELSE "interrupted")
          /\ Calm \/ Disruption
       \/ Calm /\ ~HasLease(w) /\ UNCHANGED dbVars
       \/ Disruption /\ UNCHANGED dbVars
    /\ Return(w)
    /\ UNCHANGED <<closing, requests>>

\* Somebody executes run r.
Attended(r) == \E w \in Workers : run[w] = r

\* Time passes the lease: its worker is gone, or its heartbeats are late.
LeaseExpires(r) ==
    /\ lease[r] = "live"
    /\ IF Attended(r) THEN Disruption ELSE Calm
    /\ lease' = [lease EXCEPT ![r] = "expired"]
    /\ UNCHANGED <<srcVars, rstat, rsrc, rrev, holder, iter, past, nrun, pc, workVars,
                   closing, requests>>

\* renewTrackedLease: a renewal that is refused or fails cancels runCtx.
HeartbeatFails(w) ==
    /\ run[w] # 0 /\ ~lost[w]
    /\ \/ Calm /\ ~(HasLease(w) /\ lease[run[w]] = "live")
       \/ Disruption
    /\ lost' = [lost EXCEPT ![w] = TRUE]
    /\ UNCHANGED <<dbVars, pc, run, idx, succ, fail, out, closing, requests>>

-----------------------------------------------------------------------------
WorkerStep(w) ==
    \/ Exit(w) \/ Recover(w) \/ EnqueueDue(w) \/ ClaimNext(w)
    \/ LoopHead(w) \/ Begin(w) \/ Request(w) \/ Complete(w) \/ Finalize(w) \/ EndRun(w)

Next ==
    \/ \E s \in Sources : UpdateSource(s) \/ DeleteSource(s) \/ Trigger(s)
    \/ \E w \in Workers :
         WorkerStep(w) \/ Start(w) \/ Close(w) \/ Crash(w) \/ HeartbeatFails(w)
    \/ \E r \in Runs : LeaseExpires(r)

Spec == Init /\ [][Next]_vars

\* Goroutines are scheduled and calls return, a process that is down is started
\* again, and the lease of a run that nobody executes runs out.
Fairness ==
    /\ \A w \in Workers : WF_vars(WorkerStep(w) \/ Start(w))
    /\ WF_vars(\E r \in Runs : ~Attended(r) /\ LeaseExpires(r))

FairSpec == Spec /\ Fairness

-----------------------------------------------------------------------------
(* Properties *)

Phase(st) == CASE st = "none" -> "absent"
               [] st \in {"queued", "running"} -> st
               [] st \in {"success", "partial"} -> "applied"
               [] OTHER -> "dropped"

SyncRuns == INSTANCE SyncJobs
    WITH Jobs <- Runs, phase <- [r \in Runs |-> Phase(rstat[r])], of <- rsrc

\* The workers and their leases implement SyncJobs: whatever fails, a source has
\* one run queued and one running at most, a run's result is applied at most
\* once and never after that of a newer run.
ImplementsSyncJobs == SyncRuns!Spec

\* What the admin sees of a source agrees with its runs: it is "running" exactly
\* while a run is, an active run still has its source, and a source's result is
\* marked stale whenever it was made with another configuration.
SourceInSync ==
    \A s \in Sources :
      /\ last[s] = "running" <=> InStatus(s, "running") # {}
      /\ InStatus(s, "queued") \cup InStatus(s, "running") # {} => live[s]
      /\ applied[s] \notin {0, rev[s]} => stale[s]

\* The outcome of a run is that of its iterations: no iteration is open once the
\* run has ended, a success has no failed iteration and a partial result has
\* both kinds.
OutcomeOfIterations ==
    \A r \in Runs :
      LET Some(st) == st \in past[r] \/ \E i \in Steps : iter[r][i] = st IN
      /\ rstat[r] \in Terminal => ~Some("queued") /\ ~Some("running")
      /\ rstat[r] = "success" => Some("success") /\ ~Some("failed")
      /\ rstat[r] = "partial" => Some("success") /\ Some("failed")

\* A run is executed with the configuration that the source had when the run was
\* claimed: no queued request is answered with the result of an older one.
ClaimIsCurrent ==
    [][\A r \in Runs : rstat[r] # "running" /\ rstat'[r] = "running"
                        => rrev'[r] = rev[rsrc'[r]]]_vars

\* Once requests and disruptions end, so does every run, whichever call failed
\* and whenever a process died: no lease keeps its source waiting for ever.  The
\* exception is a worker that goes on asking the API of an unlimited source,
\* whose answers never let the no-keyword limit end the loop.
EveryRunEnds ==
    \/ []<>(\A r \in Runs : rstat[r] \notin {"queued", "running"})
    \/ \E w \in Workers :
         <>[](run[w] # 0 /\ Endless(run[w])) /\ []<>(pc[w] = "request")
=============================================================================
