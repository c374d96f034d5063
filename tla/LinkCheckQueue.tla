--------------------------- MODULE LinkCheckQueue ---------------------------
(***************************************************************************)
(* The asynchronous link-check queue of collection/linkcheck.go.           *)
(*                                                                         *)
(* Candidates enter through Enqueue, called by the queue's own dispatcher  *)
(* (which polls the database for due resources) and by the collection      *)
(* runner.  Workers claim them platform by platform, subject to a          *)
(* per-platform limit and a per-platform circuit breaker, run the checker, *)
(* and hand the completion to one writer goroutine over a bounded channel; *)
(* the writer persists completions in batches.  The queue can be stopped   *)
(* and started again.                                                      *)
(*                                                                         *)
(* Granularity: one action per region under q.mu, per channel operation    *)
(* and per repository call.  signalWake runs after q.mu is released, so it *)
(* is a step of its own: an actor in `owes' has unlocked q.mu and has not  *)
(* signalled yet.                                                          *)
(*                                                                         *)
(* Time: circuitUntil is kept as what claimNext can tell of it: zero       *)
(* ("closed"), after now ("open"), or passed ("elapsed").  A probe timer   *)
(* may fire at any moment after it is armed.                               *)
(***************************************************************************)
EXTENDS Integers, Sequences, FiniteSets

CONSTANTS
    Resources,       \* resource ids
    Ingested,        \* the resources the collection runner hands over
    DueResources,    \* the resources a due-check query can return
    Platforms,       \* normalized platform names
    PlatformOf,      \* the platform of each resource
    Workers,         \* worker goroutines
    Buffer,          \* config.Buffer
    PlatformLimit,   \* config.PlatformLimit
    CircuitFailures, \* config.CircuitFailures
    WriteBatchSize,  \* config.WriteBatchSize
    NoJob            \* no resource

ASSUME QueueAssumption ==
    /\ PlatformOf \in [Resources -> Platforms]
    /\ Ingested \subseteq Resources /\ DueResources \subseteq Resources
    /\ Buffer \in Nat \ {0}
    /\ PlatformLimit \in Nat \ {0}
    /\ CircuitFailures \in Nat \ {0}
    /\ WriteBatchSize \in Nat \ {0}
    /\ NoJob \notin Resources
    /\ IsFiniteSet(Workers) /\ Workers # {}
    /\ IsFiniteSet(Resources)
    /\ \A a \in {"dispatcher", "runner", "writer"} : a \notin Workers

Actors   == Workers \cup {"dispatcher", "runner", "writer"}
Circuits == {"closed", "open", "elapsed"}
Outcomes == {"ok", "fail", "cancel"}

\* linkCheckCompletion: `skip' is skipPersistence.
Completions == [res : Resources, skip : BOOLEAN]

VARIABLES
    started,     \* q.started
    stopping,    \* q.stopping: finishStop is waiting for the goroutines
    cancelled,   \* the context of the current generation is done
    queued,      \* q.queued
    pending,     \* q.pending, one FIFO per platform
    order,       \* q.platformOrder
    cursor,      \* q.platformCursor, 0-based as in the code
    inUse,       \* q.platformStates[p].inUse
    failStreak,  \* q.platformStates[p].failStreak, saturated at CircuitFailures
    circuit,     \* q.platformStates[p].circuitUntil
    halfOpen,    \* q.platformStates[p].halfOpen
    active,      \* q.active
    wake,        \* the one-slot q.wake channel holds a token
    owes,        \* actors between q.mu.Unlock() and signalWake()
    pc,          \* where each worker is
    job,         \* the candidate each worker holds
    skip,        \* skipPersistence of the completion each worker holds
    timer,       \* the worker sleeps with a probe timer
    results,     \* the q.results channel
    wpc,         \* where the writer is
    wbuf,        \* the writer's local `pending' slice
    spc,         \* where the dispatcher is
    list         \* candidates dispatch has fetched and not enqueued yet

lifecycle == <<started, stopping, cancelled>>
platVars  == <<inUse, failStreak, circuit, halfOpen>>
waitVars  == <<queued, pending, order>>
workVars  == <<pc, job, skip, timer>>
writeVars == <<wpc, wbuf>>
dispVars  == <<spc, list>>
vars == <<lifecycle, waitVars, cursor, platVars, active, wake, owes, workVars,
          results, writeVars, dispVars>>

TypeOK ==
    /\ started \in BOOLEAN /\ stopping \in BOOLEAN /\ cancelled \in BOOLEAN
    /\ queued \subseteq Resources
    /\ pending \in [Platforms -> Seq(Resources)]
    /\ order \in Seq(Platforms)
    /\ cursor \in Nat
    /\ inUse \in [Platforms -> Nat]
    /\ failStreak \in [Platforms -> 0..CircuitFailures]
    /\ circuit \in [Platforms -> Circuits]
    /\ halfOpen \in [Platforms -> BOOLEAN]
    /\ active \in Nat
    /\ wake \in BOOLEAN
    /\ owes \subseteq Actors
    /\ pc \in [Workers -> {"scan", "sleep", "check", "send", "done"}]
    /\ job \in [Workers -> Resources \cup {NoJob}]
    /\ skip \in [Workers -> BOOLEAN]
    /\ timer \in [Workers -> BOOLEAN]
    /\ results \in Seq(Completions)
    /\ wpc \in {"loop", "finalize", "done"}
    /\ wbuf \subseteq Resources
    /\ spc \in {"idle", "enqueue", "done"}
    /\ list \subseteq DueResources

Init ==
    /\ started = FALSE /\ stopping = FALSE /\ cancelled = FALSE
    /\ queued = {}
    /\ pending = [p \in Platforms |-> <<>>]
    /\ order = <<>>
    /\ cursor = 0
    /\ inUse = [p \in Platforms |-> 0]
    /\ failStreak = [p \in Platforms |-> 0]
    /\ circuit = [p \in Platforms |-> "closed"]
    /\ halfOpen = [p \in Platforms |-> FALSE]
    /\ active = 0
    /\ wake = FALSE
    /\ owes = {}
    /\ pc = [w \in Workers |-> "done"]
    /\ job = [w \in Workers |-> NoJob]
    /\ skip = [w \in Workers |-> FALSE]
    /\ timer = [w \in Workers |-> FALSE]
    /\ results = <<>>
    /\ wpc = "done" /\ wbuf = {}
    /\ spc = "done" /\ list = {}

-----------------------------------------------------------------------------
(* Lifecycle *)

\* Start: every in-memory map is made anew; the wake token of an earlier
\* generation may still be in its channel, and Start adds one.
Start ==
    /\ ~started /\ ~stopping
    /\ started' = TRUE /\ cancelled' = FALSE /\ stopping' = stopping
    /\ queued' = {}
    /\ pending' = [p \in Platforms |-> <<>>]
    /\ order' = <<>> /\ cursor' = 0
    /\ inUse' = [p \in Platforms |-> 0]
    /\ failStreak' = [p \in Platforms |-> 0]
    /\ circuit' = [p \in Platforms |-> "closed"]
    /\ halfOpen' = [p \in Platforms |-> FALSE]
    /\ active' = 0
    /\ pc' = [w \in Workers |-> "scan"]
    /\ wpc' = "loop"
    /\ spc' = "idle" /\ list' = {}
    /\ wake' = TRUE
    /\ UNCHANGED <<owes, job, skip, timer, results, wbuf>>

\* The parent context ends first (Runner.Stop cancels it, then calls Stop).
ParentCancel ==
    /\ started /\ ~cancelled
    /\ cancelled' = TRUE
    /\ UNCHANGED <<started, stopping, waitVars, cursor, platVars, active, wake,
                   owes, workVars, results, writeVars, dispVars>>

\* Mutation of Stop: the context of the generation is not cancelled.
StopWithoutCancel ==
    /\ started
    /\ started' = FALSE /\ stopping' = TRUE
    /\ UNCHANGED <<cancelled, waitVars, cursor, platVars, active, wake, owes,
                   workVars, results, writeVars, dispVars>>

\* Stop: the first caller cancels and starts finishStop; later callers wait.
Stop ==
    /\ started
    /\ started' = FALSE /\ stopping' = TRUE /\ cancelled' = TRUE
    /\ UNCHANGED <<waitVars, cursor, platVars, active, wake, owes, workVars,
                   results, writeVars, dispVars>>

\* q.wg has no member left.
GoroutinesGone ==
    /\ \A w \in Workers : pc[w] = "done"
    /\ wpc = "done" /\ spc = "done"
    /\ owes \subseteq {"runner"}

FinishStop ==
    /\ stopping /\ GoroutinesGone
    /\ stopping' = FALSE
    /\ UNCHANGED <<started, cancelled, waitVars, cursor, platVars, active, wake,
                   owes, workVars, results, writeVars, dispVars>>

-----------------------------------------------------------------------------
(* Waking workers *)

\* signalWake: put a token in the channel unless one is there.
SignalWake(a) ==
    /\ a \in owes
    /\ wake' = TRUE
    /\ owes' = owes \ {a}
    /\ UNCHANGED <<lifecycle, waitVars, cursor, platVars, active, workVars,
                   results, writeVars, dispVars>>

-----------------------------------------------------------------------------
(* Enqueue *)

Full == Cardinality(queued) - active >= Buffer

\* Mutation of Accept: the duplicate test is forgotten.
AcceptDuplicates(a, r) ==
    LET p == PlatformOf[r] IN
    /\ started /\ ~Full
    /\ queued' = queued \cup {r}
    /\ pending' = [pending EXCEPT ![p] = Append(@, r)]
    /\ order' = IF \E i \in 1..Len(order) : order[i] = p
                THEN order ELSE Append(order, p)
    /\ owes' = owes \cup {a}

\* Mutation of Accept: the candidate goes before those that wait.
AcceptFirst(a, r) ==
    LET p == PlatformOf[r] IN
    /\ started /\ r \notin queued /\ ~Full
    /\ queued' = queued \cup {r}
    /\ pending' = [pending EXCEPT ![p] = <<r>> \o @]
    /\ order' = IF \E i \in 1..Len(order) : order[i] = p
                THEN order ELSE Append(order, p)
    /\ owes' = owes \cup {a}

\* The region of Enqueue under q.mu that accepts candidate r for actor a.
Accept(a, r) ==
    LET p == PlatformOf[r] IN
    /\ started /\ r \notin queued /\ ~Full
    /\ queued' = queued \cup {r}
    /\ pending' = [pending EXCEPT ![p] = Append(@, r)]
    /\ order' = IF \E i \in 1..Len(order) : order[i] = p
                THEN order ELSE Append(order, p)
    /\ owes' = owes \cup {a}

\* The runner enqueues a candidate it has just ingested (a refusal changes
\* nothing here).
RunnerEnqueue(r) ==
    /\ "runner" \notin owes
    /\ Accept("runner", r)
    /\ UNCHANGED <<lifecycle, cursor, platVars, active, wake, workVars, results,
                   writeVars, dispVars>>

\* dispatch, at once after Start and then at every tick: the database returns
\* the resources that are due, whichever they are.  A failed query, or one that
\* returns nothing, changes nothing.
DispatchFetch ==
    /\ spc = "idle" /\ ~cancelled
    /\ spc' = "enqueue" /\ list' \in (SUBSET DueResources) \ {{}}
    /\ UNCHANGED <<lifecycle, waitVars, cursor, platVars, active, wake, owes,
                   workVars, results, writeVars>>

\* dispatch enqueues the fetched candidates one by one, gives up on a full or
\* stopped queue, and passes over one that is queued already.
DispatchEnqueue(r) ==
    /\ spc = "enqueue" /\ "dispatcher" \notin owes
    /\ r \in list
    /\ \/ /\ Accept("dispatcher", r)
          /\ list' = list \ {r} /\ spc' = spc
       \/ /\ started /\ r \in queued
          /\ list' = list \ {r} /\ spc' = spc
          /\ UNCHANGED <<waitVars, owes>>
       \/ /\ ~started \/ (r \notin queued /\ Full)
          /\ list' = {} /\ spc' = "idle"
          /\ UNCHANGED <<waitVars, owes>>
    /\ UNCHANGED <<lifecycle, cursor, platVars, active, wake, workVars, results,
                   writeVars>>

DispatchEnd ==
    /\ spc = "enqueue" /\ list = {} /\ "dispatcher" \notin owes
    /\ spc' = "idle"
    /\ UNCHANGED <<lifecycle, waitVars, cursor, platVars, active, wake, owes,
                   workVars, results, writeVars, list>>

DispatchExit ==
    /\ spc = "idle" /\ cancelled
    /\ spc' = "done"
    /\ UNCHANGED <<lifecycle, waitVars, cursor, platVars, active, wake, owes,
                   workVars, results, writeVars, list>>

-----------------------------------------------------------------------------
(* Workers *)

\* Mutation of Claimable: the probe does not wait for the checks in flight.
ClaimableEarlyProbe(p) ==
    /\ pending[p] # <<>>
    /\ \/ circuit[p] = "elapsed" /\ ~halfOpen[p]
       \/ circuit[p] = "closed" /\ inUse[p] < PlatformLimit

\* claimNext may take the head of platform p.
Claimable(p) ==
    /\ pending[p] # <<>>
    /\ \/ circuit[p] = "elapsed" /\ ~halfOpen[p] /\ inUse[p] = 0
       \/ circuit[p] = "closed" /\ inUse[p] < PlatformLimit

\* The index into order that claimNext looks at with a given offset.
ScanIndex(offset) == ((cursor + offset) % Len(order)) + 1

\* The first claimable platform at or after the cursor, as an offset.
FirstClaimable(offset) ==
    /\ offset \in 0..(Len(order) - 1)
    /\ Claimable(order[ScanIndex(offset)])
    /\ \A o \in 0..(offset - 1) : ~Claimable(order[ScanIndex(o)])

Claim(w) ==
    /\ pc[w] = "scan"
    /\ \E offset \in 0..(Len(order) - 1) :
         LET p == order[ScanIndex(offset)] IN
         /\ FirstClaimable(offset)
         /\ job' = [job EXCEPT ![w] = Head(pending[p])]
         /\ pending' = [pending EXCEPT ![p] = Tail(@)]
         /\ inUse' = [inUse EXCEPT ![p] = @ + 1]
         /\ halfOpen' = [halfOpen EXCEPT ![p] = circuit[p] = "elapsed"]
         /\ cursor' = ScanIndex(offset) % Len(order)
    /\ active' = active + 1
    /\ pc' = [pc EXCEPT ![w] = "check"]
    /\ owes' = owes \cup {w}
    /\ UNCHANGED <<lifecycle, queued, order, failStreak, circuit, wake, skip,
                   timer, results, writeVars, dispVars>>

\* Mutation of Sleep: no timer for the next probe.
SleepWithoutTimer(w) ==
    /\ pc[w] = "scan"
    /\ \A i \in 1..Len(order) : ~Claimable(order[i])
    /\ pc' = [pc EXCEPT ![w] = "sleep"]
    /\ UNCHANGED <<lifecycle, waitVars, cursor, platVars, active, wake, owes,
                   job, skip, timer, results, writeVars, dispVars>>

\* Nothing to claim: wait in the select, with a timer when some platform with
\* work has its circuit open.
Sleep(w) ==
    /\ pc[w] = "scan"
    /\ \A i \in 1..Len(order) : ~Claimable(order[i])
    /\ pc' = [pc EXCEPT ![w] = "sleep"]
    /\ timer' = [timer EXCEPT ![w] = \E i \in 1..Len(order) :
                    pending[order[i]] # <<>> /\ circuit[order[i]] = "open"]
    /\ UNCHANGED <<lifecycle, waitVars, cursor, platVars, active, wake, owes,
                   job, skip, results, writeVars, dispVars>>

WakeUp(w) ==
    /\ pc[w] = "sleep"
    /\ \/ wake /\ wake' = FALSE
       \/ timer[w] /\ wake' = wake
    /\ pc' = [pc EXCEPT ![w] = "scan"]
    /\ timer' = [timer EXCEPT ![w] = FALSE]
    /\ UNCHANGED <<lifecycle, waitVars, cursor, platVars, active, owes, job, skip,
                   results, writeVars, dispVars>>

WorkerExit(w) ==
    /\ pc[w] = "sleep" /\ cancelled
    /\ pc' = [pc EXCEPT ![w] = "done"]
    /\ timer' = [timer EXCEPT ![w] = FALSE]
    /\ UNCHANGED <<lifecycle, waitVars, cursor, platVars, active, wake, owes,
                   job, skip, results, writeVars, dispVars>>

\* releasePlatform's update of the circuit breaker of platform p.
RecordOutcome(p, failed) ==
    IF failed
    THEN LET streak == IF failStreak[p] < CircuitFailures
                       THEN failStreak[p] + 1 ELSE failStreak[p]
             opens  == halfOpen[p] \/ streak >= CircuitFailures
         IN /\ failStreak' = [failStreak EXCEPT ![p] = streak]
            /\ circuit' = [circuit EXCEPT ![p] = IF opens THEN "open" ELSE @]
            /\ halfOpen' = [halfOpen EXCEPT ![p] = FALSE]
    ELSE /\ failStreak' = [failStreak EXCEPT ![p] = 0]
         /\ circuit' = [circuit EXCEPT ![p] = "closed"]
         /\ halfOpen' = [halfOpen EXCEPT ![p] = FALSE]

\* Mutation of FinishCheck: a cancelled check is released without q.active--.
FinishCheckLeaky(w) ==
    /\ pc[w] = "check" /\ w \notin owes
    /\ \E outcome \in Outcomes :
         /\ skip' = [skip EXCEPT ![w] = outcome = "cancel" /\ cancelled]
         /\ RecordOutcome(PlatformOf[job[w]], outcome = "fail")
         /\ active' = IF outcome = "cancel" THEN active ELSE active - 1
    /\ inUse' = [inUse EXCEPT ![PlatformOf[job[w]]] = IF @ > 0 THEN @ - 1 ELSE @]
    /\ pc' = [pc EXCEPT ![w] = "send"]
    /\ owes' = owes \cup {w}
    /\ UNCHANGED <<lifecycle, waitVars, cursor, wake, job, timer, results,
                   writeVars, dispVars>>

\* checkCandidate returns and releasePlatform runs.  The outcome is "cancel"
\* when the checker reports context.Canceled, which is no circuit failure and
\* is not persisted once the queue's own context is done.
FinishCheck(w) ==
    /\ pc[w] = "check" /\ w \notin owes
    /\ \E outcome \in Outcomes :
         /\ skip' = [skip EXCEPT ![w] = outcome = "cancel" /\ cancelled]
         /\ RecordOutcome(PlatformOf[job[w]], outcome = "fail")
    /\ inUse' = [inUse EXCEPT ![PlatformOf[job[w]]] = IF @ > 0 THEN @ - 1 ELSE @]
    /\ active' = IF active > 0 THEN active - 1 ELSE active
    /\ pc' = [pc EXCEPT ![w] = "send"]
    /\ owes' = owes \cup {w}
    /\ UNCHANGED <<lifecycle, waitVars, cursor, wake, job, timer, results,
                   writeVars, dispVars>>

\* The capacity of q.results.
ResultsCap == Buffer + Cardinality(Workers)

Send(w) ==
    /\ pc[w] = "send" /\ w \notin owes
    /\ Len(results) < ResultsCap
    /\ results' = Append(results, [res |-> job[w], skip |-> skip[w]])
    /\ job' = [job EXCEPT ![w] = NoJob]
    /\ skip' = [skip EXCEPT ![w] = FALSE]
    /\ pc' = [pc EXCEPT ![w] = "scan"]
    /\ UNCHANGED <<lifecycle, waitVars, cursor, platVars, active, wake, owes,
                   timer, writeVars, dispVars>>

\* Time passes circuitUntil.
CooldownElapses(p) ==
    /\ circuit[p] = "open"
    /\ circuit' = [circuit EXCEPT ![p] = "elapsed"]
    /\ UNCHANGED <<lifecycle, waitVars, cursor, inUse, failStreak, halfOpen,
                   active, wake, owes, workVars, results, writeVars, dispVars>>

-----------------------------------------------------------------------------
(* Writer *)

WorkersDone == \A w \in Workers : pc[w] = "done"

\* A completion leaves the channel: discarded, or buffered and, when the batch
\* is full, flushed (the drain after workersDone does not look at the size).
Receive ==
    /\ wpc = "loop" /\ "writer" \notin owes
    /\ results # <<>>
    /\ results' = Tail(results)
    /\ LET c == Head(results) IN
       \/ /\ c.skip
          /\ queued' = queued \ {c.res}
          /\ owes' = owes \cup {"writer"}
          /\ UNCHANGED writeVars
       \/ /\ ~c.skip
          /\ wbuf' = wbuf \cup {c.res}
          /\ \/ Cardinality(wbuf') >= WriteBatchSize /\ wpc' = "finalize"
             \/ (Cardinality(wbuf') < WriteBatchSize \/ WorkersDone) /\ wpc' = "loop"
          /\ UNCHANGED <<queued, owes>>
    /\ UNCHANGED <<lifecycle, pending, order, cursor, platVars, active, wake,
                   workVars, dispVars>>

\* The flush ticker, or the final flush once the workers are gone:
\* persistCompletions' transaction, which succeeds or fails as a whole.
Flush ==
    /\ wpc = "loop" /\ "writer" \notin owes
    /\ wbuf # {}
    /\ wpc' = "finalize"
    /\ UNCHANGED <<lifecycle, waitVars, cursor, platVars, active, wake, owes,
                   workVars, results, wbuf, dispVars>>

\* finalizeCompletion: whether or not the write succeeded, the resource leaves
\* q.queued.
Finalize(r) ==
    /\ wpc = "finalize" /\ "writer" \notin owes
    /\ r \in wbuf
    /\ queued' = queued \ {r}
    /\ wbuf' = wbuf \ {r}
    /\ wpc' = IF wbuf = {r} THEN "loop" ELSE "finalize"
    /\ owes' = owes \cup {"writer"}
    /\ UNCHANGED <<lifecycle, pending, order, cursor, platVars, active, wake,
                   workVars, results, dispVars>>

\* Mutation of WriterExit: the channel is not drained before the last flush.
WriterExitEarly ==
    /\ wpc = "loop" /\ "writer" \notin owes
    /\ WorkersDone /\ wbuf = {}
    /\ wpc' = "done"
    /\ UNCHANGED <<lifecycle, waitVars, cursor, platVars, active, wake, owes,
                   workVars, results, wbuf, dispVars>>

WriterExit ==
    /\ wpc = "loop" /\ "writer" \notin owes
    /\ WorkersDone /\ results = <<>> /\ wbuf = {}
    /\ wpc' = "done"
    /\ UNCHANGED <<lifecycle, waitVars, cursor, platVars, active, wake, owes,
                   workVars, results, wbuf, dispVars>>

-----------------------------------------------------------------------------
WorkerStep(w) ==
    Claim(w) \/ Sleep(w) \/ WakeUp(w) \/ WorkerExit(w) \/ FinishCheck(w) \/ Send(w)

WriterStep ==
    Receive \/ Flush \/ (\E r \in Resources : Finalize(r)) \/ WriterExit

DispatcherStep ==
    \/ DispatchFetch
    \/ \E r \in DueResources : DispatchEnqueue(r)
    \/ DispatchEnd
    \/ DispatchExit

Next ==
    \/ Start \/ ParentCancel \/ Stop \/ FinishStop
    \/ \E a \in Actors : SignalWake(a)
    \/ \E r \in Ingested : RunnerEnqueue(r)
    \/ DispatcherStep
    \/ \E w \in Workers : WorkerStep(w)
    \/ \E p \in Platforms : CooldownElapses(p)
    \/ WriterStep

Spec == Init /\ [][Next]_vars

-----------------------------------------------------------------------------
(* Properties *)

Waiting    == {r \in Resources : \E p \in Platforms :
                  \E i \in 1..Len(pending[p]) : pending[p][i] = r}
Held       == {job[w] : w \in Workers} \ {NoJob}
Completed  == {results[i].res : i \in 1..Len(results)}
Checking   == {w \in Workers : pc[w] = "check"}
CheckingOn(p) == {w \in Checking : PlatformOf[job[w]] = p}

\* "suppresses duplicate jobs for the same resource while one is queued or
\* running": no resource is in two of the places a candidate can be in, nor
\* twice in one of them.
NoDuplicateJob ==
    /\ \A w1, w2 \in Workers : w1 # w2 /\ job[w1] # NoJob => job[w1] # job[w2]
    /\ \A i, j \in 1..Len(results) : results[i].res = results[j].res => i = j
    /\ Held \cap (Waiting \cup Completed \cup wbuf) = {}
    /\ Completed \cap (Waiting \cup wbuf) = {}
    /\ Waiting \cap wbuf = {}
    /\ \A p, q \in Platforms :
         \A i \in 1..Len(pending[p]), j \in 1..Len(pending[q]) :
           pending[p][i] = pending[q][j] => p = q /\ i = j

\* The counters that Full, Snapshot and the platform limit read agree with what
\* the workers do.
CountersExact ==
    /\ active = Cardinality(Checking)
    /\ \A p \in Platforms : inUse[p] = Cardinality(CheckingOn(p))

\* A platform's limit holds, and after a cooldown exactly one check probes the
\* platform: the half-open mark is set only while its one probe is running.
SingleProbe ==
    \A p \in Platforms :
      /\ Cardinality(CheckingOn(p)) <= PlatformLimit
      /\ halfOpen[p] => circuit[p] = "elapsed" /\ Cardinality(CheckingOn(p)) = 1

\* When Stop has returned, every completion a worker produced was persisted or
\* discarded: nothing of one generation is left for the next.
StoppedIsDrained == ~started /\ ~stopping => results = <<>> /\ wbuf = {}

\* The candidates a worker holds: in the checker, or with a result that is not sent.
BeingChecked == {job[w] : w \in Checking}
Unsent       == {job[w] : w \in {v \in Workers : pc[v] = "send"}}

CheckJobsOf == INSTANCE CheckJobs
    WITH line <- pending, running <- BeingChecked,
         checked <- Unsent \cup Completed \cup wbuf,
         tripped <- {p \in Platforms : circuit[p] # "closed"}

\* Workers, counters, the breaker and the writer implement CheckJobs: a candidate is
\* checked once and settled once, in the order of its platform, within the buffer and
\* the platform's limit, and across every Stop and Start.
ImplementsCheckJobs == CheckJobsOf!Spec

\* Goroutines are scheduled, the checker returns (it runs under a timeout),
\* cooldowns and probe timers end, and repository calls return.  A select that
\* finds ctx.Done() ready again and again takes it in the end.
Fairness ==
    /\ \A w \in Workers : /\ WF_vars(SignalWake(w) \/ WorkerStep(w))
                          /\ SF_vars(WorkerExit(w))
    /\ \A p \in Platforms : WF_vars(CooldownElapses(p))
    /\ WF_vars(SignalWake("writer") \/ WriterStep)
    /\ WF_vars(SignalWake("dispatcher") \/ DispatcherStep)
    /\ WF_vars(SignalWake("runner"))
    /\ WF_vars(FinishStop)

FairSpec == Spec /\ Fairness

\* An accepted candidate is dealt with: no wake-up is lost, whichever worker
\* takes the token, whatever platforms are cooling down.
QueuedIsFinalized ==
    \A r \in Resources : r \in queued ~> (r \notin queued \/ cancelled)

\* A Stop whose caller is patient returns.
StopCompletes == stopping ~> ~stopping
=============================================================================
