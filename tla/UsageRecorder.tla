----------------------------- MODULE UsageRecorder -----------------------------
(***************************************************************************)
(* The recorder of API usage (usage/recorder.go): requests hand it events  *)
(* without blocking, a worker collects them from a bounded queue and       *)
(* writes them in batches, and Close or the end of the application context *)
(* drains what is left.  Events are counted, not told apart.               *)
(***************************************************************************)
EXTENDS Integers

CONSTANTS
    QueueSize,  \* capacity of the queue
    BatchSize,  \* events that a batch holds before it is written
    MaxEvents   \* bound: events recorded

VARIABLES
    recorder,   \* the fields under mu, the stop channel and the context
    worker,     \* of run: "none", "select", "stopping", "drain", "finish", "exited"
    queue,      \* events in the queue
    batch,      \* events in the worker's batch
    written,    \* events in the database
    dropped,    \* the count of dropped events
    recorded    \* calls of Record

vars == <<recorder, worker, queue, batch, written, dropped, recorded>>

Init ==
    /\ recorder = [started |-> FALSE, accepting |-> FALSE, closing |-> FALSE,
                   finished |-> FALSE, stop |-> FALSE, cancelled |-> FALSE]
    /\ worker = "none"
    /\ queue = 0 /\ batch = 0 /\ written = 0 /\ dropped = 0 /\ recorded = 0

-----------------------------------------------------------------------------
\* Start: a recorder that is finished or closing is not started again.
StartRecorder ==
    /\ ~recorder.started /\ ~recorder.finished /\ ~recorder.closing
    /\ recorder' = [recorder EXCEPT !.started = TRUE, !.accepting = TRUE]
    /\ worker' = "select"
    /\ UNCHANGED <<queue, batch, written, dropped, recorded>>

\* Record never blocks: without room, or not accepting, it counts the event.
Record ==
    /\ recorded < MaxEvents /\ recorded' = recorded + 1
    /\ \/ /\ recorder.accepting /\ queue < QueueSize
          /\ queue' = queue + 1 /\ UNCHANGED dropped
       \/ /\ ~recorder.accepting \/ queue = QueueSize
          /\ dropped' = dropped + 1 /\ UNCHANGED queue
    /\ UNCHANGED <<recorder, worker, batch, written>>

\* Close stops accepting and tells the worker; one never started is finished.
Close ==
    /\ ~recorder.closing
    /\ recorder' = IF recorder.started
                   THEN [recorder EXCEPT !.accepting = FALSE, !.closing = TRUE, !.stop = TRUE]
                   ELSE [recorder EXCEPT !.closing = TRUE, !.finished = TRUE]
    /\ UNCHANGED <<worker, queue, batch, written, dropped, recorded>>

\* The application context ends, or Close has waited as long as it may.
CancelRecorder ==
    /\ recorder.started /\ ~recorder.cancelled
    /\ recorder' = [recorder EXCEPT !.cancelled = TRUE]
    /\ UNCHANGED <<worker, queue, batch, written, dropped, recorded>>

\* The batch is written, or lost and counted.
Flushed(n) ==
    /\ batch' = 0
    /\ \/ written' = written + n /\ UNCHANGED dropped
       \/ dropped' = dropped + n /\ UNCHANGED written

\* An event goes to the batch, and a full batch to the database.
Receive ==
    /\ worker \in {"select", "drain"} /\ queue > 0
    /\ queue' = queue - 1
    /\ IF batch + 1 >= BatchSize THEN Flushed(batch + 1)
       ELSE batch' = batch + 1 /\ UNCHANGED <<written, dropped>>
    /\ UNCHANGED <<recorder, worker, recorded>>

\* Mutant: the ticker waits for a full batch too.
FlushFullBatch ==
    /\ worker = "select" /\ batch >= BatchSize
    /\ Flushed(batch)
    /\ UNCHANGED <<recorder, worker, queue, recorded>>

\* The flush ticker.
FlushTick ==
    /\ worker = "select" /\ batch > 0
    /\ Flushed(batch)
    /\ UNCHANGED <<recorder, worker, queue, recorded>>

\* The worker notices the stop channel or the end of its context.
Noticed ==
    /\ worker = "select"
    /\ \/ recorder.stop /\ worker' = "drain"
       \/ recorder.cancelled /\ worker' = "stopping"
    /\ UNCHANGED <<recorder, queue, batch, written, dropped, recorded>>

\* Mutant: the end of the context leaves the recorder accepting until finish.
DrainAccepting ==
    /\ worker = "stopping" /\ worker' = "drain"
    /\ UNCHANGED <<recorder, queue, batch, written, dropped, recorded>>

\* stopAccepting, before the queue is drained.
StopAccepting ==
    /\ worker = "stopping" /\ worker' = "drain"
    /\ recorder' = [recorder EXCEPT !.accepting = FALSE, !.closing = TRUE]
    /\ UNCHANGED <<queue, batch, written, dropped, recorded>>

\* drainAndFlush finds the queue empty and writes the last batch.
DrainEnds ==
    /\ worker = "drain" /\ queue = 0
    /\ worker' = "finish"
    /\ IF batch = 0 THEN UNCHANGED <<batch, written, dropped>> ELSE Flushed(batch)
    /\ UNCHANGED <<recorder, queue, recorded>>

Finish ==
    /\ worker = "finish" /\ worker' = "exited"
    /\ recorder' = [recorder EXCEPT !.accepting = FALSE, !.closing = TRUE, !.finished = TRUE]
    /\ UNCHANGED <<queue, batch, written, dropped, recorded>>

WorkerStep == Receive \/ Noticed \/ StopAccepting \/ DrainEnds \/ Finish

-----------------------------------------------------------------------------
Next ==
    \/ StartRecorder \/ Record \/ Close \/ CancelRecorder
    \/ WorkerStep \/ FlushTick

Spec == Init /\ [][Next]_vars

-----------------------------------------------------------------------------
(* Properties *)

\* No event is unaccounted for: every one handed to Record is queued, in the
\* batch, in the database or counted as dropped, and when the worker has exited
\* nothing is left behind, however Close, the end of the context and late
\* requests meet.
UsageAccounted ==
    /\ queue + batch + written + dropped = recorded
    /\ worker = "exited" => queue = 0 /\ batch = 0

\* Accepted events do not stay in memory: again and again the queue and the
\* batch are empty.
UsageSettles == []<>(queue = 0 /\ batch = 0)
=============================================================================
