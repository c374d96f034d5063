----------------------------- MODULE SearchEntry -----------------------------
(***************************************************************************)
(* What a search request passes on its way to the sources, as one          *)
(* specification: the rate limiter, the flights that coalesce it, the      *)
(* admission to the live searches and the recorder of its usage.  The four *)
(* share no variables, so that every property of one of them is a property *)
(* of its own steps; a behaviour takes the steps of one of them, and all   *)
(* four are explored.                                                      *)
(***************************************************************************)
EXTENDS SearchAdmission

CONSTANTS
    Callers, Keys, Live,                                                  \* SearchFlight
    Requests, Limits, Unlimited, SecondsPerMinute, MaxSecond, MaxEdits,   \* RateLimiter
    QueueSize, BatchSize, MaxEvents                                       \* UsageRecorder

ASSUME EntryAssumption ==
    /\ Keys # {} /\ Live \notin Keys
    /\ Callers \cap (Keys \cup {Live}) = {}
    /\ Unlimited \notin Limits /\ Limits \subseteq [rps : Nat \ {0}, rpm : Nat \ {0}]
    /\ {SecondsPerMinute, QueueSize, BatchSize} \subseteq Nat \ {0}

VARIABLES
    part,  \* the component whose steps are taken
    asked, at, seen, ctx, box, ans, stage, leader, replay, born, aged,
    stored,
    phase, principal, account, edits, second, limitState, passed, decided,
    recorder, worker, queue, batch, written, dropped, recorded

Flight   == INSTANCE SearchFlight
Limiter  == INSTANCE RateLimiter
Recorder == INSTANCE UsageRecorder

flightVars   == <<asked, at, seen, ctx, box, ans, stage, leader, replay, born, aged,
                  stored>>
limiterVars  == <<phase, principal, account, edits, second, limitState, passed, decided>>
recorderVars == <<recorder, worker, queue, batch, written, dropped, recorded>>
entryVars    == <<part, vars, flightVars, limiterVars, recorderVars>>

EntryInit ==
    /\ part \in {"admission", "flight", "limiter", "recorder"}
    /\ Init /\ Flight!Init /\ Limiter!Init /\ Recorder!Init
    /\ part # "flight" => ~stored
    /\ part # "limiter" => account = CHOOSE c \in Limits : TRUE

EntryNext ==
    \/ part = "admission" /\ Next /\ UNCHANGED <<part, flightVars, limiterVars, recorderVars>>
    \/ part = "flight" /\ Flight!Next /\ UNCHANGED <<part, vars, limiterVars, recorderVars>>
    \/ part = "limiter" /\ Limiter!Next /\ UNCHANGED <<part, vars, flightVars, recorderVars>>
    \/ part = "recorder" /\ Recorder!Next /\ UNCHANGED <<part, vars, flightVars, limiterVars>>

EntrySpec == EntryInit /\ [][EntryNext]_entryVars

\* Goroutines are scheduled, searches that were admitted end, database calls
\* return, budgets run out and the recorder's ticker ticks.  Nothing is assumed
\* of callers, of the live search behind a flight, which may hang, or of Close.
FairEntry ==
    /\ EntrySpec
    /\ \A s \in Searches : WF_vars(part = "admission" /\ Step(s))
    /\ \A c \in Callers : WF_flightVars(part = "flight" /\ Flight!ClientStep(c))
    /\ \A k \in Keys :
          /\ WF_flightVars(part = "flight" /\ (Flight!ClientStep(k) \/ Flight!Execution(k)))
          /\ WF_flightVars(part = "flight" /\ Flight!BudgetEnds(k))
    /\ WF_recorderVars(part = "recorder" /\ Recorder!WorkerStep)
    /\ WF_recorderVars(part = "recorder" /\ Recorder!FlushTick)

-----------------------------------------------------------------------------
(* Properties, beside the ones of SearchAdmission: see the components *)

\* A request goes without an answer only when its own context has ended
\* (executeSearchFlight).
NoForeignCancel == Flight!NoForeignCancel

\* The answer stored last is replayed while it is fresh (executeSearchFlight).
FreshReplayStays == Flight!FreshReplayStays

\* A request that shares a live search returns even when that never ends
\* (executeSearchFlight).
CallerReturns == Flight!CallerReturns

\* No window lets more requests pass than its limits allow (AllowWithConfig).
PassedWithinLimits == Limiter!PassedWithinLimits

\* No usage event is unaccounted for (Recorder's Record, Close and run).
UsageAccounted == Recorder!UsageAccounted

\* Usage events do not stay in memory (Recorder's run).
UsageSettles == Recorder!UsageSettles
=============================================================================
