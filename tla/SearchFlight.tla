----------------------------- MODULE SearchFlight -----------------------------
(***************************************************************************)
(* Coalesced searches: executeSearchFlight of service/search_flight.go as  *)
(* hybrid search uses it (service/hybrid_search.go).  Requests that differ *)
(* only in presentation have different hybrid flights and share one live   *)
(* flight: a hybrid execution that misses the database is itself a client  *)
(* of the live flight, with the deadline of its own budget inherited.      *)
(*                                                                         *)
(* singleflight.Group is external: DoChan starts an execution or joins the *)
(* one in progress, and hands its result to every client that joined.  An  *)
(* answer is its outcome only: "answer", be its Completion complete or     *)
(* partial, "cut" when its StopReason is the deadline, "error", or "gone"  *)
(* when the client's own context ended first.  Every request has an        *)
(* execution budget, as the API handlers give it one.  A stored replay is  *)
(* known by its number, which stands for the pointer that CompareAndDelete *)
(* compares.                                                               *)
(***************************************************************************)
EXTENDS Integers

CONSTANTS
    Callers,     \* API requests
    Keys,        \* hybrid flights
    Live         \* the live flight

Flights == Keys \cup {Live}
Clients == Callers \cup Keys

Outcomes == {"answer", "cut", "error", "gone"}

VARIABLES
    asked,    \* the hybrid flight that a caller asks for
    at,       \* of a client: "idle", "load", "drop", "join", "wait", "done",
              \* or "gone" when its context ended first
    seen,     \* the expired replay that a client has found, 0 without one
    ctx,      \* of a client or an execution: "open", "cancelled" or "deadline"
    box,      \* what DoChan's channel holds for the client
    ans,      \* what executeSearchFlight returned to a hybrid execution
    stage,    \* of a flight: "none", "db", "live"
    leader,   \* the clients whose call started the execution, one or none
    replay,   \* of a flight: the number of its entry in searchFlightReplays, or 0
    born,     \* replays that the flight has stored
    aged,     \* the last of them has expired
    stored    \* the resource library has results

clientVars == <<asked, at, seen, ctx, box, ans>>
replayVars == <<replay, born, aged>>
flightVars == <<stage, leader, replayVars>>
vars       == <<clientVars, flightVars, stored>>

\* The flight of a client: a hybrid execution asks for the live one.
FlightOf(x) == IF x \in Callers THEN asked[x] ELSE Live

TypeOK ==
    /\ asked \in [Callers -> Keys]
    /\ at \in [Clients -> {"idle", "load", "drop", "join", "wait", "done", "gone"}]
    /\ seen \in [Clients -> Nat]
    /\ ctx \in [Clients \cup {Live} -> {"open", "cancelled", "deadline"}]
    /\ box \in [Clients -> Outcomes \cup {"none"}]
    /\ ans \in [Keys -> Outcomes \cup {"none"}]
    /\ stage \in [Flights -> {"none", "db", "live"}]
    /\ leader \in [Flights -> SUBSET Clients]
    /\ replay \in [Flights -> Nat]
    /\ born \in [Flights -> Nat] /\ aged \in [Flights -> BOOLEAN]
    /\ stored \in BOOLEAN

Init ==
    /\ asked = [c \in Callers |-> CHOOSE k \in Keys : TRUE]
    /\ at = [x \in Clients |-> "idle"] /\ seen = [x \in Clients |-> 0]
    /\ ctx = [x \in Clients \cup {Live} |-> "open"]
    /\ box = [x \in Clients |-> "none"] /\ ans = [k \in Keys |-> "none"]
    /\ stage = [f \in Flights |-> "none"]
    /\ leader = [f \in Flights |-> {}]
    /\ replay = [f \in Flights |-> 0] /\ born = [f \in Flights |-> 0]
    /\ aged = [f \in Flights |-> TRUE]
    /\ stored \in BOOLEAN

-----------------------------------------------------------------------------
(* A client of a flight: an API request, or a hybrid execution *)

\* A caller's request.
Ask(c) ==
    /\ at[c] = "idle"
    /\ \E k \in Keys : asked' = [asked EXCEPT ![c] = k]
    /\ at' = [at EXCEPT ![c] = "load"]
    /\ UNCHANGED <<seen, ctx, box, ans, flightVars, stored>>

\* executeSearchFlight returns to x; what becomes of an API request after that
\* depends on its answer no more.
Answer(x, v) ==
    /\ at' = [at EXCEPT ![x] = IF v = "gone" THEN "gone" ELSE "done"]
    /\ ans' = IF x \in Keys THEN [ans EXCEPT ![x] = v] ELSE ans
    /\ box' = [box EXCEPT ![x] = "none"]

\* The entry of the flight is the answer unless it has expired; an expired one is
\* to be taken away, if it is still there then.
Load(x) ==
    LET f == FlightOf(x) IN
    /\ at[x] = "load"
    /\ \/ replay[f] # 0 /\ ~aged[f] /\ Answer(x, "answer") /\ UNCHANGED seen
       \/ /\ replay[f] # 0 /\ aged[f]
          /\ at' = [at EXCEPT ![x] = "drop"] /\ seen' = [seen EXCEPT ![x] = replay[f]]
          /\ UNCHANGED <<box, ans>>
       \/ /\ replay[f] = 0
          /\ at' = [at EXCEPT ![x] = "join"] /\ UNCHANGED <<seen, box, ans>>
    /\ UNCHANGED <<asked, ctx, flightVars, stored>>

\* Mutant: the entry of the flight is deleted, whichever it is.
DeleteAny(f, i) == [replay EXCEPT ![f] = 0]

\* CompareAndDelete: the replay i of f is taken away if it is the entry.
CompareAndDelete(f, i) == [replay EXCEPT ![f] = IF @ = i THEN 0 ELSE @]

\* The client takes the expired replay away that it has found.
Drop(x) ==
    /\ at[x] = "drop"
    /\ replay' = CompareAndDelete(FlightOf(x), seen[x])
    /\ at' = [at EXCEPT ![x] = "join"] /\ seen' = [seen EXCEPT ![x] = 0]
    /\ UNCHANGED <<asked, ctx, box, ans, stage, leader, born, aged, stored>>

\* DoChan: the execution in progress, whoever started it, or a new one.
Join(x) ==
    LET f == FlightOf(x) IN
    /\ at[x] = "join"
    /\ at' = [at EXCEPT ![x] = "wait"]
    /\ \/ stage[f] # "none" /\ UNCHANGED <<stage, leader, ctx>>
       \/ /\ stage[f] = "none"
          /\ stage' = [stage EXCEPT ![f] = IF f = Live THEN "live" ELSE "db"]
          /\ leader' = [leader EXCEPT ![f] = {x}]
          \* a new budget, or the one of the hybrid execution that asks
          /\ ctx' = [ctx EXCEPT ![f] = IF f = Live THEN ctx[x] ELSE "open"]
    /\ UNCHANGED <<asked, seen, box, ans, replayVars, stored>>

\* The result arrives; a context that has ended meanwhile may win the select.
Receive(x) ==
    /\ at[x] = "wait" /\ box[x] # "none"
    /\ Answer(x, box[x])
    /\ UNCHANGED <<asked, seen, ctx, flightVars, stored>>

\* Mutant: a hybrid execution waits for the live search whatever its budget says.
GiveUpCallerOnly(x) ==
    /\ x \in Callers
    /\ at[x] = "wait" /\ ctx[x] # "open"
    /\ Answer(x, "gone")
    /\ UNCHANGED <<asked, seen, ctx, flightVars, stored>>

\* The context ends first.  A hybrid execution, whose context is that of its
\* budget, has waited for the grace period before.
GiveUp(x) ==
    /\ at[x] = "wait" /\ ctx[x] # "open"
    /\ Answer(x, "gone")
    /\ UNCHANGED <<asked, seen, ctx, flightVars, stored>>

\* Mutant: an execution lives and dies with the call that started it.
DisconnectsLed(c) ==
    /\ at[c] \notin {"idle", "done", "gone"} /\ ctx[c] = "open"
    /\ ctx' = [y \in Clients \cup {Live} |->
                 IF y = c \/ (y = asked[c] /\ c \in leader[y])
                 THEN "cancelled" ELSE ctx[y]]
    /\ UNCHANGED <<asked, at, seen, box, ans, flightVars, stored>>

\* The caller's connection ends; an execution runs without its cancellation.
Disconnects(c) ==
    /\ at[c] \notin {"idle", "done", "gone"} /\ ctx[c] = "open"
    /\ ctx' = [ctx EXCEPT ![c] = "cancelled"]
    /\ UNCHANGED <<asked, at, seen, box, ans, flightVars, stored>>

\* The budget of a hybrid execution runs out, and with it that of the live
\* execution it started.
BudgetEnds(k) ==
    /\ stage[k] # "none" /\ ctx[k] = "open"
    /\ ctx' = [y \in Clients \cup {Live} |->
                 IF y = k \/ (y = Live /\ k \in leader[Live])
                 THEN "deadline" ELSE ctx[y]]
    /\ UNCHANGED <<asked, at, seen, box, ans, flightVars, stored>>

-----------------------------------------------------------------------------
(* The execution of a flight *)

\* No error, and not stopped by a deadline, be it that of the live search; an
\* answer that lacks a source is replayed like a complete one.
Replayable(v) == v = "answer"

\* What an execution that ended with v reports: past its deadline an answer is
\* marked as cut, and a context error becomes an empty answer.
Reported(f, v) == IF ctx[f] = "deadline" /\ v # "error" THEN "cut" ELSE v

\* The execution of f ends with v: every client that joined gets the result, and
\* one worth replaying becomes the entry of the flight.
Publish(f, v) ==
    LET r == Reported(f, v)
        i == born[f] + 1
    IN
    /\ stage' = [stage EXCEPT ![f] = "none"]
    /\ box' = [x \in Clients |-> IF FlightOf(x) = f /\ at[x] = "wait" THEN r ELSE box[x]]
    /\ IF Replayable(r)
       THEN /\ replay' = [replay EXCEPT ![f] = i]
            /\ born' = [born EXCEPT ![f] = i]
            /\ aged' = [aged EXCEPT ![f] = FALSE]
       ELSE UNCHANGED replayVars
    /\ leader' = [leader EXCEPT ![f] = {}]
    /\ ctx' = [ctx EXCEPT ![f] = "open"]

\* searchContextUncoalesced, the resource library: a hit is the answer; a miss,
\* a failing query or a forced refresh goes to the live search.
Database(k) ==
    /\ stage[k] = "db"
    /\ \/ stored /\ Publish(k, "answer") /\ UNCHANGED at
       \/ /\ stage' = [stage EXCEPT ![k] = "live"]
          /\ at' = [at EXCEPT ![k] = "load"]
          /\ UNCHANGED <<ctx, box, leader, replayVars>>
    /\ UNCHANGED <<asked, seen, ans, stored>>

\* The live search has answered: an error ends the execution, anything else is
\* persisted, a partial or cut answer too; that persist fails is only logged.
AfterLive(k) ==
    /\ stage[k] = "live" /\ at[k] \in {"done", "gone"}
    /\ at' = [at EXCEPT ![k] = "idle"] /\ ans' = [ans EXCEPT ![k] = "none"]
    /\ stored' \in IF ans[k] \in {"error", "gone"} THEN {stored} ELSE {stored, TRUE}
    /\ Publish(k, ans[k])
    /\ UNCHANGED <<asked, seen>>

\* The live search ends, if ever, with or without the answers of all its sources.
LiveEnds ==
    /\ stage[Live] = "live"
    /\ \E v \in {"answer", "error"} : Publish(Live, v)
    /\ UNCHANGED <<asked, at, seen, ans, stored>>

-----------------------------------------------------------------------------
(* Time *)

\* The last replay reaches its age, searchFlightReplayTTL; nobody asks how old the
\* ones are that it replaced.
ReplayExpires(f) ==
    /\ ~aged[f]
    /\ aged' = [aged EXCEPT ![f] = TRUE]
    /\ UNCHANGED <<clientVars, stage, leader, replay, born, stored>>

\* A timer, of the last replay when it has expired or of a replaced one, takes its
\* replay away, and by CompareAndDelete no other: that a timer fires once and at
\* its time makes no difference.
ReplayTimer(f) ==
    /\ \E i \in 1..born[f] :
         /\ i < born[f] \/ aged[f]
         /\ replay' = CompareAndDelete(f, i)
    /\ UNCHANGED <<clientVars, stage, leader, born, aged, stored>>

-----------------------------------------------------------------------------
ClientStep(x) == Load(x) \/ Drop(x) \/ Join(x) \/ Receive(x) \/ GiveUp(x)
Execution(k)  == Database(k) \/ AfterLive(k)

Next ==
    \/ \E x \in Clients : ClientStep(x)
    \/ \E c \in Callers : Ask(c) \/ Disconnects(c)
    \/ \E k \in Keys : Execution(k) \/ BudgetEnds(k)
    \/ \E f \in Flights : ReplayExpires(f) \/ ReplayTimer(f)
    \/ LiveEnds

Spec == Init /\ [][Next]_vars

-----------------------------------------------------------------------------
(* Properties *)

\* One caller's disconnection is not another's: a request ends without an answer
\* only when its own context has ended, whoever started the shared execution.
NoForeignCancel == \A c \in Callers : at[c] = "gone" => ctx[c] # "open"

\* The answer stored last is replayed for as long as it is fresh: neither the timer
\* of an older one nor a caller that has found an older one expired takes it away,
\* although a caller that came too late for a replay and too early for its store
\* may have started the search a second time.
FreshReplayStays == \A f \in Flights : ~aged[f] => replay[f] = born[f]

\* Every request returns within its budget and the grace period, even when the
\* live search that it shares never ends.
CallerReturns == \A c \in Callers : at[c] = "wait" ~> at[c] \in {"done", "gone"}
=============================================================================
