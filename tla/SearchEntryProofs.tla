-------------------------- MODULE SearchEntryProofs --------------------------
(***************************************************************************)
(* Proofs about the gates of a search request, for any callers, limits and *)
(* sizes: the recorder of usage, the flights and the rate limiter of       *)
(* SearchEntry.  The proofs about admission are in SearchAdmissionProofs.  *)
(* Each component has an inductive invariant, preserved by its own steps;  *)
(* a step of another component leaves its variables alone.                 *)
(***************************************************************************)
EXTENDS SearchEntry, TLAPS

-----------------------------------------------------------------------------
(* The recorder of usage *)

Flags == [started : BOOLEAN, accepting : BOOLEAN, closing : BOOLEAN,
          finished : BOOLEAN, stop : BOOLEAN, cancelled : BOOLEAN]

\* The counts add up; a recorder accepts events only while its worker still
\* reads them, and a worker that has drained the queue has left nothing.
RecorderInv ==
    /\ recorder \in Flags
    /\ worker \in {"none", "select", "stopping", "drain", "finish", "exited"}
    /\ {queue, batch, written, dropped, recorded} \subseteq Nat
    /\ UsageAccounted
    /\ recorder.started <=> worker # "none"
    /\ recorder.accepting => worker \in {"select", "stopping"}
    /\ recorder.stop => ~recorder.accepting /\ recorder.started
    /\ worker \in {"none", "finish", "exited"} => queue = 0 /\ batch = 0

LEMMA RecorderStarts == Recorder!Init => RecorderInv
BY DEF Recorder!Init, RecorderInv, UsageAccounted, Recorder!UsageAccounted, Flags

LEMMA RecorderStep == RecorderInv /\ Recorder!Next => RecorderInv'
<1> SUFFICES ASSUME RecorderInv, Recorder!Next PROVE RecorderInv'
  OBVIOUS
<1> USE DEF RecorderInv, UsageAccounted, Recorder!UsageAccounted, Flags
<1>1. CASE Recorder!StartRecorder
  BY <1>1 DEF Recorder!StartRecorder
<1>2. CASE Recorder!Record
  BY <1>2 DEF Recorder!Record
<1>3. CASE Recorder!Close
  BY <1>3 DEF Recorder!Close
<1>4. CASE Recorder!CancelRecorder
  BY <1>4 DEF Recorder!CancelRecorder
<1>5. CASE Recorder!Receive
  BY <1>5, EntryAssumption DEF Recorder!Receive, Recorder!Flushed
<1>6. CASE Recorder!FlushTick
  BY <1>6 DEF Recorder!FlushTick, Recorder!Flushed
<1>7. CASE Recorder!Noticed
  BY <1>7 DEF Recorder!Noticed
<1>8. CASE Recorder!StopAccepting
  BY <1>8 DEF Recorder!StopAccepting
<1>9. CASE Recorder!DrainEnds
  BY <1>9 DEF Recorder!DrainEnds, Recorder!Flushed
<1>10. CASE Recorder!Finish
  BY <1>10 DEF Recorder!Finish
<1> QED
  BY <1>1, <1>2, <1>3, <1>4, <1>5, <1>6, <1>7, <1>8, <1>9, <1>10
     DEF Recorder!Next, Recorder!WorkerStep

\* No event of usage is lost uncounted, whatever the sizes of queue and batch and
\* however Close, the end of the context and late calls of Record meet.
THEOREM RecorderAccounts == EntrySpec => []UsageAccounted
<1>1. EntryInit => RecorderInv
  BY RecorderStarts DEF EntryInit
<1>2. RecorderInv /\ [EntryNext]_entryVars => RecorderInv'
  <2> SUFFICES ASSUME RecorderInv, [EntryNext]_entryVars PROVE RecorderInv'
    OBVIOUS
  <2>1. Recorder!Next \/ UNCHANGED recorderVars
    BY DEF EntryNext, entryVars
  <2>2. CASE UNCHANGED recorderVars
    BY <2>2 DEF recorderVars, RecorderInv, UsageAccounted, Recorder!UsageAccounted
  <2> QED BY <2>1, <2>2, RecorderStep
<1>3. EntrySpec => []RecorderInv
  BY <1>1, <1>2, PTL DEF EntrySpec
<1> QED BY <1>3, PTL DEF RecorderInv

-----------------------------------------------------------------------------
(* The rate limiter *)

WindowState == [config : Limits \cup {Unlimited}, secondWindow : Int, secondCount : Nat,
                minuteWindow : Int, minuteCount : Nat]

\* Where nothing was decided in a window the limiter's window is an earlier one;
\* where everything was decided with c, its state is that of c and counts what
\* has passed.
LimiterInv ==
    /\ principal \in [Requests -> Limits \cup {Unlimited}]
    /\ account \in Limits \cup {Unlimited} /\ second \in Nat
    /\ limitState \in WindowState
    /\ passed \in [second : Nat, minute : Nat]
    /\ limitState.secondWindow <= second /\ limitState.minuteWindow <= Limiter!Minute
    /\ decided.second = {} => limitState.secondWindow < second /\ passed.second = 0
    /\ decided.minute = {} => limitState.minuteWindow < Limiter!Minute /\ passed.minute = 0
    /\ \A c \in Limits :
         /\ decided.second = {c} =>
              /\ limitState.config = c /\ limitState.secondWindow = second
              /\ limitState.secondCount = passed.second /\ passed.second <= c.rps
         /\ decided.minute = {c} =>
              /\ limitState.config = c /\ limitState.minuteWindow = Limiter!Minute
              /\ limitState.minuteCount = passed.minute /\ passed.minute <= c.rpm

\* The minute of a second, and the one of the next second.
LEMMA MinuteMonotone ==
    ASSUME NEW s \in Nat, NEW n \in Nat \ {0}
    PROVE  /\ s \div n \in Nat
           /\ s \div n <= (s + 1) \div n
OBVIOUS

\* What passes is counted in both windows.
LEMMA CountedTwice ==
    ASSUME NEW s \in WindowState
    PROVE  LET n == [s EXCEPT !.secondCount = @ + 1, !.minuteCount = @ + 1] IN
           /\ n \in WindowState /\ n.config = s.config
           /\ n.secondWindow = s.secondWindow /\ n.minuteWindow = s.minuteWindow
           /\ n.secondCount = s.secondCount + 1 /\ n.minuteCount = s.minuteCount + 1
<1> DEFINE m == [s EXCEPT !.secondCount = @ + 1]
<1>1. /\ m \in WindowState /\ m.config = s.config
      /\ m.secondWindow = s.secondWindow /\ m.minuteWindow = s.minuteWindow
      /\ m.secondCount = s.secondCount + 1 /\ m.minuteCount = s.minuteCount
  BY DEF WindowState
<1> HIDE DEF m
<1>2. LET n == [m EXCEPT !.minuteCount = @ + 1] IN
      /\ n \in WindowState /\ n.config = m.config
      /\ n.secondWindow = m.secondWindow /\ n.minuteWindow = m.minuteWindow
      /\ n.secondCount = m.secondCount /\ n.minuteCount = m.minuteCount + 1
  BY <1>1 DEF WindowState
<1>3. [s EXCEPT !.secondCount = @ + 1, !.minuteCount = @ + 1] = [m EXCEPT !.minuteCount = @ + 1]
  BY <1>1 DEF m
<1> QED BY <1>1, <1>2, <1>3

LEMMA LimiterStarts == EntryAssumption /\ Limiter!Init => LimiterInv
<1> SUFFICES ASSUME Limiter!Init PROVE LimiterInv
  BY EntryAssumption
<1>1. Limiter!Minute \in Nat
  BY MinuteMonotone, EntryAssumption DEF Limiter!Init, Limiter!Minute
<1> QED
  BY <1>1, EntryAssumption
     DEF Limiter!Init, LimiterInv, WindowState, Limiter!NoState

\* A decision with the limits c keeps the counts of the windows that still run.
LEMMA DecisionKeepsLimits ==
    ASSUME LimiterInv, NEW r \in Requests, Limiter!AllowWithConfig(r)
    PROVE  LimiterInv'
<1> DEFINE c == principal[r]
           s == Limiter!Rolled(c)
           allowed == c = Unlimited \/ (s.secondCount < c.rps /\ s.minuteCount < c.rpm)
<1>1. /\ limitState' = IF c = Unlimited THEN Limiter!NoState
                       ELSE IF allowed
                       THEN [s EXCEPT !.secondCount = @ + 1, !.minuteCount = @ + 1]
                       ELSE s
      /\ passed' = IF allowed
                   THEN [second |-> passed.second + 1, minute |-> passed.minute + 1]
                   ELSE passed
      /\ decided' = [second |-> decided.second \cup {c}, minute |-> decided.minute \cup {c}]
      /\ UNCHANGED <<principal, account, second>> /\ Limiter!Minute' = Limiter!Minute
  BY DEF Limiter!AllowWithConfig, Limiter!Minute
<1>2. Limiter!Minute \in Nat /\ second \in Nat
  BY MinuteMonotone, EntryAssumption DEF LimiterInv, Limiter!Minute
<1>3. CASE c = Unlimited
  <2>1. /\ limitState' \in WindowState
        /\ limitState'.secondWindow = -1 /\ limitState'.minuteWindow = -1
    BY <1>1, <1>3 DEF Limiter!NoState, WindowState
  <2>2. \A d \in Limits : decided'.second # {d} /\ decided'.minute # {d}
    BY <1>1, <1>3, EntryAssumption
  <2>3. decided'.second # {} /\ decided'.minute # {}
    BY <1>1
  <2>4. passed' \in [second : Nat, minute : Nat]
    BY <1>1 DEF LimiterInv
  <2> QED
    BY <1>1, <1>2, <2>1, <2>2, <2>3, <2>4 DEF LimiterInv
<1>4. CASE c # Unlimited
  <2>1. c \in Limits /\ c.rps \in Nat \ {0} /\ c.rpm \in Nat \ {0}
    BY <1>4, EntryAssumption DEF LimiterInv
  <2>2. /\ s.config = c /\ s.secondWindow = second /\ s.minuteWindow = Limiter!Minute
        /\ s.secondCount = IF limitState.config = c /\ limitState.secondWindow = second
                           THEN limitState.secondCount ELSE 0
        /\ s.minuteCount = IF limitState.config = c /\ limitState.minuteWindow = Limiter!Minute
                           THEN limitState.minuteCount ELSE 0
    BY <1>2 DEF Limiter!Rolled, Limiter!NoState, LimiterInv
  <2>3. s \in WindowState
    BY <1>2, <2>1 DEF Limiter!Rolled, Limiter!NoState, LimiterInv, WindowState
  <2>4. /\ limitState' \in WindowState
        /\ limitState'.config = c
        /\ limitState'.secondWindow = second /\ limitState'.minuteWindow = Limiter!Minute
        /\ allowed => /\ limitState'.secondCount = s.secondCount + 1
                      /\ limitState'.minuteCount = s.minuteCount + 1
        /\ ~allowed => /\ limitState'.secondCount = s.secondCount
                       /\ limitState'.minuteCount = s.minuteCount
    <3>1. CASE allowed
      <4>1. limitState' = [s EXCEPT !.secondCount = @ + 1, !.minuteCount = @ + 1]
        BY <1>1, <1>4, <3>1
      <4> HIDE DEF s
      <4> QED BY <2>2, <2>3, <3>1, <4>1, CountedTwice
    <3>2. CASE ~allowed
      BY <1>1, <1>4, <2>2, <2>3, <3>2
    <3> QED BY <3>1, <3>2
  <2>5. /\ allowed => /\ passed'.second = passed.second + 1
                      /\ passed'.minute = passed.minute + 1
        /\ ~allowed => passed' = passed
        /\ passed' \in [second : Nat, minute : Nat]
    BY <1>1 DEF LimiterInv
  <2>6. allowed => s.secondCount + 1 <= c.rps /\ s.minuteCount + 1 <= c.rpm
    BY <1>4, <2>1, <2>3 DEF WindowState
  <2>7. ASSUME NEW d \in Limits, decided'.second = {d}
        PROVE  /\ d = c /\ limitState'.secondCount = passed'.second
               /\ passed'.second <= c.rps
    <3>1. d = c
      BY <1>1, <2>7
    <3>2. decided.second = {} \/ decided.second = {c}
      BY <1>1, <2>7, <3>1
    <3>3. s.secondCount = passed.second
      BY <1>2, <2>1, <2>2, <3>2 DEF LimiterInv, WindowState
    <3>4. passed.second <= c.rps
      BY <2>1, <3>2 DEF LimiterInv
    <3> QED BY <2>4, <2>5, <2>6, <3>1, <3>3, <3>4
  <2>8. ASSUME NEW d \in Limits, decided'.minute = {d}
        PROVE  /\ d = c /\ limitState'.minuteCount = passed'.minute
               /\ passed'.minute <= c.rpm
    <3>1. d = c
      BY <1>1, <2>8
    <3>2. decided.minute = {} \/ decided.minute = {c}
      BY <1>1, <2>8, <3>1
    <3>3. s.minuteCount = passed.minute
      BY <1>2, <2>1, <2>2, <3>2 DEF LimiterInv, WindowState
    <3>4. passed.minute <= c.rpm
      BY <2>1, <3>2 DEF LimiterInv
    <3> QED BY <2>4, <2>5, <2>6, <3>1, <3>3, <3>4
  <2>9. decided'.second # {} /\ decided'.minute # {}
    BY <1>1
  <2> QED
    BY <1>1, <1>2, <2>4, <2>5, <2>7, <2>8, <2>9 DEF LimiterInv
<1> QED BY <1>3, <1>4

\* In the next second every window that has passed is a new one.
LEMMA TickKeepsLimits ==
    ASSUME LimiterInv, Limiter!Tick
    PROVE  LimiterInv'
<1> DEFINE same == (second + 1) \div SecondsPerMinute = Limiter!Minute
<1>1. /\ second' = second + 1
      /\ Limiter!Minute' = (second + 1) \div SecondsPerMinute
      /\ passed' = [second |-> 0, minute |-> IF same THEN passed.minute ELSE 0]
      /\ decided' = [second |-> {}, minute |-> IF same THEN decided.minute ELSE {}]
      /\ UNCHANGED <<principal, account, limitState>>
  BY DEF Limiter!Tick, Limiter!Minute
<1>2. second \in Nat /\ SecondsPerMinute \in Nat \ {0}
  BY EntryAssumption DEF LimiterInv
<1>3. Limiter!Minute \in Nat /\ Limiter!Minute <= Limiter!Minute'
  BY <1>1, <1>2, MinuteMonotone DEF Limiter!Minute
<1>4. Limiter!Minute' \in Nat
  BY <1>1, <1>2, MinuteMonotone
<1>5. /\ limitState.secondWindow < second'
      /\ limitState.minuteWindow <= Limiter!Minute'
      /\ ~same => limitState.minuteWindow < Limiter!Minute'
      /\ same => Limiter!Minute' = Limiter!Minute
  BY <1>1, <1>2, <1>3, <1>4 DEF LimiterInv, WindowState
<1>6. passed' \in [second : Nat, minute : Nat]
  BY <1>1 DEF LimiterInv
<1> QED
  BY <1>1, <1>2, <1>4, <1>5, <1>6, EntryAssumption DEF LimiterInv, WindowState

\* While the requests of a window are decided with the same limits, no more pass
\* than these allow, at the edges of both windows (AllowWithConfig).
THEOREM LimiterKeepsLimits == EntrySpec => []PassedWithinLimits
<1>1. EntryInit => LimiterInv
  BY LimiterStarts, EntryAssumption DEF EntryInit
<1>2. LimiterInv /\ [EntryNext]_entryVars => LimiterInv'
  <2> SUFFICES ASSUME LimiterInv, [EntryNext]_entryVars PROVE LimiterInv'
    OBVIOUS
  <2>1. ASSUME NEW r \in Requests, Limiter!Authenticate(r) PROVE LimiterInv'
    BY <2>1 DEF Limiter!Authenticate, Limiter!limiterVars, LimiterInv, Limiter!Minute
  <2>2. ASSUME NEW r \in Requests, Limiter!AllowWithConfig(r) PROVE LimiterInv'
    BY <2>2, DecisionKeepsLimits
  <2>3. ASSUME NEW c \in Limits \cup {Unlimited}, Limiter!UpdateUser(c) PROVE LimiterInv'
    BY <2>3 DEF Limiter!UpdateUser, Limiter!limiterVars, LimiterInv, Limiter!Minute
  <2>4. CASE Limiter!Tick
    BY <2>4, TickKeepsLimits
  <2>5. CASE UNCHANGED limiterVars
    BY <2>5 DEF limiterVars, LimiterInv, Limiter!Minute
  <2> QED
    BY <2>1, <2>2, <2>3, <2>4, <2>5 DEF EntryNext, entryVars, Limiter!Next
<1>3. EntrySpec => []LimiterInv
  BY <1>1, <1>2, PTL DEF EntrySpec
<1>4. LimiterInv => PassedWithinLimits
  BY DEF LimiterInv, PassedWithinLimits, Limiter!PassedWithinLimits
<1> QED BY <1>3, <1>4, PTL

-----------------------------------------------------------------------------
(* The flights *)

Parties == Flight!Clients \cup {Live}

FlightTypes ==
    /\ asked \in [Callers -> Keys]
    /\ at \in [Flight!Clients -> {"idle", "load", "drop", "join", "wait", "done", "gone"}]
    /\ ctx \in [Parties -> {"open", "cancelled", "deadline"}]
    /\ box \in [Flight!Clients -> {"answer", "cut", "error", "none"}]
    /\ ans \in [Keys -> Flight!Outcomes \cup {"none"}]
    /\ stage \in [Flight!Flights -> {"none", "db", "live"}]

\* A replay is known by its number; the one stored last is the entry while it is
\* fresh, and what a caller is about to take away is older or has expired.
Replays ==
    /\ replay \in [Flight!Flights -> Nat] /\ born \in [Flight!Flights -> Nat]
    /\ aged \in [Flight!Flights -> BOOLEAN]
    /\ seen \in [Flight!Clients -> Nat]
    /\ \A f \in Flight!Flights : replay[f] <= born[f] /\ (~aged[f] => replay[f] = born[f])
    /\ \A x \in Flight!Clients : at[x] = "drop" =>
         /\ seen[x] <= born[Flight!FlightOf(x)]
         /\ seen[x] < born[Flight!FlightOf(x)] \/ aged[Flight!FlightOf(x)]

\* A hybrid execution is a client of the live flight only while it searches live,
\* nobody disconnects it, and it goes without an answer only past its deadline:
\* what it then reports is a cut answer, never that somebody is gone.
HybridClients ==
    \A k \in Keys :
      /\ ctx[k] # "cancelled"
      /\ stage[k] # "live" => at[k] = "idle"
      /\ at[k] \in {"done", "gone"} <=> ans[k] # "none"
      /\ ans[k] = "gone" => ctx[k] = "deadline"

FlightInv == FlightTypes /\ HybridClients /\ NoForeignCancel

LEMMA FlightStarts == Flight!Init => FlightInv
<1> SUFFICES ASSUME Flight!Init PROVE FlightInv
  OBVIOUS
<1>1. (CHOOSE k \in Keys : TRUE) \in Keys
  BY EntryAssumption
<1> QED
  BY <1>1 DEF Flight!Init, FlightInv, FlightTypes, HybridClients, NoForeignCancel,
              Flight!NoForeignCancel, Parties, Flight!Clients, Flight!Flights

\* The end of an execution leaves no context of a client but its own, and its
\* own only as it ends.
LEMMA PublishTypes ==
    ASSUME FlightTypes, NEW f \in Flight!Flights,
           NEW v \in {"answer", "error", "cut"} \cup {"gone"}, Flight!Publish(f, v),
           v = "gone" => ctx[f] = "deadline"
    PROVE  /\ stage' = [stage EXCEPT ![f] = "none"]
           /\ box' \in [Flight!Clients -> {"answer", "cut", "error", "none"}]
           /\ ctx' = [ctx EXCEPT ![f] = "open"]
<1>1. Flight!Reported(f, v) \in {"answer", "error", "cut"}
  BY DEF Flight!Reported
<1>2. box' \in [Flight!Clients -> {"answer", "cut", "error", "none"}]
  BY <1>1 DEF Flight!Publish, FlightTypes
<1> QED BY <1>2 DEF Flight!Publish

LEMMA FlightStep == FlightInv /\ Flight!Next => FlightInv'
<1> SUFFICES ASSUME FlightInv, Flight!Next PROVE FlightInv'
  OBVIOUS
<1> USE EntryAssumption DEF FlightInv, FlightTypes, HybridClients, NoForeignCancel,
        Flight!NoForeignCancel, Parties, Flight!Clients, Flight!Flights, Flight!Outcomes
<1>1. ASSUME NEW x \in Flight!Clients, Flight!Load(x) PROVE FlightInv'
  <2>1. Flight!FlightOf(x) \in Flight!Flights
    BY DEF Flight!FlightOf
  <2> QED BY <1>1, <2>1 DEF Flight!Load, Flight!Answer, Flight!flightVars
<1>0. ASSUME NEW x \in Flight!Clients, Flight!Drop(x) PROVE FlightInv'
  BY <1>0 DEF Flight!Drop
<1>2. ASSUME NEW x \in Flight!Clients, Flight!Join(x) PROVE FlightInv'
  <2> DEFINE f == Flight!FlightOf(x)
  <2>1. f \in Flight!Flights
    BY DEF Flight!FlightOf
  <2>2. stage' \in [Flight!Flights -> {"none", "db", "live"}]
    BY <1>2, <2>1 DEF Flight!Join
  <2>3. ctx' \in [Parties -> {"open", "cancelled", "deadline"}]
    BY <1>2, <2>1 DEF Flight!Join
  <2>4. \A c \in Callers : ctx'[c] = ctx[c]
    BY <1>2, <2>1 DEF Flight!Join, Flight!FlightOf
  <2>5. ASSUME NEW k \in Keys
        PROVE  \/ ctx'[k] = ctx[k] /\ stage'[k] = stage[k]
               \/ stage[k] = "none" /\ ctx'[k] = "open" /\ stage'[k] = "db"
    <3>1. CASE k # f
      BY <1>2, <2>1, <3>1 DEF Flight!Join
    <3>2. CASE k = f
      <4>1. f # Live
        BY <3>2
      <4> HIDE DEF f
      <4> QED BY <1>2, <2>1, <3>2, <4>1 DEF Flight!Join, f
    <3> QED BY <3>1, <3>2
  <2>6. at' = [at EXCEPT ![x] = "wait"] /\ at[x] = "join" /\ UNCHANGED <<asked, box, ans>>
    BY <1>2 DEF Flight!Join
  <2> QED BY <2>2, <2>3, <2>4, <2>5, <2>6
<1>3. ASSUME NEW x \in Flight!Clients, Flight!Receive(x) \/ Flight!GiveUp(x) PROVE FlightInv'
  BY <1>3 DEF Flight!Receive, Flight!GiveUp, Flight!Answer, Flight!flightVars
<1>4. ASSUME NEW c \in Callers, Flight!Ask(c) \/ Flight!Disconnects(c) PROVE FlightInv'
  BY <1>4 DEF Flight!Ask, Flight!Disconnects, Flight!flightVars
<1>5. ASSUME NEW k \in Keys, Flight!Database(k) PROVE FlightInv'
  <2>1. CASE stored /\ Flight!Publish(k, "answer") /\ UNCHANGED at
    BY <1>5, <2>1, PublishTypes DEF Flight!Database
  <2>2. CASE ~(stored /\ Flight!Publish(k, "answer") /\ UNCHANGED at)
    BY <1>5, <2>2 DEF Flight!Database
  <2> QED BY <2>1, <2>2
<1>6. ASSUME NEW k \in Keys, Flight!AfterLive(k) PROVE FlightInv'
  BY <1>6, PublishTypes DEF Flight!AfterLive
<1>7. CASE Flight!LiveEnds
  BY <1>7, PublishTypes DEF Flight!LiveEnds
<1>8. ASSUME NEW k \in Keys, Flight!BudgetEnds(k) PROVE FlightInv'
  BY <1>8 DEF Flight!BudgetEnds, Flight!flightVars
<1>9. ASSUME NEW f \in Flight!Flights, Flight!ReplayExpires(f) \/ Flight!ReplayTimer(f)
      PROVE  FlightInv'
  BY <1>9 DEF Flight!ReplayExpires, Flight!ReplayTimer, Flight!clientVars
<1> QED
  BY <1>0, <1>1, <1>2, <1>3, <1>4, <1>5, <1>6, <1>7, <1>8, <1>9
     DEF Flight!Next, Flight!ClientStep, Flight!Execution

LEMMA FlightInvariant == EntrySpec => []FlightInv
<1>1. EntryInit => FlightInv
  BY FlightStarts DEF EntryInit
<1>2. FlightInv /\ [EntryNext]_entryVars => FlightInv'
  <2> SUFFICES ASSUME FlightInv, [EntryNext]_entryVars PROVE FlightInv'
    OBVIOUS
  <2>1. Flight!Next \/ UNCHANGED flightVars
    BY DEF EntryNext, entryVars
  <2>2. CASE UNCHANGED flightVars
    BY <2>2 DEF flightVars, FlightInv, FlightTypes, HybridClients, NoForeignCancel,
                Flight!NoForeignCancel
  <2> QED BY <2>1, <2>2, FlightStep
<1> QED BY <1>1, <1>2, PTL DEF EntrySpec

\* A request goes without an answer only when its own context has ended, whoever
\* started the execution that it shares (executeSearchFlight).
THEOREM FlightForeignCancel == EntrySpec => []NoForeignCancel
BY FlightInvariant, PTL DEF FlightInv

\* The end of an execution stores a replay under a number nobody knows, or none.
LEMMA PublishReplays ==
    ASSUME FlightTypes, Replays, NEW f \in Flight!Flights, NEW v, Flight!Publish(f, v),
           asked' = asked, seen' = seen,
           \A x \in Flight!Clients : at'[x] = "drop" => at[x] = "drop"
    PROVE  Replays'
<1>1. CASE Flight!Replayable(Flight!Reported(f, v))
  <2>1. /\ replay' = [replay EXCEPT ![f] = born[f] + 1]
        /\ born' = [born EXCEPT ![f] = born[f] + 1]
        /\ aged' = [aged EXCEPT ![f] = FALSE]
    BY <1>1 DEF Flight!Publish
  <2>2. replay' \in [Flight!Flights -> Nat] /\ born' \in [Flight!Flights -> Nat]
        /\ aged' \in [Flight!Flights -> BOOLEAN]
    BY <2>1 DEF Replays
  <2>3. \A g \in Flight!Flights : replay'[g] <= born'[g] /\ (~aged'[g] => replay'[g] = born'[g])
    BY <2>1 DEF Replays
  <2>4. ASSUME NEW x \in Flight!Clients, at'[x] = "drop"
        PROVE  /\ seen'[x] <= born'[Flight!FlightOf(x)']
               /\ seen'[x] < born'[Flight!FlightOf(x)'] \/ aged'[Flight!FlightOf(x)']
    <3>1. at[x] = "drop" /\ Flight!FlightOf(x)' = Flight!FlightOf(x) /\ seen[x] \in Nat
      BY <2>4 DEF Flight!FlightOf, Replays
    <3>2. Flight!FlightOf(x) \in Flight!Flights
      BY DEF Flight!FlightOf, Flight!Flights, Flight!Clients, FlightTypes
    <3> DEFINE g == Flight!FlightOf(x)
    <3>3. seen[x] <= born[g] /\ (seen[x] < born[g] \/ aged[g]) /\ born[g] \in Nat
      BY <3>1, <3>2 DEF Replays
    <3>4. CASE g = f
      BY <2>1, <3>1, <3>2, <3>3, <3>4 DEF Replays
    <3>5. CASE g # f
      BY <2>1, <3>1, <3>2, <3>3, <3>5 DEF Replays
    <3> QED BY <3>4, <3>5
  <2> QED BY <2>2, <2>3, <2>4 DEF Replays
<1>2. CASE ~Flight!Replayable(Flight!Reported(f, v))
  <2>1. UNCHANGED <<replay, born, aged>>
    BY <1>2 DEF Flight!Publish, Flight!replayVars
  <2> QED BY <2>1 DEF Replays, Flight!FlightOf
<1> QED BY <1>1, <1>2

\* CompareAndDelete takes away what is older than the entry, or an expired entry.
LEMMA DeleteReplays ==
    ASSUME Replays, NEW f \in Flight!Flights, NEW i \in Nat, i < born[f] \/ aged[f],
           replay' = Flight!CompareAndDelete(f, i)
    PROVE  /\ replay' \in [Flight!Flights -> Nat]
           /\ \A g \in Flight!Flights : replay'[g] <= born[g] /\ (~aged[g] => replay'[g] = born[g])
<1>1. replay' = [replay EXCEPT ![f] = IF replay[f] = i THEN 0 ELSE replay[f]]
  BY DEF Flight!CompareAndDelete
<1>2. replay[f] \in Nat /\ born[f] \in Nat
  BY DEF Replays
<1> QED BY <1>1, <1>2 DEF Replays

\* Every step of the flights keeps what is said of the replays.
LEMMA ReplaysStep == FlightInv /\ Replays /\ Flight!Next => Replays'
<1> SUFFICES ASSUME FlightInv, Replays, Flight!Next PROVE Replays'
  OBVIOUS
<1>0. FlightTypes /\ \A x \in Flight!Clients : Flight!FlightOf(x) \in Flight!Flights
  BY DEF FlightInv, FlightTypes, Flight!FlightOf, Flight!Flights, Flight!Clients
\* A step that stores nothing and finds nothing expired.
<1>a. ASSUME UNCHANGED <<replay, born, aged>>, seen' = seen,
             \A x \in Flight!Clients : at'[x] = "drop" =>
                 at[x] = "drop" /\ Flight!FlightOf(x)' = Flight!FlightOf(x)
      PROVE  Replays'
  BY <1>a DEF Replays
<1>1. ASSUME NEW x \in Flight!Clients, Flight!Load(x) PROVE Replays'
  <2> DEFINE f == Flight!FlightOf(x)
  <2>1. UNCHANGED <<replay, born, aged, asked>>
    BY <1>1 DEF Flight!Load, Flight!flightVars, Flight!replayVars
  <2>2. CASE replay[f] # 0 /\ aged[f] /\ at' = [at EXCEPT ![x] = "drop"]
             /\ seen' = [seen EXCEPT ![x] = replay[f]]
    <3>1. f \in Flight!Flights
      BY <1>0
    <3>2. seen' \in [Flight!Clients -> Nat]
      BY <2>2, <3>1 DEF Replays
    <3>3. ASSUME NEW y \in Flight!Clients, at'[y] = "drop"
          PROVE  /\ seen'[y] <= born[Flight!FlightOf(y)]
                 /\ seen'[y] < born[Flight!FlightOf(y)] \/ aged[Flight!FlightOf(y)]
      <4>1. CASE y = x
        BY <2>2, <3>1, <4>1 DEF Replays
      <4>2. CASE y # x
        BY <2>2, <3>3, <4>2 DEF Replays, FlightInv, FlightTypes
      <4> QED BY <4>1, <4>2
    <3>4. \A y \in Flight!Clients : Flight!FlightOf(y)' = Flight!FlightOf(y)
      BY <2>1 DEF Flight!FlightOf
    <3> QED BY <2>1, <3>2, <3>3, <3>4 DEF Replays
  <2>3. CASE seen' = seen /\ \A y \in Flight!Clients : at'[y] = "drop" => at[y] = "drop"
    <3>1. \A y \in Flight!Clients : Flight!FlightOf(y)' = Flight!FlightOf(y)
      BY <2>1 DEF Flight!FlightOf
    <3> QED BY <1>a, <2>1, <2>3, <3>1
  <2> QED BY <1>0, <1>1, <2>2, <2>3 DEF Flight!Load, Flight!Answer, FlightTypes
<1>2. ASSUME NEW x \in Flight!Clients, Flight!Drop(x) PROVE Replays'
  <2> DEFINE f == Flight!FlightOf(x)
  <2>1. /\ at[x] = "drop" /\ f \in Flight!Flights /\ seen[x] \in Nat
        /\ at' = [at EXCEPT ![x] = "join"] /\ seen' = [seen EXCEPT ![x] = 0]
        /\ replay' = Flight!CompareAndDelete(f, seen[x])
        /\ UNCHANGED <<asked, born, aged>>
    BY <1>0, <1>2 DEF Flight!Drop, Replays
  <2>2. seen[x] < born[f] \/ aged[f]
    BY <2>1 DEF Replays
  <2>3. /\ replay' \in [Flight!Flights -> Nat]
        /\ \A g \in Flight!Flights : replay'[g] <= born[g] /\ (~aged[g] => replay'[g] = born[g])
    BY <2>1, <2>2, DeleteReplays
  <2>4. \A y \in Flight!Clients : Flight!FlightOf(y)' = Flight!FlightOf(y)
    BY <2>1 DEF Flight!FlightOf
  <2>5. \A y \in Flight!Clients : at'[y] = "drop" => at[y] = "drop" /\ seen'[y] = seen[y]
    BY <1>0, <2>1 DEF FlightTypes, Replays
  <2>6. seen' \in [Flight!Clients -> Nat]
    BY <2>1 DEF Replays
  <2> QED BY <2>1, <2>3, <2>4, <2>5, <2>6 DEF Replays
<1>3. ASSUME NEW x \in Flight!Clients,
             Flight!Join(x) \/ Flight!Receive(x) \/ Flight!GiveUp(x)
      PROVE  Replays'
  <2>1. UNCHANGED <<replay, born, aged, seen, asked>>
    BY <1>3 DEF Flight!Join, Flight!Receive, Flight!GiveUp, Flight!flightVars, Flight!replayVars
  <2>2. \A y \in Flight!Clients : at'[y] = "drop" => at[y] = "drop"
    BY <1>0, <1>3 DEF Flight!Join, Flight!Receive, Flight!GiveUp, Flight!Answer, FlightTypes
  <2> QED BY <1>a, <2>1, <2>2 DEF Flight!FlightOf
<1>4. ASSUME NEW c \in Callers, Flight!Ask(c) PROVE Replays'
  <2>1. UNCHANGED <<replay, born, aged, seen>> /\ at[c] = "idle" /\ at' = [at EXCEPT ![c] = "load"]
    BY <1>4 DEF Flight!Ask, Flight!flightVars, Flight!replayVars
  <2>2. ASSUME NEW y \in Flight!Clients, at'[y] = "drop"
        PROVE  at[y] = "drop" /\ Flight!FlightOf(y)' = Flight!FlightOf(y)
    <3>1. y # c /\ at[y] = "drop"
      BY <1>0, <2>1, <2>2 DEF FlightTypes, Flight!Clients
    <3>2. \A d \in Callers \ {c} : asked'[d] = asked[d]
      BY <1>0, <1>4 DEF Flight!Ask, FlightTypes
    <3> QED BY <3>1, <3>2 DEF Flight!FlightOf
  <2> QED BY <1>a, <2>1, <2>2
<1>5. ASSUME NEW c \in Callers, Flight!Disconnects(c) PROVE Replays'
  BY <1>5, <1>a DEF Flight!Disconnects, Flight!flightVars, Flight!replayVars, Flight!FlightOf
<1>6. ASSUME NEW k \in Keys, Flight!BudgetEnds(k) PROVE Replays'
  BY <1>6, <1>a DEF Flight!BudgetEnds, Flight!flightVars, Flight!replayVars, Flight!FlightOf
<1>7. ASSUME NEW k \in Keys, Flight!Database(k) PROVE Replays'
  <2>0. k \in Flight!Flights /\ UNCHANGED <<asked, seen>>
    BY <1>7 DEF Flight!Database, Flight!Flights
  <2>1. CASE Flight!Publish(k, "answer") /\ UNCHANGED at
    BY <1>0, <2>0, <2>1, PublishReplays
  <2>2. CASE at' = [at EXCEPT ![k] = "load"] /\ UNCHANGED <<replay, born, aged>>
    <3>1. \A y \in Flight!Clients : at'[y] = "drop" => at[y] = "drop"
      BY <1>0, <2>2 DEF FlightTypes
    <3> QED BY <1>a, <2>0, <2>2, <3>1 DEF Flight!FlightOf
  <2> QED BY <1>7, <2>1, <2>2 DEF Flight!Database, Flight!replayVars
<1>8. ASSUME NEW k \in Keys, Flight!AfterLive(k) PROVE Replays'
  <2>1. k \in Flight!Flights /\ UNCHANGED <<asked, seen>> /\ Flight!Publish(k, ans[k])
    BY <1>8 DEF Flight!AfterLive, Flight!Flights
  <2>2. \A y \in Flight!Clients : at'[y] = "drop" => at[y] = "drop"
    BY <1>0, <1>8 DEF Flight!AfterLive, FlightTypes
  <2> QED BY <1>0, <2>1, <2>2, PublishReplays
<1>9. CASE Flight!LiveEnds
  <2>1. Live \in Flight!Flights /\ UNCHANGED <<asked, seen, at>>
    BY <1>9 DEF Flight!LiveEnds, Flight!Flights
  <2>2. PICK v \in {"answer", "error"} : Flight!Publish(Live, v)
    BY <1>9 DEF Flight!LiveEnds
  <2> QED BY <1>0, <2>1, <2>2, PublishReplays
<1>10. ASSUME NEW f \in Flight!Flights, Flight!ReplayExpires(f) PROVE Replays'
  <2>1. aged' = [aged EXCEPT ![f] = TRUE] /\ UNCHANGED <<replay, born, seen, at, asked>>
    BY <1>10 DEF Flight!ReplayExpires, Flight!clientVars
  <2>2. aged' \in [Flight!Flights -> BOOLEAN]
    BY <2>1 DEF Replays
  <2>3. \A g \in Flight!Flights : aged[g] => aged'[g]
    BY <2>1 DEF Replays
  <2>4. \A y \in Flight!Clients : Flight!FlightOf(y)' = Flight!FlightOf(y)
    BY <2>1 DEF Flight!FlightOf
  <2> QED BY <1>0, <2>1, <2>2, <2>3, <2>4 DEF Replays
<1>11. ASSUME NEW f \in Flight!Flights, Flight!ReplayTimer(f) PROVE Replays'
  <2>1. PICK i \in 1..born[f] : /\ i < born[f] \/ aged[f]
                                /\ replay' = Flight!CompareAndDelete(f, i)
    BY <1>11 DEF Flight!ReplayTimer
  <2>2. UNCHANGED <<born, aged, seen, at, asked>> /\ i \in Nat
    BY <1>11 DEF Flight!ReplayTimer, Flight!clientVars, Replays
  <2>3. /\ replay' \in [Flight!Flights -> Nat]
        /\ \A g \in Flight!Flights : replay'[g] <= born[g] /\ (~aged[g] => replay'[g] = born[g])
    BY <2>1, <2>2, DeleteReplays
  <2> QED BY <2>2, <2>3 DEF Replays, Flight!FlightOf
<1> QED
  BY <1>1, <1>2, <1>3, <1>4, <1>5, <1>6, <1>7, <1>8, <1>9, <1>10, <1>11
     DEF Flight!Next, Flight!ClientStep, Flight!Execution

\* The answer that a flight stored last is replayed for as long as it is fresh: no
\* timer and no caller that still deals with an older one takes it away
\* (executeSearchFlight).
THEOREM FlightReplays == EntrySpec => []FreshReplayStays
<1>1. EntryInit => Replays
  BY DEF EntryInit, Flight!Init, Replays, Flight!Clients
<1>2. FlightInv /\ Replays /\ [EntryNext]_entryVars => Replays'
  <2> SUFFICES ASSUME FlightInv, Replays, [EntryNext]_entryVars PROVE Replays'
    OBVIOUS
  <2>1. Flight!Next \/ UNCHANGED flightVars
    BY DEF EntryNext, entryVars
  <2>2. CASE UNCHANGED flightVars
    BY <2>2 DEF flightVars, Replays, Flight!FlightOf
  <2> QED BY <2>1, <2>2, ReplaysStep
<1>3. Replays => FreshReplayStays
  BY DEF Replays, FreshReplayStays, Flight!FreshReplayStays
<1> QED BY <1>1, <1>2, <1>3, FlightInvariant, PTL DEF EntrySpec
=============================================================================
