--------------------------- MODULE SearchAdmission ---------------------------
(***************************************************************************)
(* Admission to live search (service/scheduler/scheduler.go, Acquire and   *)
(* Admission.Release; called lazily by service/search_scheduler.go and by  *)
(* the background refreshes of service/search_service.go).                 *)
(*                                                                         *)
(* At most ActiveSearches searches run at once.  A collection or a refresh *)
(* needs a background token first, of which there are fewer than slots, so *)
(* that interactive searches keep some.  When no slot is free a search     *)
(* waits, counted by s.waiting, and is turned away when SearchQueue        *)
(* searches wait already.                                                  *)
(*                                                                         *)
(* The counter, the token and the slot are separate pieces of state, taken *)
(* and given back in separate steps; each action is one of them.  The slot *)
(* is a buffered channel: blocked senders are served first come, first     *)
(* served, and a receive hands the freed place to the first of them.       *)
(***************************************************************************)
EXTENDS Integers, Sequences, FiniteSets, SequencesExt

CONSTANTS
    Interactive,     \* callers that search with PriorityInteractive
    Background,      \* callers with PriorityCollection or PriorityBackground
    ActiveSearches,  \* capacity of s.active
    SearchQueue      \* how many searches may wait

Searches == Interactive \cup Background

ASSUME AdmissionAssumption ==
    /\ IsFiniteSet(Interactive) /\ IsFiniteSet(Background)
    /\ Interactive \cap Background = {}
    /\ ActiveSearches \in Nat \ {0} /\ SearchQueue \in Nat \ {0}

\* Mutant: every slot may go to the background.
BackgroundCapAll == ActiveSearches

\* max(1, ActiveSearches-2), the capacity of s.background.
BackgroundCap == IF ActiveSearches > 3 THEN ActiveSearches - 2 ELSE 1

VARIABLES
    pc,         \* where each caller is in Acquire or its search
    active,     \* filled places of s.active
    sendq,      \* callers blocked sending to s.active, in order
    background, \* filled places of s.background
    waiting     \* s.waiting

vars == <<pc, active, sendq, background, waiting>>

\* idle: not in the scheduler     try: holds what it needs to ask for a slot
\* count: no slot was free        reject: the queue was full
\* select: may wait for a slot    wait: blocked in the select
\* won: has a slot, still counted quit: the context ended, still counted
\* admitted: searching            untoken: about to return the token
PCs == {"idle", "try", "count", "reject", "select", "wait", "won", "quit",
        "admitted", "untoken"}

TypeOK ==
    /\ pc \in [Searches -> PCs]
    /\ active \in 0..ActiveSearches
    /\ sendq \in Seq(Searches)
    /\ background \in 0..BackgroundCap
    /\ waiting \in Nat

Init ==
    /\ pc = [s \in Searches |-> "idle"]
    /\ active = 0 /\ sendq = <<>> /\ background = 0 /\ waiting = 0

Goto(s, l) == pc' = [pc EXCEPT ![s] = l]

\* Where a caller goes that leaves without, or after, its slot.
Out(s) == IF s \in Background THEN "untoken" ELSE "idle"

-----------------------------------------------------------------------------
\* A background caller takes a token or is turned away at once.
ArriveInteractive(s) ==
    /\ s \in Interactive /\ pc[s] = "idle"
    /\ Goto(s, "try")
    /\ UNCHANGED <<active, sendq, background, waiting>>

ArriveBackground(s) ==
    /\ s \in Background /\ pc[s] = "idle"
    /\ background < BackgroundCap
    /\ background' = background + 1
    /\ Goto(s, "try")
    /\ UNCHANGED <<active, sendq, waiting>>

\* The first, non-blocking send.
TryActive(s) ==
    /\ pc[s] = "try"
    /\ IF active < ActiveSearches
       THEN active' = active + 1 /\ Goto(s, "admitted")
       ELSE active' = active /\ Goto(s, "count")
    /\ UNCHANGED <<sendq, background, waiting>>

\* s.waiting.Add(1) and the comparison of what it returned.
Count(s) ==
    /\ pc[s] = "count"
    /\ waiting' = waiting + 1
    /\ Goto(s, IF waiting' > SearchQueue THEN "reject" ELSE "select")
    /\ UNCHANGED <<active, sendq, background>>

\* The select: a slot that has become free in the meantime, the end of the
\* context, or the queue of blocked senders.
Select(s) ==
    /\ pc[s] = "select"
    /\ \/ /\ active < ActiveSearches
          /\ active' = active + 1
          /\ Goto(s, "won")
          /\ UNCHANGED sendq
       \/ Goto(s, "quit") /\ UNCHANGED <<active, sendq>>
       \/ /\ active = ActiveSearches
          /\ sendq' = Append(sendq, s)
          /\ Goto(s, "wait")
          /\ UNCHANGED active
    /\ UNCHANGED <<background, waiting>>

\* The context of a blocked caller ends.
GiveUp(s) ==
    /\ pc[s] = "wait"
    /\ \E i \in DOMAIN sendq : sendq[i] = s /\ sendq' = RemoveAt(sendq, i)
    /\ Goto(s, "quit")
    /\ UNCHANGED <<active, background, waiting>>

\* s.waiting.Add(-1), when rejected or deferred.
Uncount(s) ==
    /\ pc[s] \in {"reject", "won", "quit"}
    /\ waiting' = waiting - 1
    /\ Goto(s, IF pc[s] = "won" THEN "admitted" ELSE Out(s))
    /\ UNCHANGED <<active, sendq, background>>

\* Mutants: the freed place is not handed over; it goes to the last in line.
ReleaseNoHandover(s) ==
    /\ pc[s] = "admitted"
    /\ active' = active - 1
    /\ Goto(s, Out(s))
    /\ UNCHANGED <<sendq, background, waiting>>

ReleaseToLast(s) ==
    /\ pc[s] = "admitted"
    /\ IF sendq = <<>>
       THEN active' = active - 1 /\ Goto(s, Out(s)) /\ UNCHANGED sendq
       ELSE /\ pc' = [pc EXCEPT ![s] = Out(s), ![Last(sendq)] = "won"]
            /\ sendq' = Front(sendq)
            /\ UNCHANGED active
    /\ UNCHANGED <<background, waiting>>

\* Admission.Release: the receive from s.active fills the place it frees with
\* the first blocked sender.
Release(s) ==
    /\ pc[s] = "admitted"
    /\ IF sendq = <<>>
       THEN active' = active - 1 /\ Goto(s, Out(s)) /\ UNCHANGED sendq
       ELSE /\ pc' = [pc EXCEPT ![s] = Out(s), ![Head(sendq)] = "won"]
            /\ sendq' = Tail(sendq)
            /\ UNCHANGED active
    /\ UNCHANGED <<background, waiting>>

\* The background token goes back last.
ReturnToken(s) ==
    /\ pc[s] = "untoken"
    /\ background' = background - 1
    /\ Goto(s, "idle")
    /\ UNCHANGED <<active, sendq, waiting>>

Step(s) ==
    \/ TryActive(s) \/ Count(s) \/ Select(s) \/ Uncount(s) \/ Release(s)
    \/ ReturnToken(s)

Next ==
    \E s \in Searches :
      ArriveInteractive(s) \/ ArriveBackground(s) \/ Step(s) \/ GiveUp(s)

Spec == Init /\ [][Next]_vars

-----------------------------------------------------------------------------
(* Properties *)

Holding == {s \in Searches : pc[s] \in {"won", "admitted"}}

FairAdmission == INSTANCE FairSlots
    WITH Clients <- Searches, Slots <- ActiveSearches, BackgroundSlots <- BackgroundCap,
         LineLimit <- SearchQueue, holders <- Holding, line <- sendq

\* The counter, the tokens and the channel of Acquire and Release implement
\* FairSlots: whatever interleaves, no search overtakes one that is blocked, a freed
\* slot goes to the first of them at once, and the limits hold.
ImplementsFairSlots == FairAdmission!Spec

\* A blocked caller means a full channel: no slot stays free while a search
\* waits, and whoever waits is in line exactly once.
NoIdleSlot ==
    /\ sendq # <<>> => active = ActiveSearches
    /\ \A s \in Searches :
         pc[s] = "wait" <=> Cardinality({i \in DOMAIN sendq : sendq[i] = s}) = 1

\* Background work leaves foreground capacity: while an interactive search
\* waits, at least two slots (one of two, none of one) serve interactive ones.
ForegroundReserved ==
    (\E s \in Interactive : pc[s] = "wait") =>
      Cardinality(Holding \cap Interactive) >=
        IF ActiveSearches > 2 THEN 2 ELSE ActiveSearches - 1

\* Whoever waits is served, by the order of the queue alone: also when new
\* searches arrive without end and no context ever ends.
WaiterIsServed == \A s \in Searches : pc[s] = "wait" ~> pc[s] # "wait"
=============================================================================
