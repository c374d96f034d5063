------------------------------ MODULE FairSlots ------------------------------
(***************************************************************************)
(* What the admission to live search promises, without counters, tokens    *)
(* and program counters: a fixed number of slots, some of them out of      *)
(* reach for background clients, and one bounded line.  A slot is taken    *)
(* past the line only when nobody stands in it; a slot that is given back  *)
(* goes to the first in line in the same step.                             *)
(***************************************************************************)
EXTENDS Integers, Sequences, FiniteSets, SequencesExt

CONSTANTS
    Clients,
    Background,       \* the clients that must leave slots to the others
    Slots,
    BackgroundSlots,  \* how many of them may hold or wait for a slot
    LineLimit         \* how many may stand in line

VARIABLES
    holders,  \* who has a slot
    line      \* who waits for one, in order

vars == <<holders, line>>

InLine == {line[i] : i \in DOMAIN line}

Init == holders = {} /\ line = <<>>

\* c has neither a slot nor a place in line, and may have one.
MayCome(c) ==
    /\ c \notin holders \cup InLine
    /\ c \in Background =>
         Cardinality((holders \cup InLine) \cap Background) < BackgroundSlots

Enter(c) ==
    /\ MayCome(c)
    /\ line = <<>> /\ Cardinality(holders) < Slots
    /\ holders' = holders \cup {c}
    /\ UNCHANGED line

QueueUp(c) ==
    /\ MayCome(c)
    /\ Cardinality(holders) = Slots /\ Len(line) < LineLimit
    /\ line' = Append(line, c)
    /\ UNCHANGED holders

\* c loses patience; the others keep their order.
Abandon(c) ==
    /\ \E i \in DOMAIN line : line[i] = c /\ line' = RemoveAt(line, i)
    /\ UNCHANGED holders

Leave(c) ==
    /\ c \in holders
    /\ IF line = <<>>
       THEN holders' = holders \ {c} /\ UNCHANGED line
       ELSE /\ holders' = (holders \ {c}) \cup {Head(line)}
            /\ line' = Tail(line)

Next == \E c \in Clients : Enter(c) \/ QueueUp(c) \/ Abandon(c) \/ Leave(c)

Spec == Init /\ [][Next]_vars
=============================================================================
