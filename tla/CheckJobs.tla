------------------------------ MODULE CheckJobs ------------------------------
(***************************************************************************)
(* What the link-check queue promises, without workers, counters, channels *)
(* and wake-ups: a candidate that is accepted is checked once, after those *)
(* of its platform that were accepted before it, and its result is settled *)
(* once; until then the same resource is not accepted again.  A platform   *)
(* has a limited number of checks at a time, and one at a time while it is *)
(* tripped.                                                                *)
(***************************************************************************)
EXTENDS Integers, Sequences, FiniteSets

CONSTANTS
    Resources, Platforms, PlatformOf,
    Buffer,        \* bounds the accepted candidates that are not being checked
    PlatformLimit  \* checks of a platform at a time

VARIABLES
    line,     \* the candidates of each platform that wait, in order
    running,  \* the candidates that are being checked
    checked,  \* the candidates whose result is not settled
    tripped   \* the platforms whose checks have failed

vars == <<line, running, checked, tripped>>

Waits(r) == \E p \in Platforms : \E i \in 1..Len(line[p]) : line[p][i] = r

\* Accepted, and not being checked.
Idle == {r \in Resources : Waits(r)} \cup checked

On(p) == {r \in running : PlatformOf[r] = p}

Init ==
    /\ line = [p \in Platforms |-> <<>>]
    /\ running = {} /\ checked = {} /\ tripped = {}

Submit(r) ==
    /\ r \notin Idle \cup running
    /\ Cardinality(Idle) < Buffer
    /\ line' = [line EXCEPT ![PlatformOf[r]] = Append(@, r)]
    /\ UNCHANGED <<running, checked, tripped>>

\* The first candidate of platform p is taken.
Begin(p) ==
    /\ line[p] # <<>>
    /\ Cardinality(On(p)) < PlatformLimit
    /\ p \in tripped => On(p) = {}
    /\ running' = running \cup {Head(line[p])}
    /\ line' = [line EXCEPT ![p] = Tail(@)]
    /\ UNCHANGED <<checked, tripped>>

\* The check of r ends, and decides whether its platform is tripped.
End(r) ==
    /\ r \in running
    /\ running' = running \ {r} /\ checked' = checked \cup {r}
    /\ tripped' \ {PlatformOf[r]} = tripped \ {PlatformOf[r]}
    /\ UNCHANGED line

Settle(r) ==
    /\ r \in checked
    /\ checked' = checked \ {r}
    /\ UNCHANGED <<line, running, tripped>>

\* A new generation begins once every check of the last one is settled; what still
\* waited is forgotten.
Restart ==
    /\ running = {} /\ checked = {}
    /\ line' = [p \in Platforms |-> <<>>] /\ tripped' = {}
    /\ UNCHANGED <<running, checked>>

Next ==
    \/ \E r \in Resources : Submit(r) \/ End(r) \/ Settle(r)
    \/ \E p \in Platforms : Begin(p)
    \/ Restart

Spec == Init /\ [][Next]_vars
=============================================================================
