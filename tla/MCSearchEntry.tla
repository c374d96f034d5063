---------------------------- MODULE MCSearchEntry ----------------------------
(* A small instance of SearchEntry for TLC. *)
EXTENDS SearchEntry

CONSTANTS i1, i2, i3, b1, b2, c1, c2, k1, k2, q1, q2, q3

\* Limits that bind in both windows, before and after an administrator's change.
MCLimits    == {[rps |-> 1, rpm |-> 2], [rps |-> 2, rpm |-> 3]}
MCUnlimited == [rps |-> 0, rpm |-> 0]
=============================================================================
