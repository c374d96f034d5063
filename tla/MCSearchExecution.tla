-------------------------- MODULE MCSearchExecution --------------------------
(* A small instance of SearchExecution for TLC. *)
EXTENDS SearchExecution

CONSTANTS c1, c2, s1

Task(c, s, n) == [call |-> c, source |-> s, n |-> n]

\* A search with two tasks and another with one compete for one source.
OneSource == {Task(c1, s1, 1), Task(c1, s1, 2), Task(c2, s1, 1)}
=============================================================================
