------------------------------- MODULE MCStores -------------------------------
(* A small instance of Stores for TLC. *)
EXTENDS Stores, TLC

CONSTANTS c1, c2, n1, b1, b2, f1, e1, e2, w1, w2, m1, m2, r1, v1, x, y

\* The goroutines that merge are interchangeable, and the results.
CacheSymmetry == Permutations(Mergers) \cup Permutations(Results)
=============================================================================
