-------------------------- MODULE MCSourceSnapshots --------------------------
(* Small instances of SourceSnapshots for TLC. *)
EXTENDS SourceSnapshots, TLC

CONSTANTS r1, r2, u1, u2

\* Readers, and updaters, are interchangeable.
ActorSymmetry == Permutations(Readers) \cup Permutations(Updaters)
=============================================================================
