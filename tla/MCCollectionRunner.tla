------------------------- MODULE MCCollectionRunner -------------------------
(* Small instances of CollectionRunner for TLC. *)
EXTENDS CollectionRunner

CONSTANT x1

\* Results to explore: every keyword search succeeds and is stored.
Succeeding == {<<"success", TRUE>>}
=============================================================================
