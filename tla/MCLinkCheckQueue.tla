-------------------------- MODULE MCLinkCheckQueue --------------------------
(* Small instances of LinkCheckQueue for TLC. *)
EXTENDS LinkCheckQueue, TLC

CONSTANTS r1, r2, r3, pA, w1, w2

\* The resources share a platform, whose limit and circuit they contend for.
MCPlatformOf == [r \in Resources |-> pA]

\* The workers are interchangeable.
WorkerSymmetry == Permutations(Workers)
=============================================================================
