--------------------------- MODULE MCCapability ---------------------------
(* Capabilities for TLC: a few workers, one or two callers and threads.    *)
EXTENDS Capability

CONSTANTS w1, w2, w3, b1, b2, u1, u2

Symmetry == Permutations(Workers)
============================================================================
