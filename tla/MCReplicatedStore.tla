------------------------- MODULE MCReplicatedStore -------------------------
(* Model checking instances of ReplicatedStore. *)
EXTENDS ReplicatedStore, TLC

CONSTANTS k1, k2

KeySymmetry == Permutations(Keys)
============================================================================
