---------------------------- MODULE MCScheduler ----------------------------
(* Small instances of the target-side scheduler for TLC. *)
EXTENDS SchedulerTable, TLC

CONSTANTS s1, s2, g1, t1, t2, c1

Symmetry == Permutations({s1, s2}) \cup Permutations({t1, t2})
=============================================================================
