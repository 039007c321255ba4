------------------------- MODULE MCReplicatedVolume -------------------------
(***************************************************************************)
(* ReplicatedVolume for TLC.  Each scenario bounds one kind of trouble:    *)
(* handoffs between writers, restarts, a retried path, a power failure, a  *)
(* failed write, and three copies of which a recovery keeps two.           *)
(***************************************************************************)
EXTENDS ReplicatedVolume

Symmetry == Permutations(Nodes)

Scenario(copies, mounted, entries, ops) ==
  [copies |-> copies, mounted |-> mounted, log |-> entries, ops |-> ops,
   detaches |-> 0, restarts |-> 0, power |-> 0, failures |-> 0, tries |-> 0]

Handoff == [Scenario(2, FALSE, 4, 2) EXCEPT !.detaches = 1]

Restarted == [Scenario(2, TRUE, 3, 2) EXCEPT !.restarts = 1]

Retried == [Scenario(2, FALSE, 3, 1) EXCEPT !.restarts = 1, !.tries = 1]

PowerLost == [Scenario(2, TRUE, 3, 2) EXCEPT !.power = 1]

WriteFailed == [Scenario(2, TRUE, 3, 2) EXCEPT !.failures = 1]

ThreeCopies == Scenario(3, TRUE, 2, 2)

AllScenarios == {Handoff, Restarted, Retried, PowerLost, WriteFailed, ThreeCopies}
=============================================================================
