---------------------------- MODULE MCMembership ----------------------------
(* The membership of one node for TLC. *)
EXTENDS Membership

OneJoin == {[joins |-> 1, leaves |-> 0, refutes |-> 0, crashes |-> 0, served |-> 0]}
=============================================================================
