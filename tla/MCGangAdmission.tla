-------------------------- MODULE MCGangAdmission --------------------------
(* Small instances of one gang admission attempt for TLC. *)
EXTENDS GangAdmission, TLC

CONSTANTS c, t

Budget(faults, restarts, gossip, others) ==
    [fault |-> faults, restart |-> restarts, gossip |-> gossip, other |-> others]

Undisturbed == {Budget(0, 0, 0, 0)}

\* A fault and a restart, a gossiped decision, or a competing workload.
Disturbed == {Budget(1, 1, 0, 0), Budget(0, 0, 1, 0), Budget(0, 0, 0, 1)}
=============================================================================
