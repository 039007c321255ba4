-------------------------- MODULE JobScenarioCases --------------------------
(* Scenarios of one job: a single controller that meets several kinds of     *)
(* trouble, and two nodes that meet one kind at a time.                      *)
CONSTANTS a, b

Calm(nodes, retries) ==
    [nodes |-> nodes, at |-> a, owners |-> {a}, retries |-> retries, remote |-> FALSE,
     cancels |-> 0, deletes |-> 0, syncs |-> 0, expiries |-> 0, blocks |-> 0,
     refusals |-> 0, restarts |-> 0, ticks |-> 0]

Troubled ==
    [Calm({a}, 1) EXCEPT !.cancels = 1, !.deletes = 1, !.blocks = 1, !.refusals = 1, !.restarts = 1]

Expiring ==
    [Calm({a}, 1) EXCEPT !.cancels = 1, !.expiries = 1, !.ticks = 1, !.restarts = 1]

TwoOwners == [Calm({a, b}, 0) EXCEPT !.owners = {a, b}]

CancelledAfar ==
    [Calm({a, b}, 0) EXCEPT !.at = b, !.cancels = 1, !.deletes = 1, !.remote = TRUE]

Resynced == [Calm({a, b}, 1) EXCEPT !.syncs = 1]

CancelledStale == [Calm({a, b}, 0) EXCEPT !.cancels = 1, !.syncs = 1]

Scenarios == {Troubled, Expiring, TwoOwners, CancelledAfar, Resynced, CancelledStale}

OnlyCancelled == {[Calm({a}, 0) EXCEPT !.cancels = 1]}
=============================================================================
