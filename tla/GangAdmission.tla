--------------------------- MODULE GangAdmission ---------------------------
(***************************************************************************)
(* One all-or-nothing admission attempt of a workload group ("gang").      *)
(*                                                                         *)
(* The coordinator writes a replicated decision record, prepares a lease   *)
(* group on every target, materialises PendingGroup rows, commits the      *)
(* leases, records CommitDecided, publishes the rows, launches its own     *)
(* members and records Completed (workload/manager/mod.rs).  Every node    *)
(* runs a periodic reconcile loop over its own copy of the record and of   *)
(* the rows (workload/manager/state.rs), which is also what finishes or    *)
(* undoes the attempt when the coordinator crashes.                        *)
(*                                                                         *)
(* A group has one member per target, so a member is named by its target.  *)
(* The scheduler of a target is reduced to the one slot the member needs:  *)
(* Scheduler.tla models it in full.  A retry of the attempt uses a fresh   *)
(* group id and is a new instance of this module.                          *)
(***************************************************************************)
EXTENDS Naturals, FiniteSets, Sequences, FiniteSetsExt

CONSTANTS
    Nodes,        \* cluster members
    Coord,        \* the node that runs start_workloads_gang
    Targets,      \* nodes that receive a member
    TTL,          \* DEFAULT_PREPARED_LEASE_TTL_MS, in clock ticks
    MaxTime,      \* bound on the clock
    Gossiped,     \* record phases whose gossip is not lost
    Budgets       \* [fault, restart, gossip, other]: how many failed writes,
                  \*   failed launches and lost RPCs, daemon restarts, gossiped
                  \*   records, and competing workloads a behaviour may have

ASSUME GangConstants ==
    /\ Coord \in Nodes
    /\ Targets \subseteq Nodes
    /\ Targets # {}
    /\ {TTL, MaxTime} \subseteq Nat
    /\ Budgets \subseteq [{"fault", "restart", "gossip", "other"} -> Nat]

VARIABLES
    pc,         \* step of start_workloads_gang
    todo,       \* rollback stages still to run, in order
    left,       \* peers the current RPC loop has not handled yet
    held,       \* targets whose prepare answered
    acked,      \* targets whose commit answered; kept across a crash
    straggler,  \* requests the coordinator gave up on that may still arrive
    reg,        \* reg[n]: the register of the decision record at node n
    expires,    \* lease_expires_at_unix_ms of the record
    sent,       \* record phases ever gossiped
    row,        \* row[n][k]: node n's copy of member k's workload row
    rowExpires, \* updated_at + TTL of the PendingGroup rows
    slot,       \* slot[k]: what holds the slot member k was assigned
    leaseEnd,   \* expiry of the prepared lease on k's slot
    launching,  \* launching[k]: a launch of member k holds its reconcile guard
    inst,       \* inst[k]: member k's runtime instance runs
    now,
    missed,     \* deadlines missed, abort decisions lost and slots taken, see Settles
    budget      \* remaining faults of each kind

coordVars == <<pc, todo, left, held, acked>>
recVars == <<reg, expires, sent>>
rowVars == <<row, rowExpires>>
slotVars == <<slot, leaseEnd>>
runVars == <<launching, inst>>
vars == <<coordVars, straggler, recVars, rowVars, slotVars, runVars, now, missed, budget>>

-----------------------------------------------------------------------------
(* The replicated decision record.                                         *)

Phases == {"Preparing", "CommitDecided", "Completed", "AbortDecided"}

Rank(p) ==
    CASE p = "none" -> 0
      [] p = "Preparing" -> 1
      [] p = "CommitDecided" -> 2
      [] p = "Completed" -> 3
      [] p = "AbortDecided" -> 4

allows_adoption(p) == p \in {"CommitDecided", "Completed"}
requires_abort(p) == p = "AbortDecided"

\* The selected record of a node: concurrent values are ordered by phase rank.
Best(n) ==
    IF reg[n] = {} THEN "none"
    ELSE (CHOOSE v \in reg[n] : \A w \in reg[n] : Rank(v.phase) >= Rank(w.phase)).phase

Below(c, d) == c # d /\ \A n \in Nodes : c[n] <= d[n]

\* A local upsert supersedes every value the node has seen.
Upsert(n, p) ==
    LET top == [m \in Nodes |-> Max({0} \cup {v.clock[m] : v \in reg[n]})]
    IN  [reg EXCEPT ![n] = {[phase |-> p, clock |-> [top EXCEPT ![n] = @ + 1]]}]

\* Anti-entropy keeps the values that no other value supersedes.
MergeReg(a, b) ==
    {v \in a \cup b : ~ \E w \in a \cup b : Below(v.clock, w.clock)}

\* persist_admission_group_record: a store write, then best-effort gossip.
PersistRecord(n, p) ==
    /\ reg' = Upsert(n, p)
    /\ sent' = sent \cup {p}
    /\ UNCHANGED expires

is_preparing_expired(n) == Best(n) = "Preparing" /\ expires <= now

-----------------------------------------------------------------------------
(* Rows.  A row is numbered by its assignment epoch e and its state: 3e+1  *)
(* PendingGroup, 3e+2 GroupCommitted, 3e+3 removed through epoch e; 0 is   *)
(* no row.  The store selects the larger of two copies, and refuses a      *)
(* write at an epoch that was removed.                                     *)

IsPending(r) == r % 3 = 1
IsLive(r) == r % 3 # 0
Committed(r) == IF IsPending(r) THEN r + 1 ELSE r
\* Mutant: the removal goes to the epoch before.
RemovedRowBack(r) == IF IsLive(r) THEN r - 3 ELSE r
RemovedRow(r) == IF IsLive(r) THEN r + 3 - (r % 3) ELSE r

\* next_task_epoch_for_assignment: a removed row comes back at the next epoch.
Republished(r) == IF r = 0 \/ IsLive(r) THEN Committed(r) ELSE r + 2

\* abort_task_lease_group drops the group's leases and its reservations.
AbortLeaseGroup(K) ==
    /\ slot' = [k \in Targets |->
                  IF k \in K /\ slot[k] \in {"leased", "reserved"}
                  THEN "free" ELSE slot[k]]
    /\ leaseEnd' = [k \in Targets |-> IF k \in K THEN 0 ELSE leaseEnd[k]]

Spend(kind) ==
    /\ budget[kind] > 0
    /\ budget' = [budget EXCEPT ![kind] = @ - 1]

Init ==
    /\ pc = "idle" /\ todo = <<>>
    /\ left = {} /\ held = {} /\ acked = {} /\ straggler = {}
    /\ reg = [n \in Nodes |-> {}] /\ expires = 0 /\ sent = {}
    /\ row = [n \in Nodes |-> [k \in Targets |-> 0]] /\ rowExpires = 0
    /\ slot = [k \in Targets |-> "free"]
    /\ leaseEnd = [k \in Targets |-> 0]
    /\ launching = [k \in Targets |-> FALSE]
    /\ inst = [k \in Targets |-> FALSE]
    /\ now = 0 /\ missed = {}
    /\ budget \in Budgets

-----------------------------------------------------------------------------
(* The coordinator, up to the decision.                                    *)

Remote == Targets \ {Coord}

\* The attempt fails; the stages are the order in which the code undoes it.
Rollback(stages) ==
    /\ pc' = "undo"
    /\ todo' = stages
    /\ left' = held \ {Coord}

UndoPrepare == <<"release", "record", "local">>
UndoMaterialize == <<"record", "release", "local">>
UndoCommit == <<"record", "rows", "release", "local">>
UndoDecision == <<"record", "stop", "release", "local", "rows">>
UndoLaunch == <<"record", "unlaunch", "stop", "release", "local", "rows">>

Begin ==
    /\ pc = "idle" /\ now = 0
    /\ reg' = Upsert(Coord, "Preparing")
    /\ sent' = sent \cup {"Preparing"}
    /\ expires' = now + TTL
    /\ pc' = "prepare"
    /\ left' = Targets
    /\ UNCHANGED <<todo, held, acked, straggler, rowVars, slotVars, runVars,
                   now, missed, budget>>

\* The local group is prepared before any remote one.
MayPrepare(k) == pc = "prepare" /\ k \in left /\ (Coord \in left => k = Coord)

Available(k) == slot[k] = "free" \/ (slot[k] = "leased" /\ leaseEnd[k] <= now)

Grant(K) ==
    /\ slot' = [k \in Targets |-> IF k \in K THEN "leased" ELSE slot[k]]
    /\ leaseEnd' = [k \in Targets |-> IF k \in K THEN now + TTL ELSE leaseEnd[k]]

PrepareOk(k) ==
    /\ MayPrepare(k) /\ Available(k) /\ now < MaxTime
    /\ Grant({k})
    /\ held' = held \cup {k}
    /\ left' = left \ {k}
    /\ UNCHANGED <<pc, todo, acked, straggler, recVars, rowVars, runVars, now, missed, budget>>

\* A peer refuses or its answer is lost.  Requests already in flight to other
\* peers are drained and those that were granted are released again.
PrepareFails(k) ==
    /\ MayPrepare(k)
    /\ \/ ~Available(k) /\ UNCHANGED <<straggler, budget>>
       \/ /\ k # Coord /\ Spend("fault")
          /\ straggler' = straggler \cup {<<"prepare", k>>}
    /\ \E K \in SUBSET {j \in left \ {k} : k # Coord /\ Available(j)} :
          /\ Grant(K)
          /\ held' = held \cup K
          /\ pc' = "undo"
          /\ left' = (held \cup K) \ {Coord}
    /\ todo' = UndoPrepare
    /\ UNCHANGED <<acked, recVars, rowVars, runVars, now, missed>>

\* Rows are persisted at the coordinator, remote members first.
Materialize(K) ==
    /\ row' = [row EXCEPT ![Coord] = [k \in Targets |-> IF k \in K THEN 1 ELSE @[k]]]
    /\ rowExpires' = now + TTL

\* Mutant: the commit loop forgets the local group.
MaterializeOkRemote ==
    /\ pc = "prepare" /\ left = {}
    /\ Materialize(Targets)
    /\ pc' = "commit"
    /\ left' = Remote
    /\ UNCHANGED <<todo, held, acked, straggler, recVars, slotVars, runVars, now, missed,
                   budget>>

MaterializeOk ==
    /\ pc = "prepare" /\ left = {}
    /\ Materialize(Targets)
    /\ pc' = "commit"
    /\ left' = Targets
    /\ UNCHANGED <<todo, held, acked, straggler, recVars, slotVars, runVars, now, missed, budget>>

MaterializeFails ==
    /\ pc = "prepare" /\ left = {} /\ Spend("fault")
    /\ \/ Rollback(UndoMaterialize) /\ UNCHANGED rowVars
       \/ Rollback(UndoCommit) /\ Materialize(Remote)
    /\ UNCHANGED <<held, acked, straggler, recVars, slotVars, runVars, now, missed>>

\* Remote groups are committed before the local one.
MayCommit(k) == pc = "commit" /\ k \in left /\ (k = Coord => left = {Coord})

Committable(k) == slot[k] = "leased" /\ leaseEnd[k] > now

\* A prepared lease ends, in a reservation or in a free slot.
Settle(k, state) ==
    /\ slot' = [slot EXCEPT ![k] = state]
    /\ leaseEnd' = [leaseEnd EXCEPT ![k] = 0]

CommitOk(k) ==
    /\ MayCommit(k) /\ Committable(k)
    /\ Settle(k, "reserved")
    /\ acked' = acked \cup {k}
    /\ left' = left \ {k}
    /\ UNCHANGED <<pc, todo, held, straggler, recVars, rowVars, runVars, now, missed, budget>>

CommitFails(k) ==
    /\ MayCommit(k)
    /\ \/ ~Committable(k) /\ UNCHANGED <<straggler, budget>>
       \/ /\ k # Coord /\ Spend("fault")
          /\ straggler' = straggler \cup {<<"commit", k>>}
    /\ Rollback(UndoCommit)
    /\ UNCHANGED <<held, acked, recVars, rowVars, slotVars, runVars, now, missed>>

\* A request whose connection broke may still be served, at any later time.
StragglerArrives(k) ==
    /\ \/ /\ <<"prepare", k>> \in straggler
          /\ straggler' = straggler \ {<<"prepare", k>>}
          /\ now < MaxTime
          /\ IF Available(k) THEN Grant({k}) ELSE UNCHANGED slotVars
       \/ /\ <<"commit", k>> \in straggler
          /\ straggler' = straggler \ {<<"commit", k>>}
          /\ IF Committable(k) THEN Settle(k, "reserved") ELSE UNCHANGED slotVars
    /\ UNCHANGED <<coordVars, recVars, rowVars, runVars, now, missed, budget>>

-----------------------------------------------------------------------------
(* The coordinator, from the decision on.                                  *)

\* advance_admission_group_record writes from the coordinator's own copy: it
\* neither reads the stored record again nor looks at the clock.
Decide ==
    /\ pc = "commit" /\ left = {}
    /\ PersistRecord(Coord, "CommitDecided")
    /\ missed' = missed \cup (IF expires <= now THEN {"decide"} ELSE {})
    /\ pc' = "mark"
    /\ UNCHANGED <<todo, left, held, acked, straggler, rowVars, slotVars, runVars,
                   now, budget>>

DecideFails ==
    /\ pc = "commit" /\ left = {} /\ Spend("fault")
    /\ Rollback(UndoDecision)
    /\ UNCHANGED <<held, acked, straggler, recVars, rowVars, slotVars, runVars, now, missed>>

\* mark_group_specs_committed: the batch is refused if a row was removed.
Mark ==
    /\ pc = "mark"
    /\ \A k \in Targets : IsLive(row[Coord][k])
    /\ row' = [row EXCEPT ![Coord] = [k \in Targets |-> Committed(@[k])]]
    /\ pc' = IF Coord \in Targets THEN "claim" ELSE "complete"
    /\ UNCHANGED <<todo, left, held, acked, straggler, recVars, rowExpires, slotVars,
                   runVars, now, missed, budget>>

MarkFails ==
    /\ pc = "mark"
    /\ \/ (\E k \in Targets : ~IsLive(row[Coord][k])) /\ UNCHANGED budget
       \/ Spend("fault")
    /\ Rollback(UndoDecision)
    /\ UNCHANGED <<held, acked, straggler, recVars, rowVars, slotVars, runVars, now, missed>>

\* start_local_group_instances claims the member's reconcile guard, or gives up
\* the whole group when the reconcile loop holds it, and persists the row.
Claim ==
    /\ pc = "claim"
    /\ IF launching[Coord]
       THEN Rollback(UndoDecision) /\ UNCHANGED <<launching, row>>
       ELSE /\ pc' = "launch"
            /\ launching' = [launching EXCEPT ![Coord] = TRUE]
            /\ row' = [row EXCEPT ![Coord][Coord] = Republished(@)]
            /\ UNCHANGED <<todo, left>>
    /\ UNCHANGED <<held, acked, straggler, recVars, rowExpires, slotVars, inst, now,
                   missed, budget>>

\* launch_batch_instances does not look at the scheduler again.
LaunchLocal ==
    /\ pc = "launch"
    /\ IsLive(row[Coord][Coord])
    /\ inst' = [inst EXCEPT ![Coord] = TRUE]
    /\ launching' = [launching EXCEPT ![Coord] = FALSE]
    /\ pc' = "complete"
    /\ UNCHANGED <<todo, left, held, acked, straggler, recVars, rowVars, slotVars,
                   now, missed, budget>>

\* The runtime refuses, or commit_batch finds the row removed.
LaunchFails ==
    /\ pc = "launch"
    /\ \/ ~IsLive(row[Coord][Coord]) /\ UNCHANGED budget
       \/ Spend("fault")
    /\ Rollback(UndoLaunch)
    /\ UNCHANGED <<held, acked, straggler, recVars, rowVars, slotVars, runVars, now,
                   missed>>

\* A failed write of Completed is only logged.
Complete ==
    /\ pc = "complete"
    /\ \/ PersistRecord(Coord, "Completed") /\ UNCHANGED budget
       \/ Spend("fault") /\ UNCHANGED recVars
    /\ pc' = "done"
    /\ UNCHANGED <<todo, left, held, acked, straggler, rowVars, slotVars, runVars, now, missed>>

-----------------------------------------------------------------------------
(* The coordinator's rollback.                                             *)

Stage(s) == pc = "undo" /\ todo # <<>> /\ Head(todo) = s

NextStage ==
    /\ todo' = Tail(todo)
    /\ pc' = IF Tail(todo) = <<>> THEN "failed" ELSE pc

\* abort_admission_group_record; when the write fails the rollback goes on.
UndoRecord ==
    /\ Stage("record")
    /\ \/ PersistRecord(Coord, "AbortDecided") /\ UNCHANGED <<missed, budget>>
       \/ /\ Spend("fault") /\ UNCHANGED recVars
          /\ missed' = missed \cup (IF "CommitDecided" \in sent THEN {"abort"} ELSE {})
    /\ NextStage
    /\ UNCHANGED <<left, held, acked, straggler, rowVars, slotVars, runVars, now>>

UndoRows ==
    /\ Stage("rows")
    /\ row' = [row EXCEPT ![Coord] = [k \in Targets |-> RemovedRow(@[k])]]
    /\ NextStage
    /\ UNCHANGED <<left, held, acked, straggler, recVars, rowExpires, slotVars, runVars,
                   now, missed, budget>>

\* cleanup_batch and rollback_pending_specs undo the local launch, and the
\* reconcile guard is released.
UndoLocalLaunch ==
    /\ Stage("unlaunch")
    /\ inst' = [inst EXCEPT ![Coord] = FALSE]
    /\ launching' = [launching EXCEPT ![Coord] = FALSE]
    /\ AbortLeaseGroup({Coord})
    /\ row' = [row EXCEPT ![Coord][Coord] = RemovedRow(@)]
    /\ NextStage
    /\ UNCHANGED <<left, held, acked, straggler, recVars, rowExpires, now, missed, budget>>

\* signal_remote_stop: a peer that cannot be reached is skipped.
UndoRunning ==
    /\ Stage("stop")
    /\ \E K \in SUBSET left :
          /\ IF K = left THEN UNCHANGED budget ELSE Spend("fault")
          /\ inst' = [k \in Targets |-> inst[k] /\ k \notin K]
          /\ row' = [n \in Nodes |-> [k \in Targets |->
                       IF n = k /\ k \in K THEN RemovedRow(row[n][k]) ELSE row[n][k]]]
    /\ NextStage
    /\ UNCHANGED <<left, held, acked, straggler, recVars, rowExpires, slotVars, launching,
                   now, missed>>

\* abort_remote_lease_groups: best effort, peer by peer.
UndoRemote(k) ==
    /\ Stage("release") /\ k \in left
    /\ left' = left \ {k}
    /\ \/ AbortLeaseGroup({k}) /\ UNCHANGED budget
       \/ Spend("fault") /\ UNCHANGED slotVars
    /\ UNCHANGED <<pc, todo, held, acked, straggler, recVars, rowVars, runVars, now,
                   missed>>

RemotesUndone ==
    /\ Stage("release") /\ left = {}
    /\ NextStage
    /\ UNCHANGED <<left, held, acked, straggler, recVars, rowVars, slotVars, runVars,
                   now, missed, budget>>

UndoLocal ==
    /\ Stage("local")
    /\ AbortLeaseGroup({Coord})
    /\ NextStage
    /\ UNCHANGED <<left, held, acked, straggler, recVars, rowVars, runVars, now, missed, budget>>

-----------------------------------------------------------------------------
(* The reconcile loop of every node.                                       *)

ReapExpiredLeases(k) ==
    /\ slot[k] = "leased" /\ leaseEnd[k] <= now
    /\ Settle(k, "free")
    /\ UNCHANGED <<coordVars, straggler, recVars, rowVars, runVars, now, missed, budget>>

\* cleanup_aborted_group_member on the members this node owns.
CleanupMember(n) ==
    IF n \in Targets
    THEN /\ AbortLeaseGroup({n})
         /\ row' = [row EXCEPT ![n][n] = RemovedRow(@)]
         /\ inst' = IF IsLive(row[n][n]) THEN [inst EXCEPT ![n] = FALSE] ELSE inst
    ELSE UNCHANGED <<slotVars, row, inst>>

\* reconcile_admission_groups: any node turns an expired preparing record into
\* an abort, and applies an abort to its own members.
ReconcileGroups(n) ==
    /\ is_preparing_expired(n) \/ requires_abort(Best(n))
    /\ IF is_preparing_expired(n)
       THEN /\ PersistRecord(n, "AbortDecided")
            /\ missed' = missed \cup (IF "CommitDecided" \in sent THEN {"spread"} ELSE {})
       ELSE UNCHANGED <<recVars, missed>>
    /\ CleanupMember(n)
    /\ UNCHANGED <<coordVars, straggler, rowExpires, launching, now, budget>>

\* A pending row whose record never arrived is dropped after the lease TTL.
CleanupOrphan(k) ==
    /\ Best(k) = "none" /\ IsPending(row[k][k]) /\ ~launching[k]
    /\ rowExpires <= now
    /\ AbortLeaseGroup({k})
    /\ row' = [row EXCEPT ![k][k] = RemovedRow(@)]
    /\ missed' = missed \cup {"record"}
    /\ UNCHANGED <<coordVars, straggler, recVars, rowExpires, runVars, now, budget>>

\* ensure_task_slot_reservations: a free slot is reserved again.
Reservable(k) == slot[k] \in {"free", "reserved"}

Reserve(k) ==
    /\ slot' = IF slot[k] = "free" THEN [slot EXCEPT ![k] = "reserved"] ELSE slot
    /\ UNCHANGED leaseEnd

\* A member whose group is decided is adopted; its launch starts when the slot
\* is the member's or free, and otherwise the row alone is adopted.
Adopt(k) ==
    /\ IsLive(row[k][k]) /\ allows_adoption(Best(k))
    /\ ~launching[k] /\ ~inst[k]
    /\ row' = [row EXCEPT ![k][k] = Committed(@)]
    /\ IF Reservable(k)
       THEN Reserve(k) /\ launching' = [launching EXCEPT ![k] = TRUE]
       ELSE UNCHANGED <<slotVars, launching>>
    /\ UNCHANGED <<coordVars, straggler, recVars, rowExpires, inst, now, missed, budget>>

\* The coordinator's explicit launch holds the reconcile guard of its member.
LocalLaunch ==
    \/ pc = "launch"
    \/ pc = "undo" /\ "unlaunch" \in {todo[i] : i \in DOMAIN todo}

\* The image is pulled: slot and row are looked at again before and after the
\* instance is created, the group's record is not.
FinishLaunch(k) ==
    /\ launching[k] /\ ~(k = Coord /\ LocalLaunch)
    /\ launching' = [launching EXCEPT ![k] = FALSE]
    /\ IF IsLive(row[k][k]) /\ Reservable(k)
       THEN Reserve(k) /\ inst' = [inst EXCEPT ![k] = TRUE]
       ELSE UNCHANGED <<slotVars, inst>>
    /\ UNCHANGED <<coordVars, straggler, recVars, rowVars, now, missed, budget>>

\* reconcile_local_runtime_inventory.
StopUnowned(k) ==
    /\ inst[k] /\ ~launching[k]
    /\ ~IsLive(row[k][k]) \/ ~allows_adoption(Best(k))
    /\ inst' = [inst EXCEPT ![k] = FALSE]
    /\ UNCHANGED <<coordVars, straggler, recVars, rowVars, slotVars, launching, now, missed, budget>>

\* reconcile_local_slot_reservations: a reservation is desired only by a live
\* row whose group may be adopted.
DesiredSlot(k) == IsLive(row[k][k]) /\ allows_adoption(Best(k))

ReconcileSlots(k) ==
    /\ \/ slot[k] = "reserved" /\ ~DesiredSlot(k)
       \/ slot[k] = "free" /\ DesiredSlot(k)
    /\ slot' = [slot EXCEPT ![k] = IF @ = "free" THEN "reserved" ELSE "free"]
    /\ UNCHANGED <<coordVars, straggler, recVars, rowVars, leaseEnd, runVars, now, missed, budget>>

-----------------------------------------------------------------------------
(* Replication and the environment.                                        *)

SyncRecord(m, n) ==
    /\ MergeReg(reg[n], reg[m]) # reg[n]
    /\ reg' = [reg EXCEPT ![n] = MergeReg(@, reg[m])]
    /\ UNCHANGED <<coordVars, straggler, expires, sent, rowVars, slotVars, runVars,
                   now, missed, budget>>

\* Direct delivery, gossip and anti-entropy of a row all end in this merge.  Only
\* the coordinator's and the owner's copies of a row are ever acted on.
SyncRow(m, n, k) ==
    /\ {m, n} \subseteq {Coord, k} /\ row[m][k] > row[n][k]
    /\ row' = [row EXCEPT ![n][k] = row[m][k]]
    /\ UNCHANGED <<coordVars, straggler, recVars, rowExpires, slotVars, runVars, now, missed, budget>>

\* A gossiped record is stored as a write of the receiving node, if it ranks
\* above the record selected there.
GossipRecord(p, n) ==
    /\ p \in sent \cap Gossiped /\ Rank(p) > Rank(Best(n)) /\ Spend("gossip")
    /\ reg' = Upsert(n, p)
    /\ UNCHANGED <<coordVars, straggler, expires, sent, rowVars, slotVars, runVars, now, missed>>

\* A daemon restart: tasks in flight are gone, instances and stores survive.
Restart(n) ==
    /\ Spend("restart")
    /\ launching' = [k \in Targets |-> launching[k] /\ k # n]
    /\ IF n = Coord /\ pc \notin {"idle", "done", "failed"}
       THEN pc' = "failed" /\ todo' = <<>> /\ left' = {} /\ held' = {}
       ELSE UNCHANGED <<pc, todo, left, held>>
    /\ UNCHANGED <<acked, straggler, recVars, rowVars, slotVars, inst, now, missed>>

OtherTakes(k) ==
    /\ slot[k] = "free" /\ Spend("other")
    /\ slot' = [slot EXCEPT ![k] = "other"]
    /\ missed' = missed \cup (IF k \in acked THEN {"slot"} ELSE {})
    /\ UNCHANGED <<coordVars, straggler, recVars, rowVars, leaseEnd, runVars, now>>

Tick ==
    /\ now < MaxTime
    /\ now' = now + 1
    /\ UNCHANGED <<coordVars, straggler, recVars, rowVars, slotVars, runVars, missed, budget>>

-----------------------------------------------------------------------------
Coordinator ==
    \/ Begin \/ MaterializeOk \/ MaterializeFails
    \/ \E k \in Targets : PrepareOk(k) \/ PrepareFails(k) \/ CommitOk(k) \/ CommitFails(k)
    \/ Decide \/ DecideFails \/ Mark \/ MarkFails
    \/ Claim \/ LaunchLocal \/ LaunchFails \/ Complete
    \/ UndoRecord \/ UndoRows \/ RemotesUndone \/ UndoLocal
    \/ UndoLocalLaunch \/ UndoRunning
    \/ \E k \in Targets : UndoRemote(k)

Reconcile(k) ==
    \/ ReapExpiredLeases(k) \/ CleanupOrphan(k) \/ Adopt(k) \/ FinishLaunch(k)
    \/ StopUnowned(k) \/ ReconcileSlots(k)

Next ==
    \/ Coordinator
    \/ \E k \in Targets : Reconcile(k) \/ StragglerArrives(k) \/ OtherTakes(k)
    \/ \E n \in Nodes : ReconcileGroups(n) \/ Restart(n)
    \/ \E m, n \in Nodes : SyncRecord(m, n)
    \/ \E m, n \in Nodes, k \in Targets : SyncRow(m, n, k)
    \/ \E p \in Phases, n \in Nodes : GossipRecord(p, n)
    \/ Tick

Spec == Init /\ [][Next]_vars

\* The coordinator's task and every node's periodic loops keep running, and
\* every pair of nodes keeps synchronising; gossip may lose everything.
Fairness ==
    /\ WF_vars(Coordinator)
    /\ WF_vars(Tick)
    /\ \A k \in Targets :
          /\ WF_vars(ReapExpiredLeases(k))
          /\ WF_vars(CleanupOrphan(k))
          /\ WF_vars(Adopt(k))
          /\ WF_vars(FinishLaunch(k))
          /\ WF_vars(StopUnowned(k))
          /\ WF_vars(ReconcileSlots(k))
    /\ \A n \in Nodes : WF_vars(ReconcileGroups(n))
    /\ \A n \in Nodes : \A m \in Nodes \ {n} :
          /\ WF_vars(SyncRecord(m, n))
          /\ \A k \in Targets : WF_vars(SyncRow(m, n, k))

FairSpec == Spec /\ Fairness

-----------------------------------------------------------------------------
(* Properties.                                                             *)

Clocks == [Nodes -> Nat]

\* Type correctness of the coordinator, the replicas and the slots.
TypeOK ==
    /\ pc \in {"idle", "prepare", "commit", "mark", "claim", "launch", "complete",
               "done", "undo", "failed"}
    /\ todo \in Seq({"record", "unlaunch", "rows", "stop", "release", "local"})
    /\ left \subseteq Targets /\ held \subseteq Targets /\ acked \subseteq Targets
    /\ straggler \subseteq {"prepare", "commit"} \X Targets
    /\ \A n \in Nodes : \A v \in reg[n] : v.phase \in Phases /\ v.clock \in Clocks
    /\ sent \subseteq Phases
    /\ row \in [Nodes -> [Targets -> Nat]]
    /\ slot \in [Targets -> {"free", "leased", "reserved", "other"}]
    /\ {expires, rowExpires, now} \cup {leaseEnd[k] : k \in Targets} \subseteq Nat
    /\ missed \subseteq {"decide", "spread", "record", "abort", "slot"}
    /\ launching \in [Targets -> BOOLEAN] /\ inst \in [Targets -> BOOLEAN]
    /\ budget \in [{"fault", "restart", "gossip", "other"} -> Nat]

\* "Starts one workload group with a strict admission barrier before any row is
\* runnable": a member runs, or is being launched, only once the scheduler of
\* every target has acknowledged the commit of its lease group.
StartBarrier ==
    \A k \in Targets : inst[k] \/ launching[k] => acked = Targets


\* "Durable phase for one all-or-nothing grouped workload admission attempt": a
\* decision taken before the record expires leads to all members running or to
\* none, however slowly that decision is replicated.
AllOrNothing ==
    \/ <>(missed \cap {"decide", "record", "abort"} # {})
    \/ <>[]((\A k \in Targets : inst[k]) \/ (\A k \in Targets : ~inst[k]))
=============================================================================
