----------------------------- MODULE GangProofs -----------------------------
(***************************************************************************)
(* The admission barrier of a workload group: no member starts before the  *)
(* scheduler of every target has acknowledged its commit.                  *)
(*                                                                         *)
(* A member starts because the coordinator launches it or because its node *)
(* reads a decided record.  The invariant therefore follows the decision:  *)
(* through the coordinator's steps, through the record in every replica    *)
(* and in every gossip message, to the launches.                           *)
(***************************************************************************)
EXTENDS GangAdmission, TLAPS

\* Steps of start_workloads_gang after every commit was acknowledged.
Past == {"mark", "claim", "launch", "complete", "done"}

GangType ==
    /\ acked \subseteq Targets
    /\ sent \subseteq Phases
    /\ reg = [n \in Nodes |-> reg[n]]
    /\ \A n \in Nodes : \A v \in reg[n] : v.phase \in Phases
    /\ launching \in [Targets -> BOOLEAN]
    /\ inst \in [Targets -> BOOLEAN]

GangInv ==
    /\ GangType
    /\ pc = "commit" => Targets \subseteq left \cup acked
    /\ pc \in Past => acked = Targets
    /\ \A p \in sent : allows_adoption(p) => acked = Targets
    /\ \A n \in Nodes : \A v \in reg[n] : allows_adoption(v.phase) => acked = Targets
    /\ StartBarrier

-----------------------------------------------------------------------------
(* The record.                                                             *)

\* A phase is selected only where some replica value has it.
LEMMA BestIsStored ==
    ASSUME GangType, NEW n \in Nodes, Best(n) # "none"
    PROVE  \E v \in reg[n] : v.phase = Best(n)
<1>1. reg[n] # {} /\ \A v \in reg[n] : v.phase \in Phases
  BY DEF Best, GangType
<1>2. \A p \in Phases : Rank(p) \in 1 .. 4
  BY DEF Phases, Rank
<1>3. \E v \in reg[n] : \A w \in reg[n] : Rank(v.phase) >= Rank(w.phase)
  <2>1. CASE \E v \in reg[n] : Rank(v.phase) = 4
    BY <1>1, <1>2, <2>1
  <2>2. CASE ~(\E v \in reg[n] : Rank(v.phase) = 4) /\ \E v \in reg[n] : Rank(v.phase) = 3
    <3>1. \A w \in reg[n] : Rank(w.phase) <= 3
      BY <1>1, <1>2, <2>2
    <3> QED BY <2>2, <3>1
  <2>3. CASE /\ ~(\E v \in reg[n] : Rank(v.phase) = 4) /\ ~(\E v \in reg[n] : Rank(v.phase) = 3)
             /\ \E v \in reg[n] : Rank(v.phase) = 2
    <3>1. \A w \in reg[n] : Rank(w.phase) <= 2
      BY <1>1, <1>2, <2>3
    <3> QED BY <2>3, <3>1
  <2>4. CASE /\ ~(\E v \in reg[n] : Rank(v.phase) = 4) /\ ~(\E v \in reg[n] : Rank(v.phase) = 3)
             /\ ~(\E v \in reg[n] : Rank(v.phase) = 2)
    <3>1. \A w \in reg[n] : Rank(w.phase) = 1
      BY <1>1, <1>2, <2>4
    <3> QED BY <1>1, <3>1
  <2> QED BY <2>1, <2>2, <2>3, <2>4
<1> QED BY Zenon, <1>1, <1>3 DEF Best

\* A write of one phase leaves no value with a new phase other than it.
LEMMA UpsertPhases ==
    ASSUME GangType, NEW n \in Nodes, NEW p \in Phases, reg' = Upsert(n, p)
    PROVE  /\ reg' = [m \in Nodes |-> reg'[m]]
           /\ \A m \in Nodes : \A v \in reg'[m] : v.phase = p \/ v \in reg[m]
<1>1. PICK c : Upsert(n, p) = [reg EXCEPT ![n] = {[phase |-> p, clock |-> c]}]
  BY Zenon DEF Upsert
<1>2. DOMAIN reg = Nodes
  BY DEF GangType
<1>3. reg' = [m \in Nodes |-> IF m = n THEN {[phase |-> p, clock |-> c]} ELSE reg[m]]
  BY Zenon, <1>1, <1>2
<1>4. \A m \in Nodes : reg'[m] = IF m = n THEN {[phase |-> p, clock |-> c]} ELSE reg[m]
  BY <1>3
<1> QED BY <1>3, <1>4

LEMMA MergePhases ==
    ASSUME GangType, NEW m \in Nodes, NEW n \in Nodes,
           reg' = [reg EXCEPT ![n] = MergeReg(@, reg[m])]
    PROVE  /\ reg' = [k \in Nodes |-> reg'[k]]
           /\ \A k \in Nodes : \A v \in reg'[k] : \E j \in Nodes : v \in reg[j]
BY Zenon DEF GangType, MergeReg

\* A write of a phase that nobody adopts decides nothing.
LEMMA UndecidedWrite ==
    ASSUME GangInv, NEW n \in Nodes, NEW p \in Phases, ~allows_adoption(p) \/ acked = Targets,
           reg' = Upsert(n, p), sent' \subseteq sent \cup {p},
           acked' = acked, UNCHANGED launching,
           inst' \in [Targets -> BOOLEAN], \A k \in Targets : inst'[k] => inst[k],
           pc' = "commit" => pc = "commit" /\ left' = left,
           pc' \in Past => acked = Targets
    PROVE  GangInv'
<1>1. /\ reg' = [m \in Nodes |-> reg'[m]]
      /\ \A m \in Nodes : \A v \in reg'[m] : v.phase = p \/ v \in reg[m]
  BY UpsertPhases DEF GangInv
<1>2. GangType'
  BY <1>1 DEF GangInv, GangType
<1>3. \A q \in sent' : allows_adoption(q) => acked' = Targets
  BY DEF GangInv
<1>4. \A m \in Nodes : \A v \in reg'[m] : allows_adoption(v.phase) => acked' = Targets
  BY <1>1 DEF GangInv
<1>5. StartBarrier'
  BY DEF GangInv, StartBarrier
<1> QED BY <1>2, <1>3, <1>4, <1>5 DEF GangInv

-----------------------------------------------------------------------------
(* Steps that write no record. *)

\* A step that neither writes a record nor starts a member.
LEMMA QuietStep ==
    ASSUME GangInv, UNCHANGED <<reg, sent>>, acked' = acked,
           launching' \in [Targets -> BOOLEAN], inst' \in [Targets -> BOOLEAN],
           \A k \in Targets : inst'[k] \/ launching'[k] => inst[k] \/ launching[k] \/ acked = Targets,
           pc' = "commit" => Targets \subseteq left' \cup acked,
           pc' \in Past => acked = Targets
    PROVE  GangInv'
<1>1. GangType'
  BY DEF GangInv, GangType
<1>2. StartBarrier'
  BY DEF GangInv, StartBarrier
<1> QED BY <1>1, <1>2 DEF GangInv

LEMMA CoordinatorKeeps ==
    ASSUME GangInv, Coordinator
    PROVE  GangInv'
<1> USE DEF Past
<1>t. launching \in [Targets -> BOOLEAN] /\ inst \in [Targets -> BOOLEAN]
  BY DEF GangInv, GangType
<1>p. /\ {"Preparing", "CommitDecided", "Completed", "AbortDecided"} \subseteq Phases
      /\ ~allows_adoption("Preparing") /\ ~allows_adoption("AbortDecided")
      /\ Coord \in Nodes
  BY GangConstants DEF Phases, allows_adoption
<1>1. CASE Begin
  BY <1>1, <1>t, <1>p, UndecidedWrite DEF Begin, runVars
<1>2. CASE MaterializeOk
  BY <1>2, <1>t, QuietStep DEF MaterializeOk, recVars, runVars
<1>3. CASE MaterializeFails
  BY <1>3, <1>t, QuietStep DEF MaterializeFails, Rollback, recVars, runVars
<1>4. ASSUME NEW k \in Targets, PrepareOk(k) PROVE GangInv'
  BY <1>4, <1>t, QuietStep DEF PrepareOk, MayPrepare, recVars, runVars
<1>5. ASSUME NEW k \in Targets, PrepareFails(k) PROVE GangInv'
  BY <1>5, <1>t, QuietStep DEF PrepareFails, recVars, runVars
<1>6. ASSUME NEW k \in Targets, CommitOk(k) PROVE GangInv'
  <2>1. /\ UNCHANGED <<reg, sent, launching, inst, pc>> /\ pc = "commit"
        /\ acked' = acked \cup {k} /\ left' = left \ {k}
    BY <1>6 DEF CommitOk, MayCommit, recVars, runVars
  <2>2. acked \subseteq Targets /\ (acked = Targets => acked' = Targets)
    BY <2>1 DEF GangInv, GangType
  <2>3. GangType'
    BY <2>1, <2>2 DEF GangInv, GangType
  <2>4. StartBarrier'
    BY <2>1, <2>2 DEF GangInv, StartBarrier
  <2>5. Targets \subseteq left' \cup acked'
    BY <2>1 DEF GangInv
  <2> QED BY <2>1, <2>2, <2>3, <2>4, <2>5 DEF GangInv
<1>7. ASSUME NEW k \in Targets, CommitFails(k) PROVE GangInv'
  BY <1>7, <1>t, QuietStep DEF CommitFails, Rollback, recVars, runVars
<1>8. CASE Decide
  <2>1. acked = Targets
    BY Zenon, <1>8 DEF Decide, GangInv, GangType
  <2> QED BY <1>8, <1>t, <1>p, <2>1, UndecidedWrite DEF Decide, PersistRecord, runVars
<1>9. CASE DecideFails
  BY <1>9, <1>t, QuietStep DEF DecideFails, Rollback, recVars, runVars
<1>10. CASE Mark
  BY <1>10, <1>t, QuietStep DEF Mark, recVars, runVars, GangInv
<1>11. CASE MarkFails
  BY <1>11, <1>t, QuietStep DEF MarkFails, Rollback, recVars, runVars
<1>12. CASE Claim
  <2>1. acked = Targets
    BY <1>12 DEF Claim, GangInv
  <2> QED BY Zenon, <1>12, <1>t, <2>1, QuietStep DEF Claim, Rollback, recVars, runVars
<1>13. CASE LaunchLocal
  <2>1. acked = Targets
    BY <1>13 DEF LaunchLocal, GangInv
  <2> QED BY Zenon, <1>13, <1>t, <2>1, QuietStep DEF LaunchLocal, recVars, runVars
<1>14. CASE LaunchFails
  BY <1>14, <1>t, QuietStep DEF LaunchFails, Rollback, recVars, runVars
<1>15. CASE Complete
  <2>1. acked = Targets
    BY <1>15 DEF Complete, GangInv
  <2>2. CASE PersistRecord(Coord, "Completed")
    BY <1>15, <1>t, <1>p, <2>1, <2>2, UndecidedWrite DEF Complete, PersistRecord, runVars
  <2>3. CASE UNCHANGED recVars
    BY <1>15, <1>t, <2>1, <2>3, QuietStep DEF Complete, recVars, runVars
  <2> QED BY <1>15, <2>2, <2>3 DEF Complete
<1>16. CASE UndoRecord
  <2>1. pc' \notin Past \cup {"commit"}
    BY <1>16 DEF UndoRecord, Stage, NextStage
  <2>2. CASE PersistRecord(Coord, "AbortDecided")
    BY <1>16, <1>t, <1>p, <2>1, <2>2, UndecidedWrite DEF UndoRecord, PersistRecord, runVars
  <2>3. CASE UNCHANGED recVars
    BY <1>16, <1>t, <2>1, <2>3, QuietStep DEF UndoRecord, recVars, runVars
  <2> QED BY <1>16, <2>2, <2>3 DEF UndoRecord
<1>17. CASE UndoRows
  BY <1>17, <1>t, QuietStep DEF UndoRows, Stage, NextStage, recVars, runVars
<1>18. CASE RemotesUndone
  BY <1>18, <1>t, QuietStep DEF RemotesUndone, Stage, NextStage, recVars, runVars
<1>19. CASE UndoLocal
  BY <1>19, <1>t, QuietStep DEF UndoLocal, Stage, NextStage, recVars, runVars
<1>20. CASE UndoLocalLaunch
  BY Zenon, <1>20, <1>t, QuietStep DEF UndoLocalLaunch, Stage, NextStage, recVars
<1>21. CASE UndoRunning
  <2>1. PICK K \in SUBSET left : inst' = [k \in Targets |-> inst[k] /\ k \notin K]
    BY Zenon, <1>21 DEF UndoRunning
  <2>2. inst' \in [Targets -> BOOLEAN] /\ \A k \in Targets : inst'[k] => inst[k]
    BY Zenon, <2>1
  <2> QED BY <1>21, <1>t, <2>2, QuietStep DEF UndoRunning, Stage, NextStage, recVars
<1>22. ASSUME NEW k \in Targets, UndoRemote(k) PROVE GangInv'
  BY <1>22, <1>t, QuietStep DEF UndoRemote, Stage, recVars, runVars
<1> QED
  BY <1>1, <1>2, <1>3, <1>4, <1>5, <1>6, <1>7, <1>8, <1>9, <1>10, <1>11, <1>12, <1>13,
     <1>14, <1>15, <1>16, <1>17, <1>18, <1>19, <1>20, <1>21, <1>22 DEF Coordinator

-----------------------------------------------------------------------------
(* The reconcile loops, replication and the environment.                   *)

LEMMA ReconcileKeeps ==
    ASSUME GangInv, NEW k \in Targets, Reconcile(k)
    PROVE  GangInv'
<1> USE DEF Past
<1>t. launching \in [Targets -> BOOLEAN] /\ inst \in [Targets -> BOOLEAN]
  BY DEF GangInv, GangType
<1>p. /\ pc = "commit" => Targets \subseteq left \cup acked
      /\ pc \in Past => acked = Targets
  BY DEF GangInv
<1>1. CASE ReapExpiredLeases(k)
  BY <1>1, <1>t, <1>p, QuietStep DEF ReapExpiredLeases, coordVars, recVars, runVars
<1>2. CASE CleanupOrphan(k)
  BY <1>2, <1>t, <1>p, QuietStep DEF CleanupOrphan, coordVars, recVars, runVars
<1>3. CASE Adopt(k)
  <2>1. k \in Nodes /\ Best(k) # "none" /\ allows_adoption(Best(k))
    BY <1>3, GangConstants DEF Adopt, allows_adoption
  <2>2. acked = Targets
    BY <2>1, BestIsStored DEF GangInv
  <2> QED BY Zenon, <1>3, <1>t, <1>p, <2>2, QuietStep DEF Adopt, coordVars, recVars
<1>4. CASE FinishLaunch(k)
  <2>1. acked = Targets
    BY <1>4 DEF FinishLaunch, GangInv, StartBarrier
  <2> QED BY Zenon, <1>4, <1>t, <1>p, <2>1, QuietStep DEF FinishLaunch, coordVars, recVars, slotVars
<1>5. CASE StopUnowned(k)
  BY <1>5, <1>t, <1>p, QuietStep DEF StopUnowned, coordVars, recVars
<1>6. CASE ReconcileSlots(k)
  BY <1>6, <1>t, <1>p, QuietStep DEF ReconcileSlots, coordVars, recVars, runVars
<1> QED BY <1>1, <1>2, <1>3, <1>4, <1>5, <1>6 DEF Reconcile

LEMMA ReconcileGroupsKeeps ==
    ASSUME GangInv, NEW n \in Nodes, ReconcileGroups(n)
    PROVE  GangInv'
<1>t. /\ launching \in [Targets -> BOOLEAN] /\ inst \in [Targets -> BOOLEAN]
      /\ pc = "commit" => Targets \subseteq left \cup acked
      /\ pc \in Past => acked = Targets
  BY DEF GangInv, GangType
<1>1. inst' \in [Targets -> BOOLEAN] /\ \A k \in Targets : inst'[k] => inst[k]
  BY Zenon, <1>t DEF ReconcileGroups, CleanupMember
<1>2. UNCHANGED <<pc, left, acked, launching>>
  BY DEF ReconcileGroups, coordVars
<1>3. CASE PersistRecord(n, "AbortDecided")
  <2>1. "AbortDecided" \in Phases /\ ~allows_adoption("AbortDecided")
    BY DEF Phases, allows_adoption
  <2> QED BY <1>t, <1>1, <1>2, <1>3, <2>1, UndecidedWrite DEF PersistRecord
<1>4. CASE UNCHANGED recVars
  BY <1>t, <1>1, <1>2, <1>4, QuietStep DEF recVars
<1> QED BY <1>3, <1>4 DEF ReconcileGroups

\* The inductive step.
LEMMA GangInvNext ==
    ASSUME GangInv, [Next]_vars
    PROVE  GangInv'
<1> USE DEF Past
<1>t. /\ launching \in [Targets -> BOOLEAN] /\ inst \in [Targets -> BOOLEAN]
      /\ pc = "commit" => Targets \subseteq left \cup acked
      /\ pc \in Past => acked = Targets
  BY DEF GangInv, GangType
<1>1. CASE Coordinator
  BY <1>1, CoordinatorKeeps
<1>2. ASSUME NEW k \in Targets, Reconcile(k) PROVE GangInv'
  BY <1>2, ReconcileKeeps
<1>3. ASSUME NEW k \in Targets, StragglerArrives(k) \/ OtherTakes(k) PROVE GangInv'
  BY <1>3, <1>t, QuietStep DEF StragglerArrives, OtherTakes, coordVars, recVars, runVars
<1>4. ASSUME NEW n \in Nodes, ReconcileGroups(n) PROVE GangInv'
  BY <1>4, ReconcileGroupsKeeps
<1>5. ASSUME NEW n \in Nodes, Restart(n) PROVE GangInv'
  <2>1. launching' \in [Targets -> BOOLEAN] /\ \A k \in Targets : launching'[k] => launching[k]
    BY <1>5, <1>t DEF Restart
  <2> QED BY <1>5, <1>t, <2>1, QuietStep DEF Restart, recVars
<1>6. ASSUME NEW m \in Nodes, NEW n \in Nodes, SyncRecord(m, n) PROVE GangInv'
  <2>1. /\ UNCHANGED <<pc, left, acked, sent, launching, inst>>
        /\ reg' = [reg EXCEPT ![n] = MergeReg(@, reg[m])]
    BY <1>6 DEF SyncRecord, coordVars, runVars
  <2>2. /\ reg' = [k \in Nodes |-> reg'[k]]
        /\ \A k \in Nodes : \A v \in reg'[k] : \E j \in Nodes : v \in reg[j]
    BY Zenon, <2>1, MergePhases DEF GangInv
  <2>3. GangType'
    BY <2>1, <2>2 DEF GangInv, GangType
  <2>4. StartBarrier'
    BY <2>1 DEF GangInv, StartBarrier
  <2> QED BY <2>1, <2>2, <2>3, <2>4 DEF GangInv
<1>7. ASSUME NEW m \in Nodes, NEW n \in Nodes, NEW k \in Targets, SyncRow(m, n, k) PROVE GangInv'
  BY <1>7, <1>t, QuietStep DEF SyncRow, coordVars, recVars, runVars
<1>8. ASSUME NEW p \in Phases, NEW n \in Nodes, GossipRecord(p, n) PROVE GangInv'
  <2>1. /\ UNCHANGED <<pc, left, acked, sent, launching, inst>>
        /\ reg' = Upsert(n, p) /\ p \in sent
    BY <1>8 DEF GossipRecord, coordVars, runVars
  <2>2. ~allows_adoption(p) \/ acked = Targets
    BY <2>1 DEF GangInv
  <2> QED BY <1>t, <2>1, <2>2, UndecidedWrite
<1>9. CASE Tick
  BY <1>9, <1>t, QuietStep DEF Tick, coordVars, recVars, runVars
<1>10. CASE UNCHANGED vars
  BY <1>10, <1>t, QuietStep DEF vars, coordVars, recVars, runVars
<1> QED
  BY <1>1, <1>2, <1>3, <1>4, <1>5, <1>6, <1>7, <1>8, <1>9, <1>10 DEF Next

\* For every set of nodes and targets, whatever fails, is lost, arrives late or
\* restarts: a member of a group runs or is being launched only once every
\* target's scheduler has acknowledged the commit of its lease group
\* (start_workloads_gang, reconcile_admission_groups and the launches of
\* workload/manager/state.rs).
THEOREM StartsBehindBarrier == Spec => []StartBarrier
<1>1. Init => GangInv
  <2> SUFFICES ASSUME Init PROVE GangInv
    OBVIOUS
  <2>1. GangType
    BY DEF Init, GangType
  <2> QED BY <2>1 DEF Init, GangInv, StartBarrier, Past
<1>2. GangInv /\ [Next]_vars => GangInv'
  BY GangInvNext
<1>3. GangInv => StartBarrier
  BY DEF GangInv
<1> QED BY <1>1, <1>2, <1>3, PTL DEF Spec
=============================================================================
