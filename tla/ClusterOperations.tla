-------------------------- MODULE ClusterOperations --------------------------
(***************************************************************************)
(* Split and merge of cluster views: the replicated operation ledger, the   *)
(* per-node progress driver behind its gate, local cutover of the active    *)
(* view, reconciliation after a metadata pull, and startup replay.          *)
(* src/src/topology/cluster_operations/{request,progress,commit}.rs, the    *)
(* operation record of src/src/cluster/operations/model.rs and the active   *)
(* view of src/src/store/replicated/cluster_views.rs.                       *)
(*                                                                         *)
(* A daemon runs on one LocalSet, so its tasks interleave only at awaits:   *)
(* an action is the code between two awaits of one task.  Rows, the active  *)
(* view with its marker and excluded peers, the applied markers and the     *)
(* keys are durable; everything else is lost in a crash.                    *)
(***************************************************************************)
EXTENDS Naturals, Sequences, FiniteSets

CONSTANTS
    Nodes, Views, Ops,
    Splits,         \* the split operations; the others are merges
    Source,         \* [Ops -> Views], source_views[0]
    Target,         \* [Ops -> [Nodes -> Views]], the assignment of an intent
    Deps,           \* [Ops -> SUBSET Ops], dependency_operation_ids
    OrderKey,       \* [Ops -> Nat], lineage_order_key: wall clock, then id
    Submitter,      \* [Ops -> Nodes]
    InitialViews,   \* the assignments of nodes to views to start from
    Rejectable,     \* splits whose replicated-volume validation may fail
    Suspicious,     \* <<node, op>>: may see the submitter of the operation Down
    Scenarios,      \* the sets of operations submitted in one behaviour
    Crashable, MaxCrashes,
    NoOp, NoNode

ASSUME ClusterAssumption ==
    /\ Splits \subseteq Ops
    /\ Source \in [Ops -> Views]
    /\ Target \in [Ops -> [Nodes -> Views]]
    /\ Deps \in [Ops -> SUBSET Ops]
    /\ OrderKey \in [Ops -> Nat]
    /\ \A o, p \in Ops : OrderKey[o] = OrderKey[p] => o = p
    /\ Submitter \in [Ops -> Nodes]
    /\ InitialViews \subseteq [Nodes -> Views]
    /\ \A o \in Ops \ Splits, n, m \in Nodes : Target[o][n] = Target[o][m]
    /\ NoOp \notin Ops /\ NoNode \notin Nodes
    /\ Scenarios \subseteq SUBSET Ops /\ Crashable \subseteq Nodes
    /\ MaxCrashes \in Nat

VARIABLES
    row,            \* [Nodes -> [Ops -> stage]], the replicated ledger
    view,           \* active view
    installedBy,    \* operation that installed the active view
    outOfView,      \* peers excluded from the active view
    applied,        \* commit_side_effects markers
    keys,           \* views whose master key this node holds
    grants,         \* replicated key grants <<view, recipient>> it has seen
    mode,           \* "up" or "boot"
    pc, cur,        \* the holder of cluster_operation_gate and its operation
    pass, plan,     \* reconciliation pass running, finalized rows left to it
    tasks, todo,    \* spawned progress tasks; startup replay list
    dirty,          \* requires_reconciliation
    pull,           \* peer whose keys were pulled and whose rows come next
    crashes

durable == <<row, view, installedBy, outOfView, applied, keys, grants>>
driver == <<pc, cur, pass, plan>>
vars == <<durable, mode, driver, tasks, todo, dirty, pull, crashes>>

Rank == [none |-> 0, proposed |-> 1, prepared |-> 2, aborted |-> 3,
         committed |-> 4, finalized |-> 5]
Stages == DOMAIN Rank
Live == {"proposed", "prepared", "committed"}
Points == {"idle", "publish", "prepare", "apply", "adopt", "install", "mark",
           "commit", "finalize", "end"}

TypeOK ==
    /\ row \in [Nodes -> [Ops -> Stages]]
    /\ view \in [Nodes -> Views]
    /\ installedBy \in [Nodes -> Ops \cup {NoOp}]
    /\ outOfView \in [Nodes -> SUBSET Nodes]
    /\ applied \in [Nodes -> SUBSET Ops]
    /\ keys \in [Nodes -> SUBSET Views]
    /\ grants \in [Nodes -> SUBSET (Views \X Nodes)]
    /\ mode \in [Nodes -> {"up", "boot"}]
    /\ pc \in [Nodes -> Points]
    /\ cur \in [Nodes -> Ops \cup {NoOp}]
    /\ pass \in [Nodes -> {"none", "sync", "boot"}]
    /\ plan \in [Nodes -> Seq(Ops)]
    /\ tasks \in [Nodes -> SUBSET Ops]
    /\ todo \in [Nodes -> SUBSET Ops]
    /\ dirty \in [Nodes -> BOOLEAN]
    /\ pull \in [Nodes -> Nodes \cup {NoNode}]
    /\ crashes \in 0..MaxCrashes

-----------------------------------------------------------------------------
(* The ledger as one node reads it.                                        *)

Known(ledger) == {o \in Ops : ledger[o] # "none"}
TargetViews(o) == {Target[o][n] : n \in Nodes}
Earliest(S) == CHOOSE o \in S : \A p \in S : OrderKey[o] <= OrderKey[p]

\* Dependencies first, the lineage order key only between independent rows.
KeyOrder[R \in SUBSET Ops] ==
    IF R = {} THEN << >> ELSE <<Earliest(R)>> \o KeyOrder[R \ {Earliest(R)}]
DependencyOrder[R \in SUBSET Ops] ==
    LET ready == {o \in R : Deps[o] \cap R = {}}
    IN  IF ready = {} THEN KeyOrder[R]
        ELSE <<Earliest(ready)>> \o DependencyOrder[R \ {Earliest(ready)}]

Precedes(ledger, p, o) ==
    LET order == DependencyOrder[Known(ledger) \cup {o}]
    IN  \E i, j \in DOMAIN order : i < j /\ order[i] = p /\ order[j] = o

\* A merge that precedes o and is committed in this ledger has ended a view o needs.
Lineage(o) == {Source[o]} \cup IF o \in Splits THEN {} ELSE TargetViews(o)
RetiredByPriorMerge(ledger, o) ==
    \E p \in Ops \ Splits :
        /\ ledger[p] \in {"committed", "finalized"}
        /\ Source[p] \in Lineage(o)
        /\ Precedes(ledger, p, o)

HasCycle(ledger, o) ==
    Deps[o] # {} /\ \A S \in SUBSET Ops :
        (Deps[o] \subseteq S /\ \A d \in S \cap Known(ledger) : Deps[d] \subseteq S)
            => o \in S
\* Mutant: a dependency that has not arrived yet counts as done.
DependencyStateOpen(ledger, o) ==
    IF HasCycle(ledger, o) \/ \E d \in Deps[o] : ledger[d] = "aborted" THEN "blocked"
    ELSE IF \A d \in Deps[o] : ledger[d] \in {"none", "finalized"} THEN "ready"
    ELSE "waiting"
DependencyState(ledger, o) ==
    IF HasCycle(ledger, o) \/ \E d \in Deps[o] : ledger[d] = "aborted" THEN "blocked"
    ELSE IF \A d \in Deps[o] : ledger[d] = "finalized" THEN "ready"
    ELSE "waiting"

\* The split target is an allowed view only where this very operation
\* installed it: the crash window between the view and the stage.
RecoverableTarget(n, o) == installedBy[n] = o /\ view[n] = Target[o][n]
CanProgress(n, o) ==
    \/ view[n] = Source[o]
    \/ IF o \in Splits THEN RecoverableTarget(n, o) ELSE view[n] \in TargetViews(o)
CanApply(n, o) == CanProgress(n, o) /\ ~RetiredByPriorMerge(row[n], o)

ReadyOps(n, ledger) == {o \in Ops :
    /\ ledger[o] \in Live
    /\ \/ DependencyState(ledger, o) = "blocked"
       \/ DependencyState(ledger, o) = "ready" /\ CanProgress(n, o)}
\* active_cluster_operation of a node with this ledger, as a set.
Active(n, ledger) ==
    LET S == ReadyOps(n, ledger) IN IF S = {} THEN {} ELSE {Earliest(S)}
ActiveExcluding(n, ledger, o) ==
    LET S == ReadyOps(n, ledger) \ {o} IN IF S = {} THEN {} ELSE {Earliest(S)}

\* A finalized row that still changes this node: it is on the source view, or
\* on the merge target with the peers of a split still excluded.
NeedsReplay(n, o) ==
    /\ row[n][o] = "finalized"
    /\ CanProgress(n, o)
    /\ view[n] # Target[o][n] \/ (o \notin Splits /\ outOfView[n] # {})
    /\ o \notin applied[n]
    /\ CanApply(n, o)
FinalizedRows(n) ==
    SelectSeq(DependencyOrder[Known(row[n])], LAMBDA o : row[n][o] = "finalized")
\* The first row of s to replay here, as a set, and the rows that follow it.
FirstReplay(n, s) == {o \in Ops :
    /\ NeedsReplay(n, o)
    /\ \E i \in DOMAIN s : s[i] = o /\ \A j \in 1..(i - 1) : ~NeedsReplay(n, s[j])}
RowsAfter(s, o) ==
    LET i == CHOOSE j \in DOMAIN s : s[j] = o IN SubSeq(s, i + 1, Len(s))

-----------------------------------------------------------------------------
Init ==
    /\ row = [n \in Nodes |-> [o \in Ops |-> "none"]]
    /\ view \in InitialViews
    /\ installedBy = [n \in Nodes |-> NoOp]
    /\ outOfView = [n \in Nodes |-> {m \in Nodes : view[m] # view[n]}]
    /\ applied = [n \in Nodes |-> {}]
    /\ keys = [n \in Nodes |-> {view[n]}]
    /\ grants = [n \in Nodes |-> {<<view[m], m>> : m \in Nodes}]
    /\ mode = [n \in Nodes |-> "up"]
    /\ pc = [n \in Nodes |-> "idle"]
    /\ cur = [n \in Nodes |-> NoOp]
    /\ pass = [n \in Nodes |-> "none"]
    /\ plan = [n \in Nodes |-> << >>]
    /\ tasks = [n \in Nodes |-> {}]
    /\ todo = [n \in Nodes |-> {}]
    /\ dirty = [n \in Nodes |-> FALSE]
    /\ pull = [n \in Nodes |-> NoNode]
    /\ crashes = 0

\* A stage write re-reads the row and never lowers its rank.
StageAfter(n, o, s) == IF Rank[row[n][o]] > Rank[s] THEN row[n][o] ELSE s
WriteStage(n, o, s) ==
    /\ row' = [row EXCEPT ![n][o] = StageAfter(n, o, s)]
    /\ dirty' = [dirty EXCEPT ![n] = @ \/ Rank[row[n][o]] <= Rank[s]]

Goto(n, point) == pc' = [pc EXCEPT ![n] = point] /\ UNCHANGED <<cur, pass, plan>>
\* progress_cluster_operation returns: the gate is free again.
Release(n) ==
    /\ pc' = [pc EXCEPT ![n] = "idle"]
    /\ cur' = [cur EXCEPT ![n] = NoOp]
    /\ pass' = [pass EXCEPT ![n] = "none"]
    /\ plan' = [plan EXCEPT ![n] = << >>]
Trigger(n, S) == tasks' = [tasks EXCEPT ![n] = @ \cup S]

Submitted == {o \in Ops : row[Submitter[o]][o] # "none"}
\* merge_clusters / split_cluster with persist_and_dispatch_operation.
Submit(n, o) ==
    /\ mode[n] = "up" /\ n = Submitter[o] /\ row[n][o] = "none"
    /\ \E S \in Scenarios : Submitted \cup {o} \subseteq S
    /\ row' = [row EXCEPT ![n][o] = "proposed"]
    /\ dirty' = [dirty EXCEPT ![n] = TRUE]
    /\ Trigger(n, IF DependencyState(row[n], o) # "waiting" THEN {o} ELSE Deps[o])
    /\ UNCHANGED <<view, installedBy, outOfView, applied, keys, grants, mode,
                   driver, todo, pull, crashes>>

-----------------------------------------------------------------------------
(* progress_cluster_operation up to its first await.                       *)

\* A spawned task gets the gate, or startup replay reaches its next row.
Scheduled(n, o) ==
    /\ pc[n] = "idle"
    /\ IF mode[n] = "up" THEN o \in tasks[n]
       ELSE o \in todo[n] /\ o = Earliest(todo[n])
\* The attempt is taken off its list; S are the tasks it spawned.
Taken(n, o, S) ==
    /\ IF mode[n] = "up"
       THEN /\ tasks' = [tasks EXCEPT ![n] = (@ \ {o}) \cup S]
            /\ UNCHANGED todo
       ELSE /\ todo' = [todo EXCEPT ![n] = @ \ {o}]
            /\ Trigger(n, S)
    /\ UNCHANGED <<view, installedBy, outOfView, applied, keys, grants, mode, pull, crashes>>

ReadyHere(n, o) ==
    /\ row[n][o] # "none"
    /\ DependencyState(row[n], o) = "ready"
    /\ ~(row[n][o] \in Live /\ RetiredByPriorMerge(row[n], o))
    /\ CanProgress(n, o)
Chosen(n, o) == ReadyHere(n, o) /\ Active(n, row[n]) \subseteq {o}

\* Unknown row, unfinished dependency, or a view outside the lineage.
ProgressNothing(n, o) ==
    /\ Scheduled(n, o)
    /\ \/ row[n][o] = "none"
       \/ row[n][o] # "none" /\ DependencyState(row[n], o) = "waiting"
       \/ /\ row[n][o] # "none" /\ DependencyState(row[n], o) = "ready"
          /\ ~(row[n][o] \in Live /\ RetiredByPriorMerge(row[n], o))
          /\ ~CanProgress(n, o)
    /\ Taken(n, o, {})
    /\ UNCHANGED <<row, dirty, driver>>

ProgressBlocked(n, o) ==
    /\ Scheduled(n, o)
    /\ row[n][o] # "none" /\ DependencyState(row[n], o) = "blocked"
    /\ WriteStage(n, o, "aborted")
    /\ Taken(n, o, Active(n, row'[n]))
    /\ UNCHANGED driver

ProgressRetired(n, o) ==
    /\ Scheduled(n, o)
    /\ row[n][o] \in Live /\ DependencyState(row[n], o) = "ready"
    /\ RetiredByPriorMerge(row[n], o)
    /\ WriteStage(n, o, "aborted")
    /\ Taken(n, o, {})
    /\ UNCHANGED driver

ProgressQueued(n, o) ==
    /\ Scheduled(n, o) /\ ReadyHere(n, o) /\ ~Chosen(n, o)
    /\ Taken(n, o, Active(n, row[n]))
    /\ UNCHANGED <<row, dirty, driver>>

\* Who may publish the target keys, hence move the row past Proposed.
HasCurrent(n, v) == \E m \in Nodes : <<v, m>> \in grants[n]
Publisher(n, o) ==
    IF o \in Splits THEN n = Submitter[o] \/ <<n, o>> \in Suspicious
    ELSE LET v == Target[o][n]
         IN  IF HasCurrent(n, v) THEN v \in keys[n] ELSE v = view[n]
\* The failure detector of a suspicious node need not say Down.
Waits(n, o) == ~Publisher(n, o) \/ (o \in Splits /\ n # Submitter[o])

ProgressProposed(n, o) ==
    /\ Scheduled(n, o) /\ Chosen(n, o) /\ row[n][o] = "proposed"
    /\ \/ Waits(n, o) /\ UNCHANGED driver
       \/ /\ Publisher(n, o)
          /\ pc' = [pc EXCEPT ![n] = "publish"]
          /\ cur' = [cur EXCEPT ![n] = o]
          /\ UNCHANGED <<pass, plan>>
    /\ Taken(n, o, {})
    /\ UNCHANGED <<row, dirty>>

\* Mutant: the commit is written without applying the transition.
ProgressPreparedUnapplied(n, o) ==
    /\ Scheduled(n, o) /\ Chosen(n, o) /\ row[n][o] = "prepared"
    /\ pc' = [pc EXCEPT ![n] = "commit"]
    /\ cur' = [cur EXCEPT ![n] = o]
    /\ Taken(n, o, {})
    /\ UNCHANGED <<row, dirty, pass, plan>>
ProgressPrepared(n, o) ==
    /\ Scheduled(n, o) /\ Chosen(n, o) /\ row[n][o] = "prepared"
    /\ pc' = [pc EXCEPT ![n] = "apply"]
    /\ cur' = [cur EXCEPT ![n] = o]
    /\ Taken(n, o, {})
    /\ UNCHANGED <<row, dirty, pass, plan>>

ProgressCommitted(n, o) ==
    /\ Scheduled(n, o) /\ Chosen(n, o) /\ row[n][o] = "committed"
    /\ pc' = [pc EXCEPT ![n] = "finalize"]
    /\ cur' = [cur EXCEPT ![n] = o]
    /\ Taken(n, o, {})
    /\ UNCHANGED <<row, dirty, pass, plan>>

\* A task for a terminal row: a finalized one is replayed where needed.
ProgressTerminal(n, o) ==
    /\ Scheduled(n, o) /\ Chosen(n, o) /\ row[n][o] \in {"finalized", "aborted"}
    /\ IF NeedsReplay(n, o)
       THEN /\ pc' = [pc EXCEPT ![n] = "adopt"]
            /\ cur' = [cur EXCEPT ![n] = o]
            /\ Taken(n, o, {})
            /\ UNCHANGED <<pass, plan>>
       ELSE Taken(n, o, ActiveExcluding(n, row[n], o)) /\ UNCHANGED driver
    /\ UNCHANGED <<row, dirty>>

Progress(n) == \E o \in Ops :
    \/ ProgressNothing(n, o) \/ ProgressBlocked(n, o) \/ ProgressRetired(n, o)
    \/ ProgressQueued(n, o) \/ ProgressProposed(n, o) \/ ProgressPrepared(n, o)
    \/ ProgressCommitted(n, o) \/ ProgressTerminal(n, o)

-----------------------------------------------------------------------------
(* The steps of the gate's holder.                                         *)

\* The trailing wake-up of the next ready operation.
WakeNext(n, ledger) == Trigger(n, ActiveExcluding(n, ledger, cur[n]))

\* Mutant: the grants do not name their recipient.
PublishUnaddressed(n) ==
    /\ pc[n] = "publish"
    /\ grants' = [grants EXCEPT ![n] = @ \cup TargetViews(cur[n])]
    /\ keys' = [keys EXCEPT ![n] =
                  @ \cup IF cur[n] \in Splits THEN TargetViews(cur[n]) ELSE {}]
    /\ Goto(n, "prepare")
    /\ UNCHANGED <<row, view, installedBy, outOfView, applied, mode, tasks, todo,
                   dirty, pull, crashes>>
\* publish_transition_key_material: children of a split for their assigned
\* nodes, the destination key of a merge for every active peer.
Publish(n) ==
    /\ pc[n] = "publish"
    /\ grants' = [grants EXCEPT ![n] = @ \cup {<<Target[cur[n]][m], m>> : m \in Nodes}]
    /\ keys' = [keys EXCEPT ![n] =
                  @ \cup IF cur[n] \in Splits THEN TargetViews(cur[n]) ELSE {}]
    /\ Goto(n, "prepare")
    /\ UNCHANGED <<row, view, installedBy, outOfView, applied, mode, tasks, todo,
                   dirty, pull, crashes>>

\* Volume validation of a split, then the Prepared stage.
Reject(n) ==
    /\ pc[n] = "prepare" /\ cur[n] \in Splits \cap Rejectable
    /\ WriteStage(n, cur[n], "aborted")
    /\ Release(n)
    /\ UNCHANGED <<view, installedBy, outOfView, applied, keys, grants, mode,
                   tasks, todo, pull, crashes>>
Prepare(n) ==
    /\ pc[n] = "prepare"
    /\ WriteStage(n, cur[n], "prepared")
    /\ IF StageAfter(n, cur[n], "prepared") = "prepared" THEN Goto(n, "apply") ELSE Release(n)
    /\ UNCHANGED <<view, installedBy, outOfView, applied, keys, grants, mode,
                   tasks, todo, pull, crashes>>

\* apply_cluster_transition up to its participants.
Apply(n) ==
    /\ pc[n] = "apply"
    /\ CASE cur[n] \in applied[n] ->
              Goto(n, "commit") /\ UNCHANGED <<row, dirty, tasks>>
         [] cur[n] \notin applied[n] /\ CanApply(n, cur[n]) ->
              Goto(n, "adopt") /\ UNCHANGED <<row, dirty, tasks>>
         [] OTHER ->
              WriteStage(n, cur[n], "aborted") /\ Release(n) /\ WakeNext(n, row'[n])
    /\ UNCHANGED <<view, installedBy, outOfView, applied, keys, grants, mode,
                   todo, pull, crashes>>

Adoptable(n, v) == v \in keys[n] \/ <<v, n>> \in grants[n]
\* What a process loses: startup begins again with the rows left unfinished.
Reboot(n) ==
    /\ mode' = [mode EXCEPT ![n] = "boot"]
    /\ Release(n)
    /\ tasks' = [tasks EXCEPT ![n] = {}]
    /\ todo' = [todo EXCEPT ![n] = {o \in Ops : row[n][o] \in Live}]
    /\ dirty' = [dirty EXCEPT ![n] = TRUE]
    /\ pull' = [m \in Nodes |-> IF m = n \/ pull[m] = n THEN NoNode ELSE pull[m]]

\* Mutant: a merge goes on when its target key has not arrived.
AdoptUnchecked(n) ==
    /\ pc[n] = "adopt"
    /\ LET v == Target[cur[n]][n] IN
       keys' = [keys EXCEPT ![n] = @ \cup
                  IF cur[n] \in Splits \/ Adoptable(n, v) THEN {v} ELSE {}]
    /\ Goto(n, "install")
    /\ UNCHANGED <<row, view, installedBy, outOfView, applied, grants, mode, tasks,
                   todo, dirty, pull, crashes>>
\* The master-key participants: a split child is derived, the key of a merge
\* target has to have arrived.  During startup the error ends the process.
Adopt(n) ==
    /\ pc[n] = "adopt"
    /\ LET v == Target[cur[n]][n] IN
       IF cur[n] \in Splits \/ Adoptable(n, v)
       THEN /\ keys' = [keys EXCEPT ![n] = @ \cup {v}]
            /\ Goto(n, "install")
            /\ UNCHANGED <<mode, tasks, todo, dirty, pull>>
       ELSE /\ IF mode[n] = "up"
               THEN Release(n) /\ UNCHANGED <<mode, tasks, todo, dirty, pull>>
               ELSE Reboot(n)
            /\ UNCHANGED keys
    /\ UNCHANGED <<row, view, installedBy, outOfView, applied, grants, crashes>>

\* Mutant: a merge leaves the peers a split excluded where they are.
InstallKeepsExcluded(n) ==
    /\ pc[n] = "install"
    /\ LET o == cur[n] IN
       /\ view' = [view EXCEPT ![n] = Target[o][n]]
       /\ installedBy' = [installedBy EXCEPT ![n] = o]
       /\ outOfView' = [outOfView EXCEPT ![n] =
             IF o \in Splits THEN {m \in Nodes : Target[o][m] # Target[o][n]} ELSE @]
       /\ dirty' = [dirty EXCEPT ![n] = @ \/ view[n] # Target[o][n]]
    /\ Goto(n, "mark")
    /\ UNCHANGED <<row, applied, keys, grants, mode, tasks, todo, pull, crashes>>
\* One Redb transaction and the in-memory install, without an await between.
Install(n) ==
    /\ pc[n] = "install"
    /\ LET o == cur[n] IN
       /\ view' = [view EXCEPT ![n] = Target[o][n]]
       /\ installedBy' = [installedBy EXCEPT ![n] = o]
       /\ outOfView' = [outOfView EXCEPT ![n] =
             IF o \in Splits THEN {m \in Nodes : Target[o][m] # Target[o][n]} ELSE {}]
       /\ dirty' = [dirty EXCEPT ![n] = @ \/ view[n] # Target[o][n]]
    /\ Goto(n, "mark")
    /\ UNCHANGED <<row, applied, keys, grants, mode, tasks, todo, pull, crashes>>

\* The rows a pass skips are skipped without an await.
Replay(n, s) == \E o \in FirstReplay(n, s) :
    /\ pc' = [pc EXCEPT ![n] = "adopt"]
    /\ cur' = [cur EXCEPT ![n] = o]
    /\ plan' = [plan EXCEPT ![n] = RowsAfter(s, o)]

\* The marker is written last.  A replay goes back to its pass, or returns.
Mark(n) ==
    /\ pc[n] = "mark"
    /\ applied' = [applied EXCEPT ![n] = @ \cup {cur[n]}]
    /\ \/ /\ pass[n] # "none"
          /\ IF FirstReplay(n, plan[n]) = {}
             THEN /\ pc' = [pc EXCEPT ![n] = "end"]
                  /\ cur' = [cur EXCEPT ![n] = NoOp]
                  /\ plan' = [plan EXCEPT ![n] = << >>]
             ELSE Replay(n, plan[n])
          /\ UNCHANGED <<pass, tasks>>
       \/ /\ pass[n] = "none" /\ row[n][cur[n]] = "finalized"
          /\ Release(n) /\ WakeNext(n, row[n])
       \/ /\ pass[n] = "none" /\ row[n][cur[n]] # "finalized"
          /\ Goto(n, "commit") /\ UNCHANGED tasks
    /\ UNCHANGED <<row, view, installedBy, outOfView, keys, grants, mode, todo,
                   dirty, pull, crashes>>

Commit(n) ==
    /\ pc[n] = "commit"
    /\ WriteStage(n, cur[n], "committed")
    /\ IF StageAfter(n, cur[n], "committed") = "committed"
       THEN Goto(n, "finalize") /\ UNCHANGED tasks
       ELSE Release(n) /\ WakeNext(n, row'[n])
    /\ UNCHANGED <<view, installedBy, outOfView, applied, keys, grants, mode,
                   todo, pull, crashes>>

Finalize(n) ==
    /\ pc[n] = "finalize"
    /\ WriteStage(n, cur[n], "finalized")
    /\ Release(n) /\ WakeNext(n, row'[n])
    /\ UNCHANGED <<view, installedBy, outOfView, applied, keys, grants, mode,
                   todo, pull, crashes>>

-----------------------------------------------------------------------------
(* Reconciliation passes.                                                  *)

\* The end of a pass.  After a pull it wakes the ready operation and records
\* the fingerprint of this moment; at startup it lets the daemon serve.
Completed(n, kind) ==
    /\ IF kind = "sync"
       THEN /\ dirty' = [dirty EXCEPT ![n] = FALSE]
            /\ Trigger(n, Active(n, row[n]))
            /\ UNCHANGED mode
       ELSE /\ mode' = [mode EXCEPT ![n] = "up"]
            /\ UNCHANGED <<dirty, tasks>>
    /\ Release(n)
StartPass(n, kind) ==
    IF FirstReplay(n, FinalizedRows(n)) = {} THEN Completed(n, kind)
    ELSE /\ Replay(n, FinalizedRows(n))
         /\ pass' = [pass EXCEPT ![n] = kind]
         /\ UNCHANGED <<mode, tasks, dirty>>

\* reconcile_cluster_operations_after_sync, which follows every pull.
Reconcile(n) ==
    /\ mode[n] = "up" /\ pc[n] = "idle" /\ dirty[n]
    /\ StartPass(n, "sync")
    /\ UNCHANGED <<durable, todo, pull, crashes>>
\* restore_topology_derived_state, once the pending rows were replayed.
BootReconcile(n) ==
    /\ mode[n] = "boot" /\ pc[n] = "idle" /\ todo[n] = {}
    /\ StartPass(n, "boot")
    /\ UNCHANGED <<durable, todo, pull, crashes>>
EndPass(n) ==
    /\ pc[n] = "end"
    /\ Completed(n, pass[n])
    /\ UNCHANGED <<durable, todo, pull, crashes>>

-----------------------------------------------------------------------------
(* A metadata pull: the key domain is exchanged before the operations.     *)

Newer(n, p) == {o \in Ops : Rank[row[p][o]] > Rank[row[n][o]]}

PullKeys(n, p) ==
    /\ mode[n] = "up" /\ mode[p] = "up" /\ p # n /\ pull[n] = NoNode
    /\ Newer(n, p) # {} \/ ~(grants[p] \subseteq grants[n])
    /\ grants' = [grants EXCEPT ![n] = @ \cup grants[p]]
    /\ pull' = [pull EXCEPT ![n] = p]
    /\ UNCHANGED <<row, view, installedBy, outOfView, applied, keys, mode, driver,
                   tasks, todo, dirty, crashes>>

\* The rows as the peer has them now; a stream may break after some of them.
PullRows(n) ==
    /\ pull[n] # NoNode
    /\ LET p == pull[n] IN
       \/ /\ Newer(n, p) = {}
          /\ UNCHANGED <<row, dirty>>
       \/ \E D \in (SUBSET Newer(n, p)) \ {{}} :
          /\ row' = [row EXCEPT ![n] = [o \in Ops |-> IF o \in D THEN row[p][o] ELSE @[o]]]
          /\ dirty' = [dirty EXCEPT ![n] = TRUE]
    /\ pull' = [pull EXCEPT ![n] = NoNode]
    /\ UNCHANGED <<view, installedBy, outOfView, applied, keys, grants, mode,
                   driver, tasks, todo, crashes>>

Crash(n) ==
    /\ n \in Crashable
    /\ mode[n] = "up" \/ pc[n] # "idle"
    /\ crashes < MaxCrashes /\ crashes' = crashes + 1
    /\ Reboot(n)
    /\ UNCHANGED durable

-----------------------------------------------------------------------------
Hold(n) ==
    \/ Publish(n) \/ Reject(n) \/ Prepare(n) \/ Apply(n) \/ Adopt(n)
    \/ Install(n) \/ Mark(n) \/ Commit(n) \/ Finalize(n) \/ EndPass(n)
Work(n) == Progress(n) \/ Hold(n) \/ Reconcile(n) \/ BootReconcile(n)
Pull(n) == PullRows(n) \/ \E p \in Nodes : PullKeys(n, p)

Next == \E n \in Nodes :
    \/ \E o \in Ops : Submit(n, o)
    \/ Work(n) \/ Pull(n) \/ Crash(n)

Spec == Init /\ [][Next]_vars

-----------------------------------------------------------------------------
(* Properties.                                                             *)

\* A node always holds the master key of its active view: the key participants
\* of apply_cluster_transition activate it before the view is persisted, in
\* every interleaving of progress, replay, pulls and crashes.
KeyBeforeView == \A n \in Nodes : view[n] \in keys[n]

\* The active view moves only from the source to the assigned target of an
\* operation whose row here is past Proposed and whose dependencies are all
\* finalized here, unless the operation itself is: progress_cluster_operation
\* and the replays, whatever rows arrive while the keys are being adopted.
ViewFollowsLedger ==
    [][\A n \in Nodes : view'[n] # view[n] =>
          \E o \in Ops :
             /\ view[n] = Source[o] /\ view'[n] = Target[o][n]
             /\ row[n][o] \notin {"none", "proposed"}
             /\ row[n][o] = "finalized" \/ \A d \in Deps[o] : row[n][d] = "finalized"]_vars

\* A row that says Committed or Finalized, here or in any copy that was pulled,
\* belongs to an operation some node has carried out in full, its side-effect
\* marker included: the stage is written after apply_cluster_transition.
CommitFollowsCutover ==
    \A n \in Nodes, o \in Ops :
        row[n][o] \in {"committed", "finalized"} => \E m \in Nodes : o \in applied[m]

\* No operation is under way: the ledgers agree and hold nothing that may move.
LedgerSettled ==
    /\ \A n \in Nodes : mode[n] = "up" /\ pc[n] = "idle" /\ ReadyOps(n, row[n]) = {}
    /\ \A n, m \in Nodes : row[n] = row[m]
\* ... and no node has still to follow a finalized row.
Settled == LedgerSettled /\ \A n \in Nodes, o \in Ops : ~NeedsReplay(n, o)

\* The view a ledger leads a node to: every finalized row in dependency order,
\* except where the node is elsewhere or an earlier merge retired the lineage.
LedgerView(v, n, ledger) ==
    LET done == SelectSeq(DependencyOrder[Known(ledger)], LAMBDA o : ledger[o] = "finalized")
        at[i \in 0..Len(done)] ==
            IF i = 0 THEN v
            ELSE IF at[i - 1] = Source[done[i]] /\ ~RetiredByPriorMerge(ledger, done[i])
                 THEN Target[done[i]][n] ELSE at[i - 1]
    IN  at[Len(done)]


\* Nodes of one view agree that they share it once nothing is left to do: the
\* peers excluded by a split are readmitted by the merge that ends it.
BoundaryAgrees ==
    Settled => \A n, m \in Nodes : view[n] = view[m] => m \notin outOfView[n]
=============================================================================
