---------------------------- MODULE ClusterProofs ----------------------------
(***************************************************************************)
(* What a node may do to its active view, for every set of operations.     *)
(*                                                                         *)
(* The driver checks a row, its dependencies and the active view before an *)
(* await and moves the view after it, while pulls raise rows, crashes end  *)
(* drivers and other nodes publish stages.  The invariant says, for the    *)
(* holder of a node's gate, which of the checked facts still hold at the   *)
(* point it has reached: those that no later row can take back.            *)
(***************************************************************************)
EXTENDS ClusterOperations, TLAPS

ClusterType ==
    /\ row \in [Nodes -> [Ops -> Stages]]
    /\ view \in [Nodes -> Views]
    /\ applied \in [Nodes -> SUBSET Ops]
    /\ keys \in [Nodes -> SUBSET Views]
    /\ pc \in [Nodes -> Points]
    /\ cur \in [Nodes -> Ops \cup {NoOp}]
    /\ pull \in [Nodes -> Nodes \cup {NoNode}]

PastProposed(n, o) == row[n][o] \notin {"none", "proposed"}
Founded(n, o) == row[n][o] = "finalized" \/ \A d \in Deps[o] : row[n][d] = "finalized"
CarriedOut(o) == \E m \in Nodes : o \in applied[m]

\* What the holder of n's gate may rely on at the point it has reached.
Gate(n) ==
    /\ pc[n] \notin {"idle", "end"} => cur[n] \in Ops
    /\ pc[n] \in {"publish", "prepare", "apply", "adopt", "install"} => Founded(n, cur[n])
    /\ pc[n] \in {"apply", "adopt", "install"} => PastProposed(n, cur[n])
    /\ pc[n] \in {"adopt", "install"} => view[n] \in {Source[cur[n]], Target[cur[n]][n]}
    /\ pc[n] = "install" => Target[cur[n]][n] \in keys[n]
    /\ pc[n] = "commit" => cur[n] \in applied[n]
    /\ pc[n] = "finalize" => CarriedOut(cur[n])

ClusterInv ==
    /\ ClusterType
    /\ \A n \in Nodes : Gate(n)
    /\ KeyBeforeView
    /\ CommitFollowsCutover

-----------------------------------------------------------------------------
(* Rows only rise, and what the gate relies on survives that.              *)

Above(t, s) == Rank[t] >= Rank[s]

LEMMA RankNumbers ==
    /\ Stages = {"none", "proposed", "prepared", "aborted", "committed", "finalized"}
    /\ Rank["none"] = 0 /\ Rank["proposed"] = 1 /\ Rank["prepared"] = 2
    /\ Rank["aborted"] = 3 /\ Rank["committed"] = 4 /\ Rank["finalized"] = 5
BY DEF Stages, Rank

LEMMA RowsStay ==
    ASSUME NEW s \in Stages, NEW t \in Stages, Above(t, s)
    PROVE  /\ s = "finalized" => t = "finalized"
           /\ s \notin {"none", "proposed"} => t \notin {"none", "proposed"}
           /\ s \in {"committed", "finalized"} => t \in {"committed", "finalized"}
BY RankNumbers DEF Above

RowsRise ==
    /\ row' \in [Nodes -> [Ops -> Stages]]
    /\ \A n \in Nodes, o \in Ops : Above(row'[n][o], row[n][o])

LEMMA SameRowsRise ==
    ASSUME ClusterType, UNCHANGED row
    PROVE  RowsRise
<1>1. \A s \in Stages : Above(s, s)
  BY RankNumbers DEF Above
<1> QED BY <1>1 DEF ClusterType, RowsRise

\* A stage write gives the row the stage or leaves a higher one.
LEMMA WriteRaises ==
    ASSUME ClusterType, NEW n \in Nodes, NEW o \in Ops, NEW s \in Stages, WriteStage(n, o, s)
    PROVE  /\ RowsRise
           /\ row'[n][o] = StageAfter(n, o, s)
           /\ \A m \in Nodes, p \in Ops : <<m, p>> # <<n, o>> => row'[m][p] = row[m][p]
           /\ row'[n][o] \in {s, row[n][o]}
<1>1. row \in [Nodes -> [Ops -> Stages]] /\ row' = [row EXCEPT ![n][o] = StageAfter(n, o, s)]
  BY DEF ClusterType, WriteStage
<1>2. StageAfter(n, o, s) \in {s, row[n][o]}
  BY DEF StageAfter
<1>3. StageAfter(n, o, s) \in Stages
  BY <1>1, <1>2
<1>4. row' \in [Nodes -> [Ops -> Stages]]
  BY <1>1, <1>3
<1>5. row'[n][o] = StageAfter(n, o, s)
  BY <1>1
<1>6. \A m \in Nodes, p \in Ops : <<m, p>> # <<n, o>> => row'[m][p] = row[m][p]
  BY <1>1
<1>7. Above(StageAfter(n, o, s), row[n][o])
  BY <1>1, RankNumbers DEF StageAfter, Above
<1>8. \A t \in Stages : Above(t, t)
  BY RankNumbers DEF Above
<1>9. ASSUME NEW m \in Nodes, NEW p \in Ops PROVE Above(row'[m][p], row[m][p])
  <2>1. CASE m = n /\ p = o
    BY <2>1, <1>5, <1>7
  <2>2. CASE ~(m = n /\ p = o)
    BY <2>2, <1>1, <1>6, <1>8
  <2> QED BY <2>1, <2>2
<1> QED BY <1>2, <1>4, <1>5, <1>6, <1>9 DEF RowsRise

\* The facts about a row that the gate relies on are never taken back.
LEMMA FactsStay ==
    ASSUME ClusterType, RowsRise, NEW n \in Nodes, NEW o \in Ops
    PROVE  /\ Founded(n, o) => Founded(n, o)'
           /\ PastProposed(n, o) => PastProposed(n, o)'
<1>1. \A p \in Ops : row[n][p] \in Stages /\ row'[n][p] \in Stages /\ Above(row'[n][p], row[n][p])
  BY DEF ClusterType, RowsRise
<1>2. \A p \in Ops : row[n][p] = "finalized" => row'[n][p] = "finalized"
  BY <1>1, RowsStay
<1>3. Deps[o] \subseteq Ops
  BY ClusterAssumption
<1>4. Founded(n, o) => Founded(n, o)'
  BY <1>2, <1>3 DEF Founded
<1>5. PastProposed(n, o) => PastProposed(n, o)'
  BY <1>1, RowsStay DEF PastProposed
<1> QED BY <1>4, <1>5

\* A node whose driver rests keeps its gate's facts.
LEMMA GateStays ==
    ASSUME ClusterInv, RowsRise, NEW n \in Nodes,
           pc'[n] = pc[n], cur'[n] = cur[n], view'[n] = view[n],
           keys[n] \subseteq keys'[n], \A m \in Nodes : applied[m] \subseteq applied'[m]
    PROVE  Gate(n)'
<1>1. Gate(n) /\ ClusterType
  BY DEF ClusterInv
<1>2. CASE pc[n] \in {"idle", "end"}
  BY <1>2 DEF Gate
<1>3. CASE pc[n] \notin {"idle", "end"}
  <2>1. cur[n] \in Ops
    BY <1>1, <1>3 DEF Gate
  <2>2. /\ Founded(n, cur[n]) => Founded(n, cur[n])'
        /\ PastProposed(n, cur[n]) => PastProposed(n, cur[n])'
    BY <1>1, <2>1, FactsStay
  <2>3. CarriedOut(cur[n]) => CarriedOut(cur[n])'
    BY DEF CarriedOut
  <2> QED BY <1>1, <1>3, <2>1, <2>2, <2>3 DEF Gate
<1> QED BY <1>2, <1>3

-----------------------------------------------------------------------------
(* Steps of one node.                                                      *)

OthersRest(n) ==
    \A m \in Nodes \ {n} : /\ pc'[m] = pc[m] /\ cur'[m] = cur[m]
                           /\ view'[m] = view[m] /\ keys'[m] = keys[m]

TypedDriver ==
    /\ pc' \in [Nodes -> Points]
    /\ cur' \in [Nodes -> Ops \cup {NoOp}]
    /\ pull' \in [Nodes -> Nodes \cup {NoNode}]

\* A step of n that keeps every view, key and marker, and commits nothing new.
LEMMA DriverStep ==
    ASSUME ClusterInv, NEW n \in Nodes, RowsRise, TypedDriver, Gate(n)',
           UNCHANGED <<view, keys, applied>>,
           \A m \in Nodes \ {n} : pc'[m] = pc[m] /\ cur'[m] = cur[m],
           \A m \in Nodes, o \in Ops : row'[m][o] \in {"committed", "finalized"} => CarriedOut(o)
    PROVE  ClusterInv'
<1>1. ClusterType'
  BY DEF ClusterInv, ClusterType, TypedDriver, RowsRise
<1>2. ASSUME NEW m \in Nodes PROVE Gate(m)'
  <2>1. CASE m = n
    BY <2>1
  <2>2. CASE m # n
    BY <2>2, GateStays
  <2> QED BY <2>1, <2>2
<1>3. KeyBeforeView'
  BY DEF ClusterInv, KeyBeforeView
<1>4. CommitFollowsCutover'
  BY DEF CommitFollowsCutover, CarriedOut
<1> QED BY <1>1, <1>2, <1>3, <1>4 DEF ClusterInv

\* What is committed was carried out, and stays so.
LEMMA CommittedStays ==
    ASSUME ClusterInv, UNCHANGED row
    PROVE  \A m \in Nodes, o \in Ops : row'[m][o] \in {"committed", "finalized"} => CarriedOut(o)
BY DEF ClusterInv, CommitFollowsCutover, CarriedOut

\* A stage write commits only what was carried out.
LEMMA WriteCommits ==
    ASSUME ClusterInv, NEW n \in Nodes, NEW o \in Ops, NEW s \in Stages, WriteStage(n, o, s),
           s \in {"committed", "finalized"} => CarriedOut(o)
    PROVE  \A m \in Nodes, p \in Ops : row'[m][p] \in {"committed", "finalized"} => CarriedOut(p)
<1>1. ClusterType /\ \A m \in Nodes, p \in Ops : row[m][p] \in {"committed", "finalized"} => CarriedOut(p)
  BY DEF ClusterInv, CommitFollowsCutover, CarriedOut
<1>2. /\ \A m \in Nodes, p \in Ops : <<m, p>> # <<n, o>> => row'[m][p] = row[m][p]
      /\ row'[n][o] \in {s, row[n][o]}
  BY <1>1, WriteRaises
<1> QED BY <1>1, <1>2

\* The ends of a hold of the gate, and of a process.
LEMMA ReleaseStep ==
    ASSUME ClusterInv, NEW n \in Nodes, Release(n), RowsRise, UNCHANGED <<view, keys, applied>>,
           pull' \in [Nodes -> Nodes \cup {NoNode}],
           \A m \in Nodes, o \in Ops : row'[m][o] \in {"committed", "finalized"} => CarriedOut(o)
    PROVE  ClusterInv'
<1>1. /\ pc \in [Nodes -> Points] /\ cur \in [Nodes -> Ops \cup {NoOp}]
      /\ pc' = [pc EXCEPT ![n] = "idle"] /\ cur' = [cur EXCEPT ![n] = NoOp]
  BY DEF ClusterInv, ClusterType, Release
<1>2. TypedDriver
  BY <1>1 DEF TypedDriver, Points
<1>3. Gate(n)'
  BY <1>1 DEF Gate
<1>4. \A m \in Nodes \ {n} : pc'[m] = pc[m] /\ cur'[m] = cur[m]
  BY <1>1
<1> QED BY <1>2, <1>3, <1>4, DriverStep

\* The gate's holder goes on to the next point.
LEMMA GotoStep ==
    ASSUME ClusterInv, NEW n \in Nodes, NEW o \in Ops, NEW point \in Points,
           pc' = [pc EXCEPT ![n] = point], cur' = [cur EXCEPT ![n] = o], UNCHANGED pull,
           RowsRise, UNCHANGED <<view, keys, applied>>,
           \A m \in Nodes, p \in Ops : row'[m][p] \in {"committed", "finalized"} => CarriedOut(p),
           point \in {"publish", "prepare", "apply", "adopt"} => Founded(n, o),
           point \in {"apply", "adopt"} => PastProposed(n, o)',
           point = "adopt" => view[n] \in {Source[o], Target[o][n]},
           point # "install",
           point = "commit" => o \in applied[n],
           point = "finalize" => CarriedOut(o)
    PROVE  ClusterInv'
<1>1. ClusterType
  BY DEF ClusterInv
<1>2. pc'[n] = point /\ cur'[n] = o /\ \A m \in Nodes \ {n} : pc'[m] = pc[m] /\ cur'[m] = cur[m]
  BY <1>1 DEF ClusterType
<1>3. TypedDriver
  BY <1>1 DEF ClusterType, TypedDriver
<1>4. Founded(n, o) => Founded(n, o)'
  BY <1>1, FactsStay
<1>5. CarriedOut(o) => CarriedOut(o)'
  BY DEF CarriedOut
<1>6. Gate(n)'
  BY <1>2, <1>4, <1>5 DEF Gate
<1> QED BY <1>2, <1>3, <1>6, DriverStep

\* No driver moves.
LEMMA RestStep ==
    ASSUME ClusterInv, NEW n \in Nodes, RowsRise, UNCHANGED <<view, keys, applied, pc, cur>>,
           pull' \in [Nodes -> Nodes \cup {NoNode}],
           \A m \in Nodes, o \in Ops : row'[m][o] \in {"committed", "finalized"} => CarriedOut(o)
    PROVE  ClusterInv'
<1>1. Gate(n)'
  BY GateStays
<1>2. TypedDriver
  BY DEF ClusterInv, ClusterType, TypedDriver
<1> QED BY <1>1, <1>2, DriverStep

\* A step of n that moves its view, adds keys or writes a marker.
LEMMA NodeStep ==
    ASSUME ClusterInv, NEW n \in Nodes, UNCHANGED row, TypedDriver, Gate(n)', OthersRest(n),
           view' \in [Nodes -> Views], keys' \in [Nodes -> SUBSET Views],
           applied' \in [Nodes -> SUBSET Ops], \A m \in Nodes : applied[m] \subseteq applied'[m],
           view'[n] \in keys'[n]
    PROVE  ClusterInv'
<1>1. RowsRise
  BY SameRowsRise DEF ClusterInv
<1>2. ClusterType'
  BY <1>1 DEF ClusterType, TypedDriver, RowsRise
<1>3. ASSUME NEW m \in Nodes PROVE Gate(m)'
  <2>1. CASE m = n
    BY <2>1
  <2>2. CASE m # n
    BY <1>1, <2>2, GateStays DEF OthersRest
  <2> QED BY <2>1, <2>2
<1>4. KeyBeforeView'
  BY DEF ClusterInv, KeyBeforeView, OthersRest
<1>5. CommitFollowsCutover'
  BY DEF ClusterInv, CommitFollowsCutover
<1> QED BY <1>2, <1>3, <1>4, <1>5 DEF ClusterInv

-----------------------------------------------------------------------------
(* What the checks before an await establish.                              *)

LEMMA ReadyFounds ==
    ASSUME NEW n \in Nodes, NEW o \in Ops, DependencyState(row[n], o) = "ready"
    PROVE  Founded(n, o)
BY DEF DependencyState, Founded

LEMMA ProgressViews ==
    ASSUME NEW n \in Nodes, NEW o \in Ops, CanProgress(n, o)
    PROVE  view[n] \in {Source[o], Target[o][n]}
<1>1. CASE o \in Splits
  BY <1>1 DEF CanProgress, RecoverableTarget
<1>2. CASE o \notin Splits
  <2>1. \A m \in Nodes : Target[o][m] = Target[o][n]
    BY <1>2, ClusterAssumption
  <2> QED BY <1>2, <2>1 DEF CanProgress, TargetViews
<1> QED BY <1>1, <1>2

LEMMA ReplayFounds ==
    ASSUME NEW n \in Nodes, NEW o \in Ops, NeedsReplay(n, o)
    PROVE  Founded(n, o) /\ PastProposed(n, o) /\ view[n] \in {Source[o], Target[o][n]}
<1>1. view[n] \in {Source[o], Target[o][n]}
  BY ProgressViews DEF NeedsReplay
<1>2. row[n][o] = "finalized"
  BY DEF NeedsReplay
<1> QED BY <1>1, <1>2 DEF Founded, PastProposed

-----------------------------------------------------------------------------
(* The actions.                                                            *)

LEMMA SubmitKeeps ==
    ASSUME ClusterInv, NEW n \in Nodes, NEW o \in Ops, Submit(n, o)
    PROVE  ClusterInv'
<1>1. /\ ClusterType /\ row[n][o] = "none" /\ row' = [row EXCEPT ![n][o] = "proposed"]
      /\ UNCHANGED <<view, keys, applied, pc, cur, pull>>
  BY DEF ClusterInv, Submit, driver
<1>2. row' \in [Nodes -> [Ops -> Stages]]
  BY <1>1, RankNumbers DEF ClusterType
<1>3. \A m \in Nodes, p \in Ops : row'[m][p] = IF m = n /\ p = o THEN "proposed" ELSE row[m][p]
  BY <1>1 DEF ClusterType
<1>4. RowsRise
  BY <1>1, <1>2, <1>3, RankNumbers DEF RowsRise, Above, ClusterType
<1>5. \A m \in Nodes, p \in Ops : row'[m][p] \in {"committed", "finalized"} => CarriedOut(p)
  BY <1>3 DEF ClusterInv, CommitFollowsCutover, CarriedOut
<1> QED BY <1>1, <1>4, <1>5, RestStep DEF ClusterType

LEMMA ProgressKeeps ==
    ASSUME ClusterInv, NEW n \in Nodes, Progress(n)
    PROVE  ClusterInv'
<1>t. ClusterType /\ pull \in [Nodes -> Nodes \cup {NoNode}]
  BY DEF ClusterInv, ClusterType
<1>s. UNCHANGED row => RowsRise
  BY <1>t, SameRowsRise
<1> SUFFICES ASSUME NEW o \in Ops,
                    \/ ProgressNothing(n, o) \/ ProgressBlocked(n, o) \/ ProgressRetired(n, o)
                    \/ ProgressQueued(n, o) \/ ProgressProposed(n, o) \/ ProgressPrepared(n, o)
                    \/ ProgressCommitted(n, o) \/ ProgressTerminal(n, o)
             PROVE  ClusterInv'
  BY DEF Progress
<1>u. UNCHANGED <<view, keys, applied, pull>>
  BY Zenon DEF ProgressNothing, ProgressBlocked, ProgressRetired, ProgressQueued, ProgressProposed,
         ProgressPrepared, ProgressCommitted, ProgressTerminal, Taken
<1>1. CASE ProgressNothing(n, o) \/ ProgressQueued(n, o)
  <2>1. UNCHANGED <<row, pc, cur>>
    BY Zenon, <1>1 DEF ProgressNothing, ProgressQueued, driver
  <2> QED BY <1>t, <1>s, <1>u, <2>1, CommittedStays, RestStep
<1>2. CASE ProgressBlocked(n, o) \/ ProgressRetired(n, o)
  <2>1. WriteStage(n, o, "aborted") /\ UNCHANGED <<pc, cur>>
    BY Zenon, <1>2 DEF ProgressBlocked, ProgressRetired, driver
  <2>2. "aborted" \in Stages
    BY RankNumbers
  <2>3. RowsRise
    BY Zenon, <1>t, <2>1, <2>2, WriteRaises
  <2>4. \A m \in Nodes, p \in Ops : row'[m][p] \in {"committed", "finalized"} => CarriedOut(p)
    BY Zenon, <2>1, <2>2, WriteCommits
  <2> QED BY Zenon, <1>t, <1>u, <2>1, <2>3, <2>4, RestStep
<1>3. CASE ProgressProposed(n, o)
  <2>1. UNCHANGED row /\ Founded(n, o)
    BY Zenon, <1>3, ReadyFounds DEF ProgressProposed, Chosen, ReadyHere
  <2>2. CASE UNCHANGED driver
    BY Zenon, <1>t, <1>s, <1>u, <2>1, <2>2, CommittedStays, RestStep DEF driver
  <2>3. CASE pc' = [pc EXCEPT ![n] = "publish"] /\ cur' = [cur EXCEPT ![n] = o]
    BY Zenon, <1>s, <1>u, <2>1, <2>3, CommittedStays, GotoStep DEF Points
  <2> QED BY Zenon, <1>3, <2>2, <2>3 DEF ProgressProposed
<1>4. CASE ProgressPrepared(n, o)
  <2>1. /\ UNCHANGED row /\ Founded(n, o) /\ row[n][o] = "prepared"
        /\ pc' = [pc EXCEPT ![n] = "apply"] /\ cur' = [cur EXCEPT ![n] = o]
    BY <1>4, ReadyFounds DEF ProgressPrepared, Chosen, ReadyHere
  <2>2. PastProposed(n, o)'
    BY <2>1 DEF PastProposed
  <2> QED BY Zenon, <1>s, <1>u, <2>1, <2>2, CommittedStays, GotoStep DEF Points
<1>5. CASE ProgressCommitted(n, o)
  <2>1. /\ UNCHANGED row /\ row[n][o] = "committed"
        /\ pc' = [pc EXCEPT ![n] = "finalize"] /\ cur' = [cur EXCEPT ![n] = o]
    BY Zenon, <1>5 DEF ProgressCommitted
  <2>2. CarriedOut(o)
    BY <2>1 DEF ClusterInv, CommitFollowsCutover, CarriedOut
  <2> QED BY Zenon, <1>s, <1>u, <2>1, <2>2, CommittedStays, GotoStep DEF Points
<1>6. CASE ProgressTerminal(n, o)
  <2>1. UNCHANGED row
    BY <1>6 DEF ProgressTerminal
  <2>2. CASE NeedsReplay(n, o)
    <3>1. pc' = [pc EXCEPT ![n] = "adopt"] /\ cur' = [cur EXCEPT ![n] = o]
      BY <1>6, <2>2 DEF ProgressTerminal
    <3>2. Founded(n, o) /\ PastProposed(n, o) /\ view[n] \in {Source[o], Target[o][n]}
      BY <2>2, ReplayFounds
    <3>3. PastProposed(n, o)'
      BY <2>1, <3>2 DEF PastProposed
    <3> QED BY Zenon, <1>s, <1>u, <2>1, <3>1, <3>2, <3>3, CommittedStays, GotoStep DEF Points
  <2>3. CASE ~NeedsReplay(n, o)
    <3>1. UNCHANGED <<pc, cur>>
      BY Zenon, <1>6, <2>3 DEF ProgressTerminal, driver
    <3> QED BY Zenon, <1>t, <1>s, <1>u, <2>1, <3>1, CommittedStays, RestStep
  <2> QED BY <2>2, <2>3
<1> QED BY <1>1, <1>2, <1>3, <1>4, <1>5, <1>6

\* A replay starts on a row that needs it.
LEMMA ReplayStep ==
    ASSUME ClusterInv, NEW n \in Nodes, NEW s, Replay(n, s),
           UNCHANGED <<row, view, keys, applied, pull>>
    PROVE  ClusterInv'
<1>1. PICK o \in Ops : /\ NeedsReplay(n, o)
                      /\ pc' = [pc EXCEPT ![n] = "adopt"] /\ cur' = [cur EXCEPT ![n] = o]
  BY Zenon DEF Replay, FirstReplay
<1>2. Founded(n, o) /\ PastProposed(n, o) /\ view[n] \in {Source[o], Target[o][n]}
  BY <1>1, ReplayFounds
<1>3. PastProposed(n, o)'
  BY <1>2 DEF PastProposed
<1>4. RowsRise
  BY SameRowsRise DEF ClusterInv
<1> QED BY Zenon, <1>1, <1>2, <1>3, <1>4, CommittedStays, GotoStep DEF Points

LEMMA CompletedStep ==
    ASSUME ClusterInv, NEW n \in Nodes, NEW kind, Completed(n, kind),
           UNCHANGED <<row, view, keys, applied, pull>>
    PROVE  ClusterInv'
<1>1. RowsRise /\ pull' \in [Nodes -> Nodes \cup {NoNode}]
  BY SameRowsRise DEF ClusterInv, ClusterType
<1> QED BY <1>1, CommittedStays, ReleaseStep DEF Completed

LEMMA PassKeeps ==
    ASSUME ClusterInv, NEW n \in Nodes, Reconcile(n) \/ BootReconcile(n) \/ EndPass(n)
    PROVE  ClusterInv'
<1>1. UNCHANGED <<row, view, keys, applied, pull>>
  BY DEF Reconcile, BootReconcile, EndPass, durable
<1>2. CASE EndPass(n)
  BY <1>1, <1>2, CompletedStep DEF EndPass
<1>3. ASSUME NEW kind, StartPass(n, kind) PROVE ClusterInv'
  BY <1>1, <1>3, CompletedStep, ReplayStep DEF StartPass
<1> QED BY <1>2, <1>3 DEF Reconcile, BootReconcile

\* The driver up to the transition: it writes stages and adds keys.
LEMMA PrepareKeeps ==
    ASSUME ClusterInv, NEW n \in Nodes, Publish(n) \/ Reject(n) \/ Prepare(n) \/ Apply(n)
    PROVE  ClusterInv'
<1>t. ClusterType /\ Gate(n) /\ pull \in [Nodes -> Nodes \cup {NoNode}]
  BY DEF ClusterInv, ClusterType
<1>g. cur[n] \in Ops /\ Founded(n, cur[n])
  BY <1>t DEF Publish, Reject, Prepare, Apply, Gate
<1>o. PICK o \in Ops : o = cur[n] /\ Founded(n, o)
  BY <1>g
<1>c. pc \in [Nodes -> Points] /\ cur = [cur EXCEPT ![n] = o]
  BY <1>t, <1>o DEF ClusterType
<1>r. {"prepared", "aborted"} \subseteq Stages
  BY RankNumbers
<1>s. ASSUME NEW s \in {"prepared", "aborted"}, WriteStage(n, o, s)
      PROVE  /\ RowsRise
             /\ \A m \in Nodes, p \in Ops : row'[m][p] \in {"committed", "finalized"} => CarriedOut(p)
  BY <1>s, <1>t, <1>o, <1>r, WriteRaises, WriteCommits
<1>1. CASE Publish(n)
  <2>1. /\ pc' = [pc EXCEPT ![n] = "prepare"] /\ UNCHANGED <<cur, row, view, applied, pull>>
        /\ keys' = [keys EXCEPT ![n] = @ \cup IF o \in Splits THEN TargetViews(o) ELSE {}]
    BY Zenon, <1>1, <1>o DEF Publish, Goto
  <2>2. TargetViews(o) \subseteq Views
    BY <1>o, ClusterAssumption DEF TargetViews
  <2>3. /\ keys' \in [Nodes -> SUBSET Views] /\ keys[n] \subseteq keys'[n]
        /\ \A m \in Nodes \ {n} : keys'[m] = keys[m]
    BY <1>t, <2>1, <2>2 DEF ClusterType
  <2>4. TypedDriver /\ OthersRest(n)
    BY <1>t, <2>1, <2>3 DEF ClusterType, TypedDriver, OthersRest, Points
  <2>5. Founded(n, o)'
    BY <1>o, <2>1 DEF Founded
  <2>6. Gate(n)'
    BY <1>c, <1>o, <2>1, <2>5 DEF Gate
  <2>7. view'[n] \in keys'[n]
    BY <2>1, <2>3 DEF ClusterInv, KeyBeforeView
  <2> QED BY <1>t, <2>1, <2>3, <2>4, <2>6, <2>7, NodeStep DEF ClusterType
<1>2. CASE Reject(n)
  BY Zenon, <1>2, <1>o, <1>s, <1>t, ReleaseStep DEF Reject
<1>3. CASE Prepare(n)
  <2>1. WriteStage(n, o, "prepared") /\ UNCHANGED <<view, keys, applied, pull>>
    BY <1>3, <1>o DEF Prepare
  <2>2. CASE Release(n)
    BY <1>s, <1>t, <2>1, <2>2, ReleaseStep
  <2>3. CASE StageAfter(n, o, "prepared") = "prepared" /\ Goto(n, "apply")
    <3>1. row'[n][o] = "prepared"
      BY Zenon, <1>t, <1>o, <1>r, <2>1, <2>3, WriteRaises
    <3>2. /\ pc' = [pc EXCEPT ![n] = "apply"] /\ cur' = [cur EXCEPT ![n] = o]
          /\ PastProposed(n, o)'
      BY Zenon, <1>c, <2>3, <3>1 DEF Goto, PastProposed
    <3> QED BY Zenon, <1>o, <1>s, <2>1, <3>2, GotoStep DEF Points
  <2> QED BY Zenon, <1>3, <1>o, <2>2, <2>3 DEF Prepare
<1>4. CASE Apply(n)
  <2>1. UNCHANGED <<view, keys, applied, pull>> /\ PastProposed(n, o)
    BY <1>4, <1>o, <1>t DEF Apply, Gate
  <2>s. UNCHANGED row => RowsRise /\ PastProposed(n, o)'
    BY <1>t, <2>1, SameRowsRise DEF PastProposed
  <2>2. CASE o \in applied[n]
    <3>1. pc' = [pc EXCEPT ![n] = "commit"] /\ cur' = [cur EXCEPT ![n] = o] /\ UNCHANGED row
      BY <1>4, <1>o, <1>c, <2>2 DEF Apply, Goto
    <3> QED BY Zenon, <1>o, <2>1, <2>s, <2>2, <3>1, CommittedStays, GotoStep DEF Points
  <2>3. CASE o \notin applied[n] /\ CanApply(n, o)
    <3>1. pc' = [pc EXCEPT ![n] = "adopt"] /\ cur' = [cur EXCEPT ![n] = o] /\ UNCHANGED row
      BY <1>4, <1>o, <1>c, <2>3 DEF Apply, Goto
    <3>2. view[n] \in {Source[o], Target[o][n]}
      BY <1>o, <2>3, ProgressViews DEF CanApply
    <3> QED BY Zenon, <1>o, <2>1, <2>s, <3>1, <3>2, CommittedStays, GotoStep DEF Points
  <2>4. CASE o \notin applied[n] /\ ~CanApply(n, o)
    <3>1. WriteStage(n, o, "aborted") /\ Release(n)
      BY <1>4, <1>o, <2>4 DEF Apply
    <3> QED BY Zenon, <1>s, <1>t, <2>1, <3>1, ReleaseStep
  <2> QED BY <2>2, <2>3, <2>4
<1> QED BY <1>1, <1>2, <1>3, <1>4

\* A process ends: its driver is gone, the durable state stays.
LEMMA RebootStep ==
    ASSUME ClusterInv, NEW n \in Nodes, Reboot(n), UNCHANGED <<row, view, keys, applied>>
    PROVE  ClusterInv'
<1>1. pull' \in [Nodes -> Nodes \cup {NoNode}] /\ Release(n)
  BY DEF ClusterInv, ClusterType, Reboot
<1>2. RowsRise
  BY SameRowsRise DEF ClusterInv
<1> QED BY <1>1, <1>2, CommittedStays, ReleaseStep

\* The transition itself: key, view, marker.
LEMMA TransitionKeeps ==
    ASSUME ClusterInv, NEW n \in Nodes, Adopt(n) \/ Install(n) \/ Mark(n)
    PROVE  ClusterInv'
<1>t. ClusterType /\ Gate(n)
  BY DEF ClusterInv
<1>g. cur[n] \in Ops
  BY Zenon, <1>t DEF Adopt, Install, Mark, Gate
<1>o. PICK o \in Ops : o = cur[n]
  BY <1>g
<1>c. cur = [cur EXCEPT ![n] = o]
  BY <1>t, <1>o DEF ClusterType
<1>v. Target[o][n] \in Views
  BY ClusterAssumption
<1>s. UNCHANGED row => RowsRise
  BY <1>t, SameRowsRise
<1>1. CASE Adopt(n) /\ (o \in Splits \/ Adoptable(n, Target[o][n]))
  <2>1. /\ keys' = [keys EXCEPT ![n] = @ \cup {Target[o][n]}]
        /\ pc' = [pc EXCEPT ![n] = "install"] /\ pc[n] = "adopt"
        /\ UNCHANGED <<cur, row, view, applied, pull>>
    BY <1>1, <1>o DEF Adopt, Goto
  <2>2. /\ keys' \in [Nodes -> SUBSET Views] /\ keys[n] \cup {Target[o][n]} \subseteq keys'[n]
        /\ \A m \in Nodes \ {n} : keys'[m] = keys[m]
    BY <1>t, <1>v, <2>1 DEF ClusterType
  <2>3. TypedDriver /\ OthersRest(n)
    BY <1>t, <2>1, <2>2 DEF ClusterType, TypedDriver, OthersRest, Points
  <2>4. /\ Founded(n, o)' /\ PastProposed(n, o)'
        /\ view'[n] \in {Source[o], Target[o][n]}
    BY Zenon, <1>t, <1>o, <2>1 DEF Gate, Founded, PastProposed
  <2>5. pc'[n] = "install" /\ cur'[n] = o
    BY <1>t, <1>o, <2>1 DEF ClusterType
  <2>6. Gate(n)'
    BY <2>2, <2>4, <2>5 DEF Gate
  <2>7. view'[n] \in keys'[n]
    BY <2>1, <2>2 DEF ClusterInv, KeyBeforeView
  <2> QED BY <1>t, <2>1, <2>2, <2>3, <2>6, <2>7, NodeStep DEF ClusterType
<1>2. CASE Adopt(n) /\ ~(o \in Splits \/ Adoptable(n, Target[o][n]))
  <2>1. /\ UNCHANGED <<row, view, keys, applied>>
        /\ Reboot(n) \/ (Release(n) /\ UNCHANGED pull)
    BY Zenon, <1>2, <1>o DEF Adopt
  <2>2. CASE Reboot(n)
    BY <2>1, <2>2, RebootStep
  <2>3. CASE Release(n) /\ UNCHANGED pull
    <3>1. pull' \in [Nodes -> Nodes \cup {NoNode}]
      BY <1>t, <2>3 DEF ClusterType
    <3> QED BY <1>s, <2>1, <2>3, <3>1, CommittedStays, ReleaseStep
  <2> QED BY <2>1, <2>2, <2>3
<1>3. CASE Install(n)
  <2>1. /\ view' = [view EXCEPT ![n] = Target[o][n]]
        /\ pc' = [pc EXCEPT ![n] = "mark"] /\ pc[n] = "install"
        /\ UNCHANGED <<cur, row, keys, applied, pull>>
    BY <1>3, <1>o DEF Install, Goto
  <2>2. view' \in [Nodes -> Views] /\ view'[n] = Target[o][n]
    BY <1>t, <1>v, <2>1 DEF ClusterType
  <2>3. TypedDriver /\ OthersRest(n)
    BY <1>t, <2>1 DEF ClusterType, TypedDriver, OthersRest, Points
  <2>4. pc'[n] = "mark" /\ cur'[n] = o
    BY <1>t, <1>o, <2>1 DEF ClusterType
  <2>5. Gate(n)'
    BY <2>4 DEF Gate
  <2>6. view'[n] \in keys'[n]
    BY <1>t, <1>o, <2>1, <2>2 DEF Gate
  <2> QED BY Zenon, <1>t, <2>1, <2>2, <2>3, <2>5, <2>6, NodeStep DEF ClusterType
<1>4. CASE Mark(n)
  <2>1. /\ applied' = [applied EXCEPT ![n] = @ \cup {o}]
        /\ UNCHANGED <<row, view, keys, pull>>
    BY Zenon, <1>4, <1>o DEF Mark
  <2>2. /\ applied' \in [Nodes -> SUBSET Ops] /\ o \in applied'[n]
        /\ \A m \in Nodes : applied[m] \subseteq applied'[m]
    BY <1>t, <2>1 DEF ClusterType
  <2>3. PICK point \in Points, q \in Ops \cup {NoOp} :
            /\ pc' = [pc EXCEPT ![n] = point] /\ cur' = [cur EXCEPT ![n] = q]
            /\ \/ point \in {"end", "idle"}
               \/ point = "adopt" /\ q \in Ops /\ NeedsReplay(n, q)
               \/ point = "commit" /\ q = o
    <3>1. CASE Release(n)
      BY Zenon, <3>1 DEF Release, Points
    <3>2. CASE Goto(n, "commit")
      BY <3>2, <1>c DEF Goto, Points
    <3>3. CASE /\ pc' = [pc EXCEPT ![n] = "end"]
               /\ cur' = [cur EXCEPT ![n] = NoOp]
      BY Zenon, <3>3 DEF Points
    <3>4. CASE Replay(n, plan[n])
      BY Zenon, <3>4 DEF Replay, FirstReplay, Points
    <3> QED BY Zenon, <1>4, <3>1, <3>2, <3>3, <3>4 DEF Mark
  <2>4. TypedDriver /\ OthersRest(n) /\ pc'[n] = point /\ cur'[n] = q
    BY <1>t, <2>1, <2>3 DEF ClusterType, TypedDriver, OthersRest
  <2>5. Gate(n)'
    <3>1. CASE point \in {"end", "idle"}
      BY Zenon, <3>1, <2>4 DEF Gate
    <3>2. CASE point = "adopt" /\ q \in Ops /\ NeedsReplay(n, q)
      <4>1. Founded(n, q) /\ PastProposed(n, q) /\ view[n] \in {Source[q], Target[q][n]}
        BY <3>2, ReplayFounds
      <4>2. Founded(n, q)' /\ PastProposed(n, q)' /\ view'[n] \in {Source[q], Target[q][n]}
        BY <2>1, <4>1 DEF Founded, PastProposed
      <4> QED BY Zenon, <2>4, <3>2, <4>2 DEF Gate
    <3>3. CASE point = "commit" /\ q = o
      BY Zenon, <3>3, <2>2, <2>4 DEF Gate
    <3> QED BY <2>3, <3>1, <3>2, <3>3
  <2>6. view'[n] \in keys'[n]
    BY <2>1 DEF ClusterInv, KeyBeforeView
  <2> QED BY <1>t, <2>1, <2>2, <2>4, <2>5, <2>6, NodeStep DEF ClusterType
<1> QED BY <1>1, <1>2, <1>3, <1>4

LEMMA CommitKeeps ==
    ASSUME ClusterInv, NEW n \in Nodes, Commit(n) \/ Finalize(n)
    PROVE  ClusterInv'
<1>t. ClusterType /\ Gate(n) /\ pull \in [Nodes -> Nodes \cup {NoNode}]
  BY DEF ClusterInv, ClusterType
<1>g. cur[n] \in Ops /\ CarriedOut(cur[n])
  BY Zenon, <1>t DEF Commit, Finalize, Gate, CarriedOut
<1>o. PICK o \in Ops : o = cur[n] /\ CarriedOut(o)
  BY <1>g
<1>c. cur = [cur EXCEPT ![n] = o]
  BY <1>t, <1>o DEF ClusterType
<1>r. {"committed", "finalized"} \subseteq Stages
  BY RankNumbers
<1>s. ASSUME NEW s \in {"committed", "finalized"}, WriteStage(n, o, s)
      PROVE  /\ RowsRise
             /\ \A m \in Nodes, p \in Ops : row'[m][p] \in {"committed", "finalized"} => CarriedOut(p)
  BY <1>s, <1>t, <1>o, <1>r, WriteRaises, WriteCommits
<1>1. CASE Release(n)
  <2>1. WriteStage(n, o, "committed") \/ WriteStage(n, o, "finalized")
    BY <1>o DEF Commit, Finalize
  <2>2. UNCHANGED <<view, keys, applied, pull>>
    BY DEF Commit, Finalize
  <2> QED BY <1>1, <1>s, <1>t, <2>1, <2>2, ReleaseStep
<1>2. CASE Commit(n) /\ Goto(n, "finalize")
  <2>1. /\ WriteStage(n, o, "committed") /\ UNCHANGED <<view, keys, applied, pull>>
        /\ pc' = [pc EXCEPT ![n] = "finalize"] /\ cur' = [cur EXCEPT ![n] = o]
    BY <1>2, <1>o, <1>c DEF Commit, Goto
  <2> QED BY Zenon, <1>o, <1>s, <2>1, GotoStep DEF Points
<1> QED BY <1>1, <1>2 DEF Commit, Finalize

LEMMA PullKeeps ==
    ASSUME ClusterInv, NEW n \in Nodes, Pull(n)
    PROVE  ClusterInv'
<1>t. ClusterType
  BY DEF ClusterInv
<1>1. ASSUME NEW p \in Nodes, PullKeys(n, p) PROVE ClusterInv'
  <2>1. /\ UNCHANGED <<row, view, keys, applied, pc, cur>>
        /\ pull' \in [Nodes -> Nodes \cup {NoNode}]
    BY <1>1, <1>t DEF PullKeys, ClusterType, driver
  <2> QED BY <1>t, <2>1, SameRowsRise, CommittedStays, RestStep
<1>2. CASE PullRows(n)
  <2>1. /\ UNCHANGED <<view, keys, applied, pc, cur>>
        /\ pull' \in [Nodes -> Nodes \cup {NoNode}]
    BY <1>2, <1>t DEF PullRows, ClusterType, driver
  <2>2. CASE UNCHANGED row
    BY <1>t, <2>1, <2>2, SameRowsRise, CommittedStays, RestStep
  <2>3. ASSUME NEW p \in Nodes, NEW D \in SUBSET Newer(n, p),
               row' = [row EXCEPT ![n] = [o \in Ops |-> IF o \in D THEN row[p][o] ELSE @[o]]]
        PROVE  ClusterInv'
    <3>1. /\ row' \in [Nodes -> [Ops -> Stages]]
          /\ \A m \in Nodes, o \in Ops :
                row'[m][o] = IF m = n /\ o \in D THEN row[p][o] ELSE row[m][o]
      BY <1>t, <2>3 DEF ClusterType
    <3>2. \A o \in D : Above(row[p][o], row[n][o])
      BY <1>t, <2>3, RankNumbers DEF Newer, Above, ClusterType
    <3>3. \A s \in Stages : Above(s, s)
      BY RankNumbers DEF Above
    <3>4. RowsRise
      BY Zenon, <1>t, <3>1, <3>2, <3>3 DEF RowsRise, ClusterType
    <3>5. \A m \in Nodes, o \in Ops : row'[m][o] \in {"committed", "finalized"} => CarriedOut(o)
      BY <3>1 DEF ClusterInv, CommitFollowsCutover, CarriedOut
    <3> QED BY <2>1, <3>4, <3>5, RestStep
  <2>4. pull[n] # NoNode => pull[n] \in Nodes
    BY <1>t DEF ClusterType
  <2> QED BY <1>2, <2>2, <2>3, <2>4 DEF PullRows
<1> QED BY <1>1, <1>2 DEF Pull

-----------------------------------------------------------------------------
(* The theorems.                                                           *)

LEMMA ClusterInvInit == Init => ClusterInv
<1> SUFFICES ASSUME Init PROVE ClusterInv
  OBVIOUS
<1>1. view \in [Nodes -> Views]
  BY Zenon, ClusterAssumption DEF Init
<1>2. ClusterType
  BY <1>1, RankNumbers DEF Init, ClusterType, Points
<1>3. \A n \in Nodes : Gate(n)
  BY Zenon DEF Init, Gate
<1>4. KeyBeforeView
  BY Zenon, <1>1 DEF Init, KeyBeforeView
<1>5. CommitFollowsCutover
  BY DEF Init, CommitFollowsCutover
<1> QED BY <1>2, <1>3, <1>4, <1>5 DEF ClusterInv

LEMMA ClusterInvNext == ClusterInv /\ [Next]_vars => ClusterInv'
<1> SUFFICES ASSUME ClusterInv, [Next]_vars PROVE ClusterInv'
  OBVIOUS
<1>1. ASSUME NEW n \in Nodes, NEW o \in Ops, Submit(n, o) PROVE ClusterInv'
  BY <1>1, SubmitKeeps
<1>2. ASSUME NEW n \in Nodes, Work(n) PROVE ClusterInv'
  BY <1>2, ProgressKeeps, PrepareKeeps, TransitionKeeps, CommitKeeps, PassKeeps DEF Work, Hold
<1>3. ASSUME NEW n \in Nodes, Pull(n) PROVE ClusterInv'
  BY <1>3, PullKeeps
<1>4. ASSUME NEW n \in Nodes, Crash(n) PROVE ClusterInv'
  BY <1>4, RebootStep DEF Crash, durable
<1>5. CASE UNCHANGED vars
  <2>1. UNCHANGED <<row, view, keys, applied, pc, cur, pull>>
    BY <1>5 DEF vars, durable, driver
  <2>2. ClusterType' /\ KeyBeforeView' /\ CommitFollowsCutover'
    BY <2>1 DEF ClusterInv, ClusterType, KeyBeforeView, CommitFollowsCutover
  <2>3. RowsRise
    BY <2>1, SameRowsRise DEF ClusterInv
  <2>4. \A n \in Nodes : Gate(n)'
    BY <2>1, <2>3, GateStays
  <2> QED BY <2>2, <2>4 DEF ClusterInv
<1> QED BY <1>1, <1>2, <1>3, <1>4, <1>5 DEF Next

\* In every interleaving of drivers, replays, pulls, crashes and restarts, with
\* any splits and merges: a node holds the master key of its active view.
THEOREM KeysPrecedeViews == Spec => []KeyBeforeView
<1>1. ClusterInv => KeyBeforeView
  BY DEF ClusterInv
<1> QED BY <1>1, ClusterInvInit, ClusterInvNext, PTL DEF Spec

\* Every copy of a row that says Committed or Finalized was preceded by a full
\* cutover on some node.
THEOREM CommitsFollowCutovers == Spec => []CommitFollowsCutover
<1>1. ClusterInv => CommitFollowsCutover
  BY DEF ClusterInv
<1> QED BY <1>1, ClusterInvInit, ClusterInvNext, PTL DEF Spec

\* Only the install step of a node's own driver moves its view.
LEMMA OnlyInstallMoves ==
    ASSUME ClusterType, Next, NEW n \in Nodes, view'[n] # view[n]
    PROVE  Install(n)
<1>1. PICK m \in Nodes : (\E o \in Ops : Submit(m, o)) \/ Work(m) \/ Pull(m) \/ Crash(m)
  BY DEF Next
<1>2. ~UNCHANGED view
  OBVIOUS
<1>3. ~Progress(m)
  BY Zenon, <1>2 DEF Progress, ProgressNothing, ProgressBlocked, ProgressRetired, ProgressQueued,
              ProgressProposed, ProgressPrepared, ProgressCommitted, ProgressTerminal, Taken
<1>4. Work(m)
  BY Zenon, <1>1, <1>2 DEF Submit, Pull, PullRows, PullKeys, Crash, durable
<1>5. ~Reconcile(m) /\ ~BootReconcile(m) /\ ~EndPass(m)
  BY Zenon, <1>2 DEF Reconcile, BootReconcile, EndPass, durable
<1>6. Install(m)
  BY <1>2, <1>3, <1>4, <1>5 DEF Work, Hold, Publish, Reject, Prepare, Apply, Adopt, Mark,
                                Commit, Finalize
<1>7. \A k \in Nodes \ {m} : view'[k] = view[k]
  BY <1>6 DEF Install, ClusterType
<1> QED BY <1>6, <1>7

\* For any operations and dependencies, and whatever rows arrive between the
\* checks and the cutover: a view moves only from the source to the assigned
\* target of an operation that is past Proposed on this node, and that is
\* finalized or has all its dependencies finalized here.
THEOREM ViewsFollowLedger == Spec => ViewFollowsLedger
<1> DEFINE Moves == \A n \in Nodes : view'[n] # view[n] =>
          \E o \in Ops :
             /\ view[n] = Source[o] /\ view'[n] = Target[o][n]
             /\ row[n][o] \notin {"none", "proposed"}
             /\ row[n][o] = "finalized" \/ \A d \in Deps[o] : row[n][d] = "finalized"
<1>1. ClusterInv /\ [Next]_vars => [Moves]_vars
  <2> SUFFICES ASSUME ClusterInv, Next, NEW n \in Nodes, view'[n] # view[n]
               PROVE  \E o \in Ops :
                         /\ view[n] = Source[o] /\ view'[n] = Target[o][n]
                         /\ row[n][o] \notin {"none", "proposed"}
                         /\ row[n][o] = "finalized" \/ \A d \in Deps[o] : row[n][d] = "finalized"
    OBVIOUS
  <2>1. Install(n) /\ ClusterType /\ Gate(n)
    BY OnlyInstallMoves DEF ClusterInv
  <2>2. pc[n] = "install" /\ view'[n] = Target[cur[n]][n]
    BY <2>1 DEF Install, ClusterType
  <2>3. /\ cur[n] \in Ops /\ Founded(n, cur[n]) /\ PastProposed(n, cur[n])
        /\ view[n] \in {Source[cur[n]], Target[cur[n]][n]}
    BY <2>1, <2>2 DEF Gate
  <2> QED BY Zenon, <2>2, <2>3 DEF Founded, PastProposed
<1> QED BY <1>1, ClusterInvInit, ClusterInvNext, PTL DEF Spec, ViewFollowsLedger
=============================================================================
