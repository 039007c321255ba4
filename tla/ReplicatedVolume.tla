--------------------------- MODULE ReplicatedVolume ---------------------------
(***************************************************************************)
(* One replicated volume: the committed control commands of VolumeCommands *)
(* composed with the nodes that act on them.                               *)
(*                                                                         *)
(* Each node applies the group's log at its own pace and admits data       *)
(* requests by what it has applied; each keeps one copy in a replica file  *)
(* with its own fence, write and flush numbers.  The mounted writer sends  *)
(* every write and flush to all copies; a failed writer or the controller  *)
(* starts a recovery that realigns the copies from one of them.            *)
(*                                                                         *)
(* Raft is external: `log' is the sequence of control states its committed *)
(* commands produce.  Replacement, capacity and deletion are left to       *)
(* VolumeControl.  One device request is in flight at a time.  A written   *)
(* value is a number that grows with the fence and the write number.       *)
(***************************************************************************)
EXTENDS VolumeCommands, Sequences, SequencesExt, FiniteSetsExt, TLC

CONSTANTS Blocks,
          Scenarios   \* [copies, mounted, log, ops, detaches, restarts, power, failures, tries]:
                      \* the initial number of copies, whether a writer is mounted, and
                      \* the budgets of a behaviour

VARIABLES log,      \* control state after each committed command
          applied,  \* per node, the last entry its state machine applied
          gate,     \* per node, whether FenceAdmission is enabled
          health,   \* per node, whether the catalog marks the copy NeedsRecovery
          file,     \* per node, its ReplicaFile
          work,     \* per node, the admitted requests it has not answered
          path,     \* per node, its writer data path
          saved,    \* per node, the attachment record that survives a restart
          rec,      \* per node, the recovery its maintenance task runs
          acked,    \* per block, the newest write reported to the application
          floor,    \* per block, the newest write covered by a reported flush
          torn,     \* blocks an unclean restart left with an unreported value
          outage,   \* whether some node has lost power
          left      \* what is left of the scenario's budgets

vars == <<log, applied, gate, health, file, work, path, saved, rec, acked, floor, torn, outage, left>>

Spend(kind) == left[kind] > 0 /\ left' = [left EXCEPT ![kind] = @ - 1]

-----------------------------------------------------------------------------
(* Control state: what is committed, and what a node has applied *)

Committed == Last(log)

At(n) == log[applied[n]]

\* A node outside the first copies takes no part without a replacement.
Members == log[1].copies

\* A proposed command is evaluated when its log entry is applied.
Propose(c) ==
  /\ Len(log) < left.log
  /\ Evaluate(Committed, c).outcome = "applied"
  /\ log' = Append(log, Evaluate(Committed, c).state)

\* VolumeStateMachine::apply publishes the new state to the node's gate.
ApplyEntry(n) ==
  /\ n \in Members /\ applied[n] < Len(log)
  /\ applied' = [applied EXCEPT ![n] = @ + 1]
  /\ UNCHANGED <<log, gate, health, file, work, path, saved, rec, acked, floor, torn, outage, left>>

\* reconcile_replica_io_gate, for the control state s the node has applied.
Reconcile(n, s) ==
  LET belongs == n \in s.copies /\ s.live IN
  /\ gate' = [gate EXCEPT ![n] = belongs /\ ~health[n] /\ ~file[n].failed]
  /\ health' = [health EXCEPT ![n] = @ \/ (belongs /\ file[n].failed)]

\* The gate of a node outside the copies admits nothing either way.
ReconcileGate(n) ==
  /\ n \in At(n).copies
  /\ Reconcile(n, At(n))
  /\ UNCHANGED <<log, applied, file, work, path, saved, rec, acked, floor, torn, outage, left>>

\* read_quorum_state: the local member catches up, then its gate is reconciled.
ReadQuorum(n) ==
  /\ applied' = [applied EXCEPT ![n] = Len(log')]
  /\ Reconcile(n, Last(log'))

-----------------------------------------------------------------------------
(* The replica file of one node *)

Progress(f) == [fence |-> f.fence, flush |-> f.flush, durable |-> f.durable, stored |-> f.stored]

\* install_changed_generation: the header of a new fence starts an empty write history.
NewGeneration(f, fence) ==
  [f EXCEPT !.fence = fence, !.flush = 0, !.durable = 0, !.stored = 0, !.repair = None,
            !.disk = [b \in Blocks |-> {f.data[b]}]]

CanInstall(f, fence) ==
  /\ ~f.failed /\ f.repair = None /\ ~f.active /\ f.stored = f.durable
  /\ fence > f.fence

CanBegin(f, w) ==
  /\ ~f.failed /\ f.repair = None /\ w.fence = f.fence /\ w.op.num = f.stored + 1

CanSync(f, w) ==
  /\ ~f.failed /\ f.repair = None /\ w.fence = f.fence
  /\ w.op.num = f.flush + 1 /\ w.op.through = f.stored

\* ReplicaFile::open: write numbers restart from the durable header.
Reopened(f) ==
  [f EXCEPT !.stored = f.durable, !.active = FALSE, !.repair = None, !.failed = FALSE]

-----------------------------------------------------------------------------
(* Admission: validate_request against the state node c has applied *)

Foreground(c, p) ==
  LET s == At(c) IN
  /\ gate[c] /\ s.live /\ s.fence = p.fence /\ c \in s.copies
  /\ s.writer = [node |-> p.node, session |-> p.session]

RecoveryTarget(c, r) ==
  LET s == At(c) IN
  /\ gate[c] /\ s.live /\ s.fence = r.fence /\ s.recovery # None
  /\ s.recovery.id = r.id /\ s.recovery.coordinator = r.node /\ c \in s.recovery.targets

\* prepare_fence_install waits for every permit of an older fence.
Drained(c, fence) == \A w \in work[c] : w.fence >= fence

-----------------------------------------------------------------------------
(* The writer's attachment and data path *)

Empty == [c \in {} |-> None]

NoPath == [phase |-> "none", op |-> None]

Failed == [phase |-> "failed", op |-> None]

WrittenBy(n, s) == s.writer # None /\ s.writer.node = n

Mine(n, s) == saved[n] # None /\ s.writer = [node |-> n, session |-> saved[n].session]

\* mount_volume up to the saved fence: no attachment is left over, no writer is
\* granted, and no recovery runs.
Mount(n) ==
  LET w == [node |-> n, session |-> Len(log)] IN
  /\ saved[n] = None /\ Committed.writer = None
  /\ Propose([op |-> "grant", expected |-> Committed.revision, writer |-> w])
  /\ saved' = [saved EXCEPT ![n] = [session |-> w.session, fence |-> Last(log').fence,
                                    device |-> FALSE, detaching |-> FALSE]]
  /\ ReadQuorum(n)
  /\ UNCHANGED <<file, work, path, rec, acked, floor, torn, outage, left>>

\* reconcile_local_attachment: an attachment the applied state no longer names is removed.
CleanAttachment(n) ==
  /\ saved[n] # None /\ ~saved[n].detaching /\ ~Mine(n, At(n))
  /\ path[n].op = None
  /\ saved' = [saved EXCEPT ![n] = None]
  /\ path' = [path EXCEPT ![n] = NoPath]
  /\ UNCHANGED <<log, applied, gate, health, file, work, rec, acked, floor, torn, outage, left>>

\* A mount without a device, or startup with one, confirms the grant and builds a path.
OpenPath(n) ==
  /\ saved[n] # None /\ ~saved[n].detaching /\ Mine(n, Committed)
  /\ path[n].phase = IF saved[n].device THEN "boot" ELSE "none"
  /\ log' = log
  /\ ReadQuorum(n)
  /\ path' = [path EXCEPT ![n] =
       [phase |-> "opening", node |-> n, session |-> saved[n].session, fence |-> saved[n].fence,
        copies |-> Committed.copies, install |-> FALSE, seen |-> Empty, op |-> None, got |-> {}, wrote |-> Empty]]
  /\ UNCHANGED <<file, work, saved, rec, acked, floor, torn, outage, left>>

\* Startup without a quorum, or a copy that cannot be reached.  A saved device
\* then waits for recovery; a mount that created none is simply retried.
GiveUp(n) ==
  /\ path[n].phase \in {"boot", "opening", "activating"}
  /\ Spend("tries")
  /\ path' = [path EXCEPT ![n] = IF saved[n] # None /\ saved[n].device THEN Failed ELSE NoPath]
  /\ UNCHANGED <<log, applied, gate, health, file, work, saved, rec, acked, floor, torn, outage>>

\* record_driver_copy_progress over the copies seen so far, then
\* writer_fence_install_generation.
Opened(p, seen) ==
  IF \E c \in DOMAIN seen : seen[c].stored # seen[c].durable THEN Failed
  ELSE IF DOMAIN seen # p.copies THEN [p EXCEPT !.seen = seen]
  ELSE IF \E c, d \in p.copies : seen[c] # seen[d] THEN Failed
  ELSE [p EXCEPT !.phase = "activating", !.seen = Empty,
                 !.install = \A c \in p.copies : seen[c].fence # p.fence]

OpenCopy(n, c) ==
  LET p == path[n] IN
  /\ p.phase = "opening" /\ c \in p.copies \ DOMAIN p.seen
  /\ c = n \/ Foreground(c, p)
  /\ file[c].fence <= p.fence
  /\ path' = [path EXCEPT ![n] = Opened(p, p.seen @@ (c :> Progress(file[c])))]
  /\ UNCHANGED <<log, applied, gate, health, file, work, saved, rec, acked, floor, torn, outage, left>>

\* start_copies accepts only copies that still agree at the path's fence.
Activated(p, seen) ==
  IF DOMAIN seen # p.copies THEN [p EXCEPT !.seen = seen]
  ELSE IF \E c, d \in p.copies : seen[c] # seen[d] \/ seen[c].fence # p.fence THEN NoPath
  ELSE [p EXCEPT !.phase = "starting", !.seen = Empty]

\* activate_writer_copy: the new fence is installed where one is needed, and
\* the copy's progress is read again.
ActivateCopy(n, c) ==
  LET p == path[n] IN
  /\ p.phase = "activating" /\ c \in p.copies \ DOMAIN p.seen
  /\ c = n \/ Foreground(c, p)
  /\ IF p.install
     THEN /\ gate[c] /\ At(c).live /\ At(c).fence = p.fence /\ c \in At(c).copies
          /\ Drained(c, p.fence)
          /\ CanInstall(file[c], p.fence)
          /\ file' = [file EXCEPT ![c] = NewGeneration(@, p.fence)]
     ELSE file' = file
  /\ path' = [path EXCEPT ![n] = Activated(p, p.seen @@ (c :> Progress(file'[c])))]
  /\ UNCHANGED <<log, applied, gate, health, work, saved, rec, acked, floor, torn, outage, left>>

\* The device starts, is recorded, and one more quorum read confirms the grant.
StartPath(n) ==
  LET p == path[n] IN
  /\ p.phase = "starting" /\ saved[n] # None
  /\ log' = log
  /\ ReadQuorum(n)
  /\ path' = [path EXCEPT ![n] = IF Mine(n, Committed) THEN [p EXCEPT !.phase = "serving"] ELSE Failed]
  /\ saved' = [saved EXCEPT ![n].device = TRUE]
  /\ UNCHANGED <<file, work, rec, acked, floor, torn, outage, left>>

\* A device request passes the local gate and is sent to every copy; `reached'
\* are the copies that admit it, the call to any other is refused or lost.
Issue(n, op, reached) ==
  LET p == path[n]
      req == [from |-> n, session |-> p.session, fence |-> p.fence, op |-> op, begun |-> FALSE] IN
  /\ p.phase = "serving" /\ p.op = None
  /\ Spend("ops")
  /\ n \in reached /\ \A c \in reached : Foreground(c, p)
  /\ path' = [path EXCEPT ![n].op = op, ![n].got = {}]
  /\ work' = [c \in Nodes |-> work[c] \cup IF c \in reached THEN {req} ELSE {}]
  /\ UNCHANGED <<log, applied, gate, health, file, saved, rec, acked, floor, torn, outage>>

Write(n, b, reached) ==
  LET num == file[n].stored + 1 IN
  Issue(n, [kind |-> "write", num |-> num, block |-> b, val |-> 10 * path[n].fence + num], reached)

Flush(n, reached) ==
  LET f == file[n] IN
  /\ f.stored > f.durable
  /\ Issue(n, [kind |-> "flush", num |-> f.flush + 1, through |-> f.stored, vals |-> path[n].wrote], reached)

\* Mutant: a failed call ends the request and the path goes on.
FailRequest(n) ==
  /\ path[n].phase \in {"serving", "draining"} /\ path[n].op # None
  /\ path' = [path EXCEPT ![n] = IF @.phase = "draining" THEN NoPath ELSE [@ EXCEPT !.op = None]]
  /\ UNCHANGED <<log, applied, gate, health, file, work, saved, rec, acked, floor, torn, outage, left>>

\* fail_path: a refused, lost or late call, or a lost connection, closes the whole path.
FailPath(n) ==
  /\ path[n].phase \in {"serving", "draining"} /\ path[n].op # None
  /\ path' = [path EXCEPT ![n] = IF @.phase = "draining" THEN NoPath ELSE Failed]
  /\ UNCHANGED <<log, applied, gate, health, file, work, saved, rec, acked, floor, torn, outage, left>>

\* recover_failed_attachment: over the local copy and those that answer a probe.
RecoverFailed(n, targets) ==
  /\ path[n].phase = "failed" /\ saved[n] # None /\ ~saved[n].detaching
  /\ Mine(n, Committed)
  /\ n \in targets
  /\ \A c \in targets \ {n} :
       Foreground(c, [node |-> n, session |-> saved[n].session, fence |-> saved[n].fence])
  /\ Propose([op |-> "recover", expected |-> Committed.revision, writer |-> Committed.writer,
              replaced |-> None,
              recovery |-> [id |-> Len(log), coordinator |-> n, source |-> n, targets |-> targets]])
  /\ ReadQuorum(n)
  /\ UNCHANGED <<file, work, path, saved, rec, acked, floor, torn, outage, left>>

\* unmount_volume: the intent is saved and new requests are refused at once; the
\* fence and the drain then go on side by side.
BeginDetach(n) ==
  /\ saved[n] # None /\ ~saved[n].detaching
  /\ Spend("detaches")
  /\ saved' = [saved EXCEPT ![n].detaching = TRUE]
  /\ path' = [path EXCEPT ![n] = IF @.op # None THEN [@ EXCEPT !.phase = "draining"] ELSE NoPath]
  /\ UNCHANGED <<log, applied, gate, health, file, work, rec, acked, floor, torn, outage>>

FenceLocalWriter(n) ==
  /\ saved[n] # None /\ saved[n].detaching
  /\ WrittenBy(n, Committed)
  /\ Propose([op |-> "fence", expected |-> Committed.revision, writer |-> Committed.writer])
  /\ ReadQuorum(n)
  /\ UNCHANGED <<file, work, path, saved, rec, acked, floor, torn, outage, left>>

FinishDetach(n) ==
  /\ saved[n] # None /\ saved[n].detaching /\ path[n] = NoPath
  /\ ~WrittenBy(n, Committed)
  /\ saved' = [saved EXCEPT ![n] = None]
  /\ UNCHANGED <<log, applied, gate, health, file, work, path, rec, acked, floor, torn, outage, left>>

-----------------------------------------------------------------------------
(* A copy serving admitted requests *)

Done(c, w) == work' = [work EXCEPT ![c] = @ \ {w}]

\* Mutant: the first copy to answer completes the request.
ReplyFromFirst(c, w, heard) ==
  LET p == path[w.from]
      o == w.op IN
  IF heard /\ p.phase \in {"serving", "draining"} /\ p.session = w.session /\ p.op = o
  THEN /\ path' = [path EXCEPT ![w.from] =
            IF p.phase = "draining" THEN NoPath
            ELSE [p EXCEPT !.op = None, !.wrote = IF o.kind = "write" THEN (o.block :> o.val) @@ @ ELSE @]]
       /\ acked' = IF o.kind = "write" THEN [acked EXCEPT ![o.block] = Max({@, o.val})] ELSE acked
       /\ floor' = IF o.kind = "flush" THEN o.vals @@ floor ELSE floor
  ELSE UNCHANGED <<path, acked, floor>>

\* finish_work: a request succeeds once every copy has answered; an answer
\* that is lost or reaches a closed path changes nothing.
Reply(c, w, heard) ==
  LET p == path[w.from]
      o == w.op
      got == p.got \cup {c}
      fin == got = p.copies IN
  IF heard /\ p.phase \in {"serving", "draining"} /\ p.session = w.session /\ p.op = o
  THEN /\ path' = [path EXCEPT ![w.from] =
            IF ~fin THEN [p EXCEPT !.got = got]
            ELSE IF p.phase = "draining" THEN NoPath
            ELSE [p EXCEPT !.op = None, !.got = {},
                           !.wrote = IF o.kind = "write" THEN (o.block :> o.val) @@ @ ELSE @]]
       /\ acked' = IF fin /\ o.kind = "write" THEN [acked EXCEPT ![o.block] = Max({@, o.val})] ELSE acked
       /\ floor' = IF fin /\ o.kind = "flush" THEN o.vals @@ floor ELSE floor
  ELSE UNCHANGED <<path, acked, floor>>

\* begin_write reserves the next write number, or refuses and ends the request.
Begin(c, w) ==
  LET ok == CanBegin(file[c], w) IN
  /\ w.op.kind = "write" /\ ~w.begun
  /\ file' = [file EXCEPT ![c].active = @ \/ ok]
  /\ work' = [work EXCEPT ![c] = (@ \ {w}) \cup IF ok THEN {[w EXCEPT !.begun = TRUE]} ELSE {}]
  /\ UNCHANGED <<log, applied, gate, health, path, saved, rec, acked, floor, torn, outage, left>>

\* write_changes and finish_write; the data is not yet synced.
Store(c, w, heard) ==
  /\ w.op.kind = "write" /\ w.begun
  /\ file' = [file EXCEPT ![c].active = FALSE, ![c].stored = w.op.num,
                          ![c].data[w.op.block] = w.op.val,
                          ![c].disk[w.op.block] = @ \cup {w.op.val}]
  /\ Done(c, w)
  /\ Reply(c, w, heard)
  /\ UNCHANGED <<log, applied, gate, health, saved, rec, torn, outage, left>>

\* fail_write: an I/O error leaves the block uncertain and the file unusable.
StoreFails(c, w) ==
  /\ w.op.kind = "write" /\ w.begun
  /\ Spend("failures")
  /\ \E v \in {file[c].data[w.op.block], w.op.val} :
       file' = [file EXCEPT ![c].failed = TRUE, ![c].active = FALSE,
                            ![c].data[w.op.block] = v, ![c].disk[w.op.block] = @ \cup {v}]
  /\ Done(c, w)
  /\ UNCHANGED <<log, applied, gate, health, path, saved, rec, acked, floor, torn, outage>>

\* Mutant: the header is written without syncing the data before it.
SyncHeaderOnly(c, w, heard) ==
  LET ok == CanSync(file[c], w) IN
  /\ w.op.kind = "flush"
  /\ file' = IF ok THEN [file EXCEPT ![c].flush = w.op.num, ![c].durable = w.op.through] ELSE file
  /\ Done(c, w)
  /\ Reply(c, w, heard /\ ok)
  /\ UNCHANGED <<log, applied, gate, health, saved, rec, torn, outage, left>>

\* ReplicaFile::sync: the data, then the header that names the flush.
Sync(c, w, heard) ==
  LET f == file[c]
      ok == CanSync(f, w) IN
  /\ w.op.kind = "flush"
  /\ file' = IF ok THEN [file EXCEPT ![c].flush = w.op.num, ![c].durable = w.op.through,
                                     ![c].disk = [b \in Blocks |-> {f.data[b]}]]
             ELSE file
  /\ Done(c, w)
  /\ Reply(c, w, heard /\ ok)
  /\ UNCHANGED <<log, applied, gate, health, saved, rec, torn, outage, left>>

-----------------------------------------------------------------------------
(* Recovery *)

\* select_replica_repair: the bound copy takes over from another writer or
\* another recovery source, or the available copies go on without the others.
Selected(s, src, targets) ==
  \/ /\ targets = s.copies
     /\ \/ s.writer # None /\ s.writer.node # src
        \/ s.recovery # None /\ s.recovery.source # src
  \/ targets \subseteq s.copies /\ targets # s.copies

ControllerRecover(src, targets) ==
  LET s == Committed IN
  /\ Selected(s, src, targets)
  /\ Propose([op |-> "recover", expected |-> s.revision, writer |-> s.writer,
              replaced |-> IF s.recovery = None THEN None ELSE s.recovery.id,
              recovery |-> [id |-> Len(log), coordinator |-> src, source |-> src, targets |-> targets]])
  /\ UNCHANGED <<applied, gate, health, file, work, path, saved, rec, acked, floor, torn, outage, left>>

\* run_recovery on the coordinator, once a quorum read confirms its grant.
StartRecovery(n) ==
  LET s == At(n) IN
  /\ rec[n] = None /\ s.recovery # None /\ s.recovery.coordinator = n
  /\ Committed.recovery = s.recovery
  /\ rec' = [rec EXCEPT ![n] = [node |-> n, id |-> s.recovery.id, fence |-> s.fence,
                                targets |-> s.recovery.targets, step |-> "activate",
                                todo |-> s.recovery.targets]]
  /\ UNCHANGED <<log, applied, gate, health, file, work, path, saved, acked, floor, torn, outage, left>>

\* A refused or lost call ends the task; the reconciler starts it over.
AbandonRecovery(n) ==
  /\ rec[n] # None
  /\ IF At(n).recovery # None /\ At(n).recovery.id = rec[n].id THEN Spend("tries") ELSE left' = left
  /\ rec' = [rec EXCEPT ![n] = None]
  /\ UNCHANGED <<log, applied, gate, health, file, work, path, saved, acked, floor, torn, outage>>

\* The source comes first, then the other targets; the last one ends the stage.
Handled(r, c, next) ==
  IF r.todo # {c} THEN [r EXCEPT !.todo = @ \ {c}]
  ELSE [r EXCEPT !.step = next, !.todo = IF next = "copy" THEN r.targets \ {r.node} ELSE r.targets]

RecoveryStep(n, c, step, next) ==
  LET r == rec[n] IN
  /\ r # None /\ r.step = step
  /\ c \in r.todo /\ (n \in r.todo => c = n)
  /\ RecoveryTarget(c, r)
  /\ rec' = [rec EXCEPT ![n] = Handled(r, c, next)]
  /\ UNCHANGED <<log, applied, gate, health, work, path, saved, acked, floor, torn, outage, left>>

ActivateRepair(n, c) ==
  /\ RecoveryStep(n, c, "activate", "copy")
  /\ ~file[c].failed /\ ~file[c].active
  /\ file' = [file EXCEPT ![c].repair = rec[n].id]

CopyFull(n, c) ==
  /\ RecoveryStep(n, c, "copy", "sync")
  /\ RecoveryTarget(n, rec[n])
  /\ file[c].repair = rec[n].id
  /\ ~file[n].failed
  /\ file' = [file EXCEPT ![c].data = file[n].data,
                          ![c].disk = [b \in Blocks |-> @[b] \cup {file[n].data[b]}]]

SyncRepair(n, c) ==
  /\ RecoveryStep(n, c, "sync", "finish")
  /\ file[c].repair = rec[n].id
  /\ file' = [file EXCEPT ![c].disk = [b \in Blocks |-> {file[c].data[b]}]]

FinishRepair(n, c) ==
  /\ RecoveryStep(n, c, "finish", "revoke")
  /\ file[c].repair = rec[n].id /\ ~file[c].active
  /\ rec[n].fence >= file[c].fence
  /\ file' = [file EXCEPT ![c] = NewGeneration(@, rec[n].fence)]

Revoke(n) ==
  /\ rec[n] # None /\ rec[n].step = "revoke"
  /\ Propose([op |-> "revoke", expected |-> Committed.revision, id |-> rec[n].id])
  /\ rec' = [rec EXCEPT ![n] = None]
  /\ torn' = {}
  /\ UNCHANGED <<applied, gate, health, file, work, path, saved, acked, floor, outage, left>>

-----------------------------------------------------------------------------
(* Restarts *)

\* Unsynced blocks come back from a power failure with any value written since
\* the last sync; a process restart keeps what the kernel has cached.
Restart(n, power) ==
  LET f == file[n]
      pending == {w \in UNION {work[c] : c \in Nodes} : w.from = n /\ w.op.kind = "write"} IN
  /\ n \in Members
  /\ Spend(IF power THEN "power" ELSE "restarts")
  /\ \E d \in IF power THEN {g \in [Blocks -> UNION {f.disk[b] : b \in Blocks}] :
                               \A b \in Blocks : g[b] \in f.disk[b]}
              ELSE {f.data} :
       file' = [file EXCEPT ![n] =
         [Reopened(f) EXCEPT !.data = d,
                             !.disk = IF power THEN [b \in Blocks |-> {d[b]}] ELSE @]]
  /\ torn' = torn \cup {w.op.block : w \in pending} \cup {b \in Blocks : f.disk[b] # {f.data[b]}}
  /\ outage' = (outage \/ power)
  /\ gate' = [gate EXCEPT ![n] = FALSE]
  /\ work' = [work EXCEPT ![n] = {}]
  /\ path' = [path EXCEPT ![n] = IF saved[n] # None /\ saved[n].device /\ ~saved[n].detaching
                                 THEN [phase |-> "boot", op |-> None] ELSE NoPath]
  /\ rec' = [rec EXCEPT ![n] = None]
  /\ UNCHANGED <<log, applied, health, saved, acked, floor>>

-----------------------------------------------------------------------------

\* A volume in use or not, with its three copies or with the two left by an
\* earlier recovery, whose files all carry the current fence and no data.
Init ==
  \E sc \in Scenarios : \E copies \in kSubset(sc.copies, Nodes) :
  \E w \in IF sc.mounted THEN copies ELSE {None} :
    LET before == IF sc.copies = 3 THEN 1 ELSE 4
        f == (IF sc.copies = 3 THEN 1 ELSE 3) + (IF sc.mounted THEN 1 ELSE 0) IN
    /\ log = <<[Uninitialized EXCEPT
                  !.revision = before + (IF sc.mounted THEN 1 ELSE 0), !.fence = f, !.copies = copies,
                  !.writer = IF sc.mounted THEN [node |-> w, session |-> 0] ELSE None]>>
    /\ applied = [n \in Nodes |-> 1]
    /\ gate = [n \in Nodes |-> n \in copies]
    /\ health = [n \in Nodes |-> FALSE]
    /\ file = [n \in Nodes |-> [fence |-> f, flush |-> 0, durable |-> 0, stored |-> 0,
                                active |-> FALSE, repair |-> None, failed |-> FALSE,
                                data |-> [b \in Blocks |-> 0], disk |-> [b \in Blocks |-> {0}]]]
    /\ work = [n \in Nodes |-> {}]
    /\ path = [n \in Nodes |-> IF n = w THEN [phase |-> "serving", node |-> n, session |-> 0, fence |-> f,
                                              copies |-> copies, install |-> FALSE, seen |-> Empty,
                                              op |-> None, got |-> {}, wrote |-> Empty]
                               ELSE NoPath]
    /\ saved = [n \in Nodes |-> IF n = w THEN [session |-> 0, fence |-> f, device |-> TRUE, detaching |-> FALSE]
                                ELSE None]
    /\ rec = [n \in Nodes |-> None]
    /\ acked = [b \in Blocks |-> 0]
    /\ floor = [b \in Blocks |-> 0]
    /\ torn = {}
    /\ outage = FALSE
    /\ left = [k \in {"log", "ops", "detaches", "restarts", "power", "failures", "tries"} |-> sc[k]]

Attachment(n) ==
  \/ Mount(n) \/ CleanAttachment(n) \/ OpenPath(n) \/ GiveUp(n) \/ StartPath(n)
  \/ BeginDetach(n) \/ FenceLocalWriter(n) \/ FinishDetach(n)
  \/ \E c \in Nodes : OpenCopy(n, c) \/ ActivateCopy(n, c)
  \/ \E t \in SUBSET Nodes : RecoverFailed(n, t)

DeviceIO(n) ==
  \/ \E R \in SUBSET Nodes : Flush(n, R) \/ \E b \in Blocks : Write(n, b, R)
  \/ FailPath(n)
  \/ \E w \in work[n] :
       \/ Begin(n, w) \/ StoreFails(n, w)
       \/ \E heard \in BOOLEAN : Store(n, w, heard) \/ Sync(n, w, heard)

Recovery(n) ==
  \/ StartRecovery(n) \/ AbandonRecovery(n) \/ Revoke(n)
  \/ \E t \in SUBSET Nodes : ControllerRecover(n, t)
  \/ \E c \in Nodes : ActivateRepair(n, c) \/ CopyFull(n, c) \/ SyncRepair(n, c) \/ FinishRepair(n, c)

Next ==
  \E n \in Nodes :
    \/ ApplyEntry(n) \/ ReconcileGate(n)
    \/ Attachment(n) \/ DeviceIO(n) \/ Recovery(n)
    \/ \E power \in BOOLEAN : Restart(n, power)

Spec == Init /\ [][Next]_vars

-----------------------------------------------------------------------------

\* A flush reported to the application survives: no copy that a committed
\* control state names can hold, or come back from a power failure with, an
\* older value of a block the flush covered, through every failed path, handoff,
\* recovery onto fewer copies and restart (finish_work reports a flush once
\* every copy has synced; run_recovery copies from a node that is a full copy).
FlushedKept ==
  \A c \in Committed.copies, b \in Blocks : \A v \in file[c].disk[b] \cup {file[c].data[b]} : v >= floor[b]

\* Without a power failure even an unflushed write, once reported, is on every
\* copy of the committed control state: a path reports a write only after all of
\* them stored it, and no stale request or recovery source undoes it.
WritesKept ==
  outage \/ \A c \in Committed.copies, b \in Blocks : file[c].data[b] >= acked[b]

Serving(n) == path[n].phase = "serving" /\ path[n].op = None /\ Mine(n, Committed)

\* A writer that serves its device reads the same data from every copy, except
\* for the blocks an unclean restart left unreported: prepare_driver_path and
\* start_copies only ever start over copies that agree.
CopiesAgree ==
  \A n \in Nodes : Serving(n) =>
    \A c, d \in path[n].copies, b \in Blocks \ torn : file[c].data[b] = file[d].data[b]
=============================================================================
