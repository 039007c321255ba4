--------------------------- MODULE JobController ---------------------------
(***************************************************************************)
(* The controller of one finite job (src/jobs): a durable row that every   *)
(* node keeps in a multi-value register, reconciled by the node that       *)
(* considers itself the owner, which runs one workload attempt at a time.  *)
(*                                                                         *)
(* A reconcile pass does not yield until it waits for the store's gate or  *)
(* for a workload to start, so it is one step up to there.  Gossiped rows  *)
(* are stored by an ordinary local write; anti-entropy merges registers,   *)
(* and holds the gate while it does.  The workload manager is external: an *)
(* attempt has a host and a phase, and other nodes see the phase that was  *)
(* replicated to them last.  Backoff and deadlines elapse at any moment.   *)
(* Attempts are numbered in the order of their reservation, which also     *)
(* stands for the timestamp that breaks ties between rows.                 *)
(***************************************************************************)
EXTENDS MVReg, Sequences

CONSTANTS
    None,
    MaxIds,       \* workload ids are 1 .. MaxIds
    MaxGossip,    \* gossip beyond this is lost
    JobScenarios  \* [nodes, at, owners, retries, and the budgets of a behaviour]

VARIABLES
    rows,     \* rows[n]: the register of the job's row at n
    gone,     \* gone[n]: the row is deleted at n
    gossip,   \* gossip that some node has not received
    launch,   \* launch[n]: the attempt n waits to start, or 0, and whether it is placed
    host,     \* host[w]: where attempt w runs, or None
    phase,    \* phase[w]: the phase of attempt w at its host
    seen,     \* seen[n][w]: the phase of w replicated to n last
    drawn,    \* the attempt reserved last
    past,     \* history: attempts launched, those that exited with 0, and
              \*   whether a launch was refused for good, a cancellation was
              \*   requested, or an attempt was given up at its deadline
    left      \* the scenario and what is left of its budgets

vars == <<rows, gone, gossip, launch, host, phase, seen, drawn, past, left>>

Ids == 1 .. MaxIds

Live == {"starting", "running", "stopping"}

Charge(kinds) ==
    /\ \A k \in kinds : left[k] > 0
    /\ left' = [k \in DOMAIN left |-> IF k \in kinds THEN left[k] - 1 ELSE left[k]]

----------------------------------------------------------------------------
(* The row and its transitions *)

NoLaunch == [id |-> 0, placed |-> FALSE]

Submitted ==
    [status |-> "pending", attempts |-> 0, version |-> 0, active |-> 0, last |-> 0, success |-> 0]

IsTerminal(j) == j.status \in {"succeeded", "failed", "cancelled"}

CanRetry(j) == j.attempts < left.retries + 1

Removed == [Submitted EXCEPT !.status = "removed"]

Moved(j, status) == [j EXCEPT !.status = status, !.version = @ + 1]

Ended(j, status) == [Moved(j, status) EXCEPT !.active = 0]

ReserveAttempt(j, w) ==
    [Moved(j, "pending") EXCEPT !.attempts = @ + 1, !.active = w, !.last = w]

MarkRunning(j, w) ==
    [Moved(j, "running") EXCEPT !.active = w, !.last = w,
                                !.attempts = IF j.last = w THEN @ ELSE @ + 1]

MarkSucceeded(j, w) == [Ended(j, "succeeded") EXCEPT !.success = w, !.last = w]

\* Mutant: a cancelled job is done at once, whatever still runs.
CancelRowNow(j) == Ended(j, "cancelled")

CancelRow(j) == IF j.active # 0 THEN Moved(j, "cancelling") ELSE Ended(j, "cancelled")

FailOrRetry(j) == Ended(j, IF CanRetry(j) THEN "retrying" ELSE "failed")

Rank(status) ==
    CASE status = "pending" -> 0   [] status = "retrying" -> 1  [] status = "running" -> 2
      [] status = "cancelling" -> 3 [] status = "succeeded" -> 4 [] status = "cancelled" -> 5
      [] status = "failed" -> 6

\* compare_job_specs, as a number: attempts, then version, status and time.
Weight(j) == ((j.attempts * 100 + j.version) * 10 + Rank(j.status)) * 10 + j.last

\* select_best_job_spec.
Row(n) ==
    LET all == ValuesOf(rows[n]) IN CHOOSE j \in all : \A k \in all : Weight(k) <= Weight(j)

Known(n) == rows[n] # {}

----------------------------------------------------------------------------
(* Storing and gossiping a row *)

Members == left.nodes

Tell(n, row) ==
    gossip' = IF Cardinality(gossip) < MaxGossip
            THEN gossip \cup {[to |-> p, row |-> row] : p \in Members \ {n}}
            ELSE gossip

\* registry.upsert of a row computed from an earlier read: the write supersedes
\* what the register holds when the gate is free, which may include what an
\* anti-entropy session merged since the read.
Save(n, row, kinds) ==
    /\ \/ /\ Charge(kinds)
          /\ rows' = [rows EXCEPT ![n] = Write(@, n, row)]
       \/ /\ Charge(kinds \cup {"syncs"})
          /\ \E p \in Members \ {n} :
                /\ Known(p) /\ rows[p] # rows[n] /\ ~ gone[n]
                /\ rows' = [rows EXCEPT ![n] = Write(Merge(@, rows[p]), n, row)]
    /\ gone' = [gone EXCEPT ![n] = FALSE]

Publish(n, row, kinds) == Save(n, row, kinds) /\ Tell(n, row)

\* handle_event: an upsert is stored whatever the row here says.
Receive(n, m) ==
    /\ m.to = n
    /\ gossip' = gossip \ {m}
    /\ IF m.row = Removed
       THEN /\ Charge({})
            /\ rows' = [rows EXCEPT ![n] = {}]
            /\ gone' = [gone EXCEPT ![n] = TRUE]
       ELSE Save(n, m.row, {})
    /\ UNCHANGED <<launch, host, phase, seen, drawn, past>>

\* One anti-entropy pull of the row; deletion meets it in ReplicatedStore.
Sync(n, p) ==
    /\ Charge({"syncs"})
    /\ Known(p) /\ ~ gone[n]
    /\ rows' = [rows EXCEPT ![n] = Merge(@, rows[p])]
    /\ rows' # rows
    /\ UNCHANGED <<gone, gossip, launch, host, phase, seen, drawn, past>>

----------------------------------------------------------------------------
(* The workload manager, as the controller uses it *)

View(n, w) == IF host[w] = n THEN phase[w] ELSE seen[n][w]

\* request_workload_stop; a remote stop may not get through.
RequestStop(n, w) ==
    IF View(n, w) \in {"starting", "running"} /\ phase[w] \in {"starting", "running"}
    THEN \E v \in {"stopping"} \cup (IF host[w] = n THEN {} ELSE {phase[w]}) :
            phase' = [phase EXCEPT ![w] = v]
    ELSE phase' = phase

\* The scheduler places the attempt and writes its row; an id that is already
\* placed is placed again.
Materialize(n) ==
    LET w == launch[n].id IN
    /\ w # 0 /\ ~ launch[n].placed
    /\ launch' = [launch EXCEPT ![n].placed = TRUE]
    /\ \E h \in IF left.remote THEN Members ELSE {n} : host' = [host EXCEPT ![w] = h]
    /\ phase' = [phase EXCEPT ![w] = "starting"]
    /\ seen' = [seen EXCEPT ![n][w] = "starting"]
    /\ past' = [past EXCEPT !.launched = @ \cup {w}]
    /\ UNCHANGED <<rows, gone, gossip, drawn, left>>

Work(w) ==
    /\ \/ phase[w] = "starting" /\ phase' = [phase EXCEPT ![w] = "running"]
       \/ phase[w] \in {"starting", "running"} /\ phase' = [phase EXCEPT ![w] = "lost"]
       \/ phase[w] = "running" /\ phase' = [phase EXCEPT ![w] = "won"]
       \/ phase[w] = "stopping" /\ phase' = [phase EXCEPT ![w] = "stopped"]
    /\ past' = [past EXCEPT !.won = IF phase'[w] = "won" THEN @ \cup {w} ELSE @]
    /\ UNCHANGED <<rows, gone, gossip, launch, host, seen, drawn, left>>

Replicate(n, w) ==
    /\ seen[n][w] # phase[w] /\ host[w] \notin {n, None}
    /\ seen' = [seen EXCEPT ![n][w] = phase[w]]
    /\ UNCHANGED <<rows, gone, gossip, launch, host, phase, drawn, past, left>>

----------------------------------------------------------------------------
(* Reconciliation by a node that considers itself the owner *)

\* select_job_owner hashes over the candidates that the health view of n holds;
\* as views change, a node may consider itself the owner or not at any pass.
Owned(n, status) ==
    /\ n \in left.owners /\ launch[n] = NoLaunch /\ Known(n)
    /\ Row(n).status = status

\* Pending without an attempt, or Retrying with its backoff over; the launch
\* waits for a later pass when the attempt's networks are not ready.
Reserve(n, status) ==
    /\ Owned(n, status)
    /\ status = "pending" => Row(n).active = 0
    /\ drawn < MaxIds
    /\ drawn' = drawn + 1
    /\ \/ /\ Publish(n, ReserveAttempt(Row(n), drawn'), {})
          /\ launch' = [launch EXCEPT ![n].id = drawn']
       \/ /\ Publish(n, ReserveAttempt(Row(n), drawn'), {"blocks"})
          /\ launch' = launch
    /\ UNCHANGED <<host, phase, seen, past>>

\* A reserved attempt nobody has started: launch_reserved_attempt, unless its
\* progress deadline has passed or its networks are not ready.
Launch(n) ==
    /\ Owned(n, "pending") /\ Row(n).active # 0 /\ View(n, Row(n).active) = "none"
    /\ \/ /\ launch' = [launch EXCEPT ![n].id = Row(n).active]
          /\ UNCHANGED <<rows, gone, gossip, left>>
       \/ /\ Publish(n, FailOrRetry(Row(n)), {"expiries"})
          /\ launch' = launch
       \/ /\ Publish(n, Moved(Row(n), "pending"), {"blocks"})
          /\ launch' = launch
    /\ UNCHANGED <<host, phase, seen, drawn, past>>

\* Mutant: an attempt that was stopped counts as completed.
ObservedStopped(j, w, p) ==
    CASE p \in {"won", "stopped"} -> MarkSucceeded(j, w)
      [] p = "lost" -> FailOrRetry(j)
      [] p \in Live -> MarkRunning(j, w)

\* adopt_observed_task.
Observed(j, w, p) ==
    CASE p = "won" -> MarkSucceeded(j, w)
      [] p \in {"lost", "stopped"} -> FailOrRetry(j)
      [] p \in Live -> MarkRunning(j, w)

Adopt(n, status) ==
    LET w == Row(n).active
        p == View(n, w) IN
    /\ Owned(n, status) /\ w # 0 /\ p # "none"
    /\ Publish(n, Observed(Row(n), w, p), IF status = "running" /\ p \in Live THEN {"ticks"} ELSE {})
    /\ UNCHANGED <<launch, host, phase, seen, drawn, past>>

\* An attempt still starting at its healthy deadline is given up, not stopped.
GiveUp(n, status) ==
    /\ Owned(n, status) /\ Row(n).active # 0 /\ View(n, Row(n).active) = "starting"
    /\ Publish(n, FailOrRetry(Row(n)), {"expiries"})
    /\ past' = [past EXCEPT !.abandoned = TRUE]
    /\ UNCHANGED <<launch, host, phase, seen, drawn>>

\* fail_or_retry_missing_task.
Missing(n) ==
    /\ Owned(n, "running") /\ View(n, Row(n).active) = "none"
    /\ Publish(n, FailOrRetry(Row(n)), {})
    /\ UNCHANGED <<launch, host, phase, seen, drawn, past>>

\* reconcile_cancelling_job.
KeepCancelling(n) ==
    LET w == Row(n).active IN
    /\ Owned(n, "cancelling")
    /\ IF View(n, w) \in Live
       THEN RequestStop(n, w) /\ UNCHANGED <<rows, gone, gossip, left>>
       ELSE Publish(n, Ended(Row(n), "cancelled"), {}) /\ phase' = phase
    /\ UNCHANGED <<launch, host, seen, drawn, past>>

\* The answer of the workload manager finds the row as it is now.
StillLaunching(n) == Known(n) /\ ~ IsTerminal(Row(n)) /\ Row(n).active = launch[n].id

LaunchOk(n) ==
    /\ launch[n].placed
    /\ launch' = [launch EXCEPT ![n] = NoLaunch]
    /\ IF StillLaunching(n) THEN Publish(n, MarkRunning(Row(n), launch[n].id), {})
       ELSE UNCHANGED <<rows, gone, gossip, left>>
    /\ UNCHANGED <<host, phase, seen, drawn, past>>

\* Mutant: a launch that failed does not count as an attempt.
RefusedFree(j, retryable) ==
    IF retryable THEN [Ended(j, "retrying") EXCEPT !.attempts = @ - 1] ELSE Ended(j, "failed")

Refused(j, retryable) ==
    Ended(j, IF CanRetry(j) /\ retryable THEN "retrying" ELSE "failed")

\* The placement, if it was made, is rolled back.
LaunchFails(n, retryable) ==
    LET w == launch[n].id
        undo == launch[n].placed /\ phase[w] \in Live IN
    /\ w # 0
    /\ launch' = [launch EXCEPT ![n] = NoLaunch]
    /\ phase' = IF undo THEN [phase EXCEPT ![w] = "none"] ELSE phase
    /\ seen' = IF undo THEN [seen EXCEPT ![n][w] = "none"] ELSE seen
    /\ past' = [past EXCEPT !.refused = @ \/ ~ retryable]
    /\ IF StillLaunching(n) THEN Publish(n, Refused(Row(n), retryable), {"refusals"})
       ELSE Charge({"refusals"}) /\ UNCHANGED <<rows, gone, gossip>>
    /\ UNCHANGED <<host, drawn>>

----------------------------------------------------------------------------
(* Requests and faults *)

CancelJob(n) ==
    LET j == Row(n)
        w == j.active
        p == IF w = 0 THEN "none" ELSE View(n, w) IN
    /\ Known(n) /\ ~ IsTerminal(j)
    /\ IF p \in {"won", "lost", "stopped"}
       THEN Publish(n, Observed(j, w, p), {"cancels"}) /\ UNCHANGED <<phase, past>>
       ELSE /\ Publish(n, CancelRow(j), {"cancels"})
            /\ IF w = 0 THEN phase' = phase ELSE RequestStop(n, w)
            /\ past' = [past EXCEPT !.asked = TRUE]
    /\ UNCHANGED <<launch, host, seen, drawn>>

DeleteJob(n) ==
    /\ Known(n) /\ IsTerminal(Row(n))
    /\ Charge({"deletes"})
    /\ rows' = [rows EXCEPT ![n] = {}]
    /\ gone' = [gone EXCEPT ![n] = TRUE]
    /\ Tell(n, Removed)
    /\ UNCHANGED <<launch, host, phase, seen, drawn, past>>

Restart(n) ==
    /\ launch[n] # NoLaunch
    /\ Charge({"restarts"})
    /\ launch' = [launch EXCEPT ![n] = NoLaunch]
    /\ UNCHANGED <<rows, gone, gossip, host, phase, seen, drawn, past>>

----------------------------------------------------------------------------
\* submit at one node.
Started(sc) ==
    /\ left = sc
    /\ rows = [n \in Actors |-> IF n = sc.at THEN Write({}, n, Submitted) ELSE {}]
    /\ gone = [n \in Actors |-> FALSE]
    /\ gossip = {[to |-> p, row |-> Submitted] : p \in sc.nodes \ {sc.at}}
    /\ launch = [n \in Actors |-> NoLaunch]
    /\ host = [w \in Ids |-> None]
    /\ phase = [w \in Ids |-> "none"]
    /\ seen = [n \in Actors |-> [w \in Ids |-> "none"]]
    /\ drawn = 0
    /\ past = [launched |-> {}, won |-> {}, refused |-> FALSE, asked |-> FALSE, abandoned |-> FALSE]

Init == \E sc \in JobScenarios : Started(sc)

Reconcile(n) ==
    \/ \E status \in {"pending", "retrying"} : Reserve(n, status)
    \/ Launch(n)
    \/ \E status \in {"pending", "running"} : Adopt(n, status) \/ GiveUp(n, status)
    \/ Missing(n) \/ KeepCancelling(n)

Next ==
    \/ \E n \in Actors :
          \/ Reconcile(n)
          \/ Materialize(n) \/ LaunchOk(n)
          \/ \E retryable \in BOOLEAN : LaunchFails(n, retryable)
          \/ CancelJob(n) \/ DeleteJob(n) \/ Restart(n)
          \/ \E m \in gossip : Receive(n, m)
          \/ \E p \in Actors \ {n} : Sync(n, p)
          \/ \E w \in Ids : Replicate(n, w)
    \/ \E w \in Ids : Work(w)

Spec == Init /\ [][Next]_vars

----------------------------------------------------------------------------
EveryRow == UNION {ValuesOf(rows[n]) : n \in Actors} \cup ({m.row : m \in gossip} \ {Removed})

Alone == Cardinality(Members) = 1

\* max_retries bounds the attempts of every row that exists anywhere, whoever
\* wrote it from whatever it had read; and with one controller, also the
\* attempts that were really launched: reserving under a new id only after the
\* previous attempt was given up keeps a job from running more often.
AttemptsBounded ==
    /\ \A j \in EveryRow : j.attempts <= left.retries + 1
    /\ Alone => Cardinality(past.launched) <= left.retries + 1

\* A terminal row tells what happened: the attempt a succeeded job names did
\* exit with 0; a failed job used up its attempts or was refused for good; a
\* cancelled one had been asked to.
OutcomeReal ==
    \A j \in EveryRow :
        /\ j.status = "succeeded" => j.success \in past.won
        /\ j.status = "failed" => j.attempts = left.retries + 1 \/ past.refused
        /\ j.status = "cancelled" => past.asked

\* With one controller a terminal job has nothing left running, unless an
\* attempt was given up at its healthy deadline: cancellation waits for the
\* attempt, and a launch still in flight keeps the row from becoming terminal.
SettledQuiet ==
    Alone /\ ~ past.abandoned =>
        \A n \in Members : Known(n) /\ IsTerminal(Row(n)) => \A w \in Ids : phase[w] \notin Live

\* cancel_job "first records controller intent so stale owners stop launching
\* new attempts, then asks the shared workload manager to stop the active
\* workload": a job that is being cancelled never goes back to an attempt.
CancelHeld ==
    [][\A n \in Actors :
          Known(n) /\ Row(n).status = "cancelling" =>
              (Known(n) => Row(n).status \notin {"pending", "running", "retrying"})']_vars
============================================================================
