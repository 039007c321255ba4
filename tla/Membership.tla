----------------------------- MODULE Membership -----------------------------
(***************************************************************************)
(* The peer row of one node, Subject, at itself and at the other nodes:    *)
(* join, leave, evict, crash and restart, the gossip about them, the       *)
(* refutations that raise the incarnation, and anti-entropy                *)
(* (topology/{membership,service,gossip,peers,local_node}.rs,              *)
(* server/service.rs).  Of the health monitor only the local incarnation   *)
(* is modelled.                                                            *)
(*                                                                         *)
(* A peer value is its membership (inc, left) and its readiness; Ready     *)
(* always wins over Syncing, so the time stamps of readiness never decide. *)
(* Gossip is lost, repeated and reordered: a message once sent may be      *)
(* handled by any node at any later time, any number of times.  The boot   *)
(* incarnation is the wall clock in milliseconds: it exceeds every earlier *)
(* incarnation.  Operators evict only nodes that are down                  *)
(* (docs/disaster-recovery.md).                                            *)
(***************************************************************************)
EXTENDS MVReg

CONSTANTS
    Subject,      \* the node the row is about
    Budgets       \* bounds on joins, leaves, refutations, crashes and joiners
                  \* served, one record per scenario

Others == Actors \ {Subject}

VARIABLES
    row,      \* row[n]: the register of Subject's row at n
    inc,      \* local_incarnation of Subject's health monitor
    phase,    \* Subject: "out", "joining", "registered", "in", "leaving", "left"
    join,     \* incarnation of the captured join payload
    leave,    \* incarnation of the leave under way
    boot,     \* the bootstrap task of the last join still runs
    up,       \* Subject's process runs
    serving,  \* Subject answers a register_node it has accepted
    gossip,   \* topology events sent so far
    budget    \* what is left of the scenario's bounds

vars == <<row, inc, phase, join, leave, boot, up, serving, gossip, budget>>

Peer(i, left, ready) == [inc |-> i, left |-> left, ready |-> ready]

Event(kind, i) == [kind |-> kind, inc |-> i]

----------------------------------------------------------------------------
(* PeerValue: which value a register shows. *)
Outranks(v, w) == v.inc > w.inc \/ (v.inc = w.inc /\ v.left /\ ~ w.left)

Same(v, w) == v.inc = w.inc /\ v.left = w.left

\* readiness_survives_membership_barrier
ReadinessSurvives(values, win, v) ==
    \/ Same(v, win)
    \/ /\ ~ win.left /\ ~ v.left /\ v.inc < win.inc
       /\ ~ \E w \in values : w.left /\ w.inc > v.inc /\ w.inc <= win.inc

Select(values) ==
    LET win == CHOOSE v \in values : ~ \E w \in values : Outranks(w, v)
    IN  [win EXCEPT !.ready =
             \E v \in values : ReadinessSurvives(values, win, v) /\ v.ready]

Known(n) == row[n] # {}

Shown(n) == Select(ValuesOf(row[n]))

\* peer_exists
Active(n) == Known(n) /\ ~ Shown(n).left


MergeObserved(n, v) == IF Known(n) THEN Select({Shown(n), v}) ELSE v

\* The upsert of the one value a row already holds changes only its clock,
\* and is left out.
Upsert(n, v) ==
    row' = IF ValuesOf(row[n]) = {v} THEN row
           ELSE [row EXCEPT ![n] = Write(@, n, v)]

----------------------------------------------------------------------------
Larger(i, j) == IF i < j THEN j ELSE i


NextLocalJoinIncarnation ==
    IF ~ Known(Subject) THEN inc
    ELSE IF Shown(Subject).left /\ Shown(Subject).inc >= inc
         THEN Shown(Subject).inc + 1
         ELSE Larger(inc, Shown(Subject).inc)

NextLocalLeaveIncarnation ==
    IF Known(Subject) THEN Larger(inc, Shown(Subject).inc) + 1 ELSE inc + 1

\* Subject starts with the row that set_server_handle writes: readiness is
\* the default, Ready.
Init ==
    /\ inc = 1
    /\ row = [n \in Actors |-> IF n = Subject
                               THEN Write({}, n, Peer(1, FALSE, TRUE)) ELSE {}]
    /\ phase = "out"
    /\ join = 0
    /\ leave = 0
    /\ boot = FALSE
    /\ up = TRUE
    /\ serving = FALSE
    /\ gossip = {}
    /\ budget \in Budgets

Spend(what) ==
    /\ budget[what] > 0
    /\ budget' = [budget EXCEPT ![what] = @ - 1]

----------------------------------------------------------------------------
(* Join: the payload, the anchor's register_node, the local row, bootstrap. *)
StartJoin ==
    /\ up
    /\ phase = "out"
    /\ Spend("joins")
    /\ join' = NextLocalJoinIncarnation
    /\ phase' = "joining"
    /\ UNCHANGED <<row, inc, leave, boot, up, serving, gossip>>

RegisterNode(n) ==
    /\ up
    /\ phase = "joining"
    /\ ~ Active(n)
    /\ Upsert(n, MergeObserved(n, Peer(join, FALSE, FALSE)))
    /\ gossip' = gossip \cup {Event("join", join)}
    /\ phase' = "registered"
    /\ UNCHANGED <<inc, join, leave, boot, up, serving, budget>>

\* The anchor refuses, or its answer is lost.
JoinFails ==
    /\ up
    /\ phase \in {"joining", "registered"}
    /\ phase' = "out"
    /\ UNCHANGED <<row, inc, join, leave, boot, up, serving, gossip, budget>>

\* persist_local_join_payload with restored_local_peer_value
RestoredRow(done) ==
    Peer(join, FALSE, done \/ (Known(Subject) /\ Shown(Subject).ready))

\* The rest of the join may still fail: then no bootstrap is started.
PersistJoin(ok) ==
    /\ up
    /\ phase = "registered"
    /\ Upsert(Subject, RestoredRow(FALSE))
    /\ inc' = Larger(inc, join)
    /\ boot' = ok
    /\ phase' = IF ok THEN "in" ELSE "out"
    /\ UNCHANGED <<join, leave, up, serving, gossip, budget>>

LocalJoinPayloadSuperseded ==
    Known(Subject) /\ Shown(Subject).left /\ Shown(Subject).inc >= join

\* The row is written again; after a complete sync it is marked ready.
FinishBootstrap(synced) ==
    /\ boot
    /\ boot' = FALSE
    /\ IF LocalJoinPayloadSuperseded
       THEN UNCHANGED <<row, inc, gossip>>
       ELSE /\ Upsert(Subject, RestoredRow(synced))
            /\ inc' = Larger(inc, join)
            /\ gossip' = IF synced /\ ~ RestoredRow(FALSE).ready
                         THEN gossip \cup {Event("ready", 0)} ELSE gossip
    /\ UNCHANGED <<phase, join, leave, up, serving, budget>>

----------------------------------------------------------------------------
(* Leave: broadcast to a survivor, mark the own row, stop the tasks. *)
BroadcastLeave ==
    /\ up
    /\ phase = "in"
    /\ Spend("leaves")
    /\ leave' = NextLocalLeaveIncarnation
    /\ gossip' = gossip \cup {Event("leave", leave')}
    /\ phase' = "leaving"
    /\ UNCHANGED <<row, inc, join, boot, up, serving>>

\* mark_peer_left returns early on a duplicate and on a newer active row.
LeaveApplies(n, i) ==
    Known(n) => ~ (IF Shown(n).left THEN Shown(n).inc >= i ELSE Shown(n).inc > i)

LeftRow(n, i) == Peer(i, TRUE, Known(n) => Shown(n).ready)

MarkLeft ==
    /\ up
    /\ phase = "leaving"
    /\ IF LeaveApplies(Subject, leave)
       THEN Upsert(Subject, LeftRow(Subject, leave)) ELSE UNCHANGED row
    /\ phase' = "left"
    /\ UNCHANGED <<inc, join, leave, boot, up, serving, gossip, budget>>

\* No survivor acknowledged the broadcast: the leave is given up, although a
\* peer may have heard of it.
LeaveFails ==
    /\ up
    /\ phase = "leaving"
    /\ phase' = "in"
    /\ leave' = 0
    /\ UNCHANGED <<row, inc, join, boot, up, serving, gossip, budget>>

StopTasks ==
    /\ up
    /\ phase = "left"
    /\ inc' = Larger(inc, leave)
    /\ leave' = 0
    /\ boot' = FALSE
    /\ phase' = "out"
    /\ UNCHANGED <<row, join, up, serving, gossip, budget>>

----------------------------------------------------------------------------
(* Subject as the anchor of another join: it checks its own membership     *)
(* first and describes itself after the grants are published.              *)
AcceptJoiner ==
    /\ up
    /\ ~ serving
    /\ Active(Subject)
    /\ Spend("served")
    /\ serving' = TRUE
    /\ UNCHANGED <<row, inc, phase, join, leave, boot, up, gossip>>

AnswerJoiner(n) ==
    /\ serving
    /\ serving' = FALSE
    /\ Upsert(n, MergeObserved(n, Peer(inc, FALSE,
                                       Active(Subject) => Shown(Subject).ready)))
    /\ UNCHANGED <<inc, phase, join, leave, boot, up, gossip, budget>>

----------------------------------------------------------------------------
\* handle_suspect_event and handle_down_event at Subject: a rumour names an
\* incarnation that some peer has heard of, and refute_self_suspicion goes
\* above it.  Refutations that outrun a leave under way are left out.
Refute(i) ==
    /\ up
    /\ \E n \in Others : Active(n)
    /\ i \in {inc} \cup {Shown(n).inc : n \in {m \in Others : Active(m)}}
    /\ i >= inc
    /\ phase = "leaving" => i < leave
    /\ Spend("refutes")
    /\ inc' = i + 1
    /\ UNCHANGED <<row, phase, join, leave, boot, up, serving, gossip>>

----------------------------------------------------------------------------
(* Membership events at any node, Subject included. *)
Reachable(n) == n = Subject => up

HearJoin(n, e) ==
    /\ e.kind = "join"
    /\ Reachable(n)
    /\ Upsert(n, MergeObserved(n, Peer(e.inc, FALSE, FALSE)))
    /\ inc' = IF n = Subject THEN Larger(inc, e.inc) ELSE inc
    /\ UNCHANGED <<phase, join, leave, boot, up, serving, gossip, budget>>

HearLeave(n, e) ==
    /\ e.kind = "leave"
    /\ Reachable(n)
    /\ LeaveApplies(n, e.inc)
    /\ Upsert(n, LeftRow(n, e.inc))
    /\ UNCHANGED <<inc, phase, join, leave, boot, up, serving, gossip, budget>>

HearReady(n, e) ==
    /\ e.kind = "ready"
    /\ Reachable(n)
    /\ Known(n)
    /\ ~ Shown(n).ready
    /\ Upsert(n, [Shown(n) EXCEPT !.ready = TRUE])
    /\ UNCHANGED <<inc, phase, join, leave, boot, up, serving, gossip, budget>>

\* One anti-entropy exchange: n takes over the row of m.  Subject takes part
\* while it is active in its own row and in the row of its partner.
Pull(n, m) ==
    /\ Subject \in {n, m} => up /\ Active(n) /\ Active(m)
    /\ row' = [row EXCEPT ![n] = Merge(@, row[m])]
    /\ row' # row
    /\ UNCHANGED <<inc, phase, join, leave, boot, up, serving, gossip, budget>>

----------------------------------------------------------------------------
Crash ==
    /\ up
    /\ Spend("crashes")
    /\ up' = FALSE
    /\ boot' = FALSE
    /\ serving' = FALSE
    /\ phase' = IF phase \in {"in", "leaving"} THEN "in" ELSE "out"
    /\ UNCHANGED <<row, inc, join, leave, gossip>>

Evict(n) ==
    /\ ~ up
    /\ Known(n)
    /\ IF Active(n)
       THEN /\ Upsert(n, LeftRow(n, Shown(n).inc + 1))
            /\ gossip' = gossip \cup {Event("leave", Shown(n).inc + 1)}
       ELSE /\ gossip' = gossip \cup {Event("leave", Shown(n).inc)}
            /\ gossip' # gossip
            /\ UNCHANGED row
    /\ UNCHANGED <<inc, phase, join, leave, boot, up, serving, budget>>

\* Every incarnation in use.
Incarnations ==
    {inc, join} \cup {e.inc : e \in gossip}
                \cup UNION {{v.inc : v \in ValuesOf(row[n])} : n \in Actors}

Restart ==
    /\ ~ up
    /\ up' = TRUE
    /\ inc' = Max(Incarnations) + 1
    /\ Upsert(Subject, Peer(inc', FALSE, Active(Subject) => Shown(Subject).ready))
    /\ UNCHANGED <<phase, join, leave, boot, serving, gossip, budget>>

----------------------------------------------------------------------------
Next ==
    \/ StartJoin \/ JoinFails
    \/ \E ok \in BOOLEAN : PersistJoin(ok) \/ FinishBootstrap(ok)
    \/ BroadcastLeave \/ LeaveFails \/ MarkLeft \/ StopTasks
    \/ AcceptJoiner
    \/ \E i \in Incarnations : Refute(i)
    \/ Crash \/ Restart
    \/ \E n \in Others :
           \/ RegisterNode(n) \/ AnswerJoiner(n) \/ Evict(n)
    \/ \E n \in Actors :
           \/ \E e \in gossip : HearJoin(n, e) \/ HearLeave(n, e) \/ HearReady(n, e)
           \/ \E m \in Actors : Pull(n, m)

Spec == Init /\ [][Next]_vars

----------------------------------------------------------------------------
\* A leave is a barrier: no late join, no older copy of the row and no local
\* rewrite turns a node that a peer knows as left into an active member,
\* except under an incarnation above the leave, which only a later join or
\* restart of the node itself brings.
LeftStays ==
    \A n \in Actors :
        (Known(n) /\ Shown(n).left /\ ~ Shown(n).left') => Shown(n).inc' > Shown(n).inc


\* A join that the anchor accepts takes effect there: the incarnation it
\* advertises outranks every leave and every eviction of the same identity
\* that the anchor can know (next_local_join_incarnation).
JoinPrevails ==
    \A n \in Others : RegisterNode(n) => ~ Shown(n).left' /\ Shown(n).inc' = join


\* While a joining node still copies the cluster's state, no other node takes
\* it for ready: "anchor should report the newly joined peer as syncing before
\* bootstrap catch-up completes" (tests/register.rs).
JoinFenced ==
    \A n \in Others :
        (boot /\ Active(n) /\ Shown(n).inc = join) => ~ Shown(n).ready
=============================================================================
