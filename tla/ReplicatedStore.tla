-------------------------- MODULE ReplicatedStore --------------------------
(***************************************************************************)
(* One replicated domain: the durable rows of every node, deletion by      *)
(* tombstones, the three-phase anti-entropy pull between two nodes, and    *)
(* the tombstone garbage collection that pulls make safe.                  *)
(*                                                                         *)
(* crates/mantissa-store/src/mst_store.rs, src/sync/{delta,service,        *)
(* gc_progress}.rs and store/replicated/gc.rs.  The membership, the view   *)
(* and the root schema do not change.  The Merkle tree is the function     *)
(* from keys to row digests that it summarises: a store refreshes it under *)
(* the gate that serialises its mutations.                                 *)
(***************************************************************************)
EXTENDS MVReg

CONSTANTS
    Keys,
    Preserve,    \* preserve_local_tombs
    Recreate,    \* whether a removed key may be written again
    Overlap,     \* pulls of one node from one peer that may run at once
    Retention,   \* tombstone_min_retention_ms, in clock ticks
    BatchLimit,  \* tombstone_batch_limit
    MaxTime,     \* bound on the clock
    MaxWrites,   \* bound on local writes
    MaxRemoves,  \* bound on local removals
    MaxPulls,    \* bound on pulls that run at once
    MaxFaults    \* bound on restarts and on pulls that break off

ASSUME StoreConstants ==
    /\ Actors \subseteq Nat
    /\ {Preserve, Recreate} \subseteq BOOLEAN
    /\ {Overlap, Retention, BatchLimit} \subseteq Nat \ {0}
    /\ {MaxTime, MaxWrites, MaxRemoves, MaxPulls, MaxFaults} \subseteq Nat

VARIABLES
    values,    \* values[n][k]: the register of the row, {} when there is none
    tombs,     \* tombs[n][k]: the tombstone, or NoTomb
    tombSeq,   \* tombSeq[n]: the last sequence n gave to a removal
    frontier,  \* frontier[n][o]: prune frontier of origin o
    progress,  \* progress[n][p]: last equal root n saw at p, or Never
    barrier,   \* barrier[n]: cutoff of a GC pass that waits for the gate
    pull,      \* pull[<<n, p, i>>]: state of a pull of n from p
    now,
    budget,    \* remaining writes, removals and faults
    buried,    \* history, buried[n]: values a tombstone removed at n
    forgotten  \* history: values whose tombstone some node has pruned

rowVars == <<values, tombs, tombSeq, frontier>>
gcVars == <<progress, barrier>>
vars == <<values, tombs, tombSeq, frontier, progress, barrier, pull, now,
          budget, buried, forgotten>>

NoTomb == [seq |-> 0]
Never == [at |-> 0]
NoBarrier == 0
NoPull == [phase |-> "idle"]
Pulls == {s \in Actors \X Actors \X (1..Overlap) : s[1] # s[2]}

----------------------------------------------------------------------------
(* Rows *)

NoRow == <<"none">>

\* The semantic entry of a row: its values without their clocks, or the
\* sequence and the origin of its tombstone without its local time.
DigestOf(vals, tomb) ==
    IF vals # {} THEN <<"live", ValuesOf(vals)>>
    ELSE IF tomb # NoTomb THEN <<"gone", tomb.seq, tomb.origin>>
    ELSE NoRow

RootOf(vals, tmbs) == [k \in Keys |-> DigestOf(vals[k], tmbs[k])]

Root(n) == RootOf(values[n], tombs[n])

Dominates(t, u) ==
    \/ t.seq > u.seq
    \/ t.seq = u.seq /\ t.origin > u.origin

\* The delete a tombstone stands for, wherever it is stored.
DeleteOf(tomb) == IF tomb = NoTomb THEN <<>> ELSE <<tomb.origin, tomb.seq>>

MergeTombs(current, incoming) ==
    IF current = NoTomb \/ Dominates(incoming, current)
    THEN incoming ELSE current

Spend(kind) ==
    /\ budget[kind] > 0
    /\ budget' = [budget EXCEPT ![kind] = @ - 1]

Init ==
    /\ values = [n \in Actors |-> [k \in Keys |-> {}]]
    /\ tombs = [n \in Actors |-> [k \in Keys |-> NoTomb]]
    /\ tombSeq = [n \in Actors |-> 0]
    /\ frontier = [n \in Actors |-> [o \in Actors |-> 0]]
    /\ progress = [n \in Actors |-> [p \in Actors |-> Never]]
    /\ barrier = [n \in Actors |-> NoBarrier]
    /\ pull = [s \in Pulls |-> NoPull]
    /\ now = 0
    /\ budget = [write |-> MaxWrites, remove |-> MaxRemoves,
                 fault |-> MaxFaults]
    /\ buried = [n \in Actors |-> {}]
    /\ forgotten = {}

----------------------------------------------------------------------------
(* Local operations *)

Fresh(k) ==
    \A m \in Actors : /\ values[m][k] = {} /\ tombs[m][k] = NoTomb
                      /\ \A v \in buried[m] : v.key # k

\* update_value: write in the context of the stored register and clear the
\* tombstone.  Without Recreate a key is created once, as a fresh UUID is.
Upsert(n, k) ==
    /\ Recreate \/ values[n][k] # {} \/ Fresh(k)
    /\ Spend("write")
    /\ values' = [values EXCEPT ![n][k] =
                      Write(@, n, [key |-> k, id |-> budget.write,
                                   after |-> DeleteOf(tombs[n][k])])]
    /\ tombs' = [tombs EXCEPT ![n][k] = NoTomb]
    /\ UNCHANGED <<tombSeq, frontier, gcVars, pull, now, buried, forgotten>>

\* remove: a second removal of the key keeps the tombstone it has.
Remove(n, k) ==
    /\ tombs[n][k] = NoTomb
    /\ Spend("remove")
    /\ tombSeq' = [tombSeq EXCEPT ![n] = @ + 1]
    /\ values' = [values EXCEPT ![n][k] = {}]
    /\ tombs' = [tombs EXCEPT ![n][k] =
                     [seq |-> tombSeq'[n], origin |-> n, at |-> now]]
    /\ buried' = [buried EXCEPT ![n] = @ \cup ValuesOf(values[n][k])]
    /\ UNCHANGED <<frontier, gcVars, pull, now, forgotten>>

----------------------------------------------------------------------------
(* Anti-entropy: n pulls from p *)

Running == {s \in Pulls : pull[s] # NoPull}

Moved(s, state) == pull' = [pull EXCEPT ![s] = state]

\* Phase 1, at the peer: its root and its prune frontiers.
GetRoots(s) ==
    /\ pull[s] = NoPull
    /\ Cardinality(Running) < MaxPulls
    /\ Moved(s, [phase |-> "roots", since |-> now, root |-> Root(s[2]),
                 frontiers |-> frontier[s[2]]])
    /\ UNCHANGED <<rowVars, gcVars, now, budget, buried, forgotten>>

\* Mutant: received frontiers delete nothing.
ObsoleteNever(n, received, k) == FALSE

\* apply_tombstone_prune_frontiers: only origins whose frontier advances.
Obsolete(n, received, k) ==
    /\ tombs[n][k] # NoTomb
    /\ received[tombs[n][k].origin] > frontier[n][tombs[n][k].origin]
    /\ tombs[n][k].seq <= received[tombs[n][k].origin]

\* Phase 1, at the puller: adopt the frontiers, then compare the roots and
\* record equality for the garbage collection.
FindDifferentRoots(s) ==
    LET n == s[1]
        p == s[2]
        received == pull[s].frontiers
        kept == [k \in Keys |-> IF Obsolete(n, received, k) THEN NoTomb
                                ELSE tombs[n][k]]
        equal == pull[s].root = RootOf(values[n], kept)
    IN  /\ pull[s].phase = "roots"
        /\ tombs' = [tombs EXCEPT ![n] = kept]
        /\ frontier' = [frontier EXCEPT ![n] =
                            [o \in Actors |-> Max({@[o], received[o]})]]
        /\ \/ /\ equal
              /\ progress' = [progress EXCEPT ![n][p] =
                                  [root |-> pull[s].root, at |-> now]]
              /\ Moved(s, NoPull)
           \/ /\ ~ equal
              /\ Moved(s, [phase |-> "ranges", since |-> pull[s].since])
              /\ UNCHANGED progress
        /\ UNCHANGED <<values, tombSeq, barrier, now, budget, buried,
                       forgotten>>

\* Phase 2: page summaries that agree end the pull; otherwise the puller
\* asks for the differing pages and advertises the digests of its own rows.
ComputeWants(s) ==
    /\ pull[s].phase = "ranges"
    /\ \/ /\ Root(s[1]) = Root(s[2])
          /\ Moved(s, NoPull)
       \/ /\ Root(s[1]) # Root(s[2])
          /\ Moved(s, [phase |-> "want", since |-> pull[s].since,
                       have |-> Root(s[1])])
    /\ UNCHANGED <<rowVars, gcVars, now, budget, buried, forgotten>>

DifferingKeys(p, have) ==
    {k \in Keys : Root(p)[k] \notin {NoRow, have[k]}}

\* Phase 3, at the peer: export the rows the puller lacks.
StreamDelta(s) ==
    LET keys == DifferingKeys(s[2], pull[s].have)
    IN  /\ pull[s].phase = "want"
        /\ Moved(s, IF keys = {} THEN NoPull
                    ELSE [phase |-> "stream", since |-> pull[s].since,
                          rows |-> [k \in keys |-> [vals |-> values[s[2]][k],
                                                    tomb |-> tombs[s[2]][k]]]])
        /\ UNCHANGED <<rowVars, gcVars, now, budget, buried, forgotten>>


AcceptsReg(n, k, row) ==
    row.vals # {} /\ ~ (Preserve /\ tombs[n][k] # NoTomb)

AcceptsTomb(n, row) ==
    /\ row.tomb # NoTomb
    /\ row.tomb.seq > frontier[n][row.tomb.origin]

\* write_delta_chunk_merged_latest for the rows of one chunk.
ApplyRows(n, rows) ==
    /\ values' = [values EXCEPT ![n] = [k \in Keys |->
           IF k \notin DOMAIN rows THEN @[k]
           ELSE IF AcceptsTomb(n, rows[k]) THEN {}
           ELSE IF AcceptsReg(n, k, rows[k]) THEN Merge(@[k], rows[k].vals)
           ELSE @[k]]]
    /\ tombs' = [tombs EXCEPT ![n] = [k \in Keys |->
           IF k \notin DOMAIN rows THEN @[k]
           ELSE IF AcceptsTomb(n, rows[k])
           THEN MergeTombs(@[k], [rows[k].tomb EXCEPT !.at = now])
           ELSE IF AcceptsReg(n, k, rows[k]) THEN NoTomb
           ELSE @[k]]]
    /\ buried' = [buried EXCEPT ![n] = @ \cup UNION
           {ValuesOf(values[n][k]) : k \in {j \in DOMAIN rows :
                                                AcceptsTomb(n, rows[j])}}]

\* The stream sends registers before tombstones, in bounded chunks.
ChunkOf(rows, keys) ==
    /\ keys # {}
    /\ (\E k \in keys : rows[k].tomb # NoTomb)
           => \A k \in DOMAIN rows \ keys : rows[k].tomb # NoTomb

PushChunk(s) ==
    /\ pull[s].phase = "stream"
    /\ \E keys \in SUBSET DOMAIN pull[s].rows :
          LET rows == pull[s].rows
              rest == DOMAIN rows \ keys
          IN  /\ ChunkOf(rows, keys)
              /\ ApplyRows(s[1], [k \in keys |-> rows[k]])
              /\ Moved(s, IF rest = {} THEN NoPull
                          ELSE [pull[s] EXCEPT !.rows =
                                    [k \in rest |-> rows[k]]])
    /\ UNCHANGED <<tombSeq, frontier, gcVars, now, budget, forgotten>>

\* A pull whose connection fails is dropped; the next one starts afresh.
BreakOff(s) ==
    /\ pull[s] # NoPull
    /\ Spend("fault")
    /\ Moved(s, NoPull)
    /\ UNCHANGED <<rowVars, gcVars, now, buried, forgotten>>

----------------------------------------------------------------------------
(* Garbage collection *)

\* Mutants: the node waits for itself; a peer not heard of is left out.
PeersAll(n) == Actors


Peers(n) == Actors \ {n}

\* barrier_for_domain: every peer matched the root the store has now.
Converged(n) ==
    \A p \in Peers(n) : progress[n][p] # Never /\ progress[n][p].root = Root(n)

Cutoff(n) ==
    Min({progress[n][p].at : p \in Peers(n)}
            \cup {IF now < Retention THEN 0 ELSE now - Retention})

Eligible(n, cutoff) ==
    {k \in Keys : tombs[n][k] # NoTomb /\ tombs[n][k].at < cutoff}

\* run_once builds the barrier, then waits for the mutation gate.  A pass
\* without a barrier or without eligible tombstones changes nothing.
BuildBarrier(n) ==
    /\ barrier[n] = NoBarrier
    /\ Converged(n)
    /\ Eligible(n, Cutoff(n)) # {}
    /\ barrier' = [barrier EXCEPT ![n] = Cutoff(n)]
    /\ UNCHANGED <<rowVars, progress, pull, now, budget, buried, forgotten>>

Batch(n, keys) ==
    LET all == Eligible(n, barrier[n])
    IN  /\ keys \subseteq all
        /\ Cardinality(keys) = Min({BatchLimit, Cardinality(all)})
        /\ \A k \in keys, j \in all \ keys : tombs[n][k].at <= tombs[n][j].at

PrunedSeqs(n, keys, o) ==
    {tombs[n][k].seq : k \in {j \in keys : tombs[n][j].origin = o}}

\* Mutant: the frontier names the next sequence.
RaisedPast(n, keys) ==
    [o \in Actors |-> Max({frontier[n][o]} \cup
                          {q + 1 : q \in PrunedSeqs(n, keys, o)})]

\* The frontier of each origin rises to the highest sequence pruned.
Raised(n, keys) ==
    [o \in Actors |-> Max({frontier[n][o]} \cup PrunedSeqs(n, keys, o))]

\* garbage_collect_tombstones: one batch in order of local age.
PruneTombstones(n) ==
    /\ barrier[n] # NoBarrier
    /\ \E keys \in SUBSET Keys :
          /\ Batch(n, keys)
          /\ tombs' = [tombs EXCEPT ![n] = [k \in Keys |->
                           IF k \in keys THEN NoTomb ELSE @[k]]]
          /\ frontier' = [frontier EXCEPT ![n] = Raised(n, keys)]
          /\ forgotten' = forgotten \cup
                              {v \in buried[n] : v.key \in keys}
    /\ barrier' = [barrier EXCEPT ![n] = NoBarrier]
    /\ UNCHANGED <<values, tombSeq, progress, pull, now, budget, buried>>

----------------------------------------------------------------------------
\* A restart loses the equal-root observations and every pull of the node.
Restart(n) ==
    /\ Spend("fault")
    /\ progress' = [progress EXCEPT ![n] = [p \in Actors |-> Never]]
    /\ barrier' = [barrier EXCEPT ![n] = NoBarrier]
    /\ pull' = [s \in Pulls |-> IF n \in {s[1], s[2]} THEN NoPull
                                ELSE pull[s]]
    /\ UNCHANGED <<rowVars, now, buried, forgotten>>

\* A pull takes no longer than the retention time.
Tick ==
    /\ now < MaxTime
    /\ \A s \in Running : now < pull[s].since + Retention
    /\ now' = now + 1
    /\ UNCHANGED <<rowVars, gcVars, pull, budget, buried, forgotten>>

PullStep(s) ==
    \/ FindDifferentRoots(s)
    \/ ComputeWants(s)
    \/ StreamDelta(s)
    \/ PushChunk(s)

Next ==
    \/ \E n \in Actors, k \in Keys : Upsert(n, k) \/ Remove(n, k)
    \/ \E s \in Pulls : GetRoots(s) \/ PullStep(s) \/ BreakOff(s)
    \/ \E n \in Actors : BuildBarrier(n) \/ PruneTombstones(n) \/ Restart(n)
    \/ Tick

Spec == Init /\ [][Next]_vars

\* Periodic sync visits every peer in turn and GC runs at an interval.
Fairness ==
    /\ \A s \in Pulls : SF_vars(GetRoots(s)) /\ WF_vars(PullStep(s))
    /\ \A n \in Actors : /\ WF_vars(BuildBarrier(n))
                         /\ WF_vars(PruneTombstones(n))
    /\ WF_vars(Tick)

FairSpec == Spec /\ Fairness

----------------------------------------------------------------------------
Tombs == [seq : 1..MaxRemoves, origin : Actors, at : 0..MaxTime]
Deletes == {<<>>} \cup (Actors \X (1..MaxRemoves))
Writes == [key : Keys, id : 1..MaxWrites, after : Deletes]

\* The stores are well formed, and no key has both a value and a tombstone:
\* what sync exports and the root summarises is one row per key.
TypeOK ==
    /\ \A n \in Actors, k \in Keys :
          /\ \A e \in values[n][k] : e.clock \in Clocks /\ e.value \in Writes
          /\ tombs[n][k] \in Tombs \cup {NoTomb}
          /\ values[n][k] = {} \/ tombs[n][k] = NoTomb
          /\ \A o \in Actors : frontier[n][o] <= tombSeq[o]
    /\ barrier \in [Actors -> 0..MaxTime]

Live(n) == UNION {ValuesOf(values[n][k]) : k \in Keys}



\* Anti-entropy alone makes the roots of all nodes equal for good once local
\* operations stop.
Converges == <>[](\A m, n \in Actors : Root(m) = Root(n))

\* Every tombstone old enough to pass the retention window before the clock
\* stops is garbage-collected or replaced by a younger one.
Collected ==
    \A n \in Actors, k \in Keys :
        (tombs[n][k] # NoTomb /\ tombs[n][k].at + Retention < MaxTime)
            ~> (tombs[n][k] # NoTomb => tombs[n][k].at + Retention >= MaxTime)

\* A delete never removes a value that was written over its tombstone: "a
\* value row makes any existing tombstone obsolete for this key".
RecreatedStays ==
    [][\A n \in Actors, k \in Keys : tombs'[n][k] # NoTomb =>
           \A v \in ValuesOf(values[n][k]) :
               v.after # DeleteOf(tombs'[n][k])]_vars
============================================================================
