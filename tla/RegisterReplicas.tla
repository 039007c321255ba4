-------------------------- MODULE RegisterReplicas --------------------------
(***************************************************************************)
(* The replicas of one row: local writes, deltas that arrive late, twice   *)
(* or out of order, and compaction (mst_store.rs over mvreg.rs).           *)
(*                                                                         *)
(* Every delta ever exported stays on the wire, so a peer may apply one    *)
(* exported before any later write or compaction.  Deletion is the subject *)
(* of ReplicatedStore.  A value is its rank, see CompactWith.  The ranks   *)
(* of some domains rise whenever a row is rewritten (a version or an epoch *)
(* comes first); those of others, secrets and network specifications, are  *)
(* the order of the whole value, in which a rewrite may go down.           *)
(***************************************************************************)
EXTENDS MVReg

CONSTANTS
    Values,       \* what may be written, by rank
    MaxValues,    \* mvreg_max_values; 0 when compaction is off
    MaxWrites,    \* bound on local writes
    MaxExports    \* bound on distinct deltas

ASSUME ReplicasConstants ==
    /\ Values \subseteq Nat
    /\ {MaxValues, MaxWrites, MaxExports} \subseteq Nat

VARIABLES
    rising,  \* whether the ranks of this domain rise with every rewrite
    reg,     \* reg[n]: the register stored at n
    wire,    \* registers exported so far
    writes,  \* number of local writes
    known    \* history, known[n]: every entry n has put, merged or rewritten

replicaVars == <<rising, reg, wire, writes, known>>

ReplicasInit ==
    /\ rising \in BOOLEAN
    /\ reg = [n \in Actors |-> {}]
    /\ wire = {}
    /\ writes = 0
    /\ known = [n \in Actors |-> {}]

----------------------------------------------------------------------------
(* update_value: a local write in the context of the stored register. *)
Upsert(n, v) ==
    /\ writes < MaxWrites
    /\ rising => \A e \in reg[n] : e.value <= v
    /\ writes' = writes + 1
    /\ reg' = [reg EXCEPT ![n] = Write(@, n, v)]
    /\ known' = [known EXCEPT ![n] = @ \cup reg'[n]]
    /\ UNCHANGED <<rising, wire>>

(* export_page_ranges_delta_filtered: the row leaves for some peer. *)
Export(n) ==
    /\ reg[n] # {}
    /\ Cardinality(wire) < MaxExports
    /\ wire' = wire \cup {[reg |-> reg[n], known |-> known[n]]}
    /\ wire' # wire
    /\ UNCHANGED <<rising, reg, writes, known>>

(* write_delta_chunk_merged_latest: merge with the row as stored now; an   *)
(* unchanged row is not rewritten.                                         *)
ApplyDelta(n, delta) ==
    /\ reg' = [reg EXCEPT ![n] = Merge(@, delta.reg)]
    /\ known' = [known EXCEPT ![n] = @ \cup delta.known]
    /\ UNCHANGED <<rising, wire, writes>>

(* compact_registers of the GC pass. *)
CompactRegisters(n) ==
    /\ MaxValues > 0
    /\ Cardinality(reg[n]) > MaxValues
    /\ \E compacted \in CompactWith(reg[n], MaxValues) :
           /\ reg' = [reg EXCEPT ![n] = compacted]
           /\ known' = [known EXCEPT ![n] = @ \cup compacted]
    /\ UNCHANGED <<rising, wire, writes>>

ReplicasNext ==
    \E n \in Actors :
        \/ \E v \in Values : Upsert(n, v)
        \/ Export(n)
        \/ \E delta \in wire : ApplyDelta(n, delta)
        \/ CompactRegisters(n)

ReplicasSpec == ReplicasInit /\ [][ReplicasNext]_replicaVars

----------------------------------------------------------------------------
Maxima(S) == {e \in S : ~ \E f \in S : Less(e.clock, f.clock)}

\* Nothing that reached a replica is lost, in any domain: whatever the order,
\* the repetitions and the age of the deltas and whatever compactions dropped,
\* every write a replica has known is visible there or superseded by what is,
\* and no visible entry supersedes another.
NothingLost ==
    \A n \in Actors :
        /\ \A e \in known[n] : \E f \in reg[n] : Leq(e.clock, f.clock)
        /\ reg[n] \subseteq Maxima(known[n])

\* Where ranks rise, a register depends on the entries that reached it and on
\* nothing else: it is the set of the causally latest among them.  Two replicas
\* that incorporated the same entries agree, although each compacts on its own.
HoldsLatest == rising => \A n \in Actors : reg[n] = Maxima(known[n])

\* Where ranks rise, one clock never names two values: a replica that must
\* choose between equal clocks (Merge keeps its own entry) cannot choose
\* differently from a peer, although both gave absorbed clocks to their winners.
ClockNamesValue ==
    rising => \A m, n \in Actors : \A e \in known[m], f \in known[n] :
                  e.clock = f.clock => e.value = f.value

\* Where ranks rise, the selected value of a row never goes back: no merge, no
\* late delta and no compaction takes a replica below a value it has known.
WinnerStays ==
    rising => \A n \in Actors : \A e \in known[n] : \E f \in reg[n] : e.value <= f.value
============================================================================
