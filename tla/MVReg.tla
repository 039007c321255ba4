------------------------------- MODULE MVReg -------------------------------
(***************************************************************************)
(* The multi-value register every replicated row is stored in              *)
(* (crates/mantissa-store/src/mvreg.rs): a set of values, each with the    *)
(* vector clock that introduced it.                                        *)
(*                                                                         *)
(* A clock is a total function: the code's map holds no zero counter, so a *)
(* missing actor is an actor at zero.  The entries are a vector in the     *)
(* code; their order decides nothing but the last tie of a compaction.     *)
(***************************************************************************)
EXTENDS Naturals, FiniteSets, FiniteSetsExt

CONSTANT Actors

Clocks == [Actors -> Nat]

ZeroClock == [a \in Actors |-> 0]

Leq(c, d) == \A a \in Actors : c[a] <= d[a]

Less(c, d) == Leq(c, d) /\ c # d

MergeClocks(c, d) == [a \in Actors |-> IF c[a] < d[a] THEN d[a] ELSE c[a]]

\* What every actor has contributed to the entries of r.
ClockOf(r) == [a \in Actors |-> Max({0} \cup {e.clock[a] : e \in r})]

ValuesOf(r) == {e.value : e \in r}

ApplyPut(r, clock, value) ==
    LET kept == {e \in r : ~ Leq(e.clock, clock)}
    IN  IF clock = ZeroClock THEN r
        ELSE IF \E e \in kept : Less(clock, e.clock) THEN kept
        ELSE kept \cup {[clock |-> clock, value |-> value]}

\* Mutant: the write ignores the stored register.
WriteBlind(r, actor, value) ==
    ApplyPut(r, [ZeroClock EXCEPT ![actor] = 1], value)

Write(r, actor, value) ==
    ApplyPut(r, [ClockOf(r) EXCEPT ![actor] = @ + 1], value)

\* Mutant: superseded entries of the stored register stay.
MergeKeepsOwn(r, other) ==
    r \cup {f \in other : \A e \in r : /\ ~ Less(f.clock, e.clock)
                                       /\ f.clock # e.clock}

Merge(r, other) ==
    LET kept == {e \in r : ~ \E f \in other : Less(e.clock, f.clock)}
    IN  kept \cup {f \in other : \A e \in kept : /\ ~ Less(f.clock, e.clock)
                                                 /\ f.clock # e.clock}

\* Mutant: the clocks of the dropped entries are lost.
CompactForgets(r, max) ==
    {retained \in SUBSET r :
        /\ Cardinality(retained) = max
        /\ \A e \in retained, f \in r \ retained : f.value <= e.value}

\* Mutant: the ranking is sorted the wrong way round.
CompactLowest(r, max) ==
    {ApplyPut(c.retained \ {c.top},
              MergeClocks(c.top.clock, ClockOf(r \ c.retained)), c.top.value) :
        c \in {c \in [retained : SUBSET r, top : r] :
                  /\ Cardinality(c.retained) = max
                  /\ c.top \in c.retained
                  /\ \A e \in r : e.value >= c.top.value
                  /\ \A e \in c.retained, f \in r \ c.retained : f.value >= e.value}}

\* The max best entries stay, and the best one absorbs the clocks of the
\* others.  A value is a number: its rank, which the adapter computes from the
\* whole value.  Entries with one value are ordered by their clocks in the
\* code; here any order of them is possible.
CompactWith(r, max) ==
    {ApplyPut(c.retained \ {c.top},
              MergeClocks(c.top.clock, ClockOf(r \ c.retained)), c.top.value) :
        c \in {c \in [retained : SUBSET r, top : r] :
                  /\ Cardinality(c.retained) = max
                  /\ c.top \in c.retained
                  /\ \A e \in r : e.value <= c.top.value
                  /\ \A e \in c.retained, f \in r \ c.retained : f.value <= e.value}}
============================================================================
