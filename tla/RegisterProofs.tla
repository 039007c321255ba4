--------------------------- MODULE RegisterProofs ---------------------------
(***************************************************************************)
(* Proofs about the replicas of one row, for any number of replicas, any   *)
(* values, limits and numbers of writes and deltas.                        *)
(*                                                                         *)
(* The inductive invariant rests on two ideas.  Holds relates a register   *)
(* to everything that reached it: the register is an antichain that covers *)
(* it all.  Named says how a clock determines a value where ranks rise:    *)
(* every entry has one write, the k-th of some actor a, such that no entry *)
(* that counts k writes of a has a smaller value.                          *)
(***************************************************************************)
EXTENDS RegisterReplicas, WellFoundedInduction, TLAPS

Entries == [clock : Clocks, value : Nat]

----------------------------------------------------------------------------
(* Minima and maxima of sets of natural numbers. *)

\* A set of natural numbers has a least element.
LEMMA NatMin ==
    ASSUME NEW T \in SUBSET Nat, T # {}
    PROVE  \E x \in T : \A y \in T : x <= y
<1> DEFINE R == {ss \in Nat \X Nat : ss[1] < ss[2]}
<1>1. IsWellFoundedOn(R, Nat)
  BY NatLessThanWellFounded DEF OpToRel
<1>2. \A x, y \in Nat : y < x => <<y, x>> \in R
  OBVIOUS
<1> HIDE DEF R
<1>3. PICK x \in T : \A y \in T : ~ (<<y, x>> \in R)
  BY <1>1, WFMin, Zenon
<1>4. \A y \in T : ~ (y < x)
  BY <1>2, <1>3, Zenon
<1>5. \A y \in T : x <= y
  BY <1>4
<1> QED BY <1>5

\* Max of a bounded set is its greatest element.
LEMMA NatMax ==
    ASSUME NEW S \in SUBSET Nat, S # {}, NEW n \in Nat, \A x \in S : x <= n
    PROVE  Max(S) \in S /\ \A y \in S : y <= Max(S)
<1> DEFINE U == {u \in Nat : \A x \in S : x <= u}
<1>1. PICK u \in U : \A w \in U : u <= w
  <2>1. n \in U OBVIOUS
  <2>2. U \in SUBSET Nat OBVIOUS
  <2> HIDE DEF U
  <2> QED BY <2>1, <2>2, NatMin
<1>2. u \in S
  <2> SUFFICES ASSUME u \notin S PROVE FALSE
    OBVIOUS
  <2>1. \A x \in S : x <= u - 1
    OBVIOUS
  <2>2. u # 0
    <3>1. PICK x \in S : x <= u - 1
      BY Zenon, <2>1
    <3> QED BY <3>1
  <2>3. u - 1 \in U
    BY <2>1, <2>2
  <2> QED BY <2>3, <1>1
<1>3. \A y \in S : y <= u
  OBVIOUS
<1> QED BY Zenon, <1>2, <1>3 DEF Max

----------------------------------------------------------------------------
(* The operators of MVReg. *)

\* Causal order is a partial order.
LEMMA LeqOrder ==
    /\ \A c \in Clocks : Leq(c, c)
    /\ \A c, d, f \in Clocks : Leq(c, d) /\ Leq(d, f) => Leq(c, f)
    /\ \A c, d \in Clocks : Leq(c, d) /\ Leq(d, c) => c = d
<1>1. \A c \in Clocks : Leq(c, c)
  BY DEF Clocks, Leq
<1>2. \A c, d, f \in Clocks : Leq(c, d) /\ Leq(d, f) => Leq(c, f)
  BY DEF Clocks, Leq
<1>3. ASSUME NEW c \in Clocks, NEW d \in Clocks, Leq(c, d), Leq(d, c)
      PROVE  c = d
  <2>1. \A a \in Actors : c[a] = d[a]
    BY <1>3 DEF Clocks, Leq
  <2> QED BY <2>1 DEF Clocks
<1> QED BY <1>1, <1>2, <1>3

\* The merge of two clocks is above both and takes every counter from one.
LEMMA MergeClocksBounds ==
    ASSUME NEW c \in Clocks, NEW d \in Clocks
    PROVE  /\ MergeClocks(c, d) \in Clocks
           /\ Leq(c, MergeClocks(c, d)) /\ Leq(d, MergeClocks(c, d))
           /\ \A a \in Actors : MergeClocks(c, d)[a] \in {c[a], d[a]}
BY DEF Clocks, Leq, MergeClocks

\* ClockOf is above every entry of a register, and takes every counter from
\* one of them or is zero there.
LEMMA ClockOfBounds ==
    ASSUME NEW r \in SUBSET Entries, NEW w \in Nat,
           \A e \in r : \A a \in Actors : e.clock[a] <= w
    PROVE  /\ ClockOf(r) \in Clocks
           /\ \A e \in r : Leq(e.clock, ClockOf(r))
           /\ \A a \in Actors : \/ ClockOf(r)[a] = 0
                                \/ \E e \in r : ClockOf(r)[a] = e.clock[a]
<1>1. ASSUME NEW a \in Actors
      PROVE  /\ ClockOf(r)[a] \in Nat
             /\ \A e \in r : e.clock[a] <= ClockOf(r)[a]
             /\ \/ ClockOf(r)[a] = 0
                \/ \E e \in r : ClockOf(r)[a] = e.clock[a]
  <2> DEFINE S == {0} \cup {e.clock[a] : e \in r}
  <2>1. S \in SUBSET Nat /\ S # {} /\ \A x \in S : x <= w
    BY DEF Entries, Clocks
  <2>2. ClockOf(r)[a] = Max(S)
    BY DEF ClockOf
  <2>3. \A e \in r : e.clock[a] \in S
    OBVIOUS
  <2>4. \A x \in S : x = 0 \/ \E e \in r : x = e.clock[a]
    OBVIOUS
  <2> HIDE DEF S
  <2>5. Max(S) \in S /\ \A y \in S : y <= Max(S)
    BY Zenon, <2>1, NatMax
  <2> QED BY Zenon, <2>1, <2>2, <2>3, <2>4, <2>5
<1>2. ClockOf(r) \in Clocks
  BY <1>1 DEF ClockOf, Clocks
<1> QED BY <1>1, <1>2 DEF Leq

----------------------------------------------------------------------------
(* Registers and what reached them. *)

\* r is an antichain of entries of k, and covers all of k.
Holds(r, k) ==
    /\ r \subseteq k
    /\ \A e \in k : \E f \in r : Leq(e.clock, f.clock)
    /\ \A e, f \in r : Leq(e.clock, f.clock) => e = f

\* Every counter of every clock is at most w, and no clock is empty.
Counted(k, w) ==
    \A e \in k : e.clock # ZeroClock /\ \A a \in Actors : e.clock[a] <= w

\* The entry that a write of v by n puts.
Put(r, n, v) == [clock |-> [ClockOf(r) EXCEPT ![n] = @ + 1], value |-> v]

\* A local write supersedes the whole register.
LEMMA WritePuts ==
    ASSUME NEW r \in SUBSET Entries, NEW w \in Nat, Counted(r, w),
           NEW n \in Actors, NEW v \in Nat
    PROVE  /\ Put(r, n, v) \in Entries
           /\ Write(r, n, v) = {Put(r, n, v)}
           /\ \A e \in r : Leq(e.clock, Put(r, n, v).clock)
           /\ Put(r, n, v).clock[n] = ClockOf(r)[n] + 1
           /\ \A a \in Actors : \/ a = n
                                \/ Put(r, n, v).clock[a] = 0
                                \/ \E e \in r : Put(r, n, v).clock[a] = e.clock[a]
<1> DEFINE c == [ClockOf(r) EXCEPT ![n] = @ + 1]
<1>1. /\ ClockOf(r) \in Clocks
      /\ \A e \in r : Leq(e.clock, ClockOf(r))
      /\ \A a \in Actors : \/ ClockOf(r)[a] = 0
                           \/ \E e \in r : ClockOf(r)[a] = e.clock[a]
  BY ClockOfBounds DEF Counted
<1>2. c \in Clocks /\ c[n] = ClockOf(r)[n] + 1 /\ \A a \in Actors \ {n} : c[a] = ClockOf(r)[a]
  BY <1>1 DEF Clocks
<1>3. Leq(ClockOf(r), c)
  BY <1>1, <1>2 DEF Leq, Clocks
<1>4. \A e \in r : Leq(e.clock, c)
  BY <1>1, <1>2, <1>3, LeqOrder DEF Entries
<1>5. c # ZeroClock
  BY <1>1, <1>2 DEF ZeroClock, Clocks
<1>6. Write(r, n, v) = {[clock |-> c, value |-> v]}
  BY Zenon, <1>4, <1>5 DEF Write, ApplyPut
<1>7. [clock |-> c, value |-> v] \in Entries
  BY <1>2 DEF Entries
<1> QED BY Zenon, <1>1, <1>2, <1>4, <1>6, <1>7 DEF Put

\* Merge of two registers holds what either held.
LEMMA MergeHolds ==
    ASSUME NEW r, NEW k \in SUBSET Entries, Holds(r, k),
           NEW s, NEW l \in SUBSET Entries, Holds(s, l)
    PROVE  Holds(Merge(r, s), k \cup l)
<1> DEFINE kept == {e \in r : ~ \E f \in s : Less(e.clock, f.clock)}
           new == {f \in s : \A e \in kept : ~ Less(f.clock, e.clock) /\ f.clock # e.clock}
<1>1. Merge(r, s) = kept \cup new
  BY DEF Merge
<1>2. kept \subseteq r /\ new \subseteq s /\ r \subseteq k /\ s \subseteq l
  BY DEF Holds
<1>3. \A e \in k \cup l : e.clock \in Clocks
  BY DEF Entries
<1>4. ASSUME NEW f \in s
      PROVE  \E g \in kept \cup new : Leq(f.clock, g.clock)
  <2>1. CASE f \in new
    BY <2>1, <1>2, <1>3, LeqOrder
  <2>2. CASE f \notin new
    <3>1. PICK e \in kept : Less(f.clock, e.clock) \/ f.clock = e.clock
      BY <2>2
    <3>2. Leq(f.clock, e.clock)
      BY <3>1, <1>2, <1>3, LeqOrder DEF Less
    <3> QED BY <3>2
  <2> QED BY <2>1, <2>2
<1>5. ASSUME NEW e \in r
      PROVE  \E g \in kept \cup new : Leq(e.clock, g.clock)
  <2>1. CASE e \in kept
    BY <2>1, <1>2, <1>3, LeqOrder
  <2>2. CASE e \notin kept
    <3>1. PICK f \in s : Leq(e.clock, f.clock)
      BY <2>2 DEF Less
    <3>2. PICK g \in kept \cup new : Leq(f.clock, g.clock)
      BY <1>4
    <3> QED BY <3>1, <3>2, <1>2, <1>3, LeqOrder
  <2> QED BY <2>1, <2>2
<1>6. ASSUME NEW e \in k \cup l
      PROVE  \E g \in kept \cup new : Leq(e.clock, g.clock)
  <2>1. PICK f \in r \cup s : Leq(e.clock, f.clock)
    BY DEF Holds
  <2>2. PICK g \in kept \cup new : Leq(f.clock, g.clock)
    BY <1>4, <1>5
  <2> QED BY <2>1, <2>2, <1>2, <1>3, LeqOrder
<1>7. ASSUME NEW e \in kept \cup new, NEW f \in kept \cup new, Leq(e.clock, f.clock)
      PROVE  e = f
  <2>1. CASE e \in r /\ f \in r
    BY <2>1, <1>7 DEF Holds
  <2>2. CASE e \in s /\ f \in s
    BY <2>2, <1>7 DEF Holds
  <2>3. CASE e \in kept /\ f \in new
    BY <2>3, <1>7 DEF Less
  <2>4. CASE e \in new /\ f \in kept
    BY <2>4, <1>7 DEF Less
  <2> QED BY <1>2, <2>1, <2>2, <2>3, <2>4
<1> QED BY <1>1, <1>2, <1>6, <1>7 DEF Holds

\* new is the winner top of the register r after it absorbed other entries.
Absorbs(new, top, r) ==
    /\ new \in Entries
    /\ top \in r
    /\ new.value = top.value
    /\ \A e \in r : e.value <= top.value
    /\ Leq(top.clock, new.clock)
    /\ \A a \in Actors : \E e \in r : new.clock[a] = e.clock[a]

\* A compaction rewrites one entry, its winner, and loses nothing.
LEMMA CompactHolds ==
    ASSUME NEW r, NEW k \in SUBSET Entries, Holds(r, k), NEW w \in Nat, Counted(k, w),
           NEW max \in Nat, NEW c \in CompactWith(r, max)
    PROVE  \E top \in r, new \in Entries :
              /\ Absorbs(new, top, r)
              /\ new.clock # ZeroClock
              /\ new \in c /\ c \subseteq r \cup {new}
              /\ Holds(c, k \cup c)
<1>1. PICK retained \in SUBSET r, top \in r :
          /\ top \in retained
          /\ \A e \in r : e.value <= top.value
          /\ c = ApplyPut(retained \ {top},
                          MergeClocks(top.clock, ClockOf(r \ retained)), top.value)
  BY Zenon DEF CompactWith
<1> DEFINE absorbed == ClockOf(r \ retained)
           clock == MergeClocks(top.clock, absorbed)
           new == [clock |-> clock, value |-> top.value]
           kept == {e \in retained \ {top} : ~ Leq(e.clock, clock)}
<1>2. r \in SUBSET Entries /\ \A e \in r : e.clock \in Clocks
  BY DEF Holds, Entries
<1>3. /\ absorbed \in Clocks
      /\ \A e \in r \ retained : Leq(e.clock, absorbed)
      /\ \A a \in Actors : \/ absorbed[a] = 0
                           \/ \E e \in r \ retained : absorbed[a] = e.clock[a]
  <2>1. \A e \in r \ retained : \A a \in Actors : e.clock[a] <= w
    BY DEF Counted, Holds
  <2> QED BY Zenon, <2>1, <1>2, ClockOfBounds
<1>4. /\ clock \in Clocks
      /\ Leq(top.clock, clock) /\ Leq(absorbed, clock)
      /\ \A a \in Actors : clock[a] \in {top.clock[a], absorbed[a]}
  BY Zenon, <1>2, <1>3, MergeClocksBounds
<1>5. top.clock # ZeroClock
  BY DEF Counted, Holds
<1> HIDE DEF absorbed, clock
<1>6. clock # ZeroClock
  <2> SUFFICES ASSUME clock = ZeroClock PROVE FALSE
    OBVIOUS
  <2>1. \A a \in Actors : top.clock[a] = 0
    BY <1>2, <1>4 DEF Leq, ZeroClock, Clocks
  <2> QED BY <2>1, <1>2, <1>5 DEF ZeroClock, Clocks
<1>7. \A a \in Actors : \E e \in r : clock[a] = e.clock[a]
  <2> SUFFICES ASSUME NEW a \in Actors
               PROVE  \E e \in r : clock[a] = e.clock[a]
    OBVIOUS
  <2>1. CASE clock[a] = top.clock[a]
    BY <2>1
  <2>2. CASE clock[a] = absorbed[a] /\ absorbed[a] = 0
    <3>1. top.clock[a] <= 0 /\ top.clock[a] \in Nat
      BY <2>2, <1>2, <1>4 DEF Leq, Clocks
    <3> QED BY <3>1, <2>2
  <2>3. CASE clock[a] = absorbed[a] /\ absorbed[a] # 0
    BY <2>3, <1>3
  <2> QED BY <1>4, <2>1, <2>2, <2>3
<1>8. ~ \E e \in kept : Less(clock, e.clock)
  <2> SUFFICES ASSUME NEW e \in kept, Leq(clock, e.clock)
               PROVE  FALSE
    BY DEF Less
  <2>1. Leq(top.clock, e.clock)
    BY <1>2, <1>4, LeqOrder
  <2>2. top = e
    BY <2>1 DEF Holds
  <2> QED BY <2>2
<1>9. c = kept \cup {new}
  BY <1>1, <1>6, <1>8 DEF ApplyPut, clock, absorbed
<1>10. new \in Entries /\ Absorbs(new, top, r)
  BY <1>1, <1>2, <1>4, <1>7 DEF Absorbs, Entries
<1>11. ASSUME NEW e \in r
       PROVE  \E g \in c : Leq(e.clock, g.clock)
  <2>0. new \in c /\ new.clock = clock
    BY <1>9
  <2> HIDE DEF new
  <2>1. CASE e \in r \ retained
    <3>1. Leq(e.clock, clock)
      BY <2>1, <1>2, <1>3, <1>4, LeqOrder
    <3> QED BY <2>0, <3>1
  <2>2. CASE e = top
    BY <2>0, <2>2, <1>4
  <2>3. CASE e \in kept
    BY <2>3, <1>2, <1>9, LeqOrder
  <2>4. CASE e \in retained \ {top} /\ e \notin kept
    BY <2>0, <2>4
  <2> QED BY <2>1, <2>2, <2>3, <2>4
<1>12. ASSUME NEW e \in k \cup c
       PROVE  \E g \in c : Leq(e.clock, g.clock)
  <2>1. CASE e \in k
    <3>1. PICK f \in r : Leq(e.clock, f.clock)
      BY <2>1 DEF Holds
    <3>2. PICK g \in c : Leq(f.clock, g.clock)
      BY <1>11
    <3>3. e.clock \in Clocks /\ f.clock \in Clocks /\ g.clock \in Clocks
      BY <2>1, <1>2, <1>4, <1>9 DEF Entries
    <3> QED BY <3>1, <3>2, <3>3, LeqOrder
  <2>2. CASE e \in c
    BY <2>2, <1>2, <1>4, <1>9, LeqOrder
  <2> QED BY <2>1, <2>2
<1>13. ASSUME NEW e \in c, NEW f \in c, Leq(e.clock, f.clock)
       PROVE  e = f
  <2>1. CASE e \in kept /\ f \in kept
    BY <2>1, <1>13 DEF Holds
  <2>2. CASE e \in kept /\ f = new
    BY <2>2, <1>13
  <2>3. CASE e = new /\ f \in kept
    <3>1. Leq(top.clock, f.clock)
      BY <2>3, <1>2, <1>4, <1>13, LeqOrder
    <3> QED BY <2>3, <3>1 DEF Holds
  <2> QED BY <1>9, <2>1, <2>2, <2>3
<1>14. Holds(c, k \cup c)
  BY <1>12, <1>13 DEF Holds
<1> QED BY Zenon, <1>6, <1>9, <1>10, <1>14

----------------------------------------------------------------------------
(* The inductive invariant. *)

\* Every entry some replica has known.
All == UNION {known[n] : n \in Actors}

\* Some write that e counts, the i-th of actor a, vouches for the value of e.
Named(e, k) ==
    \E a \in Actors, i \in Nat :
        /\ 0 < i /\ i <= e.clock[a]
        /\ \A f \in k : i <= f.clock[a] => e.value <= f.value

\* Nobody counts a write of n that n has not known itself.
OwnFirst(k) ==
    \A n \in Actors, f \in k :
        f.clock[n] = 0 \/ \E e \in known[n] : f.clock[n] <= e.clock[n]

ReplicasType ==
    /\ rising \in BOOLEAN
    /\ writes \in Nat
    /\ reg \in [Actors -> SUBSET Entries]
    /\ known \in [Actors -> SUBSET Entries]
    /\ wire \subseteq [reg : SUBSET Entries, known : SUBSET Entries]

ReplicasInv ==
    /\ ReplicasType
    /\ Counted(All, writes)
    /\ \A n \in Actors : Holds(reg[n], known[n])
    /\ \A d \in wire : Holds(d.reg, d.known) /\ d.known \subseteq All
    /\ OwnFirst(All)
    /\ rising => \A e \in All : Named(e, All)

\* A step of one replica adds to what it has known and to nothing else.
LEMMA AllGrows ==
    ASSUME NEW n \in Actors, NEW k, known \in [Actors -> SUBSET Entries],
           known' = [known EXCEPT ![n] = @ \cup k]
    PROVE  /\ All' = All \cup k
           /\ known[n] \subseteq All
           /\ \A m \in Actors : known[m] \subseteq known'[m]
           /\ known'[n] = known[n] \cup k
BY DEF All

\* Where every entry has its write, a causally larger clock has a larger value.
LEMMA ClocksOrderValues ==
    ASSUME NEW k \in SUBSET Entries, \A e \in k : Named(e, k),
           NEW e \in k, NEW f \in k, Leq(e.clock, f.clock)
    PROVE  e.value <= f.value
<1>1. PICK a \in Actors, i \in Nat :
          /\ 0 < i /\ i <= e.clock[a]
          /\ \A g \in k : i <= g.clock[a] => e.value <= g.value
  BY DEF Named
<1>2. e.clock[a] \in Nat /\ f.clock[a] \in Nat /\ e.clock[a] <= f.clock[a]
  BY DEF Leq, Entries, Clocks
<1>3. i <= f.clock[a]
  BY <1>1, <1>2
<1> QED BY <1>1, <1>3

LEMMA ReplicasInvInit == ReplicasInit => ReplicasInv
<1> SUFFICES ASSUME ReplicasInit PROVE ReplicasInv
  OBVIOUS
<1>1. All = {}
  BY DEF ReplicasInit, All
<1>2. ReplicasType
  BY DEF ReplicasInit, ReplicasType
<1>3. \A n \in Actors : Holds(reg[n], known[n])
  BY DEF ReplicasInit, Holds
<1> QED BY <1>1, <1>2, <1>3 DEF ReplicasInit, ReplicasInv, Counted, OwnFirst

LEMMA UpsertKeepsInv ==
    ASSUME ReplicasInv, NEW n \in Actors, NEW v \in Values, Upsert(n, v)
    PROVE  ReplicasInv'
<1> USE DEF ReplicasInv
<1> DEFINE r == reg[n]
           new == Put(r, n, v)
<1>1. v \in Nat /\ r \in SUBSET Entries /\ r \subseteq known[n] /\ known[n] \subseteq All
  BY ReplicasConstants DEF ReplicasType, Holds, All
<1>2. Counted(r, writes)
  BY <1>1 DEF Counted
<1>3. /\ new \in Entries
      /\ Write(r, n, v) = {new}
      /\ \A e \in r : Leq(e.clock, new.clock)
      /\ new.clock[n] = ClockOf(r)[n] + 1
      /\ \A a \in Actors : \/ a = n
                           \/ new.clock[a] = 0
                           \/ \E e \in r : new.clock[a] = e.clock[a]
  BY <1>1, <1>2, WritePuts DEF ReplicasType
<1>4. new.value = v
  BY DEF Put
<1>5. /\ ClockOf(r) \in Clocks
      /\ \A e \in r : Leq(e.clock, ClockOf(r))
      /\ \A a \in Actors : ClockOf(r)[a] = 0 \/ \E e \in r : ClockOf(r)[a] = e.clock[a]
  BY <1>1, <1>2, ClockOfBounds DEF Counted, ReplicasType
<1> HIDE DEF new
<1>6. reg' = [reg EXCEPT ![n] = {new}] /\ known' = [known EXCEPT ![n] = @ \cup {new}]
  BY <1>3 DEF Upsert, ReplicasType
<1>7. /\ All' = All \cup {new}
      /\ \A m \in Actors : known[m] \subseteq known'[m]
      /\ known'[n] = known[n] \cup {new}
  BY Zenon, <1>6, AllGrows DEF ReplicasType
<1>8. ReplicasType'
  BY <1>3, <1>6 DEF ReplicasType, Upsert
<1>9. \A e \in All : e \in Entries
  BY DEF All, ReplicasType
<1>10. Counted(All', writes')
  <2>1. \A a \in Actors : new.clock[a] <= writes + 1
    <3> SUFFICES ASSUME NEW a \in Actors PROVE new.clock[a] <= writes + 1
      OBVIOUS
    <3>1. \A e \in r : e.clock[a] <= writes
      BY <1>2 DEF Counted
    <3>2. ClockOf(r)[a] <= writes
      BY <1>5, <3>1 DEF ReplicasType
    <3>3. CASE a = n
      BY <1>3, <1>5, <3>2, <3>3 DEF Clocks, ReplicasType
    <3>4. CASE a # n
      <4>1. \A e \in r : e.clock[a] \in Nat
        BY <1>1 DEF Entries, Clocks
      <4>2. new.clock[a] = 0 \/ \E e \in r : new.clock[a] = e.clock[a]
        BY <1>3, <3>4
      <4> QED BY <3>1, <4>1, <4>2 DEF ReplicasType
    <3> QED BY <3>3, <3>4
  <2>2. new.clock # ZeroClock
    <3>1. new.clock[n] # 0
      BY <1>3, <1>5 DEF Clocks
    <3> QED BY <3>1 DEF ZeroClock
  <2>3. \A e \in All : \A a \in Actors : e.clock[a] <= writes + 1
    BY <1>9 DEF Counted, ReplicasType, Entries, Clocks
  <2> QED BY <1>7, <2>1, <2>2, <2>3 DEF Counted, Upsert
<1>11. Holds({new}, known[n] \cup {new})
  <2>1. ASSUME NEW e \in known[n]
        PROVE  Leq(e.clock, new.clock)
    <3>1. PICK f \in r : Leq(e.clock, f.clock)
      BY DEF Holds
    <3> QED BY <3>1, <1>1, <1>3, <1>9, LeqOrder DEF Entries
  <2>2. Leq(new.clock, new.clock)
    BY <1>3, LeqOrder DEF Entries
  <2> QED BY <2>1, <2>2 DEF Holds
<1>12. \A m \in Actors : Holds(reg'[m], known'[m])
  BY <1>6, <1>7, <1>11 DEF ReplicasType
<1>13. \A d \in wire' : Holds(d.reg, d.known) /\ d.known \subseteq All'
  BY <1>7 DEF Upsert
<1>14. OwnFirst(All)'
  <2> SUFFICES ASSUME NEW m \in Actors, NEW f \in All',
                      f.clock[m] # 0
               PROVE  \E e \in known'[m] : f.clock[m] <= e.clock[m]
    BY DEF OwnFirst
  <2>1. CASE f \in All
    BY <2>1, <1>7 DEF OwnFirst
  <2>2. CASE f = new /\ m = n
    BY <2>2, <1>3, <1>7 DEF Entries, Clocks
  <2>3. CASE f = new /\ m # n
    <3>1. PICK e \in r : new.clock[m] = e.clock[m]
      BY <2>3, <1>3
    <3>2. \E g \in known[m] : e.clock[m] <= g.clock[m]
      BY <3>1, <2>3, <1>1 DEF OwnFirst
    <3> QED BY <2>3, <3>1, <3>2, <1>7
  <2> QED BY <1>7, <2>1, <2>2, <2>3
<1>15. ASSUME rising' PROVE \A e \in All' : Named(e, All')
  <2>1. rising /\ \A e \in r : e.value <= v
    BY <1>15 DEF Upsert
  <2>2. ASSUME NEW f \in All PROVE Named(f, All')
    <3>1. PICK a \in Actors, i \in Nat :
              /\ 0 < i /\ i <= f.clock[a]
              /\ \A g \in All : i <= g.clock[a] => f.value <= g.value
      BY <2>1 DEF Named
    <3>2. ASSUME i <= new.clock[a] PROVE f.value <= v
      <4>1. PICK e \in r : i <= e.clock[a]
        <5>1. CASE a # n
          BY <5>1, <3>1, <3>2, <1>3
        <5>2. CASE a = n
          <6>1. PICK e \in known[n] : f.clock[n] <= e.clock[n]
            BY <5>2, <3>1 DEF OwnFirst
          <6>2. PICK g \in r : Leq(e.clock, g.clock)
            BY DEF Holds
          <6>3. f.clock[n] <= e.clock[n] /\ e.clock[n] <= g.clock[n]
            BY <6>1, <6>2 DEF Leq
          <6>4. f.clock[n] \in Nat /\ e.clock[n] \in Nat /\ g.clock[n] \in Nat
            BY <1>1, <1>9 DEF Entries, Clocks
          <6> QED BY <5>2, <3>1, <6>3, <6>4
        <5> QED BY <5>1, <5>2
      <4>2. f.value <= e.value /\ e.value <= v
        BY <3>1, <4>1, <2>1, <1>1
      <4> QED BY <4>2, <1>1, <1>9 DEF Entries
    <3>3. \A g \in All' : i <= g.clock[a] => f.value <= g.value
      BY <3>1, <3>2, <1>4, <1>7
    <3> QED BY <3>1, <3>3 DEF Named
  <2>3. Named(new, All')
    <3>1. \A f \in All : ~ (new.clock[n] <= f.clock[n])
      <4> SUFFICES ASSUME NEW f \in All, new.clock[n] <= f.clock[n] PROVE FALSE
        OBVIOUS
      <4>1. f.clock[n] \in Nat /\ ClockOf(r)[n] \in Nat /\ f.clock[n] # 0
        BY <1>3, <1>5, <1>9 DEF Entries, Clocks
      <4>2. PICK e \in known[n] : f.clock[n] <= e.clock[n]
        BY <4>1 DEF OwnFirst
      <4>3. PICK g \in r : Leq(e.clock, g.clock)
        BY DEF Holds
      <4>4. e.clock[n] <= g.clock[n] /\ g.clock[n] <= ClockOf(r)[n]
        BY <4>3, <1>5 DEF Leq
      <4>5. e.clock[n] \in Nat /\ g.clock[n] \in Nat
        BY <1>1, <1>9 DEF Entries, Clocks
      <4> QED BY <4>1, <4>2, <4>4, <4>5, <1>3
    <3>2. new.clock[n] \in Nat /\ 0 < new.clock[n] /\ new.value \in Nat
      BY <1>3, <1>5 DEF Entries, Clocks
    <3>3. \A f \in All' : new.clock[n] <= f.clock[n] => new.value <= f.value
      BY <3>1, <3>2, <1>7
    <3> QED BY <3>2, <3>3 DEF Named
  <2> QED BY <1>7, <2>2, <2>3
<1> QED BY <1>8, <1>10, <1>12, <1>13, <1>14, <1>15

LEMMA ExportKeepsInv ==
    ASSUME ReplicasInv, NEW n \in Actors, Export(n)
    PROVE  ReplicasInv'
<1> USE DEF ReplicasInv
<1> DEFINE d == [reg |-> reg[n], known |-> known[n]]
<1>1. wire' = wire \cup {d} /\ UNCHANGED <<rising, writes, reg, known>>
  BY DEF Export
<1>2. All' = All /\ known[n] \subseteq All
  BY <1>1 DEF All
<1>3. ReplicasType'
  BY <1>1 DEF ReplicasType
<1>4. Holds(d.reg, d.known) /\ d.known \subseteq All'
  BY <1>2
<1> HIDE DEF d
<1>5. OwnFirst(All)'
  BY <1>1, <1>2 DEF OwnFirst
<1> QED BY <1>1, <1>2, <1>3, <1>4, <1>5

LEMMA ApplyDeltaKeepsInv ==
    ASSUME ReplicasInv, NEW n \in Actors, NEW d \in wire, ApplyDelta(n, d)
    PROVE  ReplicasInv'
<1> USE DEF ReplicasInv
<1> DEFINE r == Merge(reg[n], d.reg)
<1>1. /\ d.reg \in SUBSET Entries /\ d.known \in SUBSET Entries
      /\ reg[n] \in SUBSET Entries /\ known[n] \in SUBSET Entries
  BY DEF ReplicasType
<1>2. known[n] \subseteq All /\ d.known \subseteq All
  BY DEF All
<1>3. r \in SUBSET Entries /\ Holds(r, known[n] \cup d.known)
  <2>1. Holds(reg[n], known[n]) /\ Holds(d.reg, d.known)
    OBVIOUS
  <2>2. Holds(r, known[n] \cup d.known)
    BY <1>1, <2>1, MergeHolds
  <2> QED BY <1>1, <2>2 DEF Holds
<1> HIDE DEF r
<1>4. /\ reg' = [reg EXCEPT ![n] = r]
      /\ known' = [known EXCEPT ![n] = @ \cup d.known]
      /\ UNCHANGED <<rising, writes>>
      /\ wire' \subseteq wire
  BY DEF ApplyDelta, r
<1>5. /\ All' = All
      /\ \A m \in Actors : known[m] \subseteq known'[m]
      /\ known'[n] = known[n] \cup d.known
  <2>1. known \in [Actors -> SUBSET Entries]
    BY DEF ReplicasType
  <2>2. /\ All' = All \cup d.known
        /\ \A m \in Actors : known[m] \subseteq known'[m]
        /\ known'[n] = known[n] \cup d.known
    BY Zenon, <1>4, <2>1, AllGrows
  <2> QED BY <1>2, <2>2
<1>6. ReplicasType'
  BY <1>1, <1>3, <1>4 DEF ReplicasType
<1>7. \A m \in Actors : Holds(reg'[m], known'[m])
  BY <1>3, <1>4, <1>5 DEF ReplicasType
<1>8. OwnFirst(All)'
  BY <1>5 DEF OwnFirst
<1> QED BY Zenon, <1>4, <1>5, <1>6, <1>7, <1>8

LEMMA CompactKeepsInv ==
    ASSUME ReplicasInv, NEW n \in Actors, CompactRegisters(n)
    PROVE  ReplicasInv'
<1> USE DEF ReplicasInv
<1> DEFINE r == reg[n]
<1>1. PICK c \in CompactWith(r, MaxValues) :
          /\ reg' = [reg EXCEPT ![n] = c]
          /\ known' = [known EXCEPT ![n] = @ \cup c]
          /\ UNCHANGED <<rising, wire, writes>>
  BY Zenon DEF CompactRegisters
<1>2. /\ known[n] \in SUBSET Entries /\ known[n] \subseteq All /\ r \subseteq known[n]
      /\ Counted(known[n], writes) /\ Holds(r, known[n])
      /\ \A e \in All : e \in Entries
  BY DEF ReplicasType, All, Counted, Holds
<1>3. PICK top \in r, new \in Entries :
          /\ Absorbs(new, top, r)
          /\ new.clock # ZeroClock
          /\ new \in c /\ c \subseteq r \cup {new}
          /\ Holds(c, known[n] \cup c)
  <2>1. MaxValues \in Nat /\ writes \in Nat
    BY ReplicasConstants DEF ReplicasType
  <2> QED BY Zenon, <1>2, <2>1, CompactHolds
<1>4. known[n] \cup c = known[n] \cup {new}
  BY <1>2, <1>3
<1>5. known' = [known EXCEPT ![n] = @ \cup {new}]
  BY Zenon, <1>1, <1>4
<1>6. /\ All' = All \cup {new}
      /\ \A m \in Actors : known[m] \subseteq known'[m]
      /\ known'[n] = known[n] \cup {new}
  BY Zenon, <1>5, AllGrows DEF ReplicasType
<1>7. ReplicasType'
  BY <1>1, <1>2, <1>3, <1>5 DEF ReplicasType
<1>8. /\ Leq(top.clock, new.clock) /\ new.value = top.value
      /\ \A e \in r : e.value <= top.value
      /\ \A a \in Actors : \E e \in r : new.clock[a] = e.clock[a]
  BY <1>3 DEF Absorbs
<1>9. Counted(All', writes')
  BY <1>1, <1>2, <1>3, <1>6, <1>8 DEF Counted
<1>10. \A m \in Actors : Holds(reg'[m], known'[m])
  BY <1>1, <1>3, <1>4, <1>6 DEF ReplicasType
<1>11. \A d \in wire' : Holds(d.reg, d.known) /\ d.known \subseteq All'
  BY <1>1, <1>6
<1>12. OwnFirst(All)'
  <2> SUFFICES ASSUME NEW m \in Actors, NEW f \in All', f.clock[m] # 0
               PROVE  \E e \in known'[m] : f.clock[m] <= e.clock[m]
    BY DEF OwnFirst
  <2>1. PICK e \in All : f.clock[m] = e.clock[m]
    BY <1>2, <1>6, <1>8
  <2>2. \E g \in known[m] : e.clock[m] <= g.clock[m]
    BY <2>1 DEF OwnFirst
  <2> QED BY <2>1, <2>2, <1>6
<1>13. ASSUME rising' PROVE \A e \in All' : Named(e, All')
  <2>1. ASSUME NEW f \in All PROVE
          \E a \in Actors, i \in Nat :
              /\ 0 < i /\ i <= f.clock[a]
              /\ \A g \in All' : i <= g.clock[a] => f.value <= g.value
    <3>1. PICK a \in Actors, i \in Nat :
              /\ 0 < i /\ i <= f.clock[a]
              /\ \A g \in All : i <= g.clock[a] => f.value <= g.value
      BY <1>1, <1>13 DEF Named
    <3>2. ASSUME i <= new.clock[a] PROVE f.value <= new.value
      <4>1. PICK e \in r : new.clock[a] = e.clock[a]
        BY <1>8
      <4>2. f.value <= e.value /\ e.value <= top.value
        BY <3>1, <3>2, <4>1, <1>2, <1>8
      <4>3. f.value \in Nat /\ e.value \in Nat /\ top.value \in Nat
        BY <1>2 DEF Entries
      <4> QED BY <4>2, <4>3, <1>8
    <3> QED BY <3>1, <3>2, <1>6
  <2>2. Named(new, All')
    <3>1. PICK a \in Actors, i \in Nat :
              /\ 0 < i /\ i <= top.clock[a]
              /\ \A g \in All' : i <= g.clock[a] => top.value <= g.value
      BY <2>1, <1>2
    <3>2. /\ top.clock[a] \in Nat /\ new.clock[a] \in Nat
          /\ top.clock[a] <= new.clock[a]
      BY <1>2, <1>3, <1>8 DEF Leq, Entries, Clocks
    <3>3. i <= new.clock[a]
      BY <3>1, <3>2
    <3> QED BY <3>1, <3>3, <1>8 DEF Named
  <2> QED BY <1>6, <2>1, <2>2 DEF Named
<1> QED BY <1>7, <1>9, <1>10, <1>11, <1>12, <1>13

----------------------------------------------------------------------------
LEMMA ReplicasInvNext == ReplicasInv /\ [ReplicasNext]_replicaVars => ReplicasInv'
<1> SUFFICES ASSUME ReplicasInv, [ReplicasNext]_replicaVars
             PROVE  ReplicasInv'
  OBVIOUS
<1>1. ASSUME NEW n \in Actors, NEW v \in Values, Upsert(n, v) PROVE ReplicasInv'
  BY <1>1, UpsertKeepsInv
<1>2. ASSUME NEW n \in Actors, Export(n) PROVE ReplicasInv'
  BY <1>2, ExportKeepsInv
<1>3. ASSUME NEW n \in Actors, NEW d \in wire, ApplyDelta(n, d) PROVE ReplicasInv'
  BY <1>3, ApplyDeltaKeepsInv
<1>4. ASSUME NEW n \in Actors, CompactRegisters(n) PROVE ReplicasInv'
  BY <1>4, CompactKeepsInv
<1>5. CASE UNCHANGED replicaVars
  BY <1>5 DEF replicaVars, ReplicasInv, ReplicasType, All, OwnFirst
<1> QED BY <1>1, <1>2, <1>3, <1>4, <1>5 DEF ReplicasNext

\* Whatever the order and age of the deltas, and whatever value order the rows
\* of a domain have, no write that reached a replica is lost there.
THEOREM RegistersLoseNothing == ReplicasSpec => []NothingLost
<1>1. ReplicasInv => NothingLost
  <2> SUFFICES ASSUME ReplicasInv, NEW n \in Actors
               PROVE  /\ \A e \in known[n] : \E f \in reg[n] : Leq(e.clock, f.clock)
                      /\ reg[n] \subseteq Maxima(known[n])
    BY DEF NothingLost
  <2>1. Holds(reg[n], known[n]) /\ known[n] \in SUBSET Entries
    BY DEF ReplicasInv, ReplicasType
  <2>2. ASSUME NEW e \in reg[n], NEW f \in known[n], Less(e.clock, f.clock)
        PROVE  FALSE
    <3>1. PICK g \in reg[n] : Leq(f.clock, g.clock)
      BY <2>1 DEF Holds
    <3>2. e.clock \in Clocks /\ f.clock \in Clocks /\ g.clock \in Clocks
      BY <2>1 DEF Holds, Entries
    <3>3. Leq(e.clock, f.clock) /\ e.clock # f.clock
      BY <2>2 DEF Less
    <3>4. e = g
      BY <2>1, <3>1, <3>2, <3>3, LeqOrder DEF Holds
    <3> QED BY <3>1, <3>2, <3>3, <3>4, LeqOrder
  <2> QED BY <2>1, <2>2 DEF Holds, Maxima
<1> QED BY <1>1, ReplicasInvInit, ReplicasInvNext, PTL DEF ReplicasSpec

\* In a domain whose ranks rise with every rewrite, equal clocks mean equal
\* values on all replicas, also after each compacted on its own.
THEOREM ClocksNameValues == ReplicasSpec => []ClockNamesValue
<1>1. ReplicasInv => ClockNamesValue
  <2> SUFFICES ASSUME ReplicasInv, rising, NEW m \in Actors, NEW n \in Actors,
                      NEW e \in known[m], NEW f \in known[n], e.clock = f.clock
               PROVE  e.value = f.value
    BY DEF ClockNamesValue
  <2>1. e \in All /\ f \in All /\ All \in SUBSET Entries
    BY DEF All, ReplicasInv, ReplicasType
  <2>2. Leq(e.clock, f.clock) /\ Leq(f.clock, e.clock)
    BY <2>1, LeqOrder DEF Entries
  <2>3. e.value <= f.value /\ f.value <= e.value
    BY <2>1, <2>2, ClocksOrderValues DEF ReplicasInv
  <2> QED BY <2>1, <2>3 DEF Entries
<1> QED BY <1>1, ReplicasInvInit, ReplicasInvNext, PTL DEF ReplicasSpec

\* In such a domain a register is a function of the entries that reached it, so
\* replicas that incorporated the same entries hold the same register.
THEOREM RegistersConverge == ReplicasSpec => []HoldsLatest
<1>1. ReplicasInv /\ NothingLost /\ ClockNamesValue => HoldsLatest
  <2> SUFFICES ASSUME ReplicasInv, NothingLost, ClockNamesValue, rising,
                      NEW n \in Actors, NEW e \in Maxima(known[n])
               PROVE  e \in reg[n]
    BY Zenon DEF HoldsLatest, NothingLost
  <2>1. e \in known[n] /\ \A f \in known[n] : ~ Less(e.clock, f.clock)
    BY DEF Maxima
  <2>2. PICK f \in reg[n] : Leq(e.clock, f.clock)
    BY <2>1 DEF NothingLost
  <2>3. f \in known[n] /\ known[n] \in SUBSET Entries
    BY DEF ReplicasInv, ReplicasType, Holds
  <2>4. e.clock = f.clock
    BY <2>1, <2>2, <2>3 DEF Less
  <2>5. e.value = f.value
    BY <2>1, <2>3, <2>4 DEF ClockNamesValue
  <2> QED BY <2>1, <2>3, <2>4, <2>5 DEF Entries
<1> QED BY <1>1, ReplicasInvInit, ReplicasInvNext, RegistersLoseNothing,
           ClocksNameValues, PTL DEF ReplicasSpec

\* In such a domain no merge, late delta or compaction takes the selected value
\* of a row below a value the replica has known.
THEOREM WinnersStay == ReplicasSpec => []WinnerStays
<1>1. ReplicasInv => WinnerStays
  <2> SUFFICES ASSUME ReplicasInv, rising, NEW n \in Actors, NEW e \in known[n]
               PROVE  \E f \in reg[n] : e.value <= f.value
    BY DEF WinnerStays
  <2>1. PICK f \in reg[n] : Leq(e.clock, f.clock)
    BY DEF ReplicasInv, Holds
  <2>2. e \in All /\ f \in All /\ All \in SUBSET Entries
    BY DEF All, ReplicasInv, ReplicasType, Holds
  <2> QED BY <2>1, <2>2, ClocksOrderValues DEF ReplicasInv
<1> QED BY <1>1, ReplicasInvInit, ReplicasInvNext, PTL DEF ReplicasSpec
=============================================================================
