------------------------ MODULE SchedulerLeaseProofs ------------------------
(***************************************************************************)
(* When publishing a snapshot preserves the inductive invariant of the     *)
(* scheduler, and that reserving, releasing and preparing do.              *)
(***************************************************************************)
EXTENDS SchedulerTypeProofs

-----------------------------------------------------------------------------
(* Every operation that publishes a snapshot preserves the invariant when    *)
(* its new snapshot keeps what was promised and makes good what it promises. *)

KeepsPromises(res) ==
    /\ \A x \in Known : x.lease \notin revoked' /\ x.exp > now /\ Holds(mem.res, x) => Holds(res, x)
    /\ \A x \in granted : x.lease \notin revoked' /\ HoldsReserved(mem.res, x)
                           => HoldsReserved(res, x)

\* The leases of a new batch are held, fresh, and recorded as they were granted.
GrantsAreNew(res, grants) ==
    /\ \A x \in grants : /\ Holds(res, x)
                         /\ x.lease[1] = attempts + 1 /\ x.lease[1] <= attempts'
    /\ \A x, y \in grants : x.lease = y.lease => x = y
    /\ \A r \in Resources : IsLeased(res[r]) =>
          \/ res[r] = mem.res[r]
          \/ /\ res[r].lease[1] = attempts + 1 /\ res[r].lease[1] <= attempts'
             /\ \A x \in grants : x.lease = res[r].lease =>
                   x.exp = res[r].exp /\ x.task = res[r].task /\ x.group = res[r].group

AcksAreReserved(res, acks) ==
    /\ acks \subseteq {x.lease : x \in granted}
    /\ \A x \in granted : x.lease \in acks => HoldsReserved(res, x)

LEMMA PublishInv ==
    ASSUME LeaseInv, TypeOK', NEW res, NEW grants \in SUBSET Grants, NEW acks, NEW holds,
           Running, Publish(res, grants, acks, holds),
           attempts' >= attempts, revoked \subseteq revoked',
           KeepsPromises(res), GrantsAreNew(res, grants), AcksAreReserved(res, acks)
    PROVE  LeaseInv'
<1> DEFINE n == Len(pending)
<1>t. TypeOK /\ QueueInv /\ IdsInv /\ AcksInv /\ RecordInv /\ GrantedInv /\ AwaitedInv
  BY DEF LeaseInv
<1>a. /\ n \in Nat /\ DOMAIN pending = 1 .. n /\ DOMAIN pending' = 1 .. n + 1
      /\ \A i \in 1 .. n : /\ pending'[i] = pending[i] /\ mem \in After(i)
                           /\ After(i)' \subseteq After(i) \cup {mem'}
      /\ pending'[n + 1] =
           [new |-> mem', prev |-> mem, grants |-> grants, acks |-> acks, holds |-> holds]
      /\ \A k \in Nat : k = n + 1 => After(k)' = {mem'}
      /\ AllSnapshots' \subseteq AllSnapshots \cup {mem'}
      /\ Known' = Known \cup grants
  BY <1>t, AfterPublish, PendingType
<1>n. /\ pending'[n + 1].new = mem' /\ pending'[n + 1].prev = mem
      /\ pending'[n + 1].grants = grants /\ pending'[n + 1].acks = acks
  BY <1>a
<1>m. /\ mem'.res = res /\ mem'.version = mem.version + 1 /\ durable' = durable
      /\ booting' = booting /\ now' = now /\ granted' = granted /\ acked' = acked
  BY DEF Publish
<1>s. mem \in AllSnapshots /\ granted \subseteq Known /\ Known \subseteq Grants
  BY <1>t, PendingType DEF AllSnapshots, Known
<1>p. \A i \in 1 .. n : pending[i].grants \subseteq Known
  BY <1>a DEF Known
<1>i. attempts \in Nat /\ attempts' \in Nat
  BY <1>t, ConstantsAssumption DEF TypeOK
<1>l. \A x \in Grants : x.lease[1] \in Nat
  BY ConstantsAssumption DEF Grants, LeaseIds
<1>sl. \A s \in AllSnapshots, r \in Resources : IsLeased(s.res[r]) => s.res[r].lease[1] \in Nat
  <2>1. \A s \in AllSnapshots : s.res \in [Resources -> States]
    BY <1>t, PendingType DEF Snapshots
  <2>2. \A u \in States : IsLeased(u) => u.lease \in LeaseIds
    BY DEF States, IsLeased, Absent, Free
  <2> QED
    BY <2>1, <2>2, ConstantsAssumption DEF LeaseIds
<1>1. QueueInv'
  <2>v. /\ mem.version \in Nat /\ durable.version \in Nat
        /\ \A i \in 1 .. n : pending[i].new.version \in Nat /\ pending[i].prev.version \in Nat
    BY <1>t, <1>a, VersionType
  <2>e. n # 0 => mem = pending[n].new
    BY <1>t, <1>a DEF QueueInv
  <2>1. \A i \in 1 .. n : pending[i].new.version <= mem.version
    <3>1. \A i \in 1 .. n : i < n =>
            /\ pending[i].new.version <= pending[n].prev.version
            /\ pending[n].prev.version < pending[n].new.version
      BY <1>t, <1>a DEF QueueInv
    <3> QED
      BY <1>a, <2>v, <2>e, <3>1
  <2>2. durable.version <= mem.version
    BY <1>t, <1>a, <2>v, <2>1 DEF QueueInv
  <2>3. ~booting' /\ pending' # <<>> /\ Len(pending') = n + 1
    BY <1>a, <1>m DEF Running, Publish, TypeOK
  <2>4. \A i \in 1 .. n + 1 : /\ pending'[i].prev.version < pending'[i].new.version
                              /\ durable.version <= pending'[i].prev.version
    <3>1. \A i \in 1 .. n : /\ pending[i].prev.version < pending[i].new.version
                            /\ durable.version <= pending[i].prev.version
      BY <1>t, <1>a DEF QueueInv
    <3> QED
      BY <1>a, <1>n, <1>m, <2>v, <2>2, <3>1
  <2>5. \A i, j \in 1 .. n + 1 : i < j => pending'[i].new.version <= pending'[j].prev.version
    <3>1. \A i, j \in 1 .. n : i < j => pending[i].new.version <= pending[j].prev.version
      BY <1>t, <1>a DEF QueueInv
    <3> QED
      BY <1>a, <1>n, <2>1, <3>1
  <2> QED
    BY <1>a, <1>n, <1>m, <2>3, <2>4, <2>5 DEF QueueInv
<1>2. IdsInv'
  <2>1. \A x, y \in Known' : x.lease = y.lease => x = y
    BY <1>t, <1>a, <1>s, <1>i, <1>l DEF IdsInv, GrantsAreNew
  <2>2. \A x \in Known' : x.lease[1] <= attempts'
    BY <1>t, <1>a, <1>s, <1>i, <1>l DEF IdsInv, GrantsAreNew
  <2>3. \A r \in Resources : IsLeased(res[r]) => res[r].lease[1] <= attempts'
    BY <1>t, <1>s, <1>i, <1>sl DEF IdsInv, GrantsAreNew
  <2>4. \A s \in AllSnapshots, r \in Resources :
            IsLeased(s.res[r]) => s.res[r].lease[1] <= attempts'
    BY <1>t, <1>i, <1>sl DEF IdsInv
  <2> QED
    BY <1>a, <1>m, <2>1, <2>2, <2>3, <2>4 DEF IdsInv
<1>3. AcksInv'
  BY <1>t, <1>a, <1>n, <1>m DEF AcksInv, AcksAreReserved
<1>4. RecordInv'
  <2>1. \A s \in AllSnapshots, r \in Resources : IsLeased(s.res[r]) =>
           \A x \in grants : x.lease # s.res[r].lease
    BY <1>t, <1>i, <1>sl DEF IdsInv, GrantsAreNew
  <2>2. \A r \in Resources : IsLeased(res[r]) /\ res[r] # mem.res[r] =>
           \A x \in Known : x.lease # res[r].lease
    BY <1>t, <1>s, <1>i, <1>l DEF IdsInv, GrantsAreNew
  <2>3. \A s \in AllSnapshots \cup {mem'}, r \in Resources : IsLeased(s.res[r]) =>
           \A x \in Known \cup grants : x.lease = s.res[r].lease =>
              x.exp = s.res[r].exp /\ x.task = s.res[r].task /\ x.group = s.res[r].group
    <3> SUFFICES ASSUME NEW s \in AllSnapshots \cup {mem'}, NEW r \in Resources,
                        IsLeased(s.res[r]), NEW x \in Known \cup grants,
                        x.lease = s.res[r].lease
                 PROVE  x.exp = s.res[r].exp /\ x.task = s.res[r].task /\ x.group = s.res[r].group
      OBVIOUS
    <3>1. CASE s \in AllSnapshots
      BY <1>t, <2>1, <3>1 DEF RecordInv
    <3>2. CASE s = mem' /\ res[r] = mem.res[r]
      BY <1>t, <1>s, <1>m, <2>1, <3>2 DEF RecordInv
    <3>3. CASE s = mem' /\ res[r] # mem.res[r]
      BY <1>m, <2>2, <3>3 DEF GrantsAreNew
    <3> QED
      BY <3>1, <3>2, <3>3
  <2> QED
    BY <1>a, <2>3 DEF RecordInv
<1>5. GrantedInv'
  <2> SUFFICES ASSUME NEW x \in granted, x.lease \notin revoked', NEW s \in AllSnapshots \cup {mem'}
               PROVE  /\ x.exp > now => Holds(s.res, x)
                      /\ x.lease \in acked => HoldsReserved(s.res, x)
    BY <1>a, <1>m DEF GrantedInv, Holds, HoldsReserved
  <2>1. CASE s \in AllSnapshots
    BY <1>t, <2>1 DEF GrantedInv
  <2>2. CASE s = mem'
    BY <1>t, <1>s, <1>m, <2>2 DEF GrantedInv, KeepsPromises
  <2> QED
    BY <2>1, <2>2
<1>6. AwaitedInv'
  <2> SUFFICES ASSUME NEW i \in 1 .. n + 1, NEW s \in After(i)'
               PROVE  /\ \A x \in pending'[i].grants :
                           x.lease \notin revoked' /\ x.exp > now => Holds(s.res, x)
                      /\ \A x \in granted : x.lease \notin revoked' /\ x.lease \in pending'[i].acks
                           => HoldsReserved(s.res, x)
    BY <1>a, <1>m DEF AwaitedInv, Holds, HoldsReserved
  <2>1. CASE i = n + 1
    BY <1>a, <1>n, <1>m, <2>1 DEF GrantsAreNew, AcksAreReserved
  <2>2. CASE i \in 1 .. n /\ s \in After(i)
    BY <1>t, <1>a, <2>2 DEF AwaitedInv
  <2>3. CASE i \in 1 .. n /\ s = mem'
    BY <1>t, <1>a, <1>m, <1>p, <2>3 DEF AwaitedInv, KeepsPromises
  <2> QED
    BY <1>a, <2>1, <2>2, <2>3
<1> QED
  BY <1>1, <1>2, <1>3, <1>4, <1>5, <1>6 DEF LeaseInv

-----------------------------------------------------------------------------
(* What clearing, freeing and binding resources does to a promise. *)

LEMMA FreeShape ==
    ~IsLeased(Absent) /\ ~IsReserved(Absent) /\ ~IsLeased(Free) /\ ~IsReserved(Free)
BY DEF IsLeased, IsReserved, Absent, Free

LEMMA ReservedShape ==
    ASSUME NEW t, NEW g
    PROVE  /\ IsReserved(Reserved(t, g)) /\ ~IsLeased(Reserved(t, g))
           /\ Reserved(t, g).task = t
BY DEF IsLeased, IsReserved, Reserved

LEMMA LeasedShape ==
    ASSUME NEW l, NEW c, NEW t, NEW g, NEW e
    PROVE  /\ IsLeased(Leased(l, c, t, g, e)) /\ Leased(l, c, t, g, e).lease = l
           /\ Leased(l, c, t, g, e).task = t /\ Leased(l, c, t, g, e).group = g
           /\ Leased(l, c, t, g, e).exp = e
BY DEF IsLeased, Leased

LEMMA ShapesApart ==
    ASSUME NEW u, IsReserved(u)
    PROVE  ~IsLeased(u)
BY DEF IsLeased, IsReserved

\* A resource outside R keeps its state, and expiry never touches a live or committed lease.
LEMMA HoldsSetTo ==
    ASSUME NEW res, NEW R, NEW u, NEW x \in Grants, x.res \cap R = {}
    PROVE  /\ Holds(res, x) => Holds(SetTo(res, R, u), x)
           /\ HoldsReserved(res, x) => HoldsReserved(SetTo(res, R, u), x)
<1>1. \A r \in x.res : SetTo(res, R, u)[r] = res[r]
  BY DEF SetTo, Grants
<1> QED
  BY <1>1 DEF Holds, HoldsReserved

LEMMA HoldsCleared ==
    ASSUME LeaseInv, NEW x \in Known
    PROVE  /\ Holds(mem.res, x) /\ x.exp > now => Holds(ClearExpired(mem.res), x)
           /\ HoldsReserved(mem.res, x) => HoldsReserved(ClearExpired(mem.res), x)
<1>1. x \in Grants /\ x.res \subseteq Resources /\ x.exp \in Nat /\ now \in Nat
  BY PendingType, ConstantsAssumption DEF LeaseInv, TypeOK, Grants
<1>2. \A r \in x.res : IsLeased(mem.res[r]) /\ mem.res[r].lease = x.lease => mem.res[r].exp = x.exp
  BY <1>1 DEF LeaseInv, RecordInv, AllSnapshots
<1>3. Holds(mem.res, x) /\ x.exp > now => x.res \cap ExpiredRes(mem.res) = {}
  BY <1>1, <1>2, ShapesApart DEF Holds, ExpiredRes
<1>4. HoldsReserved(mem.res, x) => x.res \cap ExpiredRes(mem.res) = {}
  BY ShapesApart DEF HoldsReserved, ExpiredRes
<1> QED
  BY <1>1, <1>3, <1>4, HoldsSetTo DEF ClearExpired

LEMMA ClearedLeases ==
    ASSUME NEW r \in Resources, IsLeased(ClearExpired(mem.res)[r])
    PROVE  ClearExpired(mem.res)[r] = mem.res[r]
BY FreeShape DEF ClearExpired, SetTo

LEMMA UnrevokedApart ==
    ASSUME NEW R, NEW x \in Known, x.lease \notin LeasesOn(R)
    PROVE  x.res \cap R = {}
BY DEF LeasesOn

LEMMA ReserveInv ==
    ASSUME LeaseInv, TypeOK', NEW R \in SUBSET Resources, NEW alloc \in [R -> Tasks],
           NEW g \in GroupIds, ReserveResources(R, alloc, g)
    PROVE  LeaseInv'
<1> DEFINE cleared == ClearExpired(mem.res)
           res == [r \in Resources |-> IF r \in R THEN Reserved(alloc[r], g) ELSE cleared[r]]
           holds == {[task |-> t, res |-> {r \in R : alloc[r] = t}] : t \in {alloc[r] : r \in R}}
<1>1. /\ Running /\ attempts' = attempts /\ revoked' = revoked
      /\ R \subseteq FreeIn(cleared) /\ Publish(res, {}, {}, holds)
  BY DEF ReserveResources
<1>2. granted \subseteq Known /\ Known \subseteq Grants /\ \A y \in Known : y.res \subseteq Resources
  BY PendingType DEF LeaseInv, Known, Grants
<1>3. \A y \in Known : Holds(cleared, y) \/ HoldsReserved(cleared, y) => y.res \cap R = {}
  BY <1>1, FreeShape DEF FreeIn, Holds, HoldsReserved
<1>4. \A r \in Resources : res[r] = IF r \in R THEN Reserved(alloc[r], g) ELSE cleared[r]
  OBVIOUS
<1>5. \A y \in Known : /\ Holds(mem.res, y) /\ y.exp > now => Holds(cleared, y)
                       /\ HoldsReserved(mem.res, y) => HoldsReserved(cleared, y)
  BY HoldsCleared
<1>6. \A r \in Resources : IsLeased(cleared[r]) => cleared[r] = mem.res[r]
  BY ClearedLeases
<1> HIDE DEF cleared, res
<1>7. KeepsPromises(res)
  <2>1. \A y \in Known : y.res \cap R = {} => \A r \in y.res : res[r] = cleared[r]
    BY <1>2, <1>4
  <2> QED
    BY SMTT(30), <1>2, <1>3, <1>5, <2>1 DEF KeepsPromises, Holds, HoldsReserved
<1>8. GrantsAreNew(res, {})
  BY <1>4, <1>6, ReservedShape DEF GrantsAreNew
<1>9. AcksAreReserved(res, {}) /\ attempts' >= attempts
  BY <1>1, CountersType DEF AcksAreReserved
<1> QED
  BY <1>1, <1>7, <1>8, <1>9, PublishInv

-----------------------------------------------------------------------------
(* The operations on leases and reservations. *)

LEMMA ReleaseInv ==
    ASSUME LeaseInv, TypeOK', Running, NEW res, NEW R, Release(res, R),
           res \in {mem.res, ClearExpired(mem.res)}
    PROVE  LeaseInv'
<1>1. Publish(SetTo(res, R, Free), {}, {}, {}) /\ revoked' = revoked \cup LeasesOn(R)
      /\ attempts' = attempts
  BY DEF Release
<1>2. granted \subseteq Known /\ Known \subseteq Grants
  BY PendingType DEF LeaseInv, Known
<1>3. KeepsPromises(SetTo(res, R, Free))
  <2>1. \A x \in Known : /\ Holds(mem.res, x) /\ x.exp > now => Holds(res, x)
                         /\ HoldsReserved(mem.res, x) => HoldsReserved(res, x)
    BY HoldsCleared
  <2>2. \A x \in Known : x.lease \notin revoked' => x.res \cap R = {}
    BY <1>1, UnrevokedApart
  <2> QED
    BY <1>2, <2>1, <2>2, HoldsSetTo DEF KeepsPromises
<1>4. GrantsAreNew(SetTo(res, R, Free), {})
  BY FreeShape, ClearedLeases DEF GrantsAreNew, SetTo
<1>5. AcksAreReserved(SetTo(res, R, Free), {})
  BY DEF AcksAreReserved
<1>6. attempts' >= attempts
  BY <1>1, CountersType
<1> QED
  BY <1>1, <1>3, <1>4, <1>5, <1>6, PublishInv

LEMMA PrepareInv ==
    ASSUME LeaseInv, NEW c \in Coordinators, NEW g \in GroupIds, PrepareBatch(c, g)
    PROVE  LeaseInv'
<1>t. TypeOK'
  BY PrepareType DEF LeaseInv
<1> DEFINE old == IF g = NoGroup THEN {} ELSE GroupRes(mem.res, g)
<1>1. PICK alloc \in Allocations(FreeIn(Prepared(g))) :
        Publish(Bind(Prepared(g), alloc, c, g), BatchOf(alloc, c, g), {}, {})
  BY DEF PrepareBatch
<1>2. PICK A \in SUBSET FreeIn(Prepared(g)) : alloc \in [A -> Tasks]
  BY DEF Allocations
<1> DEFINE res == Bind(Prepared(g), alloc, c, g)
           batch == BatchOf(alloc, c, g)
<1>3. granted \subseteq Known /\ Known \subseteq Grants /\ A \subseteq Resources
  BY PendingType DEF LeaseInv, Known, FreeIn
<1>4. batch \in SUBSET Grants
  BY <1>2, BindType, PreparedType DEF LeaseInv, TypeOK, Snapshots, PrepareBatch, FreeIn
<1>5. Running /\ attempts' = attempts + 1 /\ attempts \in Nat
  BY ConstantsAssumption DEF PrepareBatch, LeaseInv, TypeOK
<1>6. \A x \in Known : x.lease \notin revoked' => x.res \cap old = {}
  <2>1. g # NoGroup => revoked' = revoked \cup LeasesOn(old)
    BY DEF PrepareBatch
  <2> QED
    BY <2>1, UnrevokedApart
<1>7. \A x \in Known : x.lease \notin revoked' =>
          /\ Holds(mem.res, x) /\ x.exp > now => Holds(Prepared(g), x)
          /\ HoldsReserved(mem.res, x) => HoldsReserved(Prepared(g), x)
  BY <1>3, <1>6, HoldsCleared, HoldsSetTo DEF Prepared
<1>8. \A x \in Known : Holds(Prepared(g), x) \/ HoldsReserved(Prepared(g), x) => x.res \cap A = {}
  <2> SUFFICES ASSUME NEW x \in Known, NEW r \in x.res, r \in A,
                      Holds(Prepared(g), x) \/ HoldsReserved(Prepared(g), x)
               PROVE  FALSE
    OBVIOUS
  <2>1. Prepared(g)[r] = Free
    BY DEF FreeIn
  <2>2. IsLeased(Prepared(g)[r]) \/ IsReserved(Prepared(g)[r])
    BY DEF Holds, HoldsReserved
  <2> QED
    BY <2>1, <2>2, FreeShape
<1>9. \A r \in Resources : r \notin A => res[r] = Prepared(g)[r]
  BY <1>2 DEF Bind
<1>10. \A r \in A : res[r] = Leased(<<attempts + 1, alloc[r]>>, c, alloc[r], g, now + Ttl)
  BY <1>2, <1>3 DEF Bind, LeaseId
<1>11. KeepsPromises(res)
  <2>1. \A x \in Known : x.res \cap A = {} => \A r \in x.res : res[r] = Prepared(g)[r]
    BY <1>3, <1>9 DEF Grants
  <2>2. ASSUME NEW x \in Known, x.lease \notin revoked', x.exp > now, Holds(mem.res, x)
        PROVE  Holds(res, x)
    <3>1. Holds(Prepared(g), x)
      BY <1>7, <2>2
    <3>2. \A r \in x.res : res[r] = Prepared(g)[r]
      BY <1>8, <2>1, <3>1
    <3> QED
      BY <3>1, <3>2 DEF Holds
  <2>3. ASSUME NEW x \in granted, x.lease \notin revoked', HoldsReserved(mem.res, x)
        PROVE  HoldsReserved(res, x)
    <3>1. x \in Known /\ HoldsReserved(Prepared(g), x)
      BY <1>3, <1>7, <2>3
    <3>2. \A r \in x.res : res[r] = Prepared(g)[r]
      BY <1>8, <2>1, <3>1
    <3> QED
      BY <3>1, <3>2 DEF HoldsReserved
  <2> QED
    BY <2>2, <2>3 DEF KeepsPromises
<1>12. GrantsAreNew(res, batch)
  <2>1. \A x \in batch : \E t \in Tasks :
           /\ x.lease = <<attempts + 1, t>> /\ x.task = t /\ x.group = g /\ x.exp = now + Ttl
           /\ x.res = {r \in A : alloc[r] = t}
    BY <1>2 DEF BatchOf, LeaseId
  <2>1a. \A x \in batch : x = [lease |-> x.lease, coord |-> c, task |-> x.task, group |-> g,
                               exp |-> now + Ttl, res |-> x.res]
    BY <1>2 DEF BatchOf
  <2>l. \A t : <<attempts + 1, t>>[2] = t
    OBVIOUS
  <2> HIDE DEF res, batch
  <2>r. \A r \in A : /\ IsLeased(res[r]) /\ res[r].lease = <<attempts + 1, alloc[r]>>
                     /\ res[r].task = alloc[r] /\ res[r].group = g /\ res[r].exp = now + Ttl
    <3> TAKE r \in A
    <3> DEFINE l == <<attempts + 1, alloc[r]>>
    <3>1. res[r] = Leased(l, c, alloc[r], g, now + Ttl)
      BY <1>10
    <3> HIDE DEF l
    <3>2. /\ IsLeased(res[r]) /\ res[r].lease = l
          /\ res[r].task = alloc[r] /\ res[r].group = g /\ res[r].exp = now + Ttl
      BY <3>1, LeasedShape
    <3> QED
      BY <3>2 DEF l
  <2>2. ASSUME NEW x \in batch PROVE Holds(res, x)
    <3>1. PICK t \in Tasks : x.lease = <<attempts + 1, t>> /\ x.res = {r \in A : alloc[r] = t}
      BY <2>1
    <3> QED
      BY <2>r, <3>1 DEF Holds
  <2>3. \A x \in batch : x.lease[1] = attempts + 1 /\ x.lease[1] <= attempts'
    BY <1>5, <2>1
  <2>4. \A x, y \in batch : x.lease = y.lease => x = y
    <3> SUFFICES ASSUME NEW x \in batch, NEW y \in batch, x.lease = y.lease PROVE x = y
      OBVIOUS
    <3>1. PICK t \in Tasks : /\ x.lease = <<attempts + 1, t>> /\ x.task = t
                             /\ x.res = {r \in A : alloc[r] = t}
      BY <2>1
    <3>2. PICK u \in Tasks : /\ y.lease = <<attempts + 1, u>> /\ y.task = u
                             /\ y.res = {r \in A : alloc[r] = u}
      BY <2>1
    <3>3. t = x.lease[2] /\ u = y.lease[2]
      BY Zenon, <2>l, <3>1, <3>2
    <3>4. t = u
      BY <3>3
    <3> QED
      BY <2>1a, <3>1, <3>2, <3>4
  <2>5. \A r \in Resources \ A : IsLeased(res[r]) => res[r] = mem.res[r]
    BY <1>9, FreeShape, ClearedLeases DEF Prepared, SetTo, res
  <2>6. \A r \in A : /\ res[r].lease[1] = attempts + 1 /\ res[r].lease[1] <= attempts'
                     /\ \A x \in batch : x.lease = res[r].lease =>
                          x.exp = res[r].exp /\ x.task = res[r].task /\ x.group = res[r].group
    <3> SUFFICES ASSUME NEW r \in A
                 PROVE  /\ res[r].lease[1] = attempts + 1 /\ res[r].lease[1] <= attempts'
                        /\ \A x \in batch : x.lease = res[r].lease =>
                             x.exp = res[r].exp /\ x.task = res[r].task /\ x.group = res[r].group
      OBVIOUS
    <3>1. res[r].lease[1] = attempts + 1 /\ res[r].lease[1] <= attempts'
      BY <1>5, <2>r
    <3>2. ASSUME NEW x \in batch, x.lease = res[r].lease
          PROVE  x.exp = res[r].exp /\ x.task = res[r].task /\ x.group = res[r].group
      <4>1. PICK t \in Tasks : /\ x.lease = <<attempts + 1, t>> /\ x.task = t /\ x.group = g
                               /\ x.exp = now + Ttl
        BY <2>1
      <4>2. x.lease[2] = t /\ res[r].lease[2] = alloc[r]
        BY <2>r, <2>l, <4>1
      <4> QED
        BY <2>r, <3>2, <4>1, <4>2
    <3> QED
      BY <3>1, <3>2
  <2> QED
    BY <2>2, <2>3, <2>4, <2>5, <2>6 DEF GrantsAreNew
<1>13. AcksAreReserved(res, {})
  BY DEF AcksAreReserved
<1>14. revoked \subseteq revoked' /\ attempts' >= attempts
  BY <1>5 DEF PrepareBatch
<1> HIDE DEF res, batch
<1> QED
  BY <1>t, <1>1, <1>4, <1>5, <1>11, <1>12, <1>13, <1>14, PublishInv DEF res, batch
=============================================================================
