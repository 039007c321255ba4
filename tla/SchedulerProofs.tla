-------------------------- MODULE SchedulerProofs ---------------------------
(***************************************************************************)
(* The promises of the target-side scheduler: a lease returned to a        *)
(* coordinator is honoured, no two are in conflict, versions rise.         *)
(***************************************************************************)
EXTENDS SchedulerLeaseProofs

-----------------------------------------------------------------------------
(* Commits turn leases into reservations.                                   *)

LEMMA CommitLeaseInv ==
    ASSUME LeaseInv, TypeOK', NEW x \in granted, CommitLease(x)
    PROVE  LeaseInv'
<1> DEFINE R == LeaseRes(mem.res, x.lease)
           res == SetTo(mem.res, R, Reserved(x.task, NoGroup))
<1>1. /\ Running /\ R = x.res /\ attempts' = attempts /\ revoked' = revoked
      /\ Publish(res, {}, {x.lease}, {[task |-> x.task, res |-> R]})
  BY DEF CommitLease
<1>2. granted \subseteq Known /\ Known \subseteq Grants
  BY PendingType DEF LeaseInv, Known
<1>3. \A y \in Known : y.lease = x.lease => y = x
  BY <1>2 DEF LeaseInv, IdsInv
<1>4. \A r \in Resources : r \in R => IsLeased(mem.res[r]) /\ mem.res[r].lease = x.lease
  BY DEF LeaseRes
<1>5. \A r \in Resources : res[r] = IF r \in R THEN Reserved(x.task, NoGroup) ELSE mem.res[r]
  BY DEF SetTo
<1>6. \A y \in Known : y.res \subseteq Resources
  BY <1>2 DEF Grants
<1> HIDE DEF R, res
<1>7. KeepsPromises(res)
  <2>1. ASSUME NEW y \in Known, Holds(mem.res, y) PROVE Holds(res, y)
    <3>1. \A r \in y.res \cap R : y = x
      BY <1>3, <1>4, <1>6, <2>1, ShapesApart DEF Holds
    <3>2. \A r \in y.res \cap R : IsReserved(res[r]) /\ res[r].task = y.task
      BY <1>5, <1>6, <3>1, ReservedShape
    <3> QED
      BY <1>5, <1>6, <2>1, <3>2 DEF Holds
  <2>2. ASSUME NEW y \in granted, HoldsReserved(mem.res, y) PROVE HoldsReserved(res, y)
    <3>1. \A r \in y.res : r \in Resources /\ ~IsLeased(mem.res[r])
      BY <1>2, <1>6, <2>2, ShapesApart DEF HoldsReserved
    <3>2. \A r \in y.res : res[r] = mem.res[r]
      BY <1>4, <1>5, <3>1
    <3> QED
      BY <2>2, <3>2 DEF HoldsReserved
  <2> QED
    BY <2>1, <2>2 DEF KeepsPromises
<1>8. GrantsAreNew(res, {})
  <2>1. \A r \in Resources : IsLeased(res[r]) => res[r] = mem.res[r]
    BY <1>5, ReservedShape
  <2> QED
    BY <2>1 DEF GrantsAreNew
<1>9. AcksAreReserved(res, {x.lease})
  <2>1. \A r \in x.res : res[r] = Reserved(x.task, NoGroup)
    BY <1>1, <1>2, <1>5, <1>6
  <2>2. HoldsReserved(res, x)
    BY <2>1, ReservedShape DEF HoldsReserved
  <2>3. \A y \in granted : y.lease \in {x.lease} => y = x
    BY <1>2, <1>3
  <2> QED
    BY <2>2, <2>3 DEF AcksAreReserved
<1>10. attempts' >= attempts
  BY <1>1, CountersType
<1> QED
  BY <1>1, <1>7, <1>8, <1>9, <1>10, PublishInv

LEMMA CommitGroupInv ==
    ASSUME LeaseInv, TypeOK', NEW c \in Coordinators, NEW g \in Groups,
           NEW P \in SUBSET granted, CommitLeaseGroup(c, g, P)
    PROVE  LeaseInv'
<1> DEFINE R == GroupRes(mem.res, g)
           res == [r \in Resources |-> IF r \in R THEN Reserved(mem.res[r].task, g)
                                                 ELSE mem.res[r]]
           acks == {x.lease : x \in P}
<1>1. /\ Running /\ attempts' = attempts /\ revoked' = revoked
      /\ Publish(res, {}, acks, {[task |-> x.task, res |-> x.res] : x \in P})
  BY DEF CommitLeaseGroup
<1>l. /\ {mem.res[r].lease : r \in R} = acks
      /\ \A x \in P : LeaseRes(mem.res, x.lease) = x.res
  BY DEF CommitLeaseGroup
<1>k. \A x \in P : \A r \in x.res : mem.res[r].task = x.task
  BY DEF CommitLeaseGroup
<1>2. granted \subseteq Known /\ Known \subseteq Grants /\ \A y \in Known : y.res \subseteq Resources
  BY PendingType DEF LeaseInv, Known, Grants
<1>3. \A x, y \in Known : y.lease = x.lease => y = x
  BY DEF LeaseInv, IdsInv
<1>4. \A r \in R : r \in Resources /\ IsLeased(mem.res[r]) /\ mem.res[r].group = g
  BY DEF GroupRes
<1>5. \A r \in Resources : res[r] = IF r \in R THEN Reserved(mem.res[r].task, g) ELSE mem.res[r]
  OBVIOUS
<1>6. \A r \in Resources : IsLeased(mem.res[r]) => \A x \in Known : x.lease = mem.res[r].lease =>
        x.task = mem.res[r].task /\ x.group = mem.res[r].group
  BY DEF LeaseInv, RecordInv, AllSnapshots
<1>7. \A x \in P : x.res \subseteq R
  <2> SUFFICES ASSUME NEW x \in P, NEW r \in x.res PROVE r \in R
    OBVIOUS
  <2>1. r \in Resources /\ IsLeased(mem.res[r]) /\ mem.res[r].lease = x.lease
    BY <1>2, <1>l DEF LeaseRes
  <2>2. PICK q \in R : mem.res[q].lease = x.lease
    BY <1>l
  <2>3. x.group = g /\ x.group = mem.res[r].group
    BY <1>2, <1>4, <1>6, <2>1, <2>2
  <2> QED
    BY <2>1, <2>3 DEF GroupRes
<1> HIDE DEF R, res
<1>8. KeepsPromises(res)
  <2>1. ASSUME NEW y \in Known, Holds(mem.res, y), NEW r \in y.res
        PROVE  \/ IsLeased(res[r]) /\ res[r].lease = y.lease
               \/ IsReserved(res[r]) /\ res[r].task = y.task
    <3>1. r \in Resources /\ \/ IsLeased(mem.res[r]) /\ mem.res[r].lease = y.lease
                             \/ IsReserved(mem.res[r]) /\ mem.res[r].task = y.task
      BY <1>2, <2>1 DEF Holds
    <3>2. CASE r \in R
      <4>1. mem.res[r].task = y.task
        BY <1>4, <1>6, <3>1, <3>2, ShapesApart
      <4>2. res[r] = Reserved(y.task, g)
        BY <1>5, <3>1, <3>2, <4>1
      <4> QED
        BY <4>2, ReservedShape
    <3>3. CASE r \notin R
      BY <1>5, <3>1, <3>3
    <3> QED
      BY <3>2, <3>3
  <2>2. ASSUME NEW y \in granted, HoldsReserved(mem.res, y) PROVE HoldsReserved(res, y)
    <3>1. \A r \in y.res : r \in Resources /\ ~IsLeased(mem.res[r])
      BY <1>2, <2>2, ShapesApart DEF HoldsReserved
    <3>2. \A r \in y.res : res[r] = mem.res[r]
      BY <1>4, <1>5, <3>1
    <3> QED
      BY <2>2, <3>2 DEF HoldsReserved
  <2> QED
    BY <2>1, <2>2 DEF KeepsPromises, Holds
<1>9. GrantsAreNew(res, {})
  <2>1. \A r \in Resources : IsLeased(res[r]) => res[r] = mem.res[r]
    BY <1>5, ReservedShape
  <2> QED
    BY <2>1 DEF GrantsAreNew
<1>10. AcksAreReserved(res, acks)
  <2>1. \A x \in granted : x.lease \in acks => x \in P
    BY <1>2, <1>3
  <2>2. ASSUME NEW x \in P, NEW r \in x.res PROVE IsReserved(res[r]) /\ res[r].task = x.task
    <3>1. res[r] = Reserved(mem.res[r].task, g)
      BY <1>2, <1>5, <1>7
    <3> QED
      BY <1>k, <3>1, ReservedShape
  <2> QED
    BY <2>1, <2>2 DEF AcksAreReserved, HoldsReserved
<1>11. attempts' >= attempts
  BY <1>1, CountersType
<1> QED
  BY <1>1, <1>8, <1>9, <1>10, <1>11, PublishInv

-----------------------------------------------------------------------------
(* The end of an awaited write, the clock, restarts and bootstrap. *)

\* A step that makes no new snapshot reachable and promises nothing more.
LEMMA NoNewPromise ==
    ASSUME LeaseInv, TypeOK', QueueInv', AwaitedInv', AllSnapshots' \subseteq AllSnapshots,
           Known' \subseteq Known, granted' = granted, acked' = acked, revoked' = revoked,
           attempts' = attempts, now' \in Nat, now' >= now,
           \A i \in DOMAIN pending' : \E j \in DOMAIN pending : pending'[i].acks = pending[j].acks
    PROVE  LeaseInv'
<1>t. TypeOK /\ IdsInv /\ AcksInv /\ RecordInv /\ GrantedInv /\ now \in Nat
  BY ConstantsAssumption DEF LeaseInv, TypeOK
<1>1. IdsInv'
  BY <1>t DEF IdsInv
<1>2. AcksInv'
  BY <1>t DEF AcksInv
<1>3. RecordInv'
  BY <1>t DEF RecordInv
<1>4. GrantedInv'
  <2>1. \A x \in granted : x.exp > now' => x.exp > now
    BY SMTT(30), <1>t DEF TypeOK, Grants
  <2> QED
    BY <1>t, <2>1 DEF GrantedInv, Holds, HoldsReserved
<1> QED
  BY <1>1, <1>2, <1>3, <1>4 DEF LeaseInv

LEMMA PersistQueue ==
    ASSUME LeaseInv, pending # <<>>, pending' = Tail(pending), booting' = booting,
           \/ mem' = mem /\ durable' = Head1.new
           \/ mem' = (IF mem = Head1.new THEN Head1.prev ELSE mem) /\ durable' = durable
    PROVE  /\ QueueInv' /\ AllSnapshots' \subseteq AllSnapshots
           /\ durable' # durable => durable'.version > durable.version
           /\ mem' = mem => AllSnapshots' \subseteq {mem, durable'} \cup After(1)
           /\ durable' # durable => mem' = mem /\ durable' \in After(1)
           /\ mem \in After(1)
<1> DEFINE n == Len(pending)
<1>t. TypeOK /\ QueueInv
  BY DEF LeaseInv
<1>a. /\ n \in Nat \ {0} /\ DOMAIN pending = 1 .. n /\ DOMAIN pending' = 1 .. n - 1
      /\ \A i \in 1 .. n - 1 : pending'[i] = pending[i + 1]
      /\ Len(pending') = n - 1 /\ Head1 = pending[1] /\ (pending' = <<>> => n = 1)
  <2>1. /\ n \in Nat \ {0} /\ Head1 = pending[1] /\ pending' \in Seq(Writes)
        /\ Len(pending') = n - 1
    BY <1>t, TailType
  <2>2. /\ DOMAIN pending' = 1 .. n - 1
        /\ \A i \in 1 .. n - 1 : pending'[i] = pending[i + 1]
    BY <1>t, <2>1, TailType
  <2>3. DOMAIN pending = 1 .. n
    BY <1>t, PendingType
  <2>4. pending' = <<>> => n = 1
    <3>1. Len(<<>>) = 0
      OBVIOUS
    <3>2. pending' = <<>> => n - 1 = 0
      BY Zenon, <2>1, <3>1
    <3> QED
      BY <2>1, <3>2
  <2> QED
    BY <2>1, <2>2, <2>3, <2>4
<1>f. /\ After(0)' \subseteq After(1) /\ After(1) \subseteq After(0)
      /\ mem \in After(1) /\ Head1.new \in After(1) /\ Head1.prev \in After(0)
  BY <1>t, AfterTail
<1>v. /\ mem.version \in Nat /\ durable.version \in Nat
      /\ \A i \in 1 .. n : pending[i].new.version \in Nat /\ pending[i].prev.version \in Nat
  BY <1>t, <1>a, VersionType
<1>q. /\ mem = pending[n].new /\ ~booting
      /\ \A i \in 1 .. n : /\ pending[i].prev.version < pending[i].new.version
                           /\ durable.version <= pending[i].prev.version
      /\ \A i, j \in 1 .. n : i < j => pending[i].new.version <= pending[j].prev.version
  BY <1>t, <1>a DEF QueueInv
<1>1. n > 1 => mem # Head1.new
  <2>1. n > 1 => /\ pending[1].new.version <= pending[n].prev.version
                 /\ pending[n].prev.version < pending[n].new.version
    BY <1>a, <1>q
  <2> QED
    BY <1>a, <1>q, <1>v, <2>1
<1>2. n > 1 => mem' = mem
  BY <1>1
<1>3. \A i \in 1 .. n : durable'.version <= pending[i].prev.version \/ i = 1
  <2>1. \A i \in 1 .. n : i > 1 => pending[1].new.version <= pending[i].prev.version
    BY <1>a, <1>q
  <2> QED
    BY <1>a, <1>q, <2>1
<1>4. QueueInv'
  <2>1. n > 1 => mem' = pending'[n - 1].new
    BY <1>a, <1>q, <1>2
  <2>2. n = 1 => mem'.version >= durable'.version
    BY <1>a, <1>q, <1>v
  <2>3. \A i \in 1 .. n - 1 : /\ pending'[i].prev.version < pending'[i].new.version
                              /\ durable'.version <= pending'[i].prev.version
    BY <1>a, <1>q, <1>3
  <2>4. \A i, j \in 1 .. n - 1 : i < j => pending'[i].new.version <= pending'[j].prev.version
    BY <1>a, <1>q
  <2>5. pending' # <<>> => n > 1
    BY <1>a
  <2> QED
    BY <1>a, <1>q, <2>1, <2>2, <2>3, <2>4, <2>5 DEF QueueInv
<1>5. AllSnapshots' \subseteq AllSnapshots
  BY <1>f DEF AllSnapshots
<1>6. durable' # durable => durable'.version > durable.version
  BY <1>a, <1>q, <1>v
<1>7. mem' = mem => AllSnapshots' \subseteq {mem, durable'} \cup After(1)
  BY <1>f DEF AllSnapshots
<1> QED
  BY <1>4, <1>5, <1>6, <1>7, <1>f

LEMMA PersistOkInv ==
    ASSUME LeaseInv, TypeOK', PersistOk
    PROVE  LeaseInv'
<1>t. TypeOK /\ QueueInv /\ IdsInv /\ AcksInv /\ RecordInv /\ GrantedInv /\ AwaitedInv
  BY DEF LeaseInv
<1>d. /\ pending # <<>> /\ pending' = Tail(pending) /\ booting' = booting /\ mem' = mem
      /\ durable' = Head1.new /\ granted' = granted \cup Head1.grants
      /\ acked' = acked \cup Head1.acks /\ now' = now /\ attempts' = attempts /\ revoked' = revoked
  BY DEF PersistOk
<1>q. QueueInv' /\ AllSnapshots' \subseteq AllSnapshots
  BY <1>d, PersistQueue
<1>a. /\ \A i \in DOMAIN pending' : pending'[i] = pending[i + 1] /\ i + 1 \in DOMAIN pending
      /\ \A i \in Nat : After(i)' \subseteq After(i + 1)
      /\ DOMAIN pending' \subseteq Nat /\ Head1 = pending[1] /\ 1 \in DOMAIN pending
      /\ mem \in After(1) /\ Head1.new \in After(1)
  BY <1>t, <1>d, AfterTail
<1>s. AllSnapshots' \subseteq After(1)
  <2>1. After(0)' \subseteq After(1)
    BY <1>a
  <2> QED
    BY <1>a, <1>d, <2>1 DEF AllSnapshots
<1>k. Known' \subseteq Known /\ granted \subseteq granted' /\ pending[1].grants \subseteq Known
  BY <1>a, <1>d DEF Known
<1>1. IdsInv'
  BY <1>t, <1>d, <1>q, <1>k DEF IdsInv
<1>2. AcksInv'
  BY <1>t, <1>a, <1>d, <1>k DEF AcksInv
<1>3. RecordInv'
  BY <1>t, <1>q, <1>k DEF RecordInv
<1>u. \A x \in granted' : x.lease \in {y.lease : y \in granted} => x \in granted
  BY <1>t, <1>a, <1>d, <1>k DEF IdsInv, Known
<1>4. GrantedInv'
  <2> SUFFICES ASSUME NEW x \in granted', x.lease \notin revoked, NEW s \in AllSnapshots'
               PROVE  /\ x.exp > now => Holds(s.res, x)
                      /\ x.lease \in acked' => HoldsReserved(s.res, x)
    BY <1>d DEF GrantedInv, Holds, HoldsReserved
  <2>1. x.exp > now => Holds(s.res, x)
    BY <1>t, <1>a, <1>d, <1>q, <1>s DEF GrantedInv, AwaitedInv
  <2>2. x.lease \in acked' => x \in granted
    BY <1>t, <1>a, <1>d, <1>u DEF AcksInv
  <2>3. x.lease \in acked' => HoldsReserved(s.res, x)
    BY <1>t, <1>a, <1>d, <1>q, <1>s, <2>2 DEF GrantedInv, AwaitedInv
  <2> QED
    BY <2>1, <2>3
<1>5. AwaitedInv'
  <2> SUFFICES ASSUME NEW i \in DOMAIN pending', NEW s \in After(i)'
               PROVE  /\ \A x \in pending'[i].grants :
                           x.lease \notin revoked /\ x.exp > now => Holds(s.res, x)
                      /\ \A x \in granted' : x.lease \notin revoked /\ x.lease \in pending'[i].acks
                           => HoldsReserved(s.res, x)
    BY <1>d DEF AwaitedInv, Holds, HoldsReserved
  <2>1. pending'[i] = pending[i + 1] /\ i + 1 \in DOMAIN pending /\ s \in After(i + 1)
    BY <1>a
  <2>2. \A x \in granted' : x.lease \in pending'[i].acks => x \in granted
    BY <1>t, <1>u, <2>1 DEF AcksInv
  <2> QED
    BY <1>t, <2>1, <2>2 DEF AwaitedInv
<1> QED
  BY <1>q, <1>1, <1>2, <1>3, <1>4, <1>5 DEF LeaseInv

LEMMA PersistFailInv ==
    ASSUME LeaseInv, TypeOK', PersistFail
    PROVE  LeaseInv'
<1>t. TypeOK /\ QueueInv /\ AwaitedInv
  BY DEF LeaseInv
<1>d. /\ pending # <<>> /\ pending' = Tail(pending) /\ booting' = booting
      /\ mem' = (IF mem = Head1.new THEN Head1.prev ELSE mem)
      /\ durable' = durable /\ granted' = granted /\ acked' = acked /\ now' = now
      /\ attempts' = attempts /\ revoked' = revoked
  BY DEF PersistFail
<1>q. QueueInv' /\ AllSnapshots' \subseteq AllSnapshots
  BY <1>d, PersistQueue
<1>a. /\ \A i \in DOMAIN pending' : pending'[i] = pending[i + 1] /\ i + 1 \in DOMAIN pending
      /\ \A i \in Nat : After(i)' \subseteq After(i + 1)
      /\ DOMAIN pending' \subseteq Nat
  BY <1>t, <1>d, AfterTail
<1>1. AwaitedInv'
  BY <1>t, <1>a, <1>d DEF AwaitedInv, Holds, HoldsReserved
<1>2. Known' \subseteq Known
  BY <1>a, <1>d DEF Known
<1>3. now' \in Nat /\ now' >= now
  BY <1>t, <1>d, ConstantsAssumption DEF TypeOK
<1> QED
  BY <1>a, <1>d, <1>q, <1>1, <1>2, <1>3, NoNewPromise

LEMMA RestartInv ==
    ASSUME LeaseInv, TypeOK', Restart
    PROVE  LeaseInv'
<1>d. /\ mem' = durable /\ pending' = <<>> /\ booting' = TRUE /\ durable' = durable
      /\ now' = now /\ attempts' = attempts /\ granted' = granted /\ acked' = acked
      /\ revoked' = revoked
  BY DEF Restart
<1>1. DOMAIN pending' = {}
  BY <1>d
<1>2. AllSnapshots' \subseteq AllSnapshots /\ Known' \subseteq Known
  BY <1>d, <1>1 DEF AllSnapshots, After, Known
<1>3. QueueInv' /\ AwaitedInv'
  BY <1>d, <1>1, VersionType DEF QueueInv, AwaitedInv, LeaseInv
<1>4. now' \in Nat /\ now' >= now
  BY <1>d, ConstantsAssumption DEF LeaseInv, TypeOK
<1> QED
  BY <1>d, <1>1, <1>2, <1>3, <1>4, NoNewPromise

\* Observe, Tick and KeepSnapshot leave the snapshots and the queue alone.
LEMMA IdleInv ==
    ASSUME LeaseInv, TypeOK',
           UNCHANGED <<mem, durable, pending, attempts, granted, acked, revoked>>,
           now' >= now, booting' => booting
    PROVE  LeaseInv'
<1>1. AllSnapshots' = AllSnapshots /\ Known' = Known /\ \A i \in DOMAIN pending : After(i)' = After(i)
  BY DEF AllSnapshots, After, Known
<1>2. QueueInv'
  BY DEF LeaseInv, QueueInv
<1>3. now \in Nat /\ now' \in Nat
  BY ConstantsAssumption DEF LeaseInv, TypeOK
<1>4. AwaitedInv'
  <2>1. \A x \in Known : x.exp > now' => x.exp > now
    BY <1>3, PendingType DEF LeaseInv, Grants
  <2>2. \A i \in DOMAIN pending : pending[i].grants \subseteq Known
    BY DEF Known
  <2> QED
    BY <1>1, <2>1, <2>2 DEF LeaseInv, AwaitedInv, Holds, HoldsReserved
<1> QED
  BY <1>1, <1>2, <1>3, <1>4, NoNewPromise

\* Bootstrap turns only absent resources into free ones, and no promise is about those.
LEMMA BootInv ==
    ASSUME LeaseInv, TypeOK', booting, durable' = mem', booting' = FALSE, pending' = pending,
           UNCHANGED <<now, attempts, granted, acked, revoked>>,
           \A r \in Resources : mem'.res[r] = mem.res[r]
                                 \/ (mem.res[r] = Absent /\ mem'.res[r] = Free)
    PROVE  LeaseInv'
<1>t. TypeOK /\ QueueInv /\ IdsInv /\ AcksInv /\ RecordInv /\ GrantedInv
  BY DEF LeaseInv
<1>1. pending = <<>> /\ DOMAIN pending' = {}
  BY <1>t DEF QueueInv
<1>2. AllSnapshots' = {mem'} /\ Known' = Known /\ mem \in AllSnapshots
  BY <1>1 DEF AllSnapshots, After, Known
<1>3. QueueInv' /\ AwaitedInv' /\ AcksInv'
  <2>1. mem'.version \in Nat
    BY ConstantsAssumption DEF TypeOK, Snapshots
  <2> QED
    BY <1>t, <1>1, <2>1 DEF QueueInv, AwaitedInv, AcksInv
<1>4. \A r \in Resources : IsLeased(mem'.res[r]) => mem'.res[r] = mem.res[r]
  BY FreeShape
<1>5. IdsInv' /\ RecordInv'
  BY <1>t, <1>2, <1>4 DEF IdsInv, RecordInv
<1>6. GrantedInv'
  <2>1. \A x \in granted : x.res \subseteq Resources
    BY <1>t DEF TypeOK, Grants
  <2>2. \A r \in Resources : IsLeased(mem.res[r]) \/ IsReserved(mem.res[r]) =>
            mem'.res[r] = mem.res[r]
    BY FreeShape
  <2>3. \A x \in granted : /\ Holds(mem.res, x) => Holds(mem'.res, x)
                           /\ HoldsReserved(mem.res, x) => HoldsReserved(mem'.res, x)
    BY <2>1, <2>2 DEF Holds, HoldsReserved
  <2> QED
    BY <1>t, <1>2, <2>3 DEF GrantedInv
<1> QED
  BY <1>3, <1>5, <1>6 DEF LeaseInv

-----------------------------------------------------------------------------
LEMMA InitInv == Init => LeaseInv
<1> SUFFICES ASSUME Init PROVE LeaseInv
  OBVIOUS
<1>1. TypeOK
  BY InitType
<1>2. DOMAIN pending = {} /\ Known = {} /\ AllSnapshots = {NoSnapshot}
  BY DEF Init, Known, AllSnapshots, After
<1>3. QueueInv /\ AcksInv /\ GrantedInv /\ AwaitedInv /\ RecordInv
  BY <1>2 DEF Init, QueueInv, AcksInv, GrantedInv, AwaitedInv, RecordInv, NoSnapshot
<1>4. IdsInv
  BY <1>2, FreeShape DEF IdsInv, NoSnapshot
<1> QED
  BY <1>1, <1>3, <1>4 DEF LeaseInv

LEMMA NextInv == LeaseInv /\ [Next]_vars => LeaseInv'
<1> SUFFICES ASSUME LeaseInv, [Next]_vars PROVE LeaseInv'
  OBVIOUS
<1>t. TypeOK /\ TypeOK'
  BY NextType DEF LeaseInv
<1>n. now \in Nat
  BY <1>t, ConstantsAssumption DEF TypeOK
<1>m. mem.res \in [Resources -> States]
  BY <1>t DEF TypeOK, Snapshots
<1>1. ASSUME NEW found \in BOOLEAN, InitResources(found) PROVE LeaseInv'
  <2>1. \A r \in Resources : mem'.res[r] = mem.res[r]
                              \/ (mem.res[r] = Absent /\ mem'.res[r] = Free)
    BY <1>1 DEF InitResources, NoSnapshot, SetTo
  <2> QED
    BY Zenon, <1>t, <1>1, <2>1, BootInv DEF InitResources
<1>2. CASE PopulateGpuDevices
  <2>1. \A r \in Resources : mem'.res[r] = mem.res[r]
                              \/ (mem.res[r] = Absent /\ mem'.res[r] = Free)
    BY <1>2 DEF PopulateGpuDevices, SetTo
  <2> QED
    BY Zenon, <1>t, <1>2, <2>1, BootInv DEF PopulateGpuDevices
<1>3. CASE KeepSnapshot
  BY <1>t, <1>n, <1>3, IdleInv DEF KeepSnapshot
<1>4. ASSUME NEW c \in Coordinators, NEW g \in GroupIds, PrepareLeases(c, g) PROVE LeaseInv'
  BY <1>4, PrepareInv DEF PrepareLeases
<1>5. ASSUME NEW g \in Groups, PrepareExactGroup(g) PROVE LeaseInv'
  BY <1>5, PrepareInv, ConstantsAssumption DEF PrepareExactGroup, GroupIds
<1>6. ASSUME NEW x \in granted, CommitLease(x) PROVE LeaseInv'
  BY <1>t, <1>6, CommitLeaseInv
<1>7. ASSUME NEW c \in Coordinators, NEW g \in Groups, NEW P \in SUBSET granted,
             CommitLeaseGroup(c, g, P)
      PROVE  LeaseInv'
  BY <1>t, <1>7, CommitGroupInv
<1>8. ASSUME NEW c \in Coordinators, NEW I \in SUBSET granted, AbortLeases(c, I) PROVE LeaseInv'
  BY <1>t, <1>8, ReleaseInv DEF AbortLeases
<1>9. ASSUME NEW c \in Coordinators, NEW g \in Groups, AbortLeaseGroup(c, g) PROVE LeaseInv'
  BY <1>t, <1>9, ReleaseInv DEF AbortLeaseGroup
<1>10. CASE ReapExpiredLeases
  <2>1. /\ Running /\ Publish(ClearExpired(mem.res), {}, {}, {})
        /\ attempts' = attempts /\ revoked' = revoked /\ attempts' >= attempts
    BY <1>t, <1>10 DEF ReapExpiredLeases, TypeOK
  <2>2. granted \subseteq Known
    BY DEF Known
  <2>3. KeepsPromises(ClearExpired(mem.res))
    BY <2>2, HoldsCleared DEF KeepsPromises
  <2>4. GrantsAreNew(ClearExpired(mem.res), {}) /\ AcksAreReserved(ClearExpired(mem.res), {})
    BY ClearedLeases DEF GrantsAreNew, AcksAreReserved
  <2> QED
    BY <1>t, <2>1, <2>3, <2>4, PublishInv
<1>11. CASE Observe
  BY <1>t, <1>n, <1>11, IdleInv DEF Observe
<1>12. ASSUME NEW R \in SUBSET Resources, NEW alloc \in [R -> Tasks], NEW g \in GroupIds,
              ReserveResources(R, alloc, g)
       PROVE  LeaseInv'
  BY <1>t, <1>12, ReserveInv
<1>13. ASSUME NEW R \in SUBSET Resources, FreeResources(R) PROVE LeaseInv'
  BY <1>t, <1>13, ReleaseInv DEF FreeResources
<1>14. CASE PersistOk
  BY <1>t, <1>14, PersistOkInv
<1>15. CASE PersistFail
  BY <1>t, <1>15, PersistFailInv
<1>16. CASE Tick
  BY <1>t, <1>n, <1>16, IdleInv DEF Tick
<1>17. CASE Restart
  BY <1>t, <1>17, RestartInv
<1>18. CASE UNCHANGED vars
  BY <1>t, <1>n, <1>18, IdleInv DEF vars
<1> QED
  BY <1>1, <1>2, <1>3, <1>4, <1>5, <1>6, <1>7, <1>8, <1>9, <1>10, <1>11, <1>12, <1>13, <1>14,
     <1>15, <1>16, <1>17, <1>18 DEF Next, Boot, LeaseStep, ManagerStep

\* A lease or commit that was returned to its coordinator is honoured in memory and in the durable
\* row until it expires or is given up, whatever other operations, failed writes and restarts
\* happen, for any number of slots, GPUs, tasks, coordinators and awaited writes.
THEOREM LeasesAreHonoured == Spec => []LeaseHonoured
<1>1. LeaseInv => LeaseHonoured
  BY DEF LeaseInv, GrantedInv, LeaseHonoured, AllSnapshots
<1> QED
  BY InitInv, NextInv, <1>1, PTL DEF Spec

LEMMA InvNoConflict == ASSUME LeaseInv PROVE NoConflictingGrant
<1> SUFFICES ASSUME NEW x \in granted, NEW y \in granted, Live(x), Live(y),
                    x.res \cap y.res # {}
             PROVE  x.task = y.task
  BY DEF NoConflictingGrant
<1>1. PICK r : r \in x.res /\ r \in y.res
  OBVIOUS
<1>2. /\ Holds(mem.res, x) \/ HoldsReserved(mem.res, x)
      /\ Holds(mem.res, y) \/ HoldsReserved(mem.res, y)
  BY DEF LeaseInv, GrantedInv, AllSnapshots, Live
<1>3. x.lease = y.lease => x = y
  BY DEF LeaseInv, IdsInv, Known
<1>4. /\ \/ IsLeased(mem.res[r]) /\ mem.res[r].lease = x.lease
         \/ IsReserved(mem.res[r]) /\ mem.res[r].task = x.task
      /\ \/ IsLeased(mem.res[r]) /\ mem.res[r].lease = y.lease
         \/ IsReserved(mem.res[r]) /\ mem.res[r].task = y.task
  BY <1>1, <1>2 DEF Holds, HoldsReserved
<1> QED
  BY <1>3, <1>4, ShapesApart

\* Two tasks never both have a live lease or an acknowledged reservation on one slot or GPU.
THEOREM NoConflictingGrants == Spec => []NoConflictingGrant
  BY InitInv, NextInv, InvNoConflict, PTL DEF Spec

\* The version of the durable row rises with every change of it after the first write.
THEOREM DurableVersionsRise == Spec => DurableVersionsIncrease
<1>1. ASSUME LeaseInv, [Next]_vars
      PROVE  [durable' # durable => durable'.version > durable.version \/ durable = NoSnapshot]_vars
  <2> SUFFICES ASSUME Next, durable' # durable
               PROVE  durable'.version > durable.version \/ durable = NoSnapshot
    BY <1>1
  <2>q. TypeOK /\ (booting => mem = durable)
    BY <1>1 DEF LeaseInv, QueueInv
  <2>1. CASE \E found \in BOOLEAN : InitResources(found)
    BY <2>1, <2>q DEF InitResources
  <2>2. CASE PopulateGpuDevices
    BY <2>2, <2>q, VersionType DEF PopulateGpuDevices
  <2>3. CASE PersistOk
    <3>1. pending # <<>> /\ pending' = Tail(pending) /\ booting' = booting /\ mem' = mem
          /\ durable' = Head1.new
      BY <2>3 DEF PersistOk
    <3> QED
      BY <1>1, <3>1, PersistQueue
  <2>4. CASE KeepSnapshot \/ LeaseStep \/ ManagerStep \/ PersistFail \/ Tick \/ Restart
    <3>1. \A res, grants, acks, holds : Publish(res, grants, acks, holds) => durable' = durable
      BY DEF Publish
    <3>2. \A res, R : Release(res, R) => durable' = durable
      BY <3>1 DEF Release
    <3>3. LeaseStep => durable' = durable
      BY Zenon, <3>1, <3>2 DEF LeaseStep, PrepareLeases, PrepareExactGroup, PrepareBatch, CommitLease,
         CommitLeaseGroup, AbortLeases, AbortLeaseGroup, ReapExpiredLeases
    <3>4. ManagerStep => durable' = durable
      BY Zenon, <3>1, <3>2 DEF ManagerStep, Observe, ReserveResources, FreeResources
    <3> QED
      BY <2>4, <3>3, <3>4 DEF KeepSnapshot, PersistFail, Tick, Restart
  <2> QED
    BY <2>1, <2>2, <2>3, <2>4 DEF Next, Boot
<1> QED
  BY InitInv, NextInv, <1>1, PTL DEF Spec, DurableVersionsIncrease
=============================================================================
