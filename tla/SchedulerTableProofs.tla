------------------------ MODULE SchedulerTableProofs ------------------------
(***************************************************************************)
(* The scheduler seen from outside: that it implements the lease table,    *)
(* that memory, the queue of awaited writes and the durable row agree, and *)
(* what the version a local caller passes says of the snapshot it has read.*)
(***************************************************************************)
EXTENDS SchedulerTable, SchedulerProofs

-----------------------------------------------------------------------------
(* Only the end of a write that succeeded is an answer; every other step    *)
(* stutters, gives leases up or advances the clock.                         *)

LEMMA InvExclusive == LeaseInv => Table!Exclusive
<1> SUFFICES ASSUME LeaseInv PROVE Table!Exclusive
  OBVIOUS
<1>1. \A x, y \in granted : x.lease = y.lease => x = y
  BY DEF LeaseInv, IdsInv, Known
<1> QED
  BY <1>1, InvNoConflict DEF Table!Exclusive, Table!Binding, NoConflictingGrant, Live

\* The end of a successful write answers the callers that awaited it.
LEMMA AnswerStep == ASSUME LeaseInv, LeaseInv', PersistOk PROVE Table!Answer
<1>1. Table!Exclusive'
  BY InvExclusive, PTL
<1>2. granted' = granted \cup Head1.grants /\ acked' = acked \cup Head1.acks
      /\ revoked' = revoked /\ now' = now /\ pending # <<>>
  BY DEF PersistOk
<1>3. granted' \subseteq Grants
  BY DEF LeaseInv, TypeOK
<1>4. acked' \subseteq {x.lease : x \in granted}
  <2>1. 1 \in DOMAIN pending /\ Head1 = pending[1]
    BY <1>2 DEF LeaseInv, TypeOK, Head1
  <2> QED
    BY <1>2, <2>1 DEF LeaseInv, AcksInv
<1> QED
  BY <1>1, <1>2, <1>3, <1>4 DEF Table!Answer

\* A publication is not visible: what it will promise is only awaited.
LEMMA HiddenStep ==
    /\ \A res, grants, acks, holds :
          Publish(res, grants, acks, holds) => UNCHANGED <<granted, acked, now>>
    /\ \A res, R : Release(res, R) => UNCHANGED <<granted, acked, now>> /\ revoked \subseteq revoked'
  BY DEF Publish, Release

LEMMA TableStep == ASSUME LeaseInv, LeaseInv', Next PROVE [Table!Next]_Table!table
<1>1. CASE Boot
  BY <1>1 DEF Boot, InitResources, PopulateGpuDevices, KeepSnapshot, Table!table
<1>2. CASE LeaseStep
  <2>1. UNCHANGED <<granted, acked, now>> /\ revoked \subseteq revoked'
    BY Zenon, <1>2, HiddenStep DEF LeaseStep, PrepareLeases, PrepareExactGroup, PrepareBatch,
       CommitLease, CommitLeaseGroup, AbortLeases, AbortLeaseGroup, ReapExpiredLeases
  <2> QED
    BY <2>1 DEF Table!Next, Table!GiveUp
<1>3. CASE ManagerStep
  <2>1. UNCHANGED <<granted, acked, now>> /\ revoked \subseteq revoked'
    BY Zenon, <1>3, HiddenStep DEF ManagerStep, Observe, ReserveResources, FreeResources
  <2> QED
    BY <2>1 DEF Table!Next, Table!GiveUp
<1>4. CASE PersistOk
  BY <1>4, AnswerStep DEF Table!Next
<1>5. CASE Tick
  BY <1>5, CountersType DEF Tick, Table!Next, Table!Advance
<1>6. CASE PersistFail \/ Restart
  BY <1>6 DEF PersistFail, Restart, Table!table
<1> QED
  BY <1>1, <1>2, <1>3, <1>4, <1>5, <1>6 DEF Next

\* The scheduler implements the lease table for every number of slots, GPUs,
\* tasks, coordinators and awaited writes: its snapshots, store and restarts
\* are invisible to a coordinator.
THEOREM SchedulerImplementsTable == Spec => ImplementsTable
<1>1. Init => Table!Init
  BY DEF Init, Table!Init
<1>2. LeaseInv /\ LeaseInv' /\ [Next]_vars => [Table!Next]_Table!table
  <2>1. UNCHANGED vars => UNCHANGED Table!table
    BY DEF vars, Table!table
  <2> QED
    BY <2>1, TableStep
<1> QED
  BY <1>1, <1>2, InitInv, NextInv, PTL DEF Spec, ImplementsTable, Table!Spec

-----------------------------------------------------------------------------
(* Until a write has failed the queue leads from the durable row to memory; *)
(* the one failure that QuiescentAgreement allows either rolls memory back  *)
(* to that row or leaves a later write to replace it.                       *)

StoreInv ==
    /\ pending = <<>> /\ fails <= 1 => mem = durable
    /\ pending # <<>> /\ fails = 0 => pending[1].prev = durable
    /\ fails = 0 => \A i, j \in DOMAIN pending : j = i + 1 => pending[j].prev = pending[i].new

LEMMA PublishStore ==
    ASSUME LeaseInv, StoreInv, NEW res, NEW grants, NEW acks, NEW holds,
           Publish(res, grants, acks, holds)
    PROVE  StoreInv'
<1> DEFINE n == Len(pending)
           new == [version |-> mem.version + 1, res |-> res]
           w == [new |-> new, prev |-> mem, grants |-> grants, acks |-> acks, holds |-> holds]
<1>1. /\ pending' = Append(pending, w) /\ mem' = new /\ durable' = durable /\ fails' = fails
      /\ w.prev = mem /\ w.new = new
  BY DEF Publish
<1> HIDE DEF w, new
<1>2. n \in Nat /\ DOMAIN pending = 1 .. n
  BY PendingType DEF LeaseInv
<1>3. PICK W : pending \in Seq(W)
  BY DEF LeaseInv, TypeOK
<1>4. /\ pending' # <<>> /\ DOMAIN pending' = 1 .. n + 1 /\ pending'[n + 1] = w
      /\ \A i \in 1 .. n : pending'[i] = pending[i]
  <2>1. pending \in Seq(W \cup {w})
    BY <1>2, <1>3
  <2> QED
    BY <1>1, <1>2, <2>1
<1>5. fails \in Nat
  BY ConstantsAssumption DEF LeaseInv, TypeOK
<1>6. fails = 0 => pending'[1].prev = durable
  <2>1. CASE n = 0
    <3>1. pending = <<>>
      BY <1>2, <1>3, <2>1
    <3> QED
      BY <1>1, <1>4, <2>1, <3>1 DEF StoreInv
  <2>2. CASE n # 0
    BY <1>2, <1>4, <2>2 DEF StoreInv
  <2> QED
    BY <2>1, <2>2
<1>7. fails = 0 => \A i, j \in 1 .. n + 1 : j = i + 1 => pending'[j].prev = pending'[i].new
  <2> SUFFICES ASSUME fails = 0, NEW i \in 1 .. n, i + 1 \in 1 .. n + 1
               PROVE  pending'[i + 1].prev = pending'[i].new
    BY <1>2
  <2>1. CASE i = n
    <3>1. pending # <<>> /\ mem = pending[n].new
      BY <1>2, <2>1 DEF LeaseInv, QueueInv
    <3> QED
      BY <1>1, <1>4, <2>1, <3>1
  <2>2. CASE i # n
    <3>1. i \in Nat /\ n \in Nat /\ i >= 1 /\ i <= n /\ i # n
      <4>1. n \in Nat
        BY <1>2
      <4>2. i # n
        BY <2>2
      <4>3. i \in Nat /\ i >= 1 /\ i <= n
        BY <4>1
      <4> QED
       BY <4>1, <4>2, <4>3
    <3>2. i + 1 \in 1 .. n
      BY Z3, <3>1
    <3>3. pending[i + 1].prev = pending[i].new
      BY <1>2, <3>2 DEF StoreInv
    <3> QED
      BY <1>4, <3>3, <3>2
  <2> QED
    BY <2>1, <2>2
<1> QED
  BY <1>1, <1>4, <1>6, <1>7 DEF StoreInv

LEMMA PersistStore ==
    ASSUME LeaseInv, StoreInv, PersistOk \/ PersistFail
    PROVE  StoreInv'
<1> DEFINE n == Len(pending)
<1>1. /\ pending # <<>> /\ pending' = Tail(pending)
      /\ \/ mem' = mem /\ durable' = Head1.new /\ fails' = fails
         \/ /\ mem' = (IF mem = Head1.new THEN Head1.prev ELSE mem)
            /\ durable' = durable /\ fails' = fails + 1
  BY DEF PersistOk, PersistFail
<1>2. /\ n \in Nat \ {0} /\ Head1 = pending[1] /\ DOMAIN pending' = 1 .. n - 1
      /\ Len(pending') = n - 1 /\ \A i \in 1 .. n - 1 : pending'[i] = pending[i + 1]
  BY <1>1, TailType DEF LeaseInv
<1>3. DOMAIN pending = 1 .. n /\ fails \in Nat
  BY PendingType, ConstantsAssumption DEF LeaseInv, TypeOK
<1>4. mem = pending[n].new
  BY <1>1 DEF LeaseInv, QueueInv
<1>5. pending' = <<>> => n = 1
  <2>1. Len(<<>>) = 0
    OBVIOUS
  <2>2. pending' = <<>> => n - 1 = 0
    BY Zenon, <1>2, <2>1
  <2> QED
    BY <1>2, <2>2
<1>6. pending' = <<>> /\ fails' <= 1 => mem' = durable'
  BY <1>1, <1>2, <1>3, <1>4, <1>5 DEF StoreInv
<1>7. pending' # <<>> /\ fails' = 0 => pending'[1].prev = durable'
  <2> SUFFICES ASSUME pending' # <<>>, fails' = 0 PROVE pending'[1].prev = durable'
    OBVIOUS
  <2>1. durable' = pending[1].new /\ fails = 0
    BY <1>1, <1>2, <1>3
  <2>2. n > 1
    <3>1. pending' \in Seq(Writes)
      BY <1>1, TailType DEF LeaseInv
    <3>2. n # 1
      BY <1>2, <3>1
    <3> QED
      BY <1>2, <3>2
  <2>3. pending[2].prev = pending[1].new
    BY <1>2, <1>3, <2>1, <2>2 DEF StoreInv
  <2> QED
    BY <1>2, <2>1, <2>2, <2>3
<1>8. fails' = 0 => \A i, j \in DOMAIN pending' : j = i + 1 => pending'[j].prev = pending'[i].new
  <2> SUFFICES ASSUME fails' = 0, NEW i \in 1 .. n - 1, i + 1 \in 1 .. n - 1
               PROVE  pending'[i + 1].prev = pending'[i].new
    BY <1>2
  <2>1. fails = 0
    BY <1>1, <1>3
  <2>2. pending[i + 2].prev = pending[i + 1].new
    BY <1>2, <1>3, <2>1 DEF StoreInv
  <2> QED
    BY <1>2, <2>2
<1> QED
  BY <1>6, <1>7, <1>8 DEF StoreInv

LEMMA NextStore == ASSUME LeaseInv, StoreInv, [Next]_vars PROVE StoreInv'
<1>1. CASE Boot
  <2>1. booting /\ pending = <<>> /\ mem = durable
    BY <1>1 DEF Boot, InitResources, PopulateGpuDevices, KeepSnapshot, LeaseInv, QueueInv
  <2> QED
    BY <1>1, <2>1 DEF Boot, InitResources, PopulateGpuDevices, KeepSnapshot, StoreInv
<1>2. CASE LeaseStep
  <2>1. \E res, grants, acks, holds : Publish(res, grants, acks, holds)
    BY Zenon, <1>2 DEF LeaseStep, PrepareLeases, PrepareExactGroup, PrepareBatch, CommitLease,
       CommitLeaseGroup, AbortLeases, AbortLeaseGroup, ReapExpiredLeases, Release
  <2> QED
    BY <2>1, PublishStore
<1>3. CASE ManagerStep
  <2>1. Observe \/ \E res, grants, acks, holds : Publish(res, grants, acks, holds)
    BY Zenon, <1>3 DEF ManagerStep, ReserveResources, FreeResources, Release
  <2> QED
    BY <2>1, PublishStore DEF Observe, StoreInv
<1>4. CASE PersistOk \/ PersistFail
  BY <1>4, PersistStore
<1>5. CASE Tick
  BY <1>5 DEF Tick, StoreInv
<1>6. CASE Restart
  BY <1>6 DEF Restart, StoreInv
<1>7. CASE UNCHANGED vars
  BY <1>7 DEF vars, StoreInv
<1> QED
  BY <1>1, <1>2, <1>3, <1>4, <1>5, <1>6, <1>7 DEF Next

\* With no write awaited and at most one failed, memory is the durable row,
\* for every number of awaited writes and through restarts.
THEOREM MemoryAgrees == Spec => []QuiescentAgreement
<1>1. Init => StoreInv
  BY DEF Init, StoreInv
<1>2. LeaseInv /\ StoreInv /\ [Next]_vars => StoreInv'
  BY NextStore
<1>3. StoreInv => QuiescentAgreement
  BY DEF StoreInv, QuiescentAgreement
<1> QED
  BY InitInv, NextInv, <1>1, <1>2, <1>3, PTL DEF Spec

-----------------------------------------------------------------------------
(* A process that has lost no write only ever raises the version of the      *)
(* snapshot it publishes, and forgets what it read when it restarts.         *)

ObservedInv ==
    /\ booting => obs = NoSnapshot
    /\ fails = 0 /\ obs # NoSnapshot => obs = mem \/ obs.version < mem.version

LEMMA PublishObserved ==
    ASSUME LeaseInv, ObservedInv, Running, NEW res, NEW grants, NEW acks, NEW holds,
           Publish(res, grants, acks, holds)
    PROVE  ObservedInv'
<1>1. /\ mem'.version = mem.version + 1 /\ obs' = obs /\ fails' = fails /\ booting' = booting
  BY DEF Publish
<1>2. mem.version \in Nat /\ obs.version \in Nat
  BY ConstantsAssumption DEF LeaseInv, TypeOK, Snapshots
<1> QED
  BY <1>1, <1>2 DEF ObservedInv, Running

LEMMA NextObserved == ASSUME LeaseInv, ObservedInv, [Next]_vars PROVE ObservedInv'
<1>1. CASE Boot
  BY <1>1 DEF Boot, InitResources, PopulateGpuDevices, KeepSnapshot, ObservedInv
<1>2. CASE LeaseStep
  <2>1. Running /\ \E res, grants, acks, holds : Publish(res, grants, acks, holds)
    BY Zenon, <1>2 DEF LeaseStep, PrepareLeases, PrepareExactGroup, PrepareBatch, CommitLease,
       CommitLeaseGroup, AbortLeases, AbortLeaseGroup, ReapExpiredLeases, Release
  <2> QED
    BY <2>1, PublishObserved
<1>3. CASE ManagerStep
  <2>1. Observe \/ (Running /\ \E res, grants, acks, holds : Publish(res, grants, acks, holds))
    BY Zenon, <1>3 DEF ManagerStep, ReserveResources, FreeResources, Release
  <2> QED
    BY <2>1, PublishObserved DEF Observe, Running, ObservedInv
<1>4. CASE PersistOk
  BY <1>4 DEF PersistOk, ObservedInv
<1>5. CASE PersistFail
  BY <1>5, ConstantsAssumption DEF PersistFail, ObservedInv, LeaseInv, TypeOK
<1>6. CASE Tick
  BY <1>6 DEF Tick, ObservedInv
<1>7. CASE Restart
  BY <1>7 DEF Restart, ObservedInv
<1>8. CASE UNCHANGED vars
  BY <1>8 DEF vars, ObservedInv
<1> QED
  BY <1>1, <1>2, <1>3, <1>4, <1>5, <1>6, <1>7, <1>8 DEF Next

\* While no write has failed, the version a local caller passes stands for the
\* very snapshot it has read, however many others published in between.
THEOREM VersionIdentifies == Spec => []VersionNamesSnapshot
<1>1. Init => ObservedInv
  BY DEF Init, ObservedInv
<1>2. LeaseInv /\ ObservedInv /\ [Next]_vars => ObservedInv'
  BY NextObserved
<1>3. LeaseInv /\ ObservedInv => VersionNamesSnapshot
  <2> SUFFICES ASSUME LeaseInv, ObservedInv, ExpectedVersion, fails = 0 PROVE obs = mem
    BY DEF VersionNamesSnapshot
  <2>1. mem.version \in Nat
    BY VersionType DEF LeaseInv
  <2> QED
    BY <2>1 DEF ObservedInv, ExpectedVersion
<1> QED
  BY InitInv, NextInv, <1>1, <1>2, <1>3, PTL DEF Spec
=============================================================================
