------------------------ MODULE SchedulerTypeProofs -------------------------
(***************************************************************************)
(* Type correctness of the target-side scheduler, the inductive invariant  *)
(* behind its promises, and the queue of awaited writes it speaks of.      *)
(***************************************************************************)
EXTENDS Scheduler, TLAPS

-----------------------------------------------------------------------------
(* Typing of the operators. *)

LEMMA StatesType ==
    /\ Absent \in States /\ Free \in States
    /\ \A l \in LeaseIds, c \in Coordinators, t \in Tasks, g \in GroupIds, e \in Nat :
          Leased(l, c, t, g, e) \in States
    /\ \A t \in Tasks, g \in GroupIds : Reserved(t, g) \in States
BY DEF States, Absent, Free, Leased, Reserved

LEMMA SetToType ==
    ASSUME NEW res \in [Resources -> States], NEW R, NEW s \in States
    PROVE  SetTo(res, R, s) \in [Resources -> States]
BY DEF SetTo

LEMMA ClearExpiredType ==
    ASSUME NEW res \in [Resources -> States]
    PROVE  ClearExpired(res) \in [Resources -> States]
BY SetToType, StatesType DEF ClearExpired

LEMMA PreparedType ==
    ASSUME NEW g, mem.res \in [Resources -> States]
    PROVE  Prepared(g) \in [Resources -> States]
BY SetToType, StatesType, ClearExpiredType DEF Prepared

\* Publication keeps the types when the caller's arguments are well typed.
LEMMA PublishType ==
    ASSUME TypeOK, NEW res \in [Resources -> States], NEW grants \in SUBSET Grants,
           NEW acks \in SUBSET LeaseIds, NEW holds \in SUBSET Holdings,
           Publish(res, grants, acks, holds),
           attempts' \in 0 .. MaxAttempts, revoked' \subseteq LeaseIds
    PROVE  TypeOK'
<1> DEFINE new == [version |-> mem.version + 1, res |-> res]
           w == [new |-> new, prev |-> mem, grants |-> grants, acks |-> acks, holds |-> holds]
<1>1. new \in Snapshots
  BY ConstantsAssumption DEF TypeOK, Snapshots, Publish
<1>2. w \in Writes
  BY <1>1 DEF Writes, TypeOK
<1>3. mem' = new /\ pending' = Append(pending, w)
  BY DEF Publish
<1>4. pending' \in Seq(Writes) /\ Len(pending') <= MaxPending
  BY <1>2, <1>3, ConstantsAssumption DEF TypeOK, Publish
<1> QED
  BY <1>1, <1>3, <1>4 DEF TypeOK, Publish

LEMMA LeasesOnType ==
    ASSUME TypeOK, NEW R
    PROVE  LeasesOn(R) \subseteq LeaseIds
<1>0. \A i \in DOMAIN pending : pending[i] \in Writes
  BY DEF TypeOK
<1>1. Known \subseteq Grants
  BY <1>0 DEF TypeOK, Known, Writes
<1> QED
  BY <1>1 DEF LeasesOn, Grants

LEMMA ReleaseType ==
    ASSUME TypeOK, NEW res \in [Resources -> States], NEW R, Release(res, R)
    PROVE  TypeOK'
<1>1. SetTo(res, R, Free) \in [Resources -> States]
  BY SetToType, StatesType
<1>2. revoked' \subseteq LeaseIds
  BY LeasesOnType DEF Release, TypeOK
<1> QED
  BY <1>1, <1>2, PublishType DEF Release, TypeOK

LEMMA BindType ==
    ASSUME TypeOK, attempts < MaxAttempts, NEW res \in [Resources -> States],
           NEW c \in Coordinators, NEW g \in GroupIds,
           NEW R \in SUBSET Resources, NEW alloc \in Allocations(R)
    PROVE  /\ Bind(res, alloc, c, g) \in [Resources -> States]
           /\ BatchOf(alloc, c, g) \subseteq Grants
           /\ \A t \in Tasks : LeaseId(t) \in LeaseIds
<1>1. PICK A \in SUBSET R : alloc \in [A -> Tasks]
  BY DEF Allocations
<1>2. now + Ttl \in Nat /\ \A t \in Tasks : LeaseId(t) \in LeaseIds
  BY ConstantsAssumption DEF TypeOK, LeaseId, LeaseIds
<1>3. Bind(res, alloc, c, g) \in [Resources -> States]
  BY <1>1, <1>2, StatesType DEF Bind
<1>4. BatchOf(alloc, c, g) \subseteq Grants
  BY <1>1, <1>2 DEF BatchOf, Grants
<1> QED
  BY <1>2, <1>3, <1>4

LEMMA TailType ==
    ASSUME TypeOK, pending # <<>>
    PROVE  /\ Head1 = pending[1] /\ Head1 \in Writes
           /\ Tail(pending) \in Seq(Writes) /\ Len(Tail(pending)) = Len(pending) - 1
           /\ Len(pending) \in Nat \ {0} /\ Len(Tail(pending)) <= MaxPending
           /\ \A i \in 1 .. Len(Tail(pending)) : Tail(pending)[i] = pending[i + 1]
<1>1. pending \in Seq(Writes) /\ Len(pending) <= MaxPending /\ MaxPending \in Nat
  BY ConstantsAssumption DEF TypeOK
<1>2. Len(pending) \in Nat /\ Len(pending) # 0
  BY <1>1
<1>3. Head1 = pending[1]
  BY <1>1 DEF Head1
<1>4. pending[1] \in Writes
  BY <1>1, <1>2
<1>5. Tail(pending) \in Seq(Writes) /\ Len(Tail(pending)) = Len(pending) - 1
  BY <1>1
<1>6. \A i \in 1 .. Len(Tail(pending)) : Tail(pending)[i] = pending[i + 1]
  BY <1>1, <1>2, <1>5
<1> QED
  BY <1>1, <1>2, <1>3, <1>4, <1>5, <1>6

-----------------------------------------------------------------------------
(* Type correctness. *)

LEMMA InitType == Init => TypeOK
<1> SUFFICES ASSUME Init PROVE TypeOK
  OBVIOUS
<1>1. NoSnapshot \in Snapshots
  BY StatesType, ConstantsAssumption DEF NoSnapshot, Snapshots
<1> QED
  BY <1>1, ConstantsAssumption DEF Init, TypeOK

LEMMA PrepareType ==
    ASSUME TypeOK, NEW c \in Coordinators, NEW g \in GroupIds, PrepareBatch(c, g)
    PROVE  TypeOK'
<1>1. PICK alloc \in Allocations(FreeIn(Prepared(g))) :
        Publish(Bind(Prepared(g), alloc, c, g), BatchOf(alloc, c, g), {}, {})
  BY DEF PrepareBatch
<1>2. /\ Bind(Prepared(g), alloc, c, g) \in [Resources -> States]
      /\ BatchOf(alloc, c, g) \subseteq Grants
  <2>1. Prepared(g) \in [Resources -> States] /\ FreeIn(Prepared(g)) \in SUBSET Resources
    BY PreparedType DEF TypeOK, Snapshots, FreeIn
  <2> QED
    BY <2>1, BindType DEF PrepareBatch
<1>3. attempts' \in 0 .. MaxAttempts
  BY ConstantsAssumption DEF PrepareBatch, TypeOK
<1>4. revoked' \subseteq LeaseIds
  BY LeasesOnType DEF PrepareBatch, TypeOK
<1> QED
  BY <1>1, <1>2, <1>3, <1>4, PublishType

LEMMA NextType == TypeOK /\ [Next]_vars => TypeOK'
<1> SUFFICES ASSUME TypeOK, [Next]_vars PROVE TypeOK'
  OBVIOUS
<1>m. mem.res \in [Resources -> States]
  BY DEF TypeOK, Snapshots
<1>g. Groups \subseteq GroupIds
  BY DEF GroupIds
<1>w. \A i \in DOMAIN pending : pending[i] \in Writes
  BY DEF TypeOK
<1>1. ASSUME NEW found \in BOOLEAN, InitResources(found) PROVE TypeOK'
  <2>1. mem' \in Snapshots
    BY <1>1, <1>m, SetToType, StatesType, ConstantsAssumption DEF InitResources, Snapshots
  <2> QED
    BY Zenon, <1>1, <2>1 DEF InitResources, TypeOK
<1>2. CASE PopulateGpuDevices
  <2>1. mem' \in Snapshots
    BY <1>2, <1>m, SetToType, StatesType, ConstantsAssumption
    DEF PopulateGpuDevices, Snapshots, TypeOK
  <2> QED
    BY Zenon, <1>2, <2>1 DEF PopulateGpuDevices, TypeOK
<1>3. CASE KeepSnapshot
  BY Zenon, <1>3 DEF KeepSnapshot, TypeOK
<1>4. ASSUME NEW c \in Coordinators, NEW g \in GroupIds, PrepareLeases(c, g) PROVE TypeOK'
  BY <1>4, PrepareType DEF PrepareLeases
<1>5. ASSUME NEW g \in Groups, PrepareExactGroup(g) PROVE TypeOK'
  BY <1>5, <1>g, PrepareType, ConstantsAssumption DEF PrepareExactGroup
<1>6. ASSUME NEW x \in granted, CommitLease(x) PROVE TypeOK'
  <2>1. x \in Grants
    BY DEF TypeOK
  <2>2. SetTo(mem.res, LeaseRes(mem.res, x.lease), Reserved(x.task, NoGroup))
          \in [Resources -> States]
    BY <1>m, <2>1, SetToType, StatesType DEF Grants, GroupIds
  <2>3. /\ {x.lease} \subseteq LeaseIds
        /\ {[task |-> x.task, res |-> LeaseRes(mem.res, x.lease)]} \subseteq Holdings
    BY <2>1 DEF Grants, Holdings, LeaseRes
  <2> QED
    BY <1>6, <2>2, <2>3, PublishType DEF CommitLease, TypeOK
<1>7. ASSUME NEW c \in Coordinators, NEW g \in Groups, NEW P \in SUBSET granted,
             CommitLeaseGroup(c, g, P)
      PROVE  TypeOK'
  <2> DEFINE R == GroupRes(mem.res, g)
             res == [r \in Resources |-> IF r \in R THEN Reserved(mem.res[r].task, g)
                                                   ELSE mem.res[r]]
  <2>1. P \subseteq Grants
    BY DEF TypeOK
  <2>2. \A r \in R : mem.res[r].task \in Tasks
    BY <1>m DEF GroupRes, IsLeased, States, Absent, Free
  <2>3. res \in [Resources -> States]
    BY <1>m, <1>g, <2>2, StatesType
  <2>4. /\ {x.lease : x \in P} \subseteq LeaseIds
        /\ {[task |-> x.task, res |-> x.res] : x \in P} \subseteq Holdings
    BY <2>1 DEF Grants, Holdings
  <2> QED
    BY Zenon, <1>7, <2>3, <2>4, PublishType DEF CommitLeaseGroup, TypeOK
<1>8. ASSUME NEW c \in Coordinators, NEW I \in SUBSET granted, AbortLeases(c, I) PROVE TypeOK'
  BY <1>8, <1>m, ReleaseType DEF AbortLeases
<1>9. ASSUME NEW c \in Coordinators, NEW g \in Groups, AbortLeaseGroup(c, g) PROVE TypeOK'
  BY <1>9, <1>m, ReleaseType DEF AbortLeaseGroup
<1>10. CASE ReapExpiredLeases
  <2>1. ClearExpired(mem.res) \in [Resources -> States]
    BY <1>m, ClearExpiredType
  <2>2. attempts' \in 0 .. MaxAttempts /\ revoked' \subseteq LeaseIds
    BY <1>10 DEF ReapExpiredLeases, TypeOK
  <2>3. Publish(ClearExpired(mem.res), {}, {}, {})
    BY <1>10 DEF ReapExpiredLeases
  <2> QED
    BY <2>1, <2>2, <2>3, PublishType
<1>11. CASE Observe
  BY <1>11 DEF Observe, TypeOK
<1>12. ASSUME NEW R \in SUBSET Resources, NEW alloc \in [R -> Tasks], NEW g \in GroupIds,
              ReserveResources(R, alloc, g)
       PROVE  TypeOK'
  <2> DEFINE res == [r \in Resources |-> IF r \in R THEN Reserved(alloc[r], g)
                                                     ELSE ClearExpired(mem.res)[r]]
             holds == {[task |-> t, res |-> {r \in R : alloc[r] = t}] :
                          t \in {alloc[r] : r \in R}}
  <2>1. res \in [Resources -> States]
    BY <1>m, ClearExpiredType, StatesType
  <2>2. holds \subseteq Holdings
    BY DEF Holdings
  <2> QED
    BY Zenon, <1>12, <2>1, <2>2, PublishType DEF ReserveResources, TypeOK
<1>13. ASSUME NEW R \in SUBSET Resources, FreeResources(R) PROVE TypeOK'
  BY <1>13, <1>m, ClearExpiredType, ReleaseType DEF FreeResources
<1>14. CASE PersistOk
  <2>1. Head1 \in Writes /\ Tail(pending) \in Seq(Writes) /\ Len(Tail(pending)) <= MaxPending
    BY <1>14, TailType DEF PersistOk
  <2> QED
    BY <1>14, <2>1 DEF PersistOk, TypeOK, Writes
<1>15. CASE PersistFail
  <2>1. Head1 \in Writes /\ Tail(pending) \in Seq(Writes) /\ Len(Tail(pending)) <= MaxPending
    BY <1>15, TailType DEF PersistFail
  <2> QED
    BY <1>15, <2>1, ConstantsAssumption DEF PersistFail, TypeOK, Writes
<1>16. CASE Tick
  BY <1>16, ConstantsAssumption DEF Tick, TypeOK
<1>17. CASE Restart
  <2>1. NoSnapshot \in Snapshots
    BY StatesType, ConstantsAssumption DEF NoSnapshot, Snapshots
  <2> QED
    BY <1>17, <2>1, ConstantsAssumption DEF Restart, TypeOK
<1>18. CASE UNCHANGED vars
  BY <1>18 DEF vars, TypeOK
<1> QED
  BY <1>1, <1>2, <1>3, <1>4, <1>5, <1>6, <1>7, <1>8, <1>9, <1>10, <1>11, <1>12, <1>13, <1>14,
     <1>15, <1>16, <1>17, <1>18 DEF Next, Boot, LeaseStep, ManagerStep

\* Every reachable state of the scheduler is well typed, whatever the node's resources, tasks and
\* coordinators and however many operations are in flight.
THEOREM TypeCorrect == Spec => []TypeOK
BY InitType, NextType, PTL DEF Spec

-----------------------------------------------------------------------------
(* The inductive invariant.                                                 *)
(*                                                                          *)
(* LeaseHonoured speaks of memory and of the durable row.  Between the two  *)
(* lie the snapshots whose write is awaited: any of them may become the     *)
(* durable row, and the predecessor of the newest may be swapped back into  *)
(* memory.  So the promise made for a lease is carried by every snapshot    *)
(* published since the one that made it: After(k) are the snapshots that    *)
(* can come back once entry k of the queue has been written.                *)

After(k) ==
    {pending[j].new : j \in {i \in DOMAIN pending : i >= k}}
    \cup {pending[j].prev : j \in {i \in DOMAIN pending : i > k}}

AllSnapshots == {mem, durable} \cup After(0)

\* The queue is the history of what was published: versions rise along it, and its end is memory.
QueueInv ==
    /\ booting => pending = <<>> /\ mem = durable
    /\ pending # <<>> => mem = pending[Len(pending)].new
    /\ pending = <<>> => mem.version >= durable.version
    /\ \A i \in DOMAIN pending :
          /\ pending[i].prev.version < pending[i].new.version
          /\ durable.version <= pending[i].prev.version
    /\ \A i, j \in DOMAIN pending : i < j => pending[i].new.version <= pending[j].prev.version

\* A lease id belongs to one grant, and the ids handed out so far are below the counter.
IdsInv ==
    /\ \A x, y \in Known : x.lease = y.lease => x = y
    /\ \A x \in Known : x.lease[1] <= attempts
    /\ \A s \in AllSnapshots, r \in Resources :
          IsLeased(s.res[r]) => s.res[r].lease[1] <= attempts

\* Acknowledged commits, and those about to be, are of granted leases.
AcksInv ==
    /\ acked \subseteq {x.lease : x \in granted}
    /\ \A i \in DOMAIN pending : pending[i].acks \subseteq {x.lease : x \in granted}

\* A leased resource carries the task, group and expiry of the lease's grant.
RecordInv ==
    \A s \in AllSnapshots, r \in Resources : IsLeased(s.res[r]) =>
        \A x \in Known : x.lease = s.res[r].lease =>
            x.exp = s.res[r].exp /\ x.task = s.res[r].task /\ x.group = s.res[r].group

\* What was promised for a returned lease or commit holds wherever the process may look next.
GrantedInv ==
    \A x \in granted : x.lease \notin revoked =>
        \A s \in AllSnapshots :
            /\ x.exp > now => Holds(s.res, x)
            /\ x.lease \in acked => HoldsReserved(s.res, x)

\* What is about to be promised holds in every snapshot from the awaited one on.
AwaitedInv ==
    \A i \in DOMAIN pending : \A s \in After(i) :
        /\ \A x \in pending[i].grants :
              x.lease \notin revoked /\ x.exp > now => Holds(s.res, x)
        /\ \A x \in granted :
              x.lease \notin revoked /\ x.lease \in pending[i].acks => HoldsReserved(s.res, x)

LeaseInv == TypeOK /\ QueueInv /\ IdsInv /\ AcksInv /\ RecordInv /\ GrantedInv /\ AwaitedInv

-----------------------------------------------------------------------------
(* How the set of reachable snapshots changes. *)

LEMMA PendingType ==
    ASSUME TypeOK
    PROVE  /\ \A i \in DOMAIN pending : pending[i] \in Writes
           /\ Known \subseteq Grants
           /\ AllSnapshots \subseteq Snapshots
           /\ Len(pending) \in Nat /\ DOMAIN pending = 1 .. Len(pending)
<1>1. \A i \in DOMAIN pending : pending[i] \in Writes
  BY DEF TypeOK
<1>2. Len(pending) \in Nat /\ DOMAIN pending = 1 .. Len(pending)
  BY DEF TypeOK
<1>3. Known \subseteq Grants
  BY <1>1 DEF TypeOK, Known, Writes
<1>4. After(0) \subseteq Snapshots
  BY <1>1 DEF After, Writes
<1>5. mem \in Snapshots /\ durable \in Snapshots
  BY DEF TypeOK
<1> QED
  BY <1>1, <1>2, <1>3, <1>4, <1>5 DEF AllSnapshots

LEMMA CountersType ==
    ASSUME LeaseInv
    PROVE  attempts \in Nat /\ now \in Nat
  BY ConstantsAssumption DEF LeaseInv, TypeOK

LEMMA VersionType ==
    ASSUME TypeOK
    PROVE  /\ mem.version \in Nat /\ durable.version \in Nat
           /\ \A i \in DOMAIN pending :
                 pending[i].new.version \in Nat /\ pending[i].prev.version \in Nat
<1>1. \A s \in Snapshots : s.version \in Nat
  BY ConstantsAssumption DEF Snapshots
<1>2. \A w \in Writes : w.new \in Snapshots /\ w.prev \in Snapshots
  BY DEF Writes
<1> QED
  BY <1>1, <1>2, PendingType DEF TypeOK

LEMMA AfterPublish ==
    ASSUME TypeOK, QueueInv, NEW res, NEW grants, NEW acks, NEW holds,
           Publish(res, grants, acks, holds)
    PROVE  /\ DOMAIN pending' = 1 .. Len(pending) + 1
           /\ \A i \in DOMAIN pending : pending'[i] = pending[i] /\ mem \in After(i)
           /\ pending'[Len(pending) + 1] =
                [new |-> mem', prev |-> mem, grants |-> grants, acks |-> acks, holds |-> holds]
           /\ \A i \in DOMAIN pending : After(i)' \subseteq After(i) \cup {mem'}
           /\ \A k \in Nat : k = Len(pending) + 1 => After(k)' = {mem'}
           /\ AllSnapshots' \subseteq AllSnapshots \cup {mem'}
           /\ Known' = Known \cup grants
<1> DEFINE n == Len(pending)
           w == [new |-> mem', prev |-> mem, grants |-> grants, acks |-> acks, holds |-> holds]
<1>1. n \in Nat /\ DOMAIN pending = 1 .. n /\ pending \in Seq(Writes)
  BY PendingType DEF TypeOK
<1>2. pending' = Append(pending, w)
  BY DEF Publish
<1>3. /\ DOMAIN pending' = 1 .. n + 1 /\ pending'[n + 1] = w
      /\ \A i \in 1 .. n : pending'[i] = pending[i]
  BY <1>1, <1>2
<1>4. \A i \in 1 .. n : mem \in After(i)
  BY <1>1 DEF QueueInv, After
<1> HIDE DEF w
<1>w. w.new = mem' /\ w.prev = mem /\ w.grants = grants
  BY DEF w
<1>5. \A i \in 0 .. n : After(i)' \subseteq After(i) \cup {mem, mem'}
  BY <1>1, <1>3, <1>w DEF After
<1>6. \A k \in Nat : k = n + 1 => After(k)' = {mem'}
  BY <1>1, <1>3, <1>w DEF After
<1>7. AllSnapshots' \subseteq AllSnapshots \cup {mem'}
  BY <1>5, <1>1 DEF AllSnapshots, Publish
<1>8. Known' = Known \cup grants
  <2>1. granted' = granted
    BY DEF Publish
  <2>2. \A x : x \in Known' <=> x \in granted \/ \E i \in 1 .. n + 1 : x \in pending'[i].grants
    BY <1>3, <2>1 DEF Known
  <2>3. \A x : x \in Known <=> x \in granted \/ \E i \in 1 .. n : x \in pending[i].grants
    BY <1>1 DEF Known
  <2>4. \A x : x \in Known' <=> x \in Known \/ x \in grants
    BY <1>1, <1>3, <1>w, <2>2, <2>3
  <2> QED
    BY <2>4
<1> QED
  BY <1>1, <1>3, <1>4, <1>5, <1>6, <1>7, <1>8 DEF w

\* Taking the head off the queue, whether its write succeeded or failed.
LEMMA AfterTail ==
    ASSUME TypeOK, QueueInv, pending # <<>>, pending' = Tail(pending)
    PROVE  /\ DOMAIN pending' = 1 .. Len(pending) - 1
           /\ \A i \in DOMAIN pending' : pending'[i] = pending[i + 1] /\ i + 1 \in DOMAIN pending
           /\ \A i \in Nat : After(i)' \subseteq After(i + 1)
           /\ After(1) \subseteq After(0)
           /\ mem \in After(1) /\ Head1.new \in After(1) /\ Head1.prev \in After(0)
           /\ Head1 = pending[1] /\ 1 \in DOMAIN pending
<1>1. /\ Len(pending) \in Nat \ {0} /\ DOMAIN pending = 1 .. Len(pending)
      /\ Head1 = pending[1]
  BY TailType, PendingType
<1>2. /\ DOMAIN pending' = 1 .. Len(pending) - 1
      /\ \A i \in 1 .. Len(pending) - 1 : pending'[i] = pending[i + 1]
  <2>1. Tail(pending) \in Seq(Writes) /\ Len(Tail(pending)) = Len(pending) - 1
    BY TailType
  <2> QED
    BY <2>1, TailType
<1>3. \A i \in Nat : After(i)' \subseteq After(i + 1)
  BY <1>1, <1>2 DEF After
<1>4. mem \in After(1)
  BY <1>1 DEF QueueInv, After
<1> QED
  BY <1>1, <1>2, <1>3, <1>4 DEF After
=============================================================================
