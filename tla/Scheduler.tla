----------------------------- MODULE Scheduler -----------------------------
(***************************************************************************)
(* The target-side scheduler of one node: slots and GPU devices that are   *)
(* free, leased to a coordinator for a short time, or reserved for a task. *)
(*                                                                         *)
(* Every mutating operation of src/src/scheduler has the same shape: read  *)
(* the snapshot, validate, build the next snapshot, publish it in memory   *)
(* with a compare-and-swap, then await the durable write.  The operation   *)
(* returns Ok only after the write; when the write fails it swaps the old  *)
(* snapshot back if nobody has published on top of it.  One action here is *)
(* one operation up to that await; PersistOk and PersistFail are the end   *)
(* of the await.  Between the two other operations run, and the process    *)
(* may crash and reload the durable snapshot.                              *)
(*                                                                         *)
(* Operations that return an error leave the snapshot as it is and are     *)
(* stuttering steps.                                                       *)
(***************************************************************************)
EXTENDS Integers, Sequences, FiniteSets

CONSTANTS
    Slots,          \* slot ids of the node
    Gpus,           \* GPU device ids of the node
    Tasks,          \* workload ids
    Coordinators,   \* nodes that prepare leases here
    Self,           \* this node, a coordinator of its own local batches
    Groups,         \* admission group ids
    NoGroup,        \* the group of a lease or reservation outside any group
    Ttl,            \* lifetime of a prepared lease, in clock ticks
    MaxTime,        \* bound: the clock stops here
    MaxAttempts,    \* bound: number of prepare batches
    MaxVersion,     \* bound, and the code's checked_add on the version
    MaxPending,     \* bound: operations awaiting the store at one time
    MaxCrashes,     \* bound: process restarts
    MaxStoreFails   \* bound: failed durable writes

ASSUME ConstantsAssumption ==
    /\ Self \in Coordinators
    /\ NoGroup \notin Groups
    /\ Slots \cap Gpus = {}
    /\ Ttl \in Nat /\ MaxTime \in Nat /\ MaxAttempts \in Nat /\ MaxVersion \in Nat
    /\ MaxPending \in Nat /\ MaxCrashes \in Nat /\ MaxStoreFails \in Nat

VARIABLES
    mem,        \* the published snapshot (ArcSwapOption<SchedulerState>)
    durable,    \* the snapshot row in the store
    pending,    \* published snapshots whose durable write is awaited, oldest first
    booting,    \* the process has started and initialize_with_node has not run
    now,        \* current_unix_ms
    attempts,   \* number of prepare batches so far: makes lease ids fresh
    granted,    \* leases whose prepare returned Ok to the coordinator
    acked,      \* lease ids whose commit returned Ok
    revoked,    \* history: lease ids some caller explicitly gave up
    obs,        \* the snapshot a local caller has last read
    crashes,    \* restarts so far
    fails       \* failed writes so far

vars == <<mem, durable, pending, booting, now, attempts, granted, acked, revoked,
          obs, crashes, fails>>

Resources == Slots \cup Gpus

-----------------------------------------------------------------------------
(* Snapshots.  A resource that the snapshot does not list is absent: every  *)
(* resource before init_resources, the GPUs before they are discovered.     *)

Absent == [st |-> "absent"]
Free == [st |-> "free"]
Leased(l, c, t, g, e) ==
    [st |-> "leased", lease |-> l, coord |-> c, task |-> t, group |-> g, exp |-> e]
Reserved(t, g) == [st |-> "reserved", task |-> t, group |-> g]

LeaseIds == (1 .. MaxAttempts) \X Tasks
GroupIds == Groups \cup {NoGroup}
States == {Absent, Free}
    \cup [st: {"leased"}, lease: LeaseIds, coord: Coordinators, task: Tasks,
          group: GroupIds, exp: Nat]
    \cup [st: {"reserved"}, task: Tasks, group: GroupIds]
Snapshots == [version: 0 .. MaxVersion, res: [Resources -> States]]

IsLeased(s) == s.st = "leased"
IsReserved(s) == s.st = "reserved"

\* What a coordinator knows of one prepared lease (PreparedTaskLease).
Grants == [lease: LeaseIds, coord: Coordinators, task: Tasks, group: GroupIds,
           exp: Nat, res: SUBSET Resources]
Holdings == [task: Tasks, res: SUBSET Resources]
Writes == [new: Snapshots, prev: Snapshots, grants: SUBSET Grants,
           acks: SUBSET LeaseIds, holds: SUBSET Holdings]

NoSnapshot == [version |-> 0, res |-> [r \in Resources |-> Absent]]

\* Mutant: the conflict check overlooks leases.
FreeInUnchecked(res) == {r \in Resources : res[r] # Absent /\ ~ IsReserved(res[r])}
FreeIn(res) == {r \in Resources : res[r] = Free}
LeaseRes(res, l) == {r \in Resources : IsLeased(res[r]) /\ res[r].lease = l}
GroupRes(res, g) == {r \in Resources : IsLeased(res[r]) /\ res[r].group = g}
\* Mutants: the expiry comparison is off by one, either way.
ExpiredResEarly(res) == {r \in Resources : IsLeased(res[r]) /\ res[r].exp <= now + 1}
ExpiredResLate(res) == {r \in Resources : IsLeased(res[r]) /\ res[r].exp < now}
ExpiredRes(res) == {r \in Resources : IsLeased(res[r]) /\ res[r].exp <= now}

SetTo(res, R, s) == [r \in Resources |-> IF r \in R THEN s ELSE res[r]]
ClearExpired(res) == SetTo(res, ExpiredRes(res), Free)

-----------------------------------------------------------------------------
(* The compare-and-swap publication and what the caller will be told. *)

Known == granted \cup UNION {pending[i].grants : i \in DOMAIN pending}
LeasesOn(R) == {x.lease : x \in {y \in Known : y.res \cap R # {}}}

\* Mutant: the version is not advanced.
PublishSameVersion(res, grants, acks, holds) ==
    /\ Len(pending) < MaxPending
    /\ mem' = [mem EXCEPT !.res = res]
    /\ pending' = Append(pending, [new |-> mem', prev |-> mem, grants |-> grants,
                                   acks |-> acks, holds |-> holds])
    /\ UNCHANGED <<durable, booting, now, granted, acked, obs, crashes, fails>>

Publish(res, grants, acks, holds) ==
    /\ mem.version < MaxVersion
    /\ Len(pending) < MaxPending
    /\ LET new == [version |-> mem.version + 1, res |-> res]
       IN /\ mem' = new
          /\ pending' = Append(pending, [new |-> new, prev |-> mem, grants |-> grants,
                                         acks |-> acks, holds |-> holds])
    /\ UNCHANGED <<durable, booting, now, granted, acked, obs, crashes, fails>>

Running == ~booting

\* The local caller passes the version of the snapshot it has read.
ExpectedVersion == obs # NoSnapshot /\ obs.version = mem.version

-----------------------------------------------------------------------------
(* Bootstrap: initialize_with_node, before any other operation runs.  It    *)
(* creates the snapshot, or adds GPUs to a slot-only one; a failed write    *)
(* fails the first and is ignored by the second.                            *)

InitResources(found) ==
    /\ booting /\ mem = NoSnapshot
    /\ mem' = [version |-> 0, res |-> SetTo(mem.res, IF found THEN Resources ELSE Slots, Free)]
    /\ durable' = mem'
    /\ booting' = FALSE
    /\ UNCHANGED <<pending, now, attempts, granted, acked, revoked, obs, crashes, fails>>

PopulateGpuDevices ==
    /\ booting /\ mem # NoSnapshot
    /\ \A d \in Gpus : mem.res[d] = Absent
    /\ mem.version < MaxVersion
    /\ mem' = [version |-> mem.version + 1, res |-> SetTo(mem.res, Gpus, Free)]
    /\ durable' = mem'
    /\ booting' = FALSE
    /\ UNCHANGED <<pending, now, attempts, granted, acked, revoked, obs, crashes, fails>>

KeepSnapshot ==
    /\ booting /\ mem # NoSnapshot
    /\ booting' = FALSE
    /\ UNCHANGED <<mem, durable, pending, now, attempts, granted, acked, revoked, obs,
                   crashes, fails>>

-----------------------------------------------------------------------------
(* Prepare: lease free resources to the tasks of one batch.  alloc gives    *)
(* the task of each resource taken; which free slots satisfy a request is   *)
(* the choice of select_slot_indices, here any choice with at least one     *)
(* slot for each task.                                                      *)

\* Mutant: the id is taken before the counter advances.
LeaseIdStale(t) == <<attempts, t>>
LeaseId(t) == <<attempts + 1, t>>

Allocations(R) ==
    {alloc \in UNION {[A -> Tasks] : A \in (SUBSET R) \ {{}}} :
        \A r \in DOMAIN alloc : \E s \in Slots \cap DOMAIN alloc : alloc[s] = alloc[r]}

Bind(res, alloc, c, g) ==
    [r \in Resources |->
        IF r \in DOMAIN alloc
        THEN Leased(LeaseId(alloc[r]), c, alloc[r], g, now + Ttl)
        ELSE res[r]]

BatchOf(alloc, c, g) ==
    {[lease |-> LeaseId(t), coord |-> c, task |-> t, group |-> g, exp |-> now + Ttl,
      res |-> {r \in DOMAIN alloc : alloc[r] = t}] : t \in {alloc[r] : r \in DOMAIN alloc}}

\* clear_expired_leases, then clear_prepared_lease_group for a grouped prepare.
Prepared(g) ==
    LET replaced == IF g = NoGroup THEN {} ELSE GroupRes(mem.res, g)
    IN SetTo(ClearExpired(mem.res), replaced, Free)

PrepareBatch(c, g) ==
    /\ Running /\ attempts < MaxAttempts
    /\ \E alloc \in Allocations(FreeIn(Prepared(g))) :
          Publish(Bind(Prepared(g), alloc, c, g), BatchOf(alloc, c, g), {}, {})
    /\ attempts' = attempts + 1
    /\ revoked' = revoked \cup (IF g = NoGroup THEN {} ELSE LeasesOn(GroupRes(mem.res, g)))

\* prepare_task_leases and prepare_task_lease_group: the target chooses.
PrepareLeases(c, g) == PrepareBatch(c, g)

\* prepare_exact_task_lease_group: this node's planner chose from the snapshot it read.
PrepareExactGroup(g) == g # NoGroup /\ ExpectedVersion /\ PrepareBatch(Self, g)

-----------------------------------------------------------------------------
(* Commit and abort.  The caller passes what its prepare returned. *)

CommitLease(x) ==
    LET R == LeaseRes(mem.res, x.lease) IN
    /\ Running /\ R # {}
    /\ \A r \in R : /\ mem.res[r].exp > now
                     /\ mem.res[r].group = NoGroup
                     /\ mem.res[r].coord = x.coord /\ mem.res[r].task = x.task
    /\ R = x.res
    /\ Publish(SetTo(mem.res, R, Reserved(x.task, NoGroup)), {}, {x.lease},
               {[task |-> x.task, res |-> R]})
    /\ UNCHANGED <<attempts, revoked>>

\* Mutant: the loop over GPU devices is missing.
CommitLeaseGroupSlots(c, g, P) ==
    LET R == GroupRes(mem.res, g) IN
    /\ Running /\ R # {}
    /\ {mem.res[r].lease : r \in R} = {x.lease : x \in P}
    /\ \A r \in R : mem.res[r].coord = c /\ mem.res[r].exp > now
    /\ \A x \in P : LeaseRes(mem.res, x.lease) = x.res
    /\ Publish([r \in Resources |-> IF r \in R \cap Slots THEN Reserved(mem.res[r].task, g)
                                              ELSE mem.res[r]],
               {}, {x.lease : x \in P}, {})
    /\ UNCHANGED <<attempts, revoked>>

CommitLeaseGroup(c, g, P) ==
    LET R == GroupRes(mem.res, g) IN
    /\ Running /\ R # {}
    /\ {mem.res[r].lease : r \in R} = {x.lease : x \in P}
    /\ \A r \in R : mem.res[r].coord = c /\ mem.res[r].exp > now
    /\ \A x \in P : /\ LeaseRes(mem.res, x.lease) = x.res
                     /\ \A r \in x.res : mem.res[r].task = x.task
    /\ Publish([r \in Resources |-> IF r \in R THEN Reserved(mem.res[r].task, g)
                                              ELSE mem.res[r]],
               {}, {x.lease : x \in P}, {[task |-> x.task, res |-> x.res] : x \in P})
    /\ UNCHANGED <<attempts, revoked>>

\* Releases R, chosen by the caller, and records whose leases that gives up.
Release(res, R) ==
    /\ Publish(SetTo(res, R, Free), {}, {}, {})
    /\ revoked' = revoked \cup LeasesOn(R)
    /\ UNCHANGED attempts

\* Unknown leases and leases of another coordinator or task are skipped.
AbortLeases(c, I) ==
    LET R == {r \in Resources : \E x \in I : /\ r \in LeaseRes(mem.res, x.lease)
                                             /\ mem.res[r].coord = c
                                             /\ mem.res[r].task = x.task}
    IN Running /\ R # {} /\ Release(mem.res, R)

\* Prepared leases of this coordinator and every reservation of the group.
AbortLeaseGroup(c, g) ==
    LET R == {r \in GroupRes(mem.res, g) : mem.res[r].coord = c}
             \cup {r \in Resources : IsReserved(mem.res[r]) /\ mem.res[r].group = g}
    IN Running /\ R # {} /\ Release(mem.res, R)

ReapExpiredLeases ==
    /\ Running /\ ExpiredRes(mem.res) # {}
    /\ Publish(ClearExpired(mem.res), {}, {}, {})
    /\ UNCHANGED <<attempts, revoked>>

-----------------------------------------------------------------------------
(* A local caller reads a snapshot, plans against it, and reserves or frees *)
(* with the version it read.                                                *)

Observe ==
    /\ Running /\ obs' = mem
    /\ UNCHANGED <<mem, durable, pending, booting, now, attempts, granted, acked, revoked,
                   crashes, fails>>

ReserveResources(R, alloc, g) ==
    LET cleared == ClearExpired(mem.res) IN
    /\ Running /\ ExpectedVersion
    /\ R # {} /\ R \subseteq FreeIn(cleared)
    /\ Publish([r \in Resources |-> IF r \in R THEN Reserved(alloc[r], g) ELSE cleared[r]],
               {}, {},
               {[task |-> t, res |-> {r \in R : alloc[r] = t}] : t \in {alloc[r] : r \in R}})
    /\ UNCHANGED <<attempts, revoked>>

\* free_resources rejects absent and free resources, and nothing else.
Freeable(R) ==
    \A r \in R : mem.res[r] # Absent /\ ClearExpired(mem.res)[r] # Free

FreeResources(R) ==
    /\ Running /\ ExpectedVersion
    /\ R # {} /\ Freeable(R)
    /\ Release(ClearExpired(mem.res), R)

-----------------------------------------------------------------------------
(* The end of an awaited write, the clock, and a restart. *)

Head1 == Head(pending)

PersistOk ==
    /\ pending # <<>>
    /\ durable' = Head1.new
    /\ granted' = granted \cup Head1.grants
    /\ acked' = acked \cup Head1.acks
    /\ pending' = Tail(pending)
    /\ UNCHANGED <<mem, booting, now, attempts, revoked, obs, crashes, fails>>

\* Mutants: the failed snapshot stays published; it is replaced whoever published since.
PersistFailKeep ==
    /\ pending # <<>> /\ fails < MaxStoreFails /\ fails' = fails + 1
    /\ pending' = Tail(pending)
    /\ UNCHANGED <<mem, durable, booting, now, attempts, granted, acked, revoked, obs, crashes>>
PersistFailBlind ==
    /\ pending # <<>> /\ fails < MaxStoreFails /\ fails' = fails + 1
    /\ mem' = Head1.prev
    /\ pending' = Tail(pending)
    /\ UNCHANGED <<durable, booting, now, attempts, granted, acked, revoked, obs, crashes>>

PersistFail ==
    /\ pending # <<>> /\ fails < MaxStoreFails
    /\ fails' = fails + 1
    /\ mem' = IF mem = Head1.new THEN Head1.prev ELSE mem
    /\ pending' = Tail(pending)
    /\ UNCHANGED <<durable, booting, now, attempts, granted, acked, revoked, obs, crashes>>

Tick ==
    /\ now < MaxTime /\ now' = now + 1
    /\ UNCHANGED <<mem, durable, pending, booting, attempts, granted, acked, revoked, obs,
                   crashes, fails>>

\* Scheduler::new reloads the durable row; every awaiting caller is gone.
Restart ==
    /\ crashes < MaxCrashes /\ crashes' = crashes + 1
    /\ mem' = durable /\ pending' = <<>> /\ booting' = TRUE
    /\ obs' = NoSnapshot
    /\ UNCHANGED <<durable, now, attempts, granted, acked, revoked, fails>>

-----------------------------------------------------------------------------
Init ==
    /\ mem = NoSnapshot /\ durable = NoSnapshot /\ pending = <<>> /\ booting = TRUE
    /\ now = 0 /\ attempts = 0
    /\ granted = {} /\ acked = {} /\ revoked = {} /\ obs = NoSnapshot
    /\ crashes = 0 /\ fails = 0

Boot == (\E found \in BOOLEAN : InitResources(found)) \/ PopulateGpuDevices \/ KeepSnapshot

LeaseStep ==
    \/ \E c \in Coordinators, g \in GroupIds : PrepareLeases(c, g)
    \/ \E g \in Groups : PrepareExactGroup(g)
    \/ \E x \in granted : CommitLease(x)
    \/ \E c \in Coordinators, g \in Groups, P \in SUBSET granted : CommitLeaseGroup(c, g, P)
    \/ \E c \in Coordinators, I \in SUBSET granted : AbortLeases(c, I)
    \/ \E c \in Coordinators, g \in Groups : AbortLeaseGroup(c, g)
    \/ ReapExpiredLeases

ManagerStep ==
    \/ Observe
    \/ \E R \in SUBSET Resources : \E alloc \in [R -> Tasks], g \in GroupIds :
          ReserveResources(R, alloc, g)
    \/ \E R \in SUBSET Resources : FreeResources(R)

Next == Boot \/ LeaseStep \/ ManagerStep \/ PersistOk \/ PersistFail \/ Tick \/ Restart

Spec == Init /\ [][Next]_vars

\* reconcile_local_tasks reaps on every periodic pass, and an awaited store write returns.
LiveSpec == Spec /\ WF_vars(Boot) /\ WF_vars(ReapExpiredLeases) /\ WF_vars(PersistOk)

-----------------------------------------------------------------------------
(* Properties *)

TypeOK ==
    /\ mem \in Snapshots /\ durable \in Snapshots /\ obs \in Snapshots
    /\ pending \in Seq(Writes) /\ Len(pending) <= MaxPending
    /\ booting \in BOOLEAN /\ now \in 0 .. MaxTime /\ attempts \in 0 .. MaxAttempts
    /\ granted \subseteq Grants /\ acked \subseteq LeaseIds /\ revoked \subseteq LeaseIds
    /\ crashes \in 0 .. MaxCrashes /\ fails \in 0 .. MaxStoreFails

\* The snapshot still holds every resource of grant x, as a lease or for its task.
Holds(res, x) ==
    \A r \in x.res : \/ IsLeased(res[r]) /\ res[r].lease = x.lease
                     \/ IsReserved(res[r]) /\ res[r].task = x.task
HoldsReserved(res, x) ==
    \A r \in x.res : IsReserved(res[r]) /\ res[r].task = x.task

\* A lease returned to a coordinator keeps its slots and GPUs until it expires, is committed, or
\* is explicitly given up (abort, group replacement, release); a commit that returned Ok keeps
\* them reserved for the task beyond expiry.  This holds in memory and in the durable row, so
\* also after a restart or a failed write of a later operation (leases.rs, docs: "Prepared leases
\* are durable enough to survive restart").
LeaseHonoured ==
    \A x \in granted : x.lease \notin revoked =>
        /\ x.exp > now => Holds(mem.res, x) /\ Holds(durable.res, x)
        /\ x.lease \in acked => HoldsReserved(mem.res, x) /\ HoldsReserved(durable.res, x)

\* Two tasks never both have a live lease or an acknowledged reservation on one resource: the
\* target validates and allocates locally, whatever its coordinators believed (leases.rs
\* prepare_task_leases_with_group, commit_task_lease).
Live(x) == x.lease \notin revoked /\ (x.exp > now \/ x.lease \in acked)
NoConflictingGrant ==
    \A x, y \in granted :
        Live(x) /\ Live(y) /\ x.res \cap y.res # {} => x.task = y.task

\* Each change of the durable row has a higher version than the one before it, through failed
\* writes and restarts, so a reader of the row or of its digest can order two of them
\* (reservations.rs: "Monotonic versioning gives downstream consumers a simple way to detect
\* updates").  The first row, written by bootstrap, has version 0.
DurableVersionsIncrease ==
    [][durable' # durable => durable'.version > durable.version \/ durable = NoSnapshot]_vars

\* With no write awaited, memory and the durable row agree: at most one failed write leaves no
\* half-published snapshot behind (the compare_and_swap back after a store error).
QuiescentAgreement == (pending = <<>> /\ fails <= 1) => mem = durable

\* While no write has failed, a caller whose expected version passes the check acts on exactly
\* the snapshot it has read (reservations.rs: "we only proceed if nothing changed in the
\* meantime").
VersionNamesSnapshot == (ExpectedVersion /\ fails = 0) => obs = mem

\* A lease that has expired in the durable row is removed from it (the reconcile loop reaps it),
\* unless the version counter is exhausted.
ExpiredReaped ==
    \A l \in LeaseIds :
        (\E r \in Resources : IsLeased(durable.res[r]) /\ durable.res[r].lease = l
                              /\ durable.res[r].exp <= now)
        ~> (LeaseRes(durable.res, l) = {} \/ mem.version = MaxVersion)

=============================================================================
