--------------------------- MODULE SchedulerTable ---------------------------
(* The scheduler as an implementation of the lease table it promises. *)
EXTENDS Scheduler

Table == INSTANCE LeaseTable WITH Leases <- Grants

\* Seen from its coordinators the scheduler is the lease table: publishing in
\* memory, awaiting the store, rolling a failed write back, restarting, reaping
\* and bootstrap are invisible, and every answer of a prepare or a commit keeps
\* the table exclusive (src/src/scheduler/leases.rs, reservations.rs).
ImplementsTable == Table!Spec
=============================================================================
