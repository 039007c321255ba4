----------------------------- MODULE LeaseTable -----------------------------
(***************************************************************************)
(* What a target node promises its coordinators, with no snapshot, write    *)
(* or restart in sight: a table of the leases it has answered for.  A lease *)
(* binds its resources while its deadline lies ahead or once its commit was *)
(* answered, unless somebody gave it up.                                    *)
(***************************************************************************)
EXTENDS Naturals

CONSTANT Leases     \* records [lease, coord, task, group, exp, res]

VARIABLES
    granted,        \* leases the target has answered with
    acked,          \* ids of the leases whose commit it has answered
    revoked,        \* ids some caller gave up
    now

table == <<granted, acked, revoked, now>>

Binding(x) == x.lease \notin revoked /\ (x.exp > now \/ x.lease \in acked)

\* No resource is bound to two tasks, and a lease id names one lease.
Exclusive ==
    \A x, y \in granted :
        /\ x.lease = y.lease => x = y
        /\ Binding(x) /\ Binding(y) /\ x.res \cap y.res # {} => x.task = y.task

Init == granted = {} /\ acked = {} /\ revoked = {} /\ now = 0

\* An answer adds leases, or acknowledges leases it had answered before, and
\* keeps the table exclusive.
Answer ==
    /\ granted \subseteq granted' /\ granted' \subseteq Leases
    /\ acked \subseteq acked' /\ acked' \subseteq {x.lease : x \in granted}
    /\ Exclusive'
    /\ UNCHANGED <<revoked, now>>

GiveUp == revoked \subseteq revoked' /\ UNCHANGED <<granted, acked, now>>

Advance == now' \in Nat /\ now' > now /\ UNCHANGED <<granted, acked, revoked>>

Next == Answer \/ GiveUp \/ Advance

Spec == Init /\ [][Next]_table
=============================================================================
