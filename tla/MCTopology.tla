----------------------------- MODULE MCTopology -----------------------------
(***************************************************************************)
(* The cluster operations of MCClusterOperations and the membership of one *)
(* node side by side for TLC.  They share nothing; `part' names the one a  *)
(* behaviour runs, and the other stays in an initial state.                *)
(***************************************************************************)
EXTENDS MCClusterOperations

VARIABLES part, peer, inc, phase, join, leave, boot, up, serving, gossip, quota

peerVars == <<peer, inc, phase, join, leave, boot, up, serving, gossip, quota>>

\* Subject leaves and joins again, with a crash; or answers a joiner while it
\* leaves.
Quotas ==
    {[joins |-> 2, leaves |-> 1, refutes |-> 1, crashes |-> 1, served |-> 0],
     [joins |-> 1, leaves |-> 1, refutes |-> 1, crashes |-> 0, served |-> 1]}

Member == INSTANCE Membership WITH
              Actors <- {a, b}, Subject <- b, Budgets <- Quotas, row <- peer, budget <- quota

----------------------------------------------------------------------------
InitParts ==
    /\ part \in {"views", "member"}
    /\ Init
    /\ Member!Init
    /\ part # "member" => quota.joins = 1
    /\ part # "views" => view = OneView

ViewsStep == part = "views" /\ Next /\ UNCHANGED <<part, peerVars>>

MemberStep == part = "member" /\ Member!Next /\ UNCHANGED <<part, vars>>

NextParts == ViewsStep \/ MemberStep

SpecParts == InitParts /\ [][NextParts]_<<part, vars, peerVars>>

----------------------------------------------------------------------------

=============================================================================
