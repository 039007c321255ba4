------------------------ MODULE MCClusterOperations ------------------------
(***************************************************************************)
(* Two nodes in one cluster V, or already apart in A and B.  s and r split  *)
(* V into A for node a and B for node b: node b may take the submitter of s *)
(* for dead and prepare it too, and the volumes may veto r.  m merges B     *)
(* back into A behind r, although a fast clock orders it first; y is the    *)
(* same merge with no dependency, and x the opposite merge of A into B,     *)
(* each submitted on the side that leaves, without knowing of the other.    *)
(***************************************************************************)
EXTENDS ClusterOperations

CONSTANTS a, b, V, A, B, s, r, m, y, x

MCSource == [o \in Ops |-> CASE o \in {s, r} -> V [] o \in {m, y} -> B [] o = x -> A]
MCTarget == [o \in Ops |-> [n \in Nodes |->
    CASE o \in {m, y} -> A [] o = x -> B [] o \in {s, r} /\ n = a -> A [] o \in {s, r} /\ n # a -> B]]
MCDeps == [o \in Ops |-> IF o = m THEN {r} ELSE {}]
MCOrderKey == [o \in Ops |-> CASE o = m -> 1 [] o = s -> 2 [] o = r -> 3 [] o = y -> 4 [] o = x -> 5]
MCSubmitter == [o \in Ops |-> IF o \in {m, y} THEN b ELSE a]
OneView == [n \in Nodes |-> V]
TwoViews == [n \in Nodes |-> IF n = a THEN A ELSE B]
MCInitialViews == {OneView, TwoViews}
MCSuspicious == {<<b, s>>}
=============================================================================
