----------------------------- MODULE MCProxyReplica -----------------------------
(***************************************************************************)
(* ProxyReplica on groups of two and three gateways.                       *)
(***************************************************************************)
EXTENDS ProxyReplica, TLC

CONSTANTS g1, g2, g3

MemberSymmetry == Permutations(Member)

=================================================================================
