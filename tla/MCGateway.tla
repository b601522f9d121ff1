----------------------------- MODULE MCGateway -----------------------------
(***************************************************************************)
(* Small instances of Gateway for TLC: one managed route, one policy that  *)
(* demands a permission and counts, and one that does neither.             *)
(***************************************************************************)
EXTENDS Gateway, TLC

CONSTANTS read, none, spec1, p1, v1, e1, e2, pol1, pol2, a1, a2, q1, q2

MCPolicies == {[perm |-> read, limit |-> 1], [perm |-> none, limit |-> 0]}

Symmetry == Permutations(Admins) \union Permutations(Ids)
            \union Permutations(PolicyIds) \union Permutations(Requests)
=============================================================================
