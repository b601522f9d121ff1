----------------------------- MODULE MCTenancy -----------------------------
(***************************************************************************)
(* Small instances of Tenancy for TLC.                                     *)
(***************************************************************************)
EXTENDS Tenancy, TLC

CONSTANTS i1, i2, i3, s1, s2, n1, c1, c2

Symmetry == Permutations(Ids) \union Permutations(Slugs) \union Permutations(Clients)
=============================================================================
