-------------------------- MODULE MCDynamicBackend --------------------------
(***************************************************************************)
(* Small instances of DynamicBackend for TLC: one table, two applications  *)
(* of one organization, and an endpoint of every kind.                     *)
(***************************************************************************)
EXTENDS DynamicBackend, TLC

CONSTANTS orders, order, missing, a1, a2, r1, r2, q1, q2

MCTableNamed == (order :> orders) @@ (missing :> missing)

Ep(url, action, writing, schema, masking) ==
  [url |-> url, service |-> order, table |-> None, action |-> action,
   path |-> "singular", writing |-> writing, schema |-> schema, masking |-> masking]

MCEndpoints ==
  { Ep(TRUE, "list", FALSE, FALSE, FALSE), Ep(FALSE, "list", FALSE, FALSE, FALSE),
    Ep(FALSE, "get", FALSE, FALSE, FALSE), Ep(FALSE, "create", TRUE, TRUE, TRUE),
    Ep(FALSE, "update", TRUE, FALSE, TRUE), Ep(FALSE, "update", TRUE, FALSE, FALSE),
    Ep(FALSE, "delete", FALSE, FALSE, FALSE),
    [Ep(FALSE, "delete", FALSE, FALSE, FALSE) EXCEPT !.path = "plural"],
    [Ep(FALSE, "other", TRUE, FALSE, FALSE) EXCEPT !.service = missing] }

Sets(field, owner, id, text) ==
  [content |-> "object", valid |-> TRUE, field |-> field, owner |-> owner, id |-> id,
   text |-> text]

MCBodies ==
  { Sets(TRUE, None, None, FALSE), Sets(FALSE, a2, None, FALSE), Sets(FALSE, None, r2, FALSE),
    Sets(FALSE, None, None, TRUE),
    [Sets(TRUE, None, None, FALSE) EXCEPT !.content = "array", !.valid = FALSE] }

MCSymmetry == Permutations(Requests)

\* One row in the clear that nobody has created.
MCTextEffects ==
  {[rows |-> [key \in Tables \X Records |->
                IF key[2] = r1 THEN [owner |-> a1, data |-> "clear", born |-> r1] ELSE None],
    answer |-> {}]}
=============================================================================
