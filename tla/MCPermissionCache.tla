------------------------- MODULE MCPermissionCache -------------------------
(***************************************************************************)
(* Small instances of PermissionCache for TLC.                             *)
(***************************************************************************)
EXTENDS PermissionCache, TLC

CONSTANTS k1, k2, viewer, editor, r1, r2, a1, a2

MCRolePerms == (viewer :> {"read"}) @@ (editor :> {"read", "write"})
=============================================================================
