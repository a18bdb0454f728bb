-------------------------- MODULE MCRoleAssignments --------------------------
(***************************************************************************)
(* Small instances of RoleAssignments for TLC.                             *)
(***************************************************************************)
EXTENDS RoleAssignments, TLC

CONSTANTS root, ann, admin, clerk, w1, w2, w3

=============================================================================
