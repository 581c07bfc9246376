---------------------------- MODULE MCRoleSearch ----------------------------
(* Instances of RoleSearch for TLC: every graph on the given roles. *)
EXTENDS RoleSearch
=============================================================================
