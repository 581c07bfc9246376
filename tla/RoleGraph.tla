----------------------------- MODULE RoleGraph -----------------------------
(***************************************************************************)
(* What the searches of RoleEnv (ty.rs) have in common: a graph they do    *)
(* not change, and the HashSet of the nodes they have been at.             *)
(***************************************************************************)
EXTENDS RoleEnv

VARIABLES graph,    \* the edges
          visited   \* the nodes seen by the search
=============================================================================
