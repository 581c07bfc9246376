--------------------------- MODULE MCGrantSystem ---------------------------
(* Instances of GrantSystem for TLC. *)
EXTENDS GrantSystem, TLC

(* Roles, conditions and resource types are interchangeable. *)
RoleSymmetry == Permutations(Roles)
=============================================================================
