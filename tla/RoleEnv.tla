------------------------------ MODULE RoleEnv ------------------------------
(***************************************************************************)
(* The role hierarchy of limited-core (struct RoleEnv in ty.rs) as pure    *)
(* operators.  The petgraph DiGraph is a set E of edges <<parent, child>>; *)
(* a second, equal edge changes no answer below, so the multigraph is a    *)
(* set.                                                                    *)
(*                                                                         *)
(* Descent is stated without recursion: d descends from a when d belongs   *)
(* to every set that holds the children of a and the children of each of   *)
(* its members.  Module RoleSearch shows that the breadth-first searches   *)
(* of the code compute exactly this relation.                              *)
(***************************************************************************)

CONSTANT Roles   \* every role name that a caller may mention

EdgeSets == SUBSET (Roles \X Roles)

(* get_children: the outgoing neighbours of a role's node. *)
Children(E, r) == {c \in Roles : <<r, c>> \in E}

Closed(E, S) == \A r \in S : Children(E, r) \subseteq S

(* is_descendant(d, a): some non-empty path of edges leads from a to d. *)
Descends(E, d, a) ==
    \A S \in SUBSET Roles : Closed(E, S) /\ Children(E, a) \subseteq S => d \in S

Descendants(E, a) == {d \in Roles : Descends(E, d, a)}

(* resolve_down: the role and everything below it. *)
Down(E, a) == {a} \cup Descendants(E, a)

(* Mutant: looks for the parent's own ancestors instead of its place below the child. *)
WouldCreateCycleUpwards(E, child, parent) == child = parent \/ Descends(E, child, parent)

(* would_create_cycle(child, parent). *)
WouldCreateCycle(E, child, parent) == child = parent \/ Descends(E, parent, child)

Acyclic(E) == \A r \in Roles : ~Descends(E, r, r)

(***************************************************************************)
(* The roles that lie on a cycle: what detect_cycles is documented to      *)
(* return.                                                                 *)
(***************************************************************************)
OnCycle(E) == {r \in Roles : Descends(E, r, r)}
=============================================================================
