--------------------------- MODULE MCCycleSearch ---------------------------
(* Instances of CycleSearch for TLC: every graph on the given roles. *)
EXTENDS CycleSearch
=============================================================================
