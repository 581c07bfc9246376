--------------------------- MODULE MCExtentEngine ---------------------------
(* Instances of ExtentEngine for TLC. *)
EXTENDS ExtentEngine, TLC

(* Device and extent names are interchangeable. *)
NameSymmetry == Permutations(Devices) \cup Permutations(Extents)
=============================================================================
