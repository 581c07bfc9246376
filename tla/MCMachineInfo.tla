--------------------------- MODULE MCMachineInfo ---------------------------
(* Instances of MachineInfo for TLC. *)
EXTENDS MachineInfo, TLC

NameSymmetry == Permutations(Machines) \cup Permutations(Kinds) \cup Permutations(Clients)
=============================================================================
