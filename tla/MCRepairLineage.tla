-------------------------- MODULE MCRepairLineage --------------------------
(* RepairLineage for TLC: its constants are given in the configurations. *)
EXTENDS RepairLineage, TLC

Symmetry == Permutations(Paths) \cup Permutations(Sessions)
=============================================================================
