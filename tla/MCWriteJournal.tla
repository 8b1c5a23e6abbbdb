-------------------------- MODULE MCWriteJournal --------------------------
(* Instances of WriteJournal for TLC. *)
EXTENDS WriteJournal, TLC

MCContent == {"head", "missing", "dirty"}
MCSymmetry == Permutations(Call)
=============================================================================
