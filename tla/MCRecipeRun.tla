---------------------------- MODULE MCRecipeRun ----------------------------
(* Instances of RecipeRun for TLC. *)
EXTENDS RecipeRun, TLC

MCSymmetry == Permutations(Run) \union Permutations(Input)
=============================================================================
