-------------------------- MODULE MCSemanticReview --------------------------
(* SemanticReview for TLC: its constants are given in the configurations. *)
EXTENDS SemanticReview
=============================================================================
