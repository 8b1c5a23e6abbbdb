---------------------------- MODULE MCStartLock ----------------------------
(* Model-checking instances of StartLock. *)
EXTENDS StartLock, TLC

\* Processes and tokens are interchangeable: no action and no property
\* distinguishes them.
Symmetry == Permutations(Proc) \union Permutations(OwnerToken)

=============================================================================
