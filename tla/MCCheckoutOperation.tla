------------------------ MODULE MCCheckoutOperation ------------------------
(* Model-checking instances of CheckoutOperation. *)
EXTENDS CheckoutOperation, TLC

Symmetry == Permutations(Caller) \union Permutations(Token)

=============================================================================
