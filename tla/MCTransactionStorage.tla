----------------------- MODULE MCTransactionStorage -----------------------
EXTENDS TransactionStorage, TLC

\* A clean implementation.
MCClean == {[provider |-> TRUE, worker |-> "ok", exitZero |-> TRUE, report |-> TRUE,
             facts |-> TRUE, scope |-> TRUE, change |-> "ATTRIBUTED", paths |-> "inside",
             hash |-> TRUE, wrote |-> FALSE, denied |-> FALSE]}

\* Tokens are interchangeable, and so are processes.
Symmetry == Permutations(Token) \union Permutations(Proc)

=============================================================================
