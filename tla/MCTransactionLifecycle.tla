----------------------- MODULE MCTransactionLifecycle -----------------------
EXTENDS TransactionLifecycle

Clean(p) == [provider |-> TRUE, worker |-> "ok", exitZero |-> TRUE, report |-> TRUE,
             facts |-> TRUE, scope |-> TRUE, change |-> "ATTRIBUTED", paths |-> p,
             hash |-> p = "inside", wrote |-> FALSE, denied |-> FALSE]

\* The outcomes that differ from o in one fact.
Flawed(o) ==
    {[o EXCEPT !.provider = FALSE], [o EXCEPT !.exitZero = FALSE], [o EXCEPT !.report = FALSE],
     [o EXCEPT !.facts = FALSE], [o EXCEPT !.scope = FALSE], [o EXCEPT !.hash = ~@],
     [o EXCEPT !.wrote = TRUE], [o EXCEPT !.denied = TRUE]}
    \union {[o EXCEPT !.worker = w] : w \in {"historical", "interrupted", "failed"}}
    \union {[o EXCEPT !.change = c] : c \in {"WORKSPACE_DRIFT", "CONFLICT"}}
    \union {[o EXCEPT !.paths = q] : q \in {"none", "inside", "outside"}}

\* Clean outcomes with and without changes, with up to two flaws.
MCOutcomes ==
    LET clean == {Clean("none"), Clean("inside")}
        one == UNION {Flawed(o) : o \in clean}
    IN clean \union one \union UNION {Flawed(o) : o \in one}

=============================================================================
