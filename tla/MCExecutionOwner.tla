------------------------- MODULE MCExecutionOwner -------------------------
(* Instances of ExecutionOwner for TLC. *)
EXTENDS ExecutionOwner

CONSTANTS p1, p2, r1, r2

\* One session per process.
MCApart == [r \in {r1, r2} |-> IF r = r1 THEN p1 ELSE p2]
=============================================================================
