------------------------ MODULE TransactionLifecycle ------------------------
(***************************************************************************)
(* The life of one stored record under the transitions of                  *)
(* DelegationTransaction: every transition is applied to what is stored,   *)
(* and the serializer refuses a result that the parser would not accept.   *)
(* TransactionStorage is shown to implement it.                            *)
(***************************************************************************)
EXTENDS DelegationTransaction

VARIABLE tx       \* the stored record of the delegation, or None

LifecycleTypeOK == tx \in TransactionRecord \union {None}

LifecycleInit == tx = None

Store(results) == \E s \in results : validStateInvariants(s) /\ tx' = s

Prepare ==
    /\ tx = None
    /\ \E kind \in {"implementation", "diagnosis"}, repair \in BOOLEAN :
            Store(createPreparedDelegationTransaction(kind, repair))

Start == tx # None /\ Store(startDelegationTransaction(tx))

Resume == tx # None /\ tx.revision < MaxResume /\ Store(resumeDelegationTransaction(tx))

BeginCommit == tx # None /\ \E o \in Outcomes : Store(beginDelegationCommit(tx, o))

PublishCommit == tx # None /\ Store(publishDelegationCommit(tx, tx.revision))

Review == tx # None /\ Store(reviewDelegationTransaction(tx))

Abort == tx # None /\ Store(abortDelegationTransaction(tx))

RequireRecovery ==
    /\ tx # None
    /\ \E reason \in StopReason : Store(requireDelegationRecovery(tx, reason))

LifecycleNext ==
    \/ Prepare \/ Start \/ Resume \/ BeginCommit \/ PublishCommit
    \/ Review \/ Abort \/ RequireRecovery

LifecycleSpec == LifecycleInit /\ [][LifecycleNext]_tx

-----------------------------------------------------------------------------
(* Properties *)

\* The serializer never strands a transaction: the parser accepts whatever a
\* transition returns, however often the record was resumed before.  The one
\* result it refuses is the abort of a resumed record, whose revision is past 2.
OnlyLateAbortIsRefused ==
    tx # None =>
        /\ \A s \in UNION {startDelegationTransaction(tx), resumeDelegationTransaction(tx),
                           publishDelegationCommit(tx, tx.revision),
                           reviewDelegationTransaction(tx)} : validStateInvariants(s)
        /\ \A o \in Outcomes : \A s \in beginDelegationCommit(tx, o) : validStateInvariants(s)
        /\ \A r \in StopReason : \A s \in requireDelegationRecovery(tx, r) :
               validStateInvariants(s)
        /\ \A s \in abortDelegationTransaction(tx) :
               validStateInvariants(s) \/ tx.revision > 1

\* A success status is earned by every machine fact of its kind: nothing a
\* worker reports replaces one, and the generation of those facts exists.
SuccessIsEarned ==
    tx # None /\ tx.status \in {"PENDING_REVIEW", "REVIEWED", "FINISHED"} =>
        LET o == tx.outcome IN
        /\ tx.proof # None
        /\ o.provider /\ o.worker \in {"ok", "historical"} /\ o.exitZero /\ o.report
        /\ o.facts /\ o.scope /\ o.change = "ATTRIBUTED" /\ o.paths # "outside"
        /\ IF tx.kind = "implementation"
           THEN o.hash /\ (o.paths = "inside" \/ tx.repair)
           ELSE o.paths = "none" /\ ~o.hash /\ ~o.wrote /\ ~o.denied

\* Terminal facts are written once: no later transition, recovery and review
\* included, changes the outcome, its reasons or the proof of the generation.
FactsAreFrozen ==
    [][tx # None /\ tx.outcome # None =>
         /\ tx'.outcome = tx.outcome /\ tx'.reasons = tx.reasons
         /\ tx.proof # None => tx'.proof = tx.proof]_tx

\* The inductive invariant: a stored record parses.
RecordParses == LifecycleTypeOK /\ (tx # None => validStateInvariants(tx))

=============================================================================
