---------------------- MODULE TransactionStorageProofs ----------------------
(***************************************************************************)
(* The transitions of DelegationTransaction, the lifecycle they give a     *)
(* record, and the storage: the stored record parses and its proof is on   *)
(* disk, and until a call loses the lock it relies on the record follows   *)
(* that lifecycle and nothing acknowledged is lost, for every set of       *)
(* processes, tokens and outcomes and any number of overlapping calls,     *)
(* crashes and failing operations.                                         *)
(***************************************************************************)
EXTENDS TransactionStorage, TransactionLifecycle, TLAPS

-----------------------------------------------------------------------------
(* The transitions: what a record that parses becomes parses, the abort of *)
(* a resumed record excepted                                               *)

\* A revision alternates between odd and even.
LEMMA Parity ==
    ASSUME NEW n \in Nat
    PROVE  /\ Odd(n) => Even(n + 1) /\ n + 1 >= 2
           /\ Even(n) => Odd(n + 1)
           /\ n >= 2 /\ Even(n) => n + 1 >= 3
           /\ ~(Odd(n) /\ Even(n))
BY DEF Odd, Even

\* The postconditions yield reasons of the closed list only.
LEMMA ReasonsTyped ==
    ASSUME NEW s, NEW o
    PROVE  /\ evaluateDelegationPostconditions(s, o) \in SUBSET Reason
           /\ historicalRepairPostconditionsV2(s, o) \in SUBSET Reason
<1>1. evaluateDelegationPostconditions(s, o) \in SUBSET Reason
    BY DEF evaluateDelegationPostconditions, KindReasons, If, Reason
<1> QED BY <1>1 DEF historicalRepairPostconditionsV2, If, Reason

\* The facts that decide do not depend on the fields a transition changes.
LEMMA VerdictDependsOnKind ==
    ASSUME NEW s, NEW t, NEW o, s.kind = t.kind, s.repair = t.repair
    PROVE  /\ evaluateDelegationPostconditions(s, o) = evaluateDelegationPostconditions(t, o)
           /\ historicalRepairPostconditionsV2(s, o) = historicalRepairPostconditionsV2(t, o)
           /\ isDelegationInterruptedCandidateV2(s, o)
                  <=> isDelegationInterruptedCandidateV2(t, o)
<1>1. evaluateDelegationPostconditions(s, o) = evaluateDelegationPostconditions(t, o)
    BY DEF evaluateDelegationPostconditions, KindReasons
<1> QED BY <1>1 DEF historicalRepairPostconditionsV2, isDelegationInterruptedCandidateV2

\* The names the transitions store.
LEMMA NamesTyped ==
    /\ "PREPARED" \in Status /\ "RUNNING" \in Status /\ "COMMITTING" \in Status
    /\ "REVIEWED" \in Status /\ "ABORTED" \in Status /\ "RECOVERY_REQUIRED" \in Status
    /\ "INTERRUPTED" \in Status /\ "FAILED" \in Status
    /\ "PENDING_REVIEW" \in Status /\ "FINISHED" \in Status
    /\ "null" \in RecoveryReason /\ "facts incomplete" \in RecoveryReason
    /\ StopReason \subseteq RecoveryReason
BY DEF Status, RecoveryReason, StopReason

\* A revision can always be incremented.
LEMMA NextRevision == ASSUME NEW s \in TransactionRecord PROVE s.revision + 1 \in Nat
BY DEF TransactionRecord

\* Preparing yields a record that parses.
LEMMA PrepareValid ==
    ASSUME NEW kind \in {"implementation", "diagnosis"}, NEW repair \in BOOLEAN,
           NEW t \in createPreparedDelegationTransaction(kind, repair)
    PROVE  t \in TransactionRecord /\ validStateInvariants(t)
<1>1. t = [kind |-> kind, repair |-> repair, status |-> "PREPARED", revision |-> 0,
           outcome |-> None, reasons |-> {}, proof |-> None, review |-> None,
           aborted |-> FALSE, recovery |-> "null"] /\ (repair => kind = "implementation")
    BY DEF createPreparedDelegationTransaction
<1>2. t \in TransactionRecord
    BY <1>1, NamesTyped DEF TransactionRecord
<1>3. validStateInvariants(t)
    BY <1>1 DEF validStateInvariants, ReasonsMatch, StatusFits, Open, Unstopped
<1> QED BY <1>2, <1>3

\* Starting, resuming and stopping a record that parses yields one that parses.
LEMMA StartValid ==
    ASSUME NEW s \in TransactionRecord, validStateInvariants(s),
           NEW t \in startDelegationTransaction(s)
    PROVE  t \in TransactionRecord /\ validStateInvariants(t)
<1>1. s.status = "PREPARED" /\ t = [s EXCEPT !.revision = @ + 1, !.status = "RUNNING"]
    BY DEF startDelegationTransaction, TransactionRecord
<1>2. s.revision = 0 /\ Open(s) /\ Unstopped(s) /\ s.reasons = {}
    BY <1>1
    DEF validStateInvariants, StatusFits, ReasonsMatch, Open, TransactionRecord
<1>3. t \in TransactionRecord
    BY <1>1, NamesTyped, NextRevision DEF TransactionRecord
<1>4. StatusFits(t)
    BY <1>1, <1>2 DEF StatusFits, TransactionRecord, Open, Unstopped, Odd
<1>5. ReasonsMatch(t) /\ (t.repair => t.kind = "implementation")
    BY <1>1, <1>2 DEF ReasonsMatch, Open, validStateInvariants, TransactionRecord
<1> QED BY <1>3, <1>4, <1>5 DEF validStateInvariants

LEMMA ResumeValid ==
    ASSUME NEW s \in TransactionRecord, validStateInvariants(s),
           NEW t \in resumeDelegationTransaction(s)
    PROVE  t \in TransactionRecord /\ validStateInvariants(t)
<1>1. /\ s.status = "RECOVERY_REQUIRED" /\ s.outcome = None /\ s.proof = None
      /\ t = [s EXCEPT !.revision = @ + 1, !.status = "RUNNING", !.recovery = "null"]
    BY DEF resumeDelegationTransaction, TransactionRecord
<1>2. s.review = None /\ ~s.aborted /\ Even(s.revision) /\ s.reasons = {}
    BY <1>1 DEF validStateInvariants, StatusFits, ReasonsMatch
<1>3. t \in TransactionRecord
    BY <1>1, NamesTyped, NextRevision DEF TransactionRecord
<1>4. Odd(t.revision)
    BY <1>1, <1>2, Parity DEF TransactionRecord
<1>5. StatusFits(t)
    BY <1>1, <1>2, <1>4 DEF StatusFits, TransactionRecord, Open, Unstopped
<1>6. ReasonsMatch(t) /\ (t.repair => t.kind = "implementation")
    BY <1>1, <1>2 DEF ReasonsMatch, validStateInvariants, TransactionRecord
<1> QED BY <1>3, <1>5, <1>6 DEF validStateInvariants

LEMMA RequireRecoveryValid ==
    ASSUME NEW s \in TransactionRecord, validStateInvariants(s), NEW r \in StopReason,
           NEW t \in requireDelegationRecovery(s, r)
    PROVE  t \in TransactionRecord /\ validStateInvariants(t)
<1>1. /\ s.status \in {"RUNNING", "COMMITTING"}
      /\ t = [s EXCEPT !.revision = @ + 1, !.status = "RECOVERY_REQUIRED", !.recovery = r]
    BY DEF requireDelegationRecovery, TransactionRecord
<1>2. /\ s.review = None /\ ~s.aborted /\ s.proof = None
      /\ IF s.outcome = None THEN Odd(s.revision) ELSE s.revision >= 2 /\ Even(s.revision)
    BY <1>1 DEF validStateInvariants, StatusFits, Open, Unstopped
<1>3. t \in TransactionRecord
    BY <1>1, NamesTyped, NextRevision DEF TransactionRecord
<1>4. IF t.outcome = None THEN t.revision >= 2 /\ Even(t.revision)
      ELSE t.revision >= 3 /\ Odd(t.revision)
    BY <1>1, <1>2, Parity DEF TransactionRecord
<1>5. StatusFits(t)
    BY <1>1, <1>2, <1>4 DEF StatusFits, TransactionRecord, StopReason
<1>6. ReasonsMatch(t) /\ (t.repair => t.kind = "implementation")
    <2>1. t.kind = s.kind /\ t.repair = s.repair /\ t.outcome = s.outcome /\ t.reasons = s.reasons
        BY <1>1 DEF TransactionRecord
    <2> QED BY <2>1, VerdictDependsOnKind DEF ReasonsMatch, validStateInvariants
<1> QED BY <1>3, <1>5, <1>6 DEF validStateInvariants

\* The facts are judged by the rule the parser checks them with.
LEMMA BeginCommitValid ==
    ASSUME NEW s \in TransactionRecord, validStateInvariants(s), NEW o \in Outcomes,
           NEW t \in beginDelegationCommit(s, o)
    PROVE  t \in TransactionRecord /\ validStateInvariants(t)
<1>1. /\ s.status = "RUNNING"
      /\ t = [s EXCEPT !.revision = @ + 1, !.status = "COMMITTING", !.outcome = o,
                       !.reasons = evaluateDelegationPostconditions(s, o)]
    BY DEF beginDelegationCommit, TransactionRecord
<1>2. s.review = None /\ s.proof = None /\ Unstopped(s) /\ Odd(s.revision)
    BY <1>1 DEF validStateInvariants, StatusFits, Open
<1>3. o \in Outcome /\ o # None
    BY TransactionAssumption
<1>4. t \in TransactionRecord
    <2>1. evaluateDelegationPostconditions(s, o) \in SUBSET Reason
        BY ReasonsTyped
    <2> QED BY <1>1, <1>3, <2>1, NamesTyped, NextRevision DEF TransactionRecord
<1>5. t.revision >= 2 /\ Even(t.revision)
    BY <1>1, <1>2, Parity DEF TransactionRecord
<1>6. StatusFits(t)
    BY <1>1, <1>2, <1>3, <1>5 DEF StatusFits, TransactionRecord, Unstopped
<1>7. ReasonsMatch(t) /\ (t.repair => t.kind = "implementation")
    <2>1. /\ t.kind = s.kind /\ t.repair = s.repair /\ t.outcome = o
          /\ t.reasons = evaluateDelegationPostconditions(s, o)
        BY <1>1 DEF TransactionRecord
    <2>2. evaluateDelegationPostconditions(t, o) = evaluateDelegationPostconditions(s, o)
        BY <2>1, VerdictDependsOnKind
    <2> QED BY <1>3, <2>1, <2>2 DEF ReasonsMatch, validStateInvariants
<1> QED BY <1>4, <1>6, <1>7 DEF validStateInvariants

\* The published status is the one the parser expects of the facts.
LEMMA PublishValid ==
    ASSUME NEW s \in TransactionRecord, validStateInvariants(s),
           NEW t \in publishDelegationCommit(s, s.revision)
    PROVE  t \in TransactionRecord /\ validStateInvariants(t)
<1> DEFINE P == PublishedStatus(s)
<1>1. /\ s.status = "COMMITTING" /\ s.outcome # None
      /\ t = [s EXCEPT !.revision = @ + 1, !.status = P, !.proof = s.revision,
                       !.recovery = IF P = "RECOVERY_REQUIRED"
                                    THEN "facts incomplete" ELSE "null"]
    BY DEF publishDelegationCommit, TransactionRecord
<1>2. s.review = None /\ Unstopped(s) /\ s.revision >= 2 /\ Even(s.revision)
    BY <1>1 DEF validStateInvariants, StatusFits
<1>3. P \in {"RECOVERY_REQUIRED", "INTERRUPTED", "FAILED", "PENDING_REVIEW", "FINISHED"}
    BY DEF PublishedStatus
<1>4. /\ t.kind = s.kind /\ t.repair = s.repair /\ t.outcome = s.outcome
      /\ t.reasons = s.reasons /\ t.revision = s.revision + 1 /\ t.proof = s.revision
      /\ t.review = None /\ ~t.aborted /\ t.status = P
      /\ t.recovery = IF P = "RECOVERY_REQUIRED" THEN "facts incomplete" ELSE "null"
    BY <1>1, <1>2 DEF TransactionRecord, Unstopped
<1>5. t \in TransactionRecord
    <2>1. P \in Status
        BY <1>3, NamesTyped
    <2>2. t.recovery \in RecoveryReason
        BY <1>4, NamesTyped
    <2> QED BY <1>1, <1>4, <2>1, <2>2, NextRevision DEF TransactionRecord
<1>6. Odd(t.revision) /\ t.revision >= 3 /\ t.proof = t.revision - 1 /\ s.revision \in Nat
    <2>1. s.revision \in Nat
        BY DEF TransactionRecord
    <2>2. Odd(s.revision + 1) /\ s.revision + 1 >= 3
        BY <1>2, <2>1, Parity
    <2>3. t.revision = s.revision + 1 /\ t.proof = s.revision
        BY <1>4
    <2>4. s.revision = (s.revision + 1) - 1
        BY <2>1
    <2> QED BY <2>1, <2>2, <2>3, <2>4
<1>7. Committed(t)
    BY <1>1, <1>4, <1>6 DEF Committed
<1>8. isDelegationInterruptedCandidateV2(t, t.outcome)
        <=> isDelegationInterruptedCandidateV2(s, s.outcome)
    BY <1>4, VerdictDependsOnKind
<1>9. StatusFits(t)
    <2>1. CASE P = "RECOVERY_REQUIRED"
        BY <1>1, <1>4, <1>6, <2>1 DEF StatusFits
    <2>2. CASE P = "INTERRUPTED"
        <3>1. isDelegationInterruptedCandidateV2(t, t.outcome)
            BY <1>8, <2>2 DEF PublishedStatus
        <3> QED BY <1>4, <1>7, <2>2, <3>1 DEF StatusFits, Unstopped
    <2>3. CASE P = "FAILED"
        <3>1. /\ ~isDelegationInterruptedCandidateV2(t, t.outcome)
              /\ t.outcome.facts /\ t.outcome.scope /\ t.reasons # {}
            BY <1>4, <1>8, <2>3 DEF PublishedStatus
        <3> QED BY <1>4, <1>7, <2>3, <3>1 DEF StatusFits, Unstopped
    <2>4. CASE P = "PENDING_REVIEW"
        <3>1. t.kind = "implementation" /\ t.reasons = {}
            BY <1>4, <2>4 DEF PublishedStatus
        <3> QED BY <1>4, <1>7, <2>4, <3>1 DEF StatusFits, Unstopped
    <2>5. CASE P = "FINISHED"
        <3>1. t.kind = "diagnosis" /\ t.reasons = {}
            BY <1>4, <2>5 DEF PublishedStatus, TransactionRecord
        <3> QED BY <1>4, <1>7, <2>5, <3>1 DEF StatusFits, Unstopped
    <2> QED BY <1>3, <2>1, <2>2, <2>3, <2>4, <2>5
<1>10. ReasonsMatch(t) /\ (t.repair => t.kind = "implementation")
    <2>1. /\ evaluateDelegationPostconditions(t, t.outcome)
               = evaluateDelegationPostconditions(s, s.outcome)
          /\ historicalRepairPostconditionsV2(t, t.outcome)
               = historicalRepairPostconditionsV2(s, s.outcome)
        <3>1. t.kind = s.kind /\ t.repair = s.repair /\ t.outcome = s.outcome
            BY <1>4
        <3> QED BY <3>1, VerdictDependsOnKind
    <2> QED BY <1>4, <2>1 DEF ReasonsMatch, validStateInvariants
<1> QED BY <1>5, <1>9, <1>10 DEF validStateInvariants

\* A review keeps the facts and binds the revision it reviewed.
LEMMA ReviewValid ==
    ASSUME NEW s \in TransactionRecord, validStateInvariants(s),
           NEW t \in reviewDelegationTransaction(s)
    PROVE  t \in TransactionRecord /\ validStateInvariants(t)
<1>1. /\ s.status = "PENDING_REVIEW"
      /\ t = [s EXCEPT !.revision = @ + 1, !.status = "REVIEWED", !.review = s.revision]
    BY DEF reviewDelegationTransaction, TransactionRecord
<1>2. /\ Unstopped(s) /\ s.revision >= 3 /\ Odd(s.revision) /\ s.kind = "implementation"
      /\ s.reasons = {} /\ s.outcome # None /\ s.proof = s.revision - 1
    BY <1>1 DEF validStateInvariants, StatusFits, Committed
<1>3. t \in TransactionRecord
    BY <1>1, NamesTyped, NextRevision DEF TransactionRecord
<1>4. t.revision >= 4 /\ Even(t.revision) /\ t.proof = t.revision - 2 /\ t.review = t.revision - 1
    BY <1>1, <1>2, Parity DEF TransactionRecord
<1>5. StatusFits(t)
    BY <1>1, <1>2, <1>4 DEF StatusFits, TransactionRecord, Unstopped
<1>6. ReasonsMatch(t) /\ (t.repair => t.kind = "implementation")
    <2>1. t.kind = s.kind /\ t.repair = s.repair /\ t.outcome = s.outcome /\ t.reasons = s.reasons
        BY <1>1 DEF TransactionRecord
    <2> QED BY <2>1, VerdictDependsOnKind DEF ReasonsMatch, validStateInvariants
<1> QED BY <1>3, <1>5, <1>6 DEF validStateInvariants

\* An abort is typed, and parses unless the record had been resumed.
LEMMA AbortValid ==
    ASSUME NEW s \in TransactionRecord, validStateInvariants(s),
           NEW t \in abortDelegationTransaction(s)
    PROVE  /\ t \in TransactionRecord
           /\ validStateInvariants(t) \/ s.revision > 1
<1>1. /\ s.status \in {"PREPARED", "RUNNING"}
      /\ t = [s EXCEPT !.revision = @ + 1, !.status = "ABORTED", !.aborted = TRUE]
    BY DEF abortDelegationTransaction, TransactionRecord
<1>2. t \in TransactionRecord
    BY <1>1, NamesTyped, NextRevision DEF TransactionRecord
<1>3. ASSUME ~(s.revision > 1) PROVE validStateInvariants(t)
    <2>1. Open(s) /\ s.recovery = "null" /\ s.reasons = {}
        BY <1>1 DEF validStateInvariants, StatusFits, ReasonsMatch, Open, Unstopped
    <2>2. t.revision \in {1, 2}
        BY <1>1, <1>3 DEF TransactionRecord
    <2>3. StatusFits(t)
        BY <1>1, <2>1, <2>2 DEF StatusFits, TransactionRecord, Open
    <2>4. ReasonsMatch(t) /\ (t.repair => t.kind = "implementation")
        BY <1>1, <2>1 DEF ReasonsMatch, Open, validStateInvariants, TransactionRecord
    <2> QED BY <2>3, <2>4 DEF validStateInvariants
<1> QED BY <1>2, <1>3

-----------------------------------------------------------------------------
(* The lifecycle of a stored record *)

\* None is no record.
LEMMA NoneIsNoRecord ==
    ASSUME RecordParses, tx # None
    PROVE  tx \in TransactionRecord /\ validStateInvariants(tx)
BY DEF RecordParses, LifecycleTypeOK

\* Every step stores a record that parses.
LEMMA LifecycleStores ==
    ASSUME RecordParses, LifecycleNext
    PROVE  RecordParses'
<1> USE DEF Store
<1> SUFFICES tx' \in TransactionRecord /\ validStateInvariants(tx')
    BY DEF RecordParses, LifecycleTypeOK
<1>1. CASE Prepare BY <1>1, PrepareValid DEF Prepare
<1>2. CASE Start BY <1>2, NoneIsNoRecord, StartValid DEF Start
<1>3. CASE Resume BY <1>3, NoneIsNoRecord, ResumeValid DEF Resume
<1>4. CASE BeginCommit BY <1>4, NoneIsNoRecord, BeginCommitValid DEF BeginCommit
<1>5. CASE PublishCommit BY <1>5, NoneIsNoRecord, PublishValid DEF PublishCommit
<1>6. CASE Review BY <1>6, NoneIsNoRecord, ReviewValid DEF Review
<1>7. CASE Abort BY <1>7, NoneIsNoRecord, AbortValid DEF Abort
<1>8. CASE RequireRecovery BY <1>8, NoneIsNoRecord, RequireRecoveryValid DEF RequireRecovery
<1> QED BY <1>1, <1>2, <1>3, <1>4, <1>5, <1>6, <1>7, <1>8 DEF LifecycleNext

\* The stored record always parses.
THEOREM LifecycleParses == LifecycleSpec => []RecordParses
<1>1. LifecycleInit => RecordParses BY DEF LifecycleInit, RecordParses, LifecycleTypeOK
<1>2. RecordParses /\ [LifecycleNext]_tx => RecordParses'
    <2>1. ASSUME RecordParses, UNCHANGED tx PROVE RecordParses'
        BY <2>1 DEF RecordParses, LifecycleTypeOK
    <2> QED BY <2>1, LifecycleStores
<1> QED BY <1>1, <1>2, PTL DEF LifecycleSpec

\* The stored record has its type.
THEOREM LifecycleTyped == LifecycleSpec => []LifecycleTypeOK
<1>1. RecordParses => LifecycleTypeOK BY DEF RecordParses
<1> QED BY <1>1, LifecycleParses, PTL

\* Whatever the constants, the serializer refuses the abort of a resumed record
\* and nothing else: no other transition of a stored record is lost.
THEOREM StorableTransitions == LifecycleSpec => []OnlyLateAbortIsRefused
<1>1. RecordParses => OnlyLateAbortIsRefused
    <2> SUFFICES ASSUME RecordParses, tx # None
                 PROVE  OnlyLateAbortIsRefused
        BY DEF OnlyLateAbortIsRefused
    <2>1. tx \in TransactionRecord /\ validStateInvariants(tx)
        BY NoneIsNoRecord
    <2>2. \A s \in UNION {startDelegationTransaction(tx), resumeDelegationTransaction(tx),
                          publishDelegationCommit(tx, tx.revision),
                          reviewDelegationTransaction(tx)} : validStateInvariants(s)
        BY <2>1, StartValid, ResumeValid, PublishValid, ReviewValid
    <2>3. \A o \in Outcomes : \A s \in beginDelegationCommit(tx, o) : validStateInvariants(s)
        BY <2>1, BeginCommitValid
    <2>4. \A r \in StopReason : \A s \in requireDelegationRecovery(tx, r) :
              validStateInvariants(s)
        BY <2>1, RequireRecoveryValid
    <2>5. \A s \in abortDelegationTransaction(tx) : validStateInvariants(s) \/ tx.revision > 1
        BY <2>1, AbortValid
    <2> QED BY <2>2, <2>3, <2>4, <2>5 DEF OnlyLateAbortIsRefused
<1> QED BY <1>1, LifecycleParses, PTL

\* No reason means every fact holds, the delta of a repair successor excepted.
LEMMA NoReasonIsClean ==
    ASSUME NEW s \in TransactionRecord, NEW o \in Outcome,
           evaluateDelegationPostconditions(s, o) = {}
    PROVE  /\ o.provider /\ o.worker \in {"ok", "historical"} /\ o.exitZero /\ o.report
           /\ o.facts /\ o.scope /\ o.change = "ATTRIBUTED" /\ o.paths # "outside"
           /\ IF s.kind = "implementation"
              THEN o.hash /\ (o.paths = "inside" \/ s.repair)
              ELSE o.paths = "none" /\ ~o.hash /\ ~o.wrote /\ ~o.denied
<1>1. /\ If(~o.provider, "PROVIDER_NOT_SUCCESS") = {}
      /\ If(o.worker \in {"interrupted", "failed"}, "WORKER_RUN_FAILED") = {}
      /\ If(~o.exitZero, "EXIT_CODE_NOT_ZERO") = {}
      /\ If(~o.report, "REPORT_INCOMPLETE") = {}
      /\ If(~o.facts, "TERMINAL_FACTS_INCOMPLETE") = {}
      /\ If(~o.scope, "SCOPE_INCOMPLETE") = {}
      /\ If(o.change = "WORKSPACE_DRIFT", "WORKSPACE_DRIFT_DETECTED") = {}
      /\ If(o.change = "CONFLICT", "CHANGE_SET_CONFLICT") = {}
      /\ If(o.paths = "outside", "OUT_OF_SCOPE_CHANGES") = {}
      /\ KindReasons(s, o) = {}
    BY DEF evaluateDelegationPostconditions
<1>2. \A p \in BOOLEAN : \A r \in Reason : If(p, r) = {} => ~p
    BY DEF If
<1>3. /\ o.provider /\ o.worker \in {"ok", "historical"} /\ o.exitZero /\ o.report
      /\ o.facts /\ o.scope /\ o.change = "ATTRIBUTED" /\ o.paths # "outside"
    BY <1>1 DEF If, Outcome
<1>4. CASE s.kind = "implementation"
    <2>1. If(o.paths = "none" /\ ~s.repair, "IMPLEMENTATION_DELTA_REQUIRED") = {}
          /\ If(~o.hash, "IMPLEMENTATION_DELTA_HASH_REQUIRED") = {}
        BY <1>1, <1>4 DEF KindReasons
    <2> QED BY <1>3, <1>4, <2>1 DEF If, Outcome, TransactionRecord
<1>5. CASE s.kind # "implementation"
    <2>1. /\ If(o.paths # "none" \/ o.hash, "DIAGNOSIS_DELTA_FORBIDDEN") = {}
          /\ If(o.wrote, "DIAGNOSIS_SUCCESSFUL_WRITES_FORBIDDEN") = {}
          /\ If(o.denied, "DIAGNOSIS_DENIED_WRITES_FORBIDDEN") = {}
        BY <1>1, <1>5 DEF KindReasons
    <2> QED BY <1>3, <1>5, <2>1 DEF If, Outcome
<1> QED BY <1>4, <1>5, <1>3

\* What each status says of the facts it was published with.
LEMMA StatusIsEarned ==
    ASSUME NEW s \in TransactionRecord, validStateInvariants(s)
    PROVE  /\ s.status \in {"PENDING_REVIEW", "REVIEWED", "FINISHED"} =>
                /\ s.proof # None /\ s.outcome \in Outcome
                /\ evaluateDelegationPostconditions(s, s.outcome) = {}
           /\ s.status = "INTERRUPTED" =>
                s.proof # None /\ isDelegationInterruptedCandidateV2(s, s.outcome)
<1>1. ASSUME s.status \in {"PENDING_REVIEW", "REVIEWED", "FINISHED"}
      PROVE  /\ s.proof # None /\ s.outcome \in Outcome
             /\ evaluateDelegationPostconditions(s, s.outcome) = {}
    <2>1. s.reasons = {} /\ s.outcome # None /\ s.proof \in {s.revision - 1, s.revision - 2}
        BY <1>1 DEF validStateInvariants, StatusFits, Committed
    <2>2. s.revision \in Nat /\ s.revision >= 3 /\ s.outcome \in Outcome
        BY <1>1, <2>1 DEF validStateInvariants, StatusFits, Committed, TransactionRecord
    <2>3. s.proof # None
        BY <2>1, <2>2, TransactionAssumption
    <2>4. evaluateDelegationPostconditions(s, s.outcome) = {}
        BY <2>1 DEF validStateInvariants, ReasonsMatch, historicalRepairPostconditionsV2
    <2> QED BY <2>2, <2>3, <2>4
<1>2. ASSUME s.status = "INTERRUPTED"
      PROVE  s.proof # None /\ isDelegationInterruptedCandidateV2(s, s.outcome)
    <2>1. isDelegationInterruptedCandidateV2(s, s.outcome) /\ Committed(s)
        BY <1>2 DEF validStateInvariants, StatusFits
    <2> QED BY <2>1, TransactionAssumption DEF Committed, TransactionRecord
<1> QED BY <1>1, <1>2

\* The facts of s, and the generation they are in, are those of t too.
SameFacts(s, t) ==
    /\ t.outcome = s.outcome /\ t.reasons = s.reasons
    /\ s.proof # None => t.proof = s.proof

\* A transition of a record with terminal facts keeps them.
LEMMA TransitionsKeepFacts ==
    ASSUME NEW s \in TransactionRecord, validStateInvariants(s), s.outcome # None
    PROVE  /\ \A t \in startDelegationTransaction(s) : SameFacts(s, t)
           /\ \A t \in resumeDelegationTransaction(s) : SameFacts(s, t)
           /\ \A o \in Outcomes : \A t \in beginDelegationCommit(s, o) : SameFacts(s, t)
           /\ \A t \in publishDelegationCommit(s, s.revision) : SameFacts(s, t)
           /\ \A t \in reviewDelegationTransaction(s) : SameFacts(s, t)
           /\ \A t \in abortDelegationTransaction(s) : SameFacts(s, t)
           /\ \A r \in StopReason : \A t \in requireDelegationRecovery(s, r) : SameFacts(s, t)
<1>1. s.status \notin {"PREPARED", "RUNNING"}
    BY DEF validStateInvariants, StatusFits, Open
<1>2. s.status = "COMMITTING" => s.proof = None
    BY DEF validStateInvariants, StatusFits
<1>3. /\ startDelegationTransaction(s) = {} /\ abortDelegationTransaction(s) = {}
      /\ resumeDelegationTransaction(s) = {}
      /\ \A o \in Outcomes : beginDelegationCommit(s, o) = {}
    BY <1>1 DEF startDelegationTransaction, abortDelegationTransaction, resumeDelegationTransaction,
       beginDelegationCommit
<1>4. ASSUME NEW t \in publishDelegationCommit(s, s.revision) PROVE SameFacts(s, t)
    <2>1. s.status = "COMMITTING"
        BY DEF publishDelegationCommit
    <2>2. t.outcome = s.outcome /\ t.reasons = s.reasons
        BY DEF publishDelegationCommit, TransactionRecord
    <2> QED BY <1>2, <2>1, <2>2 DEF SameFacts
<1>5. ASSUME NEW t \in reviewDelegationTransaction(s) PROVE SameFacts(s, t)
    BY DEF reviewDelegationTransaction, TransactionRecord, SameFacts
<1>6. ASSUME NEW r \in StopReason, NEW t \in requireDelegationRecovery(s, r) PROVE SameFacts(s, t)
    BY DEF requireDelegationRecovery, TransactionRecord, SameFacts
<1> QED BY <1>3, <1>4, <1>5, <1>6

\* Whatever the constants, a success status is earned by every machine fact.
THEOREM SuccessNeedsFacts == LifecycleSpec => []SuccessIsEarned
<1>1. RecordParses => SuccessIsEarned
    BY NoneIsNoRecord, StatusIsEarned, NoReasonIsClean DEF SuccessIsEarned
<1> QED BY <1>1, LifecycleParses, PTL

\* Whatever the constants, terminal facts and their generation are written once.
THEOREM FactsNeverChange == LifecycleSpec => FactsAreFrozen
<1>1. RecordParses /\ [LifecycleNext]_tx =>
        [tx # None /\ tx.outcome # None =>
            /\ tx'.outcome = tx.outcome /\ tx'.reasons = tx.reasons
            /\ tx.proof # None => tx'.proof = tx.proof]_tx
    <2> SUFFICES ASSUME RecordParses, LifecycleNext, tx # None, tx.outcome # None
                 PROVE  SameFacts(tx, tx')
        BY DEF SameFacts
    <2>1. tx \in TransactionRecord /\ validStateInvariants(tx)
        BY NoneIsNoRecord
    <2>2. ~Prepare
        BY DEF Prepare
    <2> QED BY <2>1, <2>2, TransitionsKeepFacts
            DEF LifecycleNext, Start, Resume, BeginCommit, PublishCommit, Review, Abort,
                RequireRecovery, Store
<1> QED BY <1>1, LifecycleParses, PTL DEF LifecycleSpec, FactsAreFrozen

-----------------------------------------------------------------------------
(* What a call publishes *)

\* Publishing keeps the facts and adds the proof.
LEMMA PublishShape ==
    ASSUME NEW s \in TransactionRecord, NEW t \in publishDelegationCommit(s, s.revision)
    PROVE  t.revision = s.revision + 1 /\ t.proof = s.revision /\ t.outcome = s.outcome
BY DEF publishDelegationCommit, TransactionRecord

\* The results depend on the stored record alone.
LEMMA ResultsOf == UNCHANGED stored => Results' = Results
BY DEF Results

\* Whatever a call decides to publish is a record one revision on; only a record without a
\* proof gets an outcome, and no proof appears.
LEMMA TransitionShape ==
    ASSUME stored \in TransactionRecord \union {None}, StoredParses,
           NEW s \in Results
    PROVE  /\ s \in TransactionRecord
           /\ stored = None => s.proof = None /\ s.revision = 0
           /\ stored # None => /\ s.revision = stored.revision + 1
                               /\ s.proof = stored.proof
                               /\ s.proof # None => s.outcome = stored.outcome
<1>1. CASE stored = None
    <2>1. PICK k \in {"implementation", "diagnosis"} :
              s = [kind |-> k, repair |-> FALSE, status |-> "PREPARED", revision |-> 0,
                   outcome |-> None, reasons |-> {}, proof |-> None, review |-> None,
                   aborted |-> FALSE, recovery |-> "null"]
        BY <1>1, StorageAssumption DEF Results, createPreparedDelegationTransaction
    <2>2. s \in TransactionRecord
        BY <2>1, NamesTyped DEF TransactionRecord
    <2> QED BY <1>1, <2>1, <2>2
<1>2. CASE stored # None
    <2>0. stored \in TransactionRecord /\ stored.revision + 1 \in Nat
        BY <1>2 DEF TransactionRecord
    <2> DEFINE Next1(t) == /\ t \in TransactionRecord
                           /\ t.revision = stored.revision + 1 /\ t.proof = stored.proof
                           /\ t.proof # None => t.outcome = stored.outcome
    <2>1. ASSUME s \in startDelegationTransaction(stored) PROVE Next1(s)
        <3>1. s = [stored EXCEPT !.revision = @ + 1, !.status = "RUNNING"]
            BY <2>0, <2>1 DEF startDelegationTransaction, TransactionRecord
        <3> QED BY <2>0, <3>1, NamesTyped DEF TransactionRecord
    <2>2. ASSUME s \in resumeDelegationTransaction(stored) PROVE Next1(s)
        <3>1. s = [stored EXCEPT !.revision = @ + 1, !.status = "RUNNING", !.recovery = "null"]
            BY <2>0, <2>2 DEF resumeDelegationTransaction, TransactionRecord
        <3> QED BY <2>0, <3>1, NamesTyped DEF TransactionRecord
    <2>3. ASSUME NEW o \in Outcomes, s \in beginDelegationCommit(stored, o) PROVE Next1(s)
        <3>1. evaluateDelegationPostconditions(stored, o) \in SUBSET Reason
            BY DEF evaluateDelegationPostconditions, KindReasons, If, Reason
        <3>2. /\ stored.status = "RUNNING"
              /\ s = [stored EXCEPT !.revision = @ + 1, !.status = "COMMITTING", !.outcome = o,
                                !.reasons = evaluateDelegationPostconditions(stored, o)]
            BY <2>0, <2>3 DEF beginDelegationCommit, TransactionRecord
        <3>3. stored.proof = None
            BY <1>2, <3>2 DEF StoredParses, validStateInvariants, StatusFits, Open
        <3>4. o \in Outcome
            BY TransactionAssumption
        <3> QED BY <2>0, <3>1, <3>2, <3>3, <3>4, NamesTyped DEF TransactionRecord
    <2>4. ASSUME s \in abortDelegationTransaction(stored) PROVE Next1(s)
        <3>1. s = [stored EXCEPT !.revision = @ + 1, !.status = "ABORTED", !.aborted = TRUE]
            BY <2>0, <2>4 DEF abortDelegationTransaction, TransactionRecord
        <3> QED BY <2>0, <3>1, NamesTyped DEF TransactionRecord
    <2>5. ASSUME NEW r \in StopReason, s \in requireDelegationRecovery(stored, r)
          PROVE  Next1(s)
        <3>1. s = [stored EXCEPT !.revision = @ + 1, !.status = "RECOVERY_REQUIRED", !.recovery = r]
            BY <2>0, <2>5 DEF requireDelegationRecovery, TransactionRecord
        <3> QED BY <2>0, <3>1, NamesTyped DEF TransactionRecord
    <2> HIDE DEF Next1
    <2>6. \/ s \in startDelegationTransaction(stored) \union resumeDelegationTransaction(stored)
          \/ \E o \in Outcomes : s \in beginDelegationCommit(stored, o)
          \/ s \in abortDelegationTransaction(stored)
          \/ \E r \in StopReason : s \in requireDelegationRecovery(stored, r)
        BY <1>2, StorageAssumption DEF Results
    <2>7. Next1(s)
        BY <2>1, <2>2, <2>3, <2>4, <2>5, <2>6
    <2> QED BY <1>2, <2>7 DEF Next1
<1> QED BY <1>1, <1>2

-----------------------------------------------------------------------------
(* Types *)

LEMMA InitTypes == Init => TypeOK /\ RecoveriesLeft
<1>1. Init => stolen \in BOOLEAN
    BY DEF Init
<1>2. Init => crashes \in 0..MaxCrash /\ attempt \in [Proc -> (0..MaxRecovery) \union {1, 2}]
    BY StorageAssumption DEF Init
<1>3. Init => moved \in [Proc -> LockFile \union {None}] /\ tok \in [Proc -> Token \union {None}]
              /\ next \in [Proc -> TransactionRecord \union {None}] /\ view \in [Proc -> Nat \union {None}]
              /\ mine \in [Proc -> SUBSET Token]
    BY DEF Init
<1> QED BY <1>1, <1>2, <1>3 DEF Init, TypeOK, RecoveriesLeft

LEMMA AcquireTypes ==
    ASSUME TypeOK, RecoveriesLeft, NEW p \in Proc,
           Call(p) \/ CreateLock(p) \/ WriteLock(p) \/ ReadbackLock(p) \/ InspectLock(p)
              \/ MoveLock(p)
    PROVE  TypeOK' /\ RecoveriesLeft'
<1> USE StorageAssumption DEF TypeOK, RecoveriesLeft, Goto
<1>1. CASE Call(p)
    BY <1>1 DEF Call
<1>2. CASE CreateLock(p)
    <2>1. ASSUME NEW t \in Token \ InUse,
                 mine' = [q \in Proc |-> (mine[q] \intersect InUse)
                                          \union (IF q = p THEN {t} ELSE {})]
          PROVE  mine' \in [Proc -> SUBSET Token]
        BY <2>1
    <2>2. mine' \in [Proc -> SUBSET Token]
        BY <1>2, <2>1 DEF CreateLock
    <2>3. \A t \in Token : [token |-> t, whole |-> FALSE] \in LockFile
        BY DEF LockFile
    <2>4. lock' \in LockFile \union {None} /\ tok' \in [Proc -> Token \union {None}]
        BY <1>2, <2>3 DEF CreateLock
    <2> QED BY <1>2, <2>2, <2>4 DEF CreateLock
<1>3. CASE WriteLock(p)
    <2> DEFINE Written(f) == IF f # None /\ f.token = tok[p] THEN [f EXCEPT !.whole = TRUE] ELSE f
    <2>1. \A f \in LockFile \union {None} : Written(f) \in LockFile \union {None}
        BY DEF LockFile
    <2>2. CASE lock' = Written(lock) /\ moved' = [q \in Proc |-> Written(moved[q])]
               /\ Goto(p, "readback") /\ UNCHANGED attempt
        BY <1>3, <2>1, <2>2 DEF WriteLock
    <2>3. CASE Faults /\ BeginRelease(p, 1) /\ UNCHANGED <<lock, moved>>
        BY <1>3, <2>3 DEF WriteLock, BeginRelease
    <2> QED BY <1>3, <2>2, <2>3 DEF WriteLock
<1>4. CASE ReadbackLock(p)
    BY <1>4 DEF ReadbackLock, BeginRelease
<1>5. CASE InspectLock(p)
    BY <1>5 DEF InspectLock, Return
<1>6. CASE MoveLock(p)
    <2>1. stolen' \in BOOLEAN
        BY <1>6 DEF MoveLock, Displaces
    <2> QED BY <1>6, <2>1 DEF MoveLock, Return
<1> QED BY <1>1, <1>2, <1>3, <1>4, <1>5, <1>6

LEMMA ReleaseTypes ==
    ASSUME TypeOK, RecoveriesLeft, NEW p \in Proc,
           ReleaseLock(p) \/ VerifyRelease(p) \/ Look(p) \/ Crash(p) \/ Restart(p)
    PROVE  TypeOK' /\ RecoveriesLeft'
<1> USE StorageAssumption DEF TypeOK, RecoveriesLeft, Goto
<1>1. CASE ReleaseLock(p)
    <2>1. stolen' \in BOOLEAN
        BY <1>1 DEF ReleaseLock, Displaces
    <2> QED BY <1>1, <2>1 DEF ReleaseLock, BeginRelease, Return
<1>2. CASE VerifyRelease(p)
    <2>1. stolen' \in BOOLEAN
        BY <1>2 DEF VerifyRelease, Displaces
    <2> QED BY <1>2, <2>1 DEF VerifyRelease, BeginRelease, Return
<1>3. CASE Look(p)
    BY <1>3 DEF Look, TransactionRecord
<1>4. CASE Crash(p)
    BY <1>4 DEF Crash
<1>5. CASE Restart(p)
    BY <1>5 DEF Restart
<1> QED BY <1>1, <1>2, <1>3, <1>4, <1>5

LEMMA OperationTypes ==
    ASSUME IInv, NEW p \in Proc,
           Decide(p) \/ StageGeneration(p) \/ CommitGeneration(p) \/ PublishState(p)
    PROVE  TypeOK' /\ RecoveriesLeft'
<1> USE StorageAssumption DEF RecoveriesLeft, Goto
<1>0. TypeOK /\ RecoveriesLeft
    BY DEF IInv
<1>1. CASE Decide(p)
    <2>1. next' \in [Proc -> TransactionRecord \union {None}]
        BY <1>0, <1>1, TransitionShape DEF Decide, IInv, TypeOK, Transitions
    <2> QED BY <1>0, <1>1, <2>1 DEF Decide, BeginRelease, TypeOK
<1>2. CASE StageGeneration(p)
    BY <1>0, <1>2 DEF StageGeneration, BeginRelease, TypeOK
<1>3. CASE CommitGeneration(p)
    <2>1. /\ next[p] \in TransactionRecord /\ validStateInvariants(next[p])
          /\ next[p].status = "COMMITTING"
        BY <1>0, <1>3 DEF CommitGeneration, IInv, PendingIsSound, TypeOK
    <2>2. next[p].revision \in Nat /\ next[p].outcome \in Outcome
        BY <2>1 DEF TransactionRecord, validStateInvariants, StatusFits
    <2>3. next' \in [Proc -> TransactionRecord \union {None}]
        BY <1>0, <1>3, <2>1, PublishValid DEF CommitGeneration, TypeOK
    <2>4. gen' \in Generation \union {None}
        BY <1>0, <1>3, <2>2 DEF CommitGeneration, TypeOK, Generation
    <2> QED BY <1>0, <1>3, <2>3, <2>4 DEF CommitGeneration, BeginRelease, TypeOK
<1>4. CASE PublishState(p)
    <2>1. next[p] \in TransactionRecord
        BY <1>0, <1>4 DEF PublishState, IInv, PendingIsSound, TypeOK
    <2> QED BY <1>0, <1>4, <2>1 DEF PublishState, BeginRelease, TypeOK, TransactionRecord
<1> QED BY <1>1, <1>2, <1>3, <1>4

-----------------------------------------------------------------------------
(* The lock: who relies on it has it, and is alone in that, until it is stolen *)

Lane == TokensDiffer /\ LockIsHeld

\* The places where a call has a token, and those where it relies on the lock.
Relying == {"read", "stage", "commit", "publish"}
Tokened == Relying \union {"write", "readback"}

\* Two calls rely on the lock at once only when one has lost it.
LEMMA AloneUnlessStolen ==
    ASSUME Lane, ~stolen, NEW p \in Proc, NEW q \in Proc, pc[p] \in Relying, pc[q] \in Relying
    PROVE  p = q
BY DEF Lane, TokensDiffer, LockIsHeld, Relies, Relying

\* A step of p that keeps the lock, or displaces it and admits so, and puts no new token.
LEMMA LaneKept ==
    ASSUME TypeOK, Lane, NEW p \in Proc, NEW l, pc' = [pc EXCEPT ![p] = l],
           \/ tok' = tok /\ (l \in Tokened => tok[p] # None)
           \/ tok' = [tok EXCEPT ![p] = None] /\ l \notin Tokened,
           \/ /\ lock' = lock /\ stolen' = stolen
              /\ l \in Relying => pc[p] \in Relying \/ (lock # None /\ lock.token = tok[p])
           \/ Displaces(p) /\ l \notin Relying
    PROVE  Lane'
<1>1. TokensDiffer'
    BY DEF TypeOK, Lane, TokensDiffer
<1>2. ASSUME NEW q \in Proc, pc'[q] \in Tokened
      PROVE  tok'[q] # None /\ tok'[q] = tok[q]
    BY <1>2 DEF TypeOK, Lane, LockIsHeld, Relies, Tokened, Relying
<1>3. ASSUME NEW q \in Proc, pc'[q] \in Relying, ~stolen'
      PROVE  lock' # None /\ lock'.token = tok'[q]
    <2>1. tok'[q] = tok[q]
        BY <1>2, <1>3 DEF Tokened
    <2>2. CASE Displaces(p) /\ l \notin Relying
        <3>1. q # p /\ pc[q] \in Relying
            BY <1>3, <2>2 DEF TypeOK
        <3> QED BY <1>3, <2>2, <3>1 DEF Displaces, Lane, LockIsHeld, Relies, Relying
    <2>3. CASE lock' = lock /\ stolen' = stolen
               /\ (l \in Relying => pc[p] \in Relying \/ (lock # None /\ lock.token = tok[p]))
        <3>1. pc[q] \in Relying \/ (lock # None /\ lock.token = tok[q])
            BY <1>3, <2>3 DEF TypeOK
        <3> QED BY <1>3, <2>1, <2>3, <3>1 DEF Lane, LockIsHeld, Relies, Relying
    <2> QED BY <2>2, <2>3
<1>4. LockIsHeld'
    BY <1>2, <1>3 DEF LockIsHeld, Relies, Tokened, Relying
<1> QED BY <1>1, <1>4 DEF Lane

\* A created lock has a token of its own.
LEMMA CreateLane == ASSUME TypeOK, Lane, NEW p \in Proc, CreateLock(p) PROVE Lane'
<1>1. CASE /\ lock # None /\ Goto(p, "inspect") /\ UNCHANGED <<lock, tok, mine>>
    <2>1. pc' = [pc EXCEPT ![p] = "inspect"] /\ UNCHANGED <<tok, lock, stolen>>
        BY <1>1 DEF CreateLock, Goto
    <2>2. "inspect" \notin Tokened /\ "inspect" \notin Relying
        BY DEF Tokened, Relying
    <2> QED BY <2>1, <2>2, LaneKept
<1>2. CASE lock = None
    <2>1. PICK t \in Token \ InUse : tok' = [tok EXCEPT ![p] = t]
        BY <1>2 DEF CreateLock
    <2>2. pc' = [pc EXCEPT ![p] = "write"] /\ stolen' = stolen
        BY <1>2 DEF CreateLock, Goto
    <2>3. \A q \in Proc : tok[q] # t
        BY <2>1 DEF InUse
    <2>4. TokensDiffer'
        BY <2>1, <2>3 DEF TypeOK, Lane, TokensDiffer
    <2>5. t # None
        BY <2>1, RecordAssumption
    <2>6. LockIsHeld'
        BY <1>2, <2>1, <2>2, <2>5 DEF TypeOK, Lane, LockIsHeld, Relies
    <2> QED BY <2>4, <2>6 DEF Lane
<1> QED BY <1>1, <1>2 DEF CreateLock

\* Writing the owner changes the token of no file.
LEMMA WriteLane == ASSUME TypeOK, Lane, NEW p \in Proc, WriteLock(p) PROVE Lane'
<1>0. tok' = tok /\ stolen' = stolen
    BY DEF WriteLock
<1>1. PICK l : pc' = [pc EXCEPT ![p] = l] /\ l \in {"readback", "release"}
    BY DEF WriteLock, BeginRelease, Goto
<1>2. /\ lock = None <=> lock' = None
      /\ lock # None => lock'.token = lock.token
    <2>1. CASE UNCHANGED lock BY <2>1
    <2>2. CASE lock' = IF lock # None /\ lock.token = tok[p] THEN [lock EXCEPT !.whole = TRUE] ELSE lock
        <3>1. ASSUME lock # None, lock.token = tok[p]
              PROVE  lock' \in LockFile /\ lock'.token = lock.token
            BY <2>2, <3>1 DEF TypeOK, LockFile
        <3> QED BY <2>2, <3>1, RecordAssumption
    <2> QED BY <2>1, <2>2 DEF WriteLock
<1>3. TokensDiffer'
    BY <1>0 DEF Lane, TokensDiffer
<1>4. LockIsHeld'
    <2>1. pc[p] = "write"
        BY DEF WriteLock
    <2> QED BY <1>0, <1>1, <1>2, <2>1 DEF TypeOK, Lane, LockIsHeld, Relies
<1> QED BY <1>3, <1>4 DEF Lane

\* Every step of a call, a crash and a restart leave the lock to whom it belongs.
LEMMA LaneStep ==
    ASSUME TypeOK, Lane, NEW p \in Proc,
           Step(p) \/ Call(p) \/ Look(p) \/ Crash(p) \/ Restart(p)
    PROVE  Lane'
<1> USE DEF Goto, BeginRelease, Return, Tokened, Relying
<1>0. pc[p] \in Tokened => tok[p] # None
    BY DEF Lane, LockIsHeld, Relies
<1>1. CASE Call(p)
    BY <1>1, LaneKept DEF Call
<1>2. CASE CreateLock(p)
    BY <1>2, CreateLane
<1>3. CASE WriteLock(p)
    BY <1>3, WriteLane
<1>4. CASE ReadbackLock(p)
    <2>1. tok[p] \in Token
        BY <1>0, <1>4 DEF ReadbackLock, TypeOK
    <2>2. ASSUME lock = [token |-> tok[p], whole |-> TRUE] PROVE lock # None /\ lock.token = tok[p]
        <3>1. lock \in LockFile
            BY <2>1, <2>2 DEF LockFile
        <3> QED BY <2>2, <3>1, RecordAssumption
    <2> QED BY <1>0, <1>4, <2>2, LaneKept DEF ReadbackLock
<1>5. CASE InspectLock(p)
    <2>1. UNCHANGED <<lock, stolen>>
        BY <1>5 DEF InspectLock
    <2>2. CASE pc' = [pc EXCEPT ![p] = "idle"] /\ tok' = [tok EXCEPT ![p] = None]
        BY <2>1, <2>2, LaneKept
    <2>3. CASE pc' = [pc EXCEPT ![p] = "move"] /\ tok' = tok
        BY <2>1, <2>3, LaneKept
    <2> QED BY <1>5, <2>2, <2>3 DEF InspectLock
<1>6. CASE MoveLock(p)
    <2>1. CASE Displaces(p) /\ pc' = [pc EXCEPT ![p] = "create"] /\ tok' = tok
        BY <2>1, LaneKept
    <2>2. CASE pc' = [pc EXCEPT ![p] = "idle"] /\ tok' = [tok EXCEPT ![p] = None]
               /\ UNCHANGED <<lock, stolen>>
        BY <2>2, LaneKept
    <2> QED BY <1>6, <2>1, <2>2 DEF MoveLock
<1>7. CASE Decide(p)
    <2>1. UNCHANGED <<tok, lock, stolen>> /\ pc[p] \in Relying /\ tok[p] # None
        BY <1>0, <1>7 DEF Decide
    <2>2. PICK l : pc' = [pc EXCEPT ![p] = l]
        BY <1>7 DEF Decide
    <2> QED BY <2>1, <2>2, LaneKept
<1>8. CASE StageGeneration(p)
    <2>1. UNCHANGED <<tok, lock, stolen>> /\ pc[p] \in Relying /\ tok[p] # None
        BY <1>0, <1>8 DEF StageGeneration
    <2>2. PICK l : pc' = [pc EXCEPT ![p] = l]
        BY <1>8 DEF StageGeneration
    <2> QED BY <2>1, <2>2, LaneKept
<1>9. CASE CommitGeneration(p)
    <2>1. UNCHANGED <<tok, lock, stolen>> /\ pc[p] \in Relying /\ tok[p] # None
        BY <1>0, <1>9 DEF CommitGeneration
    <2>2. PICK l : pc' = [pc EXCEPT ![p] = l]
        BY <1>9 DEF CommitGeneration
    <2> QED BY <2>1, <2>2, LaneKept
<1>10. CASE PublishState(p)
    <2>1. UNCHANGED <<tok, lock, stolen>> /\ pc' = [pc EXCEPT ![p] = "release"]
        BY <1>10 DEF PublishState
    <2> QED BY <2>1, LaneKept
<1>11. CASE ReleaseLock(p)
    <2>1. CASE Displaces(p) /\ pc' = [pc EXCEPT ![p] = "verify"] /\ tok' = tok
        BY <2>1, LaneKept
    <2>2. CASE pc' = [pc EXCEPT ![p] = "idle"] /\ tok' = [tok EXCEPT ![p] = None]
               /\ UNCHANGED <<lock, stolen>>
        BY <2>2, LaneKept
    <2>3. CASE pc' = [pc EXCEPT ![p] = "release"] /\ tok' = tok /\ UNCHANGED <<lock, stolen>>
        BY <2>3, LaneKept
    <2> QED BY <1>11, <2>1, <2>2, <2>3 DEF ReleaseLock
<1>12. CASE VerifyRelease(p)
    <2>1. CASE Displaces(p) /\ pc' = [pc EXCEPT ![p] = "release"] /\ tok' = tok
        BY <2>1, LaneKept
    <2>2. CASE pc' = [pc EXCEPT ![p] = "idle"] /\ tok' = [tok EXCEPT ![p] = None]
               /\ (UNCHANGED <<lock, stolen>> \/ Displaces(p))
        BY <2>2, LaneKept
    <2> QED BY <1>12, <2>1, <2>2 DEF VerifyRelease
<1>13. CASE Look(p)
    BY <1>13 DEF Look, Lane, TokensDiffer, LockIsHeld, Relies
<1>14. CASE Crash(p)
    BY <1>14, LaneKept DEF Crash
<1>15. CASE Restart(p)
    BY <1>15, LaneKept DEF Restart
<1> QED BY <1>1, <1>2, <1>3, <1>4, <1>5, <1>6, <1>7, <1>8, <1>9, <1>10, <1>11, <1>12, <1>13,
           <1>14, <1>15 DEF Step

-----------------------------------------------------------------------------
(* Every step keeps the invariant *)

\* The part of IInv that is about the record and its generation.
Durable == StoredParses /\ PendingIsSound /\ ProofIsOnDisk /\ AcknowledgedIsDurable

\* What PendingIsSound says of one call.
Sound(p) ==
    /\ pc[p] \in {"stage", "commit", "publish"} =>
           next[p] # None /\ validStateInvariants(next[p]) /\ HasProof(next[p])
    /\ pc[p] \in {"stage", "commit"} => next[p].status = "COMMITTING"
    /\ ~stolen /\ pc[p] \in {"stage", "commit"} => next[p] = stored
    /\ ~stolen /\ pc[p] = "publish" => Follows(p)

LEMMA SoundCalls == PendingIsSound <=> \A p \in Proc : Sound(p)
BY DEF PendingIsSound, Sound

\* A generation is never replaced, so a proof that is on disk stays there.
LEMMA ProofStays ==
    ASSUME UNCHANGED gen \/ gen = None, NEW s, HasProof(s)
    PROVE  HasProof(s)'
BY DEF HasProof

\* A call that does not move and whose record is stored stays sound while the stored record
\* does not change.
LEMMA OthersSound ==
    ASSUME TypeOK, NEW q \in Proc, Sound(q), pc'[q] = pc[q], next'[q] = next[q],
           stored' = stored, UNCHANGED gen \/ gen = None, stolen => stolen'
    PROVE  Sound(q)'
<1>1. HasProof(next[q]) => HasProof(next[q])'
    BY ProofStays
<1>2. pc'[q] \in {"stage", "commit", "publish"} => HasProof(next[q])
    BY DEF Sound
<1>3. pc'[q] \in {"stage", "commit", "publish"} => HasProof(next[q])'
    BY <1>1, <1>2
<1>4. Follows(q) => Follows(q)'
    BY ResultsOf DEF Follows
<1>5. pc'[q] \in {"stage", "commit", "publish"} =>
          next'[q] # None /\ validStateInvariants(next'[q])
    BY DEF Sound
<1> QED BY <1>3, <1>4, <1>5 DEF Sound

\* A step that publishes nothing and prepares nothing: p goes to a place where what it had
\* prepared is not looked at again.
LEMMA QuietStep ==
    ASSUME TypeOK, Durable, NEW p \in Proc, NEW l, pc' = [pc EXCEPT ![p] = l],
           l \notin {"stage", "commit", "publish"}, UNCHANGED <<stored, gen>>, stolen => stolen',
           \A q \in Proc : q # p => next'[q] = next[q],
           \A q \in Proc : view'[q] = view[q] \/ view'[q] = None
    PROVE  Durable'
<1>1. StoredParses' /\ ProofIsOnDisk'
    BY DEF Durable, StoredParses, ProofIsOnDisk
<1>2. AcknowledgedIsDurable'
    BY DEF Durable, AcknowledgedIsDurable
<1>3. ASSUME NEW q \in Proc PROVE Sound(q)'
    <2>1. CASE q = p
        BY <2>1 DEF Sound, TypeOK
    <2>2. CASE q # p
        BY <2>2, OthersSound, SoundCalls DEF Durable, TypeOK
    <2> QED BY <2>1, <2>2
<1>4. PendingIsSound'
    BY <1>3 DEF PendingIsSound, Sound
<1> QED BY <1>1, <1>2, <1>4 DEF Durable

\* The steps that neither prepare nor publish anything.
LockAction(p) ==
    \/ Call(p) \/ CreateLock(p) \/ WriteLock(p) \/ ReadbackLock(p) \/ InspectLock(p)
    \/ MoveLock(p) \/ (StageGeneration(p) /\ pc'[p] = "release")
    \/ ReleaseLock(p) \/ VerifyRelease(p) \/ Crash(p) \/ Restart(p)

LEMMA LockStep == ASSUME IInv, NEW p \in Proc, LockAction(p) PROVE Durable'
<1> USE DEF LockAction
<1>0. TypeOK /\ Durable
    BY DEF IInv, Durable
<1>1. PICK l \in {"idle", "create", "write", "readback", "inspect", "move", "read", "release",
                 "verify", "down"} : pc' = [pc EXCEPT ![p] = l]
    <2> USE <1>0 DEF Goto, BeginRelease, Return
    <2>1. CASE Call(p) BY <2>1 DEF Call
    <2>2. CASE CreateLock(p) BY <2>2 DEF CreateLock
    <2>3. CASE WriteLock(p) BY <2>3 DEF WriteLock
    <2>4. CASE ReadbackLock(p) BY <2>4 DEF ReadbackLock
    <2>5. CASE InspectLock(p) BY <2>5 DEF InspectLock
    <2>6. CASE MoveLock(p) BY <2>6 DEF MoveLock
    <2>7. CASE StageGeneration(p) /\ pc'[p] = "release" BY <2>7 DEF StageGeneration, TypeOK
    <2>8. CASE ReleaseLock(p) BY <2>8 DEF ReleaseLock
    <2>9. CASE VerifyRelease(p) BY <2>9 DEF VerifyRelease
    <2>10. CASE Crash(p) BY <2>10 DEF Crash
    <2>11. CASE Restart(p) BY <2>11 DEF Restart
    <2> QED BY <2>1, <2>2, <2>3, <2>4, <2>5, <2>6, <2>7, <2>8, <2>9, <2>10, <2>11
<1>2. UNCHANGED <<stored, gen>>
    BY DEF Call, CreateLock, WriteLock, ReadbackLock, InspectLock, MoveLock, StageGeneration,
           ReleaseLock, VerifyRelease, Crash, Restart
<1>3. stolen => stolen'
    BY DEF Call, CreateLock, WriteLock, ReadbackLock, InspectLock, MoveLock, StageGeneration,
           ReleaseLock, VerifyRelease, Crash, Restart, Displaces
<1>4. \A q \in Proc : q # p => next'[q] = next[q]
    BY <1>0 DEF Call, CreateLock, WriteLock, ReadbackLock, InspectLock, MoveLock,
           StageGeneration, ReleaseLock, VerifyRelease, Crash, Restart, Return, TypeOK
<1>5. \A q \in Proc : view'[q] = view[q] \/ view'[q] = None
    BY <1>0 DEF Call, CreateLock, WriteLock, ReadbackLock, InspectLock, MoveLock,
           StageGeneration, ReleaseLock, VerifyRelease, Crash, Restart, TypeOK
<1> QED BY <1>0, <1>1, <1>2, <1>3, <1>4, <1>5, QuietStep

\* Reading the record acknowledges its revision.
LEMMA LookStep == ASSUME IInv, NEW p \in Proc, Look(p) PROVE Durable'
<1>1. StoredParses' /\ ProofIsOnDisk'
    BY DEF IInv, Look, StoredParses, ProofIsOnDisk
<1>2. PendingIsSound'
    <2>1. ASSUME NEW q \in Proc PROVE Sound(q)'
        BY OthersSound, SoundCalls DEF IInv, Look
    <2> QED BY <2>1 DEF PendingIsSound, Sound
<1>3. AcknowledgedIsDurable'
    BY DEF IInv, Look, AcknowledgedIsDurable, TypeOK, TransactionRecord
<1> QED BY <1>1, <1>2, <1>3 DEF Durable

\* A call decides on what is stored; only a thief can change that before it publishes.
LEMMA DecideStep == ASSUME IInv, NEW p \in Proc, Decide(p) PROVE Durable'
<1>0. TypeOK /\ Durable /\ UNCHANGED <<stored, gen, stolen>>
    BY DEF IInv, Durable, Decide
<1>1. PICK l : pc' = [pc EXCEPT ![p] = l]
    BY DEF Decide, BeginRelease, Goto
<1>2. StoredParses' /\ ProofIsOnDisk' /\ AcknowledgedIsDurable'
    BY <1>0 DEF Durable, Decide, StoredParses, ProofIsOnDisk, AcknowledgedIsDurable
<1>3. ASSUME NEW q \in Proc, q # p PROVE Sound(q)'
    <2>1. pc'[q] = pc[q] /\ next'[q] = next[q]
        BY <1>0, <1>1, <1>3 DEF Decide, TypeOK
    <2> QED BY <1>0, <2>1, OthersSound, SoundCalls DEF Durable
<1>4. Sound(p)'
    <2>1. CASE \E s \in Transitions(p) :
                   validStateInvariants(s) /\ next' = [next EXCEPT ![p] = s] /\ Goto(p, "publish")
        <3>1. PICK s \in Transitions(p) :
                  validStateInvariants(s) /\ next' = [next EXCEPT ![p] = s] /\ Goto(p, "publish")
            BY <2>1
        <3>2. next'[p] = s /\ pc'[p] = "publish"
            BY <1>0, <3>1 DEF TypeOK, Goto
        <3>3. s \in Results
            BY <3>1 DEF Transitions
        <3>4. /\ s \in TransactionRecord
              /\ stored = None => s.proof = None
              /\ stored # None => s.proof = stored.proof /\ (s.proof # None => s.outcome = stored.outcome)
            BY <1>0, <3>3, TransitionShape DEF TypeOK, Durable
        <3>5. HasProof(s)'
            BY <1>0, <3>4 DEF HasProof, Durable, ProofIsOnDisk
        <3>6. HasProof(next[p])'
            BY <3>2, <3>5 DEF HasProof
        <3>7. Follows(p)'
            BY <1>0, <3>2, <3>3, ResultsOf DEF Follows
        <3>8. s # None
            BY <3>4, RecordAssumption
        <3> QED BY <3>1, <3>2, <3>6, <3>7, <3>8 DEF Sound
    <2>2. CASE /\ stored # None /\ stored.status = "COMMITTING"
               /\ next' = [next EXCEPT ![p] = stored] /\ Goto(p, "stage")
        <3>1. next'[p] = stored /\ pc'[p] = "stage"
            BY <1>0, <2>2 DEF TypeOK, Goto
        <3>2. validStateInvariants(stored) /\ HasProof(stored)
            BY <1>0, <2>2 DEF Durable, StoredParses, ProofIsOnDisk, HasProof
        <3>3. HasProof(next[p])'
            BY <1>0, <3>1, <3>2 DEF HasProof
        <3> QED BY <1>0, <2>2, <3>1, <3>2, <3>3 DEF Sound
    <2>3. CASE BeginRelease(p, 2)
        BY <1>0, <2>3 DEF TypeOK, Goto, BeginRelease, Sound
    <2> QED BY <2>1, <2>2, <2>3 DEF Decide
<1>5. PendingIsSound'
    BY <1>3, <1>4 DEF PendingIsSound, Sound
<1> QED BY <1>2, <1>5 DEF Durable

\* The staged generation is for the record that was read.
LEMMA StageStep ==
    ASSUME IInv, NEW p \in Proc, StageGeneration(p), pc'[p] = "commit"
    PROVE  Durable'
<1>0. TypeOK /\ Durable /\ pc[p] = "stage"
    BY DEF IInv, Durable, StageGeneration
<1>1. pc' = [pc EXCEPT ![p] = "commit"] /\ UNCHANGED <<stored, gen, next, view, stolen>>
    BY <1>0 DEF StageGeneration, BeginRelease, Goto, TypeOK
<1>2. StoredParses' /\ ProofIsOnDisk' /\ AcknowledgedIsDurable'
    BY <1>0, <1>1 DEF Durable, StoredParses, ProofIsOnDisk, AcknowledgedIsDurable
<1>3. ASSUME NEW q \in Proc, q # p PROVE Sound(q)'
    BY <1>0, <1>1, <1>3, OthersSound, SoundCalls DEF Durable, TypeOK
<1>4. Sound(p)'
    <2>1. Sound(p)
        BY <1>0, SoundCalls DEF Durable
    <2> QED BY <1>0, <1>1, <2>1 DEF Sound, HasProof, TypeOK
<1>5. PendingIsSound'
    BY <1>3, <1>4 DEF PendingIsSound, Sound
<1> QED BY <1>2, <1>5 DEF Durable

\* The generation is on disk before the record that names it is published.
LEMMA CommitStep == ASSUME IInv, NEW p \in Proc, CommitGeneration(p) PROVE Durable'
<1>0. TypeOK /\ Durable /\ pc[p] = "commit" /\ UNCHANGED <<stored, stolen, view>>
    BY DEF IInv, Durable, CommitGeneration
<1>1. /\ next[p] \in TransactionRecord /\ validStateInvariants(next[p])
      /\ next[p].status = "COMMITTING"
      /\ ~stolen => next[p] = stored
    BY <1>0 DEF Durable, PendingIsSound, TypeOK
<1>2. CASE BeginRelease(p, 2) /\ UNCHANGED <<gen, next>>
    <2>1. pc' = [pc EXCEPT ![p] = "release"] /\ UNCHANGED <<stored, gen, next, view>>
        BY <1>0, <1>2 DEF BeginRelease, Goto
    <2> QED BY <1>0, <2>1, QuietStep
<1>3. CASE /\ gen = None
           /\ gen' = [revision |-> next[p].revision, outcome |-> next[p].outcome]
           /\ next' \in {[next EXCEPT ![p] = s] :
                             s \in publishDelegationCommit(next[p], next[p].revision)}
           /\ Goto(p, "publish")
    <2>1. PICK s \in publishDelegationCommit(next[p], next[p].revision) :
              next' = [next EXCEPT ![p] = s]
        BY <1>3
    <2>2. pc' = [pc EXCEPT ![p] = "publish"] /\ next'[p] = s /\ pc'[p] = "publish"
        BY <1>0, <1>3, <2>1 DEF Goto, TypeOK
    <2>3. /\ s \in TransactionRecord /\ validStateInvariants(s) /\ s # None
          /\ s.proof = next[p].revision /\ s.outcome = next[p].outcome
        BY <1>1, PublishValid, PublishShape, RecordAssumption
    <2>4. gen' # None /\ gen'.revision = next[p].revision /\ gen'.outcome = next[p].outcome
        BY <1>0, <1>1, <1>3, RecordAssumption DEF TransactionRecord,
           validStateInvariants, StatusFits, Generation
    <2>5. StoredParses' /\ ProofIsOnDisk' /\ AcknowledgedIsDurable'
        BY <1>0, <1>3 DEF Durable, StoredParses, ProofIsOnDisk, AcknowledgedIsDurable
    <2>6. ~stolen' => Follows(p)'
        BY <1>0, <1>1, <2>1, <2>2, <2>3, RecordAssumption DEF Follows
    <2>7. HasProof(next[p])'
        BY <2>2, <2>3, <2>4 DEF HasProof
    <2>8. Sound(p)'
        BY <2>2, <2>3, <2>6, <2>7 DEF Sound
    <2>9. ASSUME NEW q \in Proc, q # p PROVE Sound(q)'
        BY <1>0, <1>3, <2>1, <2>2, <2>9, OthersSound, SoundCalls DEF Durable, TypeOK
    <2>10. PendingIsSound'
        BY <2>8, <2>9 DEF PendingIsSound, Sound
    <2> QED BY <2>5, <2>10 DEF Durable
<1> QED BY <1>2, <1>3 DEF CommitGeneration

\* What is published parses; it follows from what is stored, by one transition, unless the
\* lock was stolen.
LEMMA PendingShape ==
    ASSUME IInv, NEW p \in Proc, pc[p] = "publish"
    PROVE  /\ next[p] \in TransactionRecord /\ validStateInvariants(next[p]) /\ HasProof(next[p])
           /\ ~stolen /\ stored # None => next[p].revision = stored.revision + 1
<1>0. /\ stored \in TransactionRecord \union {None} /\ StoredParses /\ Sound(p)
      /\ next[p] \in TransactionRecord
    BY SoundCalls DEF IInv, TypeOK, Sound
<1>1. CASE next[p] \in Results
    BY <1>0, <1>1, TransitionShape DEF Sound
<1>2. CASE stored # None /\ next[p] \in publishDelegationCommit(stored, stored.revision)
    <2>1. stored \in TransactionRecord
        BY <1>0, <1>2
    <2> QED BY <1>0, <1>2, <2>1, PublishShape DEF Sound
<1>3. CASE stolen
    BY <1>0, <1>3 DEF Sound
<1> QED BY <1>0, <1>1, <1>2, <1>3 DEF Sound, Follows

LEMMA PublishStep == ASSUME IInv, NEW p \in Proc, PublishState(p) PROVE Durable'
<1>0. TypeOK /\ Durable /\ Lane /\ pc[p] = "publish" /\ UNCHANGED <<gen, next, stolen>>
    BY DEF IInv, Durable, Lane, PublishState
<1>1. pc' = [pc EXCEPT ![p] = "release"]
    BY DEF PublishState, BeginRelease, Goto
<1>2. CASE stored' = stored /\ view' = view
    BY <1>0, <1>1, <1>2, QuietStep
<1>3. CASE stored' = next[p] /\ view' \in {view, [view EXCEPT ![p] = next[p].revision]}
    <2>1. /\ next[p] \in TransactionRecord /\ validStateInvariants(next[p]) /\ HasProof(next[p])
          /\ ~stolen /\ stored # None => next[p].revision = stored.revision + 1
          /\ next[p] # None
        BY <1>0, PendingShape, RecordAssumption
    <2>2. StoredParses' /\ ProofIsOnDisk'
        BY <1>0, <1>3, <2>1 DEF StoredParses, ProofIsOnDisk, HasProof
    <2>3. AcknowledgedIsDurable'
        <3> SUFFICES ASSUME ~stolen, NEW q \in Proc, view'[q] # None
                     PROVE  stored' # None /\ stored'.revision >= view'[q]
            BY <1>0 DEF AcknowledgedIsDurable
        <3>1. next[p].revision \in Nat /\ (stored # None => stored.revision \in Nat)
              /\ view[q] \in Nat \union {None}
            BY <1>0, <2>1 DEF TypeOK, TransactionRecord
        <3>2. CASE view'[q] = view[q]
            BY <1>0, <1>3, <2>1, <3>1, <3>2 DEF Durable, AcknowledgedIsDurable
        <3>3. CASE view'[q] = next[p].revision
            BY <1>3, <2>1, <3>1, <3>3
        <3> QED BY <1>0, <1>3, <3>2, <3>3 DEF TypeOK
    <2>4. ASSUME NEW q \in Proc, q # p PROVE Sound(q)'
        <3>1. pc'[q] = pc[q] /\ Sound(q)
            BY <1>0, <1>1, <2>4, SoundCalls DEF TypeOK, Durable
        <3>2. ~stolen => pc[q] \notin {"stage", "commit", "publish"}
            BY <1>0, <2>4, AloneUnlessStolen DEF Relying
        <3>3. HasProof(next[q]) => HasProof(next[q])'
            BY <1>0 DEF HasProof
        <3> QED BY <1>0, <3>1, <3>2, <3>3 DEF Sound
    <2>5. Sound(p)'
        BY <1>0, <1>1 DEF Sound, TypeOK
    <2>6. PendingIsSound'
        BY <2>4, <2>5 DEF PendingIsSound, Sound
    <2> QED BY <2>2, <2>3, <2>6 DEF Durable
<1> QED BY <1>2, <1>3 DEF PublishState

LEMMA NextIInv == ASSUME IInv, [Next]_vars PROVE IInv'
<1>1. ASSUME NEW p \in Proc, Step(p) \/ Call(p) \/ Look(p) \/ Crash(p) \/ Restart(p)
      PROVE  IInv'
    <2>1. TypeOK' /\ RecoveriesLeft'
        BY <1>1, AcquireTypes, ReleaseTypes, OperationTypes DEF Step, IInv
    <2>2. StageGeneration(p) => pc'[p] \in {"commit", "release"}
        BY DEF StageGeneration, BeginRelease, Goto, IInv, TypeOK
    <2>3. Durable'
        <3>1. CASE StageGeneration(p) /\ pc'[p] = "commit" BY <3>1, StageStep
        <3>2. CASE Look(p) BY <3>2, LookStep
        <3>3. CASE Decide(p) BY <3>3, DecideStep
        <3>4. CASE CommitGeneration(p) BY <3>4, CommitStep
        <3>5. CASE PublishState(p) BY <3>5, PublishStep
        <3>6. CASE LockAction(p) BY <3>6, LockStep
        <3>7. \/ LockAction(p) \/ Look(p) \/ Decide(p) \/ CommitGeneration(p) \/ PublishState(p)
              \/ (StageGeneration(p) /\ pc'[p] = "commit")
            BY <1>1, <2>2 DEF Step, LockAction
        <3> QED BY <3>1, <3>2, <3>3, <3>4, <3>5, <3>6, <3>7
    <2>4. Lane'
        BY <1>1, LaneStep DEF IInv, Lane
    <2> QED BY <2>1, <2>3, <2>4 DEF IInv, Durable, Lane
<1>2. CASE UNCHANGED vars
    <2>1. TypeOK' /\ RecoveriesLeft' /\ Lane'
        BY <1>2 DEF vars, IInv, TypeOK, RecoveriesLeft, Lane, TokensDiffer, LockIsHeld, Relies
    <2>2. ASSUME NEW q \in Proc PROVE Sound(q)'
        BY <1>2, OthersSound, SoundCalls DEF vars, IInv
    <2>3. PendingIsSound'
        BY <2>2 DEF PendingIsSound, Sound
    <2>4. Durable'
        BY <1>2, <2>3 DEF vars, IInv, Durable, StoredParses, ProofIsOnDisk, AcknowledgedIsDurable
    <2> QED BY <2>1, <2>4 DEF IInv, Durable, Lane
<1> QED BY <1>1, <1>2 DEF Next

LEMMA InitIInv == Init => IInv
<1>1. Init => TypeOK /\ RecoveriesLeft
    BY InitTypes
<1>2. Init => TokensDiffer /\ LockIsHeld
    BY DEF Init, TokensDiffer, LockIsHeld, Relies
<1> QED BY <1>1, <1>2 DEF Init, IInv, StoredParses, PendingIsSound, ProofIsOnDisk,
           AcknowledgedIsDurable

-----------------------------------------------------------------------------
(* Theorems *)

\* Whatever calls overlap, crash or fail, the record on disk parses and so does every record
\* about to be published; a call acts on what is stored until its lock is stolen.
THEOREM StorageIsConsistent == Spec => []IInv
<1>1. IInv /\ [Next]_vars => IInv'
    BY NextIInv
<1> QED BY <1>1, InitIInv, PTL DEF Spec

\* A committed record has its generation on disk, even when calls overlap under a stolen lock.
THEOREM CommittedProofIsOnDisk == Spec => []ProofIsOnDisk
<1>1. IInv => ProofIsOnDisk BY DEF IInv
<1> QED BY <1>1, StorageIsConsistent, PTL

\* No revision that a caller was told of is lost before a call has lost its lock.
THEOREM AcknowledgedStays == Spec => []AcknowledgedIsDurable
<1>1. IInv => AcknowledgedIsDurable BY DEF IInv
<1> QED BY <1>1, StorageIsConsistent, PTL

-----------------------------------------------------------------------------
(* The refinement.  The storage applies the transitions of DelegationTransaction, the abstract *)
(* specification its own instance of them.                                                     *)

\* The parser of both.
LEMMA SameParser ==
    ASSUME NEW s PROVE Lifecycle!validStateInvariants(s) <=> validStateInvariants(s)
<1>1. \A o : Lifecycle!evaluateDelegationPostconditions(s, o) = evaluateDelegationPostconditions(s, o)
    BY DEF Lifecycle!evaluateDelegationPostconditions, evaluateDelegationPostconditions,
       Lifecycle!KindReasons, KindReasons, Lifecycle!If, If
<1>2. \A o : Lifecycle!historicalRepairPostconditionsV2(s, o) = historicalRepairPostconditionsV2(s, o)
    BY <1>1 DEF Lifecycle!historicalRepairPostconditionsV2, historicalRepairPostconditionsV2,
       Lifecycle!If, If
<1>3. \A o : Lifecycle!isDelegationInterruptedCandidateV2(s, o)
                <=> isDelegationInterruptedCandidateV2(s, o)
    BY <1>1 DEF Lifecycle!isDelegationInterruptedCandidateV2, isDelegationInterruptedCandidateV2
<1>4. Lifecycle!ReasonsMatch(s) <=> ReasonsMatch(s)
    BY <1>1, <1>2 DEF Lifecycle!ReasonsMatch, ReasonsMatch
<1>5. Lifecycle!StatusFits(s) <=> StatusFits(s)
    BY <1>3 DEF Lifecycle!StatusFits, StatusFits, Lifecycle!Open, Open, Lifecycle!Unstopped,
       Unstopped, Lifecycle!Committed, Committed, Lifecycle!Odd, Odd, Lifecycle!Even, Even
<1> QED BY <1>4, <1>5 DEF Lifecycle!validStateInvariants, validStateInvariants

\* The transitions of both.
LEMMA SameTransitions ==
    ASSUME NEW s
    PROVE  /\ \A k, r : Lifecycle!createPreparedDelegationTransaction(k, r)
                         = createPreparedDelegationTransaction(k, r)
           /\ Lifecycle!startDelegationTransaction(s) = startDelegationTransaction(s)
           /\ Lifecycle!resumeDelegationTransaction(s) = resumeDelegationTransaction(s)
           /\ \A o : Lifecycle!beginDelegationCommit(s, o) = beginDelegationCommit(s, o)
           /\ Lifecycle!abortDelegationTransaction(s) = abortDelegationTransaction(s)
           /\ \A r : Lifecycle!requireDelegationRecovery(s, r) = requireDelegationRecovery(s, r)
           /\ \A n : Lifecycle!publishDelegationCommit(s, n) = publishDelegationCommit(s, n)
<1>1. \A o : Lifecycle!evaluateDelegationPostconditions(s, o) = evaluateDelegationPostconditions(s, o)
    BY DEF Lifecycle!evaluateDelegationPostconditions, evaluateDelegationPostconditions,
       Lifecycle!KindReasons, KindReasons, Lifecycle!If, If
<1>2. Lifecycle!PublishedStatus(s) = PublishedStatus(s)
    BY <1>1 DEF Lifecycle!PublishedStatus, PublishedStatus,
       Lifecycle!isDelegationInterruptedCandidateV2, isDelegationInterruptedCandidateV2
<1>3. \A k, r : Lifecycle!createPreparedDelegationTransaction(k, r)
                = createPreparedDelegationTransaction(k, r)
    BY DEF Lifecycle!createPreparedDelegationTransaction, createPreparedDelegationTransaction
<1>4. /\ Lifecycle!startDelegationTransaction(s) = startDelegationTransaction(s)
      /\ Lifecycle!resumeDelegationTransaction(s) = resumeDelegationTransaction(s)
    BY DEF Lifecycle!startDelegationTransaction, startDelegationTransaction,
       Lifecycle!resumeDelegationTransaction, resumeDelegationTransaction
<1>5. \A o : Lifecycle!beginDelegationCommit(s, o) = beginDelegationCommit(s, o)
    BY <1>1 DEF Lifecycle!beginDelegationCommit, beginDelegationCommit
<1>6. /\ Lifecycle!abortDelegationTransaction(s) = abortDelegationTransaction(s)
      /\ \A r : Lifecycle!requireDelegationRecovery(s, r) = requireDelegationRecovery(s, r)
    BY DEF Lifecycle!abortDelegationTransaction, abortDelegationTransaction,
       Lifecycle!requireDelegationRecovery, requireDelegationRecovery
<1>7. \A n : Lifecycle!publishDelegationCommit(s, n) = publishDelegationCommit(s, n)
    BY <1>2 DEF Lifecycle!publishDelegationCommit, publishDelegationCommit
<1> QED BY <1>3, <1>4, <1>5, <1>6, <1>7

\* A step changes the record only by publishing it.
LEMMA OnlyPublishChanges ==
    ASSUME [Next]_vars
    PROVE  UNCHANGED stored \/ \E p \in Proc : PublishState(p)
BY DEF Next, Step, vars, Call, CreateLock, WriteLock, ReadbackLock, InspectLock, MoveLock,
   Decide, StageGeneration, CommitGeneration, ReleaseLock, VerifyRelease, Look, Crash, Restart

\* The storage implements the lifecycle: until a call has lost its lock, every step that changes
\* the stored record is a transition of TransactionLifecycle; every other step is invisible there.
THEOREM RefinesLifecycle == Spec => ImplementsLifecycle
<1>1. Init => Lifecycle!LifecycleInit
    BY DEF Init, Lifecycle!LifecycleInit
<1>2. ASSUME IInv, ~stolen, NEW p \in Proc, PublishState(p), stored' # stored
      PROVE  Lifecycle!LifecycleNext
    <2>1. stored' = next[p] /\ pc[p] = "publish"
        BY <1>2 DEF PublishState
    <2>2. Follows(p) /\ validStateInvariants(next[p])
        BY <1>2, <2>1 DEF IInv, PendingIsSound
    <2>3. Lifecycle!validStateInvariants(next[p])
        BY <2>2, SameParser
    <2>4. CASE stored = None /\ next[p] \in Results
        <3>1. PICK k \in Kinds : next[p] \in createPreparedDelegationTransaction(k, FALSE)
            BY <2>4 DEF Results
        <3>2. next[p] \in Lifecycle!createPreparedDelegationTransaction(k, FALSE)
            BY <3>1, SameTransitions
        <3>3. Lifecycle!Prepare
            BY <2>1, <2>3, <2>4, <3>2, StorageAssumption DEF Lifecycle!Prepare, Lifecycle!Store
        <3> QED BY <3>3 DEF Lifecycle!LifecycleNext
    <2>5. CASE stored # None /\ next[p] \in Results
        <3>1. Stops \subseteq Lifecycle!StopReason
            BY StorageAssumption DEF StopReason, Lifecycle!StopReason
        <3>2. \/ next[p] \in Lifecycle!startDelegationTransaction(stored)
              \/ stored.revision < MaxResume
                   /\ next[p] \in Lifecycle!resumeDelegationTransaction(stored)
              \/ \E o \in Outcomes : next[p] \in Lifecycle!beginDelegationCommit(stored, o)
              \/ next[p] \in Lifecycle!abortDelegationTransaction(stored)
              \/ \E r \in Lifecycle!StopReason :
                    next[p] \in Lifecycle!requireDelegationRecovery(stored, r)
            BY <2>5, <3>1, SameTransitions DEF Results
        <3>3. \/ Lifecycle!Start \/ Lifecycle!Resume \/ Lifecycle!BeginCommit \/ Lifecycle!Abort
              \/ Lifecycle!RequireRecovery
            BY <2>1, <2>3, <2>5, <3>2
            DEF Lifecycle!Start, Lifecycle!Resume, Lifecycle!BeginCommit, Lifecycle!Abort,
                Lifecycle!RequireRecovery, Lifecycle!Store
        <3> QED BY <3>3 DEF Lifecycle!LifecycleNext
    <2>6. CASE stored # None /\ next[p] \in publishDelegationCommit(stored, stored.revision)
        <3>1. next[p] \in Lifecycle!publishDelegationCommit(stored, stored.revision)
            BY <2>6, SameTransitions
        <3>2. Lifecycle!PublishCommit
            BY <2>1, <2>3, <2>6, <3>1 DEF Lifecycle!PublishCommit, Lifecycle!Store
        <3> QED BY <3>2 DEF Lifecycle!LifecycleNext
    <2> QED BY <2>2, <2>4, <2>5, <2>6 DEF Follows
<1>3. IInv /\ [Next]_vars => [Lifecycle!LifecycleNext \/ stolen]_stored
    BY <1>2, OnlyPublishChanges
<1> QED BY <1>1, <1>3, StorageIsConsistent, PTL DEF Spec, ImplementsLifecycle

\* What is on disk keeps its meaning, whatever calls overlap, crash or fail between two file
\* operations and whoever lost its lock: a success status is earned by the facts
\* (SuccessIsEarned of TransactionLifecycle).  Terminal facts are written once until a call has
\* lost its lock.
THEOREM StoredFactsHold ==
    Spec => /\ []Lifecycle!SuccessIsEarned
            /\ [][stolen \/ stored = None \/ stored.outcome = None
                    \/ SameFacts(stored, stored')]_stored
<1>1. ASSUME IInv, stored # None PROVE stored \in TransactionRecord /\ validStateInvariants(stored)
    BY <1>1 DEF IInv, TypeOK, StoredParses
<1>2. IInv => Lifecycle!SuccessIsEarned
    BY <1>1, StatusIsEarned, NoReasonIsClean DEF Lifecycle!SuccessIsEarned
<1>3. IInv /\ [Next]_vars =>
        [stolen \/ stored = None \/ stored.outcome = None \/ SameFacts(stored, stored')]_stored
    <2> SUFFICES ASSUME IInv, [Next]_vars, stored' # stored, ~stolen, stored # None,
                        stored.outcome # None
                 PROVE  SameFacts(stored, stored')
        OBVIOUS
    <2>1. PICK p \in Proc : PublishState(p)
        BY OnlyPublishChanges
    <2>2. stored' = next[p] /\ Follows(p)
        BY <2>1 DEF PublishState, IInv, PendingIsSound
    <2> QED BY <1>1, <2>2, TransitionsKeepFacts, StorageAssumption DEF Follows, Results
<1> QED BY <1>2, <1>3, StorageIsConsistent, PTL DEF Spec

=============================================================================
