----------------------- MODULE DelegationTransaction -----------------------
(***************************************************************************)
(* The lifecycle of one delegation, core/delegation-transaction.ts: which  *)
(* transition a stored record admits, which machine facts of the worker    *)
(* decide the terminal status, and which records the strict parser accepts.*)
(*                                                                         *)
(* A transition is the set of records it may return: the empty set is the  *)
(* code's { ok: false }.  The identities a call must repeat (delegation,   *)
(* contract, worker, generation) are fixed for a record and left out; the  *)
(* revision compare-and-set is with the callers, in TransactionStorage.    *)
(***************************************************************************)
EXTENDS Integers

CONSTANTS
    Outcomes,     \* the worker outcomes a run may end with
    None,         \* null
    MaxResume     \* bound: a record is resumed below this revision only

(***************************************************************************)
(* DelegationTerminalOutcome.  worker is the pair worker_success and       *)
(* worker_failure_code: "historical" has neither field, "interrupted" is a *)
(* code of WORKER_RUN_INTERRUPTION_FAILURE_CODES, "failed" another code.   *)
(* paths tells whether changed_paths is empty and within allowed_paths.    *)
(***************************************************************************)
Outcome == [provider : BOOLEAN, worker : {"historical", "ok", "interrupted", "failed"},
            exitZero : BOOLEAN, report : BOOLEAN, facts : BOOLEAN, scope : BOOLEAN,
            change : {"ATTRIBUTED", "WORKSPACE_DRIFT", "CONFLICT"},
            paths : {"none", "inside", "outside"}, hash : BOOLEAN,
            wrote : BOOLEAN, denied : BOOLEAN]

ASSUME TransactionAssumption ==
    /\ Outcomes \subseteq Outcome
    /\ None \notin Outcome
    /\ None \notin Nat
    /\ MaxResume \in Nat

Status == {"PREPARED", "RUNNING", "COMMITTING", "FINISHED", "PENDING_REVIEW", "INTERRUPTED",
           "REVIEWED", "FAILED", "ABORTED", "RECOVERY_REQUIRED"}

Reason == {"PROVIDER_NOT_SUCCESS", "WORKER_RUN_FAILED", "EXIT_CODE_NOT_ZERO",
           "REPORT_INCOMPLETE", "TERMINAL_FACTS_INCOMPLETE", "SCOPE_INCOMPLETE",
           "WORKSPACE_DRIFT_DETECTED", "CHANGE_SET_CONFLICT", "OUT_OF_SCOPE_CHANGES",
           "IMPLEMENTATION_DELTA_REQUIRED", "IMPLEMENTATION_DELTA_HASH_REQUIRED",
           "DIAGNOSIS_DELTA_FORBIDDEN", "DIAGNOSIS_SUCCESSFUL_WRITES_FORBIDDEN",
           "DIAGNOSIS_DENIED_WRITES_FORBIDDEN"}

\* The two recovery reasons a checkpoint may resume from, the one publish
\* writes, any other text, and null.
RecoveryReason == {"runner failed", "budget paused", "facts incomplete", "other", "null"}

\* The texts a caller stops a run with.
StopReason == {"runner failed", "budget paused", "other"}

\* proof and review hold the transaction revision they are bound to; reasons
\* is a set because the code keeps one fixed order.
TransactionRecord ==
    [kind : {"implementation", "diagnosis"}, repair : BOOLEAN, status : Status,
     revision : Nat, outcome : Outcome \union {None}, reasons : SUBSET Reason,
     proof : Nat \union {None}, review : Nat \union {None},
     aborted : BOOLEAN, recovery : RecoveryReason]

-----------------------------------------------------------------------------
(* The facts decide *)

\* The reason r applies exactly when p does.
If(p, r) == IF p THEN {r} ELSE {}

\* Mutant: denied write attempts of a diagnosis are not counted.
MutantKindReasons(s, o) ==
    IF s.kind = "implementation"
    THEN If(o.paths = "none" /\ ~s.repair, "IMPLEMENTATION_DELTA_REQUIRED")
         \union If(~o.hash, "IMPLEMENTATION_DELTA_HASH_REQUIRED")
    ELSE If(o.paths # "none" \/ o.hash, "DIAGNOSIS_DELTA_FORBIDDEN")
         \union If(o.wrote, "DIAGNOSIS_SUCCESSFUL_WRITES_FORBIDDEN")

\* An implementation must change something, a repair successor excepted; a
\* diagnosis must not even try.
KindReasons(s, o) ==
    IF s.kind = "implementation"
    THEN If(o.paths = "none" /\ ~s.repair, "IMPLEMENTATION_DELTA_REQUIRED")
         \union If(~o.hash, "IMPLEMENTATION_DELTA_HASH_REQUIRED")
    ELSE If(o.paths # "none" \/ o.hash, "DIAGNOSIS_DELTA_FORBIDDEN")
         \union If(o.wrote, "DIAGNOSIS_SUCCESSFUL_WRITES_FORBIDDEN")
         \union If(o.denied, "DIAGNOSIS_DENIED_WRITES_FORBIDDEN")

evaluateDelegationPostconditions(s, o) ==
    If(~o.provider, "PROVIDER_NOT_SUCCESS")
    \union If(o.worker \in {"interrupted", "failed"}, "WORKER_RUN_FAILED")
    \union If(~o.exitZero, "EXIT_CODE_NOT_ZERO")
    \union If(~o.report, "REPORT_INCOMPLETE")
    \union If(~o.facts, "TERMINAL_FACTS_INCOMPLETE")
    \union If(~o.scope, "SCOPE_INCOMPLETE")
    \union If(o.change = "WORKSPACE_DRIFT", "WORKSPACE_DRIFT_DETECTED")
    \union If(o.change = "CONFLICT", "CHANGE_SET_CONFLICT")
    \union If(o.paths = "outside", "OUT_OF_SCOPE_CHANGES")
    \union KindReasons(s, o)

\* Records of repair successors written before a zero delta was allowed.
historicalRepairPostconditionsV2(s, o) ==
    evaluateDelegationPostconditions(s, o)
    \union If(s.kind = "implementation" /\ s.repair /\ o.paths = "none",
              "IMPLEMENTATION_DELTA_REQUIRED")

isDelegationInterruptedCandidateV2(s, o) ==
    /\ s.kind = "implementation" /\ o.worker = "interrupted"
    /\ o.provider /\ o.facts /\ o.scope
    /\ o.change = "ATTRIBUTED" /\ o.paths = "inside" /\ o.hash
    /\ "WORKER_RUN_FAILED" \in evaluateDelegationPostconditions(s, o)
    /\ evaluateDelegationPostconditions(s, o)
           \subseteq {"WORKER_RUN_FAILED", "EXIT_CODE_NOT_ZERO", "REPORT_INCOMPLETE"}

-----------------------------------------------------------------------------
(* The strict parser: validStateInvariants *)

Odd(n) == n % 2 = 1
Even(n) == n % 2 = 0

Unstopped(s) == ~s.aborted /\ s.recovery = "null"

\* No terminal facts yet.
Open(s) == s.outcome = None /\ s.proof = None /\ s.review = None

\* Terminal facts and the generation of the revision before this one.
Committed(s) ==
    /\ s.revision >= 3 /\ Odd(s.revision)
    /\ s.outcome # None /\ s.proof = s.revision - 1 /\ s.review = None

ReasonsMatch(s) ==
    IF s.outcome = None
    THEN s.reasons = {}
    ELSE s.reasons \in {evaluateDelegationPostconditions(s, s.outcome),
                        historicalRepairPostconditionsV2(s, s.outcome)}

\* What each status demands of the rest of the record.
StatusFits(s) ==
    /\ s.status = "PREPARED" => s.revision = 0 /\ Open(s) /\ Unstopped(s)
    /\ s.status = "RUNNING" => Odd(s.revision) /\ Open(s) /\ Unstopped(s)
    /\ s.status = "COMMITTING" =>
            /\ s.revision >= 2 /\ Even(s.revision)
            /\ s.outcome # None /\ s.proof = None /\ s.review = None /\ Unstopped(s)
    /\ s.status = "PENDING_REVIEW" =>
            Committed(s) /\ s.kind = "implementation" /\ s.reasons = {} /\ Unstopped(s)
    /\ s.status = "INTERRUPTED" =>
            Committed(s) /\ isDelegationInterruptedCandidateV2(s, s.outcome) /\ Unstopped(s)
    /\ s.status = "FINISHED" =>
            Committed(s) /\ s.kind = "diagnosis" /\ s.reasons = {} /\ Unstopped(s)
    /\ s.status = "REVIEWED" =>
            /\ s.revision >= 4 /\ Even(s.revision) /\ s.kind = "implementation"
            /\ s.outcome # None /\ s.proof = s.revision - 2 /\ s.review = s.revision - 1
            /\ s.reasons = {} /\ Unstopped(s)
    /\ s.status = "FAILED" =>
            /\ Committed(s) /\ s.reasons # {} /\ s.outcome.facts /\ s.outcome.scope
            /\ ~isDelegationInterruptedCandidateV2(s, s.outcome) /\ Unstopped(s)
    /\ s.status = "ABORTED" =>
            s.revision \in {1, 2} /\ Open(s) /\ s.aborted /\ s.recovery = "null"
    /\ s.status = "RECOVERY_REQUIRED" =>
            /\ s.review = None /\ ~s.aborted /\ s.recovery # "null"
            /\ IF s.outcome = None
               THEN s.revision >= 2 /\ Even(s.revision) /\ s.proof = None
               ELSE s.revision >= 3 /\ Odd(s.revision) /\ s.proof \in {None, s.revision - 1}

validStateInvariants(s) ==
    /\ s.repair => s.kind = "implementation"
    /\ ReasonsMatch(s)
    /\ StatusFits(s)

-----------------------------------------------------------------------------
(* The transitions *)

createPreparedDelegationTransaction(kind, repair) ==
    IF repair => kind = "implementation"
    THEN {[kind |-> kind, repair |-> repair, status |-> "PREPARED", revision |-> 0,
           outcome |-> None, reasons |-> {}, proof |-> None, review |-> None,
           aborted |-> FALSE, recovery |-> "null"]}
    ELSE {}

startDelegationTransaction(s) ==
    IF s.status = "PREPARED"
    THEN {[s EXCEPT !.revision = @ + 1, !.status = "RUNNING"]}
    ELSE {}

\* Mutant: the recovery reason survives the resumption.
MutantResume(s) ==
    IF /\ s.status = "RECOVERY_REQUIRED" /\ s.outcome = None /\ s.proof = None
       /\ s.recovery \in {"runner failed", "budget paused"}
    THEN {[s EXCEPT !.revision = @ + 1, !.status = "RUNNING"]}
    ELSE {}

resumeDelegationTransaction(s) ==
    IF /\ s.status = "RECOVERY_REQUIRED" /\ s.outcome = None /\ s.proof = None
       /\ s.recovery \in {"runner failed", "budget paused"}
    THEN {[s EXCEPT !.revision = @ + 1, !.status = "RUNNING", !.recovery = "null"]}
    ELSE {}

beginDelegationCommit(s, o) ==
    IF s.status = "RUNNING"
    THEN {[s EXCEPT !.revision = @ + 1, !.status = "COMMITTING", !.outcome = o,
                    !.reasons = evaluateDelegationPostconditions(s, o)]}
    ELSE {}

\* The status a committed generation is published with.
PublishedStatus(s) ==
    IF ~s.outcome.facts \/ ~s.outcome.scope THEN "RECOVERY_REQUIRED"
    ELSE IF isDelegationInterruptedCandidateV2(s, s.outcome) THEN "INTERRUPTED"
    ELSE IF s.reasons # {} THEN "FAILED"
    ELSE IF s.kind = "implementation" THEN "PENDING_REVIEW" ELSE "FINISHED"

\* Mutant: the facts are judged again, by the historical rule.
MutantPublish(s, proof) ==
    IF s.status = "COMMITTING" /\ s.outcome # None /\ proof = s.revision
    THEN LET again == [s EXCEPT !.reasons = historicalRepairPostconditionsV2(s, s.outcome)] IN
         {[again EXCEPT !.revision = @ + 1, !.status = PublishedStatus(again), !.proof = proof,
                        !.recovery = IF PublishedStatus(again) = "RECOVERY_REQUIRED"
                                     THEN "facts incomplete" ELSE "null"]}
    ELSE {}

\* proof is the revision the generation directory was committed for.
publishDelegationCommit(s, proof) ==
    IF s.status = "COMMITTING" /\ s.outcome # None /\ proof = s.revision
    THEN {[s EXCEPT !.revision = @ + 1, !.status = PublishedStatus(s), !.proof = proof,
                    !.recovery = IF PublishedStatus(s) = "RECOVERY_REQUIRED"
                                 THEN "facts incomplete" ELSE "null"]}
    ELSE {}

reviewDelegationTransaction(s) ==
    IF s.status = "PENDING_REVIEW" /\ s.kind = "implementation" /\ s.proof # None
    THEN {[s EXCEPT !.revision = @ + 1, !.status = "REVIEWED", !.review = s.revision]}
    ELSE {}

abortDelegationTransaction(s) ==
    IF s.status \in {"PREPARED", "RUNNING"}
    THEN {[s EXCEPT !.revision = @ + 1, !.status = "ABORTED", !.aborted = TRUE]}
    ELSE {}

requireDelegationRecovery(s, reason) ==
    IF s.status \in {"RUNNING", "COMMITTING"}
    THEN {[s EXCEPT !.revision = @ + 1, !.status = "RECOVERY_REQUIRED", !.recovery = reason]}
    ELSE {}

=============================================================================
