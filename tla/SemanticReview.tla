--------------------------- MODULE SemanticReview ---------------------------
(***************************************************************************)
(* The semantic review of one committed implementation delegation: the     *)
(* automatic review of core/automatic-semantic-review-service.ts with its  *)
(* coordinator and its batched model calls, the manual review tool of      *)
(* core/delegation-review-v2.ts, and the side files that                   *)
(* core/delegation-transaction-storage.ts keeps for them next to the       *)
(* transaction: the review packet, the resumable progress, the immutable   *)
(* V2 evidence, and the two older owners of a decision, the repair         *)
(* decision and the historical migration.                                  *)
(*                                                                         *)
(* Every call holds the project's checkout lane, so calls follow each      *)
(* other; what can fall between two steps of a call is its process dying,  *)
(* a publication that fails before or after it took effect, and an edit or *)
(* a commit of the checkout.  A time is the number of the call it was read *)
(* in, which keeps the order the code compares.  The parent evidence of a  *)
(* repair successor and the review of a terminal-negative delegation are   *)
(* left out.                                                               *)
(***************************************************************************)
EXTENDS Integers, FiniteSets, FiniteSetsExt

CONSTANTS
    Pages,     \* display pages of the reviewed change
    Batches,   \* batches of pages the model is asked about
    None,      \* absent
    Damaged,   \* a file that does not parse
    MaxCall,   \* bound: review calls
    MaxFault,  \* bound: publications that fail and calls that die
    MaxEdit,   \* bound: edits and commits of the checkout
    MaxDamage, \* bound: review packets found damaged
    Policies   \* bound: versions of the review policy, 1..Policies

ASSUME SemanticReviewAssumption ==
    /\ Pages \in Nat \ {0} /\ Batches \in Nat \ {0} /\ Policies \in Nat \ {0}
    /\ MaxCall \in Nat /\ MaxFault \in Nat /\ MaxEdit \in Nat /\ MaxDamage \in Nat

VARIABLES
    kind,      \* what the worker left: a change, nothing, or a change out of scope
    tree,      \* the reviewed paths: as the worker left them, edited, or committed to git
    status,    \* transaction.json: its status
    proof,     \* transaction.json: the packet its review hash names
    review,    \* review.json
    progress,  \* semantic-review-progress-v2.json
    evidence,  \* semantic-review-evidence-v2.json
    repair,    \* semantic-repair-decision.json
    migration, \* semantic-migration.json: its status
    policy,    \* review policy of the installed build
    pc,        \* where the automatic review is
    job,       \* its progress in memory
    ev,        \* the evidence it has built
    clock,     \* calls so far
    told,      \* history: decisions reported to a caller as durable
    spent,     \* history: answers of the model that carried usage
    asks,      \* history: questions asked about each batch
    budget     \* faults, edits and damages left

disk == <<status, proof, review, progress, evidence, repair, migration>>
mem == <<pc, job, ev>>
hist == <<told, spent, asks>>
vars == <<kind, tree, policy, clock, budget, disk, mem, hist>>

Batch == 1..Batches
Completed == {"pass", "block"}

Packet == [at : 0..MaxCall, shown : 0..Pages, sem : {"required", "not_required", "accepted"}]
Progress ==
    [status : {"RUNNING", "FINALIZING", "COMPLETED", "RETRYABLE_FAILURE"}, policy : 1..Policies,
     batch : [Batch -> {"pending", "failed"} \cup Completed], by : [Batch -> 0..Policies],
     usage : Nat, final : {None} \cup (1..MaxCall)]
Evidence ==
    [decision : {"ACCEPT", "REPAIR"}, at : 1..MaxCall, usage : Nat, policy : 1..Policies,
     batch : [Batch -> Completed], by : [Batch -> 1..Policies]]

ASSUME AbsentAssumption ==
    /\ None \notin Packet \cup Progress \cup Evidence \cup {Damaged, "ACCEPT", "REPAIR"}
    /\ None \notin [base : Packet, at : 1..MaxCall]
    /\ Damaged \notin Packet

(* Every variable keeps its type, and a packet shows no more pages than there are. *)
TypeOK ==
    /\ kind \in {"change", "empty", "outside", "historical"}
    /\ tree \in {"worker", "edited", "git"}
    /\ status \in {"PENDING_REVIEW", "REVIEWED"}
    /\ proof \in Packet \cup {None}
    /\ review \in Packet \cup {None, Damaged}
    /\ progress \in Progress \cup {None}
    /\ evidence \in Evidence \cup {None}
    /\ repair \in [base : Packet, at : 1..MaxCall] \cup {None}
    /\ migration \in {None, "PRESENTED", "ACCEPTED"}
    /\ policy \in 1..Policies
    /\ pc \in {"idle", "initial", "preview", "page", "job", "ask", "decide",
               "after", "publish", "complete"}
    /\ job \in Progress \cup {None}
    /\ ev \in Evidence \cup {None}
    /\ clock \in 0..MaxCall
    /\ told \subseteq {"ACCEPT", "REPAIR"}
    /\ spent \in Nat
    /\ asks \in [Batch -> Nat]
    /\ budget \in [fault : 0..MaxFault, edit : 0..MaxEdit, damage : 0..MaxDamage]

(* A transaction at PENDING_REVIEW with no side file; or a historical one, finalized
   before semantic decisions were recorded. *)
Init ==
    /\ kind \in {"change", "empty", "outside", "historical"}
    /\ tree = "worker"
    /\ review = IF kind = "historical" THEN [at |-> 0, shown |-> Pages, sem |-> "required"] ELSE None
    /\ proof = review
    /\ status = IF kind = "historical" THEN "REVIEWED" ELSE "PENDING_REVIEW"
    /\ progress = None /\ evidence = None /\ repair = None /\ migration = None
    /\ policy = 1 /\ clock = 0
    /\ pc = "idle" /\ job = None /\ ev = None
    /\ told = {} /\ spent = 0 /\ asks = [b \in Batch |-> 0]
    /\ budget = [fault |-> MaxFault, edit |-> MaxEdit, damage |-> MaxDamage]

-----------------------------------------------------------------------------
(* Publications.  Each file is written aside, read back and renamed: a failure is
   reported with nothing changed or with everything changed.  Where two files are
   published in turn, the first may be all that took effect. *)

Outcome1 == {"done"} \cup (IF budget.fault > 0 THEN {"lost", "late"} ELSE {})
Outcome2 == Outcome1 \cup (IF budget.fault > 0 THEN {"half"} ELSE {})
Spend(o) == budget' = IF o = "done" THEN budget ELSE [budget EXCEPT !.fault = @ - 1]

-----------------------------------------------------------------------------
(* Reading the side files. *)

isScopeIntegrityPacketComplete(r) == kind # "outside" /\ (kind = "empty" \/ r.shown = Pages)

(* Accepted in the packet itself, or nothing to accept. *)
StrictlyAccepted(r) ==
    isScopeIntegrityPacketComplete(r) /\ (r.sem = "accepted" \/ r.sem = "not_required")

ArtifactReadable ==
    /\ review \notin {None, Damaged}
    /\ status = "REVIEWED" => review = proof

RepairEligible ==
    /\ ArtifactReadable /\ status = "PENDING_REVIEW" /\ kind # "empty"
    /\ review.sem = "required" /\ isScopeIntegrityPacketComplete(review)

EvidenceEligible ==
    ArtifactReadable /\ review.sem = "required" /\ isScopeIntegrityPacketComplete(review)

EvidenceBound(e) ==
    /\ EvidenceEligible
    /\ e.at >= review.at
    /\ e.decision = "REPAIR" => status = "PENDING_REVIEW"

RepairBound == RepairEligible /\ repair.base = review /\ repair.at >= review.at

MigrationEligible ==
    ArtifactReadable /\ status = "REVIEWED" /\ kind # "empty"
    /\ isScopeIntegrityPacketComplete(review) /\ ~StrictlyAccepted(review)

(* readDelegationReviewV2: what a strict read of the review returns. *)
ReadReview ==
    IF review = None
    THEN IF repair = None THEN "not_found" ELSE "invalid"
    ELSE IF /\ ArtifactReadable
            /\ migration # None => MigrationEligible
            /\ repair # None => RepairBound
            /\ evidence # None => EvidenceBound(evidence)
            /\ evidence # None => migration = None /\ repair = None /\ review.sem = "required"
         THEN "ok" ELSE "invalid"

Sidecar == repair # None \/ migration # None \/ evidence # None

RepairDecided == ReadReview = "ok" /\ (repair # None \/ (evidence # None /\ evidence.decision = "REPAIR"))

AcceptDecided ==
    /\ ReadReview = "ok" /\ status = "REVIEWED"
    /\ evidence # None \/ StrictlyAccepted(review) \/ migration = "ACCEPTED"

(* The decision a strict read of the side files shows. *)
durableDecision == IF AcceptDecided THEN "ACCEPT" ELSE IF RepairDecided THEN "REPAIR" ELSE None

-----------------------------------------------------------------------------
(* Presenting the change: reviewDelegationV2 without a decision. *)

(* The packet after one more page; a packet that cannot be read starts again. *)
NextPacket ==
    [at |-> clock', shown |-> IF ReadReview = "ok" THEN Min({review.shown + 1, Pages}) ELSE 1,
     sem |-> IF kind = "empty" THEN "not_required" ELSE "required"]

\* Mutant: a decided repair does not freeze the packet.
MutantMayPresent ==
    /\ status = "PENDING_REVIEW" /\ tree = "worker"
    /\ ReadReview = "invalid" => ~Sidecar
    /\ repair = None

(* The packet may be written: the checkout is what the worker left, no repair has
   been decided, and an unreadable packet has no immutable file bound to it. *)
MayPresent ==
    /\ status = "PENDING_REVIEW" /\ tree = "worker"
    /\ ReadReview = "invalid" => ~Sidecar
    /\ ~RepairDecided /\ repair = None

(* persistDelegationReviewProvisionalV2: the packet is one file. *)
PersistProvisional(r, o) ==
    /\ o # "half"
    /\ review' = IF o = "lost" THEN review ELSE r
    /\ UNCHANGED <<status, proof>>

(* publishDelegationReviewV2: the packet, then the transaction that names it. *)
PublishReview(r, o) ==
    /\ review' = IF o = "lost" THEN review ELSE r
    /\ IF o \in {"done", "late"}
       THEN status' = "REVIEWED" /\ proof' = r
       ELSE UNCHANGED <<status, proof>>

(* A packet that is accepted, or has nothing to accept, finalizes at once. *)
Persist(r, o) ==
    /\ IF StrictlyAccepted(r) THEN PublishReview(r, o) ELSE PersistProvisional(r, o)
    /\ UNCHANGED <<progress, evidence, repair, migration>>
    /\ Spend(o)

-----------------------------------------------------------------------------
(* The manual review tool.  A call reads, and publishes at most once. *)

Call == pc = "idle" /\ clock < MaxCall /\ clock' = clock + 1

ManualPresent ==
    /\ Call /\ MayPresent
    /\ \E o \in Outcome2 : Persist(NextPacket, o)
    /\ UNCHANGED <<kind, tree, policy, mem, hist>>

(* Presented again, a decided repair is only repeated. *)
ManualRepeatRepair ==
    /\ Call /\ status = "PENDING_REVIEW" /\ RepairDecided /\ tree = "worker"
    /\ told' = told \cup {"REPAIR"}
    /\ UNCHANGED <<kind, tree, policy, mem, disk, spent, asks, budget>>

(* A decision needs a complete packet of an earlier call, unaccepted, and the
   checkout it was made from. *)
MayDecide ==
    /\ status = "PENDING_REVIEW" /\ tree = "worker" /\ kind # "empty"
    /\ ReadReview = "ok" /\ review.sem = "required" /\ isScopeIntegrityPacketComplete(review)

\* Mutant: the conflict of ACCEPT with a decided repair is not looked for.
MutantManualAccept ==
    /\ Call /\ MayDecide /\ repair = None
    /\ \E o \in Outcome2 :
        /\ Persist([review EXCEPT !.at = clock', !.sem = "accepted"], o)
        /\ told' = IF o = "done" THEN told \cup {"ACCEPT"} ELSE told
    /\ UNCHANGED <<kind, tree, policy, mem, spent, asks>>

ManualAccept ==
    /\ Call /\ MayDecide /\ ~RepairDecided /\ repair = None
    /\ \E o \in Outcome2 :
        /\ Persist([review EXCEPT !.at = clock', !.sem = "accepted"], o)
        /\ told' = IF o = "done" THEN told \cup {"ACCEPT"} ELSE told
    /\ UNCHANGED <<kind, tree, policy, mem, spent, asks>>

(* The repair decision is written once; the same request is answered with it. *)
ManualRepair ==
    /\ Call /\ MayDecide
    /\ \E o \in Outcome1 :
        /\ repair' = IF o = "lost" \/ repair # None THEN repair ELSE [base |-> review, at |-> clock']
        /\ told' = IF o = "done" THEN told \cup {"REPAIR"} ELSE told
        /\ Spend(o)
    /\ UNCHANGED <<kind, tree, policy, mem, spent, asks, status, proof, review, progress, evidence, migration>>

(* A finalized packet without an acceptance of its own is taken for a historical one:
   once its paths are committed to git, a call presents a migration. *)
ManualMigrate ==
    /\ Call /\ status = "REVIEWED" /\ ReadReview = "ok" /\ MigrationEligible
    /\ tree = "git" /\ migration = None
    /\ \E o \in Outcome1 : migration' = (IF o = "lost" THEN None ELSE "PRESENTED") /\ Spend(o)
    /\ UNCHANGED <<kind, tree, policy, mem, hist, status, proof, review, progress, evidence, repair>>

ManualAcceptMigration ==
    /\ Call /\ status = "REVIEWED" /\ ReadReview = "ok" /\ MigrationEligible
    /\ tree = "git" /\ migration # None
    /\ \E o \in Outcome1 :
        /\ migration' = IF o = "lost" THEN migration ELSE "ACCEPTED"
        /\ told' = IF o = "done" THEN told \cup {"ACCEPT"} ELSE told
        /\ Spend(o)
    /\ UNCHANGED <<kind, tree, policy, mem, spent, asks, status, proof, review, progress, evidence, repair>>

(* An ACCEPT of a packet that already holds it is answered from the file. *)
ManualRepeatAccept ==
    /\ Call /\ status = "REVIEWED" /\ ReadReview = "ok" /\ review.sem = "accepted" /\ tree = "worker"
    /\ told' = told \cup {"ACCEPT"}
    /\ UNCHANGED <<kind, tree, policy, mem, disk, spent, asks, budget>>

-----------------------------------------------------------------------------
(* The automatic review: runAutomaticSemanticReview. *)

(* The call returns, or goes on with the progress p in memory. *)
Return == pc' = "idle" /\ job' = None /\ ev' = None
GoWith(l, p) == IF l = "idle" THEN Return ELSE pc' = l /\ job' = p /\ UNCHANGED ev
Goto(l) == GoWith(l, job)

(* The packet is one the structured review may start from. *)
Resolved == status = "PENDING_REVIEW" /\ ReadReview = "ok" /\ review.sem = "required"

AutoStart ==
    /\ Call
    /\ told' = told \cup ({durableDecision} \ {None})
    /\ Goto(CASE durableDecision # None \/ status = "REVIEWED" -> "idle"
              [] ReadReview = "invalid" -> "idle"
              [] ReadReview = "not_found" -> "initial"
              [] OTHER -> IF kind = "outside" \/ ~Resolved THEN "idle" ELSE "preview")
    /\ UNCHANGED <<kind, tree, policy, disk, spent, asks, budget>>

(* The first packet, when there is none. *)
AutoInitial ==
    /\ pc = "initial" /\ UNCHANGED clock
    /\ \/ /\ MayPresent
          /\ \E o \in Outcome2 :
              /\ Persist(NextPacket, o)
              /\ Goto(IF o = "done" /\ kind = "change" THEN "preview" ELSE "idle")
       \/ /\ ~MayPresent /\ Goto("idle") /\ UNCHANGED <<disk, budget>>
    /\ UNCHANGED <<kind, tree, policy, hist>>

(* A presentation can be collected only from what the worker left. *)
AutoPreview ==
    /\ pc = "preview"
    /\ Goto(IF tree # "worker" THEN "idle" ELSE "page")
    /\ UNCHANGED <<kind, tree, policy, clock, disk, hist, budget>>

(* Page by page until the packet is complete. *)
AutoPage ==
    /\ pc = "page" /\ UNCHANGED clock
    /\ \/ /\ isScopeIntegrityPacketComplete(review)
          /\ Goto(IF Resolved THEN "job" ELSE "idle") /\ UNCHANGED <<disk, budget>>
       \/ /\ ~isScopeIntegrityPacketComplete(review) /\ MayPresent
          /\ \E o \in Outcome1 : Persist(NextPacket, o) /\ Goto(IF o = "done" THEN "page" ELSE "idle")
       \/ /\ ~isScopeIntegrityPacketComplete(review) /\ ~MayPresent
          /\ Goto("idle") /\ UNCHANGED <<disk, budget>>
    /\ UNCHANGED <<kind, tree, policy, hist>>

(* progressCanAdvanceV2 *)
progressCanAdvanceV2(next) ==
    progress # None =>
        /\ progress.policy = next.policy
        /\ progress.status = "COMPLETED" => progress = next
        /\ next.usage >= progress.usage
        /\ \A b \in Batch : progress.batch[b] \in Completed =>
              next.batch[b] = progress.batch[b] /\ next.by[b] = progress.by[b]

(* The progress p is published; ok is what the caller learns. *)
SaveProgress(p, ok) ==
    IF progress = p THEN ok = TRUE /\ UNCHANGED <<progress, budget>>
    ELSE IF ~progressCanAdvanceV2(p) THEN ok = FALSE /\ UNCHANGED <<progress, budget>>
    ELSE \E o \in Outcome1 :
           /\ ok = (o = "done")
           /\ progress' = IF o = "lost" THEN progress ELSE p
           /\ Spend(o)

CanResume == progress # None => progress.policy = policy

\* Mutant: the usage of completed batches is added to the total a resumed job begins with.
MutantPrepared ==
    IF progress = None
    THEN [status |-> "RUNNING", policy |-> policy, batch |-> [b \in Batch |-> "pending"],
          by |-> [b \in Batch |-> 0], usage |-> 0, final |-> None]
    ELSE [progress EXCEPT
            !.status = "RUNNING",
            !.usage = @ + Cardinality({b \in Batch : progress.batch[b] \in Completed}),
            !.batch = [b \in Batch |-> IF @[b] = "failed" THEN "pending" ELSE @[b]]]

(* The job begins again with the failed batches to be asked once more. *)
Prepared ==
    IF progress = None
    THEN [status |-> "RUNNING", policy |-> policy, batch |-> [b \in Batch |-> "pending"],
          by |-> [b \in Batch |-> 0], usage |-> 0, final |-> None]
    ELSE [progress EXCEPT
            !.status = "RUNNING",
            !.batch = [b \in Batch |-> IF @[b] = "failed" THEN "pending" ELSE @[b]]]

(* The model or its credentials may be missing: the job is saved as failed. *)
AutoJob ==
    /\ pc = "job"
    /\ \/ /\ tree # "worker" \/ ~CanResume
          /\ Return /\ UNCHANGED <<progress, budget>>
       \/ /\ tree = "worker" /\ CanResume
          /\ \E ok \in BOOLEAN :
              SaveProgress(Prepared, ok) /\ GoWith(IF ok THEN "ask" ELSE "idle", Prepared)
       \/ /\ tree = "worker" /\ CanResume
          /\ \E ok \in BOOLEAN : SaveProgress([Prepared EXCEPT !.status = "RETRYABLE_FAILURE"], ok)
          /\ Return
    /\ UNCHANGED <<kind, tree, policy, clock, hist, status, proof, review, evidence, repair, migration>>

\* Mutant: only a batch that passed is skipped.
MutantToAsk == {b \in Batch : job.batch[b] # "pass"}

ToAsk == {b \in Batch : job.batch[b] \notin Completed}

(* The next batch.  The model throws, answers with something unusable, or assesses
   every page; an answer carries usage, an exception does not. *)
AutoAsk ==
    /\ pc = "ask" /\ ToAsk # {}
    /\ LET b == Min(ToAsk) IN
       /\ asks' = [asks EXCEPT ![b] = @ + 1]
       /\ \E answer \in {"error", "unusable"} \cup Completed, ok \in BOOLEAN :
           LET paid == IF answer = "error" THEN 0 ELSE 1
               done == answer \in Completed
               next == [job EXCEPT
                          !.status = IF done THEN "RUNNING" ELSE "RETRYABLE_FAILURE",
                          !.usage = @ + paid,
                          !.batch[b] = IF done THEN answer ELSE "failed",
                          !.by[b] = IF done THEN policy ELSE @]
           IN /\ spent' = spent + paid
              /\ SaveProgress(next, ok)
              /\ GoWith(IF done /\ ok THEN "ask" ELSE "idle", next)
    /\ UNCHANGED <<kind, tree, policy, clock, told, status, proof, review, evidence, repair, migration>>

AutoFinalize ==
    /\ pc = "ask" /\ ToAsk = {}
    /\ LET next == [job EXCEPT !.status = "FINALIZING"] IN
       \E ok \in BOOLEAN :
           SaveProgress(next, ok) /\ GoWith(IF ok THEN "decide" ELSE "idle", next)
    /\ UNCHANGED <<kind, tree, policy, clock, hist, status, proof, review, evidence, repair, migration>>

\* Mutant: a blocking finding of a page does not bind the final decision.
MutantValidFinalAssessment(d) == d \in {"ACCEPT", "REPAIR"}

(* A blocking finding of a page asks for REPAIR; without one, REPAIR needs a finding
   across pages, which the final answer itself may bring. *)
validFinalAssessment(d) == (\E b \in Batch : job.batch[b] = "block") => d = "REPAIR"

AutoDecide ==
    /\ pc = "decide"
    /\ \/ \E d \in {"ACCEPT", "REPAIR"} :
            /\ validFinalAssessment(d)
            /\ job' = [job EXCEPT !.usage = @ + 1]
            /\ ev' = [decision |-> d, at |-> clock, usage |-> job.usage + 1, policy |-> job.policy,
                      batch |-> job.batch, by |-> job.by]
            /\ spent' = spent + 1 /\ pc' = "after" /\ UNCHANGED <<progress, budget>>
       \/ \E paid \in {0, 1}, ok \in BOOLEAN :
            /\ SaveProgress([job EXCEPT !.status = "RETRYABLE_FAILURE", !.usage = @ + paid], ok)
            /\ spent' = spent + paid /\ Return
    /\ UNCHANGED <<kind, tree, policy, clock, told, asks, status, proof, review, evidence, repair, migration>>

(* The presentation must be what it was before the questions. *)
AutoAfter ==
    /\ pc = "after"
    /\ Goto(IF tree = "worker" THEN "publish" ELSE "idle")
    /\ UNCHANGED <<kind, tree, policy, clock, disk, hist, budget>>

(* publishDelegationSemanticReviewEvidenceV2 accepts the evidence. *)
MayPublish ==
    /\ EvidenceBound(ev)
    /\ migration = None /\ repair = None
    /\ evidence \in {None, ev}

\* Mutant: a failed publication is taken for a published one.
MutantWinner(e) == e # Damaged

(* After a reported failure the evidence on disk counts when it is the one meant. *)
Winner(e) == e = ev

AutoPublish ==
    /\ pc = "publish"
    /\ \/ /\ MayPublish
          /\ \E o \in Outcome2 :
              /\ o = "half" => ev.decision = "ACCEPT"
              /\ evidence' = IF o = "lost" THEN evidence ELSE ev
              /\ IF ev.decision = "ACCEPT" /\ o \in {"done", "late"}
                 THEN status' = "REVIEWED" /\ proof' = review
                 ELSE UNCHANGED <<status, proof>>
              /\ Goto(IF o = "done" \/ Winner(evidence') THEN "complete" ELSE "idle")
              /\ Spend(o)
       \/ /\ ~MayPublish
          /\ Goto(IF Winner(evidence) THEN "complete" ELSE "idle")
          /\ UNCHANGED <<evidence, status, proof, budget>>
    /\ UNCHANGED <<kind, tree, policy, clock, hist, review, progress, repair, migration>>

(* The progress is completed and the decision is read back. *)
AutoComplete ==
    /\ pc = "complete"
    /\ \E ok \in BOOLEAN :
        /\ SaveProgress([job EXCEPT !.status = "COMPLETED", !.final = ev.at], ok)
        /\ told' = IF ok /\ durableDecision = ev.decision THEN told \cup {ev.decision} ELSE told
    /\ Return
    /\ UNCHANGED <<kind, tree, policy, clock, spent, asks, status, proof, review, evidence, repair, migration>>

(* The process of a call dies. *)
Crash ==
    /\ pc # "idle" /\ budget.fault > 0
    /\ budget' = [budget EXCEPT !.fault = @ - 1]
    /\ Return
    /\ UNCHANGED <<kind, tree, policy, clock, disk, hist>>

-----------------------------------------------------------------------------
(* The environment. *)

(* The reviewed paths are edited, restored, or committed as the worker left them. *)
Edit ==
    /\ budget.edit > 0 /\ budget' = [budget EXCEPT !.edit = @ - 1]
    /\ \/ tree = "worker" /\ tree' \in {"edited", "git"}
       \/ tree = "edited" /\ tree' = "worker"
    /\ UNCHANGED <<kind, policy, clock, disk, mem, hist>>

(* A later build with another review policy is installed between two calls. *)
Upgrade ==
    /\ pc = "idle" /\ policy < Policies /\ policy' = policy + 1
    /\ UNCHANGED <<kind, tree, clock, disk, mem, hist, budget>>

Damage ==
    /\ pc = "idle" /\ budget.damage > 0 /\ review # None
    /\ budget' = [budget EXCEPT !.damage = @ - 1]
    /\ review' = Damaged
    /\ UNCHANGED <<kind, tree, policy, clock, mem, hist, status, proof, progress, evidence, repair, migration>>

Next ==
    \/ ManualPresent \/ ManualRepeatRepair \/ ManualAccept \/ ManualRepair
    \/ ManualMigrate \/ ManualAcceptMigration \/ ManualRepeatAccept
    \/ AutoStart \/ AutoInitial \/ AutoPreview \/ AutoPage \/ AutoJob \/ AutoAsk
    \/ AutoFinalize \/ AutoDecide \/ AutoAfter \/ AutoPublish \/ AutoComplete
    \/ Crash \/ Edit \/ Upgrade \/ Damage

Spec == Init /\ [][Next]_vars

-----------------------------------------------------------------------------
(* Properties. *)

(* No caller is ever told ACCEPT and REPAIR of one delegation, over crashes, failed
   publications and both ways of reviewing; what was told is in the transaction: an
   accepted delegation is REVIEWED with no repair decision, a rejected one is pending. *)
TellsOneDecision ==
    /\ Cardinality(told) <= 1
    /\ "ACCEPT" \in told =>
          /\ status = "REVIEWED" /\ repair = None
          /\ evidence # None => evidence.decision = "ACCEPT"
    /\ "REPAIR" \in told => status = "PENDING_REVIEW"

(* A delegation the tool finalized was shown to the last page, in scope, and was accepted
   by somebody: in the packet, or by evidence in which no page has a blocking finding. *)
AcceptIsGrounded ==
    status = "REVIEWED" /\ kind # "historical" =>
        /\ isScopeIntegrityPacketComplete(proof)
        /\ \/ StrictlyAccepted(proof)
           \/ /\ evidence # None /\ evidence.decision = "ACCEPT"
              /\ \A b \in Batch : evidence.batch[b] = "pass"

(* A repair decision, in its own file or as evidence, keeps the packet it was made
   from: only that packet gives the successor the right to repair. *)
RepairFreezesPacket ==
    /\ repair # None => review \in {Damaged, repair.base} /\ status = "PENDING_REVIEW"
    /\ evidence # None /\ evidence.decision = "REPAIR" =>
          review = Damaged \/ EvidenceBound(evidence)

(* A job is one job over its resumptions and over changes of the installed build: its usage
   counts every completed batch and no answer twice, and the assessments evidence is built
   from were all asked for under the policy it names. *)
EvidenceIsOfOneJob ==
    /\ progress # None =>
          /\ progress.usage <= spent
          /\ progress.usage >= Cardinality({b \in Batch : progress.batch[b] \in Completed})
    /\ evidence # None => /\ evidence.usage \in (Batches + 1)..spent
                          /\ \A b \in Batch : evidence.by[b] = evidence.policy

(* A completed job has published its decision: the evidence it names is on disk. *)
CompletedHasEvidence ==
    progress # None /\ progress.status = "COMPLETED" =>
        evidence # None /\ progress.final = evidence.at

(* A batch whose assessment is on disk is never asked about again. *)
CompletedBatchIsNotAskedAgain ==
    [][\A b \in Batch : asks'[b] # asks[b] =>
          progress = None \/ progress.batch[b] \notin Completed]_vars

(* Published evidence is the one owner of the decision: as long as the packet is intact,
   a strict read finds it. *)
SoleSemanticOwner ==
    evidence # None /\ review # Damaged => ReadReview = "ok"

-----------------------------------------------------------------------------
(* The inductive invariant. *)

Assessed(p) == {b \in Batch : p.batch[b] \in Completed}

(* The usage of a job lies between its assessments and what was spent, and its
   assessments are of its own policy. *)
JobFits(p, paid) ==
    /\ Cardinality(Assessed(p)) <= p.usage /\ p.usage <= paid
    /\ \A b \in Assessed(p) : p.by[b] = p.policy

EvidenceFits(e, paid) ==
    /\ e.usage \in (Batches + 1)..paid
    /\ \A b \in Batch : e.by[b] = e.policy
    /\ e.decision = "ACCEPT" => \A b \in Batch : e.batch[b] = "pass"

Working == {"ask", "decide", "after", "publish", "complete"}

JobsFit == /\ progress # None => JobFits(progress, spent)
           /\ pc \in Working => job # None /\ JobFits(job, spent) /\ job.policy = policy

(* While the model is asked, the progress in memory is the one on disk. *)
JobIsSaved == pc \in {"ask", "decide"} => progress = job

AllAssessed == pc \in Working \ {"ask"} => Assessed(job) = Batch

EvidenceFollows ==
    /\ evidence # None => EvidenceFits(evidence, spent)
    /\ pc \in {"after", "publish", "complete"} => ev # None /\ EvidenceFits(ev, spent)
    /\ pc = "complete" => evidence = ev

(* A rejected delegation is pending, and a rejection that was told is on disk. *)
RepairStands ==
    /\ evidence # None /\ evidence.decision = "REPAIR" => status = "PENDING_REVIEW"
    /\ "REPAIR" \in told => repair # None \/ (evidence # None /\ evidence.decision = "REPAIR")

CallIsCounted == pc # "idle" => clock > 0

IInv ==
    /\ TypeOK /\ CallIsCounted /\ JobsFit /\ JobIsSaved /\ AllAssessed
    /\ EvidenceFollows /\ RepairStands
    /\ TellsOneDecision /\ AcceptIsGrounded /\ RepairFreezesPacket
    /\ CompletedHasEvidence

=============================================================================
