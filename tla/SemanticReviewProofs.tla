------------------------ MODULE SemanticReviewProofs ------------------------
(***************************************************************************)
(* The semantic review for any number of pages, batches and policies, and  *)
(* for any number of calls, faults, edits and damages.                     *)
(*                                                                         *)
(* The invariant has two halves that touch in the evidence alone: the      *)
(* decisions on disk and told to callers, and the job that leads to one.   *)
(***************************************************************************)
EXTENDS SemanticReview, FiniteSetTheorems, WellFoundedInduction, TLAPS

LEMMA Constants ==
    /\ Pages \in Nat \ {0} /\ Batches \in Nat \ {0} /\ Policies \in Nat \ {0}
    /\ MaxCall \in Nat /\ MaxFault \in Nat /\ MaxEdit \in Nat /\ MaxDamage \in Nat
BY SemanticReviewAssumption

LEMMA Absent ==
    /\ None \notin Packet /\ None \notin Progress /\ None \notin Evidence
    /\ None # Damaged /\ None # "ACCEPT" /\ None # "REPAIR" /\ Damaged \notin Packet
    /\ \A b \in Packet, t \in 1..MaxCall : [base |-> b, at |-> t] # None
BY AbsentAssumption

-----------------------------------------------------------------------------
(* Jobs and evidence as values *)

LEMMA AssessedFinite ==
    ASSUME NEW p
    PROVE  /\ IsFiniteSet(Batch) /\ Cardinality(Batch) = Batches
           /\ IsFiniteSet(Assessed(p)) /\ Cardinality(Assessed(p)) \in Nat
<1>1. IsFiniteSet(Batch) /\ Cardinality(Batch) = Batches
    BY Constants, FS_Interval DEF Batch
<1>2. Assessed(p) \subseteq Batch
    BY DEF Assessed
<1>3. IsFiniteSet(Assessed(p))
    BY <1>1, <1>2, FS_Subset
<1> QED BY <1>1, <1>3, FS_CardinalityType

\* Answers that are paid for later keep a job fitting.
LEMMA FitsMore ==
    ASSUME NEW p \in Progress, NEW n \in Nat, NEW m \in Nat, n <= m, JobFits(p, n)
    PROVE  JobFits(p, m)
BY DEF JobFits, Progress

LEMMA EvidenceFitsMore ==
    ASSUME NEW e \in Evidence, NEW n \in Nat, NEW m \in Nat, n <= m, EvidenceFits(e, n)
    PROVE  EvidenceFits(e, m)
BY Constants DEF EvidenceFits, Evidence

\* A job with the same assessments and k more answers that were paid for.
LEMMA FitsPaid ==
    ASSUME NEW p \in Progress, NEW q \in Progress, NEW n \in Nat, NEW k \in Nat,
           JobFits(p, n), Assessed(q) = Assessed(p), q.policy = p.policy,
           \A b \in Assessed(p) : q.by[b] = p.by[b], q.usage = p.usage + k
    PROVE  JobFits(q, n + k)
<1>1. Cardinality(Assessed(p)) \in Nat /\ p.usage \in Nat
    BY AssessedFinite DEF Progress
<1>2. Cardinality(Assessed(q)) <= q.usage /\ q.usage <= n + k
    BY <1>1 DEF JobFits
<1> QED BY <1>2 DEF JobFits

\* One more batch is assessed, by an answer that was paid for.
LEMMA FitsAssessed ==
    ASSUME NEW p \in Progress, NEW q \in Progress, NEW n \in Nat, NEW b \in Batch,
           JobFits(p, n), b \notin Assessed(p), Assessed(q) = Assessed(p) \cup {b},
           q.policy = p.policy, q.by[b] = p.policy,
           \A c \in Assessed(p) : q.by[c] = p.by[c], q.usage = p.usage + 1
    PROVE  JobFits(q, n + 1)
<1>1. Cardinality(Assessed(p)) \in Nat /\ p.usage \in Nat /\ IsFiniteSet(Assessed(p))
    BY AssessedFinite DEF Progress
<1>2. Cardinality(Assessed(q)) = Cardinality(Assessed(p)) + 1
    BY <1>1, FS_AddElement
<1>3. Cardinality(Assessed(q)) <= q.usage /\ q.usage <= n + 1
    BY <1>1, <1>2 DEF JobFits
<1> QED BY <1>3 DEF JobFits

-----------------------------------------------------------------------------
(* The decisions on disk *)

Decisions == RepairStands /\ TellsOneDecision /\ AcceptIsGrounded /\ RepairFreezesPacket

\* Nothing stands in the way of an acceptance.
Undecided ==
    /\ status = "PENDING_REVIEW" /\ repair = None
    /\ ~(evidence # None /\ evidence.decision = "REPAIR")

LEMMA ToldOnce ==
    ASSUME NEW T, T \subseteq {"ACCEPT", "REPAIR"}, ~("ACCEPT" \in T /\ "REPAIR" \in T)
    PROVE  Cardinality(T) <= 1
<1>1. T = {} \/ T = {"ACCEPT"} \/ T = {"REPAIR"}
    OBVIOUS
<1>2. Cardinality({}) = 0 /\ Cardinality({"ACCEPT"}) = 1 /\ Cardinality({"REPAIR"}) = 1
    BY FS_EmptySet, FS_Singleton
<1>3. 0 <= 1 /\ 1 <= 1
    OBVIOUS
<1> QED BY <1>1, <1>2, <1>3, Zenon

LEMMA DecisionsKept ==
    ASSUME IInv, UNCHANGED <<kind, status, proof, review, evidence, repair, told>>
    PROVE  Decisions'
<1>1. RepairStands' /\ TellsOneDecision'
    BY DEF IInv, RepairStands, TellsOneDecision
<1>2. AcceptIsGrounded'
    BY DEF IInv, AcceptIsGrounded, isScopeIntegrityPacketComplete, StrictlyAccepted
<1>3. RepairFreezesPacket'
    BY DEF IInv, RepairFreezesPacket, EvidenceBound, EvidenceEligible, ArtifactReadable,
       isScopeIntegrityPacketComplete
<1> QED BY <1>1, <1>2, <1>3 DEF Decisions

\* The same with a decision told that is on disk.
LEMMA DecisionsTold ==
    ASSUME IInv, UNCHANGED <<kind, status, proof, review, evidence, repair>>,
           NEW d \in {"ACCEPT", "REPAIR"}, told' = told \/ told' = told \cup {d},
           d = "ACCEPT" => status = "REVIEWED",
           d = "REPAIR" => repair # None \/ (evidence # None /\ evidence.decision = "REPAIR")
    PROVE  Decisions'
<1>1. RepairStands'
    BY DEF IInv, RepairStands
<1>2. TellsOneDecision'
    <2>1. repair # None => status = "PENDING_REVIEW"
        BY DEF IInv, RepairFreezesPacket
    <2>2. evidence # None /\ evidence.decision = "REPAIR" => status = "PENDING_REVIEW"
        BY DEF IInv, RepairStands
    <2>3. /\ "ACCEPT" \in told' => status = "REVIEWED"
          /\ "REPAIR" \in told' => status = "PENDING_REVIEW"
        BY <2>1, <2>2 DEF IInv, TellsOneDecision
    <2>4. evidence # None => evidence.decision \in {"ACCEPT", "REPAIR"}
        BY DEF IInv, TypeOK, Evidence
    <2>5. told' \subseteq {"ACCEPT", "REPAIR"}
        BY DEF IInv, TypeOK
    <2>6. Cardinality(told') <= 1
        BY <2>3, <2>5, ToldOnce
    <2> QED BY <2>1, <2>2, <2>3, <2>4, <2>6 DEF TellsOneDecision
<1>3. AcceptIsGrounded'
    BY DEF IInv, AcceptIsGrounded, isScopeIntegrityPacketComplete, StrictlyAccepted
<1>4. RepairFreezesPacket'
    BY DEF IInv, RepairFreezesPacket, EvidenceBound, EvidenceEligible, ArtifactReadable,
       isScopeIntegrityPacketComplete
<1> QED BY <1>1, <1>2, <1>3, <1>4 DEF Decisions

LEMMA UndecidedIsUntold == ASSUME IInv, Undecided PROVE told = {}
<1>1. "ACCEPT" \notin told /\ "REPAIR" \notin told
    BY DEF IInv, Undecided, TellsOneDecision, RepairStands
<1> QED BY <1>1 DEF IInv, TypeOK

LEMMA ReadReviewCases ==
    /\ ReadReview \in {"not_found", "invalid", "ok"}
    /\ ReadReview = "not_found" => review = None
    /\ ReadReview = "ok" => /\ review # None /\ review # Damaged
                            /\ evidence # None => EvidenceBound(evidence)
BY DEF ReadReview, ArtifactReadable

\* A decided repair lets no packet be written: read back, it refuses; unreadable, it is an
\* immutable file next to a damaged packet.
LEMMA MayPresentUndecided == ASSUME IInv, MayPresent PROVE Undecided
<1> SUFFICES ASSUME evidence # None, evidence.decision = "REPAIR" PROVE FALSE
    BY DEF MayPresent, Undecided
<1>1. review = Damaged \/ EvidenceBound(evidence)
    BY DEF IInv, RepairFreezesPacket
<1>2. review # None
    BY <1>1, Absent DEF EvidenceBound, EvidenceEligible, ArtifactReadable
<1>3. ReadReview = "invalid" \/ ReadReview = "ok"
    BY <1>2, ReadReviewCases
<1> QED BY <1>3 DEF MayPresent, Sidecar, RepairDecided

LEMMA MayDecideUndecided ==
    ASSUME IInv, MayDecide, ~RepairDecided, repair = None PROVE Undecided
BY DEF MayDecide, RepairDecided, Undecided

\* What the publication of a packet does, whatever becomes of it.
LEMMA PersistEffect ==
    ASSUME IInv, NEW r \in Packet, NEW o, Persist(r, o)
    PROVE  /\ review' \in {review, r}
           /\ \/ UNCHANGED <<status, proof>>
              \/ status' = "REVIEWED" /\ proof' = r /\ StrictlyAccepted(r)
           /\ StrictlyAccepted(r) /\ o = "done" => status' = "REVIEWED"
           /\ UNCHANGED <<progress, evidence, repair, migration>>
           /\ Spend(o)
BY DEF Persist, PublishReview, PersistProvisional

LEMMA PersistDecisions ==
    ASSUME IInv, Undecided, NEW r \in Packet, NEW o, Persist(r, o), kind' = kind,
           \/ told' = told
           \/ told' = told \cup {"ACCEPT"} /\ StrictlyAccepted(r) /\ o = "done"
    PROVE  Decisions'
<1>1. told = {} /\ UNCHANGED <<evidence, repair>>
    BY UndecidedIsUntold, PersistEffect
<1>2. told' = {} \/ (told' = {"ACCEPT"} /\ status' = "REVIEWED")
    BY <1>1, PersistEffect
<1>3. RepairStands'
    BY <1>1, <1>2 DEF Undecided, RepairStands
<1>4. TellsOneDecision'
    <2>1. evidence # None => evidence.decision = "ACCEPT"
        BY DEF IInv, TypeOK, Evidence, Undecided
    <2>2. Cardinality(told') <= 1
        BY <1>2, ToldOnce
    <2> QED BY <1>1, <1>2, <2>1, <2>2 DEF Undecided, TellsOneDecision
<1>5. AcceptIsGrounded'
    <2>1. StrictlyAccepted(r) => isScopeIntegrityPacketComplete(r)
        BY DEF StrictlyAccepted
    <2>2. status' = "REVIEWED" => proof' = r /\ StrictlyAccepted(r)
        BY PersistEffect DEF Undecided
    <2> QED
        BY <2>1, <2>2 DEF AcceptIsGrounded, StrictlyAccepted, isScopeIntegrityPacketComplete
<1>6. RepairFreezesPacket'
    BY <1>1 DEF Undecided, RepairFreezesPacket
<1> QED BY <1>3, <1>4, <1>5, <1>6 DEF Decisions

LEMMA NextPacketTyped ==
    ASSUME IInv, clock' \in 0..MaxCall PROVE NextPacket \in Packet
<1>1. ReadReview = "ok" => review \in Packet
    BY ReadReviewCases DEF IInv, TypeOK
<1>2. review \in Packet => review.shown \in 0..Pages
    BY DEF Packet
<1>3. \A n \in 0..Pages : Min({n + 1, Pages}) \in 0..Pages
    <2> SUFFICES ASSUME NEW n \in 0..Pages PROVE Min({n + 1, Pages}) \in 0..Pages
        OBVIOUS
    <2>1. \E x \in {n + 1, Pages} : \A y \in {n + 1, Pages} : x <= y
        <3>1. CASE n = Pages
            BY <3>1, Constants
        <3>2. CASE n < Pages
            BY <3>2, Constants
        <3> QED BY <3>1, <3>2, Constants
    <2>2. /\ Min({n + 1, Pages}) \in {n + 1, Pages}
          /\ \A y \in {n + 1, Pages} : Min({n + 1, Pages}) <= y
        BY <2>1 DEF Min
    <2> QED BY <2>2, Constants
<1>4. (IF ReadReview = "ok" THEN Min({review.shown + 1, Pages}) ELSE 1) \in 0..Pages
    BY <1>1, <1>2, <1>3, Constants
<1> QED BY <1>4 DEF NextPacket, Packet

BudgetShape == [fault : 0..MaxFault, edit : 0..MaxEdit, damage : 0..MaxDamage]

LEMMA SpendTyped ==
    ASSUME IInv, NEW o \in Outcome2, Spend(o) PROVE budget' \in BudgetShape
<1>1. budget \in BudgetShape /\ budget.fault \in 0..MaxFault
    BY DEF IInv, TypeOK, BudgetShape
<1>2. o = "done" \/ budget.fault > 0
    BY DEF Outcome1, Outcome2
<1>3. budget.fault > 0 => budget.fault - 1 \in 0..MaxFault
    BY <1>1, Constants
<1>4. budget' = budget \/ (budget.fault > 0 /\ budget' = [budget EXCEPT !.fault = budget.fault - 1])
    BY <1>2 DEF Spend
<1> QED BY <1>1, <1>3, <1>4 DEF BudgetShape

-----------------------------------------------------------------------------
(* The job *)

Jobs == /\ CallIsCounted /\ JobsFit /\ JobIsSaved /\ AllAssessed
        /\ EvidenceFollows /\ CompletedHasEvidence

LEMMA JobsKept ==
    ASSUME IInv, UNCHANGED <<pc, job, ev, progress, evidence, spent, policy>>,
           clock' = clock \/ clock' = clock + 1
    PROVE  Jobs'
<1>1. CallIsCounted'
    BY Constants DEF IInv, TypeOK, CallIsCounted
<1>2. JobsFit' /\ JobIsSaved' /\ AllAssessed'
    BY DEF IInv, JobsFit, JobIsSaved, AllAssessed
<1>3. EvidenceFollows' /\ CompletedHasEvidence'
    BY DEF IInv, EvidenceFollows, CompletedHasEvidence
<1> QED BY <1>1, <1>2, <1>3 DEF Jobs

\* A call that is not at its job, or has returned.
LEMMA JobsResting ==
    ASSUME IInv, pc' \notin Working, pc' = "idle" \/ clock' > 0,
           UNCHANGED <<progress, evidence, spent>>
    PROVE  Jobs'
<1>1. CallIsCounted'
    BY DEF CallIsCounted
<1>2. JobsFit' /\ JobIsSaved' /\ AllAssessed'
    BY DEF IInv, JobsFit, JobIsSaved, AllAssessed, Working
<1>3. EvidenceFollows' /\ CompletedHasEvidence'
    BY DEF IInv, EvidenceFollows, CompletedHasEvidence, Working
<1> QED BY <1>1, <1>2, <1>3 DEF Jobs

\* What a caller may rely on after saveProgress.
LEMMA SaveEffect ==
    ASSUME IInv, NEW p \in Progress, NEW ok \in BOOLEAN, SaveProgress(p, ok)
    PROVE  /\ progress' \in {progress, p} /\ budget' \in BudgetShape
           /\ ok => progress' = p
           /\ progress # None /\ progress.status = "COMPLETED" => progress' = progress
<1>1. CASE progress = p
    BY <1>1 DEF SaveProgress, IInv, TypeOK, BudgetShape
<1>2. CASE progress # p /\ ~progressCanAdvanceV2(p)
    BY <1>2 DEF SaveProgress, IInv, TypeOK, BudgetShape
<1>3. CASE progress # p /\ progressCanAdvanceV2(p)
    <2>1. PICK o \in Outcome1 : /\ ok = (o = "done")
                                /\ progress' = IF o = "lost" THEN progress ELSE p
                                /\ Spend(o)
        BY <1>3 DEF SaveProgress
    <2>2. o \in Outcome2
        BY DEF Outcome2
    <2>3. progress = None \/ progress.status # "COMPLETED"
        BY <1>3 DEF progressCanAdvanceV2
    <2> QED BY <2>1, <2>2, <2>3, SpendTyped
<1> QED BY <1>1, <1>2, <1>3

\* Saving a fitting job that is not completed, and returning or going on with it.
LEMMA JobsSaved ==
    ASSUME IInv, NEW p \in Progress, NEW k \in Nat, JobFits(p, spent'), spent' = spent + k,
           p.status # "COMPLETED", progress' \in {progress, p},
           progress # None /\ progress.status = "COMPLETED" => progress' = progress,
           evidence' = evidence, clock' = clock, pc # "idle",
           \/ pc' = "idle"
           \/ /\ pc' \in {"ask", "decide"} /\ job' = p /\ progress' = p
              /\ p.policy = policy' /\ (pc' = "decide" => Assessed(p) = Batch)
    PROVE  Jobs'
<1>1. CallIsCounted'
    BY DEF IInv, CallIsCounted
<1>2. spent \in Nat /\ spent' \in Nat /\ spent <= spent'
    BY DEF IInv, TypeOK
<1>3. progress' # None => JobFits(progress', spent')
    BY <1>2, FitsMore DEF IInv, TypeOK, JobsFit
<1>4. JobsFit' /\ JobIsSaved' /\ AllAssessed'
    <2>1. JobsFit'
        BY <1>3, Absent DEF JobsFit, Working
    <2>2. JobIsSaved'
        BY DEF JobIsSaved
    <2>3. AllAssessed'
        BY DEF AllAssessed, Working
    <2> QED BY <2>1, <2>2, <2>3
<1>5. EvidenceFollows'
    BY <1>2, EvidenceFitsMore DEF IInv, TypeOK, EvidenceFollows
<1>6. CompletedHasEvidence'
    BY DEF IInv, CompletedHasEvidence
<1> QED BY <1>1, <1>4, <1>5, <1>6 DEF Jobs

-----------------------------------------------------------------------------
(* The manual review tool *)

LEMMA CallTyped ==
    ASSUME IInv, Call PROVE clock' \in 1..MaxCall /\ clock' = clock + 1 /\ clock' > 0
BY Constants DEF IInv, TypeOK, Call

LEMMA ManualPresentIInv == ASSUME IInv, ManualPresent PROVE IInv'
<1>1. PICK o \in Outcome2 : Persist(NextPacket, o)
    BY DEF ManualPresent
<1>2. /\ clock' \in 1..MaxCall /\ clock' \in 0..MaxCall /\ clock' = clock + 1 /\ Undecided
      /\ UNCHANGED <<kind, tree, policy, mem, hist>>
    BY CallTyped, MayPresentUndecided, Constants DEF ManualPresent
<1>3. NextPacket \in Packet
    BY <1>2, NextPacketTyped
<1>4. TypeOK'
    BY <1>1, <1>2, <1>3, PersistEffect, SpendTyped
    DEF IInv, TypeOK, mem, hist, BudgetShape
<1>5. Decisions'
    BY <1>1, <1>2, <1>3, PersistDecisions DEF hist
<1>6. Jobs'
    BY <1>1, <1>2, <1>3, PersistEffect, JobsKept DEF mem, hist
<1> QED BY <1>4, <1>5, <1>6 DEF IInv, Decisions, Jobs

LEMMA ManualRepeatRepairIInv == ASSUME IInv, ManualRepeatRepair PROVE IInv'
<1>1. /\ clock' \in 1..MaxCall /\ clock' = clock + 1
      /\ UNCHANGED <<kind, tree, policy, mem, disk, spent, asks, budget>>
      /\ told' = told \cup {"REPAIR"} /\ RepairDecided
    BY CallTyped DEF ManualRepeatRepair
<1>2. TypeOK'
    BY <1>1, Constants DEF IInv, TypeOK, mem, disk
<1>3. Decisions'
    BY <1>1, DecisionsTold DEF disk, RepairDecided
<1>4. Jobs'
    BY <1>1, JobsKept DEF mem, disk
<1> QED BY <1>2, <1>3, <1>4 DEF IInv, Decisions, Jobs

LEMMA ManualAcceptIInv == ASSUME IInv, ManualAccept PROVE IInv'
<1> DEFINE r == [review EXCEPT !.at = clock', !.sem = "accepted"]
<1>1. PICK o \in Outcome2 :
            /\ Persist(r, o)
            /\ told' = IF o = "done" THEN told \cup {"ACCEPT"} ELSE told
    BY DEF ManualAccept
<1>2. /\ clock' \in 1..MaxCall /\ clock' \in 0..MaxCall /\ clock' = clock + 1 /\ Undecided
      /\ MayDecide /\ UNCHANGED <<kind, tree, policy, mem, spent, asks>>
    BY CallTyped, MayDecideUndecided, Constants DEF ManualAccept
<1>3. r \in Packet /\ StrictlyAccepted(r)
    <2>1. review \in Packet /\ isScopeIntegrityPacketComplete(review)
        BY <1>2, ReadReviewCases DEF MayDecide, IInv, TypeOK
    <2>2. r \in Packet /\ r.sem = "accepted" /\ r.shown = review.shown
        BY <1>2, <2>1 DEF Packet
    <2> QED BY <2>1, <2>2 DEF StrictlyAccepted, isScopeIntegrityPacketComplete
<1> HIDE DEF r
<1>4. TypeOK'
    BY <1>1, <1>2, <1>3, PersistEffect, SpendTyped
    DEF IInv, TypeOK, mem, BudgetShape
<1>5. Decisions'
    BY <1>1, <1>2, <1>3, PersistDecisions
<1>6. Jobs'
    BY <1>1, <1>2, <1>3, PersistEffect, JobsKept DEF mem
<1> QED BY <1>4, <1>5, <1>6 DEF IInv, Decisions, Jobs

LEMMA ManualRepairIInv == ASSUME IInv, ManualRepair PROVE IInv'
<1> DEFINE new == [base |-> review, at |-> clock']
<1>1. PICK o \in Outcome1 :
        /\ repair' = IF o = "lost" \/ repair # None THEN repair ELSE new
        /\ told' = IF o = "done" THEN told \cup {"REPAIR"} ELSE told
        /\ Spend(o)
    BY DEF ManualRepair
<1>2. /\ clock' \in 1..MaxCall /\ clock' \in 0..MaxCall /\ clock' = clock + 1
      /\ MayDecide /\ status = "PENDING_REVIEW"
      /\ UNCHANGED <<kind, tree, policy, mem, spent, asks, status, proof, review, progress,
                     evidence, migration>>
    BY CallTyped, Constants DEF ManualRepair, MayDecide
<1>3. /\ review \in Packet /\ new \in [base : Packet, at : 1..MaxCall] /\ new # None
      /\ o \in Outcome2
    <2>1. review \in Packet
        BY <1>2, ReadReviewCases DEF MayDecide, IInv, TypeOK
    <2> QED BY <1>2, <2>1, Absent DEF Outcome2
<1>4. TypeOK'
    BY <1>1, <1>2, <1>3, SpendTyped DEF IInv, TypeOK, mem, BudgetShape
<1>5. Decisions'
    <2>1. CASE repair' = repair
        <3>1. told' = told \/ (told' = told \cup {"REPAIR"} /\ repair # None)
            BY <1>1, <1>3, <2>1
        <3> QED BY <1>2, <2>1, <3>1, DecisionsTold, DecisionsKept
    <2>2. CASE repair' # repair
        <3>1. repair' = new /\ repair = None /\ repair' # None /\ repair'.base = review
            BY <1>1, <1>3, <2>2
        <3>2. "ACCEPT" \notin told'
            BY <1>1, <1>2 DEF IInv, TellsOneDecision
        <3>3. RepairStands'
            BY <1>2, <3>1 DEF IInv, RepairStands
        <3>4. TellsOneDecision'
            <4>1. Cardinality(told') <= 1
                BY <1>4, <3>2, ToldOnce DEF TypeOK
            <4> QED BY <1>2, <3>2, <4>1 DEF TellsOneDecision
        <3>5. AcceptIsGrounded'
            BY <1>2 DEF AcceptIsGrounded
        <3>6. RepairFreezesPacket'
            BY <1>2, <3>1 DEF IInv, RepairFreezesPacket, EvidenceBound, EvidenceEligible,
               ArtifactReadable, isScopeIntegrityPacketComplete
        <3> QED BY <3>3, <3>4, <3>5, <3>6 DEF Decisions
    <2> QED BY <2>1, <2>2
<1>6. Jobs'
    BY <1>2, JobsKept DEF mem
<1> QED BY <1>4, <1>5, <1>6 DEF IInv, Decisions, Jobs

LEMMA ManualMigrateIInv == ASSUME IInv, ManualMigrate PROVE IInv'
<1>1. PICK o \in Outcome1 : migration' = (IF o = "lost" THEN None ELSE "PRESENTED") /\ Spend(o)
    BY DEF ManualMigrate
<1>2. /\ clock' \in 1..MaxCall /\ clock' \in 0..MaxCall /\ clock' = clock + 1
      /\ UNCHANGED <<kind, tree, policy, mem, hist, status, proof, review, progress,
                     evidence, repair>>
    BY CallTyped, Constants DEF ManualMigrate
<1>3. TypeOK'
    BY <1>1, <1>2, SpendTyped DEF IInv, TypeOK, mem, hist, BudgetShape, Outcome2
<1>4. Decisions'
    BY <1>2, DecisionsKept DEF hist
<1>5. Jobs'
    BY <1>2, JobsKept DEF mem, hist
<1> QED BY <1>3, <1>4, <1>5 DEF IInv, Decisions, Jobs

LEMMA ManualAcceptMigrationIInv == ASSUME IInv, ManualAcceptMigration PROVE IInv'
<1>1. PICK o \in Outcome1 :
        /\ migration' = IF o = "lost" THEN migration ELSE "ACCEPTED"
        /\ told' = IF o = "done" THEN told \cup {"ACCEPT"} ELSE told
        /\ Spend(o)
    BY DEF ManualAcceptMigration
<1>2. /\ clock' \in 1..MaxCall /\ clock' \in 0..MaxCall /\ clock' = clock + 1
      /\ status = "REVIEWED"
      /\ UNCHANGED <<kind, tree, policy, mem, spent, asks, status, proof, review, progress,
                     evidence, repair>>
    BY CallTyped, Constants DEF ManualAcceptMigration
<1>3. TypeOK'
    BY <1>1, <1>2, SpendTyped DEF IInv, TypeOK, mem, BudgetShape, Outcome2
<1>4. Decisions'
    BY <1>1, <1>2, DecisionsTold
<1>5. Jobs'
    BY <1>2, JobsKept DEF mem
<1> QED BY <1>3, <1>4, <1>5 DEF IInv, Decisions, Jobs

LEMMA ManualRepeatAcceptIInv == ASSUME IInv, ManualRepeatAccept PROVE IInv'
<1>1. /\ clock' \in 1..MaxCall /\ clock' \in 0..MaxCall /\ clock' = clock + 1
      /\ status = "REVIEWED" /\ told' = told \cup {"ACCEPT"}
      /\ UNCHANGED <<kind, tree, policy, mem, disk, spent, asks, budget>>
    BY CallTyped, Constants DEF ManualRepeatAccept
<1>2. TypeOK'
    BY <1>1 DEF IInv, TypeOK, mem, disk
<1>3. Decisions'
    BY <1>1, DecisionsTold DEF disk
<1>4. Jobs'
    BY <1>1, JobsKept DEF mem, disk
<1> QED BY <1>2, <1>3, <1>4 DEF IInv, Decisions, Jobs

-----------------------------------------------------------------------------
(* The automatic review *)

\* What a strict read shows is on disk.
LEMMA DurableMeans ==
    /\ durableDecision \in {None, "ACCEPT", "REPAIR"}
    /\ durableDecision = "ACCEPT" => status = "REVIEWED"
    /\ durableDecision = "REPAIR" =>
          repair # None \/ (evidence # None /\ evidence.decision = "REPAIR")
BY Absent DEF durableDecision, AcceptDecided, RepairDecided

Presenting == {"idle", "initial", "preview", "page", "job"}

LEMMA GotoTyped ==
    ASSUME IInv, NEW l \in Presenting, Goto(l)
    PROVE  /\ pc' = l /\ pc' \notin Working
           /\ job' \in Progress \cup {None} /\ ev' \in Evidence \cup {None}
BY DEF Goto, GoWith, Return, Presenting, Working, IInv, TypeOK

LEMMA AutoStartIInv == ASSUME IInv, AutoStart PROVE IInv'
<1> DEFINE l == CASE durableDecision # None \/ status = "REVIEWED" -> "idle"
                  [] ReadReview = "invalid" -> "idle"
                  [] ReadReview = "not_found" -> "initial"
                  [] OTHER -> IF kind = "outside" \/ ~Resolved THEN "idle" ELSE "preview"
<1>1. /\ clock' \in 1..MaxCall /\ clock' \in 0..MaxCall /\ clock' > 0
      /\ told' = told \cup ({durableDecision} \ {None}) /\ Goto(l)
      /\ UNCHANGED <<kind, tree, policy, disk, spent, asks, budget>>
    BY CallTyped, Constants DEF AutoStart
<1>2. l \in Presenting
    BY DEF Presenting
<1> HIDE DEF l
<1>3. TypeOK'
    BY <1>1, <1>2, GotoTyped, DurableMeans DEF IInv, TypeOK, disk, Presenting
<1>4. Decisions'
    <2>1. CASE durableDecision = None
        BY <1>1, <2>1, DecisionsKept DEF disk
    <2>2. CASE durableDecision # None
        BY <1>1, <2>2, DurableMeans, DecisionsTold DEF disk
    <2> QED BY <2>1, <2>2
<1>5. Jobs'
    BY <1>1, <1>2, GotoTyped, JobsResting DEF disk
<1> QED BY <1>3, <1>4, <1>5 DEF IInv, Decisions, Jobs

\* A packet is presented by the automatic review.
LEMMA AutoPresents ==
    ASSUME IInv, pc # "idle", UNCHANGED <<kind, tree, policy, hist, clock>>, MayPresent,
           NEW o \in Outcome2, Persist(NextPacket, o), NEW l \in Presenting, Goto(l)
    PROVE  IInv'
<1>1. clock' \in 0..MaxCall /\ clock' > 0 /\ Undecided
    BY MayPresentUndecided DEF IInv, TypeOK, CallIsCounted
<1>2. NextPacket \in Packet
    BY <1>1, NextPacketTyped
<1>3. TypeOK'
    BY <1>1, <1>2, PersistEffect, SpendTyped, GotoTyped
    DEF IInv, TypeOK, hist, BudgetShape, Presenting
<1>4. Decisions'
    BY <1>1, <1>2, PersistDecisions DEF hist
<1>5. Jobs'
    BY <1>1, <1>2, PersistEffect, GotoTyped, JobsResting DEF hist
<1> QED BY <1>3, <1>4, <1>5 DEF IInv, Decisions, Jobs

\* Or only goes on.
LEMMA AutoGoesOn ==
    ASSUME IInv, pc # "idle", UNCHANGED <<kind, tree, policy, hist, clock, disk, budget>>,
           NEW l \in Presenting, Goto(l)
    PROVE  IInv'
<1>1. clock' > 0
    BY DEF IInv, TypeOK, CallIsCounted
<1>2. TypeOK'
    BY GotoTyped DEF IInv, TypeOK, hist, disk, Presenting
<1>3. Decisions'
    BY DecisionsKept DEF hist, disk
<1>4. Jobs'
    BY <1>1, GotoTyped, JobsResting DEF hist, disk
<1> QED BY <1>2, <1>3, <1>4 DEF IInv, Decisions, Jobs

LEMMA AutoInitialIInv == ASSUME IInv, AutoInitial PROVE IInv'
<1>1. pc # "idle" /\ UNCHANGED <<kind, tree, policy, hist, clock>>
    BY DEF AutoInitial
<1>2. CASE MayPresent
    <2>1. PICK o \in Outcome2 :
              /\ Persist(NextPacket, o)
              /\ Goto(IF o = "done" /\ kind = "change" THEN "preview" ELSE "idle")
        BY <1>2 DEF AutoInitial
    <2> QED BY <1>1, <1>2, <2>1, AutoPresents DEF Presenting
<1>3. CASE ~MayPresent
    BY <1>1, <1>3, AutoGoesOn DEF AutoInitial, Presenting
<1> QED BY <1>2, <1>3

LEMMA AutoPreviewIInv == ASSUME IInv, AutoPreview PROVE IInv'
BY AutoGoesOn DEF AutoPreview, Presenting

LEMMA AutoPageIInv == ASSUME IInv, AutoPage PROVE IInv'
<1> DEFINE complete == isScopeIntegrityPacketComplete(review)
<1>1. pc # "idle" /\ UNCHANGED <<kind, tree, policy, hist, clock>>
    BY DEF AutoPage
<1>2. CASE complete
    BY <1>1, <1>2, AutoGoesOn DEF AutoPage, Presenting
<1>3. CASE ~complete /\ MayPresent
    <2>1. PICK o \in Outcome1 :
              Persist(NextPacket, o) /\ Goto(IF o = "done" THEN "page" ELSE "idle")
        BY <1>3 DEF AutoPage
    <2> QED BY <1>1, <1>3, <2>1, AutoPresents DEF Presenting, Outcome2
<1>4. CASE ~complete /\ ~MayPresent
    BY <1>1, <1>4, AutoGoesOn DEF AutoPage, Presenting
<1> QED BY <1>2, <1>3, <1>4

\* A step that saves the job p and returns, or goes on with it.
LEMMA AutoSaves ==
    ASSUME IInv, pc # "idle", NEW p \in Progress, NEW k \in Nat, NEW ok \in BOOLEAN,
           UNCHANGED <<kind, tree, policy, clock, told, status, proof, review, evidence,
                       repair, migration>>,
           spent' = spent + k, asks' \in [Batch -> Nat],
           JobFits(p, spent'), p.status # "COMPLETED", SaveProgress(p, ok),
           \/ Return
           \/ /\ ok /\ pc' \in {"ask", "decide"} /\ job' = p /\ ev' = ev
              /\ p.policy = policy /\ (pc' = "decide" => Assessed(p) = Batch)
    PROVE  IInv'
<1>1. /\ progress' \in {progress, p} /\ budget' \in BudgetShape
      /\ ok => progress' = p
      /\ progress # None /\ progress.status = "COMPLETED" => progress' = progress
    BY SaveEffect
<1>2. /\ pc' \in {"idle", "ask", "decide"}
      /\ job' \in Progress \cup {None} /\ ev' \in Evidence \cup {None}
    BY DEF Return, IInv, TypeOK
<1>3. spent' \in Nat
    BY DEF IInv, TypeOK
<1>4. TypeOK'
    BY <1>1, <1>2, <1>3 DEF IInv, TypeOK, BudgetShape
<1>5. Decisions'
    BY DecisionsKept
<1>6. Jobs'
    <2>1. \/ pc' = "idle"
          \/ /\ pc' \in {"ask", "decide"} /\ job' = p /\ progress' = p
             /\ p.policy = policy' /\ (pc' = "decide" => Assessed(p) = Batch)
        BY <1>1 DEF Return
    <2> QED BY <1>1, <2>1, JobsSaved
<1> QED BY <1>4, <1>5, <1>6 DEF IInv, Decisions, Jobs

\* The job begins with the assessments it was saved with.
LEMMA PreparedFits ==
    ASSUME IInv, CanResume
    PROVE  /\ Prepared \in Progress /\ JobFits(Prepared, spent)
           /\ Prepared.policy = policy /\ Prepared.status = "RUNNING"
<1>1. CASE progress = None
    <2> DEFINE new == [status |-> "RUNNING", policy |-> policy,
                       batch |-> [b \in Batch |-> "pending"],
                       by |-> [b \in Batch |-> 0], usage |-> 0, final |-> None]
    <2>1. Prepared = new
        BY <1>1 DEF Prepared
    <2>2. new \in Progress
        <3>1. [b \in Batch |-> 0] \in [Batch -> 0..Policies]
            BY Constants
        <3>2. [b \in Batch |-> "pending"] \in [Batch -> {"pending", "failed"} \cup Completed]
            OBVIOUS
        <3>3. policy \in 1..Policies
            BY DEF IInv, TypeOK
        <3> QED BY <3>1, <3>2, <3>3 DEF Progress
    <2>3. Assessed(new) = {} /\ new.usage = 0
        BY DEF Assessed, Completed
    <2>4. JobFits(new, spent)
        <3>1. Cardinality({}) = 0 /\ spent \in Nat
            BY FS_EmptySet DEF IInv, TypeOK
        <3> HIDE DEF new
        <3> QED BY <2>3, <3>1 DEF JobFits
    <2> QED BY <2>1, <2>2, <2>4
<1>2. CASE progress # None
    <2> DEFINE batch == [b \in Batch |-> IF progress.batch[b] = "failed" THEN "pending"
                                         ELSE progress.batch[b]]
               new == [progress EXCEPT !.status = "RUNNING", !.batch = batch]
    <2>1. Prepared = new
        BY <1>2 DEF Prepared
    <2>2. progress \in Progress /\ JobFits(progress, spent) /\ spent \in Nat
          /\ progress.policy = policy
        BY <1>2 DEF IInv, TypeOK, JobsFit, CanResume
    <2>3. batch \in [Batch -> {"pending", "failed"} \cup Completed]
        BY <2>2 DEF Progress
    <2>4. \A b \in Batch : batch[b] \in Completed <=> progress.batch[b] \in Completed
        BY DEF Completed
    <2> HIDE DEF batch
    <2>5. /\ new \in Progress /\ new.batch = batch /\ new.by = progress.by
          /\ new.usage = progress.usage /\ new.policy = progress.policy
          /\ new.status = "RUNNING"
        BY <2>2, <2>3 DEF Progress
    <2>6. Assessed(new) = Assessed(progress)
        BY <2>4, <2>5 DEF Assessed
    <2> HIDE DEF new
    <2>7. progress.usage \in Nat /\ 0 \in Nat
        BY <2>2 DEF Progress
    <2>8. new.usage = progress.usage + 0 /\ spent + 0 = spent
        BY <2>2, <2>5, <2>7
    <2>9. JobFits(new, spent + 0)
        BY <2>2, <2>5, <2>6, <2>7, <2>8, FitsPaid
    <2> QED BY <2>1, <2>2, <2>5, <2>8, <2>9
<1> QED BY <1>1, <1>2

\* Only the status of a fitting job is written, after k answers that were paid for.
LEMMA FitsStatus ==
    ASSUME NEW p \in Progress, NEW n \in Nat, JobFits(p, n), NEW k \in Nat,
           NEW s \in {"RUNNING", "FINALIZING", "COMPLETED", "RETRYABLE_FAILURE"}
    PROVE  LET q == [p EXCEPT !.status = s, !.usage = p.usage + k]
           IN  /\ q \in Progress /\ JobFits(q, n + k) /\ q.policy = p.policy
               /\ q.status = s /\ Assessed(q) = Assessed(p)
<1> DEFINE q == [p EXCEPT !.status = s, !.usage = p.usage + k]
<1>1. p.usage \in Nat /\ p.usage + k \in Nat
    BY DEF Progress
<1>2. /\ q \in Progress /\ q.policy = p.policy /\ q.status = s /\ q.batch = p.batch
      /\ q.by = p.by /\ q.usage = p.usage + k
    BY <1>1 DEF Progress
<1> HIDE DEF q
<1>3. Assessed(q) = Assessed(p)
    BY <1>2 DEF Assessed
<1>4. JobFits(q, n + k)
    BY <1>2, <1>3, FitsPaid
<1>5. /\ q \in Progress /\ JobFits(q, n + k) /\ q.policy = p.policy
      /\ q.status = s /\ Assessed(q) = Assessed(p)
    BY <1>2, <1>3, <1>4
<1> QED BY <1>5 DEF q

LEMMA StatusOnly ==
    ASSUME NEW p \in Progress, NEW n \in Nat, JobFits(p, n),
           NEW s \in {"RUNNING", "FINALIZING", "COMPLETED", "RETRYABLE_FAILURE"}
    PROVE  LET q == [p EXCEPT !.status = s]
           IN  /\ q \in Progress /\ JobFits(q, n) /\ q.policy = p.policy
               /\ q.status = s /\ Assessed(q) = Assessed(p)
<1> DEFINE q == [p EXCEPT !.status = s]
<1>1. p.usage \in Nat /\ p.usage + 0 = p.usage /\ n + 0 = n
    BY DEF Progress
<1>2. /\ q \in Progress /\ q.policy = p.policy /\ q.status = s /\ q.batch = p.batch
      /\ q.by = p.by /\ q.usage = p.usage
    BY DEF Progress
<1> HIDE DEF q
<1>3. Assessed(q) = Assessed(p)
    BY <1>2 DEF Assessed
<1>4. JobFits(q, n + 0)
    <2>1. q.usage = p.usage + 0 /\ 0 \in Nat
        BY <1>1, <1>2
    <2> QED BY <1>2, <1>3, <2>1, FitsPaid
<1>5. /\ q \in Progress /\ JobFits(q, n) /\ q.policy = p.policy
      /\ q.status = s /\ Assessed(q) = Assessed(p)
    BY <1>1, <1>2, <1>3, <1>4
<1> QED BY <1>5 DEF q

LEMMA AutoJobIInv == ASSUME IInv, AutoJob PROVE IInv'
<1>1. /\ pc # "idle" /\ UNCHANGED <<kind, tree, policy, clock, hist, status, proof, review,
                                    evidence, repair, migration>>
    BY DEF AutoJob
<1>2. /\ spent \in Nat /\ 0 \in Nat /\ spent' = spent + 0 /\ spent' = spent
      /\ asks' \in [Batch -> Nat]
      /\ UNCHANGED <<kind, tree, policy, clock, told, status, proof, review, evidence,
                     repair, migration>>
    BY <1>1 DEF IInv, TypeOK, hist
<1>3. CASE Return /\ UNCHANGED <<progress, budget>>
    BY <1>1, <1>3, AutoGoesOn DEF disk, Goto, GoWith, Presenting
<1>4. ASSUME CanResume, NEW ok \in BOOLEAN, SaveProgress(Prepared, ok),
             GoWith(IF ok THEN "ask" ELSE "idle", Prepared)
      PROVE  IInv'
    <2>1. /\ Prepared \in Progress /\ JobFits(Prepared, spent')
          /\ Prepared.policy = policy /\ Prepared.status # "COMPLETED"
        BY <1>2, <1>4, PreparedFits
    <2>2. \/ Return
          \/ ok /\ pc' \in {"ask", "decide"} /\ job' = Prepared /\ ev' = ev /\ pc' # "decide"
        BY <1>4 DEF GoWith
    <2> QED BY <1>1, <1>2, <1>4, <2>1, <2>2, AutoSaves
<1>5. ASSUME CanResume, NEW ok \in BOOLEAN, Return,
             SaveProgress([Prepared EXCEPT !.status = "RETRYABLE_FAILURE"], ok)
      PROVE  IInv'
    <2> DEFINE p == [Prepared EXCEPT !.status = "RETRYABLE_FAILURE"]
    <2>1. p \in Progress /\ JobFits(p, spent') /\ p.status # "COMPLETED"
        BY <1>2, <1>5, PreparedFits, StatusOnly
    <2>2. SaveProgress(p, ok)
        BY <1>5
    <2> HIDE DEF p
    <2> QED BY <1>1, <1>2, <1>5, <2>1, <2>2, AutoSaves
<1> QED BY <1>3, <1>4, <1>5 DEF AutoJob

LEMMA MinIsMember == ASSUME NEW S, S \subseteq Nat, S # {} PROVE Min(S) \in S
<1> DEFINE R == OpToRel(<, Nat)
<1>1. IsWellFoundedOn(R, Nat)
    BY NatLessThanWellFounded
<1>2. \A x \in Nat, y \in Nat : y < x => <<y, x>> \in R
    BY DEF OpToRel
<1> HIDE DEF R
<1>3. PICK x \in S : \A y \in S : ~(<<y, x>> \in R)
    BY <1>1, WFMin, Zenon
<1>4. \A y \in S : ~(y < x)
    BY <1>2, <1>3, Zenon
<1>5. \A y \in S : x <= y
    BY <1>4
<1> QED BY <1>5 DEF Min

\* The answer about batch b is put into the job.
Paid(answer) == IF answer = "error" THEN 0 ELSE 1
Answered(p, b, answer, by) ==
    [p EXCEPT !.status = IF answer \in Completed THEN "RUNNING" ELSE "RETRYABLE_FAILURE",
              !.usage = @ + Paid(answer),
              !.batch[b] = IF answer \in Completed THEN answer ELSE "failed",
              !.by[b] = IF answer \in Completed THEN by ELSE @]

LEMMA AnswerFits ==
    ASSUME NEW p \in Progress, NEW n \in Nat, JobFits(p, n), NEW b \in Batch,
           b \notin Assessed(p), NEW answer \in {"error", "unusable"} \cup Completed
    PROVE  LET q == Answered(p, b, answer, p.policy)
           IN  /\ q \in Progress /\ JobFits(q, n + Paid(answer)) /\ q.policy = p.policy
               /\ q.status # "COMPLETED"
<1> DEFINE paid == IF answer = "error" THEN 0 ELSE 1
           done == answer \in Completed
           state == IF done THEN "RUNNING" ELSE "RETRYABLE_FAILURE"
           batch == [p.batch EXCEPT ![b] = IF done THEN answer ELSE "failed"]
           by == [p.by EXCEPT ![b] = IF done THEN p.policy ELSE @]
           q == [p EXCEPT !.status = state, !.usage = @ + paid, !.batch = batch, !.by = by]
<1>1. /\ p.usage \in Nat /\ p.policy \in 1..Policies /\ p.by \in [Batch -> 0..Policies]
      /\ p.batch \in [Batch -> {"pending", "failed"} \cup Completed]
    BY DEF Progress
<1>2. /\ paid \in Nat /\ p.usage + paid \in Nat
      /\ done => paid = 1
    BY <1>1 DEF Completed
<1>3. /\ batch \in [Batch -> {"pending", "failed"} \cup Completed]
      /\ by \in [Batch -> 0..Policies]
    BY <1>1, Constants
<1>4. \A c \in Batch : batch[c] \in Completed <=> (p.batch[c] \in Completed \/ (c = b /\ done))
    <2>1. p.batch[b] \notin Completed
        BY DEF Assessed
    <2> QED BY <1>1, <2>1 DEF Completed
<1>5. /\ \A c \in Batch : c # b => by[c] = p.by[c]
      /\ done => by[b] = p.policy
    BY <1>1
<1>6. state \in {"RUNNING", "RETRYABLE_FAILURE"}
    OBVIOUS
<1> HIDE DEF paid, batch, by, state
<1>7. /\ q \in Progress /\ q.policy = p.policy /\ q.status = state /\ q.batch = batch
      /\ q.by = by /\ q.usage = p.usage + paid
    BY <1>1, <1>2, <1>3, <1>6 DEF Progress
<1> HIDE DEF q
<1>8. JobFits(q, n + paid)
    <2>1. \A c \in Assessed(p) : q.by[c] = p.by[c]
        BY <1>5, <1>7 DEF Assessed
    <2>2. CASE done
        <3>1. Assessed(q) = Assessed(p) \cup {b}
            BY <1>4, <1>7, <2>2 DEF Assessed
        <3>2. q.usage = p.usage + 1 /\ q.by[b] = p.policy
            BY <1>2, <1>5, <1>7, <2>2
        <3>3. JobFits(q, n + 1)
            BY <1>7, <2>1, <3>1, <3>2, FitsAssessed
        <3> QED BY <1>2, <2>2, <3>3
    <2>3. CASE ~done
        <3>1. Assessed(q) = Assessed(p)
            BY <1>4, <1>7, <2>3 DEF Assessed
        <3> QED BY <1>2, <1>7, <2>1, <3>1, FitsPaid
    <2> QED BY <2>2, <2>3
<1>9. /\ q \in Progress /\ JobFits(q, n + paid) /\ q.policy = p.policy
      /\ q.status # "COMPLETED"
    BY <1>6, <1>7, <1>8
<1>10. q = Answered(p, b, answer, p.policy) /\ paid = Paid(answer)
    BY DEF q, paid, batch, by, state, Answered, Paid
<1> QED BY <1>9, <1>10

LEMMA AutoAskIInv == ASSUME IInv, AutoAsk PROVE IInv'
<1> DEFINE b == Min(ToAsk)
<1>1. PICK answer \in {"error", "unusable"} \cup Completed, ok \in BOOLEAN :
           /\ spent' = spent + Paid(answer)
           /\ SaveProgress(Answered(job, b, answer, policy), ok)
           /\ GoWith(IF answer \in Completed /\ ok THEN "ask" ELSE "idle",
                     Answered(job, b, answer, policy))
    BY Zenon DEF AutoAsk, Answered, Paid
<1> DEFINE next == Answered(job, b, answer, policy)
<1>2. /\ pc = "ask" /\ ToAsk # {} /\ asks' = [asks EXCEPT ![b] = @ + 1]
      /\ UNCHANGED <<kind, tree, policy, clock, told, status, proof, review, evidence,
                     repair, migration>>
    BY DEF AutoAsk
<1>3. b \in Batch /\ b \notin Assessed(job)
    <2>1. ToAsk \subseteq Nat /\ ToAsk \subseteq Batch
        BY DEF ToAsk, Batch
    <2>2. b \in ToAsk
        BY <1>2, <2>1, MinIsMember
    <2> QED BY <2>2 DEF ToAsk, Assessed
<1> HIDE DEF b
<1>4. job \in Progress /\ JobFits(job, spent) /\ job.policy = policy /\ spent \in Nat
    BY <1>2 DEF IInv, TypeOK, JobsFit, Working
<1>5. /\ next \in Progress /\ JobFits(next, spent + Paid(answer)) /\ next.policy = policy
      /\ next.status # "COMPLETED"
    BY <1>3, <1>4, AnswerFits, Zenon
<1>6. Paid(answer) \in Nat
    BY DEF Paid
<1>7. asks' \in [Batch -> Nat]
    <2>1. asks \in [Batch -> Nat] /\ asks[b] + 1 \in Nat
        BY <1>3 DEF IInv, TypeOK
    <2> QED BY <1>2, <1>3, <2>1
<1> HIDE DEF next
<1>8. /\ spent' = spent + Paid(answer) /\ SaveProgress(next, ok)
      /\ GoWith(IF answer \in Completed /\ ok THEN "ask" ELSE "idle", next)
    BY <1>1, Zenon DEF next
<1>9. \/ Return
      \/ ok /\ pc' \in {"ask", "decide"} /\ job' = next /\ ev' = ev /\ pc' # "decide"
    BY <1>8 DEF GoWith
<1> QED BY <1>2, <1>5, <1>6, <1>7, <1>8, <1>9, AutoSaves

LEMMA AutoFinalizeIInv == ASSUME IInv, AutoFinalize PROVE IInv'
<1> DEFINE next == [job EXCEPT !.status = "FINALIZING"]
<1>1. PICK ok \in BOOLEAN :
           SaveProgress(next, ok) /\ GoWith(IF ok THEN "decide" ELSE "idle", next)
    BY Zenon DEF AutoFinalize
<1>2. /\ pc = "ask" /\ ToAsk = {}
      /\ UNCHANGED <<kind, tree, policy, clock, told, spent, asks, status, proof, review,
                     evidence, repair, migration>>
    BY DEF AutoFinalize, hist
<1>3. /\ job \in Progress /\ JobFits(job, spent) /\ job.policy = policy
      /\ spent \in Nat /\ 0 \in Nat /\ spent' = spent + 0 /\ asks' \in [Batch -> Nat]
    BY <1>2 DEF IInv, TypeOK, JobsFit, Working
<1>4. Assessed(job) = Batch
    BY <1>2 DEF ToAsk, Assessed
<1>5. /\ next \in Progress /\ JobFits(next, spent') /\ next.policy = policy
      /\ next.status # "COMPLETED" /\ Assessed(next) = Batch
    BY <1>2, <1>3, <1>4, StatusOnly
<1> HIDE DEF next
<1>6. \/ Return
      \/ ok /\ pc' \in {"ask", "decide"} /\ job' = next /\ ev' = ev
    BY <1>1 DEF GoWith
<1> QED BY <1>1, <1>2, <1>3, <1>5, <1>6, AutoSaves

\* The decision is built from a job all of whose batches are assessed.
LEMMA DecidedFits ==
    ASSUME IInv, pc = "decide", NEW d \in {"ACCEPT", "REPAIR"}, validFinalAssessment(d)
    PROVE  LET e == [decision |-> d, at |-> clock, usage |-> job.usage + 1,
                     policy |-> job.policy, batch |-> job.batch, by |-> job.by]
           IN  e \in Evidence /\ EvidenceFits(e, spent + 1)
<1> DEFINE e == [decision |-> d, at |-> clock, usage |-> job.usage + 1,
                 policy |-> job.policy, batch |-> job.batch, by |-> job.by]
<1>1. /\ job \in Progress /\ JobFits(job, spent) /\ Assessed(job) = Batch
      /\ spent \in Nat /\ clock \in 1..MaxCall
    BY Constants DEF IInv, TypeOK, JobsFit, AllAssessed, CallIsCounted, Working
<1>2. /\ job.usage \in Nat /\ job.policy \in 1..Policies
      /\ job.by \in [Batch -> 0..Policies]
      /\ job.batch \in [Batch -> {"pending", "failed"} \cup Completed]
    BY <1>1 DEF Progress
<1>3. \A b \in Batch : job.batch[b] \in Completed /\ job.by[b] = job.policy
    <2>1. \A b \in Batch : b \in Assessed(job)
        BY <1>1
    <2> QED BY <1>1, <2>1 DEF Assessed, JobFits
<1>4. Batches <= job.usage /\ job.usage <= spent
    <2>1. Cardinality(Assessed(job)) = Batches
        BY <1>1, AssessedFinite
    <2> QED BY <1>1, <2>1 DEF JobFits
<1>5. job.usage + 1 \in Nat /\ job.usage + 1 \in (Batches + 1)..(spent + 1)
    BY <1>1, <1>2, <1>4, Constants
<1>6. job.batch \in [Batch -> Completed] /\ job.by \in [Batch -> 1..Policies]
    BY <1>2, <1>3
<1>7. e \in Evidence
    BY <1>1, <1>2, <1>5, <1>6 DEF Evidence
<1>8. d = "ACCEPT" => \A b \in Batch : job.batch[b] = "pass"
    BY <1>3 DEF validFinalAssessment, Completed
<1>9. EvidenceFits(e, spent + 1)
    BY <1>3, <1>5, <1>8 DEF EvidenceFits
<1> QED BY <1>7, <1>9

LEMMA AutoDecideIInv == ASSUME IInv, AutoDecide PROVE IInv'
<1>1. /\ pc = "decide"
      /\ UNCHANGED <<kind, tree, policy, clock, told, asks, status, proof, review, evidence,
                     repair, migration>>
    BY DEF AutoDecide
<1>2. /\ job \in Progress /\ JobFits(job, spent) /\ job.policy = policy
      /\ Assessed(job) = Batch /\ spent \in Nat /\ asks' \in [Batch -> Nat]
    BY <1>1 DEF IInv, TypeOK, JobsFit, AllAssessed, Working
<1>3. ASSUME NEW d \in {"ACCEPT", "REPAIR"}, validFinalAssessment(d),
             job' = [job EXCEPT !.usage = @ + 1],
             ev' = [decision |-> d, at |-> clock, usage |-> job.usage + 1,
                    policy |-> job.policy, batch |-> job.batch, by |-> job.by],
             spent' = spent + 1, pc' = "after", UNCHANGED <<progress, budget>>
      PROVE  IInv'
    <2>1. ev' \in Evidence /\ EvidenceFits(ev', spent')
        BY <1>1, <1>3, DecidedFits, Zenon
    <2>2. /\ job' \in Progress /\ job'.policy = job.policy /\ job'.batch = job.batch
          /\ job'.by = job.by /\ job'.usage = job.usage + 1
        <3>1. job.usage + 1 \in Nat
            BY <1>2 DEF Progress
        <3> QED BY <1>2, <1>3, <3>1 DEF Progress
    <2>3. Assessed(job') = Assessed(job)
        BY <2>2 DEF Assessed
    <2>4. JobFits(job', spent')
        BY <1>2, <1>3, <2>2, <2>3, FitsPaid
    <2>5. spent' \in Nat /\ spent <= spent'
        BY <1>2, <1>3
    <2>6. TypeOK'
        BY <1>1, <1>3, <2>1, <2>2, <2>5 DEF IInv, TypeOK
    <2>7. Decisions'
        BY <1>1, DecisionsKept
    <2>8. Jobs'
        <3>1. CallIsCounted' /\ JobIsSaved' /\ CompletedHasEvidence'
            BY <1>1, <1>3 DEF IInv, CallIsCounted, JobIsSaved, CompletedHasEvidence
        <3>2. progress' # None => JobFits(progress', spent')
            BY <1>2, <1>3, <2>5, FitsMore DEF IInv, TypeOK, JobsFit
        <3>3. JobsFit'
            BY <1>1, <1>2, <2>2, <2>4, <3>2, Absent DEF JobsFit
        <3>4. AllAssessed'
            BY <1>2, <2>3 DEF AllAssessed
        <3>5. evidence' # None => EvidenceFits(evidence', spent')
            BY <1>1, <1>2, <2>5, EvidenceFitsMore DEF IInv, TypeOK, EvidenceFollows
        <3>6. EvidenceFollows'
            BY <1>3, <2>1, <3>5, Absent DEF EvidenceFollows
        <3> QED BY <3>1, <3>3, <3>4, <3>6 DEF Jobs
    <2> QED BY <2>6, <2>7, <2>8 DEF IInv, Decisions, Jobs
<1>4. ASSUME NEW paid \in {0, 1}, NEW ok \in BOOLEAN, spent' = spent + paid, Return,
             SaveProgress([job EXCEPT !.status = "RETRYABLE_FAILURE", !.usage = @ + paid], ok)
      PROVE  IInv'
    <2> DEFINE p == [job EXCEPT !.status = "RETRYABLE_FAILURE", !.usage = job.usage + paid]
    <2>1. paid \in Nat /\ pc # "idle"
        BY <1>1
    <2>2. p \in Progress /\ JobFits(p, spent') /\ p.status # "COMPLETED"
        BY <1>2, <1>4, <2>1, FitsStatus
    <2>3. SaveProgress(p, ok)
        BY <1>4
    <2> HIDE DEF p
    <2> QED BY <1>1, <1>2, <1>4, <2>1, <2>2, <2>3, AutoSaves
<1> QED BY <1>3, <1>4, Zenon DEF AutoDecide

LEMMA AutoAfterIInv == ASSUME IInv, AutoAfter PROVE IInv'
<1>1. /\ pc = "after" /\ UNCHANGED <<kind, tree, policy, clock, disk, hist, budget>>
      /\ Goto(IF tree = "worker" THEN "publish" ELSE "idle")
    BY DEF AutoAfter
<1>2. CASE tree = "worker"
    <2>1. pc' = "publish" /\ job' = job /\ ev' = ev
        BY <1>1, <1>2 DEF Goto, GoWith
    <2>2. TypeOK'
        BY <1>1, <2>1 DEF IInv, TypeOK, disk, hist
    <2>3. Decisions'
        BY <1>1, DecisionsKept DEF disk, hist
    <2>4. Jobs'
        <3>1. CallIsCounted' /\ JobIsSaved' /\ CompletedHasEvidence'
            BY <1>1, <2>1 DEF IInv, CallIsCounted, JobIsSaved, CompletedHasEvidence, disk
        <3>2. JobsFit' /\ AllAssessed'
            BY <1>1, <2>1 DEF IInv, JobsFit, AllAssessed, Working, disk, hist
        <3>3. EvidenceFollows'
            BY <1>1, <2>1 DEF IInv, EvidenceFollows, disk, hist
        <3> QED BY <3>1, <3>2, <3>3 DEF Jobs
    <2> QED BY <2>2, <2>3, <2>4 DEF IInv, Decisions, Jobs
<1>3. CASE tree # "worker"
    BY <1>1, <1>3, AutoGoesOn DEF Presenting
<1> QED BY <1>2, <1>3

\* Published evidence is never changed, and is published beside no other decision.
LEMMA PublishDecisions ==
    ASSUME IInv, pc = "publish", MayPublish,
           UNCHANGED <<kind, review, repair, told>>,
           evidence' \in {evidence, ev},
           \/ UNCHANGED <<status, proof>>
           \/ ev.decision = "ACCEPT" /\ evidence' = ev /\ status' = "REVIEWED" /\ proof' = review
    PROVE  Decisions'
<1>1. /\ repair = None /\ repair' = None /\ evidence \in {None, ev} /\ EvidenceBound(ev)
      /\ evidence' \in {None, ev} /\ ev # None
      /\ ev.decision \in {"ACCEPT", "REPAIR"}
    BY DEF MayPublish, IInv, TypeOK, EvidenceFollows, Evidence
<1>2. ev.decision = "ACCEPT" => \A b \in Batch : ev.batch[b] = "pass"
    BY DEF IInv, EvidenceFollows, EvidenceFits
<1>3. ev.decision = "REPAIR" => status = "PENDING_REVIEW" /\ UNCHANGED <<status, proof>>
    BY <1>1 DEF EvidenceBound
<1>4. "REPAIR" \in told => evidence = ev /\ evidence' = ev /\ ev.decision = "REPAIR"
    BY <1>1 DEF IInv, RepairStands
<1>5. "ACCEPT" \in told => status' = "REVIEWED" /\ ev.decision = "ACCEPT"
    BY <1>1, <1>3 DEF IInv, TellsOneDecision
<1>6. RepairStands'
    BY <1>1, <1>3, <1>4 DEF RepairStands
<1>7. TellsOneDecision'
    BY <1>1, <1>3, <1>4, <1>5 DEF IInv, TellsOneDecision
<1>8. AcceptIsGrounded'
    <2>1. CASE UNCHANGED <<status, proof>>
        BY <1>1, <2>1 DEF IInv, AcceptIsGrounded, isScopeIntegrityPacketComplete, StrictlyAccepted
    <2>2. CASE ev.decision = "ACCEPT" /\ evidence' = ev /\ status' = "REVIEWED" /\ proof' = review
        BY <1>1, <1>2, <2>2 DEF AcceptIsGrounded, isScopeIntegrityPacketComplete,
           EvidenceBound, EvidenceEligible
    <2> QED BY <2>1, <2>2
<1>9. RepairFreezesPacket'
    BY <1>1, <1>3 DEF RepairFreezesPacket, EvidenceBound, EvidenceEligible, ArtifactReadable,
       isScopeIntegrityPacketComplete
<1> QED BY <1>6, <1>7, <1>8, <1>9 DEF Decisions

LEMMA PublishJobs ==
    ASSUME IInv, pc = "publish", UNCHANGED <<policy, clock, spent, progress>>,
           evidence' = evidence \/ (evidence \in {None, ev} /\ evidence' = ev),
           \/ pc' = "idle"
           \/ pc' = "complete" /\ job' = job /\ ev' = ev /\ evidence' = ev
    PROVE  Jobs'
<1>1. CallIsCounted' /\ JobIsSaved'
    BY DEF IInv, CallIsCounted, JobIsSaved
<1>2. CompletedHasEvidence'
    BY DEF IInv, CompletedHasEvidence, EvidenceFollows
<1>3. JobsFit' /\ AllAssessed'
    BY DEF IInv, JobsFit, AllAssessed, Working
<1>4. EvidenceFollows'
    BY DEF IInv, EvidenceFollows
<1> QED BY <1>1, <1>2, <1>3, <1>4 DEF Jobs

LEMMA AutoPublishIInv == ASSUME IInv, AutoPublish PROVE IInv'
<1>1. /\ pc = "publish"
      /\ UNCHANGED <<kind, tree, policy, clock, told, spent, asks, review, progress, repair,
                     migration>>
    BY DEF AutoPublish, hist
<1>2. ev \in Evidence /\ review \in Packet \cup {None, Damaged}
    BY <1>1 DEF IInv, TypeOK, EvidenceFollows
<1>3. CASE MayPublish
    <2>1. PICK o \in Outcome2 :
              /\ o = "half" => ev.decision = "ACCEPT"
              /\ evidence' = IF o = "lost" THEN evidence ELSE ev
              /\ IF ev.decision = "ACCEPT" /\ o \in {"done", "late"}
                 THEN status' = "REVIEWED" /\ proof' = review
                 ELSE UNCHANGED <<status, proof>>
              /\ Goto(IF o = "done" \/ Winner(evidence') THEN "complete" ELSE "idle")
              /\ Spend(o)
        BY <1>3 DEF AutoPublish
    <2>2. /\ evidence \in {None, ev} /\ evidence' \in {evidence, ev}
          /\ review \in Packet
        BY <1>2, <1>3, <2>1 DEF MayPublish, EvidenceBound, EvidenceEligible, ArtifactReadable
    <2>3. \/ UNCHANGED <<status, proof>>
          \/ ev.decision = "ACCEPT" /\ evidence' = ev /\ status' = "REVIEWED" /\ proof' = review
        BY <2>1
    <2>4. \/ pc' = "idle" /\ job' = None /\ ev' = None
          \/ pc' = "complete" /\ job' = job /\ ev' = ev /\ evidence' = ev
        BY <2>1 DEF Goto, GoWith, Return, Winner
    <2>5. TypeOK'
        BY <1>1, <1>2, <2>1, <2>2, <2>3, <2>4, SpendTyped DEF IInv, TypeOK, BudgetShape
    <2>6. Decisions'
        BY <1>1, <1>3, <2>2, <2>3, PublishDecisions
    <2>7. Jobs'
        BY <1>1, <2>2, <2>4, PublishJobs
    <2> QED BY <2>5, <2>6, <2>7 DEF IInv, Decisions, Jobs
<1>4. CASE ~MayPublish
    <2>1. /\ UNCHANGED <<evidence, status, proof, budget>>
          /\ Goto(IF Winner(evidence) THEN "complete" ELSE "idle")
        BY <1>4 DEF AutoPublish
    <2>2. \/ pc' = "idle" /\ job' = None /\ ev' = None
          \/ pc' = "complete" /\ job' = job /\ ev' = ev /\ evidence' = ev
        BY <2>1 DEF Goto, GoWith, Return, Winner
    <2>3. TypeOK'
        BY <1>1, <2>1, <2>2 DEF IInv, TypeOK
    <2>4. Decisions'
        BY <1>1, <2>1, DecisionsKept
    <2>5. Jobs'
        BY <1>1, <2>1, <2>2, PublishJobs
    <2> QED BY <2>3, <2>4, <2>5 DEF IInv, Decisions, Jobs
<1> QED BY <1>3, <1>4

LEMMA AutoCompleteIInv == ASSUME IInv, AutoComplete PROVE IInv'
<1> DEFINE p == [job EXCEPT !.status = "COMPLETED", !.final = ev.at]
<1>1. PICK ok \in BOOLEAN :
        /\ SaveProgress(p, ok)
        /\ told' = IF ok /\ durableDecision = ev.decision THEN told \cup {ev.decision} ELSE told
    BY DEF AutoComplete
<1>2. /\ pc = "complete" /\ Return
      /\ UNCHANGED <<kind, tree, policy, clock, spent, asks, status, proof, review, evidence,
                     repair, migration>>
    BY DEF AutoComplete
<1>3. /\ job \in Progress /\ JobFits(job, spent) /\ spent \in Nat /\ 0 \in Nat
      /\ ev \in Evidence /\ evidence = ev
    BY <1>2 DEF IInv, TypeOK, JobsFit, EvidenceFollows, Working
<1>4. ev.at \in 1..MaxCall /\ ev.decision \in {"ACCEPT", "REPAIR"}
    BY <1>3 DEF Evidence
<1>5. /\ p \in Progress /\ p.final = ev.at /\ p.batch = job.batch /\ p.by = job.by
      /\ p.usage = job.usage /\ p.policy = job.policy
    BY <1>3, <1>4 DEF Progress
<1> HIDE DEF p
<1>6. JobFits(p, spent)
    <2>1. Assessed(p) = Assessed(job)
        BY <1>5 DEF Assessed
    <2> QED BY <1>3, <1>5, <2>1 DEF JobFits
<1>7. /\ progress' \in {progress, p} /\ budget' \in BudgetShape
    BY <1>1, <1>5, SaveEffect
<1>8. TypeOK'
    BY <1>1, <1>2, <1>4, <1>5, <1>7 DEF IInv, TypeOK, Return, BudgetShape
<1>9. Decisions'
    <2>1. CASE told' = told
        BY <1>2, <2>1, DecisionsKept
    <2>2. CASE told' # told
        <3>1. durableDecision = ev.decision /\ told' = told \cup {ev.decision}
            BY <1>1, <2>2
        <3> QED BY <1>2, <1>4, <3>1, DurableMeans, DecisionsTold
    <2> QED BY <2>1, <2>2
<1>10. Jobs'
    <2>1. CallIsCounted' /\ JobIsSaved' /\ AllAssessed'
        BY <1>2 DEF CallIsCounted, JobIsSaved, AllAssessed, Return, Working
    <2>2. JobsFit'
        BY <1>2, <1>6, <1>7 DEF IInv, JobsFit, Return, Working
    <2>3. EvidenceFollows'
        BY <1>2 DEF IInv, EvidenceFollows, Return
    <2>4. CompletedHasEvidence'
        BY <1>2, <1>3, <1>5, <1>7, Absent DEF IInv, CompletedHasEvidence
    <2> QED BY <2>1, <2>2, <2>3, <2>4 DEF Jobs
<1> QED BY <1>8, <1>9, <1>10 DEF IInv, Decisions, Jobs

LEMMA CrashIInv == ASSUME IInv, Crash PROVE IInv'
<1>1. /\ budget.fault > 0 /\ budget' = [budget EXCEPT !.fault = @ - 1] /\ Return
      /\ UNCHANGED <<kind, tree, policy, clock, disk, hist>>
    BY DEF Crash
<1>2. budget' \in BudgetShape
    <2>1. "late" \in Outcome2 /\ Spend("late")
        BY <1>1 DEF Outcome1, Outcome2, Spend
    <2> QED BY <2>1, SpendTyped
<1>3. TypeOK'
    BY <1>1, <1>2 DEF IInv, TypeOK, Return, disk, hist, BudgetShape
<1>4. Decisions'
    BY <1>1, DecisionsKept DEF disk, hist
<1>5. Jobs'
    BY <1>1, JobsResting DEF Return, Working, disk, hist
<1> QED BY <1>3, <1>4, <1>5 DEF IInv, Decisions, Jobs

-----------------------------------------------------------------------------
(* The environment *)

LEMMA EditIInv == ASSUME IInv, Edit PROVE IInv'
<1>1. /\ budget.edit > 0 /\ budget' = [budget EXCEPT !.edit = budget.edit - 1]
      /\ tree' \in {"worker", "edited", "git"}
      /\ UNCHANGED <<kind, policy, clock, disk, mem, hist>>
    BY DEF Edit
<1>2. budget' \in BudgetShape
    <2>1. budget \in BudgetShape /\ budget.edit - 1 \in 0..MaxEdit
        BY <1>1, Constants DEF IInv, TypeOK, BudgetShape
    <2> QED BY <1>1, <2>1 DEF BudgetShape
<1>3. TypeOK'
    BY <1>1, <1>2 DEF IInv, TypeOK, disk, mem, hist, BudgetShape
<1>4. Decisions'
    BY <1>1, DecisionsKept DEF disk, hist
<1>5. Jobs'
    BY <1>1, JobsKept DEF disk, mem, hist
<1> QED BY <1>3, <1>4, <1>5 DEF IInv, Decisions, Jobs

LEMMA UpgradeIInv == ASSUME IInv, Upgrade PROVE IInv'
<1>1. /\ pc = "idle" /\ policy < Policies /\ policy' = policy + 1
      /\ UNCHANGED <<kind, tree, clock, disk, mem, hist, budget>>
    BY DEF Upgrade
<1>2. policy' \in 1..Policies
    BY <1>1, Constants DEF IInv, TypeOK
<1>3. TypeOK'
    BY <1>1, <1>2 DEF IInv, TypeOK, disk, mem, hist
<1>4. Decisions'
    BY <1>1, DecisionsKept DEF disk, hist
<1>5. Jobs'
    BY <1>1, JobsResting DEF disk, mem, hist, Working
<1> QED BY <1>3, <1>4, <1>5 DEF IInv, Decisions, Jobs

LEMMA DamageIInv == ASSUME IInv, Damage PROVE IInv'
<1>1. /\ budget.damage > 0 /\ budget' = [budget EXCEPT !.damage = budget.damage - 1]
      /\ review' = Damaged
      /\ UNCHANGED <<kind, tree, policy, clock, mem, hist, status, proof, progress, evidence,
                     repair, migration>>
    BY DEF Damage
<1>2. budget' \in BudgetShape
    <2>1. budget \in BudgetShape /\ budget.damage - 1 \in 0..MaxDamage
        BY <1>1, Constants DEF IInv, TypeOK, BudgetShape
    <2> QED BY <1>1, <2>1 DEF BudgetShape
<1>3. TypeOK'
    BY <1>1, <1>2 DEF IInv, TypeOK, mem, hist, BudgetShape
<1>4. Decisions'
    <2>1. RepairStands' /\ TellsOneDecision'
        BY <1>1 DEF IInv, RepairStands, TellsOneDecision, hist
    <2>2. AcceptIsGrounded'
        BY <1>1 DEF IInv, AcceptIsGrounded, isScopeIntegrityPacketComplete, StrictlyAccepted
    <2>3. RepairFreezesPacket'
        BY <1>1 DEF IInv, RepairFreezesPacket
    <2> QED BY <2>1, <2>2, <2>3 DEF Decisions
<1>5. Jobs'
    BY <1>1, JobsKept DEF mem, hist
<1> QED BY <1>3, <1>4, <1>5 DEF IInv, Decisions, Jobs

-----------------------------------------------------------------------------
(* The invariant *)

LEMMA InitIInv == Init => IInv
<1> SUFFICES ASSUME Init PROVE IInv
    OBVIOUS
<1>1. TypeOK
    <2>1. [at |-> 0, shown |-> Pages, sem |-> "required"] \in Packet
        BY Constants DEF Packet
    <2>2. budget \in BudgetShape
        BY Constants DEF Init, BudgetShape
    <2>3. asks \in [Batch -> Nat]
        BY DEF Init
    <2>4. review \in Packet \cup {None, Damaged} /\ proof \in Packet \cup {None}
        BY <2>1 DEF Init
    <2>5. policy \in 1..Policies /\ clock \in 0..MaxCall
        BY Constants DEF Init
    <2> QED BY <2>2, <2>3, <2>4, <2>5 DEF Init, TypeOK, BudgetShape
<1>2. CallIsCounted /\ JobsFit /\ JobIsSaved /\ AllAssessed
    BY DEF Init, CallIsCounted, JobsFit, JobIsSaved, AllAssessed, Working
<1>3. EvidenceFollows /\ CompletedHasEvidence /\ RepairStands
    BY DEF Init, EvidenceFollows, CompletedHasEvidence, RepairStands
<1>4. TellsOneDecision
    BY ToldOnce DEF Init, TellsOneDecision
<1>5. AcceptIsGrounded /\ RepairFreezesPacket
    BY DEF Init, AcceptIsGrounded, RepairFreezesPacket
<1> QED BY <1>1, <1>2, <1>3, <1>4, <1>5 DEF IInv

LEMMA StutterIInv == ASSUME IInv, UNCHANGED vars PROVE IInv'
<1>1. UNCHANGED <<kind, tree, policy, clock, budget, disk, mem, hist>>
    BY DEF vars
<1>2. TypeOK'
    BY <1>1 DEF IInv, TypeOK, disk, mem, hist
<1>3. Decisions'
    BY <1>1, DecisionsKept DEF disk, hist
<1>4. Jobs'
    BY <1>1, JobsKept DEF disk, mem, hist
<1> QED BY <1>2, <1>3, <1>4 DEF IInv, Decisions, Jobs

LEMMA NextIInv == IInv /\ [Next]_vars => IInv'
<1> SUFFICES ASSUME IInv, [Next]_vars PROVE IInv'
    OBVIOUS
<1> QED
    BY StutterIInv, ManualPresentIInv, ManualRepeatRepairIInv, ManualAcceptIInv,
       ManualRepairIInv, ManualMigrateIInv, ManualAcceptMigrationIInv, ManualRepeatAcceptIInv,
       AutoStartIInv, AutoInitialIInv, AutoPreviewIInv, AutoPageIInv, AutoJobIInv, AutoAskIInv,
       AutoFinalizeIInv, AutoDecideIInv, AutoAfterIInv, AutoPublishIInv, AutoCompleteIInv,
       CrashIInv, EditIInv, UpgradeIInv, DamageIInv, Zenon
    DEF Next

(* The files of a review, the job in memory and what callers were told fit each other in
   every reachable state, whatever dies, fails, is edited or is damaged in between. *)
THEOREM ReviewIsConsistent == Spec => []IInv
BY InitIInv, NextIInv, PTL DEF Spec

(* No caller of runAutomaticSemanticReview or of the manual tool is told a decision that
   contradicts what another was told or what the transaction holds. *)
THEOREM OneDecisionIsTold == Spec => []TellsOneDecision
<1>1. IInv => TellsOneDecision
    BY DEF IInv
<1> QED BY <1>1, ReviewIsConsistent, PTL

(* publishDelegationReviewV2 and the publication of evidence finalize nothing that was not
   shown to the last page and accepted. *)
THEOREM AcceptanceIsGrounded == Spec => []AcceptIsGrounded
<1>1. IInv => AcceptIsGrounded
    BY DEF IInv
<1> QED BY <1>1, ReviewIsConsistent, PTL

(* Nothing rewrites the packet a repair was decided on: persistDelegationReviewProvisionalV2
   is out of reach once the decision is on disk. *)
THEOREM RepairKeepsPacket == Spec => []RepairFreezesPacket
<1>1. IInv => RepairFreezesPacket
    BY DEF IInv
<1> QED BY <1>1, ReviewIsConsistent, PTL

(* Usage is neither lost nor counted twice over the resumptions of a job, and its evidence
   holds assessments of one policy. *)
THEOREM EvidenceOfOneJob == Spec => []EvidenceIsOfOneJob
<1>1. IInv => EvidenceIsOfOneJob
    <2> SUFFICES ASSUME IInv PROVE EvidenceIsOfOneJob
        OBVIOUS
    <2>1. progress # None =>
              /\ progress.usage <= spent
              /\ progress.usage >= Cardinality({b \in Batch : progress.batch[b] \in Completed})
        <3> SUFFICES ASSUME progress # None
                     PROVE  /\ progress.usage <= spent
                            /\ progress.usage >= Cardinality(Assessed(progress))
            BY Zenon DEF Assessed
        <3>1. JobFits(progress, spent) /\ progress.usage \in Nat
            BY DEF IInv, TypeOK, JobsFit, Progress
        <3>2. Cardinality(Assessed(progress)) \in Nat
            BY AssessedFinite
        <3> QED BY <3>1, <3>2 DEF JobFits
    <2>2. evidence # None => /\ evidence.usage \in (Batches + 1)..spent
                             /\ \A b \in Batch : evidence.by[b] = evidence.policy
        BY DEF IInv, EvidenceFollows, EvidenceFits
    <2> QED BY <2>1, <2>2 DEF EvidenceIsOfOneJob
<1> QED BY <1>1, ReviewIsConsistent, PTL

(* A progress file at COMPLETED names the evidence on disk, over lost and late
   publications of both files. *)
THEOREM CompletedJobIsPublished == Spec => []CompletedHasEvidence
<1>1. IInv => CompletedHasEvidence
    BY DEF IInv
<1> QED BY <1>1, ReviewIsConsistent, PTL

(* The model is asked only about batches without an assessment on disk: what the job holds in
   memory while it asks is what was saved. *)
THEOREM NoBatchIsAskedTwice == Spec => CompletedBatchIsNotAskedAgain
<1> DEFINE A == \A b \in Batch : asks'[b] # asks[b] =>
                    progress = None \/ progress.batch[b] \notin Completed
<1>1. IInv /\ [Next]_vars => [A]_vars
    <2> SUFFICES ASSUME IInv, Next, NEW b \in Batch, asks'[b] # asks[b]
                 PROVE  progress.batch[b] \notin Completed
        OBVIOUS
    <2>1. AutoAsk
        BY DEF Next, ManualPresent, ManualRepeatRepair, ManualAccept, ManualRepair,
           ManualMigrate, ManualAcceptMigration, ManualRepeatAccept, AutoStart, AutoInitial,
           AutoPreview, AutoPage, AutoJob, AutoFinalize, AutoDecide, AutoAfter, AutoPublish,
           AutoComplete, Crash, Edit, Upgrade, Damage, hist
    <2>2. pc = "ask" /\ ToAsk # {} /\ asks' = [asks EXCEPT ![Min(ToAsk)] = @ + 1]
        BY <2>1 DEF AutoAsk
    <2>3. Min(ToAsk) \in ToAsk
        BY <2>2, MinIsMember DEF ToAsk, Batch
    <2>4. b = Min(ToAsk)
        BY <2>2 DEF IInv, TypeOK
    <2>5. progress = job
        BY <2>2 DEF IInv, JobIsSaved
    <2> QED BY <2>3, <2>4, <2>5 DEF ToAsk
<1>2. Spec => [][A]_vars
    BY <1>1, ReviewIsConsistent, PTL DEF Spec
<1> QED BY <1>2 DEF CompletedBatchIsNotAskedAgain

=============================================================================
