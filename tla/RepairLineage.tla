--------------------------- MODULE RepairLineage ---------------------------
(***************************************************************************)
(* The project's graph of implementation delegations and their repairs:    *)
(* the audit of core/delegation-project-authority.ts, the path lanes of    *)
(* core/delegation-path-lane-admission.ts, the exact repair of             *)
(* core/exact-repair-*.ts with the start of a delegation in                *)
(* core/delegate-tool-controller.ts, and the receipts of                   *)
(* core/delegation-authority-closure.ts and delegation-repair-abandonment. *)
(*                                                                         *)
(* The graph is read without the checkout lane by /q-repair and again      *)
(* under it; everything published is published by the holder of the lane.  *)
(* A delegation is a number, in the order of creation.  The checkout is    *)
(* the delegation whose content each path holds, or 0.  How a delegation   *)
(* runs is ExecutionOwner, how its decision is reached SemanticReview, how *)
(* the lane is held CheckoutOperation; the session's mirror of its latest  *)
(* delegation (it only refuses more), the delegate tool's own repair_of,   *)
(* committed generations with incomplete facts, depth limits, plans,       *)
(* command effects and edits while the lane is held are left out.          *)
(***************************************************************************)
EXTENDS Integers, Sequences, FiniteSets, FiniteSetsExt

CONSTANTS
    Paths,      \* paths of the checkout
    Sessions,   \* sessions of the workbench
    None,       \* absent
    MaxTxn,     \* bound: delegations
    MaxRoot,    \* bound: delegations that are no repairs
    MaxFault    \* bound: executions that fail uncommitted, deaths of lane holders, and times
                \*   the user restores paths

ASSUME RepairLineageAssumption ==
    MaxTxn \in Nat /\ MaxRoot \in Nat /\ MaxFault \in Nat /\ None \notin Sessions

VARIABLES
    txn,      \* the delegations' transactions
    decided,  \* delegations with an immutable REPAIR decision
    receipts, \* receipts of closure and abandonment, with the status they bind
    tree,     \* the delegation each path's content comes from, 0 when clean
    lane,     \* session that holds the checkout lane
    session,  \* where each session is
    faults    \* faults and restorations so far

vars == <<txn, decided, receipts, tree, lane, session, faults>>

Status == {"RUNNING", "PENDING_REVIEW", "REVIEWED", "FAILED", "INTERRUPTED", "ABORTED",
           "RECOVERY_REQUIRED"}

(* How the worker's journal was left where nothing was committed: open, sealed, with an *)
(* outcome whose artifacts were not published, or with an incomplete operation.         *)
End == {"none", "open", "sealed", "unpublished", "stuck"}
Dirty == {p \in Paths : tree[p] # 0}

Transaction ==
    [st : Status, end : End, parent : 0..MaxTxn, root : 0..MaxTxn, cont : 0..MaxTxn,
     allowed : SUBSET Paths, wrote : SUBSET Paths, changed : SUBSET Paths,
     carried : SUBSET Paths, proof : BOOLEAN, bind : [Paths -> 0..MaxTxn]]
Authority ==
    [of : 1..MaxTxn, kind : {"semantic", "negative", "lineage", "raw"}, root : 1..MaxTxn,
     cont : 1..MaxTxn, carried : SUBSET Paths]
Hash == (SUBSET (1..MaxTxn)) \X (SUBSET (1..MaxTxn)) \X (SUBSET ((1..MaxTxn) \X SUBSET Paths))
Session ==
    [pc : {"idle", "admitted", "run", "deliver", "closing"}, auth : Authority \cup {None},
     hash : Hash \cup {None}, id : 0..MaxTxn]
Idle == [pc |-> "idle", auth |-> None, hash |-> None, id |-> 0]

(* Every variable keeps its type, the lane is held by a session that runs, delivers or *)
(* closes, and such a session holds it.                                                *)
TypeOK ==
    /\ txn \in Seq(Transaction) /\ Len(txn) <= MaxTxn
    /\ decided \subseteq DOMAIN txn
    /\ receipts \subseteq [id : DOMAIN txn, kind : {"closure", "abandon"}, st : Status]
    /\ tree \in [Paths -> 0..Len(txn)]
    /\ lane \in Sessions \cup {None}
    /\ session \in [Sessions -> Session]
    /\ \A s \in Sessions : (lane = s) <=> session[s].pc \in {"run", "deliver", "closing"}
    /\ faults \in 0..MaxFault

-----------------------------------------------------------------------------
(* The graph as both audits read it.                                       *)

Ids == DOMAIN txn
IsRepair(d) == txn[d].parent # 0
Lineaged == {d \in Ids : IsRepair(d)}

(* The raw evidence that authorises a retry: an aborted attempt, or a recovery whose journal *)
(* is complete, with or without writes.                                                      *)
Retryable(d) ==
    /\ txn[d].end \in {"open", "sealed"} /\ IsRepair(d) /\ ~txn[d].proof
    /\ txn[d].st \in {"ABORTED", "RECOVERY_REQUIRED"}
Empty(d) == Retryable(d) /\ txn[d].wrote = {}

HasReceipt(d, kind) == [id |-> d, kind |-> kind, st |-> txn[d].st] \in receipts
Superseded == {d \in {r.id : r \in receipts} : HasReceipt(d, "closure") /\ Empty(d)}

Roots == {d \in decided : ~IsRepair(d)}
Live == LET superseded == Superseded IN {d \in Ids : IsRepair(d) /\ d \notin superseded}
Kids(d) == {c \in Live : txn[c].parent = d}

(* A decision of the parent must be the one the child continues from.  A child made before it *)
(* may keep the parent's own continuation once it has a decision itself.                      *)
ContinuationOK(c) ==
    LET p == txn[c].parent IN
    IF p \in decided /\ txn[c].cont # p
    THEN /\ txn[c].cont = txn[p].cont
         /\ c \in decided \/ txn[c].st = "REVIEWED"
    ELSE p \in decided \/ txn[c].cont = txn[p].cont

EdgeOK(c) ==
    LET p == txn[c].parent IN
    IF IsRepair(p)
    THEN /\ txn[p].root = txn[c].root
         /\ txn[p].carried \subseteq txn[c].carried
         /\ ContinuationOK(c)
    ELSE p = txn[c].root /\ txn[c].cont = p

(* Every edge is sound, hangs on a decided root and on no superseded attempt, and no delegation *)
(* has two successors.                                                                          *)
Parents == {txn[c].parent : c \in Live}
ScanOK ==
    LET live == Live
        parents == Parents
    IN  /\ \A c \in live : txn[c].cont \in decided /\ EdgeOK(c)
        /\ {txn[c].root : c \in live} \subseteq Roots
        /\ parents \cap Superseded = {}
        /\ Cardinality(parents) = Cardinality(live)

validRepairParentState(d) ==
    CASE txn[d].st \in {"PENDING_REVIEW", "INTERRUPTED"} -> d \in decided
      [] txn[d].st = "FAILED" -> d \in decided \/ IsRepair(d)
      [] txn[d].st = "ABORTED" -> Retryable(d)
      [] txn[d].st = "RECOVERY_REQUIRED" ->
            Retryable(d) \/ (IsRepair(d) /\ txn[d].end = "unpublished")
      [] OTHER -> FALSE

(* The project audit also asks for a parent that may be repaired and for its whole scope. *)
ClosureOK ==
    /\ ScanOK
    /\ \A c \in Live : LET p == txn[c].parent IN
          validRepairParentState(p) /\ txn[p].carried \cup txn[p].changed \subseteq txn[c].carried

Closed(d) == HasReceipt(d, "closure") \/ HasReceipt(d, "abandon") \/ txn[d].st = "REVIEWED"
RepairTips ==
    LET parents == Parents IN {d \in Roots \cup Live : d \notin parents /\ ~Closed(d)}

(* projectDelegationDispositionV2 of a delegation outside every repair chain. *)
Blocking(d) ==
    /\ txn[d].st \notin {"ABORTED", "REVIEWED"}
    /\ ~(txn[d].st = "FAILED" /\ txn[d].changed = {})
Ordinary ==
    {d \in Ids : ~IsRepair(d) /\ d \notin decided /\ Blocking(d) /\ ~HasReceipt(d, "closure")}
Unresolved == Ordinary \cup RepairTips

-----------------------------------------------------------------------------
(* Path lanes.                                                             *)

(* The paths of an unresolved delegation are known from its committed scope, from raw *)
(* evidence, or from an outcome that was not published.                               *)
Known(d) == txn[d].proof \/ Retryable(d) \/ (txn[d].st # "RUNNING" /\ txn[d].end = "unpublished")

MutantLanePaths(d) ==
    IF txn[d].proof THEN txn[d].changed
    ELSE IF Retryable(d) THEN txn[d].carried ELSE txn[d].wrote \cup txn[d].carried

(* Raw evidence reports the carried paths only: its own writes are left out. *)
LanePaths(d) ==
    CASE txn[d].proof -> txn[d].changed \cup txn[d].carried
      [] ~txn[d].proof /\ Retryable(d) -> txn[d].carried
      [] OTHER -> txn[d].wrote \cup txn[d].changed \cup txn[d].carried

(* A proposal is admitted beside blockers that are known and disjoint from it; a repair leaves *)
(* out the tip it repairs.  The scan itself is part of ClosureOK, which every caller asks too. *)
Admit(allowed, exclusion) ==
    /\ exclusion # 0 => exclusion \in RepairTips /\ Known(exclusion)
    /\ \A d \in Unresolved \ {exclusion} : Known(d) /\ LanePaths(d) \cap allowed = {}

AuthorityHash ==
    <<Ordinary, RepairTips, {<<d, LanePaths(d)>> : d \in {b \in Unresolved : Known(b)}}>>

-----------------------------------------------------------------------------
(* Current bindings and the authority of an exact repair.                  *)

Fresh(d) == \A p \in txn[d].changed \cup txn[d].carried : tree[p] = txn[d].bind[p]

(* The checkout continues a failed repair: what is dirty inside its contract is carried. *)
TerminalRebase(d) ==
    Dirty \cap txn[d].allowed \subseteq txn[d].carried /\ Dirty \cap txn[d].carried # {}

(* The ancestors of d, up to the root of its chain: the smallest set that holds the parent of *)
(* d and of each of its members.                                                              *)
Closes(A, d) == \A x \in A \cup {d} : txn[x].parent \in A \cup {0}
Ancestors(d) == {a \in Ids : \A A \in SUBSET Ids : Closes(A, d) => a \in A}

Writes(d) == IF txn[d].proof THEN txn[d].changed ELSE txn[d].wrote

(* The checkout still holds what a raw attempt and its chain wrote, and nothing else that its *)
(* contract allows.                                                                           *)
ByteRebase(d) ==
    LET missing == txn[d].carried \ txn[d].wrote
        writers(p) == {a \in Ancestors(d) : p \in Writes(a)}
    IN  /\ missing # {} =>
              /\ \A a \in Ancestors(d) : ~txn[a].proof =>
                    Retryable(a) /\ txn[a].wrote \subseteq txn[a].carried
              /\ \A p \in missing : writers(p) # {} /\ tree[p] = Max(writers(p))
        /\ \A p \in txn[d].wrote : tree[p] = d
        /\ Dirty \cap txn[d].allowed = missing \cup txn[d].wrote

RawBinding(d) == IF Empty(d) THEN Fresh(txn[d].cont) ELSE ByteRebase(d)

CarriedBy(d) ==
    IF txn[d].proof THEN txn[d].carried \cup txn[d].changed ELSE txn[d].carried

Successor(d, kind) ==
    [of |-> d, kind |-> kind, root |-> IF IsRepair(d) THEN txn[d].root ELSE d,
     cont |-> IF kind \in {"semantic", "negative"} THEN d ELSE txn[d].cont,
     carried |-> CarriedBy(d)]

(* What /q-repair finds a delegation to authorise: its own decision, or the chain's. *)
RepairKinds(d) ==
    CASE txn[d].st = "PENDING_REVIEW" -> IF d \in decided THEN {"semantic"} ELSE {}
      [] txn[d].st \in {"FAILED", "INTERRUPTED"} /\ d \in decided -> {"negative"}
      [] txn[d].st = "FAILED" /\ d \notin decided -> IF IsRepair(d) THEN {"lineage"} ELSE {}
      [] Retryable(d) -> {"raw"}
      [] OTHER -> {}

(* The same authority is recovered again under the lane.  The branch of a failed repair does *)
(* not look for a decision published since.                                                  *)
StillAuthorised(a) ==
    LET d == a.of IN
    CASE a.kind = "semantic" -> d \in decided /\ Fresh(d)
      [] a.kind = "negative" -> d \in decided /\ Fresh(d)
      [] a.kind = "lineage" -> Fresh(d) \/ TerminalRebase(d)
      [] OTHER -> ClosureOK /\ Admit(txn[d].allowed, d) /\ RawBinding(d)

DurablyClosed(d) == HasReceipt(d, "closure") \/ HasReceipt(d, "abandon")

-----------------------------------------------------------------------------
Init ==
    /\ txn = <<>> /\ decided = {} /\ receipts = {}
    /\ tree = [p \in Paths |-> 0]
    /\ lane = None /\ session = [s \in Sessions |-> Idle]
    /\ faults = 0

(* A new transaction: its worker runs while the session holds the lane. *)
Prepare(s, allowed, parent, root, cont, carried) ==
    /\ Len(txn) < MaxTxn
    /\ txn' = Append(txn,
          [st |-> "RUNNING", end |-> "none", parent |-> parent, root |-> root, cont |-> cont,
           allowed |-> allowed, wrote |-> {}, changed |-> {}, carried |-> carried,
           proof |-> FALSE, bind |-> [p \in Paths |-> 0]])
    /\ lane' = s
    /\ session' = [session EXCEPT
          ![s] = [Idle EXCEPT !.pc = "run", !.id = Len(txn) + 1]]
    /\ UNCHANGED <<decided, receipts, tree, faults>>

(* An ordinary delegation takes the lane first and reads the project under it. *)
Delegate(s) ==
    /\ lane = None /\ Cardinality(Ids \ Lineaged) < MaxRoot
    /\ \E allowed \in (SUBSET Paths) \ {{}} :
          Admit(allowed, 0) /\ Prepare(s, allowed, 0, 0, 0, {})

Goto(s, record) == session' = [session EXCEPT ![s] = record]

(* /q-repair, without the lane: a successor that is there is reported again and nothing       *)
(* changes.  Where there is none the authority is recovered and the path lane asked.  What    *)
(* both read is read again under the lane; each scan is one snapshot, for the code rejects    *)
(* one that moved.                                                                            *)
RepairRecover(s, d) ==
    /\ RepairKinds(d) # {} /\ d \notin Parents
    /\ \E kind \in RepairKinds(d) :
          /\ kind = "negative" => Fresh(d)
          /\ kind = "raw" => RawBinding(d)
          /\ Admit(txn[d].allowed, d)
          /\ Goto(s, [Idle EXCEPT !.pc = "admitted", !.auth = Successor(d, kind),
                                  !.hash = AuthorityHash])
    /\ UNCHANGED <<txn, decided, receipts, tree, lane, faults>>

MutantRevalidated(s) ==
    /\ ClosureOK /\ ~DurablyClosed(session[s].auth.of) /\ StillAuthorised(session[s].auth)

MutantTrusting(s) == ClosureOK /\ session[s].hash # None

(* Under the lane: the authority is recovered again and the path lane must be the one that *)
(* was admitted.                                                                           *)
Revalidated(s) ==
    LET a == session[s].auth IN
    /\ ClosureOK
    /\ a.kind # "raw" => ~DurablyClosed(a.of)
    /\ StillAuthorised(a)
    /\ session[s].hash = AuthorityHash /\ Admit(txn[a.of].allowed, a.of)

RepairPrepare(s) ==
    LET a == session[s].auth IN
    /\ session[s].pc = "admitted" /\ lane = None
    /\ Revalidated(s)
    /\ Prepare(s, txn[a.of].allowed, a.of, a.root, a.cont, a.carried)

RepairRefused(s) ==
    /\ session[s].pc = "admitted"
    /\ lane # None \/ ~Revalidated(s)
    /\ Goto(s, Idle)
    /\ UNCHANGED <<txn, decided, receipts, tree, lane, faults>>

-----------------------------------------------------------------------------
(* The worker and the end of its delegation.                               *)

Write(s, p) ==
    LET d == session[s].id IN
    /\ p \in txn[d].allowed /\ tree[p] # d
    /\ tree' = [tree EXCEPT ![p] = d]
    /\ txn' = [txn EXCEPT ![d].wrote = @ \cup {p}]
    /\ UNCHANGED <<decided, receipts, lane, session, faults>>

(* The lane is held until the delegation is delivered: a change that waits for review is *)
(* delivered by Deliver, any other end at once.                                          *)
Release(s) == lane' = None /\ Goto(s, Idle)

Settle(s, record) ==
    /\ txn' = [txn EXCEPT ![session[s].id] = record]
    /\ IF record.st = "PENDING_REVIEW"
       THEN lane' = s /\ Goto(s, [session[s] EXCEPT !.pc = "deliver"])
       ELSE Release(s)
    /\ UNCHANGED <<decided, receipts, tree>>

(* The generation is committed; an ordinary delegation without a change fails. *)
Commit(s, st) ==
    LET d == session[s].id
        bound == txn[d].wrote \cup txn[d].carried
    IN  /\ st = "PENDING_REVIEW" => IsRepair(d) \/ txn[d].wrote # {}
        /\ Settle(s, [txn[d] EXCEPT !.st = st, !.proof = TRUE, !.changed = txn[d].wrote,
                         !.bind = [p \in Paths |-> IF p \in bound THEN tree[p] ELSE 0]])
        /\ UNCHANGED faults

Fault == faults < MaxFault /\ faults' = faults + 1

(* The execution fails before it is committed. *)
Fail(s, end) ==
    LET d == session[s].id IN
    /\ (end = "stuck" => txn[d].wrote # {})
    /\ Fault
    /\ Settle(s, [txn[d] EXCEPT !.st = "RECOVERY_REQUIRED", !.end = end,
                     !.changed = IF end = "unpublished" THEN txn[d].wrote ELSE {}])

Abort(s) ==
    LET d == session[s].id IN
    /\ txn[d].wrote = {} /\ UNCHANGED faults
    /\ Settle(s, [txn[d] EXCEPT !.st = "ABORTED", !.end = "open"])

Decide(d, verdict) ==
    /\ txn' = IF verdict = "ACCEPT" THEN [txn EXCEPT ![d].st = "REVIEWED"] ELSE txn
    /\ decided' = IF verdict = "REPAIR" THEN decided \cup {d} ELSE decided

(* The default delivery reviews its own delegation under the lane it still holds, without *)
(* asking the project; then the lane is free.                                             *)
Deliver(s, verdict) ==
    LET d == session[s].id IN
    /\ session[s].pc = "deliver"
    /\ Decide(d, verdict) /\ Release(s)
    /\ UNCHANGED <<receipts, tree, faults>>

-----------------------------------------------------------------------------
(* Review, closure and abandonment.                                        *)

Reviewable(d, verdict) ==
    \/ txn[d].st = "PENDING_REVIEW"
    \/ txn[d].st \in {"FAILED", "INTERRUPTED"} /\ txn[d].changed # {} /\ verdict = "REPAIR"

(* /q-review and the review tool decide any delegation whose content is still there; nothing *)
(* asks whether it has a successor.                                                          *)
Review(d, verdict) ==
    /\ lane = None
    /\ d \notin decided /\ txn[d].proof /\ Reviewable(d, verdict) /\ Fresh(d)
    /\ Cardinality(RepairTips) <= 1
    /\ Decide(d, verdict)
    /\ UNCHANGED <<receipts, tree, lane, session, faults>>

(* The blocker the user is offered to close. *)
Blockers ==
    LET tips == RepairTips
        newer == {d \in Ordinary : \A t \in tips : d > t}
        first == IF tips # {} THEN newer ELSE {d \in newer : d = Max(newer)}
    IN  IF Cardinality(tips) > 1 \/ ~ClosureOK THEN {}
        ELSE IF first = {} THEN tips ELSE first

RelevantPaths(d) ==
    CASE Empty(d) -> {}
      [] txn[d].proof -> txn[d].changed \cup txn[d].carried
      [] ~Empty(d) /\ txn[d].end \in {"sealed", "unpublished"} -> txn[d].wrote \cup txn[d].carried
      [] OTHER -> txn[d].allowed \cup txn[d].carried

isInactiveClosableStatus(d) ==
    \/ txn[d].st \in {"PENDING_REVIEW", "FAILED", "RECOVERY_REQUIRED"}
    \/ txn[d].st = "ABORTED" /\ IsRepair(d)

(* Closing an empty attempt leads back to its parent: while that is a retryable attempt too, *)
(* the same command closes it next.                                                          *)
Close(s, d) ==
    /\ lane \in {None, s}
    /\ isInactiveClosableStatus(d) /\ RelevantPaths(d) \cap Dirty = {} /\ d \in Blockers
    /\ receipts' = receipts \cup {[id |-> d, kind |-> "closure", st |-> txn[d].st]}
    /\ UNCHANGED <<txn, decided, tree, faults>>
    /\ LET more == Empty(d) /\ \E b \in Blockers' : Retryable(b) IN
          /\ lane' = IF more THEN s ELSE None
          /\ Goto(s, IF more THEN [Idle EXCEPT !.pc = "closing"] ELSE Idle)

CloseRefused(s) ==
    /\ ~\E d \in Blockers : isInactiveClosableStatus(d) /\ RelevantPaths(d) \cap Dirty = {}
    /\ Release(s)
    /\ UNCHANGED <<txn, decided, receipts, tree, faults>>

(* The whole checkout was restored: the chain is given up. *)
Abandon(d) ==
    /\ lane = None
    /\ Dirty = {} /\ d \in Blockers \cap RepairTips
    /\ receipts' = receipts \cup {[id |-> d, kind |-> "abandon", st |-> txn[d].st]}
    /\ UNCHANGED <<txn, decided, tree, lane, session, faults>>

-----------------------------------------------------------------------------
(* The user and the machine.                                               *)

Discard(P) ==
    /\ lane = None /\ Fault
    /\ tree' = [p \in Paths |-> IF p \in P THEN 0 ELSE tree[p]]
    /\ UNCHANGED <<txn, decided, receipts, lane, session>>

(* The lane of a dead process is taken back.  One that dies without it leaves nothing behind, *)
(* like one that never goes on.                                                               *)
Crash(s) ==
    /\ lane = s /\ Fault
    /\ Release(s)
    /\ UNCHANGED <<txn, decided, receipts, tree>>

(* A dead execution that wrote nothing is aborted; one that wrote stays as it is. *)
Reconcile(d) ==
    /\ lane = None
    /\ txn[d].st = "RUNNING" /\ txn[d].wrote = {}
    /\ txn' = [txn EXCEPT ![d].st = "ABORTED", ![d].end = "open"]
    /\ UNCHANGED <<decided, receipts, tree, lane, session, faults>>

(* Every command audits the project first. *)
Command(s) ==
    /\ session[s].pc = "idle" /\ ClosureOK
    /\ \/ Delegate(s)
       \/ \E d \in Ids : RepairRecover(s, d)
       \/ \E d \in Ids, verdict \in {"ACCEPT", "REPAIR"} : Review(d, verdict)
       \/ \E d \in Ids : Close(s, d) \/ Abandon(d)

Worker(s) ==
    /\ session[s].pc = "run"
    /\ \/ \E p \in Paths : Write(s, p)
       \/ \E st \in {"PENDING_REVIEW", "FAILED", "INTERRUPTED"} : Commit(s, st)
       \/ \E end \in End \ {"none"} : Fail(s, end)
       \/ Abort(s)

SessionStep(s) ==
    \/ Command(s) \/ RepairPrepare(s) \/ RepairRefused(s)
    \/ Worker(s) \/ \E verdict \in {"none", "ACCEPT", "REPAIR"} : Deliver(s, verdict)
    \/ session[s].pc = "closing" /\ ((\E d \in Ids : Close(s, d)) \/ CloseRefused(s))
    \/ Crash(s)

Next == (\E s \in Sessions : SessionStep(s))
     \/ (\E P \in (SUBSET Dirty) \ {{}} : Discard(P)) \/ (\E d \in Ids : Reconcile(d))

Spec == Init /\ [][Next]_vars

-----------------------------------------------------------------------------
(* Accepted: its own chain was accepted at it or after it. *)
Accepted(d) == \E c \in Ids : txn[c].st = "REVIEWED" /\ d \in Ancestors(c) \cup {c}

(* A path that holds content of a delegation nobody has accepted, committed or not, is refused *)
(* to every ordinary delegation, by the audit, by a blocker of unknown scope or by one that    *)
(* covers the path; whatever crashed, was closed, abandoned, superseded or repaired in         *)
(* between.  The writes of a lineaged raw attempt are the exception (see LanePaths).           *)
UnacceptedWorkIsGuarded ==
    \A p \in Dirty : LET d == tree[p] IN
        ~Accepted(d) /\ (IsRepair(d) => txn[d].proof \/ txn[d].st = "RUNNING")
        => ~(Admit({p}, 0) /\ ClosureOK)

(* The chain of every repair is linear and complete, whichever sessions repaired, closed or   *)
(* reviewed what at the same time: no two live successors of one delegation, none of one that *)
(* was superseded, and the content of every committed ancestor is in the scope that the       *)
(* successor's own review covers.                                                             *)
ChainIsSound ==
    \A c \in Live :
        /\ Kids(txn[c].parent) = {c} /\ txn[c].parent \notin Superseded
        /\ txn[c].root \in Roots /\ txn[c].cont \in decided
        /\ \A a \in Ancestors(c) : txn[a].proof => txn[a].changed \subseteq txn[c].carried

(* No successor is created for a delegation whose obligation was closed, abandoned or accepted *)
(* since the repair was authorised.                                                            *)
ClosedIsNotRepaired ==
    [][\A n \in DOMAIN txn' \ DOMAIN txn : txn'[n].parent # 0 => ~Closed(txn'[n].parent)]_vars

-----------------------------------------------------------------------------
(* The inductive invariant.                                                *)

(* What the status of a transaction says of the rest of it. *)
RecordFits(t) ==
    /\ t.proof <=> t.st \in {"PENDING_REVIEW", "REVIEWED", "FAILED", "INTERRUPTED"}
    /\ t.proof => t.changed = t.wrote
    /\ t.st = "ABORTED" => t.wrote = {}
    /\ t.wrote \subseteq t.allowed
RecordsFit ==
    \A d \in Ids :
        txn[d].parent < d /\ RecordFits(txn[d]) /\ (d \in decided => txn[d].proof)

(* What a path holds was written by its delegation. *)
ContentIsWritten == \A p \in Dirty : p \in txn[tree[p]].wrote

(* The lane's delegation is the newest one. *)
WorkerIsLast ==
    \A s \in Sessions : session[s].pc \in {"run", "deliver"} =>
        /\ Ids # {} /\ session[s].id = Len(txn)
        /\ txn[Len(txn)].st = IF session[s].pc = "run" THEN "RUNNING" ELSE "PENDING_REVIEW"

(* What a session was admitted to repair is over, so that what it read of it still holds. *)
AuthorityFits(a) ==
    /\ a \in Authority /\ a.of \in Ids /\ txn[a.of].st # "RUNNING"
    /\ a = Successor(a.of, a.kind)
    /\ IF a.kind \in {"semantic", "negative"} THEN a.of \in decided ELSE IsRepair(a.of)
AdmittedFits ==
    \A s \in Sessions : session[s].pc = "admitted" => AuthorityFits(session[s].auth)

(* A repair carries what its parent carried and committed; so does one that is superseded. *)
EdgesFit ==
    \A c \in Lineaged : LET p == txn[c].parent IN
        /\ txn[p].st # "RUNNING"
        /\ txn[p].carried \subseteq txn[c].carried
        /\ txn[p].proof => txn[p].changed \subseteq txn[c].carried
        /\ txn[c].root \in Roots /\ txn[c].cont \in decided

ChainIsLinear ==
    \A c \in Live :
        /\ txn[c].parent \notin Superseded
        /\ \A e \in Live : txn[e].parent = txn[c].parent => e = c

(* What was closed or abandoned was clean then: only newer delegations are there now.  A dead *)
(* execution can be abandoned, never one that runs.                                           *)
ClosedIsClean ==
    \A r \in receipts :
        /\ r.kind = "closure" => txn[r.id].st # "RUNNING"
        /\ \A s \in Sessions : session[s].pc = "run" => session[s].id # r.id
        /\ \A p \in Paths :
              r.kind = "abandon" \/ (~Empty(r.id) /\ p \in txn[r.id].wrote \cup txn[r.id].carried)
              => tree[p] = 0 \/ tree[p] > r.id

IInv ==
    /\ TypeOK /\ RecordsFit /\ ContentIsWritten /\ WorkerIsLast /\ AdmittedFits
    /\ EdgesFit /\ ChainIsLinear /\ ClosedIsClean
=============================================================================
