-------------------------- MODULE ExecutionOwner --------------------------
(***************************************************************************)
(* The life of one delegation from admission to the end of its execution,  *)
(* and its recovery by other sessions.                                     *)
(*                                                                         *)
(* executeDelegationV2 (core/delegation-execution-v2.ts) prepares the      *)
(* record, claims v2/execution-owner.json (core/delegation-execution-      *)
(* owner.ts), starts a detached worker, commits and releases the owner;    *)
(* core/delegate-tool-controller.ts holds the checkout lane around it and  *)
(* keeps it, settled, when the record stays incomplete.  Reconcilers       *)
(* (core/delegation-project-authority.ts) run in every session before each *)
(* tool call that writes: they close what a dead or settled execution left *)
(* behind, one file operation at a time.                                   *)
(*                                                                         *)
(* The record is the one of DelegationTransaction and every persist is the *)
(* locked compare-and-swap of TransactionStorage; the lane is the lock of  *)
(* StartLock, taken only when free or left by a dead process.              *)
(***************************************************************************)
EXTENDS Integers, FiniteSets

CONSTANTS
    Proc,     \* operating system processes
    Exec,     \* executions: a fresh one and its resumptions; also the owner tokens
    Recon,    \* reconcilers
    Home,     \* the process each reconciler runs in
    None,
    MaxCrash, \* bound: processes that die
    MaxFault  \* bound: file operations that fail

ASSUME OwnerAssumption ==
    /\ Home \in [Recon -> Proc]
    /\ MaxCrash \in Nat /\ MaxFault \in Nat
    /\ None \notin Proc \union Exec

VARIABLES
    tx,      \* transaction.json: status and revision
    owner,   \* execution-owner.json
    journal, \* write-journal.json, and whether all its operations are completed
    extra,   \* other artifacts in the v2 directory
    lane,    \* the checkout lane
    settled, \* the operations their process has registered as settled
    alive,
    ex,      \* the executions
    wk,      \* their workers
    rc,      \* the reconcilers
    wrote,   \* history: a worker has changed a file
    orphans, \* history: the workers that have outlived their parent
    crashes, faults

vars == <<tx, owner, journal, extra, lane, settled, alive, ex, wk, rc, wrote, orphans, crashes, faults>>

Incomplete == {"PREPARED", "RUNNING", "COMMITTING"}
Status == Incomplete \union {"none", "RECOVERY_REQUIRED", "ABORTED", "DONE"}
Tx == [status : Status, rev : Nat]
Owner == [exec : Exec, proc : Proc, whole : BOOLEAN]
Lane == [exec : Exec, proc : Proc]

Execution == [at : {"idle", "prepare", "claim", "write", "journal", "run", "work", "commit",
                    "publish", "abort", "recover", "finish", "unlink", "control", "over"},
              proc : Proc \union {None}, resumes : BOOLEAN, owns : BOOLEAN, state : Tx]
Reconciler == [at : {"idle", "owner", "lane", "journal", "stop", "reread", "unlink", "release"},
               seen : Tx, token : Exec \union {None}, live : BOOLEAN,
               lease : Exec \union {None}, mine : BOOLEAN, target : Status]

ASSUME AbsentAssumption == None \notin Owner \union Lane

TypeOK ==
    /\ tx \in Tx /\ extra \in SUBSET {"checkpoint", "generation"}
    /\ owner \in Owner \union {None}
    /\ journal \in {"absent", "pristine", "pending", "written", "sealed"}
    /\ lane \in Lane \union {None}
    /\ settled \subseteq Exec /\ alive \subseteq Proc /\ wrote \in BOOLEAN /\ orphans \subseteq Exec
    /\ ex \in [Exec -> Execution]
    /\ wk \in [Exec -> {"none", "up", "leased", "begun", "edited", "gone"}]
    /\ rc \in [Recon -> Reconciler]
    /\ crashes \in 0..MaxCrash /\ faults \in 0..MaxFault

IdleRecon == [at |-> "idle", seen |-> [status |-> "none", rev |-> 0], token |-> None,
              live |-> FALSE, lease |-> None, mine |-> FALSE, target |-> "none"]

Init ==
    /\ tx = [status |-> "none", rev |-> 0] /\ owner = None /\ journal = "absent" /\ extra = {}
    /\ lane = None /\ settled = {} /\ alive = Proc
    /\ ex = [e \in Exec |-> [at |-> "idle", proc |-> None, resumes |-> FALSE, owns |-> FALSE,
                             state |-> [status |-> "none", rev |-> 0]]]
    /\ wk = [e \in Exec |-> "none"] /\ rc = [r \in Recon |-> IdleRecon]
    /\ wrote = FALSE /\ orphans = {} /\ crashes = 0 /\ faults = 0

\* pristineJournal: no operation has begun.
Unused(j) == j \in {"absent", "pristine"}

files   == <<owner, journal, extra>>
history == <<wrote, orphans, crashes>>

Fault == faults < MaxFault /\ faults' = faults + 1

\* A persist function: compare-and-swap on the revision, which may also fail before or
\* after the record is published.
Persist(seen, status, Done, Failed) ==
    LET new == [status |-> status, rev |-> seen.rev + 1]
    IN \/ tx = seen /\ tx' = new /\ Done /\ UNCHANGED faults
       \/ tx # seen /\ Failed /\ UNCHANGED <<tx, faults>>
       \/ Fault /\ Failed /\ (UNCHANGED tx \/ (tx = seen /\ tx' = new))

-----------------------------------------------------------------------------
(* An execution *)

Busy(e, l) == ex[e].at = l /\ ex[e].proc \in alive
To(e, l) == ex' = [ex EXCEPT ![e].at = l]
ToWith(e, l, status) ==
    ex' = [ex EXCEPT ![e].at = l, ![e].state = [status |-> status, rev |-> ex[e].state.rev + 1]]

LaneIsFree == lane # None => lane.proc \notin alive

\* The checkout lane, then for a resumption the checkpoint authority read again under it:
\* no owner, an open journal whose operations are all completed, nothing published. (The
\* recovery reason is left out: every one is taken to allow the resumption.)
Admit(e, p) ==
    /\ ex[e].at = "idle" /\ p \in alive /\ LaneIsFree
    /\ lane' = [exec |-> e, proc |-> p]
    /\ \/ /\ tx.status = "none"
          /\ ex' = [ex EXCEPT ![e].at = "prepare", ![e].proc = p]
       \/ /\ tx.status = "RECOVERY_REQUIRED" /\ owner = None
          /\ journal = "written" /\ extra = {"checkpoint"}
          /\ ex' = [ex EXCEPT ![e].at = "claim", ![e].proc = p, ![e].resumes = TRUE, ![e].state = tx]
    /\ UNCHANGED <<tx, files, settled, alive, wk, rc, history, faults>>

\* A failed preparation reports no durable state, so the lane is released.
Prepare(e) ==
    /\ Busy(e, "prepare")
    /\ Persist(ex[e].state, "PREPARED",
               ToWith(e, "claim", "PREPARED") /\ UNCHANGED lane,
               To(e, "over") /\ lane' = None)
    /\ UNCHANGED <<files, settled, alive, wk, rc, history>>

\* claimDelegationExecutionOwnerV2: exclusive creation. Only the strictly proven absence
\* of an owner lets a fresh execution abort itself.
Claim(e) ==
    /\ Busy(e, "claim")
    /\ \/ /\ owner = None /\ To(e, "write")
          /\ owner' = [exec |-> e, proc |-> ex[e].proc, whole |-> FALSE]
          /\ UNCHANGED faults
       \/ owner # None /\ To(e, "control") /\ UNCHANGED <<owner, faults>>
       \/ owner = None /\ Fault /\ To(e, IF ex[e].resumes THEN "control" ELSE "abort") /\ UNCHANGED owner
    /\ UNCHANGED <<tx, journal, extra, lane, settled, alive, wk, rc, history>>

\* The record is written and read back; it is not found when a late reconciler has removed
\* it in between (UnlinkFound).
WriteOwner(e) ==
    /\ Busy(e, "write")
    /\ \/ /\ owner # None /\ owner' = [owner EXCEPT !.whole = TRUE]
          /\ ex' = [ex EXCEPT ![e].at = IF ex[e].resumes THEN "run" ELSE "journal", ![e].owns = TRUE]
          /\ UNCHANGED faults
       \/ Fault /\ To(e, "control") /\ UNCHANGED owner
       \/ /\ IF owner = None THEN UNCHANGED faults ELSE Fault
          /\ To(e, IF ex[e].resumes THEN "control" ELSE "abort") /\ owner' = None
    /\ UNCHANGED <<tx, journal, extra, lane, settled, alive, wk, rc, history>>

\* prepareDelegationChangeSetLifecycleV2 and the onPrepared callback.
PrepareJournal(e) ==
    /\ Busy(e, "journal")
    /\ \/ journal' = "pristine" /\ To(e, "run") /\ UNCHANGED faults
       \/ Fault /\ journal' \in {"absent", "pristine"} /\ To(e, "abort")
    /\ UNCHANGED <<tx, owner, extra, lane, settled, alive, wk, rc, history>>

AfterOwner(e) == IF ex[e].owns THEN "finish" ELSE "control"

\* attemptPreparedAbort: a failure leaves the cached state PREPARED.
AttemptAbort(e) ==
    /\ Busy(e, "abort")
    /\ Persist(ex[e].state, "ABORTED", ToWith(e, AfterOwner(e), "ABORTED"), To(e, AfterOwner(e)))
    /\ UNCHANGED <<files, lane, settled, alive, wk, rc, history>>

\* Mutant: an execution that could not publish RUNNING asks for recovery.
MutantRun(e) ==
    /\ Busy(e, "run")
    /\ Persist(ex[e].state, "RUNNING",
               ToWith(e, "work", "RUNNING") /\ wk' = [wk EXCEPT ![e] = "up"],
               To(e, "recover") /\ UNCHANGED wk)
    /\ UNCHANGED <<files, lane, settled, alive, rc, history>>

\* RUNNING is made durable and the worker is started.
Run(e) ==
    /\ Busy(e, "run")
    /\ Persist(ex[e].state, "RUNNING",
               ToWith(e, "work", "RUNNING") /\ wk' = [wk EXCEPT ![e] = "up"],
               To(e, IF ex[e].resumes THEN "finish" ELSE "abort") /\ UNCHANGED wk)
    /\ UNCHANGED <<files, lane, settled, alive, rc, history>>

\* Mutant: the handoff does not wait for the worker to exit.
MutantEndWork(e) ==
    /\ Busy(e, "work") /\ journal \in {"pristine", "written"} /\ To(e, "recover")
    /\ extra' = extra \union {"checkpoint"}
    /\ UNCHANGED <<tx, owner, journal, lane, settled, alive, wk, rc, history, faults>>

\* The worker has exited: its checkpoint was made durable and not accepted, it failed, or
\* its change set was finalized, which seals the journal.
EndWork(e) ==
    /\ Busy(e, "work") /\ wk' = [wk EXCEPT ![e] = "gone"]
    /\ \/ /\ journal \in {"pristine", "written"} /\ To(e, "recover")
          /\ extra' = extra \union {"checkpoint"} /\ UNCHANGED journal
       \/ To(e, "recover") /\ UNCHANGED <<journal, extra>>
       \/ /\ journal \in {"pristine", "written"} /\ \E l \in {"recover", "commit"} : To(e, l)
          /\ journal' = "sealed" /\ UNCHANGED extra
    /\ UNCHANGED <<tx, owner, lane, settled, alive, rc, history, faults>>

\* The worker has exited at a budget boundary and a fresh one continues its checkpoint.
HandOver(e) ==
    /\ Busy(e, "work") /\ journal \in {"pristine", "written"}
    /\ extra' = extra \union {"checkpoint"} /\ wk' = [wk EXCEPT ![e] = "up"]
    /\ UNCHANGED <<tx, owner, journal, lane, settled, alive, ex, rc, history, faults>>

\* attemptRecovery.
AttemptRecovery(e) ==
    /\ Busy(e, "recover")
    /\ Persist(ex[e].state, "RECOVERY_REQUIRED", ToWith(e, "finish", "RECOVERY_REQUIRED"), To(e, "finish"))
    /\ UNCHANGED <<files, lane, settled, alive, wk, rc, history>>

Commit(e) ==
    /\ Busy(e, "commit")
    /\ Persist(ex[e].state, "COMMITTING", ToWith(e, "publish", "COMMITTING"), To(e, "recover"))
    /\ UNCHANGED <<files, lane, settled, alive, wk, rc, history>>

\* commitDelegationGeneration, or a failure to build what it would commit.
Publish(e) ==
    /\ Busy(e, "publish")
    /\ \/ /\ Persist(ex[e].state, "DONE", ToWith(e, "finish", "DONE"), To(e, "recover"))
          /\ extra' = extra \union {"generation"}
       \/ To(e, "recover") /\ UNCHANGED <<tx, extra, faults>>
    /\ UNCHANGED <<owner, journal, lane, settled, alive, wk, rc, history>>

\* The finally block reads the owner again and removes it; an incomplete state keeps it.
Finish(e) ==
    /\ Busy(e, "finish")
    /\ IF ex[e].state.status \notin Incomplete /\ owner # None /\ owner.whole /\ owner.exec = e
       THEN To(e, "unlink") ELSE To(e, "control")
    /\ UNCHANGED <<tx, files, lane, settled, alive, wk, rc, history, faults>>

UnlinkOwner(e) ==
    /\ Busy(e, "unlink") /\ To(e, "control")
    /\ \/ owner' = None /\ UNCHANGED faults
       \/ Fault /\ UNCHANGED owner
    /\ UNCHANGED <<tx, journal, extra, lane, settled, alive, wk, rc, history>>

\* The lane stays with this process, which registers the operation as settled.
Retain(e) == settled' = settled \union {e} /\ UNCHANGED lane

\* abortPristinePreparedDelegationUnderStartLockV2: what it must prove.
ClosesUnderLane(e) ==
    /\ ex[e].state.status = "PREPARED" /\ ex[e].state.rev = 1
    /\ lane = [exec |-> e, proc |-> ex[e].proc]
    /\ owner = None /\ Unused(journal) /\ extra = {}

\* What the controller does with the lane once the execution has returned.
Control(e) ==
    /\ Busy(e, "control")
    /\ LET release == lane' = None /\ UNCHANGED settled
       IN \/ /\ ex[e].state.status \notin Incomplete
             /\ release /\ To(e, "over") /\ UNCHANGED <<tx, faults>>
          \/ /\ ClosesUnderLane(e)
             /\ Persist(ex[e].state, "ABORTED", ToWith(e, "over", "ABORTED") /\ release,
                        To(e, "over") /\ Retain(e))
          \/ /\ ex[e].state.status \in Incomplete /\ ~ClosesUnderLane(e)
             /\ Retain(e) /\ To(e, "over") /\ UNCHANGED <<tx, faults>>
    /\ UNCHANGED <<files, alive, wk, rc, history>>

-----------------------------------------------------------------------------
(* The detached worker *)

\* A tool call of the worker borrows the lane of its live parent.
BorrowLane(e) ==
    /\ wk[e] = "up" /\ lane # None /\ lane.exec = e /\ lane.proc \in alive
    /\ wk' = [wk EXCEPT ![e] = "leased"]
    /\ UNCHANGED <<tx, files, lane, settled, alive, ex, rc, history, faults>>

\* beginWriteJournalOperation, the edit, completeWriteJournalOperation.
BeginWrite(e) ==
    /\ wk[e] = "leased" /\ journal' = "pending" /\ wk' = [wk EXCEPT ![e] = "begun"]
    /\ UNCHANGED <<tx, owner, extra, lane, settled, alive, ex, rc, history, faults>>

Edit(e) ==
    /\ wk[e] = "begun" /\ wrote' = TRUE /\ wk' = [wk EXCEPT ![e] = "edited"]
    /\ UNCHANGED <<tx, files, lane, settled, alive, ex, rc, orphans, crashes, faults>>

CompleteWrite(e) ==
    /\ wk[e] = "edited" /\ journal' = "written" /\ wk' = [wk EXCEPT ![e] = "up"]
    /\ UNCHANGED <<tx, owner, extra, lane, settled, alive, ex, rc, history, faults>>

Writing == {"leased", "begun", "edited"}
Running == {"up"} \union Writing

\* The worker is detached: it may live on without its parent.
Crash(p) ==
    /\ p \in alive /\ crashes < MaxCrash /\ crashes' = crashes + 1
    /\ alive' = alive \ {p}
    /\ settled' = {e \in settled : ex[e].proc # p}
    /\ rc' = [r \in Recon |-> IF Home[r] = p THEN IdleRecon ELSE rc[r]]
    /\ LET left == {e \in Exec : ex[e].proc = p /\ wk[e] \in Running}
       IN \/ UNCHANGED wk /\ orphans' = orphans \union left
          \/ wk' = [e \in Exec |-> IF e \in left THEN "gone" ELSE wk[e]] /\ UNCHANGED orphans
    /\ UNCHANGED <<tx, files, lane, ex, wrote, faults>>

\* Another operation of the checkout takes the lane of a dead process, and leaves again.
DisplaceDead ==
    /\ lane # None /\ lane.proc \notin alive /\ lane' = None
    /\ UNCHANGED <<tx, files, settled, alive, ex, wk, rc, history, faults>>

OrphanDies(e) ==
    /\ wk[e] \in Running /\ ex[e].proc \notin alive
    /\ wk' = [wk EXCEPT ![e] = "gone"]
    /\ UNCHANGED <<tx, files, lane, settled, alive, ex, rc, history, faults>>

-----------------------------------------------------------------------------
(* A reconciler *)

Does(r, l) == rc[r].at = l /\ Home[r] \in alive
Goes(r, l) == rc' = [rc EXCEPT ![r].at = l]
Rests(r) == rc' = [rc EXCEPT ![r] = IdleRecon]

Interrupted(r) == rc[r].seen.status \in {"PREPARED", "RUNNING"}

\* Mutant: only a lane whose process is dead counts as left behind.
MutantSettledLane(r) ==
    IF lane # None /\ lane.proc \notin alive THEN lane.exec ELSE None

\* settledOperationForTransaction: the live lane is an operation of this process that its
\* registry knows as settled.
SettledLane(r) ==
    IF lane # None /\ lane.proc = Home[r] /\ lane.exec \in settled THEN lane.exec ELSE None

ReadTransaction(r) ==
    /\ Does(r, "idle") /\ tx.status \notin {"none", "COMMITTING"}
    /\ rc' = [rc EXCEPT ![r].at = "owner", ![r].seen = tx]
    /\ UNCHANGED <<tx, files, lane, settled, alive, ex, wk, history, faults>>

\* Mutant: an owner that cannot be found is a dead one.
MutantOwnerVerdict(r) ==
    IF owner # None /\ ~owner.whole THEN "idle"
    ELSE IF Interrupted(r) /\ (owner = None \/ owner.proc \notin alive) THEN "journal"
    ELSE "lane"

\* Where the owner file sends recoverInterruptedDelegationV2 and
\* releaseOrphanedTerminalExecutionOwnerV2.
OwnerVerdict(r) ==
    IF owner # None /\ ~owner.whole THEN "idle"
    ELSE IF ~Interrupted(r) THEN "lane"
    ELSE IF owner # None /\ owner.proc \notin alive THEN "journal"
    ELSE IF owner # None \/ rc[r].seen.status = "PREPARED" THEN "lane"
    ELSE "idle"

ReadOwner(r) ==
    /\ Does(r, "owner")
    /\ IF OwnerVerdict(r) = "idle" THEN Rests(r)
       ELSE rc' = [rc EXCEPT ![r].at = OwnerVerdict(r),
                             ![r].token = IF owner = None THEN None ELSE owner.exec,
                             ![r].live = owner # None /\ owner.proc \in alive]
    /\ UNCHANGED <<tx, files, lane, settled, alive, ex, wk, history, faults>>

InspectLane(r) ==
    /\ Does(r, "lane")
    /\ LET s    == SettledLane(r)
           dead == lane # None /\ lane.proc \notin alive
           next(l, lease) == rc' = [rc EXCEPT ![r].at = l, ![r].lease = lease, ![r].mine = s # None]
       IN IF Interrupted(r)
          THEN IF s # None THEN next("journal", s)
               ELSE IF rc[r].token = None /\ dead THEN next("journal", lane.exec)
               ELSE Rests(r)
          ELSE IF rc[r].token = None THEN IF s # None THEN next("release", s) ELSE Rests(r)
               ELSE IF rc[r].live /\ s = None THEN Rests(r) ELSE next("reread", s)
    /\ UNCHANGED <<tx, files, lane, settled, alive, ex, wk, history, faults>>

\* Mutant: the journal is not consulted before an interrupted execution is aborted.
MutantInspectJournal(r) ==
    /\ Does(r, "journal")
    /\ IF extra = {} /\ (owner = None) = (rc[r].token = None)
       THEN rc' = [rc EXCEPT ![r].at = "stop", ![r].target = "ABORTED"]
       ELSE Rests(r)
    /\ UNCHANGED <<tx, files, lane, settled, alive, ex, wk, history, faults>>

\* The journal and safeIncompleteInventory.
InspectJournal(r) ==
    /\ Does(r, "journal")
    /\ IF /\ journal = "absent" => rc[r].seen.status = "PREPARED"
          /\ ~Unused(journal) => rc[r].mine
          /\ extra = {} /\ (owner = None) = (rc[r].token = None)
       THEN rc' = [rc EXCEPT ![r].at = "stop",
                             ![r].target = IF Unused(journal) THEN "ABORTED" ELSE "RECOVERY_REQUIRED"]
       ELSE Rests(r)
    /\ UNCHANGED <<tx, files, lane, settled, alive, ex, wk, history, faults>>

StopTransaction(r) ==
    /\ Does(r, "stop")
    /\ Persist(rc[r].seen, rc[r].target, Goes(r, IF rc[r].token # None THEN "reread" ELSE "release"),
               Rests(r))
    /\ UNCHANGED <<files, lane, settled, alive, ex, wk, history>>

\* releaseDelegationExecutionOwnerV2 reads the token ...
RereadOwner(r) ==
    /\ Does(r, "reread")
    /\ IF owner = None THEN Goes(r, "release")
       ELSE IF owner.whole /\ owner.exec = rc[r].token THEN Goes(r, "unlink")
       ELSE Rests(r)
    /\ UNCHANGED <<tx, files, lane, settled, alive, ex, wk, history, faults>>

\* ... and removes the file that is there by then.
UnlinkFound(r) ==
    /\ Does(r, "unlink")
    /\ \/ owner' = None /\ Goes(r, "release") /\ UNCHANGED faults
       \/ Fault /\ Rests(r) /\ UNCHANGED owner
    /\ UNCHANGED <<tx, journal, extra, lane, settled, alive, ex, wk, history>>

ReleaseLane(r) ==
    /\ Does(r, "release") /\ Rests(r)
    /\ \/ /\ lane # None /\ rc[r].lease = lane.exec
          /\ lane' = None /\ settled' = settled \ {lane.exec} /\ UNCHANGED faults
       \/ (lane # None => rc[r].lease # lane.exec) /\ UNCHANGED <<lane, settled, faults>>
       \/ Fault /\ UNCHANGED <<lane, settled>>
    /\ UNCHANGED <<tx, files, alive, ex, wk, history>>

-----------------------------------------------------------------------------

ExecStep(e) ==
    \/ Prepare(e) \/ Claim(e) \/ WriteOwner(e) \/ PrepareJournal(e) \/ AttemptAbort(e) \/ Run(e)
    \/ EndWork(e) \/ HandOver(e) \/ AttemptRecovery(e) \/ Commit(e) \/ Publish(e) \/ Finish(e) \/ UnlinkOwner(e)
    \/ Control(e)
WorkerStep(e) == BorrowLane(e) \/ BeginWrite(e) \/ Edit(e) \/ CompleteWrite(e)
ReconStep(r) ==
    \/ ReadTransaction(r) \/ ReadOwner(r) \/ InspectLane(r) \/ InspectJournal(r)
    \/ StopTransaction(r) \/ RereadOwner(r) \/ UnlinkFound(r) \/ ReleaseLane(r)

Next ==
    \/ \E e \in Exec : ExecStep(e) \/ WorkerStep(e) \/ OrphanDies(e) \/ \E p \in Proc : Admit(e, p)
    \/ \E r \in Recon : ReconStep(r)
    \/ DisplaceDead \/ \E p \in Proc : Crash(p)

Spec == Init /\ [][Next]_vars

\* Every session reconciles before each of its own writing tool calls, and an execution
\* that is running goes on.
Fairness ==
    /\ \A r \in Recon : WF_vars(ReconStep(r))
    /\ \A e \in Exec : WF_vars(ExecStep(e))
FairSpec == Spec /\ Fairness

-----------------------------------------------------------------------------
(* Properties *)

AtWork == {"claim", "write", "journal", "abort", "run", "work", "commit", "publish"}

\* recoverInterruptedDelegationV2 stops no execution that is still going: as long as its
\* process lives, the stored record is the one the execution last wrote, or the one whose
\* write it was told had failed.
LiveExecutionIsNotStopped ==
    \A e \in Exec : ex[e].proc \in alive /\ ex[e].at \in AtWork =>
        \/ tx = ex[e].state
        \/ /\ faults > 0 /\ ex[e].at = "abort" /\ tx.rev = ex[e].state.rev + 1
           /\ tx.status = "RUNNING"

\* ABORTED says that the worker wrote nothing (INTERRUPTED_BEFORE_WORKER_WRITE and the
\* other before-write reasons), so that nobody reviews the checkout. While no worker has
\* outlived its parent it is true, whoever aborted the delegation.
AbortedIsUnwritten == tx.status = "ABORTED" /\ orphans = {} => ~wrote

\* Two executions of one delegation never have workers that can write at the same time,
\* orphans included.
OneWriter ==
    \A e1, e2 \in Exec :
        wk[e1] \in Writing /\ wk[e2] \in Writing => e1 = e2

\* A delegation that ended incomplete does not keep the lane of a session that goes on:
\* reconciliation closes it, unless it ended while committing, with a checkpoint or with
\* an unreadable owner.
SettledLaneIsFreed ==
    LET stuck == /\ lane # None /\ lane.exec \in settled /\ tx.status # "COMMITTING"
                 /\ extra = {} /\ (owner # None => owner.whole)
    IN stuck ~> ~stuck

\* The transitions DelegationTransaction has for these statuses; DONE stands for what
\* publishDelegationCommit makes of a record.
Lifecycle ==
    {<<"none", "PREPARED">>, <<"PREPARED", "RUNNING">>, <<"RECOVERY_REQUIRED", "RUNNING">>,
     <<"RUNNING", "COMMITTING">>, <<"COMMITTING", "DONE">>,
     <<"PREPARED", "ABORTED">>, <<"RUNNING", "ABORTED">>,
     <<"RUNNING", "RECOVERY_REQUIRED">>, <<"COMMITTING", "RECOVERY_REQUIRED">>}

\* Nobody asks for a transition the lifecycle refuses, however late a persist takes effect,
\* and nobody aborts a record that was resumed, which the serializer would refuse (an
\* ABORTED record has revision 1 or 2; rev counts from 1 where the code counts from 0).
PersistsAreLegal ==
    [][tx' = tx \/ /\ tx'.rev = tx.rev + 1 /\ <<tx.status, tx'.status>> \in Lifecycle
                   /\ tx'.status = "ABORTED" => tx'.rev \in {2, 3}]_vars

-----------------------------------------------------------------------------
(* The inductive invariant *)

Fresh == [status |-> "none", rev |-> 0]

\* The controller is between taking and leaving the lane, in a process that lives.
Active(e) == ex[e].at \notin {"idle", "over"} /\ ex[e].proc \in alive

\* Which state of the record an execution has cached at each step.
Fits(x) ==
    /\ x.at = "idle" => x.proc = None
    /\ x.at \in {"idle", "prepare"} => x.state = Fresh /\ ~x.resumes
    /\ x.at \in {"claim", "write", "run"} =>
          x.state.status = IF x.resumes THEN "RECOVERY_REQUIRED" ELSE "PREPARED"
    /\ x.at \in {"journal", "abort"} => ~x.resumes /\ x.state.status = "PREPARED"
    /\ x.at \in {"work", "commit"} => x.state.status = "RUNNING"
    /\ x.at = "publish" => x.state.status = "COMMITTING"
    /\ x.at = "recover" => x.state.status \in {"RUNNING", "COMMITTING"}
StateFits == \A e \in Exec : Fits(ex[e])

\* A compare-and-swap on what was read earlier succeeds only if nothing was written since.
CachesAreOld ==
    /\ \A e \in Exec : ex[e].state.rev <= tx.rev
    /\ \A r \in Recon : rc[r].seen.rev <= tx.rev

\* The lane serializes the executions, and what is in it or settled belongs to one.
LaneIsHeld ==
    /\ \A e \in Exec : Active(e) => lane = [exec |-> e, proc |-> ex[e].proc]
    /\ lane # None => ex[lane.exec].at # "idle" /\ lane.proc = ex[lane.exec].proc
    /\ \A e \in settled : ex[e].at = "over"

\* A live execution finds no owner but its own.
OwnerIsOwn ==
    /\ tx.status = "none" => owner = None
    /\ \A e \in Exec : Active(e) =>
          /\ ex[e].at \in {"prepare", "claim"} => owner = None
          /\ owner # None => owner.exec = e /\ owner.proc = ex[e].proc

\* A worker belongs to the RUNNING record of its execution; only an orphan may find the
\* record aborted.  Until the record moves on nobody else takes the lane.
WorkersFit ==
    /\ \A e \in Exec : wk[e] \in Running =>
          /\ ex[e].at = "work"
          /\ \/ tx = ex[e].state /\ (lane # None => lane.exec = e)
             \/ tx.status = "ABORTED" /\ ex[e].proc \notin alive
          /\ ex[e].proc \notin alive => e \in orphans
    /\ \A e1, e2 \in Exec : wk[e1] \in Running /\ wk[e2] \in Running => e1 = e2

JournalIsFirst ==
    /\ wrote \/ (\E e \in Exec : wk[e] \in {"begun", "edited"}) => ~Unused(journal)
    /\ tx.status \in {"none", "PREPARED"} => ~wrote

\* What a reconciler knows is true as long as the record is the one it read.
ReconcilersFit ==
    \A r \in Recon :
        /\ rc[r].at = "idle" => rc[r] = IdleRecon
        /\ rc[r].at \in {"owner", "lane"} => ~rc[r].mine /\ rc[r].lease = None
        /\ rc[r].lease # None => \/ ex[rc[r].lease].at = "over"
                                 \/ ex[rc[r].lease].at # "idle" /\ ex[rc[r].lease].proc \notin alive
        /\ rc[r].at \in {"journal", "stop"} =>
              /\ Interrupted(r)
              /\ rc[r].seen = tx =>
                    /\ \A e \in Exec : ex[e].proc \in alive => ex[e].at \notin AtWork
                    /\ rc[r].mine => \A e \in Exec : wk[e] \notin Running
        /\ rc[r].at = "stop" =>
              /\ rc[r].target \in {"ABORTED", "RECOVERY_REQUIRED"}
              /\ rc[r].target = "RECOVERY_REQUIRED" => rc[r].mine
              /\ rc[r].target = "ABORTED" /\ rc[r].seen = tx /\ orphans = {} => Unused(journal)

IInv ==
    /\ TypeOK /\ StateFits /\ CachesAreOld /\ LaneIsHeld /\ OwnerIsOwn /\ WorkersFit
    /\ JournalIsFirst /\ ReconcilersFit
    /\ LiveExecutionIsNotStopped /\ AbortedIsUnwritten

(* Beside IInv, for PersistsAreLegal. *)

\* What the journal and the revision say of each other: a record before RUNNING has an
\* unused journal, a resumed one a used journal, and a reconciler about to stop a record
\* that is still the one it read has seen which.
RecordFits ==
    /\ (tx.status = "none") <=> (tx.rev = 0)
    /\ tx.status = "PREPARED" => tx.rev = 1
    /\ tx.status \in {"none", "PREPARED"} => Unused(journal)
    /\ \A e \in Exec : ex[e].resumes => ~Unused(journal)
    /\ tx.status = "RUNNING" /\ tx.rev > 2 => ~Unused(journal)
    /\ \A r \in Recon : rc[r].at = "stop" /\ rc[r].seen = tx =>
          /\ rc[r].target = "RECOVERY_REQUIRED" => tx.status = "RUNNING"
          /\ rc[r].target = "ABORTED" => tx.rev <= 2
=============================================================================
