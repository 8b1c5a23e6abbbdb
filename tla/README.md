# A TLA+ verification project for the workbench runtime

`src/extensions/workbench-runtime` extends a coding agent with controlled
delegation: a commander session hands a bounded task to a short-lived worker
process, which edits the same checkout. Several sessions, their workers, slash
commands and ordinary editors share that checkout. No daemon coordinates them.
Everything that must survive a crash or be seen by another session is a file under
the project's workbench directory, and every decision about it is made by whoever
reads it next. This project models that durable authority: locks, records,
journals and their recovery, file operation by file operation.

## 1. Inventory

### Components, their state and operations

| component | state | operations | source |
| --- | --- | --- | --- |
| start lock | one fixed lock file, hard-linked candidates, renamed release files | acquire with bounded recovery of a dead owner, inspect, release | `core/delegation-start-lock.ts` |
| checkout operation | a registry in the process: token, settlement, borrowers; the start lock | acquire, run, settle, recover, release, reentrant borrow | `core/project-checkout-operation.ts` |
| delegation transaction | one record: status, revision, outcome, reasons, proof | prepare, start, resume, begin commit, publish, review, abort, require recovery | `core/delegation-transaction.ts` |
| transaction storage | the record on disk, its generation, its lock file | locked compare-and-swap persists, generation commit, reads | `core/delegation-transaction-storage.ts` |
| write journal, change set | the journal file, the bridge in the worker, the folded telemetry, workspace guards | begin and complete a bracket, seal, observe, finalize | `core/write-journal.ts`, `core/worker-write-journal-runtime.ts`, `core/delegation-change-set-lifecycle.ts`, `core/change-set.ts` |
| execution and recovery | the execution owner file, the checkout lane, the cached record | execute, resume, hand over, abort, recover, reconcile | `core/delegation-execution-v2.ts`, `core/delegation-execution-owner.ts`, `core/delegate-tool-controller.ts`, `core/delegation-project-authority.ts` |
| semantic review | the packet, progress, evidence and decision files beside the transaction | page, ask the model batch by batch, resume, publish evidence, decide, migrate | `core/structured-sol-review*.ts`, `core/automatic-semantic-review-*.ts`, `core/delegation-review-v2.ts`, `core/delegation-transaction-storage.ts` |
| repair lineage, path lanes, closures | the graph of delegations, decisions and receipts, and the checkout's content | admit, recover and revalidate a repair, create the one successor, close, supersede, abandon | `core/exact-repair-*.ts`, `core/delegation-path-lane*.ts`, `core/delegation-project-authority.ts`, `core/delegation-authority-closure.ts`, `core/delegation-repair-*.ts` |
| lifecycle resolver, delivery | derived from the durable facts | resolve the next action, claim a continuation | `core/delegation-lifecycle-resolver.ts`, `core/automatic-delivery-*.ts` |
| worker process | child process, event stream, spend counters, checkpoint | spawn, fold events, time out, terminate, hand off | `worker/runner.ts`, `worker/handoff.ts`, `core/worker-*.ts` |
| recipes, runs, gates | staged and published run directories, gate attempt order, evidence | stage, inventory, publish, classify, reuse | `core/recipe-runner.ts`, `core/run-transaction.ts`, `core/runs.ts`, `core/gate-engine.ts`, `core/validation-*.ts` |
| action cache | index, records, per-key locks, artifacts | look up, store, rebuild, prune, clear | `cache/action-*.ts` |
| context, receipts, compaction | turn authorizations, receipts, compact attempts | authorize, release, replay, start and finish an attempt | `core/turn-output-budget.ts`, `core/tool-result-recovery.ts`, `core/compact*.ts` |
| policies, rendering, reports | none that lasts | pure decisions and texts | the rest of `core/`, `ui/`, `cache/` |

`PROJECT.json` lists every part, with the files of each and the reason where it is
not modelled.

### How they interact

A delegation takes the **start lock** through a **checkout operation**, prepares
its **transaction** through the **storage**, claims the **execution owner**, creates
the **journal** and a workspace guard, publishes RUNNING and spawns a worker with
the lane's token in its environment. Each edit of the worker borrows the lane and is
bracketed in the journal. When the worker has ended the parent folds its
telemetry, seals the journal, computes the change set, publishes COMMITTING, renames
a complete generation directory into place and publishes the final status. Before
any tool call that writes, every session **reconciles**: it reads the latest record,
and closes what a dead process, or an operation of its own that has settled, left
incomplete.

### What is hard

- The lock protocols are made of `link`, `rename`, `unlink` and reads: a verdict about
  a file is stale when the next call acts on the path.
- A process may die between any two file operations; process identifiers are reused.
- An operation may fail after it took effect (a rename followed by a failing
  directory synchronisation), so the caller's cached state and the durable one differ.
- Asynchronous callers of one process interleave at every `await`.
- The worker is detached and can outlive its parent.
- People edit the checkout while a worker does.

The list `hazards` of `PROJECT.json` names these at their lines, each with the
properties that would catch it going wrong.

### What makes each component correct

- start lock: a live holder's record is at the fixed path; two holders only when a
  recovery displaced one; a dead verdict never becomes wrong.
- checkout operation: whoever may write has its token in the lock, unless a late rename
  made for another token took it; only settled operations are recovered.
- transaction: success is earned by machine facts, facts are frozen, nothing is
  produced that the parser would refuse.
- storage: the stored record names only a generation that is on disk; until a call loses
  the lock it had verified, the record follows the transaction's lifecycle and never
  goes behind what a caller was told.
- journal and change set: no write of the worker is missing, no closed bracket is
  rewritten, a foreign edit outside the worker's open brackets is told from its writes
  as far as the guards can show it.
- execution: a live execution is never stopped by others, workers never overlap,
  ABORTED means unwritten, a settled lane is freed.
- worker: an attempt always ends with no process left; none that a limit, a timeout or an
  abort stopped is a success; a continuation starts from what its checkpoint says; no turn is lost.
- recipes and cache: an acknowledged result is found until something removes it, and
  is not executed again, until a late recovery deletes a living session's lock.
- semantic review: one decision per delegation, grounded in a complete packet; a resumed
  job repeats nothing and mixes nothing.
- repair lineage: chains never fork, forget what they carry or go on after they were
  settled; content that nobody accepted is not handed to another delegation.

## 2. Modules

| module | models | theorems |
| --- | --- | --- |
| `StartLock` | the start lock as files: fixed path, candidate, release and recovery names | `CheckoutLaneProofs` |
| `CheckoutOperation` | one process's registry, its callers cut at every await, and the file operations of the lock's release | `CheckoutLaneProofs` |
| `DelegationTransaction` | the record, its transitions as functions from a record to the set of results, the parser; no state | `TransactionStorageProofs` |
| `TransactionLifecycle` | one record to which the transitions are applied: the abstract specification of the storage | `TransactionStorageProofs` |
| `TransactionStorage` | lock file, record and generation; `Lifecycle == INSTANCE TransactionLifecycle WITH tx <- stored` maps the record on disk to the abstract one, and `ImplementsLifecycle` is the abstract specification as a property | `TransactionStorageProofs` |
| `WriteJournal` | journal, worker bridge, telemetry, guards and change set of one delegation over a few files | `WriteJournalProofs` |
| `ExecutionOwner` | one delegation's execution, resumption, worker and reconcilers over lane, owner, journal and record | `ExecutionOwnerProofs` |
| `WorkerRun` | the child process, its event stream, limits, termination, the attempt loop, checkpoint and resumption | `WorkerRunProofs` |
| `RecipeRun` | runs of one recipe, the action cache's index, records and locks, maintenance, run directories | `RecipeRunProofs` |
| `SemanticReview` | automatic and manual review of one delegation and the side files of its decision | `SemanticReviewProofs` |
| `RepairLineage` | all delegations of a project: audits, path lanes, exact repair, review, closure, abandonment | `RepairLineageProofs` |
| `MC...` | the model-checking instance of each | |

A variable is a file or a field of the process's memory and is commented with it; an
action is one handler, cut where another actor can interleave (a file operation or an
`await`), and carries the source's name where it is one function. Control is complete;
data is abstracted to what the properties tell apart:

- identities, times, hashes and texts are model values or Booleans;
- in `StartLock` an owner record is a token with the incarnation of its process, which
  is how process start times are modelled;
- `DelegationTransaction` keeps each fact of an outcome that a postcondition reads,
  with changed paths as none, inside or outside the scope;
- `CheckoutOperation` keeps of the lock what the path, the release names and the renamed
  files hold (`lock`, `parked`, `shelf`). A release looks at the path, renames what is there
  by then, looks again and links it back or unlinks it, so releases of one token overlap.
  What another process's late recovery does is one rename (`LateRename`, at most `MaxLate`)
  and perhaps a link back. `displaced` remembers which tokens were renamed away by a call
  made for another one;
- `TransactionStorage` abstracts a generation to the revision and facts it commits. The
  review transition, which writes side files too, is left to the review module;
- `WriteJournal` gives a file three contents, an operation its before and after
  identity, and a worker at most two tool calls. A fault can hit every capture,
  publication and telemetry line, and an attempt can be killed anywhere;
- `ExecutionOwner` abstracts the record to status and revision and each persist to the
  compare-and-swap that `TransactionStorage` justifies while no verified storage lock is
  stolen, which may also fail after it took effect. Here and in `RepairLineage` a lane is not
  displaced either: what a displaced lock or a stolen one leads to is not followed. Every recovery reason is taken to allow a resumption, which only adds
  behaviours. The lane is taken when it is free or its process is dead;
- `WorkerRun` refines the worker that `ExecutionOwner` sees: the stream is a pipe of whole
  lines, spend is counted in turns, and the checkout is what the journal says of it
  (completed operations, an open bracket, a change outside). The child may send any line at
  any time, leave descendants, ignore SIGTERM and exit with any code;
- `RecipeRun` takes the content of the declared inputs for the action key, every other
  component of which is fixed. Index and records are separate files, changed under a mutex
  that a dead owner leaves behind. `removeObservedLock` is two steps, what it verifies
  (`VerifyMutex`, `VerifyKeyLock`) and the removal of whatever is at the path
  (`DeleteMutex`, `DeleteKeyLock`). A section that reads and changes the index under the
  mutex and awaits nobody is one action, which is right only while the mutex protects it.
  So a removal that finds the dead owner's lock gone counts the mutex as `stolen` even
  when no lock is there, and from then on nothing is claimed of the index. Legacy and
  malformed locks, which have no owner that could be checked, are left out. The index is the sequence of its keys by last use, and
  what the code does to it (rebuild, touch, prune) is a set of orders it may result in;
- `SemanticReview` counts pages and batches and gives a batch one of the results the job
  tells apart. A time is the number of the call it was read in: calls hold the checkout
  lane, so they follow each other, and only that order is compared. Parent evidence of a
  successor and the review of a terminal-negative delegation are left out;
- `RepairLineage` composes the others' results: an execution is its possible ends, a review
  its decision, the lane one variable. A path's content is the delegation that wrote it.
  What `/q-repair` reads without the lane is one snapshot, because the code rejects a scan
  that moved. Left out: the session's mirror of its latest delegation (it only refuses
  more), the delegate tool's own `repair_of`, the resumption of a paused delegation from its
  checkpoint (RECOVERY_REQUIRED back to RUNNING, `core/delegation-resume-authority.ts:297`,
  collected again under the lane in `core/delegate-tool-controller.ts:1198`), quarantine, depth limits, plans, and edits
  while the lane is held.

## 3. Runs

| run | checks | instance and bounds |
| --- | --- | --- |
| `startlock_crash` | `LockTypeOK`, `LiveLeaseOnDisk`, `DoubleLeaseIsDisplaced`, `DeadVerdictIsFinal` | two processes of two incarnations each, four tokens, two recoveries, any file operation may fail |
| `startlock_mutex` | `MutualExclusion` is violated | three processes, no fault: the race needs a stale lock, two recoverers and a third process |
| `checkout_faults` | `TypeOK`, `RunningHoldsLane`, `CountedBorrowerHoldsLane`, `OnlySettledIsReleased` | three callers, two tokens, a foreign process, one late rename, failing lock calls |
| `transaction_lifecycle` | `OnlyLateAbortIsRefused`, `SuccessIsEarned`, `FactsAreFrozen` | every outcome with up to two flaws, resumptions up to revision 4 |
| `storage_overlap` | `AcknowledgedIsDurable`, `ProofIsOnDisk`, `ImplementsLifecycle` | two processes whose calls overlap, two tokens, one recovery per acquisition, one crash, failing operations, records resumed below revision 3 |
| `journal` | `EveryWriteIsJournaled`, `ForeignEditConflicts`, `ChainIsUnbroken`, `JournalGrows` | two paths, two tool calls, two attempts, three captures, one foreign edit at any point, every fault |
| `owner_recovery` | `LiveExecutionIsNotStopped`, `OneWriter`, `AbortedIsUnwritten`, `PersistsAreLegal`, `SettledLaneIsFreed` | an execution and a resumption, two sessions that reconcile, one crash, one failing operation, with fairness |
| `worker_attempts` | `SettledIsQuiet`, `ContinuationIsBound`, `SpendIsCountedOnce`, `SuccessIsClean`, `AttemptSettles` | two attempts and a resumption, soft limit 2, hard limit 3, one journaled operation, one fault, with fairness |
| `recipe_cache` | `AcknowledgedIsFindable`, `ExecutesOnce` | two runs, two keys, room for one record, maintenance, at most one each of a left-behind key lock, an edit, a fault, a damaged file and a crash; recoveries as late as they like |
| `review_job` | `TellsOneDecision`, `AcceptIsGrounded`, `RepairFreezesPacket`, `EvidenceIsOfOneJob`, `CompletedHasEvidence`, `CompletedBatchIsNotAskedAgain` | two pages, two batches, four calls, two faults, two edits, one damage, two policies |
| `review_owner` | `SoleSemanticOwner` is violated | the same without faults or damage |
| `repair_lineage` | `UnacceptedWorkIsGuarded`, `ChainIsSound`, `ClosedIsNotRepaired` | two sessions, two paths, three delegations of which two are no repairs, one fault or restoration |

Each module states its types as `TypeOK` (`LockTypeOK`, `LifecycleTypeOK`). Two components' runs check it (`StartLock`,
`CheckoutOperation`); in the others it is a conjunct of the inductive invariant (`IInv`,
`RecordParses` of the lifecycle), which TLC checked on the run's instance before it was proved. The runs keep to the
properties that relate the parts of the state.

Why the bounds are enough: each lock protocol needs two contenders plus, for the
displacement race, a third; a crash plus a restart under the same identifier is what
reuse needs; two recovery attempts exercise both the retry and its exhaustion. Two
releases of one token and a third caller are what it takes to rename a running caller's
lock away; in the storage a contender that inspects a lock before its owner is written
steals it with a single recovery, and in the cache two recoveries and one dead owner do
(the left-behind key lock spares the crash for something else). Two tool
calls on one path make a chain, on two paths a parallel pair; three captures exhaust the
journal's budget between a before and an after, four let both operations complete. Three
transitions of a record reach a resumption, two more its end. One fault per run of
`ExecutionOwner` is enough to separate the cached from the durable state, and the crash
then meets every such pair. Two turns reach the soft limit of `WorkerRun` and three the
hard one, which is what a checkpoint and a hand-over need; the second attempt ends, or is
resumed. A cache with room for one record makes every second store evict. In
`SemanticReview` an orphaned ACCEPT needs a presentation, an automatic review that fails
after it published, and a retry, and a fourth call reads what is left; two policies are
what a resumed job can mix. In `RepairLineage` three delegations make a chain of two
repairs, or two chains that compete for a path; an abort is free, so that a chain of empty
attempts and one fault meet. With `MaxFault = 2` (a failed attempt whose paths are then
restored) the properties hold on 1.18 million states, which take longer than a run
should. Deadlock is checked where the system cannot stop (journal,
storage and checkout runs); the lock, lifecycle and other instances end when their
bounds are used up.

Symmetry is used for processes, tokens, callers, tool calls, runs, paths and sessions, which no action and
no property names, and never with a temporal property that needs fairness.

### Fairness

Two runs assume any. `owner_recovery`: weak fairness of each execution's steps (a promise
that is awaited is resolved while its process lives) and of each reconciler's (a
session that goes on reconciles before each of its writing tool calls, see
`core/tool-call-guard-controller.ts`). A dead process's steps are not enabled, so
nothing is assumed of it. Workers, crashes and other operations have no fairness.
`worker_attempts`: weak fairness of the runner's timers and of the delivery of the child's
lines, exit and close. Nothing is assumed of the child: it may run for ever and
ignore SIGTERM; SIGKILL of the process group is what ends it.

`SettledLaneIsFreed` leaves out three ends in which the code deliberately keeps the lane
until a person decides: COMMITTING, a checkpoint on disk, and an owner file that
cannot be read.

## 4. Findings

Two runs show a disagreement between the code and what it says of itself; the full text
is in `PROJECT.json`.

1. `startlock_mutex`: recovery renames whatever is at the fixed path, so the second of
   two recoverers displaces the lock the first has just taken, and a third process can
   take the path before it is linked back.
2. `review_owner`: a manual REPAIR after an automatic one writes a second owner of the
   decision, after which the review of the delegation cannot be read.

Observations made while modelling. No run is kept for them: they are either reachable
only in narrow windows, or nothing in the repository promises the opposite.

- Two releases of one start-lock token overlap (an owner and a recovery or reconciler of its
  process): the second rename (`core/delegation-start-lock.ts:699`) takes the lock a third
  caller has acquired by then. It is linked back, unless the path was taken again; then two
  commands of one process run at once. A link back can also come after its owner has
  released, which leaves the lock of a finished operation on the path.
- A release of a checkout operation deletes the registry entry by project root after an
  `await` (`core/project-checkout-operation.ts:376`); an operation that started during it
  loses its entry, although the comment at :356 says the identity is checked.
- The storage lock file exists before its owner is written, and a contender moves aside what
  does not parse, whatever is there by then (`core/delegation-transaction-storage.ts:1805`).
  A call that had verified its lock then persists beside another one, and the record can go
  back behind a revision that was acknowledged. The checkout lane does not prevent it:
  recovery reads and persists (`core/tool-call-guard-controller.ts:221`,
  `core/delegation-execution-owner.ts:1034`) before the lane is taken at :230.
- Two recoveries of a dead owner's cache lock: the first renames the owner's name and has
  not yet removed the path; the second finds the name gone, links it anew to the same old
  lock, and verifies it; the first removes the old lock and publishes its own, which the
  second removes (`cache/action-store.ts:634`), although the comment at :603 says that a
  replacement cannot be touched. TLC shows an acknowledged result that is lost this way and
  an action that is executed twice; the properties of `recipe_cache` hold up to that removal.
- When RUNNING of a resumption is published and reported as failed, the cached
  RECOVERY_REQUIRED makes the `finally` block (`core/delegation-execution-v2.ts:1408`)
  remove the owner of a RUNNING record.
- A worker that outlives its parent can begin its first write after ABORTED was published
  (which is why `AbortedIsUnwritten` excludes orphans), and the owner file is unlinked
  after its token was compared, not with it.
- An attempt in which another model answered and which then met a hard limit is
  checkpointed and handed over, because the limit ranks first (`worker/runner.ts:725`).
- A review job begun under another policy can be neither resumed nor replaced: every
  automatic review of that delegation is refused from then on.
- The path lane of a lineaged attempt that stopped without committing reports only the
  paths it carried, not those it wrote (`core/delegation-path-lane-admission.ts:327`), and
  its successor carries no more. An ordinary delegation is admitted on such a path;
  `UnacceptedWorkIsGuarded` excludes these writes for that reason.
- Reviewing a failed repair after its successor was created makes the successor's
  continuation invalid (`core/delegation-project-authority.ts:773`). From then on the audit
  refuses the project's delegations, repairs, closures and abandonments; the comment there
  attributes such children to historical runtimes.
- With two unresolved repair chains, `/q-review`, closing and abandoning are refused while
  repairs go on; and an abandonment of a dead RUNNING tip lapses when reconciliation
  changes the status it is bound to.

## 5. Proofs

Proved with TLAPS for all values of the constants (`PROJECT.json`, `theorems`):

- `CheckoutLaneProofs`, the lock file: any number of processes, incarnations, tokens and recoveries. The
  inductive invariant `LockIInv` adds to the properties that records never name a future
  incarnation (`RecordsArePast`), that a lease is the holder's own (`LeaseIsOwn`), that a
  token occurs in one record (`TokensAreUnique`), what the local state of a recovery and
  of a release says about the files (`RecoveryState`, `ReleaseState`), and that a
  published record is somewhere on disk (`PublishedIsOnDisk`). Without them a rename could
  bring back a record of a live token. The code assumption is only that tokens are fresh.
- `CheckoutLaneProofs`, the registry: any number of callers. `IInv` separates *holders* of a token
  from *takers* on their way to release one: holders are in the lock or displaced, no two
  holders share a token, no taker has a holder's token, and a settled entry is nobody's
  running operation. `RunningHoldsLane` is not inductive alone because a recovery decides on
  an entry it read before an `await`. That no taker has a holder's token is what makes
  `displaced` say so much: a running operation loses its lock only to a release of
  *another* token, or to a late recovery, whatever overlaps.
- `CheckoutLaneProofs`, borrowers: `BInv` beside `IInv` counts. The registry's number
  is at least the number of borrowers it knows of (`CountCoversBorrowers`, over the finite
  set of counted callers), a borrower it does not know came after the entry was deleted, and
  an entry that may still be borrowed belongs to a running operation (`LenderRuns`).
- `TransactionStorageProofs`, the lifecycle: any set of outcomes, any number of resumptions.
  `RecordParses`: the stored record is one the parser accepts; one lemma per transition shows its
  result parses (`PrepareValid` ... `AbortValid`), and the properties follow from the parser's
  conditions. `OnlyLateAbortIsRefused` needs the parity of the revision (`Parity`).
- `TransactionStorageProofs`, the storage: any number of processes, tokens, crashes and failing
  operations, with calls that overlap as they like. The lock excludes only until a contender
  has moved a verified one (`stolen`), so the invariant has two layers. Unconditional: tokens
  differ (`TokensDiffer`), what is stored parses (`StoredParses`), and what a call is about to
  publish parses and has its generation on disk (`PendingIsSound`), because a generation is
  never overwritten and the record that names it was built from what is on disk; that gives
  `ProofIsOnDisk`. Until `stolen`: whoever relies on the lock has it (`LockIsHeld`), so what a
  call is about to publish follows by one transition from what is stored *now*; that gives
  `AcknowledgedIsDurable` and the refinement, which is one lemma per step: `PublishState` is
  the abstract transition, every other step leaves the record alone. The
  lemmas about transitions and parser serve both levels, so what the lifecycle guarantees is
  also proved of the record on disk (`StoredFactsHold`): success is earned there whoever lost
  a lock, and facts are frozen until one is lost.
- `WorkerRunProofs`: any limits, attempts, pipe lengths, operations and resumptions. The
  exit event has killed the group before anything is read (`ExitedIsQuiet`), and the log is
  aligned with the attempts over hand-overs and resumptions (`LogIsAligned`). What was spent
  is stated with running totals, so that no sum is computed: the whole log adds up to the
  counter and the prefix a checkpoint names adds up to the checkpoint's turns
  (`LedgerIsExact`). An attempt appends one entry and one total; a resumption cuts log and
  counter back to the same prefix. `SuccessIsClean` says what a success excludes; a last
  message that was truncated at its length, or has no stop reason, is not excluded, since
  `workerRunFailure` refuses only errors, aborts and tool calls (`worker/runner.ts:735`).
- `WriteJournalProofs`: any paths, tool calls, attempts, captures, edits and faults. At most
  one tool call is between its first await and its result (`OneCall`) and its bracket is the
  open one at the end of the journal, for good if the call was killed after it wrote
  (`BracketIsOpen`). Foreign edits need what their last traces are: the file differs from
  the after of the path's last operation (`ForeignShows`), or carries a stamp that the
  guard of the start cannot have seen (`StampsAreOld`, `StrayShows`). An edit made while the
  worker's bracket of the path is open is in the after identity that is captured at its end
  (`core/write-journal.ts:1246`) and is attributed to the worker: no property excludes it.
- `ExecutionOwnerProofs`: any number of processes, executions, reconcilers, crashes and
  faults. A step of an execution, of a worker or of a reconciler is abstracted to what it
  may do to the shared files (`Moves`, `Works`, `Recovers`); each kind is shown once to keep
  the invariant, and the lemma of an action shows of which kind it is. The argument: the
  lane serializes the executions (`LaneIsHeld`), so a live one finds no owner but its own
  (`OwnerIsOwn`); revisions only grow, so a compare-and-swap on something read earlier
  succeeds only if nothing was written since (`CachesAreOld`); therefore what a reconciler
  has found out has to be true only *while the record is the one it read*
  (`ReconcilersFit`), and that a dead owner, a dead lane or a settled operation each exclude.
  `PersistsAreLegal` needs `RecordFits` beside `IInv`: the store's compare-and-swap looks
  only at the revision, so that nobody asks for a transition the lifecycle refuses follows
  from what journal and revision say of each other (a resumed record has a used journal, and
  a used journal is never aborted). This closes, for executions and reconcilers, the late
  abort that `OnlyLateAbortIsRefused` leaves open to a caller of the transitions.
- `SemanticReviewProofs`: any pages, batches, calls, policies, faults, edits and damage. One
  half of `IInv` follows the job (usage between its assessments and what was spent, one
  policy, the copy in memory is the one on disk while the model is asked, every batch
  assessed before a decision), the other the decision (evidence on disk or on its way fits
  the job; a rejection that was told is on disk and the delegation is pending).
- `RecipeRunProofs`: any number of runs, keys, records, edits, faults, crashes and late
  recoveries. Until the mutex is `stolen`, whoever is between reading the index and writing
  it back holds the mutex (`MutexIsHeld`), and what it
  read holds every acknowledged key that nothing has removed (`AcknowledgedIsKept`); an
  acknowledged record also parses, so that a rebuild from the records finds it. Until its
  lock is stolen, only the
  holder of a key's lock acknowledges a result of it (`KeyLockIsHeld`, `CallIsAligned`), so
  what it looked up under the lock is still true when it executes (`ExecutesOnce`). A removal
  that finds the verified dead owner's lock in place breaks neither, since the dead hold
  nothing; every other removal of a lock is `stolen` by definition.
- `RepairLineageProofs`: any number of sessions, paths, delegations and faults. An edge to a
  successor is made only from a tip that was revalidated under the lane (`AdmittedFits`), and
  it carries the parent's scope and content (`EdgesFit`); `ChainIsSound` follows along the
  ancestors, which are the smallest set closed under parent. That a lane's guard survives a
  closure rests on `ClosedIsClean`: what was closed or abandoned was clean then, and only
  newer delegations have written since.

Each theorem has one lemma per action or kind of action, and the temporal step combines
them with PTL. The constants' assumptions give them their types and keep model values
apart: `None` is no record, owner, lane, packet or checkpoint (`RecordAssumption`,
`AbsentAssumption`), limits are natural numbers, at least one attempt, page, batch and
policy exists, and the inputs of recipes are a finite set (keys are SHA-256 hashes).

### What proving showed of the models

Attempts that failed for good reasons changed the project, and some models were restated.

- `RunningHoldsLane`, the storage's refinement and the cache's two properties held without
  any exception while a lock's release or recovery was one step. Cut at their file operations
  (`ReleaseLook` ... `ReleaseClean`, `InspectLock` and `MoveLock`, `VerifyMutex` and
  `DeleteMutex`) they do not, and the exception each now names is the step that breaks it:
  a lock renamed for another token, a verified lock moved, a removal that came late.
- `ForeignEditConflicts` had claimed more than the code gives: a created file that is
  deleted again leaves no trace, and a path that was missing at the start and at the end
  and that the worker never reached is not noticed. One edit, the bound of the run, does not
  show it; TLC with three edits does. The property now says which edits can go unnoticed.
- `WriteOwner` took the owner file it had created for granted. A late reconciler can
  unlink it in between (`releaseDelegationExecutionOwnerV2` compares the token
  and then removes whatever is there), so the read-back finds nothing; the action now has
  that case. `IInv` was also checked with three reconcilers, and with two crashes and two
  faults.
- That whatever was closed or abandoned had stopped is false of `RepairLineage`: the clean
  observation an abandonment rests on (`readCleanRepairLifecycleObservationV1`,
  `core/delegation-project-authority.ts:1949`) does not look at the status, so a dead RUNNING
  tip is abandoned once its paths are restored. `ClosedIsClean` allows for it.
- The ancestors of a delegation and the sum of a log were recursive, and the index of the
  cache was built with `SelectSeq`. They are now a smallest closed set, a sequence of
  running totals and sets of orders; the run of the cache reaches the same number of states
  as before. The transitions of a record became a module without state, so that one set of
  lemmas serves the lifecycle and the storage.
  Where an argument needs induction on numbers it takes the least counterexample instead.

### Only model-checked

- Liveness (`AttemptSettles`, `SettledLaneIsFreed`), which is out of the prover's reach.
- The two properties that runs refute.

## 6. Not modelled, and the plan

Next, in this order:

1. **Receipts, compaction and turn budget**: at most one replay, one end per attempt, every
   authorization released.
2. **Lifecycle resolver and automatic delivery**: the resolver as an operator checked
   against the decision tables, the continuation that is claimed once per turn.
3. **Local commit, candidates and promotion, gates**: the staleness of what they bind, the
   index restored on failure, evidence reused only while its bytes are current.
4. **Claim guard and leases**: what may be claimed or written while a record is unresolved.
5. The parts `PROJECT.json` calls partly modelled: quarantine and `repair_of` of the
   delegate tool, review of terminal-negative delegations.

Every invariant and every action property of the passing runs is a theorem; further theorems
come with these modules.

The models cover the part of the program that keeps durable authority. The larger part of
its lines is strict parsing of byte formats, rendering, telemetry, policies on single
calls and benchmark scripts: there is no state in them for a model to keep.

Not planned: rendering, reports, telemetry, templates and schemas (no state a decision
depends on), the benchmark scripts, and the byte formats of records, of which the models
keep what their strict parsers accept.
