--------------------------- MODULE WriteJournal ---------------------------
(***************************************************************************)
(* How the changes of a delegated worker are attributed to it.             *)
(*                                                                         *)
(* core/write-journal.ts is the durable journal: every edit of the worker  *)
(* is bracketed by the identity of the file before and after it.           *)
(* core/worker-write-journal-runtime.ts is the bridge in the worker        *)
(* process, which lets one tool call at a time through and mirrors its     *)
(* progress to the parent.  core/delegation-change-set-lifecycle.ts and    *)
(* core/change-set.ts are the parent: it prepares the journal, observes    *)
(* the worker, seals the journal and computes the change set.  Somebody    *)
(* else may edit the same files at any time, the worker may be killed and  *)
(* the parent may hand its work to a fresh one.                            *)
(*                                                                         *)
(* The lock file of the journal is not modelled: parent and worker never   *)
(* mutate the journal at the same time, and the lock protocol is the one   *)
(* of TransactionStorage.  An identity is captured and published in one    *)
(* step, since an edit in between has the effect of one just after it.     *)
(***************************************************************************)
EXTENDS Integers, Sequences

CONSTANTS
    Path,         \* canonical relative paths the policy lets the worker edit
    Tracked,      \* the paths that are files at the git head
    Content,      \* file contents, among them "head" and "missing"
    Call,         \* tool calls of the worker
    None,
    MaxOps,       \* limits.max_operations
    MaxCaptures,  \* limits.max_identity_paths
    MaxEdit,      \* bound: edits by somebody else
    MaxAttempt,   \* bound: fresh workers for one delegation
    Faults        \* whether storage, capture and telemetry may fail

ASSUME JournalAssumption ==
    /\ Tracked \subseteq Path
    /\ {"head", "missing", "dirty"} \subseteq Content
    /\ {MaxOps, MaxCaptures, MaxEdit} \subseteq Nat /\ MaxAttempt \in Nat \ {0}
    /\ Faults \in BOOLEAN

VARIABLES
    files,    \* files[p]: content and stat of p in the checkout
    clock,    \* the stamp of the next write to any file
    journal,  \* v2/write-journal.json
    rt,       \* the bridge of the running worker
    call,     \* call[c]: how far the tool call is
    wire,     \* telemetry on its way to the parent
    obs,      \* the observation the parent has folded
    phase,    \* what the parent does next
    attempt,  \* workers started
    guards,   \* workspace guards the parent has collected
    result,   \* the change set
    wrote,    \* history: the calls that changed a file
    foreign,  \* history: journaled paths edited outside a bracket, and not undone
    stray,    \* history: paths edited between the guards and before they were journaled
    edits

vars == <<files, clock, journal, rt, call, wire, obs, phase, attempt, guards, result,
          wrote, foreign, stray, edits>>

worker  == <<rt, call, wire>>
parent  == <<obs, phase, attempt, guards, result>>
history == <<wrote, foreign, stray, edits>>

-----------------------------------------------------------------------------
(* Records *)

\* StreamingPathIdentity: a file that was written again has another stat.
Identity == [content : Content, stamp : Nat]
Missing  == [content |-> "missing", stamp |-> 0]
Stamped(c) == IF c = "missing" THEN Missing ELSE [content |-> c, stamp |-> clock]

\* A path whose content is that of the git head has no workspace guard entry.
Clean == None
GuardOf(f) == [p \in Path |-> IF f[p].content = (IF p \in Tracked THEN "head" ELSE "missing")
                              THEN Clean ELSE f[p]]

Op == [call : Call, path : Path, status : {"pending", "completed"}, before : Identity,
       after : Identity \union {None}, outcome : {"succeeded", "failed", None}]
Journal == [state : {"OPEN", "SEALED"}, revision : Nat, captures : Nat, ops : Seq(Op)]

ASSUME AbsentAssumption ==
    /\ None \notin Call \union Identity \union Journal
    /\ None \notin [Path -> Identity \union {Clean}]

Telemetry == [phase : {"begin", "complete", "failure"}, outcome : {"succeeded", "failed", None},
              revision : Nat]
Observation == [state : {"empty", "begun", "complete", "failed"},
                outcome : {"succeeded", "failed", None}, revision : Nat]

Runtime == [up : BOOLEAN, poisoned : BOOLEAN, beginning : Call \union {None},
            pending : Call \union {None}, revision : Nat, blocked : SUBSET Call]
ToolCall == [at : {"new", "begin", "run", "ran", "blocked", "done", "killed"},
             path : Path \union {None}, error : BOOLEAN]
ChangeSet == [status : {"ATTRIBUTED", "WORKSPACE_DRIFT", "CONFLICT"}, delta : SUBSET Path,
              conflicts : SUBSET Path, drift : SUBSET Path]

IsPending(j)     == j.ops # <<>> /\ j.ops[Len(j.ops)].status = "pending"
OpsOn(j, p)      == {i \in DOMAIN j.ops : j.ops[i].path = p}
FirstOn(j, p)    == j.ops[CHOOSE i \in OpsOn(j, p) : \A k \in OpsOn(j, p) : i <= k]
LastOn(j, p)     == j.ops[CHOOSE i \in OpsOn(j, p) : \A k \in OpsOn(j, p) : k <= i]
TouchedPaths(j)  == {j.ops[i].path : i \in DOMAIN j.ops}

FreshRuntime == [up |-> TRUE, poisoned |-> FALSE, beginning |-> None, pending |-> None,
                 revision |-> 0, blocked |-> {}]
EmptyObservation == [state |-> "empty", outcome |-> None, revision |-> 0]

TypeOK ==
    /\ files \in [Path -> Identity] /\ clock \in Nat
    /\ journal \in Journal \union {None}
    /\ journal # None => journal.captures <= MaxCaptures /\ Len(journal.ops) <= MaxOps
    /\ rt \in Runtime /\ call \in [Call -> ToolCall]
    /\ wire \in Seq(Telemetry) /\ obs \in Observation
    /\ phase \in {"create", "guard", "running", "returned", "seal", "after", "compute",
                  "done", "failed"}
    /\ attempt \in 0..MaxAttempt
    /\ guards \in [{"before", "after"} -> [Path -> Identity \union {Clean}] \union {None}]
    /\ result \in ChangeSet \union {None}
    /\ wrote \in SUBSET Call /\ foreign \in SUBSET Path /\ stray \in SUBSET Path
    /\ edits \in 0..MaxEdit

Init ==
    /\ \E dirty \in SUBSET Path :
          files = [p \in Path |-> IF p \in dirty THEN [content |-> "dirty", stamp |-> 0]
                                  ELSE IF p \in Tracked THEN [content |-> "head", stamp |-> 0]
                                  ELSE Missing]
    /\ clock = 1 /\ journal = None
    /\ rt = [FreshRuntime EXCEPT !.up = FALSE]
    /\ call = [c \in Call |-> [at |-> "new", path |-> None, error |-> FALSE]]
    /\ wire = <<>> /\ obs = EmptyObservation
    /\ phase = "create" /\ attempt = 0
    /\ guards = [g \in {"before", "after"} |-> None] /\ result = None
    /\ wrote = {} /\ foreign = {} /\ stray = {} /\ edits = 0

-----------------------------------------------------------------------------
(* The parent prepares *)

\* prepareDelegationChangeSetLifecycleV2, createWorkerWriteJournal.
CreateJournal ==
    /\ phase = "create"
    /\ LET initial == [state |-> "OPEN", revision |-> 0, captures |-> 0, ops |-> <<>>]
       IN \/ journal' = initial /\ phase' = "guard"
          \/ Faults /\ journal' \in {None, initial} /\ phase' = "failed"
    /\ UNCHANGED <<files, clock, worker, obs, attempt, guards, result, history>>

\* The before guard; the worker is launched next.
CollectBeforeGuard ==
    /\ phase = "guard"
    /\ \/ /\ guards' = [guards EXCEPT !["before"] = GuardOf(files)]
          /\ rt' = FreshRuntime /\ attempt' = 1 /\ phase' = "running"
       \/ Faults /\ phase' = "failed" /\ UNCHANGED <<guards, rt, attempt>>
    /\ UNCHANGED <<files, clock, journal, call, wire, obs, result, history>>

-----------------------------------------------------------------------------
(* The bridge in the worker process *)

At(c, l) == call' = [call EXCEPT ![c].at = l]

\* failed(): the bridge is poisoned whether or not the parent hears of it.
Poison(outcome, revision, beginning) ==
    /\ rt' = [rt EXCEPT !.poisoned = TRUE, !.beginning = beginning, !.revision = revision]
    /\ \/ wire' = Append(wire, [phase |-> "failure", outcome |-> outcome, revision |-> revision])
       \/ Faults /\ UNCHANGED wire

\* beginToolCall up to its first await: a poisoned bridge and an unusable id or path
\* fail, a call beside another one is only blocked.
beginToolCall(c, p) ==
    /\ rt.up /\ call[c].at = "new"
    /\ \/ /\ ~rt.poisoned /\ rt.pending = None /\ rt.beginning = None
          /\ call' = [call EXCEPT ![c].at = "begin", ![c].path = p]
          /\ rt' = [rt EXCEPT !.beginning = c]
          /\ UNCHANGED wire
       \/ /\ ~rt.poisoned /\ (rt.pending # None \/ rt.beginning # None)
          /\ At(c, "blocked")
          /\ rt' = [rt EXCEPT !.blocked = @ \union {c}]
          /\ UNCHANGED wire
       \/ At(c, "blocked") /\ Poison(None, rt.revision, rt.beginning)
    /\ UNCHANGED <<files, clock, journal, parent, history>>

\* Mutant: only the content is compared.
MutantChained(p) == OpsOn(journal, p) # {} => LastOn(journal, p).after.content = files[p].content

\* The file may be opened only in the state the last bracket on it left behind.
Chained(p) == OpsOn(journal, p) # {} => LastOn(journal, p).after = files[p]

\* What is left of the capture budget of the whole delegation.
HasBudget == journal.captures < MaxCaptures

\* A capture is paid for and published, whatever it shows.
Counted == [journal EXCEPT !.revision = @ + 1, !.captures = @ + 1]

\* Mutant: a new bracket replaces the earlier ones of its path.
MutantBegun(c) ==
    [Counted EXCEPT !.ops = Append(SelectSeq(@, LAMBDA op : op.path # call[c].path),
                                   [call |-> c, path |-> call[c].path, status |-> "pending",
                                    before |-> files[call[c].path], after |-> None,
                                    outcome |-> None])]

Begun(c) ==
    [Counted EXCEPT !.ops = Append(@, [call |-> c, path |-> call[c].path, status |-> "pending",
                                       before |-> files[call[c].path], after |-> None,
                                       outcome |-> None])]

\* beginWriteJournalOperation and the rest of beginToolCall.
beginWriteJournalOperation(c) ==
    /\ rt.up /\ call[c].at = "begin"
    /\ LET r == journal.revision
           admissible == /\ journal.state = "OPEN" /\ ~IsPending(journal)
                         /\ \A i \in DOMAIN journal.ops : journal.ops[i].call # c
                         /\ Len(journal.ops) < MaxOps
           capturable == admissible /\ HasBudget
       IN \/ \* published and acknowledged
             /\ capturable /\ Chained(call[c].path)
             /\ journal' = Begun(c)
             /\ \/ /\ At(c, "run")
                   /\ wire' = Append(wire, [phase |-> "begin", outcome |-> None, revision |-> r + 1])
                   /\ rt' = [rt EXCEPT !.beginning = None, !.pending = c, !.revision = r + 1]
                \/ /\ Faults /\ At(c, "blocked")
                   /\ rt' = [rt EXCEPT !.beginning = None, !.pending = c, !.revision = r + 1,
                                       !.poisoned = TRUE]
                   /\ UNCHANGED wire
          \/ \* refused before anything was captured
             /\ ~capturable \/ Faults
             /\ At(c, "blocked") /\ UNCHANGED journal
             /\ \/ Poison(None, r, None)
                \/ Faults /\ Poison(None, rt.revision, None)
          \/ \* captured, but not in the expected state: the meter is published
             /\ capturable /\ (~Chained(call[c].path) \/ Faults)
             /\ journal' \in {Counted} \union (IF Faults THEN {journal} ELSE {})
             /\ At(c, "blocked") /\ Poison(None, r, None)
          \/ \* published and reported as failed
             /\ Faults /\ capturable /\ Chained(call[c].path)
             /\ journal' = Begun(c)
             /\ At(c, "blocked") /\ Poison(None, r, None)
    /\ UNCHANGED <<files, clock, parent, history>>

\* The edit or write tool itself runs, and may fail before or after it wrote.
RunTool(c) ==
    /\ rt.up /\ call[c].at = "run"
    /\ LET p == call[c].path
       IN \/ \E new \in Content \ {"missing"}, error \in BOOLEAN :
                /\ files' = [files EXCEPT ![p] = Stamped(new)]
                /\ clock' = clock + 1
                /\ wrote' = wrote \union {c}
                /\ call' = [call EXCEPT ![c].at = "ran", ![c].error = error]
          \/ /\ call' = [call EXCEPT ![c].at = "ran", ![c].error = TRUE]
             /\ UNCHANGED <<files, clock, wrote>>
    /\ UNCHANGED <<journal, rt, wire, parent, foreign, stray, edits>>

\* Mutant: closing a bracket does not count as a revision.
MutantCompleted(c) ==
    [journal EXCEPT !.captures = @ + 1,
                    !.ops[Len(journal.ops)].status = "completed",
                    !.ops[Len(journal.ops)].after = files[call[c].path],
                    !.ops[Len(journal.ops)].outcome = IF call[c].error THEN "failed" ELSE "succeeded"]

Completed(c) ==
    [Counted EXCEPT !.ops[Len(journal.ops)] =
        [@ EXCEPT !.status = "completed", !.after = files[call[c].path],
                  !.outcome = IF call[c].error THEN "failed" ELSE "succeeded"]]

\* completeToolResult, completeWriteJournalOperation.
completeToolResult(c) ==
    /\ rt.up /\ call[c].at = "ran" /\ At(c, "done")
    /\ LET r       == journal.revision
           outcome == IF call[c].error THEN "failed" ELSE "succeeded"
           current == /\ journal.state = "OPEN" /\ IsPending(journal)
                      /\ r = rt.revision /\ journal.ops[Len(journal.ops)].call = c
           usable  == ~rt.poisoned /\ rt.pending = c /\ current
           capturable == usable /\ HasBudget
           told    == IF ~rt.poisoned /\ rt.pending = c THEN outcome ELSE None
       IN \/ /\ capturable /\ journal' = Completed(c)
             /\ \/ /\ wire' = Append(wire, [phase |-> "complete", outcome |-> outcome, revision |-> r + 1])
                   /\ rt' = [rt EXCEPT !.pending = None, !.revision = r + 1]
                \/ /\ Faults /\ UNCHANGED wire
                   /\ rt' = [rt EXCEPT !.pending = None, !.revision = r + 1, !.poisoned = TRUE]
          \/ /\ ~capturable \/ Faults
             /\ Poison(told, rt.revision, rt.beginning) /\ UNCHANGED journal
          \/ /\ Faults /\ capturable /\ journal' \in {Counted, Completed(c)}
             /\ Poison(told, rt.revision, rt.beginning)
    /\ UNCHANGED <<files, clock, parent, history>>

\* completeToolResult for a call the guard had blocked.
BlockedResult(c) ==
    /\ rt.up /\ call[c].at = "blocked" /\ At(c, "done")
    /\ \/ ~rt.poisoned /\ c \in rt.blocked
          /\ rt' = [rt EXCEPT !.blocked = @ \ {c}] /\ UNCHANGED wire
       \/ rt.poisoned /\ Poison(None, rt.revision, rt.beginning)
    /\ UNCHANGED <<files, clock, journal, parent, history>>

\* The worker ends its conversation, or is killed with telemetry unread.
WorkerEnds ==
    /\ rt.up /\ rt' = [rt EXCEPT !.up = FALSE] /\ phase' = "returned"
    /\ \/ /\ \A c \in Call : call[c].at \in {"new", "done"}
          /\ UNCHANGED <<call, wire>>
       \/ /\ \E n \in 0..Len(wire) : wire' = SubSeq(wire, 1, n)
          /\ call' = [c \in Call |-> IF call[c].at \in {"new", "done"} THEN call[c]
                                     ELSE [call[c] EXCEPT !.at = "killed"]]
    /\ UNCHANGED <<files, clock, journal, obs, attempt, guards, result, history>>

\* Somebody else edits, creates or deletes a file of the checkout.  While the worker's
\* bracket of the path is open the edit is not counted: completeWriteJournalOperation
\* captures what it finds, and the edit is in the after identity of the worker.
ExternalEdit(p) ==
    /\ edits < MaxEdit /\ phase \notin {"done", "failed"}
    /\ \E new \in Content :
          files[p] # Stamped(new) /\ files' = [files EXCEPT ![p] = Stamped(new)]
    /\ clock' = clock + 1 /\ edits' = edits + 1
    /\ LET touched == journal # None /\ OpsOn(journal, p) # {}
       IN /\ foreign' = IF ~touched \/ LastOn(journal, p).status = "pending" THEN foreign
                        ELSE IF files'[p] = LastOn(journal, p).after THEN foreign \ {p}
                        ELSE foreign \union {p}
          /\ stray' = IF guards["before"] # None /\ guards["after"] = None /\ ~touched
                      THEN stray \union {p} ELSE stray
    /\ UNCHANGED <<journal, worker, parent, wrote>>

-----------------------------------------------------------------------------
(* The parent observes, hands over and finalizes *)

\* observeWorkerWriteJournalRuntimeEntry: a failure is sticky, a gap is a failure.
observe(o, t) ==
    IF o.state = "failed" THEN o
    ELSE IF t.phase = "failure"
         THEN [state |-> "failed", outcome |-> t.outcome, revision |-> t.revision]
    ELSE IF t.revision = o.revision + 1
            /\ \/ t.phase = "begin" /\ o.state \in {"empty", "complete"}
               \/ t.phase = "complete" /\ o.state = "begun"
         THEN [state |-> IF t.phase = "begin" THEN "begun" ELSE "complete",
               outcome |-> t.outcome, revision |-> t.revision]
    ELSE [state |-> "failed", outcome |-> None, revision |-> o.revision]

Observe ==
    /\ wire # <<>>
    /\ obs' = observe(obs, Head(wire)) /\ wire' = Tail(wire)
    /\ UNCHANGED <<files, clock, journal, rt, call, phase, attempt, guards, result, history>>

\* guardChangesAreJournalBound and the identities of a checkpoint.
CheckpointHolds ==
    /\ journal.state = "OPEN" /\ ~IsPending(journal)
    /\ \A p \in Path \ TouchedPaths(journal) : guards["before"][p] = GuardOf(files)[p]
    /\ \A p \in TouchedPaths(journal) : LastOn(journal, p).after = files[p]

\* buildDurableWorkerCheckpoint and the next turn of the attempt loop.
HandOver ==
    /\ phase = "returned" /\ wire = <<>> /\ attempt < MaxAttempt
    /\ \/ CheckpointHolds /\ rt' = FreshRuntime /\ attempt' = attempt + 1 /\ phase' = "running"
       \/ (~CheckpointHolds \/ Faults) /\ phase' = "failed" /\ UNCHANGED <<rt, attempt>>
    /\ UNCHANGED <<files, clock, journal, call, wire, obs, guards, result, history>>

observationMatchesJournal ==
    IF journal.ops = <<>> THEN obs = EmptyObservation /\ journal.revision = 0
    ELSE /\ obs.state = "complete" /\ obs.revision = journal.revision
         /\ obs.outcome = journal.ops[Len(journal.ops)].outcome

\* finalizeDelegationChangeSetLifecycleV2 up to the seal.
CheckObservation ==
    /\ phase = "returned" /\ wire = <<>>
    /\ \/ /\ journal.state = "OPEN" /\ ~IsPending(journal) /\ observationMatchesJournal
          /\ phase' = "seal"
       \/ /\ ~(journal.state = "OPEN" /\ ~IsPending(journal) /\ observationMatchesJournal) \/ Faults
          /\ phase' = "failed"
    /\ UNCHANGED <<files, clock, journal, worker, obs, attempt, guards, result, history>>

\* sealWorkerWriteJournal.
Sealed == [journal EXCEPT !.state = "SEALED", !.revision = @ + 1]
SealJournal ==
    /\ phase = "seal" /\ ~IsPending(journal)
    /\ \/ journal' = Sealed /\ phase' = "after"
       \/ Faults /\ journal' \in {journal, Sealed} /\ phase' = "failed"
    /\ UNCHANGED <<files, clock, worker, obs, attempt, guards, result, history>>

CollectAfterGuard ==
    /\ phase = "after"
    /\ \/ guards' = [guards EXCEPT !["after"] = GuardOf(files)] /\ phase' = "compute"
       \/ Faults /\ phase' = "failed" /\ UNCHANGED guards
    /\ UNCHANGED <<files, clock, journal, worker, obs, attempt, result, history>>

\* Mutant: the guard of the start is not compared with the first bracket.
MutantConflicts ==
    {p \in TouchedPaths(journal) :
        \/ files[p] # LastOn(journal, p).after
        \/ guards["after"][p] \notin {Clean, files[p]}}

\* A touched path that is not where the worker left it, or did not start where the
\* guard saw it.
Conflicts ==
    {p \in TouchedPaths(journal) :
        \/ files[p] # LastOn(journal, p).after
        \/ guards["before"][p] \notin {Clean, FirstOn(journal, p).before}
        \/ guards["after"][p] \notin {Clean, files[p]}}

Drift == {p \in Path \ TouchedPaths(journal) : guards["before"][p] # guards["after"][p]}

Delta == {p \in TouchedPaths(journal) : FirstOn(journal, p).before.content # files[p].content}

\* finalizeChangeSetV2 captures the touched files, computeChangeSet judges them.
computeChangeSet ==
    /\ phase = "compute"
    /\ \/ /\ result' = [status |-> IF Conflicts # {} THEN "CONFLICT"
                                   ELSE IF Drift # {} THEN "WORKSPACE_DRIFT" ELSE "ATTRIBUTED",
                        delta |-> IF Conflicts = {} THEN Delta ELSE {},
                        conflicts |-> Conflicts, drift |-> Drift]
          /\ phase' = "done"
       \/ Faults /\ phase' = "failed" /\ UNCHANGED result
    /\ UNCHANGED <<files, clock, journal, worker, obs, attempt, guards, history>>

Finished == phase \in {"done", "failed"} /\ UNCHANGED vars

Next ==
    \/ CreateJournal \/ CollectBeforeGuard \/ WorkerEnds \/ Observe \/ HandOver
    \/ CheckObservation \/ SealJournal \/ CollectAfterGuard \/ computeChangeSet \/ Finished
    \/ \E c \in Call : \/ beginWriteJournalOperation(c) \/ RunTool(c) \/ completeToolResult(c)
                       \/ BlockedResult(c)
                       \/ \E p \in Path : beginToolCall(c, p)
    \/ \E p \in Path : ExternalEdit(p)

Spec == Init /\ [][Next]_vars

-----------------------------------------------------------------------------
(* Properties *)

\* Write-ahead: whatever a tool of the worker changed, the journal has an operation for
\* it, and once the parent has sealed the journal every one of these is closed, for a
\* worker that was killed, poisoned or replaced as well.
EveryWriteIsJournaled ==
    /\ \A c \in wrote : \E i \in DOMAIN journal.ops :
          journal.ops[i].call = c /\ journal.ops[i].path = call[c].path
    /\ phase \in {"after", "compute", "done"} =>
          \A c \in wrote : call[c].at = "done"

\* An edit somebody else makes outside the worker's brackets is told from the worker's.
\* On a journaled path, between two brackets or after the last one, it makes the change
\* set a conflict, unless it is undone without a trace (a created file that is deleted
\* again); before the worker reaches the path it leaves ATTRIBUTED only if the path
\* started clean, if the worker found it as the guard of the start had seen it, or if it
\* was missing at the start and at the end and the worker never reached it.  An edit made
\* while a bracket of the path is open passes as the worker's: nothing is said of it.
ForeignEditConflicts ==
    result # None =>
        /\ foreign # {} => result.status = "CONFLICT"
        /\ result.status = "ATTRIBUTED" =>
              \A p \in stray : \/ guards["before"][p] = Clean
                               \/ /\ p \in TouchedPaths(journal)
                                  /\ FirstOn(journal, p).before = guards["before"][p]
                               \/ /\ p \notin TouchedPaths(journal)
                                  /\ guards["before"][p] = Missing

\* The brackets of a path form one chain of identities, and only the last may be open.
ChainIsUnbroken ==
    journal # None =>
        \A i, k \in DOMAIN journal.ops :
            i < k => /\ journal.ops[i].status = "completed"
                     /\ (journal.ops[i].path = journal.ops[k].path
                         /\ \A m \in (i + 1)..(k - 1) : journal.ops[m].path # journal.ops[i].path)
                            => journal.ops[k].before = journal.ops[i].after

\* A step closes at most the last operation, appends at most one, never rewrites a closed
\* one, and leaves a sealed journal as it is.
JournalGrows ==
    [][journal # None =>
        /\ journal.state = "SEALED" => journal' = journal
        /\ Len(journal'.ops) \in {Len(journal.ops), Len(journal.ops) + 1}
        /\ \A i \in DOMAIN journal.ops :
              /\ journal.ops[i].status = "completed" => journal'.ops[i] = journal.ops[i]
              /\ journal'.ops[i].before = journal.ops[i].before
        /\ journal'.ops # journal.ops => journal'.revision = journal.revision + 1]_vars

-----------------------------------------------------------------------------
(* The inductive invariant *)

LastOp == journal.ops[Len(journal.ops)]

\* What each phase of the parent may rely on.
Phases ==
    /\ rt.up <=> phase = "running"
    /\ phase = "create" => journal = None
    /\ phase \in {"create", "guard"} => guards["before"] = None
    /\ phase \in {"guard", "running", "returned", "seal"} =>
          journal # None /\ journal.state = "OPEN"
    /\ phase \in {"after", "compute", "done"} =>
          journal # None /\ journal.state = "SEALED" /\ ~IsPending(journal)
    /\ phase \notin {"create", "guard", "failed"} => guards["before"] # None
    /\ phase \in {"compute", "done"} => guards["after"] # None
    /\ result # None => phase = "done"

\* One tool call at a time is between its first await and its result.
OneCall ==
    \A c \in Call :
        /\ call[c].at = "begin" => rt.up /\ rt.beginning = c /\ rt.pending = None
        /\ call[c].at \in {"run", "ran"} => rt.up /\ rt.pending = c /\ rt.beginning = None
        /\ call[c].at \in {"begin", "run", "ran"} => call[c].path \in Path

\* Its bracket is the open one at the end of the journal; if the call was killed after it
\* wrote, the bracket stays open for good.
BracketIsOpen ==
    \A c \in Call :
        call[c].at \in {"run", "ran"} \/ (call[c].at = "killed" /\ c \in wrote) =>
            /\ journal # None /\ IsPending(journal)
            /\ LastOp.call = c /\ LastOp.path = call[c].path

WritersHaveOps ==
    \A c \in wrote :
        /\ call[c].at \in {"ran", "done", "killed"}
        /\ journal # None
        /\ \E i \in DOMAIN journal.ops :
              journal.ops[i].call = c /\ journal.ops[i].path = call[c].path

\* A foreign edit shows as long as nothing has happened to the path since.
ForeignShows ==
    \A p \in foreign :
        /\ journal # None /\ OpsOn(journal, p) # {}
        /\ LastOn(journal, p).status = "completed"
        /\ LastOn(journal, p).after # files[p]

\* Every write leaves a stamp no earlier guard can have seen.
StampsAreOld ==
    /\ \A p \in Path : files[p].stamp < clock
    /\ guards["before"] # None =>
          \A p \in Path : guards["before"][p] # Clean => guards["before"][p].stamp < clock

StrayShows ==
    \A p \in stray :
        /\ guards["before"] # None
        /\ guards["before"][p] \notin {Clean, Missing} =>
              /\ files[p] # guards["before"][p]
              /\ guards["after"] # None => guards["after"][p] # guards["before"][p]

IInv ==
    /\ TypeOK /\ Phases /\ OneCall /\ BracketIsOpen /\ WritersHaveOps
    /\ ForeignShows /\ StampsAreOld /\ StrayShows
    /\ ChainIsUnbroken /\ ForeignEditConflicts

=============================================================================
