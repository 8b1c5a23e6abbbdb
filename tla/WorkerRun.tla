----------------------------- MODULE WorkerRun -----------------------------
(***************************************************************************)
(* The worker attempts of one delegation: the child process of             *)
(* worker/runner.ts with the budget steering of                            *)
(* core/message-end-controller.ts, the runner that folds its event stream  *)
(* and terminates it, and the loop of core/delegation-execution-v2.ts that *)
(* checkpoints an attempt and hands over to a fresh worker.                *)
(*                                                                         *)
(* The stream is a bounded pipe of whole lines; a line that makes it       *)
(* invalid is an oversized record or a conflicting request.  Spend is      *)
(* counted in turns; its token dimensions may reach the soft limit with    *)
(* any message, and the hard one as a message that is too large.  The      *)
(* checkout is what the journal says of it: completed operations, an open  *)
(* bracket, and changes outside the journal.                               *)
(***************************************************************************)
EXTENDS Integers, Sequences

CONSTANTS
    None,        \* absent
    SoftTurns,   \* WORKER_SPEND_LIMITS soft
    HardTurns,   \* WORKER_SPEND_LIMITS hard
    MaxTurns,    \* bound: messages of the attempts that count
    MaxPipe,     \* bound: lines in the pipe
    MaxWork,     \* bound: journaled operations
    MaxAttempt,  \* bound: attempts
    MaxFault,    \* bound: failing file operations, and lines that stop a child
    MaxResume    \* bound: resumptions from a checkpoint

ASSUME WorkerRunAssumption ==
    /\ {SoftTurns, HardTurns, MaxTurns, MaxPipe, MaxWork, MaxAttempt} \subseteq Nat \ {0}
    /\ MaxFault \in Nat /\ MaxResume \in Nat
    /\ SoftTurns <= HardTurns
    /\ None \notin [attempt : Nat, done : Nat, turns : Nat]

VARIABLES
    phase,    \* where the execution is
    attempt,  \* number of the attempt
    child,    \* the child process and its group
    pipe,     \* lines written by the child and not yet read
    runner,   \* terminating, streamInvalid, and whether exit was seen
    result,   \* WorkerRunResult of the attempt
    signal,   \* the abort signal of the tool call
    journal,  \* completed operations, an open bracket, changes outside the journal
    spent,    \* turns of all attempts, the resumed checkpoint's included
    cp,       \* the durable worker checkpoint
    log,      \* history: turns of every attempt, and whether it drifted
    outcome,  \* what the execution makes of the last attempt
    budget    \* faults and resumptions left

vars == <<phase, attempt, child, pipe, runner, result, signal, journal, spent, cp, log,
          outcome, budget>>

\* An assistant message: how it stops, whether it has text, whether its context is in the
\* hard band, and whether another model answered.  "error" is also "aborted"; "other" is
\* "stop", "length" (cut off by the token limit) or any reason the code does not name;
\* "missing" is a message that does not say.
\* A message without text leaves the text of an earlier one, which is then the answer.
Plain == [stop |-> "toolUse", text |-> TRUE, large |-> FALSE, drift |-> FALSE]
Messages == {Plain, [Plain EXCEPT !.stop = "missing"],
             [Plain EXCEPT !.stop = "other", !.text = FALSE],
             [Plain EXCEPT !.stop = "error", !.text = FALSE],
             [Plain EXCEPT !.large = TRUE], [Plain EXCEPT !.drift = TRUE]}

Line == [kind : {"message"}, m : Messages]
        \union [kind : {"request", "compaction", "invalid"}]

Quality == {"CONTEXT_HARD_LIMIT", "SPEND_LIMIT"}
Codes == Quality \union
    {"COMPACTION_REJECTED", "MODEL_IDENTITY_MISMATCH", "ABORTED", "TIMED_OUT",
     "EXIT_CODE_NONZERO", "STOP_REASON_FAILURE", "FINAL_OUTPUT_MISSING",
     "PROVIDER_RESPONSE_UNVERIFIED"}

Child == [up : BOOLEAN, kids : {"none", "quiet", "holding"}, turns : Nat,
          steered : BOOLEAN, requested : BOOLEAN, code : {0, 1}]
WorkerRunResult ==
    [turns : Nat, compacted : BOOLEAN, large : BOOLEAN, drift : BOOLEAN,
     model : {"none", "pinned", "other"}, aborted : BOOLEAN, timedOut : BOOLEAN,
     request : BOOLEAN, stop : {"none", "toolUse", "other", "error"}, text : BOOLEAN]
Runner == [terminating : BOOLEAN, invalid : BOOLEAN, exited : BOOLEAN]
Journal == [done : 0..MaxWork, open : BOOLEAN, stray : BOOLEAN]
WorkerCheckpoint == [attempt : 1..MaxAttempt, done : 0..MaxWork, turns : Nat]

TypeOK ==
    /\ phase \in {"spawn", "run", "settled", "checkpoint", "recheck", "done", "recovery"}
    /\ attempt \in 1..(MaxAttempt + 1)
    /\ child \in Child /\ runner \in Runner /\ result \in WorkerRunResult
    /\ pipe \in Seq(Line) /\ Len(pipe) <= MaxPipe
    /\ signal \in BOOLEAN
    /\ journal \in Journal
    /\ spent \in Nat
    /\ cp \in WorkerCheckpoint \union {None}
    /\ log \in Seq([turns : Nat, drift : BOOLEAN])
    /\ outcome \in Codes \union {"none", "success"}
    /\ budget \in [fault : 0..MaxFault, resume : 0..MaxResume]

----------------------------------------------------------------------------
(* The child process *)

NoChild == [up |-> FALSE, kids |-> "none", turns |-> 0, steered |-> FALSE,
            requested |-> FALSE, code |-> 1]

Fresh == [terminating |-> FALSE, invalid |-> FALSE, exited |-> FALSE]

NoResult == [turns |-> 0, compacted |-> FALSE, large |-> FALSE, drift |-> FALSE,
             model |-> "none", aborted |-> FALSE, timedOut |-> FALSE, request |-> FALSE,
             stop |-> "none", text |-> FALSE]

Init ==
    /\ phase = "spawn"
    /\ attempt = 1
    /\ child = NoChild
    /\ pipe = << >>
    /\ runner = Fresh
    /\ result = NoResult
    /\ signal = FALSE
    /\ journal = [done |-> 0, open |-> FALSE, stray |-> FALSE]
    /\ spent = 0
    /\ cp = None
    /\ log = << >>
    /\ outcome = "none"
    /\ budget = [fault |-> MaxFault, resume |-> MaxResume]

exec == <<phase, attempt, spent, cp, log, outcome, budget>>

\* The message_end handler of the child: one steer when the spend reaches the soft band,
\* by its turns or, with any message, by its tokens,
\* and one checkpoint request with a terminal message that came after the steer.
Message ==
    /\ child.up
    /\ spent + child.turns < MaxTurns
    /\ \E m \in Messages, soft \in BOOLEAN :
        LET requests == child.steered /\ ~child.requested /\ m.stop \notin {"toolUse", "missing"}
            lines == <<[kind |-> "message", m |-> m]>>
                     \o (IF requests THEN <<[kind |-> "request"]>> ELSE << >>)
        IN  /\ child.turns + 1 >= SoftTurns \/ child.steered => soft
            /\ Len(pipe \o lines) <= MaxPipe
            /\ pipe' = pipe \o lines
            /\ child' = [child EXCEPT !.turns = @ + 1,
                                      !.steered = @ \/ soft,
                                      !.requested = @ \/ requests]
    /\ UNCHANGED <<exec, runner, result, signal, journal>>

\* A compaction that was not cancelled in the child, or a line that breaks the stream.
BadLine ==
    /\ child.up
    /\ Len(pipe) < MaxPipe
    /\ budget.fault > 0
    /\ budget' = [budget EXCEPT !.fault = @ - 1]
    /\ \E k \in {"compaction", "invalid"} : pipe' = Append(pipe, [kind |-> k])
    /\ UNCHANGED <<phase, attempt, spent, cp, log, outcome, child, runner, result, signal,
                   journal>>

\* The bridge brackets every edit.
BeginWrite ==
    /\ child.up /\ ~journal.open
    /\ journal.done < MaxWork
    /\ journal' = [journal EXCEPT !.open = TRUE]
    /\ UNCHANGED <<exec, child, pipe, runner, result, signal>>

CompleteWrite ==
    /\ child.up /\ journal.open
    /\ journal' = [journal EXCEPT !.open = FALSE, !.done = @ + 1]
    /\ UNCHANGED <<exec, child, pipe, runner, result, signal>>

\* A command leaves a descendant in the group, with or without the pipe open; it may
\* write, and it may end.
Descendant ==
    /\ \/ child.up /\ child.kids = "none"
          /\ \E k \in {"quiet", "holding"} : child' = [child EXCEPT !.kids = k]
          /\ UNCHANGED journal
       \/ child.kids # "none"
          /\ child' = [child EXCEPT !.kids = "none"]
          /\ UNCHANGED journal
       \/ child.kids # "none"
          /\ journal' = [journal EXCEPT !.stray = TRUE]
          /\ UNCHANGED child
    /\ UNCHANGED <<exec, pipe, runner, result, signal>>

\* The child ends by itself or on SIGTERM, with any exit code; its memory is gone.
ChildEnds ==
    /\ child.up
    /\ \E code \in {0, 1} : child' = [NoChild EXCEPT !.kids = child.kids, !.code = code]
    /\ UNCHANGED <<exec, pipe, runner, result, signal, journal>>

----------------------------------------------------------------------------
(* runPinnedWorker *)

\* terminate: the reason is recorded, SIGTERM is sent and the kill timer started.  What
\* the child makes of SIGTERM is its own.
Terminated(r) == /\ result' = r
                 /\ runner' = [runner EXCEPT !.terminating = TRUE]

\* The child is spawned; a signal that is aborted already terminates it at once.
Spawn ==
    /\ phase = "spawn"
    /\ attempt <= MaxAttempt
    /\ phase' = "run"
    /\ child' = [NoChild EXCEPT !.up = TRUE]
    /\ pipe' = << >>
    /\ runner' = [Fresh EXCEPT !.terminating = signal]
    /\ result' = [NoResult EXCEPT !.aborted = signal]
    /\ UNCHANGED <<attempt, signal, journal, spent, cp, log, outcome, budget>>

\* A preflight check fails or the child cannot be started: nothing answered.
SpawnFails ==
    /\ phase = "spawn"
    /\ budget.fault > 0
    /\ budget' = [budget EXCEPT !.fault = @ - 1]
    /\ phase' = "recovery"
    /\ UNCHANGED <<attempt, child, pipe, runner, result, signal, journal, spent, cp, log,
                   outcome>>

\* processLine for an assistant message; one that does not say how it stopped leaves what
\* an earlier one said.
Observed(m) ==
    [result EXCEPT !.turns = @ + 1, !.large = @ \/ m.large, !.drift = @ \/ m.drift,
                   !.model = IF m.drift THEN "other" ELSE "pinned",
                   !.stop = IF m.stop = "missing" THEN @ ELSE m.stop,
                   !.text = @ \/ m.text]

\* The next line of the stream; nothing is read after it became invalid.
Deliver ==
    /\ phase = "run"
    /\ pipe # << >>
    /\ pipe' = Tail(pipe)
    /\ LET line == Head(pipe) IN
        \/ /\ runner.invalid
           /\ UNCHANGED <<runner, result>>
        \/ /\ ~runner.invalid /\ line.kind = "message"
           /\ LET r == Observed(line.m) IN
               IF line.m.large \/ line.m.drift \/ r.turns >= HardTurns
               THEN Terminated(r)
               ELSE result' = r /\ UNCHANGED runner
        \/ /\ ~runner.invalid /\ line.kind = "request"
           /\ result' = [result EXCEPT !.request = TRUE]
           /\ UNCHANGED runner
        \/ /\ ~runner.invalid /\ line.kind = "compaction"
           /\ Terminated([result EXCEPT !.compacted = TRUE])
        \/ /\ ~runner.invalid /\ line.kind = "invalid"
           /\ result' = result
           /\ runner' = [runner EXCEPT !.terminating = TRUE, !.invalid = TRUE]
    /\ UNCHANGED <<exec, child, signal, journal>>

\* The timeout of the attempt.
Timeout ==
    /\ phase = "run" /\ ~result.timedOut
    /\ Terminated([result EXCEPT !.timedOut = TRUE])
    /\ UNCHANGED <<exec, child, pipe, signal, journal>>

\* The user aborts the tool call.
Abort ==
    /\ ~signal /\ phase \notin {"done", "recovery"}
    /\ signal' = TRUE
    /\ IF phase = "run" THEN Terminated([result EXCEPT !.aborted = TRUE])
                        ELSE UNCHANGED <<result, runner>>
    /\ UNCHANGED <<exec, child, pipe, journal>>

\* Mutant: the last signal is gated on the leader's exit code.
MutantKillTimer ==
    /\ phase = "run" /\ runner.terminating
    /\ child.up /\ runner.exited
    /\ child' = [NoChild EXCEPT !.code = 1]
    /\ UNCHANGED <<exec, pipe, runner, result, signal, journal>>

\* The kill timer: SIGKILL to the group, whether or not the leader has exited.
KillTimer ==
    /\ phase = "run" /\ runner.terminating
    /\ child.up \/ child.kids # "none"
    /\ child' = [NoChild EXCEPT !.code = IF child.up THEN 1 ELSE child.code]
    /\ UNCHANGED <<exec, pipe, runner, result, signal, journal>>

\* Mutant: descendants are left alone when the child exits.
MutantExit ==
    /\ phase = "run" /\ ~child.up /\ ~runner.exited
    /\ runner' = [runner EXCEPT !.exited = TRUE]
    /\ UNCHANGED <<exec, child, pipe, result, signal, journal>>

\* The exit event: the rest of the group is killed.
Exit ==
    /\ phase = "run" /\ ~child.up /\ ~runner.exited
    /\ runner' = [runner EXCEPT !.exited = TRUE]
    /\ child' = [child EXCEPT !.kids = "none"]
    /\ UNCHANGED <<exec, pipe, result, signal, journal>>

\* The close event: the pipe is closed and read to its end, and the runner's variables
\* are gone but for the result.
Close ==
    /\ phase = "run" /\ runner.exited
    /\ child.kids # "holding"
    /\ pipe = << >>
    /\ phase' = "settled"
    /\ runner' = Fresh
    /\ UNCHANGED <<attempt, child, pipe, result, signal, journal, spent, cp, log,
                   outcome, budget>>

----------------------------------------------------------------------------
(* The attempts of executeDelegationV2 *)

\* Mutant: a message of another model is judged by the last one alone.
MutantWorkerRunFailure(r, code) ==
    IF r.compacted THEN "COMPACTION_REJECTED"
    ELSE IF r.large THEN "CONTEXT_HARD_LIMIT"
    ELSE IF r.turns >= HardTurns THEN "SPEND_LIMIT"
    ELSE IF r.aborted THEN "ABORTED"
    ELSE IF r.timedOut THEN "TIMED_OUT"
    ELSE IF code # 0 THEN "EXIT_CODE_NONZERO"
    ELSE IF r.stop = "error" THEN "STOP_REASON_FAILURE"
    ELSE IF r.stop = "toolUse" THEN "FINAL_OUTPUT_MISSING"
    ELSE IF r.model # "pinned" THEN "PROVIDER_RESPONSE_UNVERIFIED"
    ELSE IF ~r.text THEN "FINAL_OUTPUT_MISSING"
    ELSE "success"

\* workerRunFailure: the first condition that holds names the failure.
workerRunFailure(r, code) ==
    IF r.compacted THEN "COMPACTION_REJECTED"
    ELSE IF r.large THEN "CONTEXT_HARD_LIMIT"
    ELSE IF r.turns >= HardTurns THEN "SPEND_LIMIT"
    ELSE IF r.drift THEN "MODEL_IDENTITY_MISMATCH"
    ELSE IF r.aborted THEN "ABORTED"
    ELSE IF r.timedOut THEN "TIMED_OUT"
    ELSE IF code # 0 THEN "EXIT_CODE_NONZERO"
    ELSE IF r.stop = "error" THEN "STOP_REASON_FAILURE"
    ELSE IF r.stop = "toolUse" THEN "FINAL_OUTPUT_MISSING"
    ELSE IF r.model # "pinned" THEN "PROVIDER_RESPONSE_UNVERIFIED"
    ELSE IF ~r.text THEN "FINAL_OUTPUT_MISSING"
    ELSE "success"

\* fixedWorkerIdentity, aggregateWorkerAttempts and the decision to hand over: on a
\* checkpoint request or at a quality boundary, unless something else failed as well.
Evaluate ==
    /\ phase = "settled"
    /\ LET code == workerRunFailure(result, child.code)
           handsOver == result.request \/ code \in Quality
       IN  /\ result' = IF result.model = "pinned" /\ ~handsOver THEN result ELSE NoResult
           /\ phase' = IF result.model # "pinned" THEN "recovery"
                       ELSE IF ~handsOver THEN "done"
                       ELSE IF code \in Quality \union {"success"} THEN "checkpoint"
                       ELSE "recovery"
           /\ outcome' = IF result.model = "pinned" /\ ~handsOver THEN code ELSE outcome
    /\ spent' = spent + result.turns
    /\ log' = Append(log, [turns |-> result.turns, drift |-> result.drift])
    /\ child' = [child EXCEPT !.code = NoChild.code]
    /\ UNCHANGED <<attempt, pipe, runner, signal, journal, cp, budget>>

\* workerCheckpointCanAdvanceV1
CanAdvance(next) == IF cp = None THEN next.attempt = 1
                    ELSE next.attempt = cp.attempt + 1 /\ next.turns >= cp.turns

\* Mutant: the journal's open bracket is not looked at.
MutantJournalIsComplete == ~journal.stray

\* The journal is complete, and the checkout changed only where it says so.
JournalIsComplete == ~journal.open /\ ~journal.stray

\* buildDurableWorkerCheckpoint: the publication may fail before or after it took effect.
Checkpoint ==
    /\ phase = "checkpoint"
    /\ LET next == [attempt |-> attempt, done |-> journal.done, turns |-> spent] IN
        \/ /\ JournalIsComplete /\ CanAdvance(next)
           /\ cp' = next
           /\ phase' = "recheck"
           /\ UNCHANGED budget
        \/ /\ ~(JournalIsComplete /\ CanAdvance(next))
           /\ phase' = "recovery"
           /\ UNCHANGED <<cp, budget>>
        \/ /\ budget.fault > 0
           /\ budget' = [budget EXCEPT !.fault = @ - 1]
           /\ cp' \in {cp} \union (IF JournalIsComplete /\ CanAdvance(next)
                                   THEN {next} ELSE {})
           /\ phase' = "recovery"
    /\ UNCHANGED <<attempt, child, pipe, runner, result, signal, journal, spent, log,
                   outcome>>

\* validateWorkerCheckpointContinuationV1 on a second guard, and the next attempt.
HandOver ==
    /\ phase = "recheck"
    /\ \/ /\ cp.done = journal.done /\ ~journal.stray
          /\ attempt' = attempt + 1
          /\ phase' = "spawn"
          /\ UNCHANGED budget
       \/ /\ budget.fault > 0
          /\ budget' = [budget EXCEPT !.fault = @ - 1]
          /\ phase' = "recovery"
          /\ UNCHANGED attempt
    /\ UNCHANGED <<child, pipe, runner, result, signal, journal, spent, cp, log, outcome>>

\* Mutant: the attempts of the earlier execution are not counted.
MutantResume ==
    /\ phase = "recovery"
    /\ cp # None /\ ~journal.open /\ journal.done > 0
    /\ budget.resume > 0
    /\ budget' = [budget EXCEPT !.resume = @ - 1]
    /\ attempt' = cp.attempt + 1
    /\ spent' = 0
    /\ log' = SubSeq(log, 1, cp.attempt)
    /\ signal' = FALSE
    /\ phase' = "spawn"
    /\ UNCHANGED <<child, pipe, runner, result, journal, cp, outcome>>

\* A resumption of the RECOVERY_REQUIRED record goes on after its checkpoint, under a
\* tool call of its own.
Resume ==
    /\ phase = "recovery"
    /\ cp # None /\ ~journal.open /\ journal.done > 0
    /\ budget.resume > 0
    /\ budget' = [budget EXCEPT !.resume = @ - 1]
    /\ attempt' = cp.attempt + 1
    /\ spent' = cp.turns
    /\ log' = SubSeq(log, 1, cp.attempt)
    /\ signal' = FALSE
    /\ phase' = "spawn"
    /\ UNCHANGED <<child, pipe, runner, result, journal, cp, outcome>>

RunnerStep == Deliver \/ Timeout \/ KillTimer \/ Exit \/ Close

Next ==
    \/ Message \/ BadLine \/ BeginWrite \/ CompleteWrite \/ Descendant \/ ChildEnds
    \/ Spawn \/ SpawnFails \/ RunnerStep \/ Abort
    \/ Evaluate \/ Checkpoint \/ HandOver \/ Resume

Spec == Init /\ [][Next]_vars

\* Timers fire and events are delivered; nothing is assumed of the child.
FairSpec ==
    Spec /\ WF_vars(Deliver) /\ WF_vars(Timeout) /\ WF_vars(KillTimer) /\ WF_vars(Exit)
         /\ WF_vars(Close)

----------------------------------------------------------------------------
(* Properties *)

\* Once an attempt has settled none of its processes is left to write: the parent reads
\* the journal and the checkout, and starts the next worker, only then.
SettledIsQuiet == phase # "run" => ~child.up /\ child.kids = "none"

\* An automatic continuation starts from a checkout that is exactly what its checkpoint
\* says: every operation is in it, none is half done, nothing else has changed.
ContinuationIsBound ==
    phase = "recheck" => /\ cp.attempt = attempt /\ cp.done = journal.done
                         /\ ~journal.open /\ ~journal.stray

\* The turns of the first n entries add up to total: their running totals lead from 0 to it.
AddsUp(entries, n, total) ==
    \E sum \in [0..n -> 0..total] :
        /\ sum[0] = 0 /\ sum[n] = total
        /\ \A i \in 1..n : sum[i] = sum[i - 1] + entries[i].turns

\* The cumulative turns of a checkpoint are those of its attempts, each counted once,
\* over hand-overs, failing publications and resumptions.
SpendIsCountedOnce == cp # None => AddsUp(log, cp.attempt, cp.turns)

\* An attempt taken for a success saw no compaction, no hard limit and no other model in
\* any message, was neither aborted, timed out nor to be continued from a checkpoint, and
\* the last message that says how it stopped is no tool use and no error.  It need not be
\* a complete answer: one that was cut off by the token limit is a success as well.
SuccessIsClean ==
    outcome = "success" =>
        /\ ~result.compacted /\ ~result.large /\ result.turns < HardTurns
        /\ ~log[Len(log)].drift /\ ~result.aborted /\ ~result.timedOut
        /\ ~result.request /\ result.stop \notin {"toolUse", "error"}

\* Every attempt settles, even when its child neither ends nor heeds SIGTERM.
AttemptSettles == phase = "run" ~> phase # "run"

----------------------------------------------------------------------------
(* The inductive invariant *)

\* The exit event has killed the rest of the group, and no one is left to start another.
ExitedIsQuiet == runner.exited => ~child.up /\ child.kids = "none"

\* The log has one entry per attempt that was evaluated, those of the checkpoint included.
LogIsAligned ==
    /\ phase \in {"spawn", "run", "settled"} => Len(log) = attempt - 1
    /\ phase \in {"checkpoint", "recheck", "done"} => Len(log) = attempt
    /\ phase \notin {"spawn", "recovery"} => attempt <= MaxAttempt
    /\ cp # None => cp.attempt <= Len(log)

\* A recheck has a checkpoint.
RecheckHasCheckpoint == phase = "recheck" => cp # None

\* Only an execution that is done has an outcome.
OutcomeIsFinal == outcome # "none" => phase = "done"

\* The bound on the operations was checked when the bracket was opened.
OpenHasRoom == journal.open => journal.done < MaxWork

IInv ==
    /\ TypeOK /\ OpenHasRoom /\ ExitedIsQuiet /\ LogIsAligned /\ RecheckHasCheckpoint /\ OutcomeIsFinal
    /\ SettledIsQuiet /\ ContinuationIsBound /\ SuccessIsClean

\* What was spent is the sum of the whole log, and what a checkpoint holds is the sum of
\* the part it stands for: a resumption cuts the one back to the other.
LedgerIsExact == AddsUp(log, Len(log), spent) /\ SpendIsCountedOnce
=============================================================================
