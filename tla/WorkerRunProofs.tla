-------------------------- MODULE WorkerRunProofs --------------------------
(***************************************************************************)
(* The attempts of a delegation for every limit, any number of attempts,   *)
(* faults and resumptions, and a pipe of any length.                       *)
(***************************************************************************)
EXTENDS WorkerRun, SequenceTheorems, TLAPS

-----------------------------------------------------------------------------
(* The shapes the model is built from *)

LEMMA Bounds ==
    /\ MaxAttempt \in Nat \ {0} /\ MaxPipe \in Nat \ {0} /\ MaxWork \in Nat \ {0}
    /\ MaxFault \in Nat /\ MaxResume \in Nat
BY WorkerRunAssumption

MessageShape ==
    [stop : {"toolUse", "other", "error", "missing"}, text : BOOLEAN, large : BOOLEAN, drift : BOOLEAN]

LEMMA MessagesTyped == Messages \subseteq MessageShape
<1>1. Plain \in MessageShape
    BY DEF Plain, MessageShape
<1>2. /\ [Plain EXCEPT !.stop = "missing"] \in MessageShape
      /\ [Plain EXCEPT !.stop = "other", !.text = FALSE] \in MessageShape
      /\ [Plain EXCEPT !.stop = "error", !.text = FALSE] \in MessageShape
      /\ [Plain EXCEPT !.large = TRUE] \in MessageShape
      /\ [Plain EXCEPT !.drift = TRUE] \in MessageShape
    BY <1>1 DEF MessageShape
<1> QED BY <1>1, <1>2 DEF Messages

\* What the stream may hold: a message, or a line that has nothing but its kind.
LEMMA LinesTyped ==
    \A l \in Line : /\ l.kind = "message" => l.m \in Messages
                    /\ l.kind \in {"message", "request", "compaction", "invalid"}
BY DEF Line

LEMMA BlanksTyped == NoChild \in Child /\ NoResult \in WorkerRunResult /\ Fresh \in Runner
BY DEF NoChild, Child, NoResult, WorkerRunResult, Fresh, Runner

BudgetShape == [fault : 0..MaxFault, resume : 0..MaxResume]

LEMMA BudgetsSpent ==
    ASSUME NEW b \in BudgetShape
    PROVE  /\ b.fault > 0 => [b EXCEPT !.fault = @ - 1] \in BudgetShape
           /\ b.resume > 0 => [b EXCEPT !.resume = @ - 1] \in BudgetShape
<1>1. b.fault > 0 => b.fault - 1 \in 0..MaxFault
    BY Bounds DEF BudgetShape
<1>2. b.resume > 0 => b.resume - 1 \in 0..MaxResume
    BY Bounds DEF BudgetShape
<1> QED BY <1>1, <1>2 DEF BudgetShape

\* A log holds the attempts of the checkpoint and perhaps more.
LEMMA LogBounds ==
    ASSUME TypeOK
    PROVE  Len(log) \in Nat /\ (cp # None => cp.attempt \in 1..MaxAttempt)
BY LenProperties DEF TypeOK, WorkerCheckpoint

LEMMA InitIInv == Init => IInv
<1> SUFFICES ASSUME Init PROVE IInv
    OBVIOUS
<1>1. TypeOK
    <2>1. pipe \in Seq(Line) /\ Len(pipe) <= MaxPipe /\ log \in Seq([turns : Nat, drift : BOOLEAN])
        BY Bounds, EmptySeq DEF Init
    <2>2. NoChild \in Child /\ NoResult \in WorkerRunResult /\ Fresh \in Runner
        BY BlanksTyped
    <2>3. journal \in Journal /\ budget \in [fault : 0..MaxFault, resume : 0..MaxResume]
        BY Bounds DEF Init, Journal
    <2>4. attempt \in 1..(MaxAttempt + 1) /\ spent \in Nat
        BY Bounds DEF Init
    <2> QED BY <2>1, <2>2, <2>3, <2>4 DEF Init, TypeOK
<1> QED
    BY <1>1, Bounds DEF Init, IInv, OpenHasRoom, ExitedIsQuiet, LogIsAligned,
       RecheckHasCheckpoint, OutcomeIsFinal, SettledIsQuiet, ContinuationIsBound, SuccessIsClean,
       Fresh, NoChild, NoResult

-----------------------------------------------------------------------------
(* The child *)

\* A step of the child or its group that leaves the journal and the result alone.
LEMMA MessageIInv == ASSUME IInv, Message PROVE IInv'
<1> USE DEF IInv, Message, exec
<1>1. TypeOK'
    <2>1. PICK m \in Messages, soft \in BOOLEAN :
            LET requests == child.steered /\ ~child.requested /\ m.stop \notin {"toolUse", "missing"}
                lines == <<[kind |-> "message", m |-> m]>>
                         \o (IF requests THEN <<[kind |-> "request"]>> ELSE << >>)
            IN  /\ child.turns + 1 >= SoftTurns \/ child.steered => soft
                /\ Len(pipe \o lines) <= MaxPipe
                /\ pipe' = pipe \o lines
                /\ child' = [child EXCEPT !.turns = @ + 1,
                                          !.steered = @ \/ soft,
                                          !.requested = @ \/ requests]
        BY Zenon
    <2> DEFINE requests == child.steered /\ ~child.requested /\ m.stop \notin {"toolUse", "missing"}
               tail == IF requests THEN <<[kind |-> "request"]>> ELSE << >>
               lines == <<[kind |-> "message", m |-> m]>> \o tail
    <2>2. tail \in Seq(Line) /\ <<[kind |-> "message", m |-> m]>> \in Seq(Line)
        <3>1. [kind |-> "request"] \in Line /\ [kind |-> "message", m |-> m] \in Line
            BY DEF Line
        <3> HIDE DEF IInv, Message
        <3> QED BY <3>1, EmptySeq
    <2>3. lines \in Seq(Line)
        BY <2>2, ConcatProperties
    <2>4. pipe' \in Seq(Line) /\ Len(pipe') <= MaxPipe
        BY <2>1, <2>3, ConcatProperties DEF TypeOK
    <2>5. child' \in Child
        <3>1. /\ child.turns + 1 \in Nat /\ (child.steered \/ soft) \in BOOLEAN
              /\ (child.requested \/ requests) \in BOOLEAN
            BY DEF TypeOK, Child
        <3> QED BY <2>1, <3>1 DEF TypeOK, Child
    <2> QED BY <2>4, <2>5 DEF TypeOK
<1>2. child'.up = child.up /\ child'.kids = child.kids
    BY DEF TypeOK, Child
<1> QED
    BY <1>1, <1>2 DEF OpenHasRoom, ExitedIsQuiet, LogIsAligned, RecheckHasCheckpoint, OutcomeIsFinal,
       SettledIsQuiet, ContinuationIsBound, SuccessIsClean

LEMMA BadLineIInv == ASSUME IInv, BadLine PROVE IInv'
<1> USE DEF IInv
<1>1. pipe' \in Seq(Line) /\ Len(pipe') <= MaxPipe
    <2>1. PICK k \in {"compaction", "invalid"} : pipe' = Append(pipe, [kind |-> k])
        BY DEF BadLine
    <2>2. [kind |-> k] \in Line
        BY DEF Line
    <2> QED BY <2>1, <2>2, AppendProperties, Bounds DEF BadLine, TypeOK
<1>2. budget' \in [fault : 0..MaxFault, resume : 0..MaxResume]
    BY BudgetsSpent DEF BadLine, TypeOK, BudgetShape
<1>3. TypeOK'
    BY <1>1, <1>2 DEF BadLine, TypeOK
<1> QED
    BY <1>3 DEF BadLine, OpenHasRoom, ExitedIsQuiet, LogIsAligned, RecheckHasCheckpoint, OutcomeIsFinal,
       SettledIsQuiet, ContinuationIsBound, SuccessIsClean

\* The child writes only while it runs, and no checkpoint is taken then.
LEMMA WriteIInv == ASSUME IInv, BeginWrite \/ CompleteWrite PROVE IInv'
<1> USE DEF IInv
<1>1. journal' \in Journal
    <2>1. journal \in Journal /\ journal.done \in 0..MaxWork
        BY DEF TypeOK, Journal
    <2>2. CASE BeginWrite
        BY <2>1, <2>2 DEF BeginWrite, Journal
    <2>3. CASE CompleteWrite
        <3>1. journal.done + 1 \in 0..MaxWork
            BY <2>1, <2>3, Bounds DEF CompleteWrite, IInv, OpenHasRoom
        <3> QED BY <2>1, <2>3, <3>1 DEF CompleteWrite, Journal
    <2> QED BY <2>2, <2>3
<1>2. /\ UNCHANGED <<exec, child, pipe, runner, result, signal>> /\ child.up
    BY DEF BeginWrite, CompleteWrite
<1>3. TypeOK'
    BY <1>1, <1>2 DEF TypeOK, exec
<1>4. phase = "run"
    BY <1>2 DEF SettledIsQuiet
<1>5. OpenHasRoom'
    BY DEF BeginWrite, CompleteWrite, OpenHasRoom, TypeOK, Journal
<1> QED
    BY <1>2, <1>3, <1>4, <1>5 DEF exec, ExitedIsQuiet, LogIsAligned, RecheckHasCheckpoint,
       OutcomeIsFinal, SettledIsQuiet, ContinuationIsBound, SuccessIsClean

LEMMA DescendantIInv == ASSUME IInv, Descendant PROVE IInv'
<1> USE DEF IInv
<1>1. /\ UNCHANGED <<exec, pipe, runner, result, signal>>
      /\ child.up \/ child.kids # "none"
    BY DEF Descendant
<1>2. child' \in Child /\ journal' \in Journal
    BY ZenonT(30) DEF Descendant, TypeOK, Child, Journal
<1>3. TypeOK'
    BY <1>1, <1>2 DEF TypeOK, exec
<1>4. phase = "run" /\ ~runner.exited
    BY <1>1 DEF SettledIsQuiet, ExitedIsQuiet
<1>5. OpenHasRoom'
    BY DEF Descendant, OpenHasRoom, TypeOK, Journal
<1> QED
    BY <1>1, <1>3, <1>4, <1>5 DEF exec, ExitedIsQuiet, LogIsAligned, RecheckHasCheckpoint,
       OutcomeIsFinal, SettledIsQuiet, ContinuationIsBound, SuccessIsClean

LEMMA ChildEndsIInv == ASSUME IInv, ChildEnds PROVE IInv'
<1> USE DEF IInv
<1>1. child' \in Child
    BY BlanksTyped DEF ChildEnds, TypeOK, Child
<1>2. TypeOK'
    BY <1>1 DEF ChildEnds, TypeOK, exec
<1>3. phase = "run" /\ ~runner.exited
    BY DEF ChildEnds, SettledIsQuiet, ExitedIsQuiet
<1> QED
    BY <1>2, <1>3 DEF ChildEnds, exec, OpenHasRoom, ExitedIsQuiet, LogIsAligned, RecheckHasCheckpoint,
       OutcomeIsFinal, SettledIsQuiet, ContinuationIsBound, SuccessIsClean

-----------------------------------------------------------------------------
(* The runner *)

LEMMA SpawnIInv == ASSUME IInv, Spawn PROVE IInv'
<1> USE DEF IInv
<1>1. /\ child' \in Child /\ runner' \in Runner /\ result' \in WorkerRunResult
      /\ ~runner'.exited /\ ~result'.text
    BY BlanksTyped, ZenonT(30) DEF Spawn, TypeOK, Child, Runner, WorkerRunResult, Fresh, NoResult
<1>2. pipe' \in Seq(Line) /\ Len(pipe') <= MaxPipe
    BY EmptySeq, Bounds DEF Spawn
<1>3. TypeOK'
    BY <1>1, <1>2 DEF Spawn, TypeOK
<1> QED
    BY <1>1, <1>3 DEF Spawn, OpenHasRoom, ExitedIsQuiet, LogIsAligned, RecheckHasCheckpoint,
       OutcomeIsFinal, SettledIsQuiet, ContinuationIsBound, SuccessIsClean

LEMMA SpawnFailsIInv == ASSUME IInv, SpawnFails PROVE IInv'
<1> USE DEF IInv
<1>1. budget' \in [fault : 0..MaxFault, resume : 0..MaxResume]
    BY BudgetsSpent DEF SpawnFails, TypeOK, BudgetShape
<1>2. TypeOK'
    BY <1>1 DEF SpawnFails, TypeOK
<1> QED
    BY <1>2 DEF SpawnFails, OpenHasRoom, ExitedIsQuiet, LogIsAligned, RecheckHasCheckpoint,
       OutcomeIsFinal, SettledIsQuiet, ContinuationIsBound, SuccessIsClean

\* What the runner's steps have in common: the attempt runs, the execution waits, and
\* the exit is noted with the group dead.
LEMMA RunningIInv ==
    ASSUME IInv, phase = "run", UNCHANGED exec,
           child' \in Child, runner' \in Runner, result' \in WorkerRunResult,
           pipe' \in Seq(Line), Len(pipe') <= MaxPipe, signal' \in BOOLEAN,
           journal' = journal,
           runner'.exited => ~child'.up /\ child'.kids = "none"
    PROVE  IInv'
<1> USE DEF IInv
<1>1. TypeOK'
    BY DEF TypeOK, exec
<1> QED
    BY <1>1 DEF exec, OpenHasRoom, ExitedIsQuiet, LogIsAligned, RecheckHasCheckpoint,
       OutcomeIsFinal, SettledIsQuiet, ContinuationIsBound, SuccessIsClean

LEMMA TerminatedTyped ==
    ASSUME runner \in Runner, NEW r \in WorkerRunResult, Terminated(r)
    PROVE  result' = r /\ runner' \in Runner /\ runner'.exited = runner.exited
BY DEF Terminated, Runner

LEMMA ObservedTyped ==
    ASSUME result \in WorkerRunResult, NEW m \in Messages
    PROVE  Observed(m) \in WorkerRunResult
<1>1. m \in MessageShape
    BY MessagesTyped
<1>2. /\ (result.large \/ m.large) \in BOOLEAN /\ (result.drift \/ m.drift) \in BOOLEAN
      /\ (result.text \/ m.text) \in BOOLEAN
      /\ (IF m.stop = "missing" THEN result.stop ELSE m.stop)
            \in {"none", "toolUse", "other", "error"}
      /\ result.turns + 1 \in Nat
      /\ (IF m.drift THEN "other" ELSE "pinned") \in {"none", "pinned", "other"}
    BY <1>1 DEF MessageShape, WorkerRunResult
<1> DEFINE large == result.large \/ m.large
           drift == result.drift \/ m.drift
           text == result.text \/ m.text
           model == IF m.drift THEN "other" ELSE "pinned"
           stop == IF m.stop = "missing" THEN result.stop ELSE m.stop
<1>3. Observed(m) = [result EXCEPT !.turns = result.turns + 1, !.large = large,
                                    !.drift = drift, !.model = model,
                                    !.stop = stop, !.text = text]
    BY DEF Observed
<1>4. /\ large \in BOOLEAN /\ drift \in BOOLEAN /\ text \in BOOLEAN
      /\ model \in {"none", "pinned", "other"} /\ stop \in {"none", "toolUse", "other", "error"}
    BY <1>2
<1> HIDE DEF large, drift, text, model, stop
<1> QED BY <1>2, <1>3, <1>4, ZenonT(30) DEF WorkerRunResult

LEMMA DeliverIInv == ASSUME IInv, Deliver PROVE IInv'
<1> DEFINE line == Head(pipe)
<1>1. TypeOK /\ ExitedIsQuiet /\ RecheckHasCheckpoint
    BY DEF IInv
<1>2. phase = "run" /\ UNCHANGED <<exec, child, signal, journal>> /\ pipe # << >> /\ pipe' = Tail(pipe)
    BY DEF Deliver
<1>3. /\ line \in Line /\ pipe' \in Seq(Line) /\ Len(pipe') <= MaxPipe
    BY <1>1, <1>2, HeadTailProperties, Bounds DEF TypeOK
<1>4. /\ runner' \in Runner /\ result' \in WorkerRunResult
      /\ runner'.exited = runner.exited
    <2>0. runner \in Runner /\ result \in WorkerRunResult
        BY <1>1 DEF TypeOK
    <2>1. CASE runner.invalid /\ UNCHANGED <<runner, result>>
        BY <2>0, <2>1
    <2>2. CASE /\ line.kind = "message"
               /\ LET r == Observed(line.m) IN
                   IF line.m.large \/ line.m.drift \/ r.turns >= HardTurns
                   THEN Terminated(r)
                   ELSE result' = r /\ UNCHANGED runner
        <3>1. line.m \in Messages
            BY <1>3, <2>2, LinesTyped
        <3>2. Observed(line.m) \in WorkerRunResult
            BY <2>0, <3>1, ObservedTyped
        <3>3. Terminated(Observed(line.m)) \/ (result' = Observed(line.m) /\ UNCHANGED runner)
            BY <2>2
        <3> QED BY <2>0, <3>2, <3>3, TerminatedTyped
    <2>3. CASE result' = [result EXCEPT !.request = TRUE] /\ UNCHANGED runner
        BY <2>0, <2>3 DEF WorkerRunResult
    <2>4. CASE Terminated([result EXCEPT !.compacted = TRUE])
        <3> DEFINE r == [result EXCEPT !.compacted = TRUE]
        <3>1. r \in WorkerRunResult
            BY <2>0 DEF WorkerRunResult
        <3> QED BY <2>0, <2>4, <3>1, TerminatedTyped
    <2>5. CASE /\ result' = result
               /\ runner' = [runner EXCEPT !.terminating = TRUE, !.invalid = TRUE]
        BY <2>0, <2>5 DEF Runner
    <2> QED BY <2>1, <2>2, <2>3, <2>4, <2>5 DEF Deliver
<1> QED
    BY <1>1, <1>2, <1>3, <1>4, RunningIInv DEF TypeOK, ExitedIsQuiet

LEMMA TimeoutIInv == ASSUME IInv, Timeout PROVE IInv'
<1> DEFINE r == [result EXCEPT !.timedOut = TRUE]
<1>1. TypeOK /\ ExitedIsQuiet /\ RecheckHasCheckpoint
    BY DEF IInv
<1>2. r \in WorkerRunResult
    BY <1>1 DEF TypeOK, RecheckHasCheckpoint, WorkerRunResult
<1>3. result' = r /\ runner' \in Runner /\ runner'.exited = runner.exited
    BY <1>1, <1>2, TerminatedTyped DEF Timeout, TypeOK
<1> QED BY <1>1, <1>2, <1>3, RunningIInv DEF Timeout, TypeOK, ExitedIsQuiet

LEMMA AbortIInv == ASSUME IInv, Abort PROVE IInv'
<1> DEFINE r == [result EXCEPT !.aborted = TRUE]
<1>1. TypeOK /\ ExitedIsQuiet /\ RecheckHasCheckpoint
    BY DEF IInv
<1>2. CASE phase = "run"
    <2>1. r \in WorkerRunResult
        BY <1>1 DEF TypeOK, RecheckHasCheckpoint, WorkerRunResult
    <2>2. result' = r /\ runner' \in Runner /\ runner'.exited = runner.exited
        BY <1>1, <1>2, <2>1, TerminatedTyped DEF Abort, TypeOK
    <2> QED BY <1>1, <1>2, <2>1, <2>2, RunningIInv DEF Abort, TypeOK, ExitedIsQuiet
<1>3. CASE phase # "run"
    <2>1. UNCHANGED <<exec, child, pipe, journal, result, runner>> /\ signal' = TRUE
        BY <1>3 DEF Abort
    <2> QED
        BY <2>1 DEF IInv, TypeOK, exec, OpenHasRoom, ExitedIsQuiet, LogIsAligned, RecheckHasCheckpoint,
           OutcomeIsFinal, SettledIsQuiet, ContinuationIsBound, SuccessIsClean
<1> QED BY <1>2, <1>3

LEMMA KillTimerIInv == ASSUME IInv, KillTimer PROVE IInv'
<1>1. TypeOK /\ ExitedIsQuiet /\ RecheckHasCheckpoint
    BY DEF IInv
<1>2. child' \in Child /\ ~child'.up /\ child'.kids = "none"
    BY <1>1 DEF KillTimer, TypeOK, Child, NoChild
<1> QED BY <1>1, <1>2, RunningIInv DEF KillTimer, TypeOK, RecheckHasCheckpoint

LEMMA ExitIInv == ASSUME IInv, Exit PROVE IInv'
<1>1. TypeOK /\ ExitedIsQuiet /\ RecheckHasCheckpoint
    BY DEF IInv
<1>2. child' \in Child /\ ~child'.up /\ child'.kids = "none" /\ runner' \in Runner
    BY <1>1 DEF Exit, TypeOK, Child, Runner
<1> QED BY <1>1, <1>2, RunningIInv DEF Exit, TypeOK, RecheckHasCheckpoint

\* The stream ends only after the exit event, which left nobody.
LEMMA CloseIInv == ASSUME IInv, Close PROVE IInv'
<1> USE DEF IInv
<1>1. TypeOK' /\ ~runner'.exited
    BY BlanksTyped DEF Close, TypeOK, Fresh
<1>2. ~child.up /\ child.kids = "none"
    BY DEF Close, ExitedIsQuiet
<1> QED
    BY <1>1, <1>2 DEF Close, OpenHasRoom, ExitedIsQuiet, LogIsAligned, RecheckHasCheckpoint,
       OutcomeIsFinal, SettledIsQuiet, ContinuationIsBound, SuccessIsClean

-----------------------------------------------------------------------------
(* The attempts *)

\* Success is the last answer of a chain of conditions none of which holds.
LEMMA SuccessMeans ==
    ASSUME NEW r \in WorkerRunResult, NEW code
    PROVE  /\ workerRunFailure(r, code) \in Codes \union {"success"}
           /\ workerRunFailure(r, code) = "success" =>
                /\ ~r.compacted /\ ~r.large /\ r.turns < HardTurns /\ ~r.drift
                /\ ~r.aborted /\ ~r.timedOut /\ r.text /\ r.stop \notin {"error", "toolUse"}
<1>1. workerRunFailure(r, code) \in Codes \union {"success"}
    BY DEF workerRunFailure, Codes, Quality
<1>2. workerRunFailure(r, code) = "success" => ~(r.turns >= HardTurns)
    BY DEF workerRunFailure
<1>3. workerRunFailure(r, code) = "success" =>
                /\ ~r.compacted /\ ~r.large /\ ~r.drift
                /\ ~r.aborted /\ ~r.timedOut /\ r.text /\ r.stop \notin {"error", "toolUse"}
    BY DEF workerRunFailure
<1> QED BY <1>1, <1>2, <1>3, WorkerRunAssumption DEF WorkerRunResult

LEMMA EvaluateIInv == ASSUME IInv, Evaluate PROVE IInv'
<1> DEFINE code == workerRunFailure(result, child.code)
           handsOver == result.request \/ code \in Quality
           entry == [turns |-> result.turns, drift |-> result.drift]
<1>1. TypeOK /\ RecheckHasCheckpoint /\ OutcomeIsFinal /\ SettledIsQuiet /\ LogIsAligned
    BY DEF IInv
<1>2. /\ phase = "settled" /\ spent' = spent + result.turns /\ log' = Append(log, entry)
      /\ child' = [child EXCEPT !.code = NoChild.code]
      /\ UNCHANGED <<attempt, pipe, runner, signal, journal, cp, budget>>
    BY DEF Evaluate
<1>3. /\ entry \in [turns : Nat, drift : BOOLEAN]
      /\ log' \in Seq([turns : Nat, drift : BOOLEAN])
      /\ Len(log') = Len(log) + 1 /\ log'[Len(log')] = entry
    <2>1. entry \in [turns : Nat, drift : BOOLEAN]
        BY <1>1 DEF TypeOK, WorkerRunResult
    <2> QED BY <1>1, <1>2, <2>1, AppendProperties DEF TypeOK
<1>4. child' \in Child /\ child'.up = child.up /\ child'.kids = child.kids
    BY <1>1, <1>2 DEF TypeOK, Child, NoChild
<1>5. code \in Codes \union {"success"}
    BY <1>1, SuccessMeans DEF TypeOK
<1>6. CASE result.model = "pinned" /\ ~handsOver
    <2>1. result' = result /\ phase' = "done" /\ outcome' = code
        BY <1>6 DEF Evaluate
    <2>2. TypeOK'
        BY <1>1, <1>2, <1>3, <1>4, <1>5, <2>1 DEF TypeOK, WorkerRunResult
    <2>3. SuccessIsClean'
        <3>1. SUFFICES ASSUME code = "success" PROVE SuccessIsClean'
            BY <2>1 DEF SuccessIsClean
        <3>2. /\ ~result.compacted /\ ~result.large /\ result.turns < HardTurns
              /\ ~result.drift /\ ~result.aborted /\ ~result.timedOut
              /\ result.text /\ result.stop \notin {"error", "toolUse"}
            BY <1>1, <3>1, SuccessMeans DEF TypeOK
        <3>4. ~log'[Len(log')].drift
            BY <1>3, <3>2
        <3> QED BY <1>6, <2>1, <3>2, <3>4 DEF SuccessIsClean
    <2> QED
        BY <1>1, <1>2, <1>3, <1>4, <2>1, <2>2, <2>3, LogBounds, Bounds, SMTT(30)
        DEF IInv, TypeOK, OpenHasRoom, ExitedIsQuiet, LogIsAligned, RecheckHasCheckpoint, OutcomeIsFinal,
            SettledIsQuiet, ContinuationIsBound
<1>7. CASE ~(result.model = "pinned" /\ ~handsOver)
    <2>1. result' = NoResult /\ phase' \in {"recovery", "checkpoint"} /\ outcome' = outcome
        BY <1>7 DEF Evaluate
    <2>2. outcome = "none" /\ ~NoResult.text
        BY <1>1, <1>2 DEF OutcomeIsFinal, NoResult
    <2>3. TypeOK'
        BY <1>1, <1>2, <1>3, <1>4, <2>1, BlanksTyped DEF TypeOK, WorkerRunResult
    <2>4. LogIsAligned'
        <3>1. /\ Len(log) = attempt - 1 /\ attempt <= MaxAttempt /\ attempt \in Int
              /\ Len(log) \in Nat /\ (cp # None => cp.attempt \in Int /\ cp.attempt <= Len(log))
            BY <1>1, <1>2, LogBounds, Bounds DEF TypeOK, LogIsAligned
        <3>2. Len(log') = Len(log) + 1 /\ attempt' = attempt /\ cp' = cp
            BY <1>2, <1>3
        <3>3. Len(log') = attempt' /\ (cp' # None => cp'.attempt <= Len(log'))
            BY <3>1, <3>2
        <3> QED BY <2>1, <3>1, <3>2, <3>3 DEF LogIsAligned
    <2> QED
        BY <1>1, <1>2, <1>4, <2>1, <2>2, <2>3, <2>4
        DEF IInv, OpenHasRoom, ExitedIsQuiet, RecheckHasCheckpoint, OutcomeIsFinal,
            SettledIsQuiet, ContinuationIsBound, SuccessIsClean
<1> QED BY <1>6, <1>7

LEMMA CheckpointIInv == ASSUME IInv, Checkpoint PROVE IInv'
<1> DEFINE next == [attempt |-> attempt, done |-> journal.done, turns |-> spent]
<1>1. TypeOK /\ LogIsAligned /\ phase = "checkpoint"
    BY DEF IInv, Checkpoint
<1>2. /\ next \in WorkerCheckpoint /\ next # None
      /\ next.attempt = attempt /\ next.done = journal.done /\ Len(log) = attempt
    <2>1. attempt \in 1..MaxAttempt /\ Len(log) = attempt
        BY <1>1, Bounds DEF TypeOK, LogIsAligned
    <2>2. next \in WorkerCheckpoint
        BY <1>1, <2>1 DEF TypeOK, WorkerCheckpoint, Journal
    <2>3. next \in [attempt : Nat, done : Nat, turns : Nat]
        BY <1>1, <2>1, Bounds DEF TypeOK, Journal
    <2> QED BY <2>1, <2>2, <2>3, WorkerRunAssumption
<1>3. /\ UNCHANGED <<attempt, child, pipe, runner, result, signal, journal, spent, log, outcome>>
      /\ budget' \in [fault : 0..MaxFault, resume : 0..MaxResume]
    BY <1>1, BudgetsSpent DEF Checkpoint, TypeOK, BudgetShape
<1>4. \/ cp' = next /\ phase' = "recheck" /\ JournalIsComplete
      \/ cp' = next /\ phase' = "recovery"
      \/ cp' = cp /\ phase' = "recovery"
    BY DEF Checkpoint
<1>5. TypeOK'
    BY <1>1, <1>2, <1>3, <1>4 DEF TypeOK
<1>6. LogIsAligned'
    BY <1>1, <1>2, <1>3, <1>4, <1>5 DEF TypeOK, LogIsAligned
<1>7. ContinuationIsBound' /\ RecheckHasCheckpoint'
    BY <1>2, <1>3, <1>4 DEF IInv, ContinuationIsBound, JournalIsComplete, RecheckHasCheckpoint
<1> QED
    BY <1>1, <1>3, <1>4, <1>5, <1>6, <1>7
    DEF IInv, OpenHasRoom, ExitedIsQuiet, OutcomeIsFinal, SettledIsQuiet, SuccessIsClean

LEMMA HandOverIInv == ASSUME IInv, HandOver PROVE IInv'
<1>1. TypeOK /\ LogIsAligned /\ phase = "recheck"
    BY DEF IInv, HandOver
<1>2. /\ UNCHANGED <<child, pipe, runner, result, signal, journal, spent, cp, log, outcome>>
      /\ budget' \in [fault : 0..MaxFault, resume : 0..MaxResume]
    BY <1>1, BudgetsSpent DEF HandOver, TypeOK, BudgetShape
<1>3. \/ attempt' = attempt + 1 /\ phase' = "spawn"
      \/ attempt' = attempt /\ phase' = "recovery"
    BY DEF HandOver
<1>4. TypeOK'
    BY <1>1, <1>2, <1>3, Bounds DEF TypeOK, LogIsAligned
<1>5. LogIsAligned'
    BY <1>1, <1>2, <1>3, LogBounds, Bounds, SMTT(30) DEF LogIsAligned, TypeOK
<1> QED
    BY <1>1, <1>2, <1>3, <1>4, <1>5
    DEF IInv, OpenHasRoom, ExitedIsQuiet, OutcomeIsFinal, SettledIsQuiet, SuccessIsClean,
        ContinuationIsBound, RecheckHasCheckpoint

LEMMA ResumeIInv == ASSUME IInv, Resume PROVE IInv'
<1>1. TypeOK /\ LogIsAligned /\ phase = "recovery" /\ phase' = "spawn"
    BY DEF IInv, Resume
<1>2. cp \in WorkerCheckpoint /\ cp.attempt \in 1..MaxAttempt /\ cp.turns \in Nat
    BY <1>1 DEF Resume, TypeOK, WorkerCheckpoint
<1>3. /\ log' \in Seq([turns : Nat, drift : BOOLEAN]) /\ Len(log') = cp.attempt
    <2>1. 1 \in 1..(Len(log) + 1) /\ cp.attempt \in 0..Len(log)
        <3>1. Len(log) \in Nat /\ cp.attempt <= Len(log)
            BY <1>1, LogBounds DEF LogIsAligned, Resume
        <3>2. cp.attempt \in Nat
            BY <1>2, Bounds
        <3> QED BY <3>1, <3>2
    <2>2. /\ cp.attempt \in Int /\ 1 \in Int
          /\ \A i \in 1..cp.attempt : log[i] \in [turns : Nat, drift : BOOLEAN]
        <3>1. log \in Seq([turns : Nat, drift : BOOLEAN]) /\ 1..cp.attempt \subseteq 1..Len(log)
            BY <1>1, <1>2, <2>1, LogBounds, Bounds DEF TypeOK
        <3>2. \A i \in 1..Len(log) : log[i] \in [turns : Nat, drift : BOOLEAN]
            BY <3>1, ElementOfSeq, Zenon
        <3>3. cp.attempt \in Int /\ 1 \in Int
            BY <1>2, Bounds
        <3> QED BY <3>1, <3>2, <3>3, Zenon
    <2>3. log' = SubSeq(log, 1, cp.attempt)
        BY DEF Resume
    <2> HIDE DEF Resume
    <2>4. /\ SubSeq(log, 1, cp.attempt) \in Seq([turns : Nat, drift : BOOLEAN])
          /\ Len(SubSeq(log, 1, cp.attempt)) = cp.attempt
        BY <1>2, <2>2, SubSeqProperties, Bounds
    <2> QED BY <2>3, <2>4
<1>4. budget' \in [fault : 0..MaxFault, resume : 0..MaxResume]
    BY <1>1, BudgetsSpent DEF Resume, TypeOK, BudgetShape
<1>5. TypeOK'
    <2>1. attempt' = cp.attempt + 1 /\ spent' = cp.turns /\ signal' = FALSE
        BY DEF Resume
    <2>2. attempt' \in 1..(MaxAttempt + 1) /\ spent' \in Nat /\ signal' \in BOOLEAN
        <3>1. \A n \in 1..MaxAttempt : n + 1 \in 1..(MaxAttempt + 1)
            BY Bounds
        <3> QED BY <1>2, <2>1, <3>1, Zenon
    <2> QED BY <1>1, <1>3, <1>4, <2>2 DEF TypeOK, Resume
<1>6. LogIsAligned'
    BY <1>1, <1>2, <1>3, Bounds DEF LogIsAligned, Resume
<1> QED
    BY <1>1, <1>5, <1>6
    DEF IInv, Resume, OpenHasRoom, ExitedIsQuiet, OutcomeIsFinal, SettledIsQuiet, SuccessIsClean,
        ContinuationIsBound, RecheckHasCheckpoint

-----------------------------------------------------------------------------
(* Theorems *)

LEMMA NextIInv == ASSUME IInv, [Next]_vars PROVE IInv'
<1>1. CASE UNCHANGED vars
    BY <1>1 DEF vars, IInv, TypeOK, OpenHasRoom, ExitedIsQuiet, LogIsAligned, RecheckHasCheckpoint,
       OutcomeIsFinal, SettledIsQuiet, ContinuationIsBound, SuccessIsClean
<1>2. CASE Next
    BY <1>2, MessageIInv, BadLineIInv, WriteIInv, DescendantIInv, ChildEndsIInv, SpawnIInv,
       SpawnFailsIInv, DeliverIInv, TimeoutIInv, KillTimerIInv, ExitIInv, CloseIInv, AbortIInv,
       EvaluateIInv, CheckpointIInv, HandOverIInv, ResumeIInv
    DEF Next, RunnerStep
<1> QED BY <1>1, <1>2

\* The attempts keep their inductive invariant.
THEOREM AttemptsAreConsistent == Spec => []IInv
<1>1. Init => IInv
    BY InitIInv
<1>2. IInv /\ [Next]_vars => IInv'
    BY NextIInv
<1> QED BY <1>1, <1>2, PTL DEF Spec

\* Whatever the child does with its descendants and with SIGTERM, when the attempt has
\* settled no process of its group is alive.
THEOREM NobodyOutlivesTheAttempt == Spec => []SettledIsQuiet
<1>1. IInv => SettledIsQuiet
    BY DEF IInv
<1> QED BY <1>1, AttemptsAreConsistent, PTL

\* A continuation is started only from the checkout its checkpoint describes.
THEOREM ContinuationsAreBound == Spec => []ContinuationIsBound
<1>1. IInv => ContinuationIsBound
    BY DEF IInv
<1> QED BY <1>1, AttemptsAreConsistent, PTL

\* workerRunFailure reports success for a clean attempt only.
THEOREM SuccessesAreClean == Spec => []SuccessIsClean
<1>1. IInv => SuccessIsClean
    BY DEF IInv
<1> QED BY <1>1, AttemptsAreConsistent, PTL

-----------------------------------------------------------------------------
(* What was spent *)

Entry == [turns : Nat, drift : BOOLEAN]

\* Only the entries counted matter.
LEMMA SamePrefix ==
    ASSUME NEW n \in Nat, NEW total \in Nat, NEW a, NEW b,
           \A i \in 1..n : a[i] = b[i], AddsUp(a, n, total)
    PROVE  AddsUp(b, n, total)
BY DEF AddsUp

LEMMA NothingAddsUp == ASSUME NEW a PROVE AddsUp(a, 0, 0)
<1> DEFINE sum == [i \in 0..0 |-> 0]
<1>1. sum \in [0..0 -> 0..0] /\ sum[0] = 0 /\ 1..0 = {}
    OBVIOUS
<1> QED BY <1>1 DEF AddsUp

\* One more entry adds its turns.
LEMMA OneMore ==
    ASSUME NEW n \in Nat, NEW total \in Nat, NEW a, AddsUp(a, n, total), a[n + 1].turns \in Nat
    PROVE  AddsUp(a, n + 1, total + a[n + 1].turns)
<1> DEFINE new == total + a[n + 1].turns
<1>1. PICK sum \in [0..n -> 0..total] :
        /\ sum[0] = 0 /\ sum[n] = total
        /\ \A i \in 1..n : sum[i] = sum[i - 1] + a[i].turns
    BY DEF AddsUp
<1> DEFINE more == [i \in 0..(n + 1) |-> IF i <= n THEN sum[i] ELSE new]
<1>2. more \in [0..(n + 1) -> 0..new]
    <2>1. \A i \in 0..n : sum[i] \in 0..new
        <3>1. 0..total \subseteq 0..new
            OBVIOUS
        <3> QED BY <3>1
    <2>2. \A i \in 0..(n + 1) : i <= n => i \in 0..n
        OBVIOUS
    <2>3. new \in 0..new
        OBVIOUS
    <2> QED BY <2>1, <2>2, <2>3
<1>3. more[0] = 0 /\ more[n + 1] = new
    BY <1>1
<1>4. ASSUME NEW i \in 1..(n + 1) PROVE more[i] = more[i - 1] + a[i].turns
    <2>1. CASE i \in 1..n
        <3>1. more[i] = sum[i] /\ more[i - 1] = sum[i - 1]
            BY <2>1
        <3> QED BY <1>1, <2>1, <3>1
    <2>2. CASE i = n + 1
        <3>1. more[i] = new /\ more[i - 1] = sum[n]
            BY <2>2
        <3> QED BY <1>1, <2>2, <3>1
    <2> QED BY <2>1, <2>2
<1> HIDE DEF more
<1> QED BY <1>2, <1>3, <1>4 DEF AddsUp

LEMMA InitLedger == Init => LedgerIsExact
BY NothingAddsUp DEF Init, LedgerIsExact, SpendIsCountedOnce

\* An evaluated attempt adds its turns to both sides, behind what the checkpoint counts.
LEMMA EvaluateLedger == ASSUME IInv, LedgerIsExact, Evaluate PROVE LedgerIsExact'
<1> DEFINE entry == [turns |-> result.turns, drift |-> result.drift]
<1>1. TypeOK /\ LogIsAligned
    BY DEF IInv
<1>2. /\ spent' = spent + result.turns /\ log' = Append(log, entry) /\ cp' = cp
    BY DEF Evaluate
<1>3. /\ log \in Seq(Entry) /\ entry \in Entry /\ Len(log) \in Nat /\ spent \in Nat
      /\ result.turns \in Nat
    BY <1>1, LenProperties DEF TypeOK, WorkerRunResult, Entry
<1>4. /\ Len(log') = Len(log) + 1 /\ log'[Len(log) + 1] = entry
      /\ \A i \in 1..Len(log) : log[i] = log'[i]
    BY <1>2, <1>3, AppendProperties
<1>5. AddsUp(log', Len(log), spent)
    BY <1>3, <1>4, SamePrefix DEF LedgerIsExact
<1>6. AddsUp(log', Len(log'), spent')
    <2>1. log'[Len(log) + 1].turns = result.turns
        BY <1>4
    <2> QED BY <1>2, <1>3, <1>4, <1>5, <2>1, OneMore
<1>7. cp # None => AddsUp(log', cp.attempt, cp.turns)
    <2>1. SUFFICES ASSUME cp # None PROVE AddsUp(log', cp.attempt, cp.turns)
        OBVIOUS
    <2>2. cp.attempt \in Nat /\ cp.attempt <= Len(log) /\ cp.turns \in Nat
        BY <1>1, <2>1, Bounds, SMTT(30) DEF TypeOK, WorkerCheckpoint, LogIsAligned
    <2>3. \A i \in 1..cp.attempt : log[i] = log'[i]
        BY <1>3, <1>4, <2>2
    <2> QED BY <2>1, <2>2, <2>3, SamePrefix DEF LedgerIsExact, SpendIsCountedOnce
<1> QED BY <1>2, <1>6, <1>7 DEF LedgerIsExact, SpendIsCountedOnce

\* A checkpoint is taken of the whole log, and of all that was spent.
LEMMA CheckpointLedger == ASSUME IInv, LedgerIsExact, Checkpoint PROVE LedgerIsExact'
<1> DEFINE next == [attempt |-> attempt, done |-> journal.done, turns |-> spent]
<1>1. Len(log) = attempt /\ UNCHANGED <<spent, log>>
    BY DEF IInv, LogIsAligned, Checkpoint
<1>2. cp' = next \/ cp' = cp
    BY DEF Checkpoint
<1>3. next.attempt = attempt /\ next.turns = spent
    OBVIOUS
<1> HIDE DEF next
<1> QED BY <1>1, <1>2, <1>3 DEF LedgerIsExact, SpendIsCountedOnce

\* A resumption keeps of the log what the checkpoint counted, and goes on from its turns.
LEMMA ResumeLedger == ASSUME IInv, LedgerIsExact, Resume PROVE LedgerIsExact'
<1>1. TypeOK /\ LogIsAligned /\ SpendIsCountedOnce
    BY DEF IInv, LedgerIsExact
<1>2. cp # None /\ cp' = cp /\ spent' = cp.turns /\ log' = SubSeq(log, 1, cp.attempt)
    BY DEF Resume
<1>3. cp.attempt \in Nat \ {0} /\ cp.attempt <= Len(log) /\ cp.turns \in Nat
    BY <1>1, <1>2, Bounds, SMTT(30) DEF TypeOK, WorkerCheckpoint, LogIsAligned
<1>4. Len(log') = cp.attempt /\ \A i \in 1..cp.attempt : log'[i] = log[i]
    <2>1. log \in Seq(Entry) /\ Len(log) \in Nat
        BY <1>1, LenProperties DEF TypeOK, Entry
    <2>2. \A i \in 1..cp.attempt : log[i] \in Entry
        <3>1. \A i \in 1..Len(log) : log[i] \in Entry
            BY <2>1, ElementOfSeq, Zenon
        <3>2. \A i \in 1..cp.attempt : i \in 1..Len(log)
            BY <1>3, <2>1
        <3> QED BY <3>1, <3>2, Zenon
    <2>3. cp.attempt \in Int /\ 1 <= cp.attempt
        BY <1>3
    <2> QED BY <1>2, <1>3, <2>2, <2>3, SubSeqProperties
<1>5. AddsUp(log, cp.attempt, cp.turns)
    BY <1>1, <1>2 DEF SpendIsCountedOnce
<1>6. AddsUp(log', cp.attempt, cp.turns)
    <2>1. \A i \in 1..cp.attempt : log[i] = log'[i]
        BY <1>4
    <2> QED BY <1>3, <1>5, <2>1, SamePrefix
<1> QED BY <1>2, <1>4, <1>6 DEF LedgerIsExact, SpendIsCountedOnce

LEMMA NextLedger == ASSUME IInv, LedgerIsExact, [Next]_vars PROVE LedgerIsExact'
<1>1. CASE UNCHANGED <<log, spent, cp>>
    BY <1>1 DEF LedgerIsExact, SpendIsCountedOnce
<1>2. CASE Evaluate
    BY <1>2, EvaluateLedger
<1>3. CASE Checkpoint
    BY <1>3, CheckpointLedger
<1>4. CASE Resume
    BY <1>4, ResumeLedger
<1>5. CASE UNCHANGED vars
    BY <1>1, <1>5 DEF vars
<1>6. CASE Message \/ BadLine \/ BeginWrite \/ CompleteWrite \/ Descendant \/ ChildEnds
    BY <1>1, <1>6 DEF exec, Message, BadLine, BeginWrite, CompleteWrite, Descendant, ChildEnds
<1>7. CASE Spawn \/ SpawnFails \/ RunnerStep \/ Abort \/ HandOver
    BY <1>1, <1>7 DEF exec, RunnerStep, Spawn, SpawnFails, Deliver, Timeout, KillTimer, Exit,
       Close, Abort, HandOver
<1> QED BY <1>2, <1>3, <1>4, <1>5, <1>6, <1>7 DEF Next

\* Whatever publications fail and however often a record is resumed, the turns of a
\* checkpoint are those of its attempts, none missing and none counted twice.
THEOREM SpendingIsCountedOnce == Spec => []SpendIsCountedOnce
<1>1. Init => LedgerIsExact
    BY InitLedger
<1>2. IInv /\ LedgerIsExact /\ [Next]_vars => LedgerIsExact'
    BY NextLedger
<1>3. LedgerIsExact => SpendIsCountedOnce
    BY DEF LedgerIsExact
<1> QED BY <1>1, <1>2, <1>3, AttemptsAreConsistent, PTL DEF Spec
=============================================================================
