----------------------- MODULE ExecutionOwnerProofs -----------------------
(***************************************************************************)
(* Execution, workers and reconcilers of one delegation for any number of  *)
(* processes, executions, reconcilers, crashes and failing operations.     *)
(*                                                                         *)
(* Every step of an execution is a Moves, every step of a worker a Works   *)
(* and every step of a reconciler a Recovers: what each kind may do to the *)
(* shared files is enough for the invariant, so that the lemma of an       *)
(* action only shows which kind of step it is.                             *)
(***************************************************************************)
EXTENDS ExecutionOwner, TLAPS

LEMMA Constants ==
    /\ MaxCrash \in Nat /\ MaxFault \in Nat /\ None \notin Proc /\ None \notin Exec
    /\ None \notin Owner /\ None \notin Lane
    /\ \A r \in Recon : Home[r] \in Proc
BY OwnerAssumption, AbsentAssumption

-----------------------------------------------------------------------------
(* What every state satisfies *)

LEMMA Types ==
    ASSUME IInv
    PROVE  /\ tx \in Tx /\ tx.status \in Status /\ tx.rev \in Nat
           /\ \A e \in Exec : /\ ex[e] \in Execution /\ ex[e].state \in Tx
                              /\ ex[e].state.rev \in Nat /\ Fits(ex[e])
           /\ \A r \in Recon : /\ rc[r] \in Reconciler /\ rc[r].seen \in Tx
                               /\ rc[r].seen.rev \in Nat
           /\ alive \subseteq Proc
BY DEF IInv, TypeOK, Tx, Execution, Reconciler, StateFits

\* The lane admits one execution at a time.
LEMMA OneActive ==
    ASSUME IInv, NEW d \in Exec, NEW e \in Exec, Active(d), Active(e) PROVE d = e
BY DEF IInv, LaneIsHeld

LEMMA WorkingIsActive ==
    ASSUME IInv, NEW e \in Exec, ex[e].proc \in alive, ex[e].at \in AtWork PROVE Active(e)
BY DEF AtWork, Active

\* Beside an active execution only orphans of an aborted record are left.
LEMMA OthersAreOrphans ==
    ASSUME IInv, NEW d \in Exec, NEW e \in Exec, Active(e), d # e, wk[d] \in Running
    PROVE  tx.status = "ABORTED" /\ ex[d].proc \notin alive
<1>1. lane = [exec |-> e, proc |-> ex[e].proc]
    BY DEF IInv, LaneIsHeld
<1>2. lane # None /\ lane.exec = e
    BY <1>1, Types, Constants DEF Active, Lane
<1> QED BY <1>2 DEF IInv, WorkersFit

-----------------------------------------------------------------------------
(* A step of an execution *)

\* The record is left alone, or replaced by the next one where it is what was cached.
Swaps(e) ==
    \/ tx' = tx
    \/ /\ tx = ex[e].state /\ tx' \in Tx /\ tx'.rev = tx.rev + 1
       /\ tx.status # "ABORTED" /\ tx'.status # "none"
       /\ tx'.status = "ABORTED" => tx.status = "PREPARED"
       /\ tx'.status = "PREPARED" => tx.status = "none"

MovesWorker(e, x) ==
    \/ wk' = wk /\ ex[e].at # "work"
    \/ wk' = [wk EXCEPT ![e] = "gone"] /\ ex[e].at = "work"
    \/ /\ wk' = [wk EXCEPT ![e] = "up"] /\ x.at = "work" /\ x.state = tx'
       /\ tx.status # "ABORTED"
       /\ ex[e].at = "work" \/ tx'.rev = tx.rev + 1

Moves(e, x) ==
    /\ Active(e) /\ x \in Execution /\ ex' = [ex EXCEPT ![e] = x]
    /\ x.proc = ex[e].proc /\ x.at \notin {"idle", "prepare"} /\ Fits(x)
    /\ UNCHANGED <<alive, rc, history>> /\ faults' \in 0..MaxFault /\ faults' >= faults
    /\ Swaps(e) /\ (x.state = ex[e].state \/ x.state = tx')
    /\ x.at \in AtWork =>
          /\ \/ tx' = x.state
             \/ /\ faults' > 0 /\ x.at = "abort" /\ tx'.rev = x.state.rev + 1
                /\ tx'.status = "RUNNING"
          /\ ex[e].at \in AtWork \/ tx'.rev = tx.rev + 1
    /\ \/ UNCHANGED <<lane, settled>>
       \/ x.at = "over" /\ lane' \in {lane, None} /\ settled' \subseteq settled \union {e}
    /\ owner' # None => owner' \in Owner /\ owner'.exec = e /\ owner'.proc = ex[e].proc
    /\ owner' \in {owner, None} \/ ex[e].at \in AtWork
    /\ x.at = "claim" => owner' = None
    /\ MovesWorker(e, x)
    /\ \/ journal' = journal
       \/ /\ ex[e].at \in AtWork
          /\ journal' \in {"absent", "pristine", "pending", "written", "sealed"}
          /\ Unused(journal') => tx.status = "PREPARED"
    /\ extra' \subseteq {"checkpoint", "generation"}

LEMMA MovesBasics ==
    ASSUME IInv, NEW e \in Exec, NEW x, Moves(e, x)
    PROVE  /\ TypeOK' /\ StateFits' /\ CachesAreOld' /\ LiveExecutionIsNotStopped'
           /\ ex'[e] = x /\ \A d \in Exec \ {e} : ex'[d] = ex[d]
           /\ tx' = tx \/ tx'.rev = tx.rev + 1
<1>1. ex'[e] = x /\ \A d \in Exec \ {e} : ex'[d] = ex[d]
    BY DEF Moves, IInv, TypeOK
<1>2. /\ tx' \in Tx /\ tx'.rev \in Nat /\ tx.rev <= tx'.rev
      /\ tx' = tx \/ tx'.rev = tx.rev + 1
    BY Types DEF Moves, Swaps, Tx
<1>3. x.state.rev <= tx'.rev
    BY <1>2, Types DEF Moves, IInv, CachesAreOld
<1>4. CachesAreOld'
    <2>1. \A d \in Exec : ex'[d].state.rev <= tx'.rev
        BY <1>1, <1>2, <1>3, Types DEF IInv, CachesAreOld
    <2>2. \A r \in Recon : rc'[r].seen.rev <= tx'.rev
        BY <1>2, Types DEF IInv, CachesAreOld, Moves
    <2> QED BY <2>1, <2>2 DEF CachesAreOld
<1>5. StateFits'
    BY <1>1, Types DEF Moves, StateFits
<1>6. LiveExecutionIsNotStopped'
    <2> SUFFICES ASSUME NEW d \in Exec, ex'[d].proc \in alive, ex'[d].at \in AtWork
                 PROVE  \/ tx' = ex'[d].state
                        \/ /\ faults' > 0 /\ ex'[d].at = "abort"
                           /\ tx'.rev = ex'[d].state.rev + 1 /\ tx'.status = "RUNNING"
        BY DEF LiveExecutionIsNotStopped, Moves
    <2>1. d = e
        BY <1>1, OneActive, WorkingIsActive DEF Moves
    <2> QED BY <1>1, <2>1 DEF Moves
<1>7. TypeOK'
    <2>1. ex' \in [Exec -> Execution]
        BY DEF Moves, IInv, TypeOK
    <2>2. wk' \in [Exec -> {"none", "up", "leased", "begun", "edited", "gone"}]
        BY DEF Moves, MovesWorker, IInv, TypeOK
    <2>3. lane' \in Lane \union {None} /\ settled' \subseteq Exec
        BY DEF Moves, IInv, TypeOK
    <2>4. owner' \in Owner \union {None}
        BY DEF Moves
    <2>5. /\ journal' \in {"absent", "pristine", "pending", "written", "sealed"}
          /\ extra' \in SUBSET {"checkpoint", "generation"}
        BY DEF Moves, IInv, TypeOK
    <2>6. UNCHANGED <<alive, rc, wrote, orphans, crashes>> /\ faults' \in 0..MaxFault
        BY DEF Moves, history
    <2> QED BY <1>2, <2>1, <2>2, <2>3, <2>4, <2>5, <2>6 DEF IInv, TypeOK
<1> QED BY <1>1, <1>2, <1>4, <1>5, <1>6, <1>7

LEMMA MovesLane ==
    ASSUME IInv, NEW e \in Exec, NEW x, Moves(e, x) PROVE LaneIsHeld' /\ OwnerIsOwn'
<1>1. ex'[e] = x /\ \A d \in Exec \ {e} : ex'[d] = ex[d]
    BY MovesBasics
<1>2. ASSUME NEW d \in Exec, Active(d)' PROVE d = e /\ x.at # "over"
    BY <1>1, <1>2, OneActive DEF Moves, Active
<1>3. lane = [exec |-> e, proc |-> ex[e].proc] /\ lane # None /\ lane.exec = e
    BY Types, Constants DEF IInv, LaneIsHeld, Moves, Active, Lane
<1>4. LaneIsHeld'
    <2>1. \A d \in Exec : Active(d)' => lane' = [exec |-> d, proc |-> ex'[d].proc]
        BY <1>1, <1>2, <1>3 DEF Moves
    <2>2. lane' # None => ex'[lane'.exec].at # "idle" /\ lane'.proc = ex'[lane'.exec].proc
        BY <1>1, <1>3 DEF Moves
    <2>3. \A d \in settled' : ex'[d].at = "over"
        <3>1. e \notin settled /\ settled \subseteq Exec
            BY DEF Moves, Active, IInv, LaneIsHeld, TypeOK
        <3> QED BY <1>1, <3>1 DEF Moves, IInv, LaneIsHeld
    <2> QED BY <2>1, <2>2, <2>3 DEF LaneIsHeld
<1>5. OwnerIsOwn'
    <2>1. tx'.status = "none" => owner' = None
        <3>1. CASE tx' = tx /\ tx.status = "none"
            <4>1. ex[e].at \notin AtWork
                BY <3>1, Types, WorkingIsActive
                DEF IInv, LiveExecutionIsNotStopped, Moves, Active, AtWork, Fits
            <4> QED BY <3>1, <4>1 DEF Moves, IInv, OwnerIsOwn
        <3> QED BY <3>1 DEF Moves, Swaps
    <2>2. \A d \in Exec : Active(d)' =>
            /\ ex'[d].at \in {"prepare", "claim"} => owner' = None
            /\ owner' # None => owner'.exec = d /\ owner'.proc = ex'[d].proc
        BY <1>1, <1>2 DEF Moves
    <2> QED BY <2>1, <2>2 DEF OwnerIsOwn
<1> QED BY <1>4, <1>5

LEMMA MovesWorkers ==
    ASSUME IInv, NEW e \in Exec, NEW x, Moves(e, x) PROVE WorkersFit'
<1>1. /\ ex'[e] = x /\ \A d \in Exec \ {e} : ex'[d] = ex[d]
      /\ tx' = tx \/ tx'.rev = tx.rev + 1
    BY MovesBasics
<1>2. /\ lane = [exec |-> e, proc |-> ex[e].proc] /\ lane # None /\ lane.exec = e
      /\ x.proc \in alive
    BY Types, Constants DEF IInv, LaneIsHeld, Moves, Active, Lane
<1>3. \A d \in Exec \ {e} : wk'[d] = wk[d]
    BY DEF Moves, MovesWorker, IInv, TypeOK
<1>4. UNCHANGED <<alive, orphans>>
    BY DEF Moves, history
<1>5. wk'[e] \in Running => x.at = "work" /\ tx' = x.state /\ tx.status # "ABORTED"
    <2>1. CASE wk' = wk /\ ex[e].at # "work"
        BY <2>1 DEF IInv, WorkersFit
    <2>2. CASE wk' = [wk EXCEPT ![e] = "gone"]
        BY <2>2 DEF IInv, TypeOK, Running, Writing
    <2>3. CASE wk' = [wk EXCEPT ![e] = "up"] /\ x.at = "work" /\ x.state = tx'
               /\ tx.status # "ABORTED"
        BY <2>3
    <2> QED BY <2>1, <2>2, <2>3 DEF Moves, MovesWorker
<1>6. \A d \in Exec \ {e} : wk[d] \in Running =>
            tx.status = "ABORTED" /\ tx' = tx /\ ex[d].proc \notin alive
    BY OthersAreOrphans DEF Moves, Swaps
<1>7. ASSUME NEW d \in Exec, wk'[d] \in Running
      PROVE  /\ ex'[d].at = "work"
             /\ \/ tx' = ex'[d].state /\ (lane' # None => lane'.exec = d)
                \/ tx'.status = "ABORTED" /\ ex'[d].proc \notin alive'
             /\ ex'[d].proc \notin alive' => d \in orphans'
    <2>1. CASE d = e
        <3>1. lane' # None => lane'.exec = e
            BY <1>2 DEF Moves
        <3> QED BY <1>1, <1>2, <1>4, <1>5, <1>7, <2>1, <3>1
    <2>2. CASE d # e
        BY <1>1, <1>3, <1>4, <1>6, <1>7, <2>2 DEF IInv, WorkersFit
    <2> QED BY <2>1, <2>2
<1>8. ASSUME NEW d1 \in Exec, NEW d2 \in Exec, wk'[d1] \in Running, wk'[d2] \in Running
      PROVE  d1 = d2
    BY <1>3, <1>5, <1>6, <1>8 DEF IInv, WorkersFit
<1> QED BY <1>7, <1>8 DEF WorkersFit

LEMMA MovesJournal ==
    ASSUME IInv, NEW e \in Exec, NEW x, Moves(e, x)
    PROVE  JournalIsFirst' /\ AbortedIsUnwritten'
<1>1. wrote' = wrote /\ orphans' = orphans
    BY DEF Moves, history
<1>2. \A d \in Exec : wk'[d] \in {"begun", "edited"} => wk[d] \in {"begun", "edited"}
    BY DEF Moves, MovesWorker, IInv, TypeOK
<1>3. wrote' \/ (\E d \in Exec : wk'[d] \in {"begun", "edited"}) => ~Unused(journal')
    <2>1. CASE journal' = journal
        BY <1>1, <1>2, <2>1 DEF IInv, JournalIsFirst
    <2>2. CASE Unused(journal') => tx.status = "PREPARED"
        <3>1. tx.status = "PREPARED" => \A d \in Exec : wk[d] \notin {"begun", "edited"}
            BY Types DEF IInv, WorkersFit, Running, Writing, Fits
        <3> QED BY <1>1, <1>2, <2>2, <3>1 DEF IInv, JournalIsFirst
    <2> QED BY <2>1, <2>2 DEF Moves
<1>4. tx'.status \in {"none", "PREPARED"} => ~wrote'
    BY <1>1 DEF Moves, Swaps, IInv, JournalIsFirst
<1>5. AbortedIsUnwritten'
    BY <1>1 DEF Moves, Swaps, IInv, JournalIsFirst, AbortedIsUnwritten
<1> QED BY <1>3, <1>4, <1>5 DEF JournalIsFirst

LEMMA MovesReconcilers ==
    ASSUME IInv, NEW e \in Exec, NEW x, Moves(e, x) PROVE ReconcilersFit'
<1>1. /\ ex'[e] = x /\ \A d \in Exec \ {e} : ex'[d] = ex[d]
      /\ tx' = tx \/ tx'.rev = tx.rev + 1
    BY MovesBasics
<1>2. UNCHANGED <<alive, rc, orphans>>
    BY DEF Moves, history
<1> SUFFICES ASSUME NEW r \in Recon
             PROVE  /\ rc[r].lease # None =>
                          \/ ex'[rc[r].lease].at = "over"
                          \/ ex'[rc[r].lease].at # "idle" /\ ex'[rc[r].lease].proc \notin alive
                    /\ rc[r].at \in {"journal", "stop"} /\ rc[r].seen = tx' =>
                          /\ \A d \in Exec : ex'[d].proc \in alive => ex'[d].at \notin AtWork
                          /\ rc[r].mine => \A d \in Exec : wk'[d] \notin Running
                    /\ /\ rc[r].at = "stop" /\ rc[r].target = "ABORTED"
                       /\ rc[r].seen = tx' /\ orphans = {}
                       => Unused(journal')
    BY <1>2 DEF IInv, ReconcilersFit, Interrupted
<1>3. rc[r].lease # None =>
        \/ ex'[rc[r].lease].at = "over"
        \/ ex'[rc[r].lease].at # "idle" /\ ex'[rc[r].lease].proc \notin alive
    <2>1. rc[r].lease \in Exec \union {None}
        BY Types DEF Reconciler
    <2> QED BY <1>1, <2>1 DEF IInv, ReconcilersFit, Moves, Active
<1>4. ASSUME rc[r].at \in {"journal", "stop"}, rc[r].seen = tx'
      PROVE  /\ tx' = tx /\ ex[e].at \notin AtWork /\ x.at \notin AtWork
             /\ wk' = wk /\ journal' = journal
    <2>1. tx' = tx
        BY <1>1, <1>4, Types DEF IInv, CachesAreOld
    <2>2. ex[e].at \notin AtWork
        BY <1>4, <2>1 DEF IInv, ReconcilersFit, Moves, Active
    <2>3. tx'.rev # tx.rev + 1
        BY <2>1, Types
    <2> QED BY <2>1, <2>2, <2>3 DEF Moves, MovesWorker, AtWork
<1>5. ASSUME rc[r].at \in {"journal", "stop"}, rc[r].seen = tx'
      PROVE  /\ \A d \in Exec : ex'[d].proc \in alive => ex'[d].at \notin AtWork
             /\ rc[r].mine => \A d \in Exec : wk'[d] \notin Running
    BY <1>1, <1>4, <1>5 DEF IInv, ReconcilersFit
<1>6. ASSUME rc[r].at = "stop", rc[r].target = "ABORTED", rc[r].seen = tx', orphans = {}
      PROVE  Unused(journal')
    BY <1>4, <1>6 DEF IInv, ReconcilersFit
<1> QED BY <1>3, <1>5, <1>6

LEMMA MovesIInv == ASSUME IInv, NEW e \in Exec, NEW x, Moves(e, x) PROVE IInv'
BY MovesBasics, MovesLane, MovesWorkers, MovesJournal, MovesReconcilers DEF IInv

-----------------------------------------------------------------------------
(* The actions of an execution *)

Places == {"idle", "prepare", "claim", "write", "journal", "run", "work", "commit", "publish",
           "abort", "recover", "finish", "unlink", "control", "over"}

\* x is execution e gone on to step l.
Gone(e, l, x) ==
    /\ x \in Execution /\ ex' = [ex EXCEPT ![e] = x] /\ x.at = l /\ x.proc = ex[e].proc
    /\ x.resumes = ex[e].resumes

LEMMA ToIs ==
    ASSUME IInv, NEW e \in Exec, NEW l \in Places, To(e, l)
    PROVE  \E x : Gone(e, l, x) /\ x.state = ex[e].state
<1> DEFINE x == [ex[e] EXCEPT !.at = l]
<1>1. ex' = [ex EXCEPT ![e] = x]
    BY DEF To
<1>2. /\ x \in Execution /\ x.at = l /\ x.proc = ex[e].proc /\ x.resumes = ex[e].resumes
      /\ x.state = ex[e].state
    BY Types DEF Execution, Places
<1> QED BY <1>1, <1>2 DEF Gone

New(e, s) == [status |-> s, rev |-> ex[e].state.rev + 1]

LEMMA NewIs ==
    ASSUME IInv, NEW e \in Exec, NEW s \in Status
    PROVE  /\ New(e, s) \in Tx /\ New(e, s).status = s
           /\ New(e, s).rev = ex[e].state.rev + 1
<1>1. ex[e].state.rev + 1 \in Nat
    BY Types
<1> QED BY <1>1 DEF New, Tx

LEMMA ToWithIs ==
    ASSUME IInv, NEW e \in Exec, NEW l \in Places, NEW s \in Status, ToWith(e, l, s)
    PROVE  \E x : Gone(e, l, x) /\ x.state = New(e, s)
<1> DEFINE n == New(e, s)
           x == [ex[e] EXCEPT !.at = l, !.state = n]
<1>1. ex' = [ex EXCEPT ![e] = x]
    BY DEF ToWith, New
<1>2. n \in Tx
    BY NewIs
<1> HIDE DEF n
<1>3. /\ x \in Execution /\ x.at = l /\ x.proc = ex[e].proc /\ x.resumes = ex[e].resumes
      /\ x.state = n
    BY <1>2, Types DEF Execution, Places
<1> QED BY <1>1, <1>3 DEF Gone, n

LEMMA Faulty ==
    ASSUME IInv, UNCHANGED faults \/ Fault
    PROVE  /\ faults' \in 0..MaxFault /\ faults' >= faults /\ (Fault => faults' > 0)
<1>1. faults \in 0..MaxFault
    BY DEF IInv, TypeOK
<1> QED BY <1>1, Constants DEF Fault

\* What an execution knows when it goes on.
LEMMA BusyIs ==
    ASSUME IInv, NEW e \in Exec, NEW l, Busy(e, l), l \in Places \ {"idle", "over"}
    PROVE  /\ Active(e) /\ ex[e].at = l /\ Fits(ex[e]) /\ ex[e].state \in Tx
           /\ owner # None => owner \in Owner /\ owner.exec = e /\ owner.proc = ex[e].proc
           /\ l \in {"prepare", "claim"} => owner = None
           /\ l \in AtWork =>
                 \/ tx = ex[e].state
                 \/ /\ faults > 0 /\ l = "abort" /\ tx.rev = ex[e].state.rev + 1
                    /\ tx.status = "RUNNING"
<1>1. Active(e)
    BY DEF Busy, Active
<1>2. owner \in Owner \union {None}
    BY DEF IInv, TypeOK
<1> QED BY <1>1, <1>2, Types DEF Busy, IInv, OwnerIsOwn, LiveExecutionIsNotStopped

\* Either outcome of a persist is a swap of the record.
LEMMA PersistSwaps ==
    ASSUME IInv, NEW e \in Exec, NEW s \in Status \ {"none"},
           tx' = tx \/ (tx = ex[e].state /\ tx' = New(e, s)), ex[e].state.status # "ABORTED",
           s = "ABORTED" => ex[e].state.status = "PREPARED",
           s = "PREPARED" => ex[e].state.status = "none"
    PROVE  Swaps(e)
BY NewIs DEF Swaps

LEMMA PrepareIInv == ASSUME IInv, NEW e \in Exec, Prepare(e) PROVE IInv'
<1>1. /\ Busy(e, "prepare") /\ UNCHANGED <<files, settled, alive, wk, rc, history>>
    BY DEF Prepare
<1>2. Active(e) /\ ex[e].at = "prepare" /\ ex[e].state = Fresh /\ ~ex[e].resumes /\ owner = None
    BY <1>1, BusyIs DEF Places, Fits
<1>3. tx' = tx \/ (tx = ex[e].state /\ tx' = New(e, "PREPARED"))
    BY DEF Prepare, Persist, New
<1>4. Swaps(e)
    BY <1>2, <1>3, PersistSwaps DEF Status, Incomplete, Fresh
<1>5. faults' \in 0..MaxFault /\ faults' >= faults
    BY Faulty DEF Prepare, Persist
<1>6. owner' = owner /\ journal' = journal /\ extra' = extra
    BY <1>1 DEF files
<1>7. extra \subseteq {"checkpoint", "generation"}
    BY DEF IInv, TypeOK
<1>8. CASE tx = ex[e].state /\ tx' = New(e, "PREPARED") /\ ToWith(e, "claim", "PREPARED") /\ UNCHANGED lane
    <2>1. PICK x : Gone(e, "claim", x) /\ x.state = New(e, "PREPARED")
        BY <1>8, ToWithIs DEF Places, Status, Incomplete
    <2>2. tx'.rev = tx.rev + 1 /\ tx'.status = "PREPARED"
        BY <1>8, NewIs DEF Status, Incomplete
    <2>3. Fits(x)
        BY <1>2, <1>8, <2>1, <2>2 DEF Fits, Gone
    <2>4. Moves(e, x)
        BY <1>1, <1>2, <1>4, <1>5, <1>6, <1>7, <1>8, <2>1, <2>2, <2>3
        DEF Moves, MovesWorker, Gone
    <2> QED BY <2>4, MovesIInv
<1>9. CASE To(e, "over") /\ lane' = None
    <2>1. PICK x : Gone(e, "over", x) /\ x.state = ex[e].state
        BY <1>9, ToIs DEF Places
    <2>2. Fits(x)
        BY <2>1 DEF Fits, Gone
    <2>3. Moves(e, x)
        BY <1>1, <1>2, <1>4, <1>5, <1>6, <1>7, <1>9, <2>1, <2>2
        DEF Moves, MovesWorker, Gone, AtWork
    <2> QED BY <2>3, MovesIInv
<1> QED BY <1>8, <1>9 DEF Prepare, Persist, New

\* A step of an execution that leaves the record, the lane and the workers alone.
LEMMA CalmIInv ==
    ASSUME IInv, NEW e \in Exec, NEW l \in Places \ {"idle", "prepare", "claim"}, NEW x,
           Gone(e, l, x), Active(e), Fits(x), x.state = ex[e].state, ex[e].at # "work",
           UNCHANGED <<tx, extra, lane, settled, alive, wk, rc, history>>,
           UNCHANGED faults \/ Fault,
           l \in AtWork => ex[e].at \in AtWork \ {"abort"},
           \/ owner' \in {owner, None}
           \/ /\ ex[e].at \in AtWork /\ owner' \in Owner
              /\ owner'.exec = e /\ owner'.proc = ex[e].proc,
           \/ journal' = journal
           \/ /\ ex[e].at \in AtWork /\ journal' \in {"absent", "pristine"}
              /\ tx.status = "PREPARED"
    PROVE  IInv'
<1>1. owner # None => owner \in Owner /\ owner.exec = e /\ owner.proc = ex[e].proc
    BY DEF IInv, TypeOK, OwnerIsOwn
<1>2. extra \subseteq {"checkpoint", "generation"}
    BY DEF IInv, TypeOK
<1>3. l \in AtWork => tx = ex[e].state
    BY DEF IInv, LiveExecutionIsNotStopped, Active
<1>4. faults' \in 0..MaxFault /\ faults' >= faults
    BY Faulty
<1>5. Moves(e, x)
    BY <1>1, <1>2, <1>3, <1>4 DEF Moves, MovesWorker, Gone, Swaps
<1> QED BY <1>5, MovesIInv

LEMMA ClaimIInv == ASSUME IInv, NEW e \in Exec, Claim(e) PROVE IInv'
<1>1. /\ Busy(e, "claim")
      /\ UNCHANGED <<tx, journal, extra, lane, settled, alive, wk, rc, history>>
    BY DEF Claim
<1>2. /\ Active(e) /\ ex[e].at = "claim" /\ owner = None /\ ex[e].proc \in Proc
      /\ ex[e].state.status = IF ex[e].resumes THEN "RECOVERY_REQUIRED" ELSE "PREPARED"
    BY <1>1, BusyIs, Types DEF Places, Fits, Active
<1>3. CASE /\ To(e, "write") /\ UNCHANGED faults
           /\ owner' = [exec |-> e, proc |-> ex[e].proc, whole |-> FALSE]
    <2>1. PICK x : Gone(e, "write", x) /\ x.state = ex[e].state
        BY <1>3, ToIs DEF Places
    <2>2. Fits(x)
        BY <1>2, <2>1 DEF Fits, Gone
    <2>3. owner' \in Owner /\ owner'.exec = e /\ owner'.proc = ex[e].proc
        BY <1>2, <1>3 DEF Owner
    <2> QED BY <1>1, <1>2, <1>3, <2>1, <2>2, <2>3, CalmIInv DEF Places, AtWork
<1>4. CASE Fault /\ To(e, IF ex[e].resumes THEN "control" ELSE "abort") /\ UNCHANGED owner
    <2> DEFINE l == IF ex[e].resumes THEN "control" ELSE "abort"
    <2>1. l \in {"control", "abort"}
        OBVIOUS
    <2>2. PICK x : Gone(e, l, x) /\ x.state = ex[e].state
        BY <1>4, ToIs DEF Places
    <2>3. Fits(x)
        BY <1>2, <2>2 DEF Fits, Gone
    <2> HIDE DEF l
    <2> QED BY <1>1, <1>2, <1>4, <2>1, <2>2, <2>3, CalmIInv DEF Places, AtWork
<1> QED BY <1>2, <1>3, <1>4 DEF Claim

LEMMA WriteOwnerIInv == ASSUME IInv, NEW e \in Exec, WriteOwner(e) PROVE IInv'
<1>1. /\ Busy(e, "write")
      /\ UNCHANGED <<tx, journal, extra, lane, settled, alive, wk, rc, history>>
    BY DEF WriteOwner
<1>2. /\ Active(e) /\ ex[e].at = "write"
      /\ ex[e].state.status = IF ex[e].resumes THEN "RECOVERY_REQUIRED" ELSE "PREPARED"
      /\ owner # None => owner \in Owner /\ owner.exec = e /\ owner.proc = ex[e].proc
    BY <1>1, BusyIs DEF Places, Fits
<1>3. CASE /\ owner # None /\ owner' = [owner EXCEPT !.whole = TRUE]
           /\ ex' = [ex EXCEPT ![e].at = IF ex[e].resumes THEN "run" ELSE "journal",
                               ![e].owns = TRUE]
           /\ UNCHANGED faults
    <2> DEFINE l == IF ex[e].resumes THEN "run" ELSE "journal"
               x == [ex[e] EXCEPT !.at = l, !.owns = TRUE]
    <2>1. l \in {"run", "journal"} /\ (l = "journal" <=> ~ex[e].resumes)
        OBVIOUS
    <2>2. ex' = [ex EXCEPT ![e] = x]
        BY <1>3
    <2> HIDE DEF l
    <2>3. /\ x \in Execution /\ x.at = l /\ x.proc = ex[e].proc
          /\ x.resumes = ex[e].resumes /\ x.state = ex[e].state
        BY <2>1, Types DEF Execution
    <2> HIDE DEF x
    <2>4. Gone(e, l, x) /\ Fits(x)
        BY <1>2, <2>1, <2>2, <2>3 DEF Gone, Fits
    <2>5. owner' \in Owner /\ owner'.exec = e /\ owner'.proc = ex[e].proc
        BY <1>2, <1>3 DEF Owner
    <2> QED BY <1>1, <1>2, <1>3, <2>1, <2>3, <2>4, <2>5, CalmIInv DEF Places, AtWork
<1>4. CASE Fault /\ To(e, "control") /\ UNCHANGED owner
    <2>1. PICK x : Gone(e, "control", x) /\ x.state = ex[e].state
        BY <1>4, ToIs DEF Places
    <2>2. Fits(x)
        BY <2>1 DEF Fits, Gone
    <2> QED BY <1>1, <1>2, <1>4, <2>1, <2>2, CalmIInv DEF Places, AtWork
<1>5. CASE /\ UNCHANGED faults \/ Fault
           /\ To(e, IF ex[e].resumes THEN "control" ELSE "abort") /\ owner' = None
    <2> DEFINE l == IF ex[e].resumes THEN "control" ELSE "abort"
    <2>1. l \in {"control", "abort"}
        OBVIOUS
    <2>2. PICK x : Gone(e, l, x) /\ x.state = ex[e].state
        BY <1>5, ToIs DEF Places
    <2>3. Fits(x)
        BY <1>2, <2>2 DEF Fits, Gone
    <2> HIDE DEF l
    <2> QED BY <1>1, <1>2, <1>5, <2>1, <2>2, <2>3, CalmIInv DEF Places, AtWork
<1> QED BY <1>3, <1>4, <1>5 DEF WriteOwner

LEMMA PrepareJournalIInv == ASSUME IInv, NEW e \in Exec, PrepareJournal(e) PROVE IInv'
<1>1. /\ Busy(e, "journal")
      /\ UNCHANGED <<tx, owner, extra, lane, settled, alive, wk, rc, history>>
      /\ journal' \in {"absent", "pristine"} /\ (UNCHANGED faults \/ Fault)
    BY DEF PrepareJournal
<1>2. /\ Active(e) /\ ex[e].at = "journal" /\ tx = ex[e].state /\ tx.status = "PREPARED"
      /\ ~ex[e].resumes
    BY <1>1, BusyIs DEF Places, Fits, AtWork
<1>3. PICK l \in {"run", "abort"} : To(e, l)
    BY DEF PrepareJournal
<1>4. PICK x : Gone(e, l, x) /\ x.state = ex[e].state
    BY <1>3, ToIs DEF Places
<1>5. Fits(x)
    BY <1>2, <1>3, <1>4 DEF Fits, Gone
<1> QED BY <1>1, <1>2, <1>3, <1>4, <1>5, CalmIInv DEF Places, AtWork

LEMMA FinishIInv == ASSUME IInv, NEW e \in Exec, Finish(e) PROVE IInv'
<1>1. Busy(e, "finish") /\ UNCHANGED <<tx, files, lane, settled, alive, wk, rc, history, faults>>
    BY DEF Finish
<1>2. Active(e) /\ ex[e].at = "finish"
    BY <1>1, BusyIs DEF Places
<1>3. PICK l \in {"unlink", "control"} : To(e, l)
    BY DEF Finish
<1>4. PICK x : Gone(e, l, x) /\ x.state = ex[e].state
    BY <1>3, ToIs DEF Places
<1>5. Fits(x)
    BY <1>3, <1>4 DEF Fits, Gone
<1> QED BY <1>1, <1>2, <1>3, <1>4, <1>5, CalmIInv DEF Places, AtWork, files

LEMMA UnlinkOwnerIInv == ASSUME IInv, NEW e \in Exec, UnlinkOwner(e) PROVE IInv'
<1>1. /\ Busy(e, "unlink") /\ To(e, "control") /\ owner' \in {owner, None}
      /\ UNCHANGED faults \/ Fault
      /\ UNCHANGED <<tx, journal, extra, lane, settled, alive, wk, rc, history>>
    BY DEF UnlinkOwner
<1>2. Active(e) /\ ex[e].at = "unlink"
    BY <1>1, BusyIs DEF Places
<1>3. PICK x : Gone(e, "control", x) /\ x.state = ex[e].state
    BY <1>1, ToIs DEF Places
<1>4. Fits(x)
    BY <1>3 DEF Fits, Gone
<1> QED BY <1>1, <1>2, <1>3, <1>4, CalmIInv DEF Places, AtWork

\* A persist of an execution that leaves the lane and the workers alone.
LEMMA SwapIInv ==
    ASSUME IInv, NEW e \in Exec, NEW l \in Places \ {"idle", "prepare", "claim"}, NEW x,
           NEW s \in Status \ {"none", "PREPARED"},
           Gone(e, l, x), Active(e), Fits(x), ex[e].at # "work",
           tx' = tx \/ (tx = ex[e].state /\ tx' = New(e, s)),
           x.state = ex[e].state \/ x.state = tx',
           ex[e].state.status # "ABORTED", s = "ABORTED" => ex[e].state.status = "PREPARED",
           l \in AtWork => /\ ex[e].at \in AtWork
                          /\ \/ tx' = x.state
                             \/ /\ Fault /\ l = "abort" /\ s = "RUNNING"
                                /\ x.state = ex[e].state /\ tx' = New(e, s),
           extra' \subseteq {"checkpoint", "generation"}, UNCHANGED faults \/ Fault,
           UNCHANGED <<owner, journal, lane, settled, alive, wk, rc, history>>
    PROVE  IInv'
<1>1. owner # None => owner \in Owner /\ owner.exec = e /\ owner.proc = ex[e].proc
    BY DEF IInv, TypeOK, OwnerIsOwn
<1>2. Swaps(e)
    BY PersistSwaps
<1>3. faults' \in 0..MaxFault /\ faults' >= faults /\ (Fault => faults' > 0)
    BY Faulty
<1>4. New(e, s).status = s /\ New(e, s).rev = ex[e].state.rev + 1
    BY NewIs
<1>5. l \in AtWork => \/ tx' = x.state
                      \/ /\ faults' > 0 /\ x.at = "abort" /\ tx'.rev = x.state.rev + 1
                         /\ tx'.status = "RUNNING"
    BY <1>3, <1>4 DEF Gone
<1>6. Moves(e, x)
    BY <1>1, <1>2, <1>3, <1>5 DEF Moves, MovesWorker, Gone
<1> QED BY <1>6, MovesIInv

LEMMA AttemptAbortIInv == ASSUME IInv, NEW e \in Exec, AttemptAbort(e) PROVE IInv'
<1> DEFINE l == AfterOwner(e)
<1>1. Busy(e, "abort") /\ UNCHANGED <<files, lane, settled, alive, wk, rc, history>>
    BY DEF AttemptAbort
<1>2. Active(e) /\ ex[e].at = "abort" /\ ex[e].state.status = "PREPARED"
    BY <1>1, BusyIs DEF Places, Fits
<1>3. l \in {"finish", "control"}
    BY DEF AfterOwner
<1> HIDE DEF l
<1>4. /\ tx' = tx \/ (tx = ex[e].state /\ tx' = New(e, "ABORTED"))
      /\ UNCHANGED faults \/ Fault
      /\ To(e, l) \/ (tx' = New(e, "ABORTED") /\ ToWith(e, l, "ABORTED"))
    BY DEF AttemptAbort, Persist, New, l
<1>5. PICK x : Gone(e, l, x) /\ (x.state = ex[e].state \/ x.state = tx')
    BY <1>3, <1>4, ToIs, ToWithIs DEF Places, Status
<1>6. Fits(x)
    BY <1>3, <1>5 DEF Fits, Gone
<1>7. extra' \subseteq {"checkpoint", "generation"} /\ UNCHANGED <<owner, journal>>
    BY <1>1 DEF IInv, TypeOK, files
<1> QED BY <1>1, <1>2, <1>3, <1>4, <1>5, <1>6, <1>7, SwapIInv DEF Places, Status, AtWork

LEMMA AttemptRecoveryIInv == ASSUME IInv, NEW e \in Exec, AttemptRecovery(e) PROVE IInv'
<1>1. Busy(e, "recover") /\ UNCHANGED <<files, lane, settled, alive, wk, rc, history>>
    BY DEF AttemptRecovery
<1>2. Active(e) /\ ex[e].at = "recover" /\ ex[e].state.status \in {"RUNNING", "COMMITTING"}
    BY <1>1, BusyIs DEF Places, Fits
<1> DEFINE s == "RECOVERY_REQUIRED"
<1>3. /\ tx' = tx \/ (tx = ex[e].state /\ tx' = New(e, s))
      /\ UNCHANGED faults \/ Fault
      /\ To(e, "finish") \/ (tx' = New(e, s) /\ ToWith(e, "finish", s))
    BY DEF AttemptRecovery, Persist, New
<1>4. PICK x : Gone(e, "finish", x) /\ (x.state = ex[e].state \/ x.state = tx')
    BY <1>3, ToIs, ToWithIs DEF Places, Status
<1>5. Fits(x)
    BY <1>4 DEF Fits, Gone
<1>6. extra' \subseteq {"checkpoint", "generation"} /\ UNCHANGED <<owner, journal>>
    BY <1>1 DEF IInv, TypeOK, files
<1> QED BY <1>1, <1>2, <1>3, <1>4, <1>5, <1>6, SwapIInv DEF Places, Status, AtWork

LEMMA CommitIInv == ASSUME IInv, NEW e \in Exec, Commit(e) PROVE IInv'
<1> DEFINE s == "COMMITTING"
<1>1. Busy(e, "commit") /\ UNCHANGED <<files, lane, settled, alive, wk, rc, history>>
    BY DEF Commit
<1>2. Active(e) /\ ex[e].at = "commit" /\ ex[e].state.status = "RUNNING"
    BY <1>1, BusyIs DEF Places, Fits
<1>3. /\ tx' = tx \/ (tx = ex[e].state /\ tx' = New(e, s))
      /\ UNCHANGED faults \/ Fault
      /\ To(e, "recover") \/ (tx' = New(e, s) /\ ToWith(e, "publish", s))
    BY DEF Commit, Persist, New
<1>4. extra' \subseteq {"checkpoint", "generation"} /\ UNCHANGED <<owner, journal>>
    BY <1>1 DEF IInv, TypeOK, files
<1>5. CASE To(e, "recover")
    <2>1. PICK x : Gone(e, "recover", x) /\ x.state = ex[e].state
        BY <1>5, ToIs DEF Places
    <2>2. Fits(x)
        BY <1>2, <2>1 DEF Fits, Gone
    <2> QED BY <1>1, <1>2, <1>3, <1>4, <2>1, <2>2, SwapIInv DEF Places, Status, Incomplete, AtWork
<1>6. CASE tx' = New(e, s) /\ ToWith(e, "publish", s)
    <2>1. PICK x : Gone(e, "publish", x) /\ x.state = New(e, s)
        BY <1>6, ToWithIs DEF Places, Status, Incomplete
    <2>2. Fits(x)
        BY <2>1, NewIs DEF Fits, Gone, Status, Incomplete
    <2> QED BY <1>1, <1>2, <1>3, <1>4, <1>6, <2>1, <2>2, SwapIInv
            DEF Places, Status, Incomplete, AtWork
<1> QED BY <1>3, <1>5, <1>6

LEMMA PublishIInv == ASSUME IInv, NEW e \in Exec, Publish(e) PROVE IInv'
<1> DEFINE s == "DONE"
<1>1. Busy(e, "publish") /\ UNCHANGED <<owner, journal, lane, settled, alive, wk, rc, history>>
    BY DEF Publish
<1>2. Active(e) /\ ex[e].at = "publish" /\ ex[e].state.status = "COMMITTING"
    BY <1>1, BusyIs DEF Places, Fits
<1>3. /\ tx' = tx \/ (tx = ex[e].state /\ tx' = New(e, s))
      /\ UNCHANGED faults \/ Fault
      /\ To(e, "recover") \/ (tx' = New(e, s) /\ ToWith(e, "finish", s))
      /\ extra' \in {extra, extra \union {"generation"}}
    BY DEF Publish, Persist, New
<1>4. extra' \subseteq {"checkpoint", "generation"}
    BY <1>3 DEF IInv, TypeOK
<1>5. CASE To(e, "recover")
    <2>1. PICK x : Gone(e, "recover", x) /\ x.state = ex[e].state
        BY <1>5, ToIs DEF Places
    <2>2. Fits(x)
        BY <1>2, <2>1 DEF Fits, Gone
    <2> QED BY <1>1, <1>2, <1>3, <1>4, <2>1, <2>2, SwapIInv DEF Places, Status, AtWork
<1>6. CASE tx' = New(e, s) /\ ToWith(e, "finish", s)
    <2>1. PICK x : Gone(e, "finish", x) /\ x.state = New(e, s)
        BY <1>6, ToWithIs DEF Places, Status
    <2>2. Fits(x)
        BY <2>1 DEF Fits, Gone
    <2> QED BY <1>1, <1>2, <1>3, <1>4, <1>6, <2>1, <2>2, SwapIInv DEF Places, Status, AtWork
<1> QED BY <1>3, <1>5, <1>6

LEMMA RunIInv == ASSUME IInv, NEW e \in Exec, Run(e) PROVE IInv'
<1> DEFINE s == "RUNNING"
           l == IF ex[e].resumes THEN "finish" ELSE "abort"
<1>1. Busy(e, "run") /\ UNCHANGED <<files, lane, settled, alive, rc, history>>
    BY DEF Run
<1>2. /\ Active(e) /\ ex[e].at = "run" /\ tx = ex[e].state
      /\ ex[e].state.status = IF ex[e].resumes THEN "RECOVERY_REQUIRED" ELSE "PREPARED"
      /\ owner # None => owner \in Owner /\ owner.exec = e /\ owner.proc = ex[e].proc
    BY <1>1, BusyIs DEF Places, Fits, AtWork
<1>3. extra' \subseteq {"checkpoint", "generation"} /\ UNCHANGED <<owner, journal, extra>>
    BY <1>1 DEF IInv, TypeOK, files
<1>4. CASE /\ tx' = New(e, s) /\ ToWith(e, "work", s) /\ wk' = [wk EXCEPT ![e] = "up"]
           /\ UNCHANGED faults
    <2>1. PICK x : Gone(e, "work", x) /\ x.state = New(e, s)
        BY <1>4, ToWithIs DEF Places, Status, Incomplete
    <2>2. New(e, s).status = "RUNNING" /\ tx'.rev = tx.rev + 1
        BY <1>2, <1>4, NewIs DEF Status, Incomplete
    <2>3. Fits(x)
        BY <2>1, <2>2 DEF Fits, Gone
    <2>4. Swaps(e)
        BY <1>2, <1>4, PersistSwaps DEF Status, Incomplete
    <2>5. faults' \in 0..MaxFault /\ faults' >= faults
        BY <1>4, Faulty
    <2>6. tx.status # "ABORTED"
        BY <1>2
    <2>7. Moves(e, x)
        BY <1>1, <1>2, <1>3, <1>4, <2>1, <2>2, <2>3, <2>4, <2>5, <2>6
        DEF Moves, MovesWorker, Gone, AtWork
    <2> QED BY <2>7, MovesIInv
<1>5. CASE Fault /\ To(e, l) /\ UNCHANGED wk /\ (tx' = tx \/ tx' = New(e, s))
    <2>1. l \in {"finish", "abort"}
        OBVIOUS
    <2>2. PICK x : Gone(e, l, x) /\ x.state = ex[e].state
        BY <1>5, ToIs DEF Places
    <2>3. Fits(x)
        BY <1>2, <2>2 DEF Fits, Gone
    <2>4. l \in AtWork => l = "abort"
        BY DEF AtWork
    <2> HIDE DEF l
    <2> QED BY <1>1, <1>2, <1>3, <1>5, <2>1, <2>2, <2>3, <2>4, SwapIInv
            DEF Places, Status, Incomplete, AtWork
<1> QED BY <1>2, <1>4, <1>5 DEF Run, Persist, New

LEMMA EndWorkIInv == ASSUME IInv, NEW e \in Exec, EndWork(e) PROVE IInv'
<1>1. /\ Busy(e, "work") /\ wk' = [wk EXCEPT ![e] = "gone"]
      /\ UNCHANGED <<tx, owner, lane, settled, alive, rc, history, faults>>
    BY DEF EndWork
<1>2. /\ Active(e) /\ ex[e].at = "work" /\ tx = ex[e].state /\ tx.status = "RUNNING"
      /\ owner # None => owner \in Owner /\ owner.exec = e /\ owner.proc = ex[e].proc
    BY <1>1, BusyIs DEF Places, Fits, AtWork
<1>3. PICK l \in {"recover", "commit"} : To(e, l)
    BY Zenon DEF EndWork
<1>4. journal' = journal \/ journal' = "sealed"
    BY DEF EndWork
<1>5. extra' \subseteq {"checkpoint", "generation"}
    BY DEF EndWork, IInv, TypeOK
<1>6. PICK x : Gone(e, l, x) /\ x.state = ex[e].state
    BY <1>3, ToIs DEF Places
<1>7. Fits(x)
    BY <1>2, <1>3, <1>6 DEF Fits, Gone
<1>8. faults' \in 0..MaxFault /\ faults' >= faults
    BY <1>1, Faulty
<1>9. Moves(e, x)
    BY <1>1, <1>2, <1>3, <1>4, <1>5, <1>6, <1>7, <1>8
    DEF Moves, MovesWorker, Swaps, Gone, AtWork, Unused
<1> QED BY <1>9, MovesIInv

LEMMA HandOverIInv == ASSUME IInv, NEW e \in Exec, HandOver(e) PROVE IInv'
<1>1. /\ Busy(e, "work") /\ wk' = [wk EXCEPT ![e] = "up"]
      /\ extra' = extra \union {"checkpoint"}
      /\ UNCHANGED <<tx, owner, journal, lane, settled, alive, ex, rc, history, faults>>
    BY DEF HandOver
<1>2. /\ Active(e) /\ ex[e].at = "work" /\ tx = ex[e].state /\ tx.status = "RUNNING"
      /\ Fits(ex[e])
      /\ owner # None => owner \in Owner /\ owner.exec = e /\ owner.proc = ex[e].proc
    BY <1>1, BusyIs DEF Places, Fits, AtWork
<1>3. extra' \subseteq {"checkpoint", "generation"}
    BY <1>1 DEF IInv, TypeOK
<1>4. ex[e] \in Execution /\ ex' = [ex EXCEPT ![e] = ex[e]]
    BY <1>1, Types DEF IInv, TypeOK
<1>5. faults' \in 0..MaxFault /\ faults' >= faults
    BY <1>1, Faulty
<1>6. Moves(e, ex[e])
    BY <1>1, <1>2, <1>3, <1>4, <1>5 DEF Moves, MovesWorker, Swaps, AtWork
<1> QED BY <1>6, MovesIInv

\* The controller leaves, with or without the lane.
LEMMA OverIInv ==
    ASSUME IInv, NEW e \in Exec, NEW x, Gone(e, "over", x), Active(e), ex[e].at = "control",
           x.state = ex[e].state \/ x.state = tx',
           \/ tx' = tx
           \/ /\ tx = ex[e].state /\ tx' = New(e, "ABORTED")
              /\ ex[e].state.status = "PREPARED",
           lane' \in {lane, None}, settled' \subseteq settled \union {e},
           UNCHANGED faults \/ Fault, UNCHANGED <<files, alive, wk, rc, history>>
    PROVE  IInv'
<1>1. owner # None => owner \in Owner /\ owner.exec = e /\ owner.proc = ex[e].proc
    BY DEF IInv, TypeOK, OwnerIsOwn
<1>2. Swaps(e)
    <2>1. CASE tx' = tx
        BY <2>1 DEF Swaps
    <2>2. CASE /\ tx = ex[e].state /\ tx' = New(e, "ABORTED")
               /\ ex[e].state.status = "PREPARED"
        BY <2>2, PersistSwaps DEF Status
    <2> QED BY <2>1, <2>2
<1>3. faults' \in 0..MaxFault /\ faults' >= faults
    BY Faulty
<1>4. Fits(x)
    BY DEF Fits, Gone
<1>5. extra' \subseteq {"checkpoint", "generation"} /\ UNCHANGED <<owner, journal>>
    BY DEF IInv, TypeOK, files
<1>6. Moves(e, x)
    BY <1>1, <1>2, <1>3, <1>4, <1>5 DEF Moves, MovesWorker, Gone, AtWork
<1> QED BY <1>6, MovesIInv

LEMMA ControlIInv == ASSUME IInv, NEW e \in Exec, Control(e) PROVE IInv'
<1>1. Busy(e, "control") /\ UNCHANGED <<files, alive, wk, rc, history>>
    BY DEF Control
<1>2. Active(e) /\ ex[e].at = "control"
    BY <1>1, BusyIs DEF Places
<1>3. /\ lane' \in {lane, None} /\ settled' \subseteq settled \union {e}
      /\ UNCHANGED faults \/ Fault
      /\ \/ tx' = tx
         \/ /\ tx = ex[e].state /\ tx' = New(e, "ABORTED") /\ ex[e].state.status = "PREPARED"
      /\ To(e, "over") \/ (tx' = New(e, "ABORTED") /\ ToWith(e, "over", "ABORTED"))
    BY Zenon DEF Control, Persist, Retain, ClosesUnderLane, New
<1>4. PICK x : Gone(e, "over", x) /\ (x.state = ex[e].state \/ x.state = tx')
    BY <1>3, ToIs, ToWithIs DEF Places, Status
<1> QED BY <1>1, <1>2, <1>3, <1>4, OverIInv

LEMMA AdmitIInv == ASSUME IInv, NEW e \in Exec, NEW p \in Proc, Admit(e, p) PROVE IInv'
<1>1. /\ ex[e].at = "idle" /\ p \in alive /\ LaneIsFree /\ lane' = [exec |-> e, proc |-> p]
      /\ tx.status \in {"none", "RECOVERY_REQUIRED"}
      /\ UNCHANGED <<tx, owner, journal, extra, settled, alive, wk, rc, wrote, orphans,
                     crashes, faults>>
    BY DEF Admit, files, history
<1>2. PICK x \in Execution :
          /\ ex' = [ex EXCEPT ![e] = x] /\ x.proc = p /\ Fits(x)
          /\ \/ x.at = "prepare" /\ tx.status = "none" /\ x.state = Fresh
             \/ x.at = "claim" /\ owner = None /\ x.state = tx
    <2>1. ex[e] \in Execution /\ ex[e].state = Fresh /\ ~ex[e].resumes /\ tx \in Tx
        BY <1>1, Types DEF Fits
    <2>2. CASE /\ tx.status = "none"
               /\ ex' = [ex EXCEPT ![e].at = "prepare", ![e].proc = p]
        <3> DEFINE x == [ex[e] EXCEPT !.at = "prepare", !.proc = p]
        <3>1. ex' = [ex EXCEPT ![e] = x]
            BY <2>2
        <3>2. /\ x \in Execution /\ x.at = "prepare" /\ x.proc = p /\ x.state = Fresh
              /\ ~x.resumes
            BY <2>1 DEF Execution
        <3>3. Fits(x)
            BY <3>2 DEF Fits
        <3> QED BY <2>2, <3>1, <3>2, <3>3
    <2>3. CASE /\ tx.status = "RECOVERY_REQUIRED" /\ owner = None
               /\ ex' = [ex EXCEPT ![e].at = "claim", ![e].proc = p, ![e].resumes = TRUE,
                                   ![e].state = tx]
        <3> DEFINE x == [ex[e] EXCEPT !.at = "claim", !.proc = p, !.resumes = TRUE, !.state = tx]
        <3>1. ex' = [ex EXCEPT ![e] = x]
            BY <2>3
        <3>2. /\ x \in Execution /\ x.at = "claim" /\ x.proc = p /\ x.state = tx
              /\ x.resumes
            BY <2>1 DEF Execution
        <3>3. Fits(x)
            BY <2>3, <3>2 DEF Fits
        <3> QED BY <2>3, <3>1, <3>2, <3>3
    <2> QED BY <2>2, <2>3 DEF Admit
<1>3. ex'[e] = x /\ \A d \in Exec \ {e} : ex'[d] = ex[d]
    BY <1>2 DEF IInv, TypeOK
<1>4. \A d \in Exec : ~Active(d)
    BY <1>1, Constants, Types DEF IInv, LaneIsHeld, LaneIsFree, Active, TypeOK, Lane
<1>5. \A d \in Exec : Active(d)' => d = e
    BY <1>1, <1>3, <1>4 DEF Active
<1>6. TypeOK'
    <2>1. lane' \in Lane
        BY <1>1 DEF Lane
    <2>2. ex' \in [Exec -> Execution]
        BY <1>2 DEF IInv, TypeOK
    <2> QED BY <1>1, <2>1, <2>2 DEF IInv, TypeOK
<1>7. StateFits' /\ CachesAreOld'
    <2>1. StateFits'
        BY <1>2, <1>3, Types DEF StateFits
    <2>2. x.state.rev <= tx.rev
        BY <1>2, Types DEF Fresh
    <2> QED BY <1>1, <1>3, <2>1, <2>2 DEF IInv, CachesAreOld
<1>8. LaneIsHeld'
    <2>1. \A d \in settled' : ex'[d].at = "over"
        BY <1>1, <1>3 DEF IInv, LaneIsHeld, TypeOK
    <2> QED BY <1>1, <1>2, <1>3, <1>5, <2>1 DEF LaneIsHeld
<1>9. OwnerIsOwn'
    BY <1>1, <1>2, <1>3, <1>5 DEF IInv, OwnerIsOwn
<1>10. \A d \in Exec : wk[d] \notin Running
    BY <1>1, Types DEF IInv, WorkersFit, Fits
<1>11. WorkersFit'
    BY <1>1, <1>10 DEF WorkersFit
<1>12. JournalIsFirst' /\ AbortedIsUnwritten'
    BY <1>1 DEF IInv, JournalIsFirst, AbortedIsUnwritten
<1>13. LiveExecutionIsNotStopped'
    <2> SUFFICES ASSUME NEW d \in Exec, ex'[d].proc \in alive, ex'[d].at \in AtWork
                 PROVE  tx' = ex'[d].state
        BY <1>1 DEF LiveExecutionIsNotStopped
    <2>1. d = e
        BY <1>3, <1>4, WorkingIsActive
    <2> QED BY <1>1, <1>2, <1>3, <2>1 DEF AtWork
<1>14. ReconcilersFit'
    <2> SUFFICES ASSUME NEW r \in Recon
                 PROVE  /\ rc[r].lease # None =>
                              \/ ex'[rc[r].lease].at = "over"
                              \/ /\ ex'[rc[r].lease].at # "idle"
                                 /\ ex'[rc[r].lease].proc \notin alive
                        /\ rc[r].at \in {"journal", "stop"} => rc[r].seen # tx
        BY <1>1 DEF IInv, ReconcilersFit, Interrupted
    <2>1. rc[r].lease \in Exec \union {None}
        BY Types DEF Reconciler
    <2>2. rc[r].lease # e
        BY <1>1, Constants DEF IInv, ReconcilersFit
    <2>3. rc[r].at \in {"journal", "stop"} => rc[r].seen # tx
        BY <1>1 DEF IInv, ReconcilersFit, Interrupted
    <2> QED BY <1>3, <2>1, <2>2, <2>3 DEF IInv, ReconcilersFit
<1> QED BY <1>6, <1>7, <1>8, <1>9, <1>11, <1>12, <1>13, <1>14 DEF IInv

-----------------------------------------------------------------------------
(* The workers and the processes *)

\* A worker goes on or ends, and writes at most the journal and, behind it, the files.
Works(e, w) ==
    /\ wk[e] \in Running /\ w \in Running \union {"gone"} /\ wk' = [wk EXCEPT ![e] = w]
    /\ UNCHANGED <<tx, owner, extra, lane, settled, alive, ex, rc, orphans, crashes, faults>>
    /\ journal' \in {journal, "pending", "written"} /\ wrote' \in BOOLEAN
    /\ w \in {"begun", "edited"} \/ wrote' # wrote => ~Unused(journal')

LEMMA WorksIInv == ASSUME IInv, NEW e \in Exec, NEW w, Works(e, w) PROVE IInv'
<1>1. UNCHANGED <<tx, owner, extra, lane, settled, alive, ex, rc, orphans, crashes, faults>>
    BY DEF Works
<1>2. wk'[e] = w /\ \A d \in Exec \ {e} : wk'[d] = wk[d]
    BY DEF Works, IInv, TypeOK
<1>3. \A d \in Exec : wk'[d] \in Running => wk[d] \in Running
    BY <1>2 DEF Works
<1>4. /\ ex[e].at = "work" /\ ex[e].state.status = "RUNNING"
      /\ tx = ex[e].state \/ (tx.status = "ABORTED" /\ ex[e].proc \notin alive)
      /\ ex[e].proc \notin alive => e \in orphans
    <2>1. /\ ex[e].at = "work"
          /\ tx = ex[e].state \/ (tx.status = "ABORTED" /\ ex[e].proc \notin alive)
          /\ ex[e].proc \notin alive => e \in orphans
        BY DEF Works, IInv, WorkersFit
    <2> QED BY <2>1, Types DEF Fits
<1>5. TypeOK'
    <2>1. wk' \in [Exec -> {"none", "up", "leased", "begun", "edited", "gone"}]
        BY DEF Works, Running, Writing, IInv, TypeOK
    <2>2. /\ journal' \in {"absent", "pristine", "pending", "written", "sealed"}
          /\ wrote' \in BOOLEAN
        BY DEF Works, IInv, TypeOK
    <2> QED BY <1>1, <2>1, <2>2 DEF IInv, TypeOK
<1>6. StateFits' /\ CachesAreOld' /\ LaneIsHeld' /\ OwnerIsOwn' /\ LiveExecutionIsNotStopped'
    <2>1. StateFits' /\ CachesAreOld'
        BY <1>1 DEF IInv, StateFits, CachesAreOld
    <2>2. LaneIsHeld' /\ OwnerIsOwn' /\ LiveExecutionIsNotStopped'
        BY <1>1 DEF IInv, LaneIsHeld, OwnerIsOwn, LiveExecutionIsNotStopped, Active
    <2> QED BY <2>1, <2>2
<1>7. WorkersFit'
    BY <1>1, <1>3 DEF IInv, WorkersFit
<1>8. ~Unused(journal) => ~Unused(journal')
    BY DEF Works, Unused
<1>9. JournalIsFirst'
    <2>1. wrote' \/ (\E d \in Exec : wk'[d] \in {"begun", "edited"}) => ~Unused(journal')
        BY <1>2, <1>8 DEF Works, IInv, JournalIsFirst, TypeOK
    <2>2. tx'.status \notin {"none", "PREPARED"}
        BY <1>1, <1>4
    <2> QED BY <2>1, <2>2 DEF JournalIsFirst
<1>10. AbortedIsUnwritten'
    BY <1>1, <1>4 DEF AbortedIsUnwritten
<1>11. ReconcilersFit'
    <2> SUFFICES ASSUME NEW r \in Recon
                 PROVE  /\ rc[r].at \in {"journal", "stop"} /\ rc[r].seen = tx /\ rc[r].mine =>
                              \A d \in Exec : wk'[d] \notin Running
                        /\ /\ rc[r].at = "stop" /\ rc[r].target = "ABORTED"
                           /\ rc[r].seen = tx /\ orphans = {}
                           => Unused(journal')
        BY <1>1 DEF IInv, ReconcilersFit, Interrupted
    <2>1. ASSUME rc[r].at = "stop", rc[r].seen = tx, orphans = {} PROVE FALSE
        <3>1. ex[e].proc \in alive
            BY <1>4, <2>1
        <3> QED BY <1>4, <2>1, <3>1 DEF IInv, ReconcilersFit, AtWork
    <2> QED BY <1>3, <2>1 DEF IInv, ReconcilersFit
<1> QED BY <1>5, <1>6, <1>7, <1>9, <1>10, <1>11 DEF IInv

LEMMA WorkerStepIInv == ASSUME IInv, NEW e \in Exec, WorkerStep(e) PROVE IInv'
<1>1. CASE BorrowLane(e)
    <2>1. Works(e, "leased")
        BY <1>1 DEF BorrowLane, Works, Running, Writing, files, history, IInv, TypeOK
    <2> QED BY <2>1, WorksIInv
<1>2. CASE BeginWrite(e)
    <2>1. Works(e, "begun")
        BY <1>2 DEF BeginWrite, Works, Running, Writing, Unused, history, IInv, TypeOK
    <2> QED BY <2>1, WorksIInv
<1>3. CASE Edit(e)
    <2>1. ~Unused(journal)
        BY <1>3 DEF Edit, IInv, JournalIsFirst
    <2>2. Works(e, "edited")
        BY <1>3, <2>1 DEF Edit, Works, Running, Writing, files, IInv, TypeOK
    <2> QED BY <2>2, WorksIInv
<1>4. CASE CompleteWrite(e)
    <2>1. Works(e, "up")
        BY <1>4 DEF CompleteWrite, Works, Running, Writing, Unused, history, IInv, TypeOK
    <2> QED BY <2>1, WorksIInv
<1> QED BY <1>1, <1>2, <1>3, <1>4 DEF WorkerStep

LEMMA OrphanDiesIInv == ASSUME IInv, NEW e \in Exec, OrphanDies(e) PROVE IInv'
<1>1. Works(e, "gone")
    BY DEF OrphanDies, Works, files, history, IInv, TypeOK
<1> QED BY <1>1, WorksIInv

LEMMA DisplaceDeadIInv == ASSUME IInv, DisplaceDead PROVE IInv'
<1>1. /\ lane # None /\ lane.proc \notin alive /\ lane' = None
      /\ UNCHANGED <<tx, owner, journal, extra, settled, alive, ex, wk, rc, wrote, orphans,
                     crashes, faults>>
    BY DEF DisplaceDead, files, history
<1>2. \A d \in Exec : ~Active(d)
    BY <1>1, Constants, Types DEF IInv, LaneIsHeld, Active, TypeOK, Lane
<1>3. TypeOK' /\ StateFits' /\ CachesAreOld'
    BY <1>1 DEF IInv, TypeOK, StateFits, CachesAreOld
<1>4. LaneIsHeld' /\ OwnerIsOwn'
    BY <1>1, <1>2 DEF IInv, LaneIsHeld, OwnerIsOwn, Active
<1>5. WorkersFit' /\ JournalIsFirst'
    BY <1>1 DEF IInv, WorkersFit, JournalIsFirst
<1>6. ReconcilersFit'
    BY <1>1 DEF IInv, ReconcilersFit, Interrupted
<1>7. LiveExecutionIsNotStopped' /\ AbortedIsUnwritten'
    BY <1>1 DEF IInv, LiveExecutionIsNotStopped, AbortedIsUnwritten
<1> QED BY <1>3, <1>4, <1>5, <1>6, <1>7 DEF IInv

LEMMA CrashIInv == ASSUME IInv, NEW p \in Proc, Crash(p) PROVE IInv'
<1>1. /\ crashes < MaxCrash /\ crashes' = crashes + 1 /\ alive' = alive \ {p}
      /\ settled' \subseteq settled
      /\ UNCHANGED <<tx, owner, journal, extra, lane, ex, wrote, faults>>
    BY DEF Crash, files
<1>2. \A r \in Recon : rc'[r] \in {IdleRecon, rc[r]}
    BY DEF Crash
<1>3. IdleRecon \in Reconciler /\ IdleRecon.at = "idle" /\ IdleRecon.lease = None
      /\ IdleRecon.seen.rev = 0
    BY DEF IdleRecon, Reconciler, Tx, Status
<1>4. rc' \in [Recon -> Reconciler]
    BY <1>3, Types DEF Crash
<1>5. /\ wk' \in [Exec -> {"none", "up", "leased", "begun", "edited", "gone"}]
      /\ orphans \subseteq orphans' /\ orphans' \subseteq Exec
      /\ \A d \in Exec : /\ wk'[d] = wk[d] \/ wk'[d] = "gone"
                         /\ wk'[d] \in Running /\ ex[d].proc = p => d \in orphans'
    <2> DEFINE left == {d \in Exec : ex[d].proc = p /\ wk[d] \in Running}
    <2>1. CASE UNCHANGED wk /\ orphans' = orphans \union left
        BY <2>1 DEF IInv, TypeOK
    <2>2. CASE wk' = [d \in Exec |-> IF d \in left THEN "gone" ELSE wk[d]] /\ UNCHANGED orphans
        BY <2>2 DEF IInv, TypeOK, Running, Writing
    <2> QED BY <2>1, <2>2, Zenon DEF Crash
<1>6. \A d \in Exec : Active(d)' => Active(d)
    BY <1>1 DEF Active
<1>7. \A d \in Exec : wk'[d] \in Running => wk[d] \in Running
    BY <1>5 DEF Running, Writing
<1>8. TypeOK'
    <2>1. crashes' \in 0..MaxCrash
        BY <1>1, Constants DEF IInv, TypeOK
    <2> QED BY <1>1, <1>4, <1>5, <2>1 DEF IInv, TypeOK
<1>9. StateFits' /\ CachesAreOld'
    BY <1>1, <1>2, <1>3, Types DEF IInv, StateFits, CachesAreOld
<1>10. LaneIsHeld' /\ OwnerIsOwn'
    BY <1>1, <1>6 DEF IInv, LaneIsHeld, OwnerIsOwn
<1>11. WorkersFit'
    BY <1>1, <1>5, <1>7 DEF IInv, WorkersFit
<1>12. JournalIsFirst'
    BY <1>1, <1>5 DEF IInv, JournalIsFirst
<1>13. LiveExecutionIsNotStopped' /\ AbortedIsUnwritten'
    BY <1>1, <1>5 DEF IInv, LiveExecutionIsNotStopped, AbortedIsUnwritten
<1>14. ReconcilersFit'
    <2> SUFFICES ASSUME NEW r \in Recon, rc'[r] = rc[r]
                 PROVE  /\ rc[r].lease # None =>
                              \/ ex[rc[r].lease].at = "over"
                              \/ ex[rc[r].lease].at # "idle" /\ ex[rc[r].lease].proc \notin alive'
                        /\ rc[r].at \in {"journal", "stop"} /\ rc[r].seen = tx =>
                              /\ \A d \in Exec : ex[d].proc \in alive' => ex[d].at \notin AtWork
                              /\ rc[r].mine => \A d \in Exec : wk'[d] \notin Running
                        /\ /\ rc[r].at = "stop" /\ rc[r].target = "ABORTED"
                           /\ rc[r].seen = tx /\ orphans' = {}
                           => Unused(journal)
        BY <1>1, <1>2, <1>3 DEF IInv, ReconcilersFit, Interrupted
    <2>1. orphans' = {} => orphans = {}
        BY <1>5
    <2> QED BY <1>1, <1>7, <2>1 DEF IInv, ReconcilersFit
<1> QED BY <1>8, <1>9, <1>10, <1>11, <1>12, <1>13, <1>14 DEF IInv

-----------------------------------------------------------------------------
(* The reconcilers *)

\* What ReconcilersFit says of one reconciler, of the record x of what it knows.
Knows(x) ==
    /\ x.at = "idle" => x = IdleRecon
    /\ x.at \in {"owner", "lane"} => ~x.mine /\ x.lease = None
    /\ x.lease # None => \/ ex[x.lease].at = "over"
                         \/ ex[x.lease].at # "idle" /\ ex[x.lease].proc \notin alive
    /\ x.at \in {"journal", "stop"} =>
          /\ x.seen.status \in {"PREPARED", "RUNNING"}
          /\ x.seen = tx =>
                /\ \A e \in Exec : ex[e].proc \in alive => ex[e].at \notin AtWork
                /\ x.mine => \A e \in Exec : wk[e] \notin Running
    /\ x.at = "stop" =>
          /\ x.target \in {"ABORTED", "RECOVERY_REQUIRED"}
          /\ x.target = "RECOVERY_REQUIRED" => x.mine
          /\ x.target = "ABORTED" /\ x.seen = tx /\ orphans = {} => Unused(journal)

\* The record is left alone, or stopped where it is still what was read.
Stops(r, x) ==
    \/ tx' = tx
    \/ /\ rc[r].at = "stop" /\ tx = rc[r].seen /\ x.at \notin {"journal", "stop"}
       /\ tx' \in Tx /\ tx'.rev = tx.rev + 1 /\ tx'.status = rc[r].target

Recovers(r, x) ==
    /\ x \in Reconciler /\ rc' = [rc EXCEPT ![r] = x] /\ Knows(x) /\ x.seen.rev <= tx.rev
    /\ UNCHANGED <<journal, extra, alive, ex, wk, wrote, orphans, crashes>>
    /\ faults' \in 0..MaxFault /\ faults' >= faults
    /\ owner' \in {owner, None} /\ Stops(r, x)
    /\ \/ UNCHANGED <<lane, settled>>
       \/ /\ lane # None /\ rc[r].lease = lane.exec
          /\ lane' = None /\ settled' \subseteq settled

LEMMA ReconcilersKnow == ASSUME IInv PROVE \A r \in Recon : Knows(rc[r])
BY DEF IInv, ReconcilersFit, Interrupted, Knows

LEMMA RecoversIInv == ASSUME IInv, NEW r \in Recon, NEW x, Recovers(r, x) PROVE IInv'
<1>1. UNCHANGED <<journal, extra, alive, ex, wk, wrote, orphans, crashes>>
    BY DEF Recovers
<1>2. rc'[r] = x /\ \A q \in Recon \ {r} : rc'[q] = rc[q]
    BY DEF Recovers, IInv, TypeOK
<1>3. /\ tx' \in Tx /\ tx'.rev \in Nat /\ tx.rev <= tx'.rev
      /\ tx' = tx \/ tx'.rev = tx.rev + 1
    BY Types DEF Recovers, Stops, Tx
<1>4. Knows(rc[r])
    BY ReconcilersKnow
<1>5. ASSUME tx' # tx
      PROVE  /\ tx'.status \in {"ABORTED", "RECOVERY_REQUIRED"}
             /\ \A e \in Exec : ex[e].proc \in alive => ex[e].at \notin AtWork
             /\ tx'.status = "RECOVERY_REQUIRED" => \A e \in Exec : wk[e] \notin Running
             /\ tx'.status = "ABORTED" /\ orphans = {} => Unused(journal)
    BY <1>4, <1>5 DEF Recovers, Stops, Knows
<1>6. TypeOK'
    <2>1. rc' \in [Recon -> Reconciler]
        BY DEF Recovers, IInv, TypeOK
    <2>2. /\ lane' \in Lane \union {None} /\ settled' \subseteq Exec
          /\ owner' \in Owner \union {None} /\ faults' \in 0..MaxFault
        BY DEF Recovers, IInv, TypeOK
    <2> QED BY <1>1, <1>3, <2>1, <2>2 DEF IInv, TypeOK
<1>7. StateFits' /\ CachesAreOld'
    <2>1. StateFits'
        BY <1>1 DEF IInv, StateFits
    <2>2. \A e \in Exec : ex'[e].state.rev <= tx'.rev
        BY <1>1, <1>3, Types DEF IInv, CachesAreOld
    <2>3. x.seen \in Tx /\ x.seen.rev \in Nat /\ x.seen.rev <= tx.rev
        BY DEF Recovers, Reconciler, Tx
    <2>4. \A q \in Recon : rc'[q].seen.rev <= tx'.rev
        BY <1>2, <1>3, <2>3, Types DEF IInv, CachesAreOld
    <2> QED BY <2>1, <2>2, <2>4 DEF CachesAreOld
<1>8. LaneIsHeld'
    <2>1. CASE UNCHANGED <<lane, settled>>
        BY <1>1, <2>1 DEF IInv, LaneIsHeld, Active
    <2>2. CASE /\ lane # None /\ rc[r].lease = lane.exec
               /\ lane' = None /\ settled' \subseteq settled
        <3>1. lane.exec \in Exec
            BY <2>2 DEF IInv, TypeOK, Lane
        <3>2. \/ ex[lane.exec].at = "over"
              \/ ex[lane.exec].proc \notin alive
            BY <1>4, <2>2, <3>1, Constants DEF Knows
        <3>3. \A e \in Exec : ~Active(e)
            BY <3>2 DEF IInv, LaneIsHeld, Active
        <3> QED BY <1>1, <2>2, <3>3 DEF IInv, LaneIsHeld, Active
    <2> QED BY <2>1, <2>2 DEF Recovers
<1>9. OwnerIsOwn'
    <2>1. tx'.status = "none" => owner' = None
        BY <1>5 DEF Recovers, IInv, OwnerIsOwn
    <2>2. \A e \in Exec : Active(e)' =>
            /\ ex'[e].at \in {"prepare", "claim"} => owner' = None
            /\ owner' # None => owner'.exec = e /\ owner'.proc = ex'[e].proc
        BY <1>1 DEF Recovers, IInv, OwnerIsOwn, Active
    <2> QED BY <2>1, <2>2 DEF OwnerIsOwn
<1>10. WorkersFit'
    <2>1. lane' \in {lane, None}
        BY DEF Recovers
    <2>2. CASE tx' = tx
        BY <1>1, <2>1, <2>2 DEF IInv, WorkersFit
    <2>3. CASE tx' # tx
        <3>1. \A e \in Exec : wk[e] \in Running => ex[e].at = "work" /\ tx'.status = "ABORTED"
            BY <1>5, <2>3 DEF IInv, WorkersFit
        <3>2. \A e \in Exec : wk[e] \in Running => ex[e].proc \notin alive
            BY <1>5, <2>3, <3>1 DEF AtWork
        <3> QED BY <1>1, <3>1, <3>2 DEF IInv, WorkersFit
    <2> QED BY <2>2, <2>3
<1>11. JournalIsFirst' /\ AbortedIsUnwritten'
    <2>1. JournalIsFirst'
        BY <1>1, <1>5 DEF IInv, JournalIsFirst
    <2>2. AbortedIsUnwritten'
        BY <1>1, <1>5 DEF IInv, JournalIsFirst, AbortedIsUnwritten
    <2> QED BY <2>1, <2>2
<1>12. LiveExecutionIsNotStopped'
    <2>1. faults > 0 => faults' > 0
        <3>1. faults \in Nat /\ faults' \in Nat /\ faults' >= faults
            BY <1>6 DEF Recovers, IInv, TypeOK
        <3> QED BY <3>1
    <2>2. CASE tx' = tx
        BY <1>1, <2>1, <2>2 DEF IInv, LiveExecutionIsNotStopped
    <2>3. CASE tx' # tx
        BY <1>1, <1>5, <2>3 DEF LiveExecutionIsNotStopped
    <2> QED BY <2>2, <2>3
<1>13. ReconcilersFit'
    <2>1. ASSUME NEW q \in Recon, tx' # tx PROVE rc[q].seen # tx'
        BY <1>3, <2>1, Types DEF IInv, CachesAreOld
    <2>2. ASSUME NEW q \in Recon PROVE Knows(rc'[q])
        BY <1>2, ReconcilersKnow DEF Recovers
    <2>3. ASSUME NEW q \in Recon, rc'[q].at \in {"journal", "stop"}, rc'[q].seen = tx'
          PROVE  tx' = tx
        BY <1>2, <2>1, <2>3 DEF Recovers, Stops
    <2> QED BY <1>1, <2>2, <2>3 DEF ReconcilersFit, Knows, Interrupted
<1> QED BY <1>6, <1>7, <1>8, <1>9, <1>10, <1>11, <1>12, <1>13 DEF IInv

\* A reconciler that gives up forgets everything.
LEMMA IdleKnows ==
    /\ IdleRecon \in Reconciler /\ Knows(IdleRecon) /\ IdleRecon.seen.rev = 0
    /\ IdleRecon.at = "idle"
<1>1. /\ IdleRecon \in Reconciler /\ IdleRecon.at = "idle" /\ IdleRecon.lease = None
      /\ IdleRecon.seen.rev = 0
    BY DEF IdleRecon, Reconciler, Tx, Status
<1> QED BY <1>1 DEF Knows

\* A step of a reconciler that reads only.
LEMMA LooksIInv ==
    ASSUME IInv, NEW r \in Recon, NEW x \in Reconciler, rc' = [rc EXCEPT ![r] = x], Knows(x),
           x.seen.rev <= tx.rev,
           UNCHANGED <<tx, files, lane, settled, alive, ex, wk, history, faults>>
    PROVE  IInv'
<1>1. faults' \in 0..MaxFault /\ faults' >= faults
    BY Faulty
<1>2. Recovers(r, x)
    BY <1>1 DEF Recovers, Stops, files, history
<1> QED BY <1>2, RecoversIInv

LEMMA RestsIInv ==
    ASSUME IInv, NEW r \in Recon, Rests(r),
           UNCHANGED <<tx, files, lane, settled, alive, ex, wk, history, faults>>
    PROVE  IInv'
<1>1. IdleRecon.seen.rev <= tx.rev
    BY IdleKnows, Types
<1> QED BY <1>1, IdleKnows, LooksIInv DEF Rests

\* A reconciler past its decisions keeps what it knows of the lane.
LEMMA GoesIs ==
    ASSUME IInv, NEW r \in Recon, NEW l \in {"reread", "unlink", "release"}, Goes(r, l)
    PROVE  \E x \in Reconciler : /\ rc' = [rc EXCEPT ![r] = x] /\ Knows(x)
                                 /\ x.seen.rev <= tx.rev /\ x.at = l
<1> DEFINE x == [rc[r] EXCEPT !.at = l]
<1>1. rc' = [rc EXCEPT ![r] = x]
    BY DEF Goes
<1>2. x \in Reconciler /\ x.at = l /\ x.seen = rc[r].seen /\ x.lease = rc[r].lease
    BY Types DEF Reconciler
<1> HIDE DEF x
<1>3. Knows(x)
    BY <1>2, ReconcilersKnow DEF Knows
<1>4. x.seen.rev <= tx.rev
    BY <1>2 DEF IInv, CachesAreOld
<1> QED BY <1>1, <1>2, <1>3, <1>4

LEMMA ReadTransactionIInv == ASSUME IInv, NEW r \in Recon, ReadTransaction(r) PROVE IInv'
<1> DEFINE x == [rc[r] EXCEPT !.at = "owner", !.seen = tx]
<1>1. rc' = [rc EXCEPT ![r] = x] /\ rc[r].at = "idle"
    BY DEF ReadTransaction, Does
<1>2. rc[r] = IdleRecon
    BY <1>1, ReconcilersKnow DEF Knows
<1>3. /\ x \in Reconciler /\ x.at = "owner" /\ x.seen = tx /\ ~x.mine /\ x.lease = None
    <2>1. ~rc[r].mine /\ rc[r].lease = None
        BY <1>2 DEF IdleRecon
    <2>2. x \in Reconciler /\ x.at = "owner" /\ x.seen = tx
        BY Types DEF Reconciler
    <2>3. x.mine = rc[r].mine /\ x.lease = rc[r].lease
        BY Types DEF Reconciler
    <2> QED BY <2>1, <2>2, <2>3
<1> HIDE DEF x
<1>4. Knows(x) /\ x.seen.rev <= tx.rev
    BY <1>3, Types DEF Knows
<1> QED BY <1>1, <1>3, <1>4, LooksIInv DEF ReadTransaction

LEMMA ReadOwnerIInv == ASSUME IInv, NEW r \in Recon, ReadOwner(r) PROVE IInv'
<1>1. rc[r].at = "owner" /\ UNCHANGED <<tx, files, lane, settled, alive, ex, wk, history, faults>>
    BY DEF ReadOwner, Does
<1>2. CASE OwnerVerdict(r) = "idle" /\ Rests(r)
    BY <1>1, <1>2, RestsIInv
<1>3. CASE OwnerVerdict(r) # "idle"
    <2> DEFINE t == IF owner = None THEN None ELSE owner.exec
               v == owner # None /\ owner.proc \in alive
               x == [rc[r] EXCEPT !.at = OwnerVerdict(r), !.token = t, !.live = v]
    <2>1. rc' = [rc EXCEPT ![r] = x]
        BY <1>3 DEF ReadOwner
    <2>2. OwnerVerdict(r) \in {"lane", "journal"}
        BY <1>3 DEF OwnerVerdict
    <2>3. t \in Exec \union {None} /\ v \in BOOLEAN
        BY DEF IInv, TypeOK, Owner
    <2> HIDE DEF t, v
    <2>4. /\ x \in Reconciler /\ x.at = OwnerVerdict(r) /\ x.seen = rc[r].seen
          /\ x.mine = rc[r].mine /\ x.lease = rc[r].lease
        BY <2>2, <2>3, Types DEF Reconciler
    <2> HIDE DEF x
    <2>5. ~x.mine /\ x.lease = None
        BY <1>1, <2>4, ReconcilersKnow DEF Knows
    <2>6. OwnerVerdict(r) = "journal" =>
             Interrupted(r) /\ owner # None /\ owner.proc \notin alive
        BY DEF OwnerVerdict
    <2>7. ASSUME NEW e \in Exec, ex[e].proc \in alive, ex[e].at \in AtWork
          PROVE  OwnerVerdict(r) # "journal"
        BY <2>6, <2>7, WorkingIsActive DEF IInv, OwnerIsOwn
    <2>8. Knows(x)
        BY <2>2, <2>4, <2>5, <2>6, <2>7 DEF Knows, Interrupted
    <2>9. x.seen.rev <= tx.rev
        BY <2>4 DEF IInv, CachesAreOld
    <2> QED BY <1>1, <2>1, <2>4, <2>8, <2>9, LooksIInv
<1> QED BY <1>2, <1>3 DEF ReadOwner

\* What the lane tells the reconciler of a session.
LEMMA LaneTells ==
    ASSUME IInv, NEW r \in Recon
    PROVE  /\ SettledLane(r) \in Exec \union {None}
           /\ SettledLane(r) # None =>
                 /\ ex[SettledLane(r)].at = "over" /\ lane # None /\ lane.exec = SettledLane(r)
                 /\ \A e \in Exec : ~Active(e)
           /\ lane # None /\ lane.proc \notin alive =>
                 /\ lane.exec \in Exec /\ ex[lane.exec].at # "idle"
                 /\ ex[lane.exec].proc \notin alive /\ \A e \in Exec : ~Active(e)
<1>1. lane # None => lane.exec \in Exec
    BY DEF IInv, TypeOK, Lane
<1>2. \A e \in Exec : Active(e) => lane # None /\ lane.exec = e /\ lane.proc = ex[e].proc
    BY Types, Constants DEF IInv, LaneIsHeld, Active, Lane
<1>3. SettledLane(r) # None =>
        lane # None /\ lane.exec = SettledLane(r) /\ lane.exec \in settled
    BY DEF SettledLane
<1>4. SettledLane(r) # None => ex[SettledLane(r)].at = "over"
    BY <1>3 DEF IInv, LaneIsHeld
<1>5. SettledLane(r) # None => \A e \in Exec : ~Active(e)
    BY <1>2, <1>3, <1>4 DEF Active
<1>6. lane # None /\ lane.proc \notin alive =>
        /\ ex[lane.exec].at # "idle" /\ ex[lane.exec].proc \notin alive
        /\ \A e \in Exec : ~Active(e)
    BY <1>1, <1>2 DEF IInv, LaneIsHeld, Active
<1> QED BY <1>1, <1>3, <1>4, <1>5, <1>6

\* The record of reconciler r after it has inspected the lane.
Leased(r, l, lease, mine) == [rc[r] EXCEPT !.at = l, !.lease = lease, !.mine = mine]

LEMMA LeasedIInv ==
    ASSUME IInv, NEW r \in Recon, NEW l \in {"journal", "release", "reread"},
           NEW lease \in Exec \union {None}, NEW mine \in BOOLEAN,
           rc' = [rc EXCEPT ![r] = Leased(r, l, lease, mine)],
           UNCHANGED <<tx, files, lane, settled, alive, ex, wk, history, faults>>,
           lease # None => \/ ex[lease].at = "over"
                           \/ ex[lease].at # "idle" /\ ex[lease].proc \notin alive,
           l = "journal" => Interrupted(r) /\ \A e \in Exec : ~Active(e),
           mine /\ Interrupted(r) /\ rc[r].seen = tx => \A e \in Exec : wk[e] \notin Running
    PROVE  IInv'
<1> DEFINE x == Leased(r, l, lease, mine)
<1>1. x \in Reconciler /\ x.at = l /\ x.lease = lease /\ x.mine = mine /\ x.seen = rc[r].seen
    BY Types DEF Reconciler, Leased
<1> HIDE DEF x
<1>2. x.seen.rev <= tx.rev
    BY <1>1 DEF IInv, CachesAreOld
<1>3. l = "journal" => \A e \in Exec : ex[e].proc \in alive => ex[e].at \notin AtWork
    BY WorkingIsActive
<1>4. Knows(x)
    BY <1>1, <1>3 DEF Knows, Interrupted
<1> QED BY <1>1, <1>2, <1>4, LooksIInv DEF x

LEMMA InspectLaneIInv == ASSUME IInv, NEW r \in Recon, InspectLane(r) PROVE IInv'
<1> DEFINE s    == SettledLane(r)
           dead == lane # None /\ lane.proc \notin alive
           Nx(l, lease) == rc' = [rc EXCEPT ![r] = Leased(r, l, lease, s # None)]
<1>1. UNCHANGED <<tx, files, lane, settled, alive, ex, wk, history, faults>>
    BY DEF InspectLane
<1>2. \/ Rests(r)
      \/ Interrupted(r) /\ s # None /\ Nx("journal", s)
      \/ Interrupted(r) /\ s = None /\ dead /\ Nx("journal", lane.exec)
      \/ ~Interrupted(r) /\ (Nx("release", s) \/ Nx("reread", s))
    BY ZenonT(30) DEF InspectLane, Leased
<1>3. /\ s \in Exec \union {None}
      /\ s # None => /\ ex[s].at = "over" /\ lane # None /\ lane.exec = s
                     /\ \A e \in Exec : ~Active(e)
      /\ dead => /\ lane.exec \in Exec /\ ex[lane.exec].at # "idle"
                 /\ ex[lane.exec].proc \notin alive /\ \A e \in Exec : ~Active(e)
    BY LaneTells
<1> HIDE DEF s, dead
<1>4. s # None /\ Interrupted(r) /\ rc[r].seen = tx => \A e \in Exec : wk[e] \notin Running
    BY <1>3 DEF IInv, WorkersFit, Interrupted
<1>5. CASE Rests(r)
    BY <1>1, <1>5, RestsIInv
<1>6. CASE Interrupted(r) /\ s # None /\ Nx("journal", s)
    BY <1>1, <1>3, <1>4, <1>6, LeasedIInv
<1>7. CASE Interrupted(r) /\ s = None /\ dead /\ Nx("journal", lane.exec)
    BY <1>1, <1>3, <1>4, <1>7, LeasedIInv
<1>8. CASE ~Interrupted(r) /\ (Nx("release", s) \/ Nx("reread", s))
    BY <1>1, <1>3, <1>8, LeasedIInv
<1> QED BY <1>2, <1>5, <1>6, <1>7, <1>8

LEMMA InspectJournalIInv == ASSUME IInv, NEW r \in Recon, InspectJournal(r) PROVE IInv'
<1>1. rc[r].at = "journal" /\ UNCHANGED <<tx, files, lane, settled, alive, ex, wk, history, faults>>
    BY DEF InspectJournal, Does
<1>2. CASE Rests(r)
    BY <1>1, <1>2, RestsIInv
<1>3. CASE /\ ~Unused(journal) => rc[r].mine
           /\ rc' = [rc EXCEPT ![r].at = "stop",
                               ![r].target = IF Unused(journal) THEN "ABORTED" ELSE "RECOVERY_REQUIRED"]
    <2> DEFINE t == IF Unused(journal) THEN "ABORTED" ELSE "RECOVERY_REQUIRED"
               x == [rc[r] EXCEPT !.at = "stop", !.target = t]
    <2>1. rc' = [rc EXCEPT ![r] = x]
        BY <1>3
    <2>2. /\ t \in {"ABORTED", "RECOVERY_REQUIRED"}
          /\ t = "ABORTED" => Unused(journal)
          /\ t = "RECOVERY_REQUIRED" => rc[r].mine
        BY <1>3
    <2> HIDE DEF t
    <2>3. /\ x \in Reconciler /\ x.at = "stop" /\ x.target = t /\ x.seen = rc[r].seen
          /\ x.mine = rc[r].mine /\ x.lease = rc[r].lease
        BY <2>2, Types DEF Reconciler, Status
    <2> HIDE DEF x
    <2>4. Knows(x)
        BY <1>1, <2>2, <2>3, ReconcilersKnow DEF Knows
    <2>5. x.seen.rev <= tx.rev
        BY <2>3 DEF IInv, CachesAreOld
    <2> QED BY <1>1, <2>1, <2>3, <2>4, <2>5, LooksIInv
<1> QED BY <1>2, <1>3 DEF InspectJournal

LEMMA StopTransactionIInv == ASSUME IInv, NEW r \in Recon, StopTransaction(r) PROVE IInv'
<1> DEFINE new == [status |-> rc[r].target, rev |-> rc[r].seen.rev + 1]
           l   == IF rc[r].token # None THEN "reread" ELSE "release"
<1>1. rc[r].at = "stop" /\ UNCHANGED <<files, lane, settled, alive, ex, wk, history>>
    BY DEF StopTransaction, Does
<1>2. new \in Tx /\ new.rev = rc[r].seen.rev + 1 /\ new.status = rc[r].target
    <2>1. rc[r].seen.rev + 1 \in Nat /\ rc[r].target \in Status
        BY Types DEF Reconciler
    <2> QED BY <2>1 DEF Tx
<1>3. /\ tx' = tx \/ (tx = rc[r].seen /\ tx' = new)
      /\ Goes(r, l) \/ Rests(r)
      /\ UNCHANGED faults \/ Fault
    BY DEF StopTransaction, Persist
<1>4. faults' \in 0..MaxFault /\ faults' >= faults
    BY <1>3, Faulty
<1>5. l \in {"reread", "release"}
    OBVIOUS
<1> HIDE DEF new, l
<1>6. \E x \in Reconciler : /\ rc' = [rc EXCEPT ![r] = x] /\ Knows(x)
                            /\ x.seen.rev <= tx.rev /\ x.at \notin {"journal", "stop"}
    <2>1. CASE Goes(r, l)
        BY <1>5, <2>1, GoesIs
    <2>2. CASE Rests(r)
        <3>1. IdleRecon.seen.rev <= tx.rev
            BY IdleKnows, Types
        <3>2. rc' = [rc EXCEPT ![r] = IdleRecon]
            BY <2>2 DEF Rests
        <3> QED BY <3>1, <3>2, IdleKnows
    <2> QED BY <1>3, <2>1, <2>2
<1>7. PICK x \in Reconciler : /\ rc' = [rc EXCEPT ![r] = x] /\ Knows(x)
                              /\ x.seen.rev <= tx.rev /\ x.at \notin {"journal", "stop"}
    BY <1>6
<1>8. Stops(r, x)
    BY <1>1, <1>2, <1>3, <1>7 DEF Stops
<1>9. Recovers(r, x)
    BY <1>1, <1>4, <1>7, <1>8 DEF Recovers, files, history
<1> QED BY <1>9, RecoversIInv

LEMMA RereadOwnerIInv == ASSUME IInv, NEW r \in Recon, RereadOwner(r) PROVE IInv'
<1>1. UNCHANGED <<tx, files, lane, settled, alive, ex, wk, history, faults>>
    BY DEF RereadOwner
<1>2. CASE Rests(r)
    BY <1>1, <1>2, RestsIInv
<1>3. ASSUME NEW l \in {"release", "unlink"}, Goes(r, l) PROVE IInv'
    <2>1. PICK x \in Reconciler : /\ rc' = [rc EXCEPT ![r] = x] /\ Knows(x)
                                  /\ x.seen.rev <= tx.rev /\ x.at = l
        BY <1>3, GoesIs
    <2> QED BY <1>1, <2>1, LooksIInv
<1> QED BY <1>2, <1>3 DEF RereadOwner

LEMMA UnlinkFoundIInv == ASSUME IInv, NEW r \in Recon, UnlinkFound(r) PROVE IInv'
<1>1. /\ UNCHANGED <<tx, journal, extra, lane, settled, alive, ex, wk, history>>
      /\ owner' \in {owner, None} /\ (UNCHANGED faults \/ Fault)
      /\ Goes(r, "release") \/ Rests(r)
    BY DEF UnlinkFound
<1>2. faults' \in 0..MaxFault /\ faults' >= faults
    BY <1>1, Faulty
<1>3. \E x \in Reconciler : rc' = [rc EXCEPT ![r] = x] /\ Knows(x) /\ x.seen.rev <= tx.rev
    <2>1. CASE Goes(r, "release")
        BY <2>1, GoesIs
    <2>2. CASE Rests(r)
        <3>1. IdleRecon.seen.rev <= tx.rev
            BY IdleKnows, Types
        <3>2. rc' = [rc EXCEPT ![r] = IdleRecon]
            BY <2>2 DEF Rests
        <3> QED BY <3>1, <3>2, IdleKnows
    <2> QED BY <1>1, <2>1, <2>2
<1>4. PICK x \in Reconciler : rc' = [rc EXCEPT ![r] = x] /\ Knows(x) /\ x.seen.rev <= tx.rev
    BY <1>3
<1>5. Recovers(r, x)
    BY <1>1, <1>2, <1>4 DEF Recovers, Stops, history
<1> QED BY <1>5, RecoversIInv

LEMMA ReleaseLaneIInv == ASSUME IInv, NEW r \in Recon, ReleaseLane(r) PROVE IInv'
<1>1. /\ UNCHANGED <<tx, files, alive, ex, wk, history>> /\ (UNCHANGED faults \/ Fault)
      /\ rc' = [rc EXCEPT ![r] = IdleRecon]
      /\ \/ UNCHANGED <<lane, settled>>
         \/ /\ lane # None /\ rc[r].lease = lane.exec
            /\ lane' = None /\ settled' \subseteq settled
    BY DEF ReleaseLane, Rests
<1>2. faults' \in 0..MaxFault /\ faults' >= faults
    BY <1>1, Faulty
<1>3. IdleRecon.seen.rev <= tx.rev
    BY IdleKnows, Types
<1>4. Recovers(r, IdleRecon)
    BY <1>1, <1>2, <1>3, IdleKnows DEF Recovers, Stops, files, history
<1> QED BY <1>4, RecoversIInv

-----------------------------------------------------------------------------
(* Every step *)

LEMMA InitIInv == Init => IInv
<1> SUFFICES ASSUME Init PROVE IInv
    OBVIOUS
<1>1. /\ tx = Fresh /\ owner = None /\ journal = "absent" /\ extra = {}
      /\ lane = None /\ settled = {} /\ alive = Proc
      /\ wrote = FALSE /\ orphans = {} /\ crashes = 0 /\ faults = 0
      /\ wk = [e \in Exec |-> "none"] /\ rc = [r \in Recon |-> IdleRecon]
    BY DEF Init, Fresh
<1>2. Fresh \in Tx /\ Fresh.status = "none" /\ Fresh.rev = 0
    BY DEF Fresh, Tx, Status
<1>3. \A e \in Exec : /\ ex[e].at = "idle" /\ ex[e].proc = None /\ ex[e].state = Fresh
                      /\ ~ex[e].resumes
    BY DEF Init, Fresh
<1>4. ex \in [Exec -> Execution]
    <2>1. ex = [e \in Exec |-> [at |-> "idle", proc |-> None, resumes |-> FALSE, owns |-> FALSE,
                                state |-> Fresh]]
        BY DEF Init, Fresh
    <2> QED BY <1>2, <2>1 DEF Execution
<1>5. \A r \in Recon : rc[r] = IdleRecon
    BY <1>1
<1>6. TypeOK
    <2>1. 0 \in 0..MaxCrash /\ 0 \in 0..MaxFault
        BY Constants
    <2>2. rc \in [Recon -> Reconciler]
        BY <1>1, IdleKnows
    <2>3. wk \in [Exec -> {"none", "up", "leased", "begun", "edited", "gone"}]
        BY <1>1
    <2> QED BY <1>1, <1>2, <1>4, <2>1, <2>2, <2>3 DEF TypeOK
<1>7. StateFits /\ CachesAreOld
    BY <1>1, <1>2, <1>3, <1>5, IdleKnows DEF StateFits, Fits, CachesAreOld
<1>8. LaneIsHeld /\ OwnerIsOwn
    BY <1>1, <1>3 DEF LaneIsHeld, OwnerIsOwn, Active
<1>9. WorkersFit /\ JournalIsFirst
    BY <1>1, <1>2 DEF WorkersFit, JournalIsFirst, Running, Writing
<1>10. ReconcilersFit
    <2>1. IdleRecon.at = "idle" /\ IdleRecon.lease = None
        BY DEF IdleRecon
    <2> QED BY <1>5, <2>1 DEF ReconcilersFit
<1>11. LiveExecutionIsNotStopped /\ AbortedIsUnwritten
    BY <1>1, <1>2, <1>3 DEF LiveExecutionIsNotStopped, AbortedIsUnwritten, AtWork
<1> QED BY <1>6, <1>7, <1>8, <1>9, <1>10, <1>11 DEF IInv

LEMMA StutterIInv == ASSUME IInv, UNCHANGED vars PROVE IInv'
<1>1. /\ UNCHANGED <<tx, owner, journal, extra, lane, settled, alive>>
      /\ UNCHANGED <<ex, wk, rc, wrote, orphans, crashes, faults>>
    BY DEF vars
<1>2. TypeOK' /\ StateFits' /\ CachesAreOld'
    BY <1>1 DEF IInv, TypeOK, StateFits, CachesAreOld
<1>3. LaneIsHeld' /\ OwnerIsOwn' /\ WorkersFit' /\ JournalIsFirst'
    BY <1>1 DEF IInv, LaneIsHeld, OwnerIsOwn, WorkersFit, JournalIsFirst, Active
<1>4. ReconcilersFit'
    BY <1>1 DEF IInv, ReconcilersFit, Interrupted
<1>5. LiveExecutionIsNotStopped' /\ AbortedIsUnwritten'
    BY <1>1 DEF IInv, LiveExecutionIsNotStopped, AbortedIsUnwritten
<1> QED BY <1>2, <1>3, <1>4, <1>5 DEF IInv

LEMMA ExecStepIInv == ASSUME IInv, NEW e \in Exec, ExecStep(e) PROVE IInv'
BY PrepareIInv, ClaimIInv, WriteOwnerIInv, PrepareJournalIInv, AttemptAbortIInv, RunIInv,
   EndWorkIInv, HandOverIInv, AttemptRecoveryIInv, CommitIInv, PublishIInv, FinishIInv,
   UnlinkOwnerIInv, ControlIInv
DEF ExecStep

LEMMA ReconStepIInv == ASSUME IInv, NEW r \in Recon, ReconStep(r) PROVE IInv'
BY ReadTransactionIInv, ReadOwnerIInv, InspectLaneIInv, InspectJournalIInv, StopTransactionIInv,
   RereadOwnerIInv, UnlinkFoundIInv, ReleaseLaneIInv
DEF ReconStep

LEMMA NextIInv == IInv /\ [Next]_vars => IInv'
<1> SUFFICES ASSUME IInv, [Next]_vars PROVE IInv'
    OBVIOUS
<1>1. ASSUME NEW e \in Exec,
             ExecStep(e) \/ WorkerStep(e) \/ OrphanDies(e) \/ \E p \in Proc : Admit(e, p)
      PROVE  IInv'
    BY <1>1, ExecStepIInv, WorkerStepIInv, OrphanDiesIInv, AdmitIInv
<1>2. ASSUME NEW r \in Recon, ReconStep(r) PROVE IInv'
    BY <1>2, ReconStepIInv
<1>3. CASE DisplaceDead
    BY <1>3, DisplaceDeadIInv
<1>4. ASSUME NEW p \in Proc, Crash(p) PROVE IInv'
    BY <1>4, CrashIInv
<1>5. CASE UNCHANGED vars
    BY <1>5, StutterIInv
<1> QED BY <1>1, <1>2, <1>3, <1>4, <1>5 DEF Next

\* The inductive invariant: the lane serializes the executions of a delegation, what an
\* execution has cached fits its step, and what a reconciler has found out stays true as
\* long as the record is the one it read.
THEOREM ExecutionsAreConsistent == Spec => []IInv
<1>1. Init => IInv
    BY InitIInv
<1>2. IInv /\ [Next]_vars => IInv'
    BY NextIInv
<1> QED BY <1>1, <1>2, PTL DEF Spec

\* recoverInterruptedDelegationV2 of any session never stops an execution whose process
\* lives and that has not returned yet, whatever it read before and whatever fails.
THEOREM LiveExecutionsGoOn == Spec => []LiveExecutionIsNotStopped
<1>1. IInv => LiveExecutionIsNotStopped
    BY DEF IInv
<1> QED BY <1>1, ExecutionsAreConsistent, PTL

\* A resumption of executeDelegationV2 starts no worker while another one, an orphan
\* included, can still begin a write.
THEOREM OneWorkerWrites == Spec => []OneWriter
<1>1. IInv => OneWriter
    BY DEF IInv, WorkersFit, OneWriter, Running
<1> QED BY <1>1, ExecutionsAreConsistent, PTL

\* INTERRUPTED_BEFORE_WORKER_WRITE is told of no checkout a supervised worker wrote to: the
\* journal that the reconciler or the execution inspected was still the current one when
\* the record was aborted.
THEOREM AbortsAreUnwritten == Spec => []AbortedIsUnwritten
<1>1. IInv => AbortedIsUnwritten
    BY DEF IInv
<1> QED BY <1>1, ExecutionsAreConsistent, PTL

-----------------------------------------------------------------------------
(* Every persist is a transition of DelegationTransaction *)

Legal ==
    tx' = tx \/ /\ tx'.rev = tx.rev + 1 /\ <<tx.status, tx'.status>> \in Lifecycle
                /\ tx'.status = "ABORTED" => tx'.rev \in {2, 3}

\* What a step does to the record, the journal and the executions.
LawfulRecord ==
    /\ Legal
    /\ tx' # tx => journal' = journal
    /\ tx' # tx /\ tx'.status = "RUNNING" => tx'.rev = 2 \/ ~Unused(journal)

LawfulJournal ==
    \/ journal' = journal
    \/ tx.status = "PREPARED"
    \/ ~Unused(journal') /\ tx.status \notin {"none", "PREPARED"}

Lawful ==
    /\ LawfulRecord /\ LawfulJournal
    /\ tx.status = "PREPARED" /\ journal' # journal => Unused(journal')
    /\ \A e \in Exec : ex'[e].resumes => ex[e].resumes \/ ~Unused(journal')

LEMMA LawfulFits ==
    ASSUME IInv, RecordFits, Lawful,
           \A r \in Recon : rc'[r] = rc[r] \/ rc'[r].at # "stop"
    PROVE  RecordFits' /\ Legal
<1>1. tx' = tx \/ (tx'.rev = tx.rev + 1 /\ <<tx.status, tx'.status>> \in Lifecycle)
    BY DEF Lawful, LawfulRecord, Legal
<1>2. tx'.status = "none" => tx' = tx
    BY <1>1 DEF Lifecycle
<1>3. tx' # tx /\ tx'.status = "PREPARED" => tx.status = "none" /\ tx'.rev = 1
    BY <1>1, Types DEF Lifecycle, RecordFits
<1>4. tx'.status \in {"none", "PREPARED"} => Unused(journal')
    BY <1>2, <1>3 DEF Lawful, LawfulRecord, LawfulJournal, RecordFits
<1>5. \A e \in Exec : ex'[e].resumes => ~Unused(journal')
    BY DEF Lawful, LawfulJournal, RecordFits
<1>6. tx'.status = "RUNNING" /\ tx'.rev > 2 => ~Unused(journal')
    <2>1. CASE tx' = tx
        BY <2>1 DEF Lawful, LawfulJournal, RecordFits
    <2>2. CASE tx' # tx /\ tx'.rev = 2
        BY <2>2
    <2>3. CASE tx' # tx /\ ~Unused(journal)
        BY <2>3 DEF Lawful, LawfulRecord
    <2> QED BY <2>1, <2>2, <2>3 DEF Lawful, LawfulRecord
<1>7. ASSUME NEW r \in Recon, rc'[r].at = "stop", rc'[r].seen = tx' PROVE rc'[r] = rc[r] /\ tx' = tx
    <2>1. rc'[r] = rc[r] /\ rc[r].seen.rev <= tx.rev
        BY <1>7 DEF IInv, CachesAreOld
    <2>2. tx'.rev # tx.rev + 1
        BY <1>7, <2>1, Types
    <2> QED BY <1>1, <2>1, <2>2
<1>8. \A r \in Recon : rc'[r].at = "stop" /\ rc'[r].seen = tx' =>
        /\ rc'[r].target = "RECOVERY_REQUIRED" => tx'.status = "RUNNING"
        /\ rc'[r].target = "ABORTED" => tx'.rev <= 2
    BY <1>7 DEF RecordFits
<1>9. /\ (tx'.status = "none") <=> (tx'.rev = 0)
      /\ tx'.status = "PREPARED" => tx'.rev = 1
    <2>1. tx' # tx => tx'.rev # 0
        BY <1>1, Types
    <2> QED BY <1>2, <1>3, <2>1 DEF RecordFits
<1> QED BY <1>4, <1>5, <1>6, <1>8, <1>9 DEF RecordFits, Lawful, LawfulRecord

\* A step that touches neither the record nor the journal nor what executions resume.
LEMMA CalmFits ==
    ASSUME IInv, RecordFits, UNCHANGED <<tx, journal>>,
           \A e \in Exec : ex'[e].resumes = ex[e].resumes,
           \A r \in Recon : rc'[r] = rc[r] \/ rc'[r].at # "stop"
    PROVE  RecordFits' /\ Legal
<1>1. Lawful
    BY DEF Lawful, LawfulRecord, LawfulJournal, Legal
<1> QED BY <1>1, LawfulFits

LEMMA ResumesStay ==
    ASSUME IInv, NEW e \in Exec, NEW l, (To(e, l) \/ \E s : ToWith(e, l, s))
    PROVE  \A d \in Exec : ex'[d].resumes = ex[d].resumes
<1>1. ex \in [Exec -> Execution]
    BY DEF IInv, TypeOK
<1>2. CASE To(e, l)
    BY <1>1, <1>2 DEF To, Execution
<1>3. ASSUME NEW s, ToWith(e, l, s) PROVE \A d \in Exec : ex'[d].resumes = ex[d].resumes
    <2> DEFINE n == New(e, s)
               x == [ex[e] EXCEPT !.at = l, !.state = n]
    <2>1. ex' = [ex EXCEPT ![e] = x]
        BY <1>3 DEF ToWith, New
    <2> HIDE DEF n
    <2>2. x.resumes = ex[e].resumes
        BY <1>1 DEF Execution
    <2> HIDE DEF x
    <2> QED BY <1>1, <2>1, <2>2
<1> QED BY <1>2, <1>3

\* A persist of an execution.
LEMMA PersistFits ==
    ASSUME IInv, RecordFits, NEW e \in Exec, NEW s \in Status,
           tx' = tx \/ (tx = ex[e].state /\ tx' = New(e, s)),
           <<ex[e].state.status, s>> \in Lifecycle,
           s = "ABORTED" => ex[e].state.status = "PREPARED",
           s = "RUNNING" => ex[e].state.status = "PREPARED" \/ ex[e].resumes,
           UNCHANGED <<journal, rc>>,
           \A d \in Exec : ex'[d].resumes = ex[d].resumes
    PROVE  RecordFits' /\ Legal
<1>1. CASE tx' = tx
    BY <1>1, CalmFits
<1>2. CASE tx = ex[e].state /\ tx' = New(e, s)
    <2>1. tx'.rev = tx.rev + 1 /\ tx'.status = s
        BY <1>2, NewIs
    <2>2. tx.status = "PREPARED" => tx'.rev = 2
        BY <2>1 DEF RecordFits
    <2>3. Legal
        BY <1>2, <2>1, <2>2 DEF Legal
    <2>4. s = "RUNNING" => tx'.rev = 2 \/ ~Unused(journal)
        BY <1>2, <2>2 DEF RecordFits
    <2>5. Lawful
        BY <2>1, <2>3, <2>4 DEF Lawful, LawfulRecord, LawfulJournal
    <2> QED BY <2>5, LawfulFits
<1> QED BY <1>1, <1>2

LEMMA ExecStepFits ==
    ASSUME IInv, RecordFits, NEW e \in Exec, ExecStep(e) PROVE RecordFits' /\ Legal
<1>1. CASE Prepare(e)
    <2>1. ex[e].state.status = "none"
        BY <1>1, BusyIs DEF Prepare, Places, Fits, Fresh
    <2>2. tx' = tx \/ (tx = ex[e].state /\ tx' = New(e, "PREPARED"))
        BY <1>1 DEF Prepare, Persist, New
    <2>3. \A d \in Exec : ex'[d].resumes = ex[d].resumes
        BY <1>1, ResumesStay DEF Prepare, Persist
    <2> QED BY <1>1, <2>1, <2>2, <2>3, PersistFits DEF Prepare, files, Lifecycle, Status, Incomplete
<1>2. CASE AttemptAbort(e)
    <2>1. ex[e].state.status = "PREPARED"
        BY <1>2, BusyIs DEF AttemptAbort, Places, Fits
    <2>2. tx' = tx \/ (tx = ex[e].state /\ tx' = New(e, "ABORTED"))
        BY <1>2 DEF AttemptAbort, Persist, New
    <2>3. \A d \in Exec : ex'[d].resumes = ex[d].resumes
        BY <1>2, ResumesStay DEF AttemptAbort, Persist
    <2> QED BY <1>2, <2>1, <2>2, <2>3, PersistFits DEF AttemptAbort, files, Lifecycle, Status
<1>3. CASE Run(e)
    <2>1. ex[e].state.status = IF ex[e].resumes THEN "RECOVERY_REQUIRED" ELSE "PREPARED"
        BY <1>3, BusyIs DEF Run, Places, Fits
    <2>2. tx' = tx \/ (tx = ex[e].state /\ tx' = New(e, "RUNNING"))
        BY <1>3 DEF Run, Persist, New
    <2>3. \A d \in Exec : ex'[d].resumes = ex[d].resumes
        BY <1>3, ResumesStay DEF Run, Persist
    <2> QED BY <1>3, <2>1, <2>2, <2>3, PersistFits DEF Run, files, Lifecycle, Status, Incomplete
<1>4. CASE AttemptRecovery(e)
    <2>1. ex[e].state.status \in {"RUNNING", "COMMITTING"}
        BY <1>4, BusyIs DEF AttemptRecovery, Places, Fits
    <2>2. tx' = tx \/ (tx = ex[e].state /\ tx' = New(e, "RECOVERY_REQUIRED"))
        BY <1>4 DEF AttemptRecovery, Persist, New
    <2>3. \A d \in Exec : ex'[d].resumes = ex[d].resumes
        BY <1>4, ResumesStay DEF AttemptRecovery, Persist
    <2> QED BY <1>4, <2>1, <2>2, <2>3, PersistFits DEF AttemptRecovery, files, Lifecycle, Status
<1>5. CASE Commit(e)
    <2>1. ex[e].state.status = "RUNNING"
        BY <1>5, BusyIs DEF Commit, Places, Fits
    <2>2. tx' = tx \/ (tx = ex[e].state /\ tx' = New(e, "COMMITTING"))
        BY <1>5 DEF Commit, Persist, New
    <2>3. \A d \in Exec : ex'[d].resumes = ex[d].resumes
        BY <1>5, ResumesStay DEF Commit, Persist
    <2> QED BY <1>5, <2>1, <2>2, <2>3, PersistFits DEF Commit, files, Lifecycle, Status, Incomplete
<1>6. CASE Publish(e)
    <2>1. ex[e].state.status = "COMMITTING"
        BY <1>6, BusyIs DEF Publish, Places, Fits
    <2>2. tx' = tx \/ (tx = ex[e].state /\ tx' = New(e, "DONE"))
        BY <1>6 DEF Publish, Persist, New
    <2>3. \A d \in Exec : ex'[d].resumes = ex[d].resumes
        BY <1>6, ResumesStay DEF Publish, Persist
    <2> QED BY <1>6, <2>1, <2>2, <2>3, PersistFits DEF Publish, Lifecycle, Status
<1>7. CASE Control(e)
    <2>1. /\ tx' = tx \/ (tx = ex[e].state /\ tx' = New(e, "ABORTED") /\ ex[e].state.status = "PREPARED")
          /\ To(e, "over") \/ ToWith(e, "over", "ABORTED")
          /\ UNCHANGED <<files, rc>>
        BY <1>7, Zenon DEF Control, Persist, ClosesUnderLane, New
    <2>2. \A d \in Exec : ex'[d].resumes = ex[d].resumes
        BY <2>1, ResumesStay
    <2>3. CASE tx' = tx
        BY <2>1, <2>2, <2>3, CalmFits DEF files
    <2> QED BY <2>1, <2>2, <2>3, PersistFits DEF files, Lifecycle, Status
<1>8. CASE Claim(e) \/ Finish(e) \/ UnlinkOwner(e)
    <2>1. UNCHANGED <<tx, journal, rc>>
        BY <1>8 DEF Claim, Finish, UnlinkOwner, files
    <2>2. \A d \in Exec : ex'[d].resumes = ex[d].resumes
        BY <1>8, ResumesStay DEF Claim, Finish, UnlinkOwner
    <2> QED BY <2>1, <2>2, CalmFits
<1>9. CASE WriteOwner(e)
    <2>1. UNCHANGED <<tx, journal, rc>>
        BY <1>9 DEF WriteOwner
    <2>2. \A d \in Exec : ex'[d].resumes = ex[d].resumes
        <3>1. ex \in [Exec -> Execution]
            BY DEF IInv, TypeOK
        <3>2. CASE ex' = [ex EXCEPT ![e].at = IF ex[e].resumes THEN "run" ELSE "journal",
                                    ![e].owns = TRUE]
            BY <3>1, <3>2 DEF Execution
        <3>3. CASE \E l : To(e, l)
            BY <3>3, ResumesStay
        <3> QED BY <1>9, <3>2, <3>3 DEF WriteOwner
    <2> QED BY <2>1, <2>2, CalmFits
<1>10. CASE PrepareJournal(e)
    <2>1. tx.status \in {"PREPARED", "RUNNING"} /\ ex[e].at = "journal" /\ tx = ex[e].state
        BY <1>10, BusyIs DEF PrepareJournal, Places, AtWork, Fits
    <2>2. tx.status = "PREPARED"
        BY <2>1, Types DEF Fits
    <2>3. UNCHANGED <<tx, rc>> /\ Unused(journal')
        BY <1>10 DEF PrepareJournal, Unused
    <2>4. \A d \in Exec : ex'[d].resumes = ex[d].resumes
        BY <1>10, ResumesStay DEF PrepareJournal
    <2>5. Lawful
        BY <2>2, <2>3, <2>4 DEF Lawful, LawfulRecord, LawfulJournal, Legal
    <2> QED BY <2>3, <2>5, LawfulFits
<1>11. CASE EndWork(e)
    <2>1. tx.status = "RUNNING"
        BY <1>11, BusyIs DEF EndWork, Places, AtWork, Fits
    <2>2. UNCHANGED <<tx, rc>> /\ (journal' = journal \/ ~Unused(journal'))
        BY <1>11 DEF EndWork, Unused
    <2>3. \A d \in Exec : ex'[d].resumes = ex[d].resumes
        BY <1>11, ResumesStay DEF EndWork
    <2>4. Lawful
        BY <2>1, <2>2, <2>3 DEF Lawful, LawfulRecord, LawfulJournal, Legal
    <2> QED BY <2>2, <2>4, LawfulFits
<1>12. CASE HandOver(e)
    BY <1>12, CalmFits DEF HandOver
<1> QED BY <1>1, <1>2, <1>3, <1>4, <1>5, <1>6, <1>7, <1>8, <1>9, <1>10, <1>11, <1>12 DEF ExecStep

LEMMA WorkerStepFits ==
    ASSUME IInv, RecordFits, NEW e \in Exec, WorkerStep(e) PROVE RecordFits' /\ Legal
<1>1. CASE BorrowLane(e) \/ Edit(e)
    BY <1>1, CalmFits DEF BorrowLane, Edit, files
<1>2. CASE BeginWrite(e) \/ CompleteWrite(e)
    <2>1. wk[e] \in Running
        BY <1>2 DEF BeginWrite, CompleteWrite, Running, Writing
    <2>2. tx.status \notin {"none", "PREPARED"}
        BY <2>1, Types DEF IInv, WorkersFit, Fits
    <2>3. UNCHANGED <<tx, ex, rc>> /\ ~Unused(journal')
        BY <1>2 DEF BeginWrite, CompleteWrite, Unused
    <2>4. Lawful
        BY <2>2, <2>3 DEF Lawful, LawfulRecord, LawfulJournal, Legal
    <2> QED BY <2>3, <2>4, LawfulFits
<1> QED BY <1>1, <1>2 DEF WorkerStep

LEMMA AdmitFits ==
    ASSUME IInv, RecordFits, NEW e \in Exec, NEW p \in Proc, Admit(e, p)
    PROVE  RecordFits' /\ Legal
<1>1. UNCHANGED <<tx, journal, rc>> /\ ex \in [Exec -> Execution]
    BY DEF Admit, files, IInv, TypeOK
<1>2. \A d \in Exec : ex'[d].resumes => ex[d].resumes \/ ~Unused(journal')
    <2>1. CASE ex' = [ex EXCEPT ![e].at = "prepare", ![e].proc = p]
        BY <1>1, <2>1 DEF Execution
    <2>2. CASE journal = "written" /\ \A d \in Exec \ {e} : ex'[d] = ex[d]
        BY <1>1, <2>2 DEF Unused
    <2> QED BY <1>1, <2>1, <2>2 DEF Admit
<1>3. Lawful
    BY <1>1, <1>2 DEF Lawful, LawfulRecord, LawfulJournal, Legal
<1> QED BY <1>1, <1>3, LawfulFits

\* A reconciler other than at its last look at the journal and at its stop.
LEMMA ReconReadsFit ==
    ASSUME IInv, RecordFits, NEW r \in Recon, NEW x, rc' = [rc EXCEPT ![r] = x], x.at # "stop",
           UNCHANGED <<tx, journal, ex>>
    PROVE  RecordFits' /\ Legal
<1>1. \A q \in Recon : rc'[q] = rc[q] \/ rc'[q].at # "stop"
    BY DEF IInv, TypeOK
<1> QED BY <1>1, CalmFits

LEMMA InspectJournalFits ==
    ASSUME IInv, RecordFits, NEW r \in Recon, InspectJournal(r) PROVE RecordFits' /\ Legal
<1>1. UNCHANGED <<tx, journal, ex>> /\ rc[r].at = "journal" /\ rc \in [Recon -> Reconciler]
    BY DEF InspectJournal, Does, files, IInv, TypeOK
<1>2. CASE Rests(r)
    BY <1>1, <1>2, IdleKnows, ReconReadsFit DEF Rests
<1>3. CASE rc' = [rc EXCEPT ![r].at = "stop",
                            ![r].target = IF Unused(journal) THEN "ABORTED" ELSE "RECOVERY_REQUIRED"]
    <2>1. /\ \A q \in Recon \ {r} : rc'[q] = rc[q]
          /\ rc'[r].seen = rc[r].seen
          /\ rc'[r].target = IF Unused(journal) THEN "ABORTED" ELSE "RECOVERY_REQUIRED"
        BY <1>1, <1>3 DEF Reconciler
    <2>2. rc[r].seen = tx => tx.status \in {"PREPARED", "RUNNING"}
        BY <1>1, ReconcilersKnow DEF Knows
    <2>3. rc[r].seen = tx /\ Unused(journal) => tx.rev <= 2
        BY <2>2, Types DEF RecordFits
    <2>4. rc[r].seen = tx /\ ~Unused(journal) => tx.status = "RUNNING"
        BY <2>2 DEF RecordFits
    <2>5. \A q \in Recon : rc'[q].at = "stop" /\ rc'[q].seen = tx =>
            /\ rc'[q].target = "RECOVERY_REQUIRED" => tx.status = "RUNNING"
            /\ rc'[q].target = "ABORTED" => tx.rev <= 2
        BY <2>1, <2>3, <2>4 DEF RecordFits
    <2> QED BY <1>1, <2>5 DEF RecordFits, Legal
<1> QED BY <1>2, <1>3 DEF InspectJournal

LEMMA StopTransactionFits ==
    ASSUME IInv, RecordFits, NEW r \in Recon, StopTransaction(r) PROVE RecordFits' /\ Legal
<1>1. rc[r].at = "stop" /\ UNCHANGED <<journal, ex>> /\ rc \in [Recon -> Reconciler]
    BY DEF StopTransaction, Does, files, IInv, TypeOK
<1>2. \A q \in Recon : rc'[q] = rc[q] \/ rc'[q].at # "stop"
    <2>1. CASE Rests(r)
        BY <1>1, <2>1, IdleKnows DEF Rests
    <2>2. CASE \E l \in {"reread", "release"} : Goes(r, l)
        BY <1>1, <2>2 DEF Goes, Reconciler
    <2> QED BY <2>1, <2>2 DEF StopTransaction, Persist
<1>3. CASE tx' = tx
    BY <1>1, <1>2, <1>3, CalmFits
<1>4. CASE tx = rc[r].seen /\ tx' = [status |-> rc[r].target, rev |-> rc[r].seen.rev + 1]
    <2>1. tx'.status = rc[r].target /\ tx'.rev = tx.rev + 1
        BY <1>4
    <2>2. /\ rc[r].target \in {"ABORTED", "RECOVERY_REQUIRED"}
          /\ tx.status \in {"PREPARED", "RUNNING"}
        BY <1>1, <1>4, ReconcilersKnow DEF Knows
    <2>3. /\ rc[r].target = "RECOVERY_REQUIRED" => tx.status = "RUNNING"
          /\ rc[r].target = "ABORTED" => tx.rev <= 2
        BY <1>1, <1>4 DEF RecordFits
    <2>4. <<tx.status, tx'.status>> \in Lifecycle
        BY <2>1, <2>2, <2>3 DEF Lifecycle
    <2>5. tx.rev # 0
        BY <2>2, Types DEF IInv, RecordFits
    <2>6. tx'.status = "ABORTED" => tx'.rev \in {2, 3}
        BY <2>1, <2>3, <2>5, Types
    <2>7. Lawful
        BY <1>1, <2>1, <2>2, <2>4, <2>6 DEF Lawful, LawfulRecord, LawfulJournal, Legal
    <2> QED BY <1>2, <2>7, LawfulFits
<1> QED BY <1>3, <1>4 DEF StopTransaction, Persist

LEMMA ReconStepFits ==
    ASSUME IInv, RecordFits, NEW r \in Recon, ReconStep(r) PROVE RecordFits' /\ Legal
<1>1. rc \in [Recon -> Reconciler] /\ rc[r] \in Reconciler
    BY DEF IInv, TypeOK
<1>3. CASE ReadTransaction(r)
    <2>1. rc'[r].at = "owner" /\ \A q \in Recon \ {r} : rc'[q] = rc[q]
        BY <1>1, <1>3 DEF ReadTransaction, Reconciler
    <2> QED BY <1>3, <2>1, CalmFits DEF ReadTransaction, files
<1>4. CASE ReadOwner(r)
    <2>1. CASE Rests(r)
        BY <1>4, <2>1, IdleKnows, ReconReadsFit DEF Rests, ReadOwner, files
    <2>2. CASE /\ OwnerVerdict(r) # "idle"
               /\ rc' = [rc EXCEPT ![r].at = OwnerVerdict(r),
                                   ![r].token = IF owner = None THEN None ELSE owner.exec,
                                   ![r].live = owner # None /\ owner.proc \in alive]
        <3>1. OwnerVerdict(r) \in {"lane", "journal"}
            BY <2>2 DEF OwnerVerdict
        <3>2. rc'[r].at = OwnerVerdict(r) /\ \A q \in Recon \ {r} : rc'[q] = rc[q]
            BY <1>1, <2>2 DEF Reconciler
        <3> QED BY <1>4, <3>1, <3>2, CalmFits DEF ReadOwner, files
    <2> QED BY <1>4, <2>1, <2>2 DEF ReadOwner
<1>5. CASE InspectLane(r)
    <2>1. CASE Rests(r)
        BY <1>5, <2>1, IdleKnows, ReconReadsFit DEF Rests, InspectLane, files
    <2>2. ASSUME NEW l \in {"journal", "release", "reread"}, NEW t, NEW m,
                 rc' = [rc EXCEPT ![r].at = l, ![r].lease = t, ![r].mine = m]
          PROVE  RecordFits' /\ Legal
        <3>1. rc'[r].at = l /\ \A q \in Recon \ {r} : rc'[q] = rc[q]
            BY <1>1, <2>2 DEF Reconciler
        <3> QED BY <1>5, <2>2, <3>1, CalmFits DEF InspectLane, files
    <2> QED BY <1>5, <2>1, <2>2 DEF InspectLane
<1>6. CASE RereadOwner(r) \/ UnlinkFound(r) \/ ReleaseLane(r)
    <2>1. UNCHANGED <<tx, journal, ex>>
        BY <1>6 DEF RereadOwner, UnlinkFound, ReleaseLane, files
    <2>2. CASE Rests(r)
        BY <2>1, <2>2, IdleKnows, ReconReadsFit DEF Rests
    <2>3. CASE \E l \in {"unlink", "release"} : Goes(r, l)
        BY <2>1, <2>3, GoesIs, ReconReadsFit
    <2> QED BY <1>6, <2>2, <2>3 DEF RereadOwner, UnlinkFound, ReleaseLane
<1> QED BY <1>3, <1>4, <1>5, <1>6, InspectJournalFits, StopTransactionFits DEF ReconStep

LEMMA NextFits == ASSUME IInv, RecordFits, [Next]_vars PROVE RecordFits' /\ Legal
<1>1. CASE \E e \in Exec : ExecStep(e) \/ WorkerStep(e) \/ \E p \in Proc : Admit(e, p)
    BY <1>1, ExecStepFits, WorkerStepFits, AdmitFits
<1>2. CASE \E r \in Recon : ReconStep(r)
    BY <1>2, ReconStepFits
<1>3. CASE DisplaceDead \/ \E e \in Exec : OrphanDies(e)
    BY <1>3, CalmFits DEF DisplaceDead, OrphanDies, files
<1>4. ASSUME NEW p \in Proc, Crash(p) PROVE RecordFits' /\ Legal
    <2>1. UNCHANGED <<tx, journal, ex>> /\ \A r \in Recon : rc'[r] \in {IdleRecon, rc[r]}
        BY <1>4 DEF Crash, files
    <2> QED BY <2>1, IdleKnows, CalmFits
<1>5. CASE UNCHANGED vars
    BY <1>5, CalmFits DEF vars
<1> QED BY <1>1, <1>2, <1>3, <1>4, <1>5 DEF Next

\* Every persist of executeDelegationV2, of its controller and of the reconcilers is a
\* transition that DelegationTransaction has, taken at a revision its serializer accepts:
\* the compare-and-swap alone, which looks at the revision only, never lets an illegal one
\* through, and the late abort that StorableTransitions leaves open is never asked for.
THEOREM PersistsFollowLifecycle == Spec => PersistsAreLegal
<1>1. Init => RecordFits
    <2> SUFFICES ASSUME Init PROVE RecordFits
        OBVIOUS
    <2>1. /\ tx.status = "none" /\ tx.rev = 0 /\ journal = "absent"
          /\ \A e \in Exec : ex[e].resumes = FALSE
        BY DEF Init
    <2>2. \A r \in Recon : rc[r].at = "idle"
        BY IdleKnows DEF Init
    <2> QED BY <2>1, <2>2 DEF RecordFits, Unused
<1>2. IInv /\ RecordFits /\ [Next]_vars => RecordFits'
    BY NextFits
<1>3. IInv /\ RecordFits /\ [Next]_vars => [Legal]_vars
    BY NextFits
<1>4. Spec => [](IInv /\ RecordFits)
    BY <1>1, <1>2, ExecutionsAreConsistent, PTL DEF Spec
<1> QED BY <1>3, <1>4, PTL DEF Spec, PersistsAreLegal, Legal
=============================================================================
