------------------------- MODULE CheckoutOperation -------------------------
(***************************************************************************)
(* The process-wide registry of core/project-checkout-operation.ts: which  *)
(* command or tool of THIS process owns the checkout lane, whether its     *)
(* work has settled, and how many nested callers borrow it.                *)
(*                                                                         *)
(* JavaScript runs a caller without interruption between two awaits, so    *)
(* an action is the code from one await to the next.  The fixed lock file  *)
(* is the one of StartLock.  Its release looks at the path, renames what   *)
(* is there and looks again, so two releases of one token may overlap, and *)
(* the second, like a late recovery, may take a lock of somebody else from *)
(* the path.  The history variable displaced says whose.                   *)
(***************************************************************************)
EXTENDS Integers, FiniteSets

CONSTANTS
    Caller,   \* asynchronous commands, tools and reconcilers of the process
    Token,    \* start-lock tokens of this process
    Foreign,  \* the token of any other process
    None,     \* no lock, no record, no token
    Faults,   \* whether start-lock calls may fail
    MaxLate   \* bound: renames by others that come too late

ASSUME CheckoutAssumption ==
    /\ Foreign \notin Token
    /\ None \notin Token \union {Foreign}
    /\ Faults \in BOOLEAN
    /\ MaxLate \in Nat
    /\ None \notin [token : Token, settlement : {"active", "generic_release", "delegation_cas"},
                    borrowers : Nat]

VARIABLES
    lock,     \* the owner token in the fixed lock file
    parked,   \* parked[t]: the owner token in the file that a release of t renames the lock to
    shelf,    \* locks that recoveries, or other processes, renamed and may link back
    late,     \* renames that others, who judged a lock that is gone by now, may still do
    displaced,\* history: locks renamed from the path for another token, and not put back
    record,   \* the registry entry of the project root
    pc,       \* pc[c]: the await c is suspended at
    lease,    \* lease[c]: the token c acquired, borrows or releases
    seen,     \* seen[c]: the lock c read before its last await
    resume    \* resume[c]: where c goes on once a release is done

lockFiles == <<lock, parked, shelf, late, displaced>>
vars == <<lockFiles, record, pc, lease, seen, resume>>

\* "active" stands for settled = false; the two others are the settlements.
Record == [token : Token, settlement : {"active", "generic_release", "delegation_cas"},
           borrowers : Nat]

PC == {"idle", "recover", "inspect", "inspected", "acquire", "readback", "publish", "guarded",
       "running", "release", "dest", "move", "verify", "restore", "clean", "forget", "cas",
       "reenter", "counted", "uncounted"}

TypeOK ==
    /\ lock \in Token \union {Foreign, None}
    /\ parked \in [Token -> Token \union {Foreign, None}]
    /\ shelf \subseteq Token /\ displaced \subseteq Token
    /\ late \in 0..MaxLate
    /\ record \in Record \union {None}
    /\ pc \in [Caller -> PC]
    /\ lease \in [Caller -> Token \union {None}]
    /\ seen \in [Caller -> Token \union {Foreign, None}]
    /\ resume \in [Caller -> {"idle", "acquire", "undo"}]
    /\ \A c \in Caller : /\ pc[c] \notin {"idle", "recover", "acquire"} => lease[c] \in Token
                         /\ pc[c] = "forget" => resume[c] # "undo"

Init ==
    /\ lock = None
    /\ parked = [t \in Token |-> None]
    /\ shelf = {} /\ displaced = {}
    /\ late = MaxLate
    /\ record = None
    /\ pc = [c \in Caller |-> "idle"]
    /\ lease = [c \in Caller |-> None]
    /\ seen = [c \in Caller |-> None]
    /\ resume = [c \in Caller |-> "idle"]

\* The registry entry is the one of token t (sameStartLock).
IsRecord(t) == record # None /\ record.token = t

\* Tokens are random: none that anything still holds or names.
Fresh == {t \in Token :
            /\ t # lock /\ t \notin shelf /\ parked[t] = None
            /\ \A u \in Token : parked[u] # t
            /\ \A c \in Caller : lease[c] # t /\ seen[c] # t
            /\ ~IsRecord(t)}

Goto(c, l) == pc' = [pc EXCEPT ![c] = l]

\* The call returns and its locals are gone.
Return(c) ==
    /\ Goto(c, "idle")
    /\ lease' = [lease EXCEPT ![c] = None]
    /\ seen' = [seen EXCEPT ![c] = None]
    /\ resume' = [resume EXCEPT ![c] = "idle"]

\* The prefix of releaseProjectCheckoutOperationV1 before its await, for an
\* exclusive lease t with the registry entry r.
MayRelease(r, t) == r # None /\ r.token = t /\ r.borrowers = 0

-----------------------------------------------------------------------------
(* acquireProjectCheckoutOperationV1 without a reentrant token *)

AcquireStart(c) ==
    /\ pc[c] = "idle"
    /\ Goto(c, "recover")
    /\ UNCHANGED <<lockFiles, record, lease, seen, resume>>

\* Mutant: an entry without borrowers is recovered before it has settled.
MutantRecoverCheck(c) ==
    /\ pc[c] = "recover"
    /\ \/ record = None /\ Goto(c, "acquire") /\ UNCHANGED <<lease, seen, resume>>
       \/ /\ record # None /\ record.borrowers = 0
          /\ lease' = [lease EXCEPT ![c] = record.token]
          /\ Goto(c, "inspect")
          /\ UNCHANGED <<seen, resume>>
       \/ record # None /\ record.borrowers # 0 /\ Return(c)
    /\ UNCHANGED <<lockFiles, record>>

\* recoverSettledGenericProjectCheckoutOperationV1 reads the registry.
RecoverCheck(c) ==
    /\ pc[c] = "recover"
    /\ \/ record = None /\ Goto(c, "acquire") /\ UNCHANGED <<lease, seen, resume>>
       \/ /\ record # None
          /\ record.settlement = "generic_release" /\ record.borrowers = 0
          /\ lease' = [lease EXCEPT ![c] = record.token]
          /\ Goto(c, "inspect")
          /\ UNCHANGED <<seen, resume>>
       \/ /\ record # None
          /\ ~(record.settlement = "generic_release" /\ record.borrowers = 0)
          /\ Return(c)
    /\ UNCHANGED <<lockFiles, record>>

\* The fixed owner is read; what was read is used after the await only.
RecoverInspect(c) ==
    /\ pc[c] = "inspect"
    /\ \/ seen' = [seen EXCEPT ![c] = lock] /\ Goto(c, "inspected") /\ UNCHANGED <<lease, resume>>
       \/ Faults /\ Return(c)
    /\ UNCHANGED <<lockFiles, record>>

\* Absent: drop the settled entry if it is still the same.  Present with the
\* same token: release it like its owner would.
RecoverDecide(c) ==
    /\ pc[c] = "inspected"
    /\ \/ /\ seen[c] = None
          /\ IsRecord(lease[c]) /\ record.settlement # "active" /\ record.borrowers = 0
          /\ record' = None
          /\ Goto(c, "acquire")
          /\ UNCHANGED <<lease, seen, resume>>
       \/ /\ seen[c] = lease[c]
          /\ MayRelease(record, lease[c])
          /\ Goto(c, "release")
          /\ resume' = [resume EXCEPT ![c] = "acquire"]
          /\ UNCHANGED <<record, lease, seen>>
       \/ /\ ~(seen[c] = None /\ IsRecord(lease[c]) /\ record.settlement # "active"
               /\ record.borrowers = 0)
          /\ ~(seen[c] = lease[c] /\ MayRelease(record, lease[c]))
          /\ Return(c)
          /\ UNCHANGED record
    /\ UNCHANGED lockFiles

\* acquireProjectDelegationStartLockV1: the link, or a conflict with who is there.
AcquireLock(c) ==
    /\ pc[c] = "acquire"
    /\ \/ /\ lock = None
          /\ \E t \in Fresh :
                lock' = t /\ lease' = [lease EXCEPT ![c] = t] /\ displaced' = displaced \ {t}
          /\ Goto(c, "readback")
          /\ UNCHANGED <<seen, resume>>
       \/ (lock # None \/ Faults) /\ Return(c) /\ UNCHANGED <<lock, displaced>>
    /\ UNCHANGED <<parked, shelf, late, record>>

\* The lock c has linked but does not keep is released; the outcome is ignored.
Undo(c) ==
    /\ Goto(c, "release")
    /\ resume' = [resume EXCEPT ![c] = "undo"]
    /\ UNCHANGED <<lease, seen>>

\* The fixed path must hold what was linked.
AcquireReadback(c) ==
    /\ pc[c] = "readback"
    /\ \/ lock = lease[c] /\ Goto(c, "publish") /\ UNCHANGED <<lease, seen, resume>>
       \/ (lock # lease[c] \/ Faults) /\ Undo(c)
    /\ UNCHANGED <<lockFiles, record>>

\* The entry is stored unless another one appeared during the await.
Publish(c) ==
    /\ pc[c] = "publish"
    /\ \/ /\ record = None
          /\ record' = [token |-> lease[c], settlement |-> "active", borrowers |-> 0]
          /\ Goto(c, "guarded")
          /\ UNCHANGED <<lease, seen, resume>>
       \/ record # None /\ Undo(c) /\ UNCHANGED record
    /\ UNCHANGED lockFiles

-----------------------------------------------------------------------------
(* The life of an exclusive lease *)

\* The tool call guard lets the tool run.
Run(c) ==
    /\ pc[c] = "guarded"
    /\ Goto(c, "running")
    /\ UNCHANGED <<lockFiles, record, lease, seen, resume>>

\* releaseProjectCheckoutOperationV1 with the registry entry r, up to its await.
BeginRelease(c, r) ==
    IF MayRelease(r, lease[c])
    THEN Goto(c, "release") /\ UNCHANGED <<lease, seen, resume>>
    ELSE Return(c)

\* abandonCheckoutOperation: the guard refuses the tool after all.
Abandon(c) ==
    /\ pc[c] = "guarded"
    /\ BeginRelease(c, record)
    /\ UNCHANGED <<lockFiles, record>>

\* markProjectCheckoutOperationSettledV1.
Settled(t, settlement) ==
    IF IsRecord(t) /\ record.settlement \in {"active", settlement}
    THEN [record EXCEPT !.settlement = settlement]
    ELSE record

\* runProjectCheckoutOperationV1 and the tool_result middleware: the work is
\* over, so the entry is settled and released.
Finish(c) ==
    /\ pc[c] = "running"
    /\ record' = Settled(lease[c], "generic_release")
    /\ BeginRelease(c, record')
    /\ UNCHANGED lockFiles

\* A delegation with an open transaction keeps the lane for its reconciler.
FinishDelegation(c) ==
    /\ pc[c] = "running"
    /\ record' = Settled(lease[c], "delegation_cas")
    /\ Return(c)
    /\ UNCHANGED lockFiles

\* settledProjectCheckoutOperationLeaseV1, taken by a reconciler that then
\* settles the transaction before it releases the lane.
ReconcileTake(c) ==
    /\ pc[c] = "idle"
    /\ record # None
    /\ record.settlement = "delegation_cas" /\ record.borrowers = 0
    /\ lease' = [lease EXCEPT ![c] = record.token]
    /\ Goto(c, "cas")
    /\ UNCHANGED <<lockFiles, record, seen, resume>>

ReconcileRelease(c) ==
    /\ pc[c] = "cas"
    /\ BeginRelease(c, record)
    /\ UNCHANGED <<lockFiles, record>>

-----------------------------------------------------------------------------
(* releaseProjectDelegationStartLockV1: look, move aside, look, delete *)

\* The release succeeds: what follows is the caller's.
Released(c) ==
    IF resume[c] = "undo" THEN Return(c)
                          ELSE Goto(c, "forget") /\ UNCHANGED <<lease, seen, resume>>

\* An absent lock is released already; one of another token is a conflict.
ReleaseLook(c) ==
    /\ pc[c] = "release"
    /\ \/ lock = lease[c] /\ Goto(c, "dest") /\ UNCHANGED <<lease, seen, resume>>
       \/ lock = None /\ Released(c)
       \/ (lock \notin {None, lease[c]} \/ Faults) /\ Return(c)
    /\ UNCHANGED <<lockFiles, record>>

\* A file left under the release name is a conflict.
ReleaseDest(c) ==
    /\ pc[c] = "dest"
    /\ \/ parked[lease[c]] = None /\ Goto(c, "move") /\ UNCHANGED <<lease, seen, resume>>
       \/ (parked[lease[c]] # None \/ Faults) /\ Return(c)
    /\ UNCHANGED <<lockFiles, record>>

\* The rename takes whatever lock is there now over whatever is under the release name; two
\* links of one file stay as they are.
Rename(c) ==
    /\ lock # None
    /\ IF parked[lease[c]] = lock
       THEN UNCHANGED <<lock, parked, displaced>>
       ELSE /\ parked' = [parked EXCEPT ![lease[c]] = lock]
            /\ lock' = None
            /\ displaced' = displaced \union ({lock} \ {lease[c], Foreign})

\* A failure may come before the rename, or after it from the synchronisation.
ReleaseMove(c) ==
    /\ pc[c] = "move"
    /\ \/ Rename(c) /\ Goto(c, "verify") /\ UNCHANGED <<lease, seen, resume>>
       \/ lock = None /\ Released(c) /\ UNCHANGED <<lock, parked, displaced>>
       \/ Faults /\ (Rename(c) \/ UNCHANGED <<lock, parked, displaced>>) /\ Return(c)
    /\ UNCHANGED <<shelf, late, record>>

\* A missing, foreign or unreadable file is linked back.
ReleaseCheck(c) ==
    /\ pc[c] = "verify"
    /\ \/ parked[lease[c]] = lease[c] /\ Goto(c, "clean")
       \/ (parked[lease[c]] # lease[c] \/ Faults) /\ Goto(c, "restore")
    /\ UNCHANGED <<lockFiles, record, lease, seen, resume>>

\* The link fails when the path is taken, and keeps the file under its other name.
ReleaseRestore(c) ==
    /\ pc[c] = "restore"
    /\ \/ /\ lock = None /\ parked[lease[c]] # None
          /\ lock' = parked[lease[c]]
          /\ displaced' = displaced \ {lock'}
       \/ /\ lock # None \/ parked[lease[c]] = None \/ Faults
          /\ UNCHANGED <<lock, displaced>>
    /\ Return(c)
    /\ UNCHANGED <<parked, shelf, late, record>>

\* The file under the release name is deleted, which may be another one by now.
ReleaseClean(c) ==
    /\ pc[c] = "clean"
    /\ \/ parked[lease[c]] # None /\ parked' = [parked EXCEPT ![lease[c]] = None]
          /\ (Released(c) \/ (Faults /\ Return(c)))
       \/ (parked[lease[c]] = None \/ Faults) /\ Return(c) /\ UNCHANGED parked
    /\ UNCHANGED <<lock, shelf, late, displaced, record>>

\* records.delete(project_root), after the await and without another look.
Forget(c) ==
    /\ pc[c] = "forget"
    /\ record' = None
    /\ Goto(c, resume[c])
    /\ lease' = [lease EXCEPT ![c] = None]
    /\ seen' = [seen EXCEPT ![c] = None]
    /\ resume' = [resume EXCEPT ![c] = "idle"]
    /\ UNCHANGED lockFiles

-----------------------------------------------------------------------------
(* Reentrant acquisition: c borrows the lane of a running operation o *)

Reenter(c) ==
    /\ pc[c] = "idle"
    /\ \E o \in Caller : pc[o] = "running" /\ lease' = [lease EXCEPT ![c] = lease[o]]
    /\ seen' = [seen EXCEPT ![c] = lock]
    /\ Goto(c, "reenter")
    /\ UNCHANGED <<lockFiles, record, resume>>

\* Mutant: a settled operation still lends its lane.
MutantBorrow(c) ==
    /\ pc[c] = "reenter"
    /\ \/ /\ seen[c] = lease[c] /\ record = None
          /\ Goto(c, "uncounted")
          /\ UNCHANGED <<record, lease, seen, resume>>
       \/ /\ seen[c] = lease[c] /\ IsRecord(lease[c])
          /\ record' = [record EXCEPT !.borrowers = @ + 1]
          /\ Goto(c, "counted")
          /\ UNCHANGED <<lease, seen, resume>>
       \/ /\ \/ seen[c] # lease[c]
             \/ record # None /\ ~IsRecord(lease[c])
          /\ Return(c)
          /\ UNCHANGED record
    /\ UNCHANGED lockFiles

\* The token read before the await must be the borrowed one; an entry with
\* another token, or a settled one, refuses.
Borrow(c) ==
    /\ pc[c] = "reenter"
    /\ \/ /\ seen[c] = lease[c] /\ record = None
          /\ Goto(c, "uncounted")
          /\ UNCHANGED <<record, lease, seen, resume>>
       \/ /\ seen[c] = lease[c] /\ IsRecord(lease[c]) /\ record.settlement = "active"
          /\ record' = [record EXCEPT !.borrowers = @ + 1]
          /\ Goto(c, "counted")
          /\ UNCHANGED <<lease, seen, resume>>
       \/ /\ \/ seen[c] # lease[c]
             \/ record # None /\ ~(IsRecord(lease[c]) /\ record.settlement = "active")
          /\ Return(c)
          /\ UNCHANGED record
    /\ UNCHANGED lockFiles

\* Mutant: a returning borrower decrements whatever entry is there.
MutantBorrowReturn(c) ==
    /\ pc[c] \in {"counted", "uncounted"}
    /\ IF record # None
       THEN record' = [record EXCEPT !.borrowers = @ - 1]
       ELSE UNCHANGED record
    /\ Return(c)
    /\ UNCHANGED lockFiles

\* The reentrant branch of releaseProjectCheckoutOperationV1.
BorrowReturn(c) ==
    /\ pc[c] \in {"counted", "uncounted"}
    /\ IF IsRecord(lease[c]) /\ record.borrowers > 0
       THEN record' = [record EXCEPT !.borrowers = @ - 1]
       ELSE UNCHANGED record
    /\ Return(c)
    /\ UNCHANGED lockFiles

-----------------------------------------------------------------------------
(* Other processes, and the recoveries inside acquireProjectDelegationStartLockV1 *)

\* Another process takes the lock, leaves it, or dies and has it recovered.
ForeignStep ==
    /\ \/ lock = None /\ lock' = Foreign
       \/ lock = Foreign /\ lock' = None
    /\ UNCHANGED <<parked, shelf, late, displaced, record, pc, lease, seen, resume>>

\* recoverObservedOwner renames the lock that is there by now; so does a second release of
\* another process.
LateRename ==
    /\ late > 0 /\ late' = late - 1
    /\ lock \in Token /\ lock' = None
    /\ shelf' = shelf \union {lock} /\ displaced' = displaced \union {lock}
    /\ UNCHANGED <<parked, record, pc, lease, seen, resume>>

\* What was renamed late is linked back, if the path is free.
LateLinkBack ==
    /\ \E t \in shelf :
        /\ shelf' = shelf \ {t}
        /\ \/ lock = None /\ lock' = t /\ displaced' = displaced \ {t}
           \/ (lock # None \/ Faults) /\ UNCHANGED <<lock, displaced>>
    /\ UNCHANGED <<parked, late, record, pc, lease, seen, resume>>

Next ==
    \/ \E c \in Caller :
        \/ AcquireStart(c) \/ RecoverCheck(c) \/ RecoverInspect(c) \/ RecoverDecide(c)
        \/ AcquireLock(c) \/ AcquireReadback(c) \/ Publish(c)
        \/ Run(c) \/ Abandon(c) \/ Finish(c) \/ FinishDelegation(c)
        \/ ReconcileTake(c) \/ ReconcileRelease(c)
        \/ ReleaseLook(c) \/ ReleaseDest(c) \/ ReleaseMove(c) \/ ReleaseCheck(c)
        \/ ReleaseRestore(c) \/ ReleaseClean(c) \/ Forget(c)
        \/ Reenter(c) \/ Borrow(c) \/ BorrowReturn(c)
    \/ ForeignStep \/ LateRename \/ LateLinkBack

Spec == Init /\ [][Next]_vars

-----------------------------------------------------------------------------
(* Properties *)

\* Commands and tools that may write the checkout.
Owns(c) == pc[c] \in {"guarded", "running"}

\* A command or tool that may write the checkout has its own token in the fixed
\* lock, whatever recoveries, releases and reconcilers of the same process do
\* meanwhile, unless a call made for another token has renamed it from the path
\* and not put it back.  Without such a call two of them never run at once.
RunningHoldsLane ==
    \A c \in Caller : Owns(c) => lock = lease[c] \/ lease[c] \in displaced

\* A borrower that the registry counts works under a lane that is still locked, up to
\* the same renames: neither its owner nor a recovery releases it first.
CountedBorrowerHoldsLane ==
    \A c \in Caller : pc[c] = "counted" => lock = lease[c] \/ lease[c] \in displaced

\* Callers whose token nobody else may release ...
Holders == {"readback", "publish", "guarded", "running"}
\* ... and callers that are on their way to releasing a token.
Takers == {"inspect", "inspected", "release", "dest", "move", "verify", "restore", "clean", "cas"}

\* Neither recovery nor reconciliation is ever about to release the token of an operation
\* that has not settled, however many releases of one token overlap.
OnlySettledIsReleased ==
    \A c, d \in Caller : pc[c] \in Takers /\ Owns(d) => lease[c] # lease[d]

(***************************************************************************)
(* The inductive invariant behind RunningHoldsLane.                        *)
(***************************************************************************)

HoldersLocked ==
    \A c \in Caller :
        pc[c] \in Holders => lease[c] \in Token /\ (lock = lease[c] \/ lease[c] \in displaced)

HoldersDiffer ==
    \A c, d \in Caller :
        c # d /\ pc[c] \in Holders /\ pc[d] \in Holders => lease[c] # lease[d]

TakersSpareHolders ==
    \A c, d \in Caller : pc[c] \in Takers /\ pc[d] \in Holders => lease[c] # lease[d]

\* A settled entry is nobody's running operation.
SettledIsOver ==
    record # None /\ record.settlement # "active" =>
        \A c \in Caller : pc[c] \in Holders => lease[c] # record.token

IInv ==
    /\ TypeOK
    /\ HoldersLocked
    /\ HoldersDiffer
    /\ TakersSpareHolders
    /\ SettledIsOver

(***************************************************************************)
(* The inductive invariant behind CountedBorrowerHoldsLane, beside IInv.   *)
(***************************************************************************)

Borrowers == {"reenter", "counted", "uncounted"}

CountedBy(t) == {c \in Caller : pc[c] = "counted" /\ lease[c] = t}

CountedLocked ==
    \A c \in Caller :
        pc[c] = "counted" => lease[c] \in Token /\ (lock = lease[c] \/ lease[c] \in displaced)

TakersSpareCounted ==
    \A c, d \in Caller : pc[c] = "counted" /\ pc[d] \in Takers => lease[c] # lease[d]

\* Nobody borrows a token before its operation runs.
BorrowedHasRun ==
    \A c, d \in Caller :
        pc[c] \in Borrowers /\ pc[d] \in {"readback", "publish", "guarded"} => lease[c] # lease[d]

\* The entry counts at least the borrowers it knows of ...
CountCoversBorrowers ==
    record # None => /\ IsFiniteSet(CountedBy(record.token))
                     /\ Cardinality(CountedBy(record.token)) <= record.borrowers

\* ... and a borrower it does not know of came after it was deleted.
UncountedIsForgotten == \A c \in Caller : pc[c] = "uncounted" => ~IsRecord(lease[c])

\* An entry that may still be borrowed is the one of a running operation.
LenderRuns ==
    \A c \in Caller :
        pc[c] = "reenter" /\ IsRecord(lease[c]) /\ record.settlement = "active" =>
            \E o \in Caller : pc[o] = "running" /\ lease[o] = lease[c]

BInv ==
    /\ CountedLocked /\ TakersSpareCounted /\ BorrowedHasRun
    /\ CountCoversBorrowers /\ UncountedIsForgotten /\ LenderRuns

=============================================================================
