------------------------- MODULE CheckoutLaneProofs -------------------------
(***************************************************************************)
(* The writer lane of a checkout: the registry of CheckoutOperation inside *)
(* a process for every set of callers and tokens, and under it the lock    *)
(* file of StartLock between processes for every set of processes and      *)
(* tokens.                                                                 *)
(***************************************************************************)
EXTENDS CheckoutOperation, StartLock, FiniteSetTheorems, TLAPS

-----------------------------------------------------------------------------
(* The registry of a process *)

\* IInv holds initially.
LEMMA InitIInv == Init => IInv
  BY CheckoutAssumption
  DEF Init, IInv, TypeOK, PC, HoldersLocked, HoldersDiffer, TakersSpareHolders, Holders,
      Takers, SettledIsOver

LEMMA AcquireStartIInv == ASSUME IInv, NEW c \in Caller, AcquireStart(c) PROVE IInv'
  <1> USE CheckoutAssumption DEF IInv
  <1>1. TypeOK'
    BY DEF AcquireStart, lockFiles, Goto, Return, TypeOK, PC, Record
  <1>2. HoldersLocked'
    BY DEF AcquireStart, lockFiles, Goto, Return, TypeOK, HoldersLocked, TakersSpareHolders,
       HoldersDiffer, Holders, Takers, Record
  <1>3. HoldersDiffer'
    BY DEF AcquireStart, lockFiles, Goto, Return, TypeOK, HoldersDiffer, Holders, Record
  <1>4. TakersSpareHolders'
    BY DEF AcquireStart, lockFiles, Goto, Return, TypeOK, TakersSpareHolders, HoldersDiffer,
       SettledIsOver, Holders, Takers, Record
  <1>5. SettledIsOver'
    BY DEF AcquireStart, lockFiles, Goto, Return, TypeOK, SettledIsOver, HoldersDiffer,
       Holders, Record
  <1> QED BY <1>1, <1>2, <1>3, <1>4, <1>5

LEMMA RecoverCheckIInv == ASSUME IInv, NEW c \in Caller, RecoverCheck(c) PROVE IInv'
  <1> USE CheckoutAssumption DEF IInv
  <1>1. TypeOK'
    BY DEF RecoverCheck, lockFiles, Goto, Return, TypeOK, PC, Record
  <1>2. HoldersLocked'
    BY DEF RecoverCheck, lockFiles, Goto, Return, TypeOK, HoldersLocked, TakersSpareHolders,
       HoldersDiffer, Holders, Takers, Record
  <1>3. HoldersDiffer'
    BY DEF RecoverCheck, lockFiles, Goto, Return, TypeOK, HoldersDiffer, Holders, Record
  <1>4. TakersSpareHolders'
    BY DEF RecoverCheck, lockFiles, Goto, Return, TypeOK, TakersSpareHolders, HoldersDiffer,
       SettledIsOver, Holders, Takers, Record
  <1>5. SettledIsOver'
    BY DEF RecoverCheck, lockFiles, Goto, Return, TypeOK, SettledIsOver, HoldersDiffer,
       Holders, Record
  <1> QED BY <1>1, <1>2, <1>3, <1>4, <1>5

LEMMA RecoverInspectIInv == ASSUME IInv, NEW c \in Caller, RecoverInspect(c) PROVE IInv'
  <1> USE CheckoutAssumption DEF IInv
  <1>1. TypeOK'
    BY DEF RecoverInspect, lockFiles, Goto, Return, TypeOK, PC, Record
  <1>2. HoldersLocked'
    BY DEF RecoverInspect, lockFiles, Goto, Return, TypeOK, HoldersLocked, TakersSpareHolders,
       HoldersDiffer, Holders, Takers, Record
  <1>3. HoldersDiffer'
    BY DEF RecoverInspect, lockFiles, Goto, Return, TypeOK, HoldersDiffer, Holders, Record
  <1>4. TakersSpareHolders'
    BY DEF RecoverInspect, lockFiles, Goto, Return, TypeOK, TakersSpareHolders, HoldersDiffer,
       SettledIsOver, Holders, Takers, Record
  <1>5. SettledIsOver'
    BY DEF RecoverInspect, lockFiles, Goto, Return, TypeOK, SettledIsOver, HoldersDiffer,
       Holders, Record
  <1> QED BY <1>1, <1>2, <1>3, <1>4, <1>5

LEMMA RecoverDecideIInv == ASSUME IInv, NEW c \in Caller, RecoverDecide(c) PROVE IInv'
  <1> USE CheckoutAssumption DEF IInv
  <1>1. TypeOK'
    BY DEF RecoverDecide, lockFiles, Goto, Return, IsRecord, MayRelease, TypeOK, PC, Record
  <1>2. HoldersLocked'
    BY DEF RecoverDecide, lockFiles, Goto, Return, IsRecord, MayRelease, TypeOK, HoldersLocked,
       TakersSpareHolders, HoldersDiffer, Holders, Takers, Record
  <1>3. HoldersDiffer'
    BY DEF RecoverDecide, lockFiles, Goto, Return, IsRecord, MayRelease, TypeOK, HoldersDiffer,
       Holders, Record
  <1>4. TakersSpareHolders'
    BY DEF RecoverDecide, lockFiles, Goto, Return, IsRecord, MayRelease, TypeOK,
       TakersSpareHolders, HoldersDiffer, SettledIsOver, Holders, Takers, Record
  <1>5. SettledIsOver'
    BY DEF RecoverDecide, lockFiles, Goto, Return, IsRecord, MayRelease, TypeOK, SettledIsOver,
       HoldersDiffer, Holders, Record
  <1> QED BY <1>1, <1>2, <1>3, <1>4, <1>5

LEMMA AcquireLockIInv == ASSUME IInv, NEW c \in Caller, AcquireLock(c) PROVE IInv'
  <1> USE CheckoutAssumption DEF IInv
  <1>1. TypeOK'
    BY DEF AcquireLock, lockFiles, Goto, Return, Fresh, IsRecord, TypeOK, PC, Record
  <1>2. HoldersLocked'
    BY DEF AcquireLock, lockFiles, Goto, Return, Fresh, IsRecord, TypeOK, HoldersLocked,
       TakersSpareHolders, HoldersDiffer, Holders, Takers, Record
  <1>3. HoldersDiffer'
    BY DEF AcquireLock, lockFiles, Goto, Return, Fresh, IsRecord, TypeOK, HoldersDiffer,
       Holders, Record
  <1>4. TakersSpareHolders'
    BY DEF AcquireLock, lockFiles, Goto, Return, Fresh, IsRecord, TypeOK,
       TakersSpareHolders, HoldersDiffer, SettledIsOver, Holders, Takers, Record
  <1>5. SettledIsOver'
    BY DEF AcquireLock, lockFiles, Goto, Return, Fresh, IsRecord, TypeOK, SettledIsOver,
       HoldersDiffer, Holders, Record
  <1> QED BY <1>1, <1>2, <1>3, <1>4, <1>5

LEMMA AcquireReadbackIInv == ASSUME IInv, NEW c \in Caller, AcquireReadback(c) PROVE IInv'
  <1> USE CheckoutAssumption DEF IInv
  <1>1. TypeOK'
    BY DEF AcquireReadback, Undo, lockFiles, Goto, TypeOK, PC, Record
  <1>2. HoldersLocked'
    BY DEF AcquireReadback, Undo, lockFiles, Goto, TypeOK, HoldersLocked, Holders
  <1>3. HoldersDiffer'
    BY DEF AcquireReadback, Undo, lockFiles, Goto, TypeOK, HoldersDiffer, Holders
  <1>4. TakersSpareHolders'
    BY DEF AcquireReadback, Undo, lockFiles, Goto, TypeOK, TakersSpareHolders,
       HoldersDiffer, Holders, Takers
  <1>5. SettledIsOver'
    BY DEF AcquireReadback, Undo, lockFiles, Goto, TypeOK, SettledIsOver, Holders
  <1> QED BY <1>1, <1>2, <1>3, <1>4, <1>5

LEMMA PublishIInv == ASSUME IInv, NEW c \in Caller, Publish(c) PROVE IInv'
  <1> USE CheckoutAssumption DEF IInv
  <1>1. TypeOK'
    BY DEF Publish, Undo, lockFiles, Goto, TypeOK, HoldersLocked, PC, Record
  <1>2. HoldersLocked'
    BY DEF Publish, Undo, lockFiles, Goto, Return, TypeOK, HoldersLocked,
       TakersSpareHolders, HoldersDiffer, Holders, Takers, Record
  <1>3. HoldersDiffer'
    BY DEF Publish, Undo, lockFiles, Goto, Return, TypeOK, HoldersDiffer, Holders, Record
  <1>4. TakersSpareHolders'
    BY DEF Publish, Undo, lockFiles, Goto, Return, TypeOK, TakersSpareHolders,
       HoldersDiffer, SettledIsOver, Holders, Takers, Record
  <1>5. SettledIsOver'
    BY DEF Publish, Undo, lockFiles, Goto, Return, TypeOK, SettledIsOver, HoldersDiffer,
       Holders, Record
  <1> QED BY <1>1, <1>2, <1>3, <1>4, <1>5

LEMMA RunIInv == ASSUME IInv, NEW c \in Caller, Run(c) PROVE IInv'
  <1> USE CheckoutAssumption DEF IInv
  <1>1. TypeOK'
    BY DEF Run, lockFiles, Goto, Return, TypeOK, PC, Record
  <1>2. HoldersLocked'
    BY DEF Run, lockFiles, Goto, Return, TypeOK, HoldersLocked, TakersSpareHolders,
       HoldersDiffer, Holders, Takers, Record
  <1>3. HoldersDiffer'
    BY DEF Run, lockFiles, Goto, Return, TypeOK, HoldersDiffer, Holders, Record
  <1>4. TakersSpareHolders'
    BY DEF Run, lockFiles, Goto, Return, TypeOK, TakersSpareHolders, HoldersDiffer,
       SettledIsOver, Holders, Takers, Record
  <1>5. SettledIsOver'
    BY DEF Run, lockFiles, Goto, Return, TypeOK, SettledIsOver, HoldersDiffer, Holders, Record
  <1> QED BY <1>1, <1>2, <1>3, <1>4, <1>5

LEMMA AbandonIInv == ASSUME IInv, NEW c \in Caller, Abandon(c) PROVE IInv'
  <1> USE CheckoutAssumption DEF IInv
  <1>1. TypeOK'
    BY DEF Abandon, lockFiles, Goto, Return, BeginRelease, MayRelease, TypeOK, PC, Record
  <1>2. HoldersLocked'
    BY DEF Abandon, lockFiles, Goto, Return, BeginRelease, MayRelease, TypeOK, HoldersLocked,
       TakersSpareHolders, HoldersDiffer, Holders, Takers, Record
  <1>3. HoldersDiffer'
    BY DEF Abandon, lockFiles, Goto, Return, BeginRelease, MayRelease, TypeOK,
       HoldersDiffer, Holders, Record
  <1>4. TakersSpareHolders'
    BY DEF Abandon, lockFiles, Goto, Return, BeginRelease, MayRelease, TypeOK,
       TakersSpareHolders, HoldersDiffer, SettledIsOver, Holders, Takers, Record
  <1>5. SettledIsOver'
    BY DEF Abandon, lockFiles, Goto, Return, BeginRelease, MayRelease, TypeOK, SettledIsOver,
       HoldersDiffer, Holders, Record
  <1> QED BY <1>1, <1>2, <1>3, <1>4, <1>5

LEMMA FinishIInv == ASSUME IInv, NEW c \in Caller, Finish(c) PROVE IInv'
  <1> USE CheckoutAssumption DEF IInv
  <1>1. TypeOK'
    BY DEF Finish, lockFiles, Goto, Return, BeginRelease, MayRelease, Settled, IsRecord,
       TypeOK, PC, Record
  <1>2. HoldersLocked'
    BY DEF Finish, lockFiles, Goto, Return, BeginRelease, MayRelease, Settled, IsRecord, TypeOK,
       HoldersLocked, TakersSpareHolders, HoldersDiffer, Holders, Takers, Record
  <1>3. HoldersDiffer'
    BY DEF Finish, lockFiles, Goto, Return, BeginRelease, MayRelease, Settled, IsRecord, TypeOK,
       HoldersDiffer, Holders, Record
  <1>4. TakersSpareHolders'
    BY DEF Finish, lockFiles, Goto, Return, BeginRelease, MayRelease, Settled, IsRecord, TypeOK,
       TakersSpareHolders, HoldersDiffer, SettledIsOver, Holders, Takers, Record
  <1>5. SettledIsOver'
    BY DEF Finish, lockFiles, Goto, Return, BeginRelease, MayRelease, Settled, IsRecord, TypeOK,
       SettledIsOver, HoldersDiffer, Holders, Record
  <1> QED BY <1>1, <1>2, <1>3, <1>4, <1>5

LEMMA FinishDelegationIInv == ASSUME IInv, NEW c \in Caller, FinishDelegation(c) PROVE IInv'
  <1> USE CheckoutAssumption DEF IInv
  <1>1. TypeOK'
    BY DEF FinishDelegation, lockFiles, Goto, Return, Settled, IsRecord, TypeOK, PC, Record
  <1>2. HoldersLocked'
    BY DEF FinishDelegation, lockFiles, Goto, Return, Settled, IsRecord, TypeOK, HoldersLocked,
       TakersSpareHolders, HoldersDiffer, Holders, Takers, Record
  <1>3. HoldersDiffer'
    BY DEF FinishDelegation, lockFiles, Goto, Return, Settled, IsRecord, TypeOK, HoldersDiffer,
       Holders, Record
  <1>4. TakersSpareHolders'
    BY DEF FinishDelegation, lockFiles, Goto, Return, Settled, IsRecord, TypeOK,
       TakersSpareHolders, HoldersDiffer, SettledIsOver, Holders, Takers, Record
  <1>5. SettledIsOver'
    BY DEF FinishDelegation, lockFiles, Goto, Return, Settled, IsRecord, TypeOK, SettledIsOver,
       HoldersDiffer, Holders, Record
  <1> QED BY <1>1, <1>2, <1>3, <1>4, <1>5

LEMMA ReconcileTakeIInv == ASSUME IInv, NEW c \in Caller, ReconcileTake(c) PROVE IInv'
  <1> USE CheckoutAssumption DEF IInv
  <1>1. TypeOK'
    BY DEF ReconcileTake, lockFiles, Goto, Return, TypeOK, PC, Record
  <1>2. HoldersLocked'
    BY DEF ReconcileTake, lockFiles, Goto, Return, TypeOK, HoldersLocked, TakersSpareHolders,
       HoldersDiffer, Holders, Takers, Record
  <1>3. HoldersDiffer'
    BY DEF ReconcileTake, lockFiles, Goto, Return, TypeOK, HoldersDiffer, Holders, Record
  <1>4. TakersSpareHolders'
    BY DEF ReconcileTake, lockFiles, Goto, Return, TypeOK, TakersSpareHolders, HoldersDiffer,
       SettledIsOver, Holders, Takers, Record
  <1>5. SettledIsOver'
    BY DEF ReconcileTake, lockFiles, Goto, Return, TypeOK, SettledIsOver, HoldersDiffer,
       Holders, Record
  <1> QED BY <1>1, <1>2, <1>3, <1>4, <1>5

LEMMA ReconcileReleaseIInv == ASSUME IInv, NEW c \in Caller, ReconcileRelease(c) PROVE IInv'
  <1> USE CheckoutAssumption DEF IInv
  <1>1. TypeOK'
    BY DEF ReconcileRelease, lockFiles, Goto, Return, BeginRelease, MayRelease, TypeOK, PC,
       Record
  <1>2. HoldersLocked'
    BY DEF ReconcileRelease, lockFiles, Goto, Return, BeginRelease, MayRelease, TypeOK,
       HoldersLocked, TakersSpareHolders, HoldersDiffer, Holders, Takers, Record
  <1>3. HoldersDiffer'
    BY DEF ReconcileRelease, lockFiles, Goto, Return, BeginRelease, MayRelease, TypeOK,
       HoldersDiffer, Holders, Record
  <1>4. TakersSpareHolders'
    BY DEF ReconcileRelease, lockFiles, Goto, Return, BeginRelease, MayRelease, TypeOK,
       TakersSpareHolders, HoldersDiffer, SettledIsOver, Holders, Takers, Record
  <1>5. SettledIsOver'
    BY DEF ReconcileRelease, lockFiles, Goto, Return, BeginRelease, MayRelease, TypeOK,
       SettledIsOver, HoldersDiffer, Holders, Record
  <1> QED BY <1>1, <1>2, <1>3, <1>4, <1>5

LEMMA ForgetIInv == ASSUME IInv, NEW c \in Caller, Forget(c) PROVE IInv'
  <1> USE CheckoutAssumption DEF IInv
  <1>1. TypeOK'
    BY DEF Forget, lockFiles, Goto, Return, TypeOK, PC, Record
  <1>2. HoldersLocked'
    BY DEF Forget, lockFiles, Goto, Return, TypeOK, HoldersLocked, TakersSpareHolders,
       HoldersDiffer, Holders, Takers, Record
  <1>3. HoldersDiffer'
    BY DEF Forget, lockFiles, Goto, Return, TypeOK, HoldersDiffer, Holders, Record
  <1>4. TakersSpareHolders'
    BY DEF Forget, lockFiles, Goto, Return, TypeOK, TakersSpareHolders, HoldersDiffer,
       SettledIsOver, Holders, Takers, Record
  <1>5. SettledIsOver'
    BY DEF Forget, lockFiles, Goto, Return, TypeOK, SettledIsOver, HoldersDiffer, Holders,
       Record
  <1> QED BY <1>1, <1>2, <1>3, <1>4, <1>5

LEMMA ReenterIInv == ASSUME IInv, NEW c \in Caller, Reenter(c) PROVE IInv'
  <1> USE CheckoutAssumption DEF IInv
  <1>1. TypeOK'
    BY DEF Reenter, lockFiles, Goto, Return, TypeOK, PC, Record
  <1>2. HoldersLocked'
    BY DEF Reenter, lockFiles, Goto, Return, TypeOK, HoldersLocked, TakersSpareHolders,
       HoldersDiffer, Holders, Takers, Record
  <1>3. HoldersDiffer'
    BY DEF Reenter, lockFiles, Goto, Return, TypeOK, HoldersDiffer, Holders, Record
  <1>4. TakersSpareHolders'
    BY DEF Reenter, lockFiles, Goto, Return, TypeOK, TakersSpareHolders, HoldersDiffer,
       SettledIsOver, Holders, Takers, Record
  <1>5. SettledIsOver'
    BY DEF Reenter, lockFiles, Goto, Return, TypeOK, SettledIsOver, HoldersDiffer, Holders,
       Record
  <1> QED BY <1>1, <1>2, <1>3, <1>4, <1>5

LEMMA BorrowIInv == ASSUME IInv, NEW c \in Caller, Borrow(c) PROVE IInv'
  <1> USE CheckoutAssumption DEF IInv
  <1>1. TypeOK'
    BY DEF Borrow, lockFiles, Goto, Return, IsRecord, TypeOK, PC, Record
  <1>2. HoldersLocked'
    BY DEF Borrow, lockFiles, Goto, Return, IsRecord, TypeOK, HoldersLocked, TakersSpareHolders,
       HoldersDiffer, Holders, Takers, Record
  <1>3. HoldersDiffer'
    BY DEF Borrow, lockFiles, Goto, Return, IsRecord, TypeOK, HoldersDiffer, Holders, Record
  <1>4. TakersSpareHolders'
    BY DEF Borrow, lockFiles, Goto, Return, IsRecord, TypeOK, TakersSpareHolders, HoldersDiffer,
       SettledIsOver, Holders, Takers, Record
  <1>5. SettledIsOver'
    BY DEF Borrow, lockFiles, Goto, Return, IsRecord, TypeOK, SettledIsOver, HoldersDiffer,
       Holders, Record
  <1> QED BY <1>1, <1>2, <1>3, <1>4, <1>5

LEMMA BorrowReturnIInv == ASSUME IInv, NEW c \in Caller, BorrowReturn(c) PROVE IInv'
  <1> USE CheckoutAssumption DEF IInv
  <1>1. TypeOK'
    BY DEF BorrowReturn, lockFiles, Goto, Return, IsRecord, TypeOK, PC, Record
  <1>2. HoldersLocked'
    BY DEF BorrowReturn, lockFiles, Goto, Return, IsRecord, TypeOK, HoldersLocked,
       TakersSpareHolders, HoldersDiffer, Holders, Takers, Record
  <1>3. HoldersDiffer'
    BY DEF BorrowReturn, lockFiles, Goto, Return, IsRecord, TypeOK, HoldersDiffer, Holders,
       Record
  <1>4. TakersSpareHolders'
    BY DEF BorrowReturn, lockFiles, Goto, Return, IsRecord, TypeOK, TakersSpareHolders,
       HoldersDiffer, SettledIsOver, Holders, Takers, Record
  <1>5. SettledIsOver'
    BY DEF BorrowReturn, lockFiles, Goto, Return, IsRecord, TypeOK, SettledIsOver,
       HoldersDiffer, Holders, Record
  <1> QED BY <1>1, <1>2, <1>3, <1>4, <1>5

\* What a step leaves true of the token t: it is in the fixed lock, or a call made for
\* another token has it.
StaysLocked(t) == lock = t \/ t \in displaced => lock' = t \/ t \in displaced'

\* A caller that releases, and touches nobody's control but its own, breaks nothing: its
\* token is no holder's.
LEMMA TakerIInv ==
    ASSUME IInv, TypeOK', NEW c \in Caller, pc[c] \in Takers,
           pc'[c] \in Takers \union {"forget", "idle"},
           pc'[c] \in Takers => lease'[c] = lease[c],
           \A d \in Caller \ {c} : pc'[d] = pc[d] /\ lease'[d] = lease[d],
           record' = record,
           \A t \in Token \ {lease[c]} : StaysLocked(t)
    PROVE  IInv'
  <1>1. HoldersLocked'
    BY DEF IInv, HoldersLocked, TakersSpareHolders, Takers, Holders, StaysLocked
  <1>2. HoldersDiffer'
    BY DEF IInv, HoldersDiffer, Takers, Holders
  <1>3. TakersSpareHolders'
    BY DEF IInv, TakersSpareHolders, Takers, Holders
  <1>4. SettledIsOver'
    BY DEF IInv, SettledIsOver, Takers, Holders
  <1> QED BY <1>1, <1>2, <1>3, <1>4 DEF IInv

\* What a step of a release does, whichever it is.
LEMMA ReleaseStep ==
    ASSUME IInv, NEW c \in Caller,
           \/ ReleaseLook(c) \/ ReleaseDest(c) \/ ReleaseMove(c) \/ ReleaseCheck(c)
           \/ ReleaseRestore(c) \/ ReleaseClean(c)
    PROVE  /\ TypeOK'
           /\ pc[c] \in Takers
           /\ pc'[c] \in Takers \union {"forget", "idle"}
           /\ pc'[c] \in Takers => lease'[c] = lease[c]
           /\ \A d \in Caller \ {c} : pc'[d] = pc[d] /\ lease'[d] = lease[d]
           /\ record' = record
           /\ \A t \in Token \ {lease[c]} : StaysLocked(t)
  <1> USE CheckoutAssumption DEF IInv, TypeOK, PC, Record, Takers, StaysLocked, Goto, Return,
          Released, lockFiles
  <1>1. CASE ReleaseLook(c)
    BY <1>1 DEF ReleaseLook
  <1>2. CASE ReleaseDest(c)
    BY <1>2 DEF ReleaseDest
  <1>3. CASE ReleaseMove(c)
    BY <1>3 DEF ReleaseMove, Rename
  <1>4. CASE ReleaseCheck(c)
    BY <1>4 DEF ReleaseCheck
  <1>5. CASE ReleaseRestore(c)
    BY <1>5 DEF ReleaseRestore
  <1>6. CASE ReleaseClean(c)
    BY <1>6 DEF ReleaseClean
  <1> QED BY <1>1, <1>2, <1>3, <1>4, <1>5, <1>6

\* Steps of others touch no caller and no entry.
LEMMA EnvironmentStep ==
    ASSUME IInv, ForeignStep \/ LateRename \/ LateLinkBack
    PROVE  /\ TypeOK'
           /\ UNCHANGED <<record, pc, lease>>
           /\ \A t \in Token : StaysLocked(t)
  BY CheckoutAssumption
  DEF IInv, TypeOK, ForeignStep, LateRename, LateLinkBack, StaysLocked

LEMMA EnvironmentIInv ==
    IInv /\ (ForeignStep \/ LateRename \/ LateLinkBack) => IInv'
  BY EnvironmentStep
  DEF IInv, StaysLocked, HoldersLocked, HoldersDiffer, TakersSpareHolders, SettledIsOver

LEMMA StutterIInv == IInv /\ UNCHANGED vars => IInv'
  BY DEF IInv, vars, lockFiles, TypeOK, HoldersLocked, HoldersDiffer, TakersSpareHolders,
     SettledIsOver

\* IInv is inductive: no interleaving of awaits breaks it.
LEMMA NextIInv == IInv /\ [Next]_vars => IInv'
  <1>1. ASSUME IInv, NEW c \in Caller,
               \/ ReleaseLook(c) \/ ReleaseDest(c) \/ ReleaseMove(c) \/ ReleaseCheck(c)
               \/ ReleaseRestore(c) \/ ReleaseClean(c)
        PROVE  IInv'
    BY <1>1, ReleaseStep, TakerIInv
  <1> QED
    BY <1>1, StutterIInv, EnvironmentIInv, AcquireStartIInv, RecoverCheckIInv,
       RecoverInspectIInv, RecoverDecideIInv, AcquireLockIInv, AcquireReadbackIInv, PublishIInv,
       RunIInv, AbandonIInv, FinishIInv, FinishDelegationIInv, ReconcileTakeIInv,
       ReconcileReleaseIInv, ForgetIInv, ReenterIInv, BorrowIInv, BorrowReturnIInv
    DEF Next

THEOREM IInvHolds == Spec => []IInv
  BY InitIInv, NextIInv, PTL DEF Spec

\* The registry, the lock and every caller's locals keep their types.
THEOREM TypeCorrect == Spec => []TypeOK
  <1>1. IInv => TypeOK BY DEF IInv
  <1> QED BY <1>1, IInvHolds, PTL

\* Whoever may write the checkout has its own token in the fixed lock, for any number of
\* concurrent commands, tools, recoveries, reconcilers and overlapping releases, unless a
\* call made for another token has renamed it from the path.
THEOREM RunningKeepsLane == Spec => []RunningHoldsLane
  <1>1. IInv => RunningHoldsLane
    BY DEF IInv, HoldersLocked, RunningHoldsLane, Owns, Holders
  <1> QED BY <1>1, IInvHolds, PTL

\* No recovery, release or reconciliation aims at a running operation.
THEOREM RunningIsSpared == Spec => []OnlySettledIsReleased
  <1>1. IInv => OnlySettledIsReleased
    BY DEF IInv, TakersSpareHolders, OnlySettledIsReleased, Owns, Takers, Holders
  <1> QED BY <1>1, IInvHolds, PTL

-----------------------------------------------------------------------------
(* Borrowers *)

\* An entry that counts nobody has no counted borrower.
LEMMA NobodyCounted ==
    ASSUME BInv, IInv, record # None, record.borrowers = 0
    PROVE  \A c \in Caller : pc[c] = "counted" => lease[c] # record.token
  <1>1. /\ IsFiniteSet(CountedBy(record.token))
        /\ Cardinality(CountedBy(record.token)) <= 0
    BY DEF BInv, CountCoversBorrowers
  <1> DEFINE t == record.token
  <1>2. Cardinality(CountedBy(t)) = 0
    <2>1. Cardinality(CountedBy(t)) \in Nat /\ Cardinality(CountedBy(t)) <= 0
      BY <1>1, FS_CardinalityType
    <2> QED BY <2>1
  <1>3. CountedBy(t) = {}
    BY <1>1, <1>2, FS_EmptySet, Zenon
  <1> QED BY <1>3 DEF CountedBy

\* The entry stays, or is deleted, or only its settlement changes: the count stays right.
LEMMA CountKept ==
    ASSUME BInv, NEW c \in Caller, pc[c] # "counted", pc'[c] # "counted",
           \A d \in Caller \ {c} : pc'[d] = pc[d] /\ lease'[d] = lease[d],
           record' # None => /\ record # None /\ record'.token = record.token
                             /\ record'.borrowers = record.borrowers
    PROVE  CountCoversBorrowers'
  <1>1. record' # None => CountedBy(record.token)' = CountedBy(record.token)
    BY DEF CountedBy
  <1> QED BY <1>1 DEF BInv, CountCoversBorrowers

LEMMA AcquireStartBInv == ASSUME BInv, IInv, NEW c \in Caller, AcquireStart(c) PROVE BInv'
  <1> USE CheckoutAssumption
  <1>1. /\ pc[c] # "counted" /\ pc'[c] # "counted" /\ pc'[c] # "uncounted"
        /\ \A d \in Caller \ {c} : pc'[d] = pc[d] /\ lease'[d] = lease[d]
        /\ record' # None => /\ record # None /\ record'.token = record.token
                             /\ record'.borrowers = record.borrowers
    BY DEF BInv, IInv, TypeOK, AcquireStart, lockFiles, Goto, PC, Record
  <1>2. CountCoversBorrowers'
    BY <1>1, CountKept
  <1>3. CountedLocked'
    BY <1>1 DEF BInv, IInv, TypeOK, AcquireStart, lockFiles, Goto, CountedLocked,
       TakersSpareCounted, BorrowedHasRun, Takers, Borrowers
  <1>4. TakersSpareCounted'
    BY <1>1 DEF BInv, IInv, TypeOK, AcquireStart, lockFiles, Goto, TakersSpareCounted, Takers
  <1>5. BorrowedHasRun'
    BY <1>1 DEF BInv, IInv, TypeOK, AcquireStart, lockFiles, Goto, BorrowedHasRun,
       HoldersDiffer, Holders, Borrowers
  <1>6. UncountedIsForgotten'
    BY <1>1 DEF BInv, IInv, TypeOK, AcquireStart, lockFiles, Goto, UncountedIsForgotten,
       IsRecord
  <1>7. LenderRuns'
    BY <1>1 DEF BInv, IInv, TypeOK, AcquireStart, lockFiles, Goto, LenderRuns, Record, IsRecord
  <1> QED BY <1>2, <1>3, <1>4, <1>5, <1>6, <1>7 DEF BInv

LEMMA RecoverCheckBInv == ASSUME BInv, IInv, NEW c \in Caller, RecoverCheck(c) PROVE BInv'
  <1> USE CheckoutAssumption
  <1>1. /\ pc[c] # "counted" /\ pc'[c] # "counted" /\ pc'[c] # "uncounted"
        /\ \A d \in Caller \ {c} : pc'[d] = pc[d] /\ lease'[d] = lease[d]
        /\ record' # None => /\ record # None /\ record'.token = record.token
                             /\ record'.borrowers = record.borrowers
    BY DEF BInv, IInv, TypeOK, RecoverCheck, lockFiles, Goto, Return, PC, Record
  <1>2. CountCoversBorrowers'
    BY <1>1, CountKept
  <1>3. CountedLocked'
    BY <1>1 DEF BInv, IInv, TypeOK, RecoverCheck, lockFiles, Goto, Return, CountedLocked,
       TakersSpareCounted, BorrowedHasRun, Takers, Borrowers
  <1>4. TakersSpareCounted'
    BY <1>1, NobodyCounted DEF BInv, IInv, TypeOK, RecoverCheck, lockFiles, Goto, Return,
       TakersSpareCounted, Takers
  <1>5. BorrowedHasRun'
    BY <1>1 DEF BInv, IInv, TypeOK, RecoverCheck, lockFiles, Goto, Return, BorrowedHasRun,
       HoldersDiffer, Holders, Borrowers
  <1>6. UncountedIsForgotten'
    BY <1>1 DEF BInv, IInv, TypeOK, RecoverCheck, lockFiles, Goto, Return,
       UncountedIsForgotten, IsRecord
  <1>7. LenderRuns'
    BY <1>1 DEF BInv, IInv, TypeOK, RecoverCheck, lockFiles, Goto, Return, LenderRuns,
       Record, IsRecord
  <1> QED BY <1>2, <1>3, <1>4, <1>5, <1>6, <1>7 DEF BInv

LEMMA RecoverInspectBInv == ASSUME BInv, IInv, NEW c \in Caller, RecoverInspect(c) PROVE BInv'
  <1> USE CheckoutAssumption
  <1>1. /\ pc[c] # "counted" /\ pc'[c] # "counted" /\ pc'[c] # "uncounted"
        /\ \A d \in Caller \ {c} : pc'[d] = pc[d] /\ lease'[d] = lease[d]
        /\ record' # None => /\ record # None /\ record'.token = record.token
                             /\ record'.borrowers = record.borrowers
    BY DEF BInv, IInv, TypeOK, RecoverInspect, lockFiles, Goto, Return, PC, Record
  <1>2. CountCoversBorrowers'
    BY <1>1, CountKept
  <1>3. CountedLocked'
    BY <1>1 DEF BInv, IInv, TypeOK, RecoverInspect, lockFiles, Goto, Return, CountedLocked,
       TakersSpareCounted, BorrowedHasRun, Takers, Borrowers
  <1>4. TakersSpareCounted'
    BY <1>1 DEF BInv, IInv, TypeOK, RecoverInspect, lockFiles, Goto, Return,
       TakersSpareCounted, Takers
  <1>5. BorrowedHasRun'
    BY <1>1 DEF BInv, IInv, TypeOK, RecoverInspect, lockFiles, Goto, Return, BorrowedHasRun,
       HoldersDiffer, Holders, Borrowers
  <1>6. UncountedIsForgotten'
    BY <1>1 DEF BInv, IInv, TypeOK, RecoverInspect, lockFiles, Goto, Return,
       UncountedIsForgotten, IsRecord
  <1>7. LenderRuns'
    BY <1>1 DEF BInv, IInv, TypeOK, RecoverInspect, lockFiles, Goto, Return, LenderRuns,
       Record, IsRecord
  <1> QED BY <1>2, <1>3, <1>4, <1>5, <1>6, <1>7 DEF BInv

LEMMA RecoverDecideBInv == ASSUME BInv, IInv, NEW c \in Caller, RecoverDecide(c) PROVE BInv'
  <1> USE CheckoutAssumption
  <1>1. /\ pc[c] # "counted" /\ pc'[c] # "counted" /\ pc'[c] # "uncounted"
        /\ \A d \in Caller \ {c} : pc'[d] = pc[d] /\ lease'[d] = lease[d]
        /\ record' # None => /\ record # None /\ record'.token = record.token
                             /\ record'.borrowers = record.borrowers
    BY DEF BInv, IInv, TypeOK, RecoverDecide, lockFiles, Goto, Return, IsRecord, MayRelease,
       PC, Record
  <1>2. CountCoversBorrowers'
    BY <1>1, CountKept
  <1>3. CountedLocked'
    BY <1>1 DEF BInv, IInv, TypeOK, RecoverDecide, lockFiles, Goto, Return, IsRecord,
       MayRelease, CountedLocked, TakersSpareCounted, BorrowedHasRun, Takers, Borrowers
  <1>4. TakersSpareCounted'
    BY <1>1, NobodyCounted DEF BInv, IInv, TypeOK, RecoverDecide, lockFiles, Goto, Return,
       IsRecord, MayRelease, TakersSpareCounted, Takers
  <1>5. BorrowedHasRun'
    BY <1>1 DEF BInv, IInv, TypeOK, RecoverDecide, lockFiles, Goto, Return, IsRecord,
       MayRelease, BorrowedHasRun, HoldersDiffer, Holders, Borrowers
  <1>6. UncountedIsForgotten'
    BY <1>1 DEF BInv, IInv, TypeOK, RecoverDecide, lockFiles, Goto, Return, IsRecord,
       MayRelease, UncountedIsForgotten
  <1>7. LenderRuns'
    BY <1>1 DEF BInv, IInv, TypeOK, RecoverDecide, lockFiles, Goto, Return, IsRecord,
       MayRelease, LenderRuns, Record
  <1> QED BY <1>2, <1>3, <1>4, <1>5, <1>6, <1>7 DEF BInv

LEMMA AcquireLockBInv == ASSUME BInv, IInv, NEW c \in Caller, AcquireLock(c) PROVE BInv'
  <1> USE CheckoutAssumption
  <1>1. /\ pc[c] # "counted" /\ pc'[c] # "counted" /\ pc'[c] # "uncounted"
        /\ \A d \in Caller \ {c} : pc'[d] = pc[d] /\ lease'[d] = lease[d]
        /\ record' # None => /\ record # None /\ record'.token = record.token
                             /\ record'.borrowers = record.borrowers
    BY DEF BInv, IInv, TypeOK, AcquireLock, lockFiles, Goto, Return, Fresh, IsRecord, PC, Record
  <1>2. CountCoversBorrowers'
    BY <1>1, CountKept
  <1>3. CountedLocked'
    BY <1>1 DEF BInv, IInv, TypeOK, AcquireLock, lockFiles, Goto, Return, Fresh, IsRecord,
       CountedLocked, TakersSpareCounted, BorrowedHasRun, Takers, Borrowers
  <1>4. TakersSpareCounted'
    BY <1>1 DEF BInv, IInv, TypeOK, AcquireLock, lockFiles, Goto, Return, Fresh, IsRecord,
       TakersSpareCounted, Takers
  <1>5. BorrowedHasRun'
    BY <1>1 DEF BInv, IInv, TypeOK, AcquireLock, lockFiles, Goto, Return, Fresh, IsRecord,
       BorrowedHasRun, HoldersDiffer, Holders, Borrowers
  <1>6. UncountedIsForgotten'
    BY <1>1 DEF BInv, IInv, TypeOK, AcquireLock, lockFiles, Goto, Return, Fresh, IsRecord,
       UncountedIsForgotten, IsRecord
  <1>7. LenderRuns'
    BY <1>1 DEF BInv, IInv, TypeOK, AcquireLock, lockFiles, Goto, Return, Fresh, IsRecord,
       LenderRuns, Record, IsRecord
  <1> QED BY <1>2, <1>3, <1>4, <1>5, <1>6, <1>7 DEF BInv

LEMMA RunBInv == ASSUME BInv, IInv, NEW c \in Caller, Run(c) PROVE BInv'
  <1> USE CheckoutAssumption
  <1>1. /\ pc[c] # "counted" /\ pc'[c] # "counted" /\ pc'[c] # "uncounted"
        /\ \A d \in Caller \ {c} : pc'[d] = pc[d] /\ lease'[d] = lease[d]
        /\ record' # None => /\ record # None /\ record'.token = record.token
                             /\ record'.borrowers = record.borrowers
    BY DEF BInv, IInv, TypeOK, Run, lockFiles, Goto, PC, Record
  <1>2. CountCoversBorrowers'
    BY <1>1, CountKept
  <1>3. CountedLocked'
    BY <1>1 DEF BInv, IInv, TypeOK, Run, lockFiles, Goto, CountedLocked, TakersSpareCounted,
       BorrowedHasRun, Takers, Borrowers
  <1>4. TakersSpareCounted'
    BY <1>1 DEF BInv, IInv, TypeOK, Run, lockFiles, Goto, TakersSpareCounted, Takers
  <1>5. BorrowedHasRun'
    BY <1>1 DEF BInv, IInv, TypeOK, Run, lockFiles, Goto, BorrowedHasRun, HoldersDiffer,
       Holders, Borrowers
  <1>6. UncountedIsForgotten'
    BY <1>1 DEF BInv, IInv, TypeOK, Run, lockFiles, Goto, UncountedIsForgotten, IsRecord
  <1>7. LenderRuns'
    BY <1>1 DEF BInv, IInv, TypeOK, Run, lockFiles, Goto, LenderRuns, Record, IsRecord
  <1> QED BY <1>2, <1>3, <1>4, <1>5, <1>6, <1>7 DEF BInv

LEMMA AbandonBInv == ASSUME BInv, IInv, NEW c \in Caller, Abandon(c) PROVE BInv'
  <1> USE CheckoutAssumption
  <1>1. /\ pc[c] # "counted" /\ pc'[c] # "counted" /\ pc'[c] # "uncounted"
        /\ \A d \in Caller \ {c} : pc'[d] = pc[d] /\ lease'[d] = lease[d]
        /\ record' # None => /\ record # None /\ record'.token = record.token
                             /\ record'.borrowers = record.borrowers
    BY DEF BInv, IInv, TypeOK, Abandon, lockFiles, Goto, Return, BeginRelease, MayRelease,
       PC, Record
  <1>2. CountCoversBorrowers'
    BY <1>1, CountKept
  <1>3. CountedLocked'
    BY <1>1 DEF BInv, IInv, TypeOK, Abandon, lockFiles, Goto, Return, BeginRelease, MayRelease,
       CountedLocked, TakersSpareCounted, BorrowedHasRun, Takers, Borrowers
  <1>4. TakersSpareCounted'
    BY <1>1, NobodyCounted DEF BInv, IInv, TypeOK, Abandon, lockFiles, Goto, Return,
       BeginRelease, MayRelease, TakersSpareCounted, Takers
  <1>5. BorrowedHasRun'
    BY <1>1 DEF BInv, IInv, TypeOK, Abandon, lockFiles, Goto, Return, BeginRelease, MayRelease,
       BorrowedHasRun, HoldersDiffer, Holders, Borrowers
  <1>6. UncountedIsForgotten'
    BY <1>1 DEF BInv, IInv, TypeOK, Abandon, lockFiles, Goto, Return, BeginRelease, MayRelease,
       UncountedIsForgotten, IsRecord
  <1>7. LenderRuns'
    BY <1>1 DEF BInv, IInv, TypeOK, Abandon, lockFiles, Goto, Return, BeginRelease, MayRelease,
       LenderRuns, Record, IsRecord
  <1> QED BY <1>2, <1>3, <1>4, <1>5, <1>6, <1>7 DEF BInv

LEMMA FinishBInv == ASSUME BInv, IInv, NEW c \in Caller, Finish(c) PROVE BInv'
  <1> USE CheckoutAssumption
  <1>1. /\ pc[c] # "counted" /\ pc'[c] # "counted" /\ pc'[c] # "uncounted"
        /\ \A d \in Caller \ {c} : pc'[d] = pc[d] /\ lease'[d] = lease[d]
        /\ record' # None => /\ record # None /\ record'.token = record.token
                             /\ record'.borrowers = record.borrowers
    BY DEF BInv, IInv, TypeOK, Finish, lockFiles, Goto, Return, BeginRelease, MayRelease,
       Settled, IsRecord, PC, Record
  <1>2. CountCoversBorrowers'
    BY <1>1, CountKept
  <1>3. CountedLocked'
    BY <1>1 DEF BInv, IInv, TypeOK, Finish, lockFiles, Goto, Return, BeginRelease, MayRelease,
       Settled, IsRecord, CountedLocked, TakersSpareCounted, BorrowedHasRun, Takers,
       Borrowers
  <1>4. TakersSpareCounted'
    BY <1>1, NobodyCounted DEF BInv, IInv, TypeOK, Finish, lockFiles, Goto, Return,
       BeginRelease, MayRelease, Settled, IsRecord, TakersSpareCounted, Takers
  <1>5. BorrowedHasRun'
    BY <1>1 DEF BInv, IInv, TypeOK, Finish, lockFiles, Goto, Return, BeginRelease, MayRelease,
       Settled, IsRecord, BorrowedHasRun, HoldersDiffer, Holders, Borrowers
  <1>6. UncountedIsForgotten'
    BY <1>1 DEF BInv, IInv, TypeOK, Finish, lockFiles, Goto, Return, BeginRelease, MayRelease,
       Settled, IsRecord, UncountedIsForgotten
  <1>7. LenderRuns'
    BY <1>1 DEF BInv, IInv, TypeOK, Finish, lockFiles, Goto, Return, BeginRelease, MayRelease,
       Settled, IsRecord, LenderRuns, Record
  <1> QED BY <1>2, <1>3, <1>4, <1>5, <1>6, <1>7 DEF BInv

LEMMA FinishDelegationBInv == ASSUME BInv, IInv, NEW c \in Caller, FinishDelegation(c) PROVE BInv'
  <1> USE CheckoutAssumption
  <1>1. /\ pc[c] # "counted" /\ pc'[c] # "counted" /\ pc'[c] # "uncounted"
        /\ \A d \in Caller \ {c} : pc'[d] = pc[d] /\ lease'[d] = lease[d]
        /\ record' # None => /\ record # None /\ record'.token = record.token
                             /\ record'.borrowers = record.borrowers
    BY DEF BInv, IInv, TypeOK, FinishDelegation, lockFiles, Goto, Return, Settled, IsRecord,
       PC, Record
  <1>2. CountCoversBorrowers'
    BY <1>1, CountKept
  <1>3. CountedLocked'
    BY <1>1 DEF BInv, IInv, TypeOK, FinishDelegation, lockFiles, Goto, Return, Settled,
       IsRecord, CountedLocked, TakersSpareCounted, BorrowedHasRun, Takers, Borrowers
  <1>4. TakersSpareCounted'
    BY <1>1 DEF BInv, IInv, TypeOK, FinishDelegation, lockFiles, Goto, Return, Settled,
       IsRecord, TakersSpareCounted, Takers
  <1>5. BorrowedHasRun'
    BY <1>1 DEF BInv, IInv, TypeOK, FinishDelegation, lockFiles, Goto, Return, Settled,
       IsRecord, BorrowedHasRun, HoldersDiffer, Holders, Borrowers
  <1>6. UncountedIsForgotten'
    BY <1>1 DEF BInv, IInv, TypeOK, FinishDelegation, lockFiles, Goto, Return, Settled,
       IsRecord, UncountedIsForgotten
  <1>7. LenderRuns'
    BY <1>1 DEF BInv, IInv, TypeOK, FinishDelegation, lockFiles, Goto, Return, Settled,
       IsRecord, LenderRuns, Record
  <1> QED BY <1>2, <1>3, <1>4, <1>5, <1>6, <1>7 DEF BInv

LEMMA ReconcileTakeBInv == ASSUME BInv, IInv, NEW c \in Caller, ReconcileTake(c) PROVE BInv'
  <1> USE CheckoutAssumption
  <1>1. /\ pc[c] # "counted" /\ pc'[c] # "counted" /\ pc'[c] # "uncounted"
        /\ \A d \in Caller \ {c} : pc'[d] = pc[d] /\ lease'[d] = lease[d]
        /\ record' # None => /\ record # None /\ record'.token = record.token
                             /\ record'.borrowers = record.borrowers
    BY DEF BInv, IInv, TypeOK, ReconcileTake, lockFiles, Goto, PC, Record
  <1>2. CountCoversBorrowers'
    BY <1>1, CountKept
  <1>3. CountedLocked'
    BY <1>1 DEF BInv, IInv, TypeOK, ReconcileTake, lockFiles, Goto, CountedLocked,
       TakersSpareCounted, BorrowedHasRun, Takers, Borrowers
  <1>4. TakersSpareCounted'
    BY <1>1, NobodyCounted DEF BInv, IInv, TypeOK, ReconcileTake, lockFiles, Goto,
       TakersSpareCounted, Takers
  <1>5. BorrowedHasRun'
    BY <1>1 DEF BInv, IInv, TypeOK, ReconcileTake, lockFiles, Goto, BorrowedHasRun,
       HoldersDiffer, Holders, Borrowers
  <1>6. UncountedIsForgotten'
    BY <1>1 DEF BInv, IInv, TypeOK, ReconcileTake, lockFiles, Goto, UncountedIsForgotten,
       IsRecord
  <1>7. LenderRuns'
    BY <1>1 DEF BInv, IInv, TypeOK, ReconcileTake, lockFiles, Goto, LenderRuns, Record, IsRecord
  <1> QED BY <1>2, <1>3, <1>4, <1>5, <1>6, <1>7 DEF BInv

LEMMA ReconcileReleaseBInv == ASSUME BInv, IInv, NEW c \in Caller, ReconcileRelease(c) PROVE BInv'
  <1> USE CheckoutAssumption
  <1>1. /\ pc[c] # "counted" /\ pc'[c] # "counted" /\ pc'[c] # "uncounted"
        /\ \A d \in Caller \ {c} : pc'[d] = pc[d] /\ lease'[d] = lease[d]
        /\ record' # None => /\ record # None /\ record'.token = record.token
                             /\ record'.borrowers = record.borrowers
    BY DEF BInv, IInv, TypeOK, ReconcileRelease, lockFiles, Goto, Return, BeginRelease,
       MayRelease, PC, Record
  <1>2. CountCoversBorrowers'
    BY <1>1, CountKept
  <1>3. CountedLocked'
    BY <1>1 DEF BInv, IInv, TypeOK, ReconcileRelease, lockFiles, Goto, Return, BeginRelease,
       MayRelease, CountedLocked, TakersSpareCounted, BorrowedHasRun, Takers, Borrowers
  <1>4. TakersSpareCounted'
    BY <1>1, NobodyCounted DEF BInv, IInv, TypeOK, ReconcileRelease, lockFiles, Goto, Return,
       BeginRelease, MayRelease, TakersSpareCounted, Takers
  <1>5. BorrowedHasRun'
    BY <1>1 DEF BInv, IInv, TypeOK, ReconcileRelease, lockFiles, Goto, Return, BeginRelease,
       MayRelease, BorrowedHasRun, HoldersDiffer, Holders, Borrowers
  <1>6. UncountedIsForgotten'
    BY <1>1 DEF BInv, IInv, TypeOK, ReconcileRelease, lockFiles, Goto, Return, BeginRelease,
       MayRelease, UncountedIsForgotten, IsRecord
  <1>7. LenderRuns'
    BY <1>1 DEF BInv, IInv, TypeOK, ReconcileRelease, lockFiles, Goto, Return, BeginRelease,
       MayRelease, LenderRuns, Record, IsRecord
  <1> QED BY <1>2, <1>3, <1>4, <1>5, <1>6, <1>7 DEF BInv

LEMMA ForgetBInv == ASSUME BInv, IInv, NEW c \in Caller, Forget(c) PROVE BInv'
  <1> USE CheckoutAssumption
  <1>1. /\ pc[c] # "counted" /\ pc'[c] # "counted" /\ pc'[c] # "uncounted"
        /\ \A d \in Caller \ {c} : pc'[d] = pc[d] /\ lease'[d] = lease[d]
        /\ record' # None => /\ record # None /\ record'.token = record.token
                             /\ record'.borrowers = record.borrowers
    BY DEF BInv, IInv, TypeOK, Forget, lockFiles, Goto, PC, Record
  <1>2. CountCoversBorrowers'
    BY <1>1, CountKept
  <1>3. CountedLocked'
    BY <1>1 DEF BInv, IInv, TypeOK, Forget, lockFiles, Goto, CountedLocked, TakersSpareCounted,
       BorrowedHasRun, Takers, Borrowers
  <1>4. TakersSpareCounted'
    BY <1>1 DEF BInv, IInv, TypeOK, Forget, lockFiles, Goto, TakersSpareCounted, Takers
  <1>5. BorrowedHasRun'
    BY <1>1 DEF BInv, IInv, TypeOK, Forget, lockFiles, Goto, BorrowedHasRun, HoldersDiffer,
       Holders, Borrowers
  <1>6. UncountedIsForgotten'
    BY <1>1 DEF BInv, IInv, TypeOK, Forget, lockFiles, Goto, UncountedIsForgotten, IsRecord
  <1>7. LenderRuns'
    BY <1>1 DEF BInv, IInv, TypeOK, Forget, lockFiles, Goto, LenderRuns, Record, IsRecord
  <1> QED BY <1>2, <1>3, <1>4, <1>5, <1>6, <1>7 DEF BInv

LEMMA ReenterBInv == ASSUME BInv, IInv, NEW c \in Caller, Reenter(c) PROVE BInv'
  <1> USE CheckoutAssumption
  <1>1. /\ pc[c] # "counted" /\ pc'[c] # "counted" /\ pc'[c] # "uncounted"
        /\ \A d \in Caller \ {c} : pc'[d] = pc[d] /\ lease'[d] = lease[d]
        /\ record' # None => /\ record # None /\ record'.token = record.token
                             /\ record'.borrowers = record.borrowers
    BY DEF BInv, IInv, TypeOK, Reenter, lockFiles, Goto, PC, Record
  <1>2. CountCoversBorrowers'
    BY <1>1, CountKept
  <1>3. CountedLocked'
    BY <1>1 DEF BInv, IInv, TypeOK, Reenter, lockFiles, Goto, CountedLocked, TakersSpareCounted,
       BorrowedHasRun, Takers, Borrowers
  <1>4. TakersSpareCounted'
    BY <1>1 DEF BInv, IInv, TypeOK, Reenter, lockFiles, Goto, TakersSpareCounted, Takers
  <1>5. BorrowedHasRun'
    BY <1>1 DEF BInv, IInv, TypeOK, Reenter, lockFiles, Goto, BorrowedHasRun, HoldersDiffer,
       Holders, Borrowers
  <1>6. UncountedIsForgotten'
    BY <1>1 DEF BInv, IInv, TypeOK, Reenter, lockFiles, Goto, UncountedIsForgotten, IsRecord
  <1>7. LenderRuns'
    BY <1>1 DEF BInv, IInv, TypeOK, Reenter, lockFiles, Goto, LenderRuns, Record, IsRecord
  <1> QED BY <1>2, <1>3, <1>4, <1>5, <1>6, <1>7 DEF BInv

LEMMA TakerBInv ==
    ASSUME BInv, NEW c \in Caller, pc[c] \in Takers,
           pc'[c] \in Takers \union {"forget", "idle"},
           pc'[c] \in Takers => lease'[c] = lease[c],
           \A d \in Caller \ {c} : pc'[d] = pc[d] /\ lease'[d] = lease[d],
           record' = record,
           \A t \in Token \ {lease[c]} : StaysLocked(t)
    PROVE  BInv'
  <1>1. CountCoversBorrowers'
    <2>1. pc[c] # "counted" /\ pc'[c] # "counted"
      BY DEF Takers
    <2> QED BY <2>1, CountKept
  <1>2. CountedLocked'
    BY DEF BInv, CountedLocked, TakersSpareCounted, Takers, StaysLocked
  <1>3. TakersSpareCounted'
    BY DEF BInv, TakersSpareCounted, Takers
  <1>4. BorrowedHasRun'
    BY DEF BInv, BorrowedHasRun, Takers, Borrowers
  <1>5. UncountedIsForgotten'
    BY DEF BInv, UncountedIsForgotten, IsRecord, Takers
  <1>6. LenderRuns'
    BY DEF BInv, LenderRuns, IsRecord, Takers
  <1> QED BY <1>1, <1>2, <1>3, <1>4, <1>5, <1>6 DEF BInv

LEMMA EnvironmentBInv ==
    BInv /\ IInv /\ (ForeignStep \/ LateRename \/ LateLinkBack) => BInv'
  BY EnvironmentStep
  DEF BInv, StaysLocked, CountedLocked, TakersSpareCounted, BorrowedHasRun,
      CountCoversBorrowers, CountedBy, UncountedIsForgotten, LenderRuns, IsRecord

LEMMA AcquireReadbackBInv == ASSUME BInv, IInv, NEW c \in Caller, AcquireReadback(c) PROVE BInv'
  <1>1. /\ pc[c] = "readback" /\ pc'[c] \in {"publish", "release"}
        /\ \A d \in Caller \ {c} : pc'[d] = pc[d]
        /\ UNCHANGED <<lockFiles, lease, record>>
    BY DEF IInv, TypeOK, AcquireReadback, Undo, Goto, PC
  <1>2. CountCoversBorrowers'
    BY <1>1, CountKept
  <1>3. CountedLocked'
    BY <1>1 DEF BInv, CountedLocked, lockFiles
  <1>4. TakersSpareCounted'
    BY <1>1 DEF BInv, TakersSpareCounted, BorrowedHasRun, Borrowers, Takers
  <1>5. BorrowedHasRun'
    BY <1>1 DEF BInv, BorrowedHasRun, Borrowers
  <1>6. UncountedIsForgotten'
    BY <1>1 DEF BInv, UncountedIsForgotten, IsRecord
  <1>7. LenderRuns'
    BY <1>1 DEF BInv, LenderRuns, IsRecord
  <1> QED BY <1>2, <1>3, <1>4, <1>5, <1>6, <1>7 DEF BInv

\* A new entry has no borrower yet.
LEMMA PublishBInv == ASSUME BInv, IInv, NEW c \in Caller, Publish(c) PROVE BInv'
  <1> USE CheckoutAssumption
  <1>1. /\ pc[c] = "publish" /\ pc'[c] \in {"guarded", "release"} /\ lease[c] \in Token
        /\ \A d \in Caller \ {c} : pc'[d] = pc[d]
        /\ UNCHANGED <<lockFiles, lease>>
    BY DEF BInv, IInv, TypeOK, Publish, Undo, Goto, PC, HoldersLocked
  <1>2. CountCoversBorrowers'
    <2>1. CASE record # None
      BY <1>1, <2>1, CountKept DEF Publish
    <2>2. CASE record = None
      <3>1. record' = [token |-> lease[c], settlement |-> "active", borrowers |-> 0]
        BY <2>2 DEF Publish
      <3>2. record'.token = lease[c] /\ record'.borrowers = 0
        BY <3>1
      <3>3. CountedBy(record.token)' = {}
        BY <1>1, <3>2 DEF CountedBy, BInv, BorrowedHasRun, Borrowers
      <3> QED BY <3>2, <3>3, FS_EmptySet DEF CountCoversBorrowers
    <2> QED BY <2>1, <2>2
  <1>3. CountedLocked'
    BY <1>1 DEF BInv, CountedLocked, lockFiles
  <1>4. TakersSpareCounted'
    BY <1>1 DEF BInv, TakersSpareCounted, BorrowedHasRun, Borrowers, Takers
  <1>5. BorrowedHasRun'
    BY <1>1 DEF BInv, BorrowedHasRun, Borrowers
  <1>6. UncountedIsForgotten'
    BY <1>1 DEF BInv, Publish, UncountedIsForgotten, IsRecord, BorrowedHasRun, Borrowers
  <1>7. LenderRuns'
    <2>1. CASE record # None
      BY <1>1, <2>1 DEF BInv, Publish, LenderRuns, IsRecord
    <2>2. CASE record = None
      BY <1>1, <2>2 DEF BInv, Publish, LenderRuns, IsRecord, BorrowedHasRun, Borrowers
    <2> QED BY <2>1, <2>2
  <1> QED BY <1>2, <1>3, <1>4, <1>5, <1>6, <1>7 DEF BInv

\* A borrower that is counted finds its lender running, hence the lane locked; what it
\* read of the lock before its await is not what makes this true.
LEMMA BorrowBInv == ASSUME BInv, IInv, NEW c \in Caller, Borrow(c) PROVE BInv'
  <1> USE CheckoutAssumption
  <1>1. /\ pc[c] = "reenter" /\ UNCHANGED lockFiles
        /\ \A d \in Caller \ {c} : pc'[d] = pc[d] /\ lease'[d] = lease[d]
    BY DEF Borrow, lockFiles, Goto, Return, IInv, TypeOK
  <1>2. CASE pc'[c] = "counted"
    <2>1. /\ IsRecord(lease[c]) /\ record.settlement = "active"
          /\ record' = [record EXCEPT !.borrowers = @ + 1] /\ lease' = lease
      BY <1>2 DEF Borrow, lockFiles, Goto, Return, IInv, TypeOK
    <2>2. record \in Record /\ record.borrowers \in Nat /\ record.token = lease[c]
      BY <2>1 DEF IInv, TypeOK, IsRecord, Record
    <2>3. /\ record' # None /\ record'.token = lease[c]
          /\ record'.settlement = "active" /\ record'.borrowers = record.borrowers + 1
      <3>1. record' \in Record /\ record'.token = lease[c]
            /\ record'.settlement = "active" /\ record'.borrowers = record.borrowers + 1
        BY <2>1, <2>2 DEF Record
      <3> QED BY <3>1 DEF Record
    <2>4. PICK o \in Caller : pc[o] = "running" /\ lease[o] = lease[c]
      BY <1>1, <2>1 DEF BInv, LenderRuns
    <2>5. lease[c] \in Token /\ (lock = lease[c] \/ lease[c] \in displaced)
      BY <2>4 DEF IInv, HoldersLocked, Holders
    <2>6. CountCoversBorrowers'
      <3> DEFINE S == CountedBy(lease[c])
      <3>1. IsFiniteSet(S) /\ Cardinality(S) <= record.borrowers /\ c \notin S
        BY <1>1, <2>1, <2>2 DEF BInv, CountCoversBorrowers, CountedBy, IsRecord
      <3>2. CountedBy(record.token)' = S \union {c}
        BY <1>1, <1>2, <2>1, <2>3 DEF CountedBy
      <3>3. IsFiniteSet(S \union {c}) /\ Cardinality(S \union {c}) = Cardinality(S) + 1
        BY <3>1, FS_AddElement
      <3>4. Cardinality(S) \in Nat
        BY <3>1, FS_CardinalityType
      <3>5. Cardinality(S) + 1 <= record.borrowers + 1
        BY <2>2, <3>1, <3>4
      <3> HIDE DEF S
      <3> QED BY <2>3, <3>2, <3>3, <3>5 DEF CountCoversBorrowers
    <2>7. CountedLocked'
      BY <1>1, <2>1, <2>5 DEF BInv, CountedLocked, lockFiles
    <2>8. TakersSpareCounted'
      BY <1>1, <1>2, <2>1, <2>4 DEF BInv, IInv, TakersSpareCounted, TakersSpareHolders,
         Takers, Holders
    <2>9. BorrowedHasRun'
      BY <1>1, <1>2, <2>1 DEF BInv, BorrowedHasRun, Borrowers
    <2>10. UncountedIsForgotten'
      BY <1>1, <1>2, <2>1, <2>2, <2>3 DEF BInv, UncountedIsForgotten, IsRecord
    <2>11. LenderRuns'
      BY <1>1, <1>2, <2>1, <2>2, <2>3, <2>4 DEF BInv, LenderRuns, IsRecord
    <2> QED BY <2>6, <2>7, <2>8, <2>9, <2>10, <2>11 DEF BInv
  <1>3. CASE pc'[c] # "counted"
    <2>1. /\ record' = record /\ pc'[c] \in {"uncounted", "idle"}
          /\ pc'[c] = "uncounted" => record = None /\ lease' = lease
      BY <1>3 DEF Borrow, lockFiles, Goto, Return, IInv, TypeOK
    <2>2. CountCoversBorrowers'
      BY <1>1, <1>3, <2>1, CountKept
    <2>3. CountedLocked' /\ TakersSpareCounted'
      BY <1>1, <1>3, <2>1 DEF BInv, CountedLocked, lockFiles, TakersSpareCounted, Takers
    <2>4. BorrowedHasRun'
      BY <1>1, <1>3, <2>1 DEF BInv, BorrowedHasRun, Borrowers
    <2>5. UncountedIsForgotten'
      BY <1>1, <1>3, <2>1 DEF BInv, UncountedIsForgotten, IsRecord
    <2>6. LenderRuns'
      BY <1>1, <1>3, <2>1 DEF BInv, LenderRuns, IsRecord
    <2> QED BY <2>2, <2>3, <2>4, <2>5, <2>6 DEF BInv
  <1> QED BY <1>2, <1>3

\* A borrower that returns takes itself out of the count, and nobody else.
LEMMA BorrowReturnBInv == ASSUME BInv, IInv, NEW c \in Caller, BorrowReturn(c) PROVE BInv'
  <1> USE CheckoutAssumption
  <1>1. /\ pc[c] \in {"counted", "uncounted"} /\ pc'[c] = "idle" /\ UNCHANGED lockFiles
        /\ \A d \in Caller \ {c} : pc'[d] = pc[d] /\ lease'[d] = lease[d]
    BY DEF BorrowReturn, lockFiles, Goto, Return, IInv, TypeOK
  <1>2. /\ record' # None <=> record # None
        /\ record' # None => /\ record'.token = record.token
                             /\ record'.settlement = record.settlement
    <2>1. CASE IsRecord(lease[c]) /\ record.borrowers > 0
      <3>1. record \in Record /\ record' = [record EXCEPT !.borrowers = @ - 1]
            /\ record.borrowers - 1 \in Nat
        BY <2>1 DEF BorrowReturn, IInv, TypeOK, IsRecord, Record
      <3>2. record' \in Record /\ record'.token = record.token
            /\ record'.settlement = record.settlement
        BY <3>1 DEF Record
      <3> QED BY <3>1, <3>2 DEF Record
    <2>2. CASE ~(IsRecord(lease[c]) /\ record.borrowers > 0)
      BY <2>2 DEF BorrowReturn
    <2> QED BY <2>1, <2>2
  <1>3. CountCoversBorrowers'
    <2>1. CASE pc[c] = "uncounted" \/ ~IsRecord(lease[c])
      <3>1. record' = record
        BY <2>1 DEF BInv, UncountedIsForgotten, BorrowReturn
      <3>2. record # None => CountedBy(record.token)' = CountedBy(record.token)
        BY <1>1, <2>1, <3>1 DEF CountedBy, IsRecord
      <3> QED BY <3>1, <3>2 DEF BInv, CountCoversBorrowers
    <2>2. CASE pc[c] = "counted" /\ IsRecord(lease[c])
      <3> DEFINE S == CountedBy(lease[c])
      <3>1. /\ record \in Record /\ record # None
            /\ record.token = lease[c] /\ record.borrowers \in Nat
            /\ IsFiniteSet(S) /\ Cardinality(S) <= record.borrowers /\ c \in S
        BY <2>2 DEF BInv, CountCoversBorrowers, CountedBy, IsRecord, IInv, TypeOK, Record
      <3>2. Cardinality(S) \in Nat /\ Cardinality(S) # 0
        BY <3>1, FS_CardinalityType, FS_EmptySet
      <3>3. record.borrowers > 0
        BY <3>1, <3>2
      <3>4. record' = [record EXCEPT !.borrowers = @ - 1]
        BY <2>2, <3>3 DEF BorrowReturn
      <3>5. record'.token = lease[c] /\ record'.borrowers = record.borrowers - 1
        BY <3>1, <3>4 DEF Record
      <3>6. CountedBy(record.token)' = S \ {c}
        BY <1>1, <3>1, <3>5 DEF CountedBy
      <3>7. IsFiniteSet(S \ {c}) /\ Cardinality(S \ {c}) = Cardinality(S) - 1
        BY <3>1, FS_RemoveElement
      <3>8. Cardinality(S) - 1 <= record.borrowers - 1
        BY <3>1, <3>2
      <3> HIDE DEF S
      <3> QED BY <3>5, <3>6, <3>7, <3>8 DEF CountCoversBorrowers
    <2> QED BY <1>1, <2>1, <2>2
  <1>4. CountedLocked' /\ TakersSpareCounted'
    BY <1>1 DEF BInv, CountedLocked, lockFiles, TakersSpareCounted, Takers
  <1>5. BorrowedHasRun'
    BY <1>1 DEF BInv, BorrowedHasRun, Borrowers
  <1>6. UncountedIsForgotten'
    BY <1>1, <1>2 DEF BInv, UncountedIsForgotten, IsRecord
  <1>7. LenderRuns'
    <2> SUFFICES ASSUME NEW b \in Caller, pc'[b] = "reenter", IsRecord(lease[b])',
                        record'.settlement = "active"
                 PROVE  \E o \in Caller : pc'[o] = "running" /\ lease'[o] = lease'[b]
      BY DEF LenderRuns
    <2>1. b # c /\ pc[b] = "reenter" /\ lease'[b] = lease[b]
      BY <1>1
    <2>2. IsRecord(lease[b]) /\ record.settlement = "active"
      BY <1>2, <2>1 DEF IsRecord
    <2>3. PICK o \in Caller : pc[o] = "running" /\ lease[o] = lease[b]
      BY <2>1, <2>2 DEF BInv, LenderRuns
    <2>4. o # c
      BY <1>1, <2>3
    <2> QED BY <1>1, <2>1, <2>3, <2>4
  <1> QED BY <1>3, <1>4, <1>5, <1>6, <1>7 DEF BInv

LEMMA InitBInv == Init => BInv
  BY DEF Init, BInv, CountedLocked, TakersSpareCounted, BorrowedHasRun, CountCoversBorrowers,
     UncountedIsForgotten, LenderRuns, Takers, Borrowers, IsRecord

LEMMA StutterBInv == BInv /\ UNCHANGED vars => BInv'
  BY DEF BInv, vars, lockFiles, CountedLocked, TakersSpareCounted, BorrowedHasRun,
      CountCoversBorrowers, CountedBy, UncountedIsForgotten, LenderRuns, IsRecord

\* BInv is inductive relative to IInv.
LEMMA NextBInv == BInv /\ IInv /\ [Next]_vars => BInv'
  <1>1. ASSUME BInv, IInv, NEW c \in Caller,
               \/ ReleaseLook(c) \/ ReleaseDest(c) \/ ReleaseMove(c) \/ ReleaseCheck(c)
               \/ ReleaseRestore(c) \/ ReleaseClean(c)
        PROVE  BInv'
    BY <1>1, ReleaseStep, TakerBInv
  <1> QED
    BY <1>1, StutterBInv, EnvironmentBInv, AcquireStartBInv, RecoverCheckBInv,
       RecoverInspectBInv, RecoverDecideBInv, AcquireLockBInv, AcquireReadbackBInv, PublishBInv,
       RunBInv, AbandonBInv, FinishBInv, FinishDelegationBInv, ReconcileTakeBInv,
       ReconcileReleaseBInv, ForgetBInv, ReenterBInv, BorrowBInv, BorrowReturnBInv
    DEF Next

\* The count of an entry covers its borrowers, and nobody releases the token of a borrower
\* that is counted.
THEOREM BorrowersAreCounted == Spec => []BInv
  BY InitBInv, NextBInv, IInvHolds, PTL DEF Spec

\* Whatever its owner, a recovery or a reconciler of its own token does, the lane of a
\* counted borrower stays locked until the borrower returns, unless a call made for another
\* token has renamed the lock from the path.
THEOREM BorrowerKeepsLane == Spec => []CountedBorrowerHoldsLane
  <1>1. BInv => CountedBorrowerHoldsLane
    BY DEF BInv, CountedLocked, CountedBorrowerHoldsLane
  <1> QED BY <1>1, BorrowersAreCounted, PTL

-----------------------------------------------------------------------------
(* The lock file *)

\* IInv holds initially.
LEMMA LockInitIInv == ASSUME LockInit PROVE LockIInv
  BY StartLockAssumption DEF LockInit, LockIInv, LockTypeOK, RecordsArePast,
     Past, LeaseIsOwn, Leased, TokensAreUnique,
      RecoveryState, DeadVerdictIsFinal, ReleaseState,
      PublishedIsOnDisk, File, Owner, LockPC

LEMMA LockAcquireStartIInv ==
  ASSUME LockIInv, NEW p \in Proc, BeginAcquire(p)
  PROVE  LockIInv'
  <1> USE StartLockAssumption DEF LockIInv
  <1>1. LockTypeOK'
    BY DEF BeginAcquire, MoveTo, files, identity, LockTypeOK, File,
       Owner, LockPC
  <1>2. RecordsArePast'
    BY DEF BeginAcquire, MoveTo, files, identity, LockTypeOK,
       RecordsArePast, Past, File, Owner
  <1>3. LeaseIsOwn'
    BY DEF BeginAcquire, MoveTo, files, identity, LockTypeOK,
       LeaseIsOwn, Leased, File, Owner
  <1>4. TokensAreUnique'
    BY DEF BeginAcquire, MoveTo, files, identity, LockTypeOK,
       TokensAreUnique, File, Owner
  <1>5. RecoveryState'
    BY DEF BeginAcquire, MoveTo, files, identity, LockTypeOK,
       RecoveryState, File, Owner
  <1>6. DeadVerdictIsFinal'
    BY DEF BeginAcquire, MoveTo, files, identity, LockTypeOK,
       DeadVerdictIsFinal, IsLive, RecordsArePast, Past,
       RecoveryState, File, Owner
  <1>7. ReleaseState'
    BY DEF BeginAcquire, MoveTo, files, identity, LockTypeOK,
       ReleaseState, LeaseIsOwn, Leased, TokensAreUnique, File,
       Owner
  <1>8. PublishedIsOnDisk'
    BY DEF BeginAcquire, MoveTo, files, identity, LockTypeOK,
       PublishedIsOnDisk, OnDisk, LeaseIsOwn, Leased,
       RecoveryState, ReleaseState, DeadVerdictIsFinal, IsLive,
       File, Owner
  <1> QED BY <1>1, <1>2, <1>3, <1>4, <1>5, <1>6, <1>7, <1>8

LEMMA LockTryLinkIInv ==
  ASSUME LockIInv, NEW p \in Proc, TryLink(p)
  PROVE  LockIInv'
  <1> USE StartLockAssumption DEF LockIInv
  <1>1. LockTypeOK'
    BY DEF TryLink, MoveTo, FreshToken, InUse, TokensOf, identity,
       LockTypeOK, File, Owner, LockPC
  <1>2. RecordsArePast'
    BY DEF TryLink, MoveTo, FreshToken, InUse, TokensOf, identity,
       LockTypeOK, RecordsArePast, Past, File, Owner
  <1>3. LeaseIsOwn'
    BY DEF TryLink, MoveTo, FreshToken, InUse, TokensOf, identity,
       LockTypeOK, LeaseIsOwn, Leased, File, Owner
  <1>4. TokensAreUnique'
    BY DEF TryLink, MoveTo, FreshToken, InUse, TokensOf, identity,
       LockTypeOK, TokensAreUnique, File, Owner
  <1>5. RecoveryState'
    BY DEF TryLink, MoveTo, FreshToken, InUse, TokensOf, identity,
       LockTypeOK, RecoveryState, File, Owner
  <1>6. DeadVerdictIsFinal'
    BY DEF TryLink, MoveTo, FreshToken, InUse, TokensOf, identity,
       LockTypeOK, DeadVerdictIsFinal, IsLive, RecordsArePast, Past,
       RecoveryState, File, Owner
  <1>7. ReleaseState'
    BY DEF TryLink, MoveTo, FreshToken, InUse, TokensOf, identity,
       LockTypeOK, ReleaseState, LeaseIsOwn, Leased, TokensAreUnique,
       File, Owner
  <1>8. PublishedIsOnDisk'
    BY DEF TryLink, MoveTo, FreshToken, InUse, TokensOf, identity,
       LockTypeOK, PublishedIsOnDisk, OnDisk, LeaseIsOwn, Leased,
       RecoveryState, ReleaseState, DeadVerdictIsFinal, IsLive,
       File, Owner
  <1> QED BY <1>1, <1>2, <1>3, <1>4, <1>5, <1>6, <1>7, <1>8

LEMMA LockCandidateFaultIInv ==
  ASSUME LockIInv, NEW p \in Proc, CandidateFault(p)
  PROVE  LockIInv'
  <1> USE StartLockAssumption DEF LockIInv
  <1>1. LockTypeOK'
    BY DEF CandidateFault, MoveTo, LeaveCall, files, identity,
       LockTypeOK, File, Owner, LockPC
  <1>2. RecordsArePast'
    BY DEF CandidateFault, MoveTo, LeaveCall, files, identity,
       LockTypeOK, RecordsArePast, Past, File, Owner
  <1>3. LeaseIsOwn'
    BY DEF CandidateFault, MoveTo, LeaveCall, files, identity,
       LockTypeOK, LeaseIsOwn, Leased, File, Owner
  <1>4. TokensAreUnique'
    BY DEF CandidateFault, MoveTo, LeaveCall, files, identity,
       LockTypeOK, TokensAreUnique, File, Owner
  <1>5. RecoveryState'
    BY DEF CandidateFault, MoveTo, LeaveCall, files, identity,
       LockTypeOK, RecoveryState, File, Owner
  <1>6. DeadVerdictIsFinal'
    BY DEF CandidateFault, MoveTo, LeaveCall, files, identity,
       LockTypeOK, DeadVerdictIsFinal, IsLive, RecordsArePast, Past,
       RecoveryState, File, Owner
  <1>7. ReleaseState'
    BY DEF CandidateFault, MoveTo, LeaveCall, files, identity,
       LockTypeOK, ReleaseState, LeaseIsOwn, Leased, TokensAreUnique,
       File, Owner
  <1>8. PublishedIsOnDisk'
    BY DEF CandidateFault, MoveTo, LeaveCall, files, identity,
       LockTypeOK, PublishedIsOnDisk, OnDisk, LeaseIsOwn, Leased,
       RecoveryState, ReleaseState, DeadVerdictIsFinal, IsLive,
       File, Owner
  <1> QED BY <1>1, <1>2, <1>3, <1>4, <1>5, <1>6, <1>7, <1>8

LEMMA LockReadbackIInv ==
  ASSUME LockIInv, NEW p \in Proc, Readback(p)
  PROVE  LockIInv'
  <1> USE StartLockAssumption DEF LockIInv
  <1>1. LockTypeOK'
    BY DEF Readback, MoveTo, files, identity, LockTypeOK, File,
       Owner, LockPC
  <1>2. RecordsArePast'
    BY DEF Readback, MoveTo, files, identity, LockTypeOK,
       RecordsArePast, Past, File, Owner
  <1>3. LeaseIsOwn'
    BY DEF Readback, MoveTo, files, identity, LockTypeOK,
       LeaseIsOwn, Leased, File, Owner
  <1>4. TokensAreUnique'
    BY DEF Readback, MoveTo, files, identity, LockTypeOK,
       TokensAreUnique, File, Owner
  <1>5. RecoveryState'
    BY DEF Readback, MoveTo, files, identity, LockTypeOK,
       RecoveryState, File, Owner
  <1>6. DeadVerdictIsFinal'
    BY DEF Readback, MoveTo, files, identity, LockTypeOK,
       DeadVerdictIsFinal, IsLive, RecordsArePast, Past,
       RecoveryState, File, Owner
  <1>7. ReleaseState'
    BY DEF Readback, MoveTo, files, identity, LockTypeOK,
       ReleaseState, LeaseIsOwn, Leased, TokensAreUnique, File,
       Owner
  <1>8. PublishedIsOnDisk'
    BY DEF Readback, MoveTo, files, identity, LockTypeOK,
       PublishedIsOnDisk, OnDisk, LeaseIsOwn, Leased,
       RecoveryState, ReleaseState, DeadVerdictIsFinal, IsLive,
       File, Owner
  <1> QED BY <1>1, <1>2, <1>3, <1>4, <1>5, <1>6, <1>7, <1>8

LEMMA LockInspectIInv ==
  ASSUME LockIInv, NEW p \in Proc, Inspect(p)
  PROVE  LockIInv'
  <1> USE StartLockAssumption DEF LockIInv
  <1>1. LockTypeOK'
    BY SMTT(30) DEF Inspect, MoveTo, LeaveCall, Again, files, identity,
       LockTypeOK, File, Owner, LockPC
  <1>2. RecordsArePast'
    BY DEF Inspect, MoveTo, LeaveCall, Again, files, identity,
       LockTypeOK, RecordsArePast, Past, File, Owner
  <1>3. LeaseIsOwn'
    BY DEF Inspect, MoveTo, LeaveCall, Again, files, identity,
       LockTypeOK, LeaseIsOwn, Leased, File, Owner
  <1>4. TokensAreUnique'
    BY DEF Inspect, MoveTo, LeaveCall, Again, files, identity,
       LockTypeOK, TokensAreUnique, File, Owner
  <1>5. RecoveryState'
    BY DEF Inspect, MoveTo, LeaveCall, Again, files, identity,
       LockTypeOK, RecoveryState, File, Owner
  <1>6. DeadVerdictIsFinal'
    BY DEF Inspect, MoveTo, LeaveCall, Again, files, identity,
       LockTypeOK, DeadVerdictIsFinal, IsLive, RecordsArePast, Past,
       RecoveryState, File, Owner
  <1>7. ReleaseState'
    BY DEF Inspect, MoveTo, LeaveCall, Again, files, identity,
       LockTypeOK, ReleaseState, LeaseIsOwn, Leased, TokensAreUnique,
       File, Owner
  <1>8. PublishedIsOnDisk'
    BY DEF Inspect, MoveTo, LeaveCall, Again, files, identity,
       LockTypeOK, PublishedIsOnDisk, OnDisk, LeaseIsOwn, Leased,
       RecoveryState, ReleaseState, DeadVerdictIsFinal, IsLive,
       File, Owner
  <1> QED BY <1>1, <1>2, <1>3, <1>4, <1>5, <1>6, <1>7, <1>8

LEMMA LockJudgeIInv ==
  ASSUME LockIInv, NEW p \in Proc, Judge(p)
  PROVE  LockIInv'
  <1> USE StartLockAssumption DEF LockIInv
  <1>1. LockTypeOK'
    BY DEF Judge, MoveTo, LeaveCall, files, identity, LockTypeOK,
       File, Owner, LockPC
  <1>2. RecordsArePast'
    BY DEF Judge, MoveTo, LeaveCall, files, identity, LockTypeOK,
       RecordsArePast, Past, File, Owner
  <1>3. LeaseIsOwn'
    BY DEF Judge, MoveTo, LeaveCall, files, identity, LockTypeOK,
       LeaseIsOwn, Leased, File, Owner
  <1>4. TokensAreUnique'
    BY DEF Judge, MoveTo, LeaveCall, files, identity, LockTypeOK,
       TokensAreUnique, File, Owner
  <1>5. RecoveryState'
    BY DEF Judge, MoveTo, LeaveCall, files, identity, LockTypeOK,
       RecoveryState, File, Owner
  <1>6. DeadVerdictIsFinal'
    BY DEF Judge, MoveTo, LeaveCall, files, identity, LockTypeOK,
       DeadVerdictIsFinal, IsLive, RecordsArePast, Past,
       RecoveryState, File, Owner
  <1>7. ReleaseState'
    BY DEF Judge, MoveTo, LeaveCall, files, identity, LockTypeOK,
       ReleaseState, LeaseIsOwn, Leased, TokensAreUnique, File,
       Owner
  <1>8. PublishedIsOnDisk'
    BY DEF Judge, MoveTo, LeaveCall, files, identity, LockTypeOK,
       PublishedIsOnDisk, OnDisk, LeaseIsOwn, Leased,
       RecoveryState, ReleaseState, DeadVerdictIsFinal, IsLive,
       File, Owner
  <1> QED BY <1>1, <1>2, <1>3, <1>4, <1>5, <1>6, <1>7, <1>8

\* A fresh token names no file.
LEMMA FreshNamesNoFile ==
  ASSUME NEW t \in FreshToken PROVE t \in OwnerToken /\ recovered[t] = Absent /\ released[t] = Absent
  BY DEF FreshToken, InUse

LEMMA LockRecoverRenameIInv ==
  ASSUME LockIInv, NEW p \in Proc, RecoverRename(p)
  PROVE  LockIInv'
  <1> USE StartLockAssumption
  <1>1. ASSUME UNCHANGED files, Again(p) \/ LeaveCall(p) PROVE LockIInv'
    <2> UNCHANGED identity /\ at[p] = "rename" BY DEF RecoverRename
    <2>1. LockTypeOK'
      BY <1>1 DEF LockIInv, MoveTo, LeaveCall, Again, files, identity,
         LockTypeOK, File, Owner, LockPC
    <2>2. RecordsArePast'
      BY <1>1 DEF LockIInv, MoveTo, LeaveCall, Again, files, identity,
         LockTypeOK, RecordsArePast, Past, File, Owner
    <2>3. LeaseIsOwn'
      BY <1>1 DEF LockIInv, MoveTo, LeaveCall, Again, files, identity,
         LockTypeOK, LeaseIsOwn, Leased, File, Owner
    <2>4. TokensAreUnique'
      BY <1>1 DEF LockIInv, MoveTo, LeaveCall, Again, files, identity,
         LockTypeOK, TokensAreUnique, File, Owner
    <2>5. RecoveryState'
      BY <1>1 DEF LockIInv, MoveTo, LeaveCall, Again, files, identity,
         LockTypeOK, RecoveryState, File, Owner
    <2>6. DeadVerdictIsFinal'
      BY <1>1 DEF LockIInv, MoveTo, LeaveCall, Again, files, identity,
         LockTypeOK, DeadVerdictIsFinal, IsLive, RecordsArePast, Past,
         RecoveryState, File, Owner
    <2>7. ReleaseState'
      BY <1>1 DEF LockIInv, MoveTo, LeaveCall, Again, files, identity,
         LockTypeOK, ReleaseState, LeaseIsOwn, Leased,
         TokensAreUnique, File, Owner
    <2>8. PublishedIsOnDisk'
      BY <1>1 DEF LockIInv, MoveTo, LeaveCall, Again, files, identity,
         LockTypeOK, PublishedIsOnDisk, OnDisk, LeaseIsOwn, Leased,
         RecoveryState, ReleaseState, DeadVerdictIsFinal, IsLive,
         File, Owner
    <2> QED BY <2>1, <2>2, <2>3, <2>4, <2>5, <2>6, <2>7, <2>8 DEF LockIInv
  <1>2. ASSUME NEW t \in OwnerToken, recovered[t] = Absent, path # Absent, path' = Absent,
               recovered' = [recovered EXCEPT ![t] = path], UNCHANGED released,
               \/ /\ MoveTo(p, "verify")
                  /\ aside' = [aside EXCEPT ![p] = t]
                  /\ UNCHANGED <<attempt, mine, observed>>
               \/ LeaveCall(p)
        PROVE LockIInv'
    <2> UNCHANGED identity /\ at[p] = "rename" BY DEF RecoverRename
    <2>1. LockTypeOK'
      BY <1>2 DEF LockIInv, MoveTo, LeaveCall, identity, LockTypeOK, File,
         Owner, LockPC
    <2>2. RecordsArePast'
      BY <1>2 DEF LockIInv, MoveTo, LeaveCall, identity, LockTypeOK,
         RecordsArePast, Past, File, Owner
    <2>3. LeaseIsOwn'
      BY <1>2 DEF LockIInv, MoveTo, LeaveCall, identity, LockTypeOK,
         LeaseIsOwn, Leased, File, Owner
    <2>4. TokensAreUnique'
      BY <1>2 DEF LockIInv, MoveTo, LeaveCall, identity, LockTypeOK,
         TokensAreUnique, File, Owner
    <2>5. RecoveryState'
      BY <1>2 DEF LockIInv, MoveTo, LeaveCall, identity, LockTypeOK,
         RecoveryState, File, Owner
    <2>6. DeadVerdictIsFinal'
      BY <1>2 DEF LockIInv, MoveTo, LeaveCall, identity, LockTypeOK,
         DeadVerdictIsFinal, IsLive, RecordsArePast, Past,
         RecoveryState, File, Owner
    <2>7. ReleaseState'
      BY <1>2 DEF LockIInv, MoveTo, LeaveCall, identity, LockTypeOK,
         ReleaseState, LeaseIsOwn, Leased, TokensAreUnique, File,
         Owner
    <2>8. PublishedIsOnDisk'
      BY <1>2 DEF LockIInv, MoveTo, LeaveCall, identity, LockTypeOK,
         PublishedIsOnDisk, OnDisk, LeaseIsOwn, Leased,
         RecoveryState, ReleaseState, DeadVerdictIsFinal, IsLive,
         File, Owner
    <2> QED BY <2>1, <2>2, <2>3, <2>4, <2>5, <2>6, <2>7, <2>8 DEF LockIInv
  <1> QED BY <1>1, <1>2, FreshNamesNoFile DEF RecoverRename

LEMMA LockRecoverVerifyIInv ==
  ASSUME LockIInv, NEW p \in Proc, RecoverVerify(p)
  PROVE  LockIInv'
  <1> USE StartLockAssumption DEF LockIInv
  <1>0. /\ path' \in {path, recovered[aside[p]]}
        /\ recovered[aside[p]] \in File
        /\ path # Absent => path' = path
    BY DEF RecoverVerify, LinkBack, LockTypeOK, RecoveryState, File,
       Owner
  <1>1. LockTypeOK'
    BY <1>0, SMTT(30) DEF RecoverVerify, MoveTo, LeaveCall, Again, LinkBack,
       identity, LockTypeOK, File, Owner, LockPC
  <1>2. RecordsArePast'
    <2>1. UNCHANGED inc BY DEF RecoverVerify, identity
    <2>2. Past(path)'
      BY <1>0, <2>1 DEF Past, RecordsArePast, LockTypeOK, File, Owner,
         RecoveryState, RecoverVerify
    <2>3. \A t \in OwnerToken : Past(recovered[t])' /\ Past(released[t])'
      BY <2>1 DEF Past, RecordsArePast, LockTypeOK, RecoverVerify
    <2>4. \A q \in Proc : Past(mine[q])' /\ Past(observed[q])'
      BY <2>1 DEF Past, RecordsArePast, LockTypeOK, RecoverVerify,
         MoveTo, Again, LeaveCall
    <2> QED BY <2>2, <2>3, <2>4 DEF RecordsArePast
  <1>3. LeaseIsOwn'
    BY <1>0 DEF RecoverVerify, MoveTo, LeaveCall, Again, identity,
       LockTypeOK, LeaseIsOwn, Leased, File, Owner
  <1>4. TokensAreUnique'
    BY <1>0 DEF RecoverVerify, MoveTo, LeaveCall, Again, identity,
       LockTypeOK, TokensAreUnique, File, Owner
  <1>5. RecoveryState'
    BY <1>0 DEF RecoverVerify, MoveTo, LeaveCall, Again, identity,
       LockTypeOK, RecoveryState, File, Owner
  <1>6. DeadVerdictIsFinal'
    BY <1>0 DEF RecoverVerify, MoveTo, LeaveCall, Again, identity,
       LockTypeOK, DeadVerdictIsFinal, IsLive, RecordsArePast, Past,
       RecoveryState, File, Owner
  <1>7. ReleaseState'
    BY <1>0 DEF RecoverVerify, MoveTo, LeaveCall, Again, identity,
       LockTypeOK, ReleaseState, LeaseIsOwn, Leased, TokensAreUnique,
       File, Owner
  <1>8. PublishedIsOnDisk'
    BY <1>0 DEF RecoverVerify, MoveTo, LeaveCall, Again, LinkBack,
       identity, LockTypeOK, PublishedIsOnDisk, OnDisk, LeaseIsOwn,
       Leased, RecoveryState, ReleaseState, DeadVerdictIsFinal,
       IsLive, File, Owner
  <1> QED BY <1>1, <1>2, <1>3, <1>4, <1>5, <1>6, <1>7, <1>8

LEMMA LockReleaseStartIInv ==
  ASSUME LockIInv, NEW p \in Proc, ReleaseStart(p)
  PROVE  LockIInv'
  <1> USE StartLockAssumption DEF LockIInv
  <1>1. LockTypeOK'
    BY DEF ReleaseStart, MoveTo, files, identity, LockTypeOK, File,
       Owner, LockPC
  <1>2. RecordsArePast'
    BY DEF ReleaseStart, MoveTo, files, identity, LockTypeOK,
       RecordsArePast, Past, File, Owner
  <1>3. LeaseIsOwn'
    BY DEF ReleaseStart, MoveTo, files, identity, LockTypeOK,
       LeaseIsOwn, Leased, File, Owner
  <1>4. TokensAreUnique'
    BY DEF ReleaseStart, MoveTo, files, identity, LockTypeOK,
       TokensAreUnique, File, Owner
  <1>5. RecoveryState'
    BY DEF ReleaseStart, MoveTo, files, identity, LockTypeOK,
       RecoveryState, File, Owner
  <1>6. DeadVerdictIsFinal'
    BY DEF ReleaseStart, MoveTo, files, identity, LockTypeOK,
       DeadVerdictIsFinal, IsLive, RecordsArePast, Past,
       RecoveryState, File, Owner
  <1>7. ReleaseState'
    BY DEF ReleaseStart, MoveTo, files, identity, LockTypeOK,
       ReleaseState, LeaseIsOwn, Leased, TokensAreUnique, File,
       Owner
  <1>8. PublishedIsOnDisk'
    BY DEF ReleaseStart, MoveTo, files, identity, LockTypeOK,
       PublishedIsOnDisk, OnDisk, LeaseIsOwn, Leased,
       RecoveryState, ReleaseState, DeadVerdictIsFinal, IsLive,
       File, Owner
  <1> QED BY <1>1, <1>2, <1>3, <1>4, <1>5, <1>6, <1>7, <1>8

LEMMA LockReleaseReadIInv ==
  ASSUME LockIInv, NEW p \in Proc, ReleaseRead(p)
  PROVE  LockIInv'
  <1> USE StartLockAssumption DEF LockIInv
  <1>1. LockTypeOK'
    BY DEF ReleaseRead, MoveTo, LeaveCall, Unreleased, files,
       identity, LockTypeOK, File, Owner, LockPC
  <1>2. RecordsArePast'
    BY DEF ReleaseRead, MoveTo, LeaveCall, Unreleased, files,
       identity, LockTypeOK, RecordsArePast, Past, File, Owner
  <1>3. LeaseIsOwn'
    BY DEF ReleaseRead, MoveTo, LeaveCall, Unreleased, files,
       identity, LockTypeOK, LeaseIsOwn, Leased, File, Owner
  <1>4. TokensAreUnique'
    BY DEF ReleaseRead, MoveTo, LeaveCall, Unreleased, files,
       identity, LockTypeOK, TokensAreUnique, File, Owner
  <1>5. RecoveryState'
    BY DEF ReleaseRead, MoveTo, LeaveCall, Unreleased, files,
       identity, LockTypeOK, RecoveryState, File, Owner
  <1>6. DeadVerdictIsFinal'
    BY DEF ReleaseRead, MoveTo, LeaveCall, Unreleased, files,
       identity, LockTypeOK, DeadVerdictIsFinal, IsLive,
       RecordsArePast, Past, RecoveryState, File, Owner
  <1>7. ReleaseState'
    BY DEF ReleaseRead, MoveTo, LeaveCall, Unreleased, files,
       identity, LockTypeOK, ReleaseState, LeaseIsOwn, Leased,
       TokensAreUnique, File, Owner
  <1>8. PublishedIsOnDisk'
    BY DEF ReleaseRead, MoveTo, LeaveCall, Unreleased, files,
       identity, LockTypeOK, PublishedIsOnDisk, OnDisk, LeaseIsOwn,
       Leased, RecoveryState, ReleaseState, DeadVerdictIsFinal,
       IsLive, File, Owner
  <1> QED BY <1>1, <1>2, <1>3, <1>4, <1>5, <1>6, <1>7, <1>8

LEMMA LockReleaseRenameIInv ==
  ASSUME LockIInv, NEW p \in Proc, ReleaseRename(p)
  PROVE  LockIInv'
  <1> USE StartLockAssumption DEF LockIInv
  <1>1. LockTypeOK'
    BY DEF ReleaseRename, MoveTo, LeaveCall, Unreleased, files,
       identity, LockTypeOK, File, Owner, LockPC
  <1>2. RecordsArePast'
    BY DEF ReleaseRename, MoveTo, LeaveCall, Unreleased, files,
       identity, LockTypeOK, RecordsArePast, Past, File, Owner
  <1>3. LeaseIsOwn'
    BY DEF ReleaseRename, MoveTo, LeaveCall, Unreleased, files,
       identity, LockTypeOK, LeaseIsOwn, Leased, File, Owner
  <1>4. TokensAreUnique'
    BY DEF ReleaseRename, MoveTo, LeaveCall, Unreleased, files,
       identity, LockTypeOK, TokensAreUnique, File, Owner
  <1>5. RecoveryState'
    BY DEF ReleaseRename, MoveTo, LeaveCall, Unreleased, files,
       identity, LockTypeOK, RecoveryState, File, Owner
  <1>6. DeadVerdictIsFinal'
    BY DEF ReleaseRename, MoveTo, LeaveCall, Unreleased, files,
       identity, LockTypeOK, DeadVerdictIsFinal, IsLive,
       RecordsArePast, Past, RecoveryState, File, Owner
  <1>7. ReleaseState'
    BY DEF ReleaseRename, MoveTo, LeaveCall, Unreleased, files,
       identity, LockTypeOK, ReleaseState, LeaseIsOwn, Leased,
       TokensAreUnique, File, Owner
  <1>8. PublishedIsOnDisk'
    BY DEF ReleaseRename, MoveTo, LeaveCall, Unreleased, files,
       identity, LockTypeOK, PublishedIsOnDisk, OnDisk, LeaseIsOwn,
       Leased, RecoveryState, ReleaseState, DeadVerdictIsFinal,
       IsLive, File, Owner
  <1> QED BY <1>1, <1>2, <1>3, <1>4, <1>5, <1>6, <1>7, <1>8

LEMMA LockReleaseVerifyIInv ==
  ASSUME LockIInv, NEW p \in Proc, ReleaseVerify(p)
  PROVE  LockIInv'
  <1> USE StartLockAssumption DEF LockIInv
  <1>0. /\ path' \in {path, released[mine[p].token]}
        /\ released[mine[p].token] \in File
        /\ path # Absent => path' = path
    BY DEF ReleaseVerify, LinkBack, LockTypeOK, LeaseIsOwn, Leased,
       File, Owner
  <1>1. LockTypeOK'
    BY <1>0, SMTT(30) DEF ReleaseVerify, MoveTo, LeaveCall, Unreleased, LinkBack,
       identity, LockTypeOK, File, Owner, LockPC
  <1>2. RecordsArePast'
    <2>1. UNCHANGED inc BY DEF ReleaseVerify, identity
    <2>2. Past(path)'
      BY <1>0, <2>1 DEF Past, RecordsArePast, LockTypeOK, File, Owner,
         LeaseIsOwn, Leased, ReleaseVerify
    <2>3. \A t \in OwnerToken : Past(recovered[t])' /\ Past(released[t])'
      BY <2>1 DEF Past, RecordsArePast, LockTypeOK, ReleaseVerify
    <2>4. \A q \in Proc : Past(mine[q])' /\ Past(observed[q])'
      BY <2>1 DEF Past, RecordsArePast, LockTypeOK, ReleaseVerify,
         MoveTo, LeaveCall, Unreleased
    <2> QED BY <2>2, <2>3, <2>4 DEF RecordsArePast
  <1>3. LeaseIsOwn'
    BY <1>0 DEF ReleaseVerify, MoveTo, LeaveCall, Unreleased, identity,
       LockTypeOK, LeaseIsOwn, Leased, File, Owner
  <1>4. TokensAreUnique'
    BY <1>0 DEF ReleaseVerify, MoveTo, LeaveCall, Unreleased, identity,
       LockTypeOK, TokensAreUnique, File, Owner
  <1>5. RecoveryState'
    BY <1>0 DEF ReleaseVerify, MoveTo, LeaveCall, Unreleased, identity,
       LockTypeOK, RecoveryState, File, Owner
  <1>6. DeadVerdictIsFinal'
    BY <1>0 DEF ReleaseVerify, MoveTo, LeaveCall, Unreleased, identity,
       LockTypeOK, DeadVerdictIsFinal, IsLive, RecordsArePast, Past,
       RecoveryState, File, Owner
  <1>7. ReleaseState'
    <2>1. /\ at'[p] \in {"idle", "settled"}
          /\ \A q \in Proc : q # p => /\ at'[q] = at[q] /\ mine'[q] = mine[q]
                                     /\ observed'[q] = observed[q]
      BY DEF ReleaseVerify, MoveTo, LeaveCall, Unreleased, LockTypeOK
    <2>2. \A t \in OwnerToken : released'[t] \in {released[t], Absent}
      BY DEF ReleaseVerify, LockTypeOK
    <2>3. \A q \in Proc : at[q] = "relrename" => mine[q].token \in OwnerToken
      BY DEF LockTypeOK, LeaseIsOwn, Leased, File, Owner
    <2> QED BY <2>1, <2>2, <2>3 DEF ReleaseState
  <1>8. PublishedIsOnDisk'
    <2> SUFFICES ASSUME NEW q \in Proc, at'[q] \in {"readback", "held"}
                 PROVE  OnDisk(mine[q])'
      BY DEF PublishedIsOnDisk
    <2>1. q # p /\ at[q] \in {"readback", "held"} /\ mine'[q] = mine[q] /\ recovered' = recovered
      BY DEF ReleaseVerify, MoveTo, LeaveCall, Unreleased, LockTypeOK
    <2>2. /\ mine[q] # Absent /\ mine[p] # Absent /\ observed[p] = mine[p]
          /\ mine[q] # mine[p] /\ mine[p].token \in OwnerToken
      BY <2>1 DEF ReleaseVerify, LockTypeOK, LeaseIsOwn, Leased,
         ReleaseState, TokensAreUnique, File, Owner
    <2>3. \A t \in OwnerToken : released[t] = mine[q] => released'[t] = mine[q]
      BY <2>2 DEF ReleaseVerify, LockTypeOK
    <2>4. OnDisk(mine[q])
      BY <2>1 DEF PublishedIsOnDisk
    <2> QED BY <1>0, <2>1, <2>2, <2>3, <2>4 DEF OnDisk
  <1> QED BY <1>1, <1>2, <1>3, <1>4, <1>5, <1>6, <1>7, <1>8

LEMMA LockCrashIInv ==
  ASSUME LockIInv, NEW p \in Proc, Crash(p)
  PROVE  LockIInv'
  <1> USE StartLockAssumption DEF LockIInv
  <1>1. LockTypeOK'
    BY DEF Crash, MoveTo, LeaveCall, files, LockTypeOK, File,
       Owner, LockPC
  <1>2. RecordsArePast'
    BY DEF Crash, MoveTo, LeaveCall, files, LockTypeOK,
       RecordsArePast, Past, File, Owner
  <1>3. LeaseIsOwn'
    BY DEF Crash, MoveTo, LeaveCall, files, LockTypeOK, LeaseIsOwn,
       Leased, File, Owner
  <1>4. TokensAreUnique'
    BY DEF Crash, MoveTo, LeaveCall, files, LockTypeOK,
       TokensAreUnique, File, Owner
  <1>5. RecoveryState'
    BY DEF Crash, MoveTo, LeaveCall, files, LockTypeOK, RecoveryState,
       File, Owner
  <1>6. DeadVerdictIsFinal'
    BY DEF Crash, MoveTo, LeaveCall, files, LockTypeOK,
       DeadVerdictIsFinal, IsLive, RecordsArePast, Past,
       RecoveryState, File, Owner
  <1>7. ReleaseState'
    BY DEF Crash, MoveTo, LeaveCall, files, LockTypeOK, ReleaseState,
       LeaseIsOwn, Leased, TokensAreUnique, File, Owner
  <1>8. PublishedIsOnDisk'
    BY DEF Crash, MoveTo, LeaveCall, files, LockTypeOK,
       PublishedIsOnDisk, OnDisk, LeaseIsOwn, Leased,
       RecoveryState, ReleaseState, DeadVerdictIsFinal, IsLive,
       File, Owner
  <1> QED BY <1>1, <1>2, <1>3, <1>4, <1>5, <1>6, <1>7, <1>8

LEMMA LockRestartIInv ==
  ASSUME LockIInv, NEW p \in Proc, Restart(p)
  PROVE  LockIInv'
  <1> USE StartLockAssumption DEF LockIInv
  <1>1. LockTypeOK'
    BY DEF Restart, files, LockTypeOK, File, Owner, LockPC
  <1>2. RecordsArePast'
    BY DEF Restart, files, LockTypeOK, RecordsArePast, Past,
       File, Owner
  <1>3. LeaseIsOwn'
    BY DEF Restart, files, LockTypeOK, LeaseIsOwn, Leased, File,
       Owner
  <1>4. TokensAreUnique'
    BY DEF Restart, files, LockTypeOK, TokensAreUnique, File, Owner
  <1>5. RecoveryState'
    BY DEF Restart, files, LockTypeOK, RecoveryState, File, Owner
  <1>6. DeadVerdictIsFinal'
    BY DEF Restart, files, LockTypeOK, DeadVerdictIsFinal, IsLive,
       RecordsArePast, Past, RecoveryState, File, Owner
  <1>7. ReleaseState'
    BY DEF Restart, files, LockTypeOK, ReleaseState, LeaseIsOwn,
       Leased, TokensAreUnique, File, Owner
  <1>8. PublishedIsOnDisk'
    BY DEF Restart, files, LockTypeOK, PublishedIsOnDisk, OnDisk,
       LeaseIsOwn, Leased, RecoveryState, ReleaseState,
       DeadVerdictIsFinal, IsLive, File, Owner
  <1> QED BY <1>1, <1>2, <1>3, <1>4, <1>5, <1>6, <1>7, <1>8

LEMMA LockStutterIInv == LockIInv /\ UNCHANGED lockVars => LockIInv'
  BY DEF LockIInv, lockVars, LockTypeOK, RecordsArePast, Past,
     LeaseIsOwn, Leased, TokensAreUnique,
         RecoveryState, DeadVerdictIsFinal, IsLive, ReleaseState,
         PublishedIsOnDisk, OnDisk

\* IInv is inductive: every call of acquire and release, crash and restart
\* preserves it.
LEMMA LockNextIInv ==
  ASSUME LockIInv, [LockNext]_lockVars PROVE LockIInv'
  BY LockStutterIInv, LockAcquireStartIInv, LockTryLinkIInv, LockCandidateFaultIInv,
     LockReadbackIInv, LockInspectIInv, LockJudgeIInv, LockRecoverRenameIInv,
     LockRecoverVerifyIInv, LockReleaseStartIInv, LockReleaseReadIInv,
     LockReleaseRenameIInv, LockReleaseVerifyIInv, LockCrashIInv, LockRestartIInv
  DEF LockNext

\* Acquire, recovery and release keep the inductive invariant of the lock file.
THEOREM LockIsConsistent == LockSpec => []LockIInv
  <1>1. LockInit => LockIInv
    BY LockInitIInv
  <1>2. LockIInv /\ [LockNext]_lockVars => LockIInv'
    BY LockNextIInv
  <1> QED BY <1>1, <1>2, PTL DEF LockSpec

\* Every variable of the lock protocol keeps its type, and the acquire loop of
\* acquireProjectDelegationStartLockV1 keeps its bound.
THEOREM LockTypeCorrect == LockSpec => []LockTypeOK
  <1>1. LockIInv => LockTypeOK BY DEF LockIInv
  <1> QED BY <1>1, LockIsConsistent, PTL

\* The owner record of a held lease is only ever moved, never destroyed.
THEOREM LiveLeaseSurvives == LockSpec => []LiveLeaseOnDisk
  <1>1. LockIInv => LiveLeaseOnDisk
    BY DEF LockIInv, PublishedIsOnDisk, LiveLeaseOnDisk, Holds
  <1> QED BY <1>1, LockIsConsistent, PTL

\* A second live lease can only come from a record renamed aside.
THEOREM DoubleLeaseNeedsDisplacement ==
  LockSpec => []DoubleLeaseIsDisplaced
  <1>1. LockIInv => DoubleLeaseIsDisplaced
    <2> SUFFICES ASSUME LockIInv, NEW p \in Proc, NEW q \in Proc,
                        Holds(p), Holds(q), p # q
                 PROVE  \E r \in {p, q}, t \in OwnerToken : mine[r] \in {recovered[t], released[t]}
      BY DEF DoubleLeaseIsDisplaced
    <2>1. OnDisk(mine[p]) /\ OnDisk(mine[q])
      BY DEF LockIInv, PublishedIsOnDisk, Holds
    <2>2. mine[p] # mine[q]
      BY DEF LockIInv, LeaseIsOwn, Leased, Holds
    <2> QED BY <2>1, <2>2 DEF OnDisk
  <1> QED BY <1>1, LockIsConsistent, PTL

\* An owner that recovery judged dead never becomes live again, whatever pids
\* are reused in the meantime.
THEOREM DeadStaysDead == LockSpec => []DeadVerdictIsFinal
  <1>1. LockIInv => DeadVerdictIsFinal BY DEF LockIInv
  <1> QED BY <1>1, LockIsConsistent, PTL
=============================================================================
