-------------------------- MODULE RecipeRunProofs --------------------------
(***************************************************************************)
(* The action cache for every set of sessions and keys, and any number of  *)
(* edits, failures, damaged files and deaths, with recoveries that delete  *)
(* a lock as late as they like.                                            *)
(***************************************************************************)
EXTENDS RecipeRun, FiniteSetTheorems, TLAPS

-----------------------------------------------------------------------------
(* Indices *)

\* An index of some keys is a sequence of keys.
LEMMA OrdersAreIndices ==
    ASSUME NEW S \in SUBSET Input, NEW s \in Orders(S)
    PROVE  s \in Seq(Input) /\ Range(s) = S
<1>1. IsFiniteSet(S)
    BY RecipeRunAssumption, FS_Subset
<1>2. Cardinality(S) \in Nat
    BY <1>1, FS_CardinalityType
<1>3. s \in [1..Cardinality(S) -> Input] /\ Range(s) = S
    BY DEF Orders
<1> QED BY <1>2, <1>3

LEMMA RangeOfIndex == ASSUME NEW s \in Seq(Input) PROVE Range(s) \subseteq Input
BY DEF Range

LEMMA UsedIsIndex ==
    ASSUME NEW s \in Seq(Input), NEW k \in Input, NEW t \in Used(s, k)
    PROVE  t \in Seq(Input) /\ Range(t) = Range(s) \union {k}
<1>1. t \in Orders(Range(s) \union {k})
    BY DEF Used
<1>2. Range(s) \union {k} \in SUBSET Input
    BY RangeOfIndex
<1> QED BY <1>1, <1>2, OrdersAreIndices

LEMMA WithoutIsIndex ==
    ASSUME NEW s \in Seq(Input), NEW gone, NEW t \in Without(s, gone)
    PROVE  t \in Seq(Input) /\ Range(t) = Range(s) \ gone
<1>1. t \in Orders(Range(s) \ gone)
    BY DEF Without
<1>2. Range(s) \ gone \in SUBSET Input
    BY RangeOfIndex
<1> QED BY <1>1, <1>2, OrdersAreIndices

\* No recovery that came too late has deleted the mutex of a living owner.
Unstolen == "mutex" \notin stolen

\* What a rebuild finds: the acknowledged results are among the records that parse.
LEMMA RebuiltIsIndex ==
    ASSUME IInv, NEW s \in Rebuilt
    PROVE  s \in Seq(Input) /\ (Unstolen => acked \subseteq Range(s))
<1>1. s \in Seq(Input) /\ Range(s) = {k \in Input : Whole(k)}
    BY OrdersAreIndices DEF Rebuilt
<1>2. Unstolen => acked \subseteq {k \in Input : Whole(k)}
    BY DEF IInv, TypeOK, AcknowledgedIsKept, Unstolen
<1> QED BY <1>1, <1>2

\* Whoever reads the index finds every acknowledged result in it, damaged or not.
LEMMA ReadIndexIsSound ==
    ASSUME IInv, NEW s \in ReadIndex
    PROVE  s \in Seq(Input) /\ (Unstolen => acked \subseteq Range(s))
<1>1. CASE index # Damaged
    BY <1>1 DEF ReadIndex, IInv, TypeOK, AcknowledgedIsFindable, Unstolen
<1>2. CASE index = Damaged
    BY <1>2, RebuiltIsIndex DEF ReadIndex
<1> QED BY <1>1, <1>2

-----------------------------------------------------------------------------
(* Locks and budgets *)

Budget == [edit : Nat, fault : Nat, damage : Nat, crash : Nat]

LEMMA SpendTyped ==
    ASSUME budget \in Budget, NEW w \in {"edit", "fault", "damage", "crash"}, Spend(w)
    PROVE  budget' \in Budget
<1>1. budget[w] \in Nat /\ budget[w] > 0 /\ budget' = [budget EXCEPT ![w] = budget[w] - 1]
    BY DEF Spend, Budget
<1>2. budget[w] - 1 \in Nat
    BY <1>1
<1> QED BY <1>1, <1>2 DEF Budget

\* A mutex that can be taken protects nobody's change.
LEMMA FreeProtectsNobody ==
    ASSUME IInv, mutex = None, Unstolen
    PROVE  maint.pc = "idle" /\ \A q \in Run : pc[q] \notin {"publish", "commitIndex"}
BY RecipeRunAssumption DEF IInv, MutexIsHeld, Unstolen

\* Whoever recovers a lock waits for it.
RecoveryIsAligned ==
    \A q \in Run : /\ removing[q] = "key" => pc[q] = "lock"
                   /\ removing[q] # None => pc[q] \in {"lookup", "recheck", "touch", "store", "lock"}

\* The step of a call that recovers no lock concerns no recovery.
LEMMA RecoveryStays ==
    ASSUME TypeOK, CallIsAligned, NEW r \in Run, removing[r] = None, UNCHANGED removing,
           NEW l, pc' = [pc EXCEPT ![r] = l]
    PROVE  RecoveryIsAligned'
BY RecipeRunAssumption DEF TypeOK, CallIsAligned, RecoveryIsAligned

LEMMA InitIInv == Init => IInv
<1> SUFFICES ASSUME Init PROVE IInv
    OBVIOUS
<1>1. << >> \in Seq(Input) /\ Range(<< >>) = {}
    BY DEF Range
<1>2. maint \in [pc : {"idle", "remove", "index"}, sel : SUBSET Input, idx : Seq(Input)]
    BY <1>1 DEF Init, Idle
<1>3. TypeOK
    BY <1>1, <1>2, RecipeRunAssumption DEF Init, TypeOK, Pcs, Actor
<1> QED
    BY <1>1, <1>3, RecipeRunAssumption
    DEF Init, IInv, Actor, MutexIsHeld, KeyLockIsHeld, CallIsAligned, AcknowledgedIsKept,
        AcknowledgedIsFindable, ExecutesOnce, Idle

-----------------------------------------------------------------------------
(* A call *)

\* A step that leaves the cache alone and brings no call to its index keeps what is
\* acknowledged.
LEMMA CacheUntouched ==
    ASSUME AcknowledgedIsKept, AcknowledgedIsFindable,
           UNCHANGED <<index, record, acked, copy, maint, stolen>>,
           \A q \in Run : pc'[q] \in {"publish", "commitIndex"} => pc'[q] = pc[q]
    PROVE  AcknowledgedIsKept' /\ AcknowledgedIsFindable'
BY DEF AcknowledgedIsKept, AcknowledgedIsFindable, Whole

LEMMA BeginIInv ==
    ASSUME IInv, NEW r \in Run, removing[r] = None, Begin(r)
    PROVE  IInv'
<1>r. RecoveryIsAligned'
    <2>1. \E l : pc' = [pc EXCEPT ![r] = l]
        BY DEF Begin, Goto
    <2>2. UNCHANGED removing
        BY DEF Begin, locks, recovery
    <2> QED BY <2>1, <2>2, RecoveryStays DEF IInv
<1> USE DEF IInv, Begin, Goto, cache, locks, recovery
<1>1. TypeOK'
    <2>1. budget' \in Budget
        BY SpendTyped DEF TypeOK, Budget
    <2>2. mode' \in [Run -> {"default", "refresh-cache", "no-cache"}]
        BY DEF TypeOK
    <2>3. key' = key \/ key' = [key EXCEPT ![r] = input]
        BY Zenon
    <2>4. \E l \in {"lookup", "lock", "exec"} : pc' = [pc EXCEPT ![r] = l]
        OBVIOUS
    <2>5. key' \in [Run -> Input \union {None}] /\ pc' \in [Run -> Pcs]
        <3>1. /\ key \in [Run -> Input \union {None}] /\ input \in Input /\ pc \in [Run -> Pcs]
              /\ {"lookup", "lock", "exec"} \subseteq Pcs
            BY DEF TypeOK, Pcs
        <3> HIDE DEF IInv, Begin
        <3>2. key' \in [Run -> Input \union {None}]
            BY <2>3, <3>1
        <3>3. pc' \in [Run -> Pcs]
            BY <2>4, <3>1
        <3> QED BY <3>2, <3>3
    <2> QED BY <2>1, <2>2, <2>5, <1>r DEF RecoveryIsAligned, TypeOK, Budget
<1>2. MutexIsHeld'
    BY DEF TypeOK, MutexIsHeld
<1>3. KeyLockIsHeld'
    BY DEF TypeOK, KeyLockIsHeld, CallIsAligned
<1>4. CallIsAligned'
    BY <1>r, RecipeRunAssumption DEF TypeOK, CallIsAligned, RecoveryIsAligned
<1>5. AcknowledgedIsKept' /\ AcknowledgedIsFindable'
    <2>1. UNCHANGED <<index, record, acked, copy, maint, stolen>>
        OBVIOUS
    <2>2. \A q \in Run : pc'[q] \in {"publish", "commitIndex"} => pc'[q] = pc[q]
        BY DEF TypeOK
    <2> QED BY <2>1, <2>2, CacheUntouched
<1>6. ExecutesOnce'
    BY DEF TypeOK, ExecutesOnce, CallIsAligned
<1> QED BY <1>1, <1>2, <1>3, <1>4, <1>5, <1>6

\* A lookup that is told a key is absent has looked where every acknowledged result is.
LEMMA LookupIInv ==
    ASSUME IInv, NEW r \in Run, removing[r] = None, Lookup(r)
    PROVE  IInv'
<1>r. RecoveryIsAligned'
    <2>1. \E l : pc' = [pc EXCEPT ![r] = l]
        BY DEF Lookup, Goto
    <2>2. UNCHANGED removing
        BY DEF Lookup, locks, recovery
    <2> QED BY <2>1, <2>2, RecoveryStays DEF IInv
<1> USE DEF IInv
<1> DEFINE k == key[r]
<1>0. PICK s \in ReadIndex :
        LET indexed == k \in Range(s)
        IN  /\ index' = s
            /\ IF indexed /\ Whole(k)
               THEN /\ found' = [found EXCEPT ![r] = record[k]]
                    /\ Goto(r, "touch")
                    /\ UNCHANGED <<record, miss>>
               ELSE /\ miss' = [miss EXCEPT ![r] = IF indexed /\ record[k] = Damaged
                                                   THEN "unreadable" ELSE "absent"]
                    /\ record' = IF indexed THEN [record EXCEPT ![k] = None] ELSE record
                    /\ Goto(r, AfterMiss(r))
                    /\ UNCHANGED found
    BY DEF Lookup
<1>1. s \in Seq(Input) /\ (Unstolen => acked \subseteq Range(s)) /\ index' = s
    BY <1>0, ReadIndexIsSound
<1>2. /\ pc[r] \in {"lookup", "recheck"} /\ mutex = None /\ k \in Input
      /\ UNCHANGED <<mutex, keyLock, removing, stolen>>
      /\ UNCHANGED <<input, mode, key, held, read, copy, runDir, maint, acked, budget>>
    BY DEF Lookup, CallIsAligned, TypeOK, locks, recovery
<1>3. Unstolen => maint.pc = "idle" /\ \A q \in Run : pc[q] \notin {"publish", "commitIndex"}
    BY <1>2, FreeProtectsNobody
<1>4. \/ /\ Whole(k) /\ found' = [found EXCEPT ![r] = record[k]] /\ Goto(r, "touch")
         /\ UNCHANGED <<record, miss>>
      \/ /\ Unstolen => k \notin acked
         /\ Goto(r, AfterMiss(r)) /\ UNCHANGED found
         /\ miss' \in {[miss EXCEPT ![r] = "unreadable"], [miss EXCEPT ![r] = "absent"]}
         /\ record' \in {record, [record EXCEPT ![k] = None]}
    BY <1>0, <1>1, <1>2 DEF AcknowledgedIsKept, Unstolen
<1>5. TypeOK'
    <2>1. found' \in [Run -> Record \union {None}]
        <3>1. found \in [Run -> Record \union {None}] /\ (Whole(k) => record[k] \in Record)
            BY <1>2 DEF TypeOK, Whole
        <3>2. found' = found \/ (Whole(k) /\ found' = [found EXCEPT ![r] = record[k]])
            BY <1>4
        <3> HIDE DEF IInv, k
        <3> QED BY <3>1, <3>2
    <2>2. miss' \in [Run -> {"none", "absent", "unreadable"}]
        <3>1. miss \in [Run -> {"none", "absent", "unreadable"}]
            BY DEF TypeOK
        <3> HIDE DEF IInv, k
        <3> QED BY <1>4, <3>1
    <2>3. record' \in [Input -> Record \union {None, Damaged}]
        <3>1. record \in [Input -> Record \union {None, Damaged}]
            BY DEF TypeOK
        <3> HIDE DEF IInv, k
        <3> QED BY <1>4, <3>1
    <2>4. pc' \in [Run -> Pcs]
        <3>1. \E l \in Pcs : pc' = [pc EXCEPT ![r] = l]
            BY <1>4 DEF Pcs, Goto, AfterMiss
        <3>2. pc \in [Run -> Pcs]
            BY DEF TypeOK
        <3> HIDE DEF IInv
        <3> QED BY <3>1, <3>2
    <2> QED BY <1>1, <1>2, <2>1, <2>2, <2>3, <2>4, <1>r DEF RecoveryIsAligned, TypeOK
<1>6. MutexIsHeld'
    BY <1>2, <1>3, <1>4 DEF TypeOK, MutexIsHeld, Goto, AfterMiss, Unstolen
<1>7. KeyLockIsHeld'
    BY <1>2, <1>4 DEF TypeOK, KeyLockIsHeld, Goto, AfterMiss
<1>10. CallIsAligned'
    <2>1. \A q \in Run : q # r => pc'[q] = pc[q]
        BY <1>4 DEF TypeOK, Goto
    <2>2. pc'[r] \in {"touch", "exec"} \/ (pc'[r] = "lock" /\ ~held[r])
        BY <1>4 DEF TypeOK, Goto, AfterMiss
    <2> QED BY <1>2, <2>1, <2>2, <1>r DEF RecoveryIsAligned, CallIsAligned, TypeOK
<1>8. AcknowledgedIsKept' /\ AcknowledgedIsFindable'
    <2>1. Unstolen => \A j \in acked : record'[j] = record[j]
        BY <1>2, <1>4 DEF TypeOK
    <2>2. Unstolen => \A q \in Run : pc'[q] \notin {"publish", "commitIndex"}
        BY <1>3, <1>4 DEF TypeOK, Goto, AfterMiss
    <2> QED
        BY <1>1, <1>2, <1>3, <2>1, <2>2
        DEF AcknowledgedIsKept, AcknowledgedIsFindable, Whole, Unstolen
<1>9. ExecutesOnce'
    <2>1. \A q \in Run : q # r => pc'[q] = pc[q] /\ miss'[q] = miss[q]
        BY <1>4 DEF TypeOK, Goto
    <2>2. Unstolen /\ pc'[r] = "exec" => k \notin acked
        BY <1>4 DEF TypeOK, Goto
    <2> QED BY <1>2, <2>1, <2>2 DEF ExecutesOnce, Unstolen
<1> QED BY <1>5, <1>6, <1>7, <1>8, <1>9, <1>10

LEMMA LookupFailsIInv ==
    ASSUME IInv, NEW r \in Run, removing[r] = None, LookupFails(r)
    PROVE  IInv'
<1>r. RecoveryIsAligned'
    <2>1. \E l : pc' = [pc EXCEPT ![r] = l]
        BY DEF LookupFails, Goto
    <2>2. UNCHANGED removing
        BY DEF LookupFails, locks, recovery
    <2> QED BY <2>1, <2>2, RecoveryStays DEF IInv
<1> USE DEF IInv, LookupFails, Goto, cache, locks, recovery, AfterMiss
<1>1. TypeOK'
    <2>1. budget' \in Budget
        BY SpendTyped DEF TypeOK, Budget
    <2> QED BY <2>1, <1>r DEF RecoveryIsAligned, TypeOK, Pcs, Budget
<1>2. MutexIsHeld'
    BY DEF TypeOK, MutexIsHeld
<1>3. KeyLockIsHeld' /\ CallIsAligned'
    BY <1>r DEF RecoveryIsAligned, TypeOK, KeyLockIsHeld, CallIsAligned
<1>5. AcknowledgedIsKept' /\ AcknowledgedIsFindable'
    <2>1. UNCHANGED <<index, record, acked, copy, maint, stolen>>
        OBVIOUS
    <2>2. \A q \in Run : pc'[q] \in {"publish", "commitIndex"} => pc'[q] = pc[q]
        BY DEF TypeOK
    <2> QED BY <2>1, <2>2, CacheUntouched
<1>6. ExecutesOnce'
    BY DEF TypeOK, ExecutesOnce
<1> QED BY <1>1, <1>2, <1>3, <1>5, <1>6

LEMMA TouchIInv ==
    ASSUME IInv, NEW r \in Run, removing[r] = None, Touch(r)
    PROVE  IInv'
<1>r. RecoveryIsAligned'
    <2>1. \E l : pc' = [pc EXCEPT ![r] = l]
        BY DEF Touch, Goto
    <2>2. UNCHANGED removing
        BY DEF Touch, locks, recovery
    <2> QED BY <2>1, <2>2, RecoveryStays DEF IInv
<1> USE DEF IInv
<1>1. /\ pc[r] = "touch" /\ Goto(r, "materialize") /\ key[r] \in Input
      /\ UNCHANGED <<mutex, keyLock, removing, stolen>>
      /\ UNCHANGED <<input, record, call, maint, acked, budget>>
    BY DEF Touch, CallIsAligned, TypeOK, locks, recovery
<1>2. \/ UNCHANGED index
      \/ index' \in Seq(Input) /\ (Unstolen => acked \subseteq Range(index'))
    <2>1. CASE UNCHANGED index
        BY <2>1
    <2>2. CASE \E s \in ReadIndex :
                    index' \in IF key[r] \in Range(s) THEN Used(s, key[r]) ELSE {s}
        <3>1. PICK s \in ReadIndex :
                index' \in IF key[r] \in Range(s) THEN Used(s, key[r]) ELSE {s}
            BY <2>2
        <3>2. s \in Seq(Input) /\ (Unstolen => acked \subseteq Range(s))
            BY ReadIndexIsSound
        <3> QED BY <1>1, <3>1, <3>2, UsedIsIndex
    <2> QED BY <2>1, <2>2 DEF Touch
<1>3. TypeOK'
    <2> QED BY <1>1, <1>2, <1>r DEF RecoveryIsAligned, TypeOK, Pcs, Goto, call
<1>4. MutexIsHeld'
    BY <1>1, <1>2 DEF TypeOK, MutexIsHeld, Goto
<1>5. KeyLockIsHeld' /\ CallIsAligned'
    BY <1>1, <1>r DEF RecoveryIsAligned, TypeOK, KeyLockIsHeld, CallIsAligned, Goto, call
<1>6. AcknowledgedIsKept' /\ AcknowledgedIsFindable'
    BY <1>1, <1>2
    DEF TypeOK, AcknowledgedIsKept, AcknowledgedIsFindable, Whole, Goto, call, Unstolen
<1>7. ExecutesOnce'
    BY <1>1 DEF TypeOK, ExecutesOnce, Goto, call
<1> QED BY <1>3, <1>4, <1>5, <1>6, <1>7

LEMMA MaterializeIInv ==
    ASSUME IInv, NEW r \in Run, removing[r] = None, Materialize(r)
    PROVE  IInv'
<1>r. RecoveryIsAligned'
    <2>1. \E l : pc' = [pc EXCEPT ![r] = l]
        BY DEF Materialize, Goto
    <2>2. UNCHANGED removing
        BY DEF Materialize, locks, recovery
    <2> QED BY <2>1, <2>2, RecoveryStays DEF IInv
<1> USE DEF IInv
<1>1. /\ pc[r] = "materialize"
      /\ UNCHANGED <<input, cache, locks, mode, key, held, read, copy, maint>>
    BY DEF Materialize
<1>2. \/ /\ runDir' = [runDir EXCEPT ![r] = "cached"] /\ pc' = [pc EXCEPT ![r] = "commit"]
         /\ UNCHANGED <<found, miss, budget>>
      \/ /\ Spend("fault") /\ found' = [found EXCEPT ![r] = None]
         /\ miss' = [miss EXCEPT ![r] = "unreadable"] /\ UNCHANGED runDir
         /\ \/ pc' = [pc EXCEPT ![r] = "lock"] /\ ~held[r]
            \/ pc' = [pc EXCEPT ![r] = "exec"]
    BY DEF Materialize, Goto, AfterMiss
<1>3. TypeOK'
    <2>1. budget' \in Budget
        BY <1>2, SpendTyped DEF TypeOK, Budget
    <2>2. runDir' \in [Run -> {"none", "failed", "executed", "cached", "hit", "result", "error"}]
        <3>1. runDir \in [Run -> {"none", "failed", "executed", "cached", "hit", "result", "error"}]
            BY DEF TypeOK
        <3> HIDE DEF IInv
        <3> QED BY <1>2, <3>1
    <2>3. pc' \in [Run -> Pcs]
        <3>1. \E l \in Pcs : pc' = [pc EXCEPT ![r] = l]
            BY <1>2 DEF Pcs
        <3>2. pc \in [Run -> Pcs]
            BY DEF TypeOK
        <3> HIDE DEF IInv
        <3> QED BY <3>1, <3>2
    <2>4. found' \in [Run -> Record \union {None}]
        <3>1. found \in [Run -> Record \union {None}]
            BY DEF TypeOK
        <3> HIDE DEF IInv
        <3> QED BY <1>2, <3>1
    <2>5. miss' \in [Run -> {"none", "absent", "unreadable"}]
        <3>1. miss \in [Run -> {"none", "absent", "unreadable"}]
            BY DEF TypeOK
        <3> HIDE DEF IInv
        <3> QED BY <1>2, <3>1
    <2> QED BY <1>1, <2>1, <2>2, <2>3, <2>4, <2>5, <1>r
        DEF RecoveryIsAligned, TypeOK, Budget, cache, locks, recovery
<1>4. MutexIsHeld'
    BY <1>1, <1>2 DEF TypeOK, MutexIsHeld, locks, recovery
<1>5. KeyLockIsHeld'
    BY <1>1, <1>2 DEF TypeOK, KeyLockIsHeld, locks, recovery
<1>6. CallIsAligned'
    BY <1>1, <1>2, <1>r DEF RecoveryIsAligned, TypeOK, CallIsAligned, locks, recovery
<1>7. AcknowledgedIsKept' /\ AcknowledgedIsFindable'
    <2>1. UNCHANGED <<index, record, acked, copy, maint, stolen>>
        BY <1>1 DEF cache, locks, recovery
    <2>2. \A q \in Run : pc'[q] \in {"publish", "commitIndex"} => pc'[q] = pc[q]
        BY <1>2 DEF TypeOK
    <2> QED BY <2>1, <2>2, CacheUntouched
<1>8. ExecutesOnce'
    <2>1. UNCHANGED <<acked, stolen, mode, key, held>>
        BY <1>1 DEF cache, locks, recovery
    <2>2. \A q \in Run : q # r => pc'[q] = pc[q] /\ miss'[q] = miss[q]
        BY <1>2 DEF TypeOK
    <2>3. pc'[r] = "exec" => miss'[r] # "absent"
        BY <1>2 DEF TypeOK
    <2> QED BY <2>1, <2>2, <2>3 DEF ExecutesOnce
<1> QED BY <1>3, <1>4, <1>5, <1>6, <1>7, <1>8

\* A lock is taken from nobody who lives.
LEMMA AcquireLockIInv ==
    ASSUME IInv, NEW r \in Run, removing[r] = None, AcquireLock(r)
    PROVE  IInv'
<1>r. RecoveryIsAligned'
    <2>1. \E l : pc' = [pc EXCEPT ![r] = l]
        BY DEF AcquireLock, Goto
    <2>2. UNCHANGED removing
        BY DEF AcquireLock, locks, recovery
    <2> QED BY <2>1, <2>2, RecoveryStays DEF IInv
<1> USE DEF IInv
<1> DEFINE k == key[r]
<1>1. /\ pc[r] = "lock" /\ ~held[r] /\ k \in Input
      /\ UNCHANGED <<input, cache, mutex, mode, key, found, miss, read, copy, runDir, maint>>
      /\ UNCHANGED <<removing, stolen>>
    BY DEF AcquireLock, CallIsAligned, TypeOK, recovery
<1>2. \/ /\ keyLock[k] = None /\ keyLock' = [keyLock EXCEPT ![k] = r]
         /\ held' = [held EXCEPT ![r] = TRUE]
         /\ Goto(r, IF mode[r] = "default" THEN "recheck" ELSE "exec")
         /\ UNCHANGED budget
      \/ /\ Spend("fault") \/ UNCHANGED budget
         /\ Goto(r, "exec") /\ UNCHANGED <<keyLock, held>>
    BY DEF AcquireLock
<1>3. TypeOK'
    <2>1. budget' \in Budget
        BY <1>2, SpendTyped DEF TypeOK, Budget
    <2>2. keyLock' \in [Input -> Run \union {None, "gone"}] /\ held' \in [Run -> BOOLEAN]
        <3>1. keyLock \in [Input -> Run \union {None, "gone"}] /\ held \in [Run -> BOOLEAN]
            BY DEF TypeOK
        <3>2. /\ keyLock' = keyLock \/ keyLock' = [keyLock EXCEPT ![k] = r]
              /\ held' = held \/ held' = [held EXCEPT ![r] = TRUE]
            BY <1>2
        <3> HIDE DEF k, IInv
        <3>3. keyLock' \in [Input -> Run \union {None, "gone"}]
            BY <3>1, <3>2
        <3>4. held' \in [Run -> BOOLEAN]
            BY <3>1, <3>2
        <3> QED BY <3>3, <3>4
    <2>3. pc' \in [Run -> Pcs]
        <3>1. pc \in [Run -> Pcs]
            BY DEF TypeOK
        <3>2. \E l \in {"recheck", "exec"} : pc' = [pc EXCEPT ![r] = l]
            BY <1>2 DEF Goto
        <3> HIDE DEF IInv, k
        <3> QED BY <3>1, <3>2 DEF Pcs
    <2> QED BY <1>1, <2>1, <2>2, <2>3, <1>r DEF RecoveryIsAligned, TypeOK, Budget, cache
<1>4. MutexIsHeld'
    BY <1>1, <1>2 DEF TypeOK, MutexIsHeld, Goto
<1>5. KeyLockIsHeld'
    <2>1. CASE UNCHANGED <<keyLock, held>>
        BY <1>1, <1>2, <2>1 DEF TypeOK, KeyLockIsHeld, Goto
    <2>2. CASE keyLock[k] = None /\ keyLock' = [keyLock EXCEPT ![k] = r]
               /\ held' = [held EXCEPT ![r] = TRUE]
        <3>1. ASSUME NEW q \in Run, q # r, held[q], pc[q] # "dead", key[q] \notin stolen
              PROVE  key[q] # k
            <4>1. keyLock[key[q]] = q
                BY <3>1 DEF KeyLockIsHeld
            <4> QED BY <2>2, <3>1, <4>1, RecipeRunAssumption
        <3>2. \A q \in Run : q # r => pc'[q] = pc[q] /\ held'[q] = held[q]
            BY <1>2, <2>2 DEF TypeOK, Goto
        <3>3. \A q \in Run : held[q] => key[q] \in Input
            BY DEF CallIsAligned, TypeOK
        <3>4. keyLock'[k] = r /\ \A j \in Input : j # k => keyLock'[j] = keyLock[j]
            BY <1>1, <2>2 DEF TypeOK
        <3> QED BY <1>1, <3>1, <3>2, <3>3, <3>4 DEF KeyLockIsHeld
    <2> QED BY <1>2, <2>1, <2>2
<1>6. CallIsAligned'
    <2>1. \A q \in Run : q # r => pc'[q] = pc[q] /\ held'[q] = held[q]
        BY <1>2 DEF TypeOK, Goto
    <2>2. pc'[r] \in {"recheck", "exec"} /\ key[r] # None
        BY <1>1, <1>2, RecipeRunAssumption DEF TypeOK, Goto
    <2> QED BY <1>1, <2>1, <2>2, <1>r DEF RecoveryIsAligned, CallIsAligned, TypeOK
<1>7. AcknowledgedIsKept' /\ AcknowledgedIsFindable'
    <2>1. UNCHANGED <<index, record, acked, copy, maint, stolen>>
        BY <1>1 DEF cache
    <2>2. \A q \in Run : pc'[q] \in {"publish", "commitIndex"} => pc'[q] = pc[q]
        BY <1>2 DEF TypeOK, Goto
    <2> QED BY <2>1, <2>2, CacheUntouched
<1>8. ExecutesOnce'
    <2>1. UNCHANGED <<acked, mode, miss, key, stolen>>
        BY <1>1 DEF cache
    <2>2. \A q \in Run : q # r => pc'[q] = pc[q] /\ held'[q] = held[q]
        BY <1>2 DEF TypeOK, Goto
    <2>3. pc'[r] = "exec" => ~held'[r] \/ mode[r] # "default"
        BY <1>1, <1>2 DEF TypeOK, Goto
    <2>4. ExecutesOnce
        OBVIOUS
    <2> HIDE DEF IInv, k
    <2> QED BY <2>1, <2>2, <2>3, <2>4 DEF ExecutesOnce
<1> QED BY <1>3, <1>4, <1>5, <1>6, <1>7, <1>8

LEMMA ExecuteIInv ==
    ASSUME IInv, NEW r \in Run, removing[r] = None, Execute(r) \/ ExecuteFails(r)
    PROVE  IInv'
<1>r. RecoveryIsAligned'
    <2>1. \E l : pc' = [pc EXCEPT ![r] = l]
        BY DEF Execute, ExecuteFails, Goto
    <2>2. UNCHANGED removing
        BY DEF Execute, ExecuteFails, locks, recovery
    <2> QED BY <2>1, <2>2, RecoveryStays DEF IInv
<1> USE DEF IInv, Execute, ExecuteFails, Goto, cache, locks, recovery
<1>1. TypeOK'
    <2>1. budget' \in Budget
        BY SpendTyped DEF TypeOK, Budget
    <2>2. \E l \in {"store", "commit", "release"} : pc' = [pc EXCEPT ![r] = l]
        OBVIOUS
    <2>3. \E d \in {"failed", "executed", "error"} : runDir' = [runDir EXCEPT ![r] = d]
        OBVIOUS
    <2>4. read' \in [Run -> Input \union {None}]
        <3>1. read' = read \/ \E j \in Input : read' = [read EXCEPT ![r] = j]
            BY DEF TypeOK
        <3>2. read \in [Run -> Input \union {None}]
            BY DEF TypeOK
        <3> HIDE DEF IInv, Execute, ExecuteFails
        <3> QED BY <3>1, <3>2
    <2>5. /\ runDir' \in [Run -> {"none", "failed", "executed", "cached", "hit", "result", "error"}]
          /\ pc' \in [Run -> Pcs]
        BY <2>2, <2>3 DEF TypeOK, Pcs
    <2> QED BY <2>1, <2>4, <2>5, <1>r DEF RecoveryIsAligned, TypeOK, Budget
<1>2. MutexIsHeld'
    BY DEF TypeOK, MutexIsHeld
<1>3. KeyLockIsHeld'
    BY DEF TypeOK, KeyLockIsHeld
<1>4. CallIsAligned'
    BY <1>r, RecipeRunAssumption DEF TypeOK, CallIsAligned, RecoveryIsAligned
<1>5. AcknowledgedIsKept' /\ AcknowledgedIsFindable'
    <2>1. UNCHANGED <<index, record, acked, copy, maint, stolen>>
        OBVIOUS
    <2>2. \A q \in Run : pc'[q] \in {"publish", "commitIndex"} => pc'[q] = pc[q]
        BY DEF TypeOK
    <2> QED BY <2>1, <2>2, CacheUntouched
<1>6. ExecutesOnce'
    <2>1. UNCHANGED <<acked, stolen, mode, key, held, miss>>
        OBVIOUS
    <2>2. pc'[r] # "exec" /\ \A q \in Run : q # r => pc'[q] = pc[q]
        BY DEF TypeOK
    <2> QED BY <2>1, <2>2 DEF ExecutesOnce
<1> QED BY <1>1, <1>2, <1>3, <1>4, <1>5, <1>6

-----------------------------------------------------------------------------
(* A store *)

LEMMA StoreLockIInv ==
    ASSUME IInv, NEW r \in Run, removing[r] = None, StoreLock(r)
    PROVE  IInv'
<1>r. RecoveryIsAligned'
    <2>1. \E l : pc' = [pc EXCEPT ![r] = l]
        BY DEF StoreLock, Goto
    <2>2. UNCHANGED removing
        BY DEF StoreLock, locks, recovery
    <2> QED BY <2>1, <2>2, RecoveryStays DEF IInv
<1> USE DEF IInv
<1>0. PICK s \in ReadIndex : index' = s /\ copy' = [copy EXCEPT ![r] = s]
    BY DEF StoreLock
<1>1. s \in Seq(Input) /\ (Unstolen => acked \subseteq Range(s)) /\ index' = s
    BY <1>0, ReadIndexIsSound
<1>2. /\ pc[r] = "store" /\ mutex' = r /\ mutex = None /\ Goto(r, "publish")
      /\ UNCHANGED <<input, record, keyLock, removing, stolen, mode, key, held, found, miss, read,
                     runDir, maint, acked, budget>>
    BY DEF StoreLock, recovery
<1>3. Unstolen => maint.pc = "idle" /\ \A q \in Run : pc[q] \notin {"publish", "commitIndex"}
    BY <1>2, FreeProtectsNobody
<1>4. TypeOK'
    <2> QED BY <1>0, <1>1, <1>2, <1>r DEF RecoveryIsAligned, TypeOK, Pcs, Goto
<1>5. MutexIsHeld'
    BY <1>2, <1>3 DEF TypeOK, MutexIsHeld, Goto, Unstolen
<1>6. KeyLockIsHeld' /\ CallIsAligned'
    BY <1>2, <1>r DEF RecoveryIsAligned, TypeOK, KeyLockIsHeld, CallIsAligned, Goto
<1>7. AcknowledgedIsKept' /\ AcknowledgedIsFindable'
    BY <1>0, <1>1, <1>2, <1>3
    DEF TypeOK, AcknowledgedIsKept, AcknowledgedIsFindable, Whole, Goto, Unstolen
<1>8. ExecutesOnce'
    BY <1>2 DEF TypeOK, ExecutesOnce, Goto
<1> QED BY <1>4, <1>5, <1>6, <1>7, <1>8

LEMMA StoreRecordIInv ==
    ASSUME IInv, NEW r \in Run, removing[r] = None, StoreRecord(r)
    PROVE  IInv'
<1>r. RecoveryIsAligned'
    <2>1. \E l : pc' = [pc EXCEPT ![r] = l]
        BY DEF StoreRecord, Goto
    <2>2. UNCHANGED removing
        BY DEF StoreRecord, locks, recovery
    <2> QED BY <2>1, <2>2, RecoveryStays DEF IInv
<1> USE DEF IInv, StoreRecord, Goto, locks, recovery, call
<1>1. /\ key[r] \in Input /\ [src |-> r, made |-> read[r]] \in Record
      /\ [src |-> r, made |-> read[r]] \notin {None, Damaged}
    BY RecipeRunAssumption DEF CallIsAligned, TypeOK, Record
<1>2. TypeOK'
    <2> QED BY <1>1, <1>r DEF RecoveryIsAligned, TypeOK, Pcs
<1>3. MutexIsHeld'
    BY DEF TypeOK, MutexIsHeld
<1>4. KeyLockIsHeld' /\ CallIsAligned'
    BY <1>r DEF RecoveryIsAligned, TypeOK, KeyLockIsHeld, CallIsAligned
<1>5. \A k \in Input : Whole(k) => Whole(k)'
    BY <1>1 DEF TypeOK, Whole
<1>6. AcknowledgedIsKept' /\ AcknowledgedIsFindable'
    BY <1>5 DEF TypeOK, AcknowledgedIsKept, AcknowledgedIsFindable, Whole
<1>7. ExecutesOnce'
    BY DEF TypeOK, ExecutesOnce
<1> QED BY <1>2, <1>3, <1>4, <1>6, <1>7

\* The holder of the key's lock acknowledges the result: nobody else executes the key.
LEMMA StoreIndexIInv ==
    ASSUME IInv, NEW r \in Run, removing[r] = None, StoreIndex(r)
    PROVE  IInv'
<1>r. RecoveryIsAligned'
    <2>1. \E l : pc' = [pc EXCEPT ![r] = l]
        BY DEF StoreIndex, Goto
    <2>2. UNCHANGED removing
        BY DEF StoreIndex, locks, recovery
    <2> QED BY <2>1, <2>2, RecoveryStays DEF IInv
<1> USE DEF IInv
<1>1. /\ pc[r] = "commitIndex" /\ key[r] \in Input /\ copy[r] \in Seq(Input)
      /\ mutex' = IF mutex = r THEN None ELSE mutex
      /\ UNCHANGED <<input, record, keyLock, removing, stolen, call, maint, budget>>
    BY DEF StoreIndex, CallIsAligned, TypeOK, recovery
<1>0. pc' = [pc EXCEPT ![r] = "commit"]
    BY DEF StoreIndex, Goto
<1>2. /\ index' \in Seq(Input)
      /\ Unstolen => acked \union {key[r]} \subseteq Range(index')
    BY <1>1, UsedIsIndex DEF StoreIndex, AcknowledgedIsKept, Unstolen
<1>3. \/ acked' = acked
      \/ acked' = acked \union {key[r]} /\ held[r] /\ Whole(key[r])
    BY DEF StoreIndex
<1>4. Unstolen => /\ mutex = r /\ maint.pc = "idle"
                  /\ \A q \in Run : q # r => pc[q] \notin {"publish", "commitIndex"}
    BY <1>1, RecipeRunAssumption DEF MutexIsHeld, Unstolen
<1>5. TypeOK'
    <2> QED BY <1>0, <1>1, <1>2, <1>3, <1>r DEF RecoveryIsAligned, TypeOK, Pcs, call
<1>6. MutexIsHeld'
    BY <1>0, <1>1, <1>4 DEF TypeOK, MutexIsHeld, Unstolen
<1>7. KeyLockIsHeld' /\ CallIsAligned'
    BY <1>0, <1>1, <1>r DEF RecoveryIsAligned, TypeOK, KeyLockIsHeld, CallIsAligned, call
<1>8. AcknowledgedIsKept' /\ AcknowledgedIsFindable'
    <2>1. Unstolen => \A k \in acked' : Whole(k)' /\ record'[k] # None
        BY <1>1, <1>3 DEF AcknowledgedIsKept, Whole, Unstolen
    <2>2. Unstolen => \A q \in Run : pc'[q] \notin {"publish", "commitIndex"}
        BY <1>0, <1>4 DEF TypeOK
    <2>3. Unstolen => maint'.pc = "idle" /\ acked' \subseteq Range(index')
        BY <1>1, <1>2, <1>3, <1>4
    <2> QED BY <1>1, <2>1, <2>2, <2>3 DEF AcknowledgedIsKept, AcknowledgedIsFindable, Unstolen
<1>9. ExecutesOnce'
    <2>1. \A q \in Run : /\ q # r /\ held[q] /\ held[r] /\ pc[q] = "exec"
                         /\ key[q] \notin stolen
                         => key[q] # key[r]
        BY <1>1 DEF KeyLockIsHeld
    <2>2. pc'[r] = "commit" /\ \A q \in Run : q # r => pc'[q] = pc[q]
        BY <1>0 DEF TypeOK
    <2> QED BY <1>1, <1>3, <2>1, <2>2 DEF ExecutesOnce, call
<1> QED BY <1>5, <1>6, <1>7, <1>8, <1>9

LEMMA StoreFailsIInv ==
    ASSUME IInv, NEW r \in Run, removing[r] = None, StoreFails(r)
    PROVE  IInv'
<1>r. RecoveryIsAligned'
    <2>1. \E l : pc' = [pc EXCEPT ![r] = l]
        BY DEF StoreFails, Goto
    <2>2. UNCHANGED removing
        BY DEF StoreFails, locks, recovery
    <2> QED BY <2>1, <2>2, RecoveryStays DEF IInv
<1> USE DEF IInv
<1>1. /\ pc[r] \in {"store", "publish", "commitIndex"} /\ key[r] \in Input
      /\ Goto(r, "commit") /\ UNCHANGED <<input, keyLock, removing, stolen, call, maint>>
      /\ mutex' = IF mutex = r THEN None ELSE mutex
    BY DEF StoreFails, CallIsAligned, TypeOK, recovery
<1>2. \/ UNCHANGED <<record, acked, index>>
      \/ /\ pc[r] = "commitIndex" /\ record' = [record EXCEPT ![key[r]] = None]
         /\ acked' = acked \ {key[r]}
         /\ index' = index \/ (index' \in Seq(Input) /\ (Unstolen => acked \subseteq Range(index')))
    <2>1. CASE pc[r] # "commitIndex"
        BY <2>1 DEF StoreFails
    <2>2. CASE pc[r] = "commitIndex"
        <3>1. copy[r] \in Seq(Input) /\ (Unstolen => acked \subseteq Range(copy[r]))
            BY <2>2 DEF TypeOK, AcknowledgedIsKept, Unstolen
        <3>2. index' = index \/ index' \in Used(copy[r], key[r])
            BY <2>2 DEF StoreFails
        <3>3. index' = index \/ (index' \in Seq(Input) /\ (Unstolen => acked \subseteq Range(index')))
            BY <1>1, <3>1, <3>2, UsedIsIndex
        <3> QED BY <2>2, <3>3 DEF StoreFails
    <2> QED BY <2>1, <2>2
<1>3. TypeOK'
    <2>1. budget' \in Budget
        BY SpendTyped DEF TypeOK, Budget, StoreFails
    <2>2. /\ record' \in [Input -> Record \union {None, Damaged}] /\ acked' \subseteq Input
          /\ index' = Damaged \/ index' \in Seq(Input)
        <3>1. /\ record \in [Input -> Record \union {None, Damaged}] /\ acked \subseteq Input
              /\ index = Damaged \/ index \in Seq(Input)
            BY DEF TypeOK
        <3> HIDE DEF IInv
        <3> QED BY <1>1, <1>2, <3>1
    <2> QED BY <1>1, <2>1, <2>2, <1>r DEF RecoveryIsAligned, TypeOK, Pcs, Goto, call, Budget
<1>4. MutexIsHeld'
    BY <1>1, RecipeRunAssumption DEF TypeOK, MutexIsHeld, Goto
<1>5. KeyLockIsHeld' /\ CallIsAligned'
    BY <1>1, <1>r DEF RecoveryIsAligned, TypeOK, KeyLockIsHeld, CallIsAligned, Goto, call
<1>6. AcknowledgedIsKept' /\ AcknowledgedIsFindable'
    <2>1. acked' \subseteq acked /\ \A k \in acked' : record'[k] = record[k]
        BY <1>1, <1>2 DEF TypeOK
    <2>2. \A q \in Run : pc'[q] \in {"publish", "commitIndex"} => pc'[q] = pc[q]
        BY <1>1 DEF TypeOK, Goto
    <2>3. Unstolen /\ index' # Damaged => acked' \subseteq Range(index')
        BY <1>2, <2>1 DEF AcknowledgedIsFindable, Unstolen
    <2> QED
        BY <1>1, <2>1, <2>2, <2>3
        DEF AcknowledgedIsKept, AcknowledgedIsFindable, Whole, call, Unstolen
<1>7. ExecutesOnce'
    BY <1>1, <1>2 DEF TypeOK, ExecutesOnce, Goto, call
<1> QED BY <1>3, <1>4, <1>5, <1>6, <1>7

LEMMA CommitRunIInv ==
    ASSUME IInv, NEW r \in Run, removing[r] = None, CommitRun(r)
    PROVE  IInv'
<1>r. RecoveryIsAligned'
    <2>1. \E l : pc' = [pc EXCEPT ![r] = l]
        BY DEF CommitRun, Goto
    <2>2. UNCHANGED removing
        BY DEF CommitRun, locks, recovery
    <2> QED BY <2>1, <2>2, RecoveryStays DEF IInv
<1> USE DEF IInv, CommitRun, Goto, cache, locks, recovery
<1>1. TypeOK'
    <2>1. budget' \in Budget
        BY SpendTyped DEF TypeOK, Budget
    <2>2. \E d \in {"hit", "result", "error"} : runDir' = [runDir EXCEPT ![r] = d]
        OBVIOUS
    <2>3. runDir' \in [Run -> {"none", "failed", "executed", "cached", "hit", "result", "error"}]
        BY <2>2 DEF TypeOK
    <2>4. pc' \in [Run -> Pcs]
        BY DEF TypeOK, Pcs
    <2> QED BY <2>1, <2>3, <2>4, <1>r DEF RecoveryIsAligned, TypeOK, Budget
<1>2. MutexIsHeld'
    BY DEF TypeOK, MutexIsHeld
<1>3. KeyLockIsHeld' /\ CallIsAligned'
    BY <1>r DEF RecoveryIsAligned, TypeOK, KeyLockIsHeld, CallIsAligned
<1>4. AcknowledgedIsKept' /\ AcknowledgedIsFindable'
    BY DEF TypeOK, AcknowledgedIsKept, AcknowledgedIsFindable, Whole
<1>5. ExecutesOnce'
    BY DEF TypeOK, ExecutesOnce
<1> QED BY <1>1, <1>2, <1>3, <1>4, <1>5

\* A call that ends is nowhere and holds nothing.
LEMMA EndsTyped ==
    ASSUME TypeOK, NEW r \in Run, NEW l \in {"done", "dead"}, Ends(r, l)
    PROVE  /\ pc' \in [Run -> Pcs] /\ mode' \in [Run -> {"default", "refresh-cache", "no-cache"}]
           /\ key' \in [Run -> Input \union {None}] /\ held' \in [Run -> BOOLEAN]
           /\ found' \in [Run -> Record \union {None}]
           /\ miss' \in [Run -> {"none", "absent", "unreadable"}]
           /\ read' \in [Run -> Input \union {None}] /\ copy' \in [Run -> Seq(Input)]
           /\ pc'[r] = l /\ ~held'[r]
           /\ \A q \in Run : q # r => /\ pc'[q] = pc[q] /\ key'[q] = key[q] /\ held'[q] = held[q]
                                      /\ mode'[q] = mode[q] /\ miss'[q] = miss[q]
                                      /\ read'[q] = read[q] /\ copy'[q] = copy[q]
BY DEF TypeOK, Ends, Goto, Pcs

\* The end of a call frees nobody's index and leaves what is acknowledged.
LEMMA EndsIInv ==
    ASSUME IInv, TypeOK', NEW r \in Run, NEW l \in {"done", "dead"}, Ends(r, l),
           UNCHANGED <<index, record, acked, maint, mutex, stolen>>,
           removing'[r] = None, \A q \in Run : q # r => removing'[q] = removing[q],
           \A q \in Run : held[q] /\ q # r /\ keyLock[key[q]] = q => keyLock'[key[q]] = q
    PROVE  IInv'
<1> USE DEF IInv
<1>1. /\ pc'[r] = l /\ ~held'[r]
      /\ \A q \in Run : q # r => /\ pc'[q] = pc[q] /\ key'[q] = key[q] /\ held'[q] = held[q]
                                 /\ mode'[q] = mode[q] /\ miss'[q] = miss[q]
                                 /\ read'[q] = read[q] /\ copy'[q] = copy[q]
    BY EndsTyped
<1>2. MutexIsHeld'
    BY <1>1 DEF MutexIsHeld
<1>3. KeyLockIsHeld'
    BY <1>1 DEF KeyLockIsHeld
<1>4. CallIsAligned'
    BY <1>1 DEF CallIsAligned
<1>5. AcknowledgedIsKept' /\ AcknowledgedIsFindable'
    BY <1>1 DEF AcknowledgedIsKept, AcknowledgedIsFindable, Whole
<1>6. ExecutesOnce'
    BY <1>1 DEF ExecutesOnce
<1> QED BY <1>2, <1>3, <1>4, <1>5, <1>6

LEMMA ReleaseLockIInv ==
    ASSUME IInv, NEW r \in Run, removing[r] = None, ReleaseLock(r)
    PROVE  IInv'
<1>1. /\ pc[r] = "release" /\ Ends(r, "done")
      /\ UNCHANGED <<input, index, record, acked, mutex, removing, stolen, runDir, maint, budget>>
      /\ keyLock' = IF held[r] /\ keyLock[key[r]] = r
                    THEN [keyLock EXCEPT ![key[r]] = None] ELSE keyLock
    BY DEF ReleaseLock, cache, recovery
<1>2. TypeOK'
    <2>1. keyLock' \in [Input -> Run \union {None, "gone"}]
        <3>1. keyLock \in [Input -> Run \union {None, "gone"}]
            BY DEF IInv, TypeOK
        <3> QED BY <1>1, <3>1
    <2>2. \A q \in Run : removing'[q] = "key" => pc'[q] = "lock"
        <3>1. pc' = [pc EXCEPT ![r] = "done"]
            BY <1>1 DEF Ends, Goto
        <3> QED BY <1>1, <3>1, RecoveryStays DEF IInv, RecoveryIsAligned
    <2> QED BY <1>1, <2>1, <2>2, EndsTyped DEF IInv, TypeOK
<1>3. \A q \in Run : held[q] /\ q # r /\ keyLock[key[q]] = q => keyLock'[key[q]] = q
    <2>1. \A q \in Run : held[q] => key[q] \in Input
        BY DEF IInv, CallIsAligned, TypeOK
    <2> QED BY <1>1, <2>1 DEF IInv, TypeOK
<1> QED BY <1>1, <1>2, <1>3, EndsIInv

-----------------------------------------------------------------------------
(* Recoveries *)

\* Whoever has died holds no lock that the inductive invariant counts on.
LEMMA DeadHoldsNothing ==
    ASSUME IInv, NEW owner, Dead(owner)
    PROVE  /\ \A q \in Run : pc[q] # "dead" => owner # q
           /\ maint.pc # "idle" => owner # "maint"
BY RecipeRunAssumption DEF Dead, Idle

LEMMA VerifyIInv ==
    ASSUME IInv, VerifyMutex("maint") \/ \E r \in Run : VerifyMutex(r) \/ VerifyKeyLock(r)
    PROVE  IInv'
<1> USE DEF IInv
<1>1. UNCHANGED <<input, index, record, acked, mutex, keyLock, stolen, pc, call, maint, budget>>
    BY DEF VerifyMutex, VerifyKeyLock, cache
<1>2. /\ removing' \in [Actor -> {None, "mutex", "key"}]
      /\ \A q \in Run : removing'[q] = "key" => pc[q] = "lock"
      /\ \A q \in Run : removing'[q] # None =>
           pc[q] \in {"lookup", "recheck", "touch", "store", "lock"}
    <2>1. PICK a \in Actor, what \in {"mutex", "key"} :
            /\ removing' = [removing EXCEPT ![a] = what]
            /\ a = "maint" \/ pc[a] \in {"lookup", "recheck", "touch", "store", "lock"}
            /\ what = "key" => pc[a] = "lock"
        BY RecipeRunAssumption DEF VerifyMutex, VerifyKeyLock, Actor
    <2>2. "maint" \notin Run /\ removing \in [Actor -> {None, "mutex", "key"}]
        BY RecipeRunAssumption DEF TypeOK
    <2>3. \A q \in Run : removing'[q] = IF q = a THEN what ELSE removing[q]
        BY <2>1, <2>2 DEF Actor
    <2> QED BY <2>1, <2>2, <2>3, RecipeRunAssumption DEF TypeOK, CallIsAligned
<1>3. TypeOK'
    BY <1>1, <1>2 DEF TypeOK, call
<1>4. CallIsAligned'
    BY <1>1, <1>2 DEF CallIsAligned, call
<1>5. MutexIsHeld' /\ KeyLockIsHeld'
    BY <1>1 DEF MutexIsHeld, KeyLockIsHeld, call
<1>6. AcknowledgedIsKept' /\ AcknowledgedIsFindable' /\ ExecutesOnce'
    BY <1>1 DEF AcknowledgedIsKept, Whole, AcknowledgedIsFindable, ExecutesOnce, call
<1> QED BY <1>3, <1>4, <1>5, <1>6

\* What is deleted is a dead owner's mutex, or it is stolen.
LEMMA DeleteMutexIInv == ASSUME IInv, NEW a \in Actor, DeleteMutex(a) PROVE IInv'
<1> USE DEF IInv
<1>1. /\ removing' = [removing EXCEPT ![a] = None]
      /\ UNCHANGED <<input, index, record, acked, keyLock, pc, call, maint>>
    BY DEF DeleteMutex, cache
<1>2. \/ /\ mutex' = None
         /\ stolen' = IF Dead(mutex) THEN stolen ELSE stolen \union {"mutex"}
      \/ UNCHANGED <<mutex, stolen>>
    BY DEF DeleteMutex
<1>3. \A q \in Run : removing'[q] \in {removing[q], None}
    BY <1>1 DEF TypeOK, Actor
<1>4. TypeOK'
    <2>1. budget' \in Budget
        BY SpendTyped DEF TypeOK, Budget, DeleteMutex
    <2>2. removing' \in [Actor -> {None, "mutex", "key"}] /\ stolen' \subseteq Input \union {"mutex"}
        BY <1>1, <1>2 DEF TypeOK
    <2>3. \A q \in Run : removing'[q] = "key" => pc'[q] = "lock"
        BY <1>1, <1>3, RecipeRunAssumption DEF TypeOK
    <2> QED BY <1>1, <1>2, <2>1, <2>2, <2>3 DEF TypeOK, Budget, call
<1>5. stolen \subseteq stolen'
    BY <1>2
<1>6. MutexIsHeld'
    <2>1. CASE Dead(mutex)
        <3>1. /\ \A q \in Run : pc[q] # "dead" => mutex # q
              /\ maint.pc # "idle" => mutex # "maint"
            BY <2>1, DeadHoldsNothing
        <3> QED BY <1>1, <1>5, <3>1 DEF MutexIsHeld
    <2>2. CASE ~Dead(mutex)
        BY <1>1, <1>2, <2>2 DEF MutexIsHeld
    <2> QED BY <2>1, <2>2
<1>7. KeyLockIsHeld'
    BY <1>1, <1>5 DEF KeyLockIsHeld, call
<1>8. CallIsAligned'
    BY <1>1, <1>3 DEF CallIsAligned, call
<1>9. AcknowledgedIsKept' /\ AcknowledgedIsFindable' /\ ExecutesOnce'
    BY <1>1, <1>5 DEF AcknowledgedIsKept, Whole, AcknowledgedIsFindable, ExecutesOnce, call
<1> QED BY <1>4, <1>6, <1>7, <1>8, <1>9

LEMMA DeleteKeyLockIInv == ASSUME IInv, NEW r \in Run, DeleteKeyLock(r) PROVE IInv'
<1> DEFINE k == key[r]
<1>1. /\ removing' = [removing EXCEPT ![r] = None] /\ removing[r] = "key"
      /\ UNCHANGED <<input, index, record, acked, mutex, maint>>
    BY DEF DeleteKeyLock, cache
<1>2. /\ pc[r] = "lock" /\ k \in Input /\ ~held[r]
    BY <1>1 DEF IInv, TypeOK, CallIsAligned
<1>3. removing'[r] = None /\ \A q \in Run : q # r => removing'[q] = removing[q]
    BY <1>1 DEF IInv, TypeOK, Actor
<1>4. removing' \in [Actor -> {None, "mutex", "key"}]
    BY <1>1 DEF IInv, TypeOK
<1>5. CASE Spend("fault") /\ Ends(r, "done") /\ UNCHANGED <<keyLock, stolen, runDir>>
    <2>1. TypeOK'
        <3>1. budget' \in Budget
            BY <1>5, SpendTyped DEF IInv, TypeOK, Budget
        <3>2. \A q \in Run : removing'[q] = "key" => pc'[q] = "lock"
            <4>1. \A q \in Run : q # r => pc'[q] = pc[q]
                BY <1>5, EndsTyped DEF IInv
            <4> QED BY <1>3, <4>1, RecipeRunAssumption DEF IInv, TypeOK
        <3> QED BY <1>1, <1>4, <1>5, <3>1, <3>2, EndsTyped DEF IInv, TypeOK, Budget
    <2> QED BY <1>1, <1>3, <1>5, <2>1, EndsIInv
<1>6. CASE /\ keyLock' = [keyLock EXCEPT ![k] = None]
           /\ stolen' = IF Fresh(k) THEN stolen \union {k} ELSE stolen
           /\ UNCHANGED <<pc, call, budget>>
    <2>1. TypeOK'
        <3>1. keyLock' \in [Input -> Run \union {None, "gone"}]
            <4>1. keyLock \in [Input -> Run \union {None, "gone"}]
                BY DEF IInv, TypeOK
            <4> HIDE DEF k
            <4> QED BY <1>2, <1>6, <4>1
        <3>2. \A q \in Run : removing'[q] = "key" => pc'[q] = "lock"
            BY <1>3, <1>6, RecipeRunAssumption DEF IInv, TypeOK
        <3> QED BY <1>1, <1>2, <1>4, <1>6, <3>1, <3>2 DEF IInv, TypeOK, call
    <2>2. stolen \subseteq stolen' /\ ("mutex" \in stolen' => "mutex" \in stolen)
        BY <1>2, <1>6, RecipeRunAssumption
    <2>3. KeyLockIsHeld'
        <3>1. ASSUME NEW q \in Run, held[q], pc[q] # "dead", key[q] \notin stolen'
              PROVE  keyLock'[key[q]] = q
            <4>1. keyLock[key[q]] = q /\ key[q] \in Input
                BY <2>2, <3>1 DEF IInv, KeyLockIsHeld, CallIsAligned, TypeOK
            <4>2. key[q] # k
                <5>1. SUFFICES ASSUME key[q] = k PROVE FALSE
                    OBVIOUS
                <5>2. ~Fresh(k)
                    BY <1>6, <3>1, <5>1
                <5>3. Dead(q)
                    BY <4>1, <5>1, <5>2, RecipeRunAssumption DEF Fresh
                <5> QED BY <3>1, <5>3, DeadHoldsNothing
            <4> QED BY <1>6, <4>1, <4>2 DEF IInv, TypeOK
        <3> QED BY <1>6, <3>1 DEF KeyLockIsHeld, call
    <2>4. MutexIsHeld'
        BY <1>1, <1>6, <2>2 DEF IInv, MutexIsHeld
    <2>5. CallIsAligned'
        BY <1>3, <1>6 DEF IInv, CallIsAligned, call
    <2>6. AcknowledgedIsKept' /\ AcknowledgedIsFindable'
        BY <1>1, <1>6, <2>2 DEF IInv, AcknowledgedIsKept, Whole, AcknowledgedIsFindable, call
    <2>7. ExecutesOnce'
        BY <1>1, <1>6, <2>2 DEF IInv, ExecutesOnce, call
    <2> QED BY <2>1, <2>3, <2>4, <2>5, <2>6, <2>7 DEF IInv
<1> QED BY <1>5, <1>6 DEF DeleteKeyLock

-----------------------------------------------------------------------------
(* Maintenance and the environment *)

MaintShape == [pc : {"idle", "remove", "index"}, sel : SUBSET Input, idx : Seq(Input)]

LEMMA SelectIInv == ASSUME IInv, Select PROVE IInv'
<1> USE DEF IInv
<1>0. PICK s \in ReadIndex, sel \in SUBSET Input :
        index' = s /\ maint' = [pc |-> "remove", sel |-> sel, idx |-> s]
    BY DEF Select
<1>1. s \in Seq(Input) /\ (Unstolen => acked \subseteq Range(s)) /\ index' = s
    BY <1>0, ReadIndexIsSound
<1>2. /\ mutex' = "maint" /\ mutex = None
      /\ UNCHANGED <<input, record, keyLock, removing, stolen, pc, call, acked, budget>>
    BY DEF Select, recovery
<1>3. Unstolen => \A q \in Run : pc[q] \notin {"publish", "commitIndex"}
    BY <1>2, FreeProtectsNobody
<1>4. maint' \in MaintShape /\ maint'.pc = "remove" /\ maint'.idx = s
    BY <1>0, <1>1 DEF MaintShape
<1>5. TypeOK'
    BY <1>1, <1>2, <1>4 DEF TypeOK, call, MaintShape
<1>6. MutexIsHeld'
    BY <1>2, <1>3 DEF MutexIsHeld, Unstolen
<1>7. KeyLockIsHeld' /\ CallIsAligned'
    BY <1>2 DEF KeyLockIsHeld, CallIsAligned, call
<1>8. AcknowledgedIsKept' /\ AcknowledgedIsFindable'
    BY <1>1, <1>2, <1>3, <1>4 DEF AcknowledgedIsKept, AcknowledgedIsFindable, Whole, Unstolen
<1>9. ExecutesOnce'
    BY <1>2 DEF ExecutesOnce, call
<1> QED BY <1>5, <1>6, <1>7, <1>8, <1>9

LEMMA RemoveRecordsIInv == ASSUME IInv, RemoveRecords PROVE IInv'
<1> USE DEF IInv
<1>0. PICK gone \in SUBSET maint.sel :
        /\ gone # maint.sel => Spend("fault")
        /\ gone = maint.sel => UNCHANGED budget
        /\ record' = [k \in Input |-> IF k \in gone THEN None ELSE record[k]]
        /\ acked' = acked \ gone
        /\ maint' = [maint EXCEPT !.pc = "index", !.sel = gone]
    BY DEF RemoveRecords
<1>1. maint.pc = "remove" /\ UNCHANGED <<input, index, locks, pc, call>>
    BY DEF RemoveRecords
<1>2. /\ maint' \in MaintShape /\ maint'.pc = "index" /\ maint'.sel = gone
      /\ maint'.idx = maint.idx
    BY <1>0 DEF TypeOK, MaintShape
<1>3. TypeOK'
    <2>1. budget' \in Budget
        BY <1>0, SpendTyped DEF TypeOK, Budget
    <2>2. record' \in [Input -> Record \union {None, Damaged}] /\ acked' \subseteq Input
        BY <1>0 DEF TypeOK
    <2> QED BY <1>1, <1>2, <2>1, <2>2 DEF TypeOK, Budget, MaintShape, locks, recovery, call
<1>4. MutexIsHeld' /\ KeyLockIsHeld'
    BY <1>1, <1>2 DEF MutexIsHeld, KeyLockIsHeld, locks, recovery, call
<1>5. CallIsAligned' /\ ExecutesOnce'
    BY <1>0, <1>1 DEF CallIsAligned, ExecutesOnce, locks, recovery, call
<1>6. \A k \in acked' : k \in acked /\ record'[k] = record[k]
    BY <1>0 DEF TypeOK
<1>7. AcknowledgedIsKept'
    BY <1>0, <1>1, <1>2, <1>6 DEF AcknowledgedIsKept, Whole, locks, recovery, call
<1>8. AcknowledgedIsFindable'
    BY <1>1, <1>6 DEF AcknowledgedIsFindable, locks, recovery
<1> QED BY <1>3, <1>4, <1>5, <1>7, <1>8

LEMMA WriteIndexIInv == ASSUME IInv, WriteIndex PROVE IInv'
<1> USE DEF IInv
<1>1. /\ maint.pc = "index" /\ maint' = Idle
      /\ mutex' = IF mutex = "maint" THEN None ELSE mutex
      /\ UNCHANGED <<input, record, keyLock, removing, stolen, pc, call, acked>>
    BY DEF WriteIndex, recovery
<1>2. /\ maint.idx \in Seq(Input)
      /\ Unstolen => acked \subseteq Range(maint.idx) /\ acked \intersect maint.sel = {}
    BY <1>1 DEF TypeOK, AcknowledgedIsKept, Unstolen
<1>3. index' = index \/ (index' \in Seq(Input) /\ (Unstolen => acked \subseteq Range(index')))
    BY <1>2, WithoutIsIndex DEF WriteIndex
<1>4. Unstolen => \A q \in Run : pc[q] \notin {"publish", "commitIndex"}
    BY <1>1, RecipeRunAssumption DEF MutexIsHeld, Unstolen
<1>5. maint' \in MaintShape /\ maint'.pc = "idle"
    BY <1>1 DEF Idle, MaintShape
<1>6. TypeOK'
    <2>1. budget' \in Budget
        BY SpendTyped DEF TypeOK, Budget, WriteIndex
    <2> QED BY <1>1, <1>3, <1>5, <2>1 DEF TypeOK, Budget, MaintShape, call
<1>7. MutexIsHeld' /\ KeyLockIsHeld'
    BY <1>1, <1>4, <1>5 DEF MutexIsHeld, KeyLockIsHeld, call, Unstolen
<1>8. CallIsAligned' /\ ExecutesOnce'
    BY <1>1 DEF CallIsAligned, ExecutesOnce, call
<1>9. AcknowledgedIsKept' /\ AcknowledgedIsFindable'
    BY <1>1, <1>3, <1>4, <1>5 DEF AcknowledgedIsKept, AcknowledgedIsFindable, Whole, Unstolen
<1> QED BY <1>6, <1>7, <1>8, <1>9

LEMMA RebuildIndexIInv == ASSUME IInv, RebuildIndex PROVE IInv'
<1> USE DEF IInv
<1>1. /\ mutex = None /\ UNCHANGED <<mutex, keyLock, removing, stolen>>
      /\ UNCHANGED <<input, record, pc, call, maint, acked, budget>>
    BY DEF RebuildIndex, locks, recovery
<1>2. index' \in Seq(Input) /\ (Unstolen => acked \subseteq Range(index'))
    BY RebuiltIsIndex DEF RebuildIndex
<1>3. TypeOK'
    BY <1>1, <1>2 DEF TypeOK, call
<1>4. MutexIsHeld' /\ KeyLockIsHeld'
    BY <1>1 DEF MutexIsHeld, KeyLockIsHeld, call
<1>5. CallIsAligned' /\ ExecutesOnce'
    BY <1>1 DEF CallIsAligned, ExecutesOnce, call
<1>6. AcknowledgedIsKept' /\ AcknowledgedIsFindable'
    BY <1>1, <1>2 DEF AcknowledgedIsKept, AcknowledgedIsFindable, Whole, Unstolen, call
<1> QED BY <1>3, <1>4, <1>5, <1>6

LEMMA EditIInv == ASSUME IInv, Edit PROVE IInv'
<1> USE DEF IInv, Edit, cache, locks, recovery, call
<1>1. budget' \in Budget
    BY SpendTyped DEF TypeOK, Budget
<1>2. TypeOK'
    BY <1>1 DEF TypeOK, Budget
<1> QED
    BY <1>2 DEF MutexIsHeld, KeyLockIsHeld, CallIsAligned, AcknowledgedIsKept, Whole,
       AcknowledgedIsFindable, ExecutesOnce

LEMMA DamageIInv == ASSUME IInv, Damage PROVE IInv'
<1> USE DEF IInv
<1>1. budget' \in Budget
    BY SpendTyped DEF TypeOK, Budget, Damage
<1>2. UNCHANGED <<input, mutex, keyLock, removing, stolen, pc, call, maint>>
    BY DEF Damage, locks, recovery
<1>3. \/ index' = Damaged /\ UNCHANGED <<record, acked>>
      \/ \E k \in Input : /\ record' = [record EXCEPT ![k] = Damaged]
                          /\ acked' = acked \ {k} /\ UNCHANGED index
    BY DEF Damage
<1>4. TypeOK'
    <2>1. /\ record \in [Input -> Record \union {None, Damaged}] /\ acked \subseteq Input
          /\ index = Damaged \/ index \in Seq(Input)
        BY DEF TypeOK
    <2>2. /\ record' \in [Input -> Record \union {None, Damaged}] /\ acked' \subseteq Input
          /\ index' = Damaged \/ index' \in Seq(Input)
        <3> HIDE DEF IInv
        <3>1. CASE index' = Damaged /\ UNCHANGED <<record, acked>>
            BY <2>1, <3>1
        <3>2. CASE \E k \in Input : /\ record' = [record EXCEPT ![k] = Damaged]
                                    /\ acked' = acked \ {k} /\ UNCHANGED index
            BY <2>1, <3>2
        <3> QED BY <1>3, <3>1, <3>2
    <2> QED BY <1>1, <1>2, <2>2 DEF TypeOK, Budget, call
<1>5. \A k \in acked' : k \in acked /\ record'[k] = record[k]
    BY <1>3 DEF TypeOK
<1>6. MutexIsHeld' /\ KeyLockIsHeld' /\ CallIsAligned'
    BY <1>2 DEF MutexIsHeld, KeyLockIsHeld, CallIsAligned, call
<1>7. AcknowledgedIsKept'
    BY <1>2, <1>5 DEF AcknowledgedIsKept, Whole, call
<1>8. AcknowledgedIsFindable' /\ ExecutesOnce'
    BY <1>2, <1>3, <1>5 DEF AcknowledgedIsFindable, ExecutesOnce, call
<1> QED BY <1>4, <1>6, <1>7, <1>8

\* A session that dies leaves its locks, which are now anybody's to recover.
LEMMA CrashIInv == ASSUME IInv, NEW r \in Run, Crash(r) PROVE IInv'
<1>1. /\ Ends(r, "dead") /\ removing' = [removing EXCEPT ![r] = None]
      /\ UNCHANGED <<input, index, record, acked, mutex, keyLock, stolen, runDir, maint>>
    BY DEF Crash, cache
<1>2. removing'[r] = None /\ \A q \in Run : q # r => removing'[q] = removing[q]
    BY <1>1 DEF IInv, TypeOK, Actor
<1>3. TypeOK'
    <2>1. budget' \in Budget
        BY SpendTyped DEF IInv, TypeOK, Budget, Crash
    <2>2. removing' \in [Actor -> {None, "mutex", "key"}]
        BY <1>1 DEF IInv, TypeOK
    <2>3. \A q \in Run : removing'[q] = "key" => pc'[q] = "lock"
        BY <1>1, <1>2, EndsTyped, RecipeRunAssumption DEF IInv, TypeOK
    <2> QED BY <1>1, <2>1, <2>2, <2>3, EndsTyped DEF IInv, TypeOK, Budget
<1> QED BY <1>1, <1>2, <1>3, EndsIInv

LEMMA CrashMaintenanceIInv == ASSUME IInv, CrashMaintenance PROVE IInv'
<1> USE DEF IInv
<1>1. /\ maint' = Idle /\ removing' = [removing EXCEPT !["maint"] = None]
      /\ UNCHANGED <<input, index, record, acked, mutex, keyLock, stolen, pc, call>>
    BY DEF CrashMaintenance, cache
<1>2. maint' \in MaintShape /\ maint'.pc = "idle"
    BY <1>1 DEF Idle, MaintShape
<1>3. \A q \in Run : removing'[q] = removing[q]
    BY <1>1, RecipeRunAssumption DEF TypeOK, Actor
<1>4. TypeOK'
    <2>1. budget' \in Budget
        BY SpendTyped DEF TypeOK, Budget, CrashMaintenance
    <2>2. removing' \in [Actor -> {None, "mutex", "key"}]
        BY <1>1 DEF TypeOK
    <2> QED BY <1>1, <1>2, <1>3, <2>1, <2>2 DEF TypeOK, Budget, MaintShape, call
<1>5. MutexIsHeld' /\ KeyLockIsHeld'
    BY <1>1, <1>2 DEF MutexIsHeld, KeyLockIsHeld, call
<1>6. CallIsAligned'
    BY <1>1, <1>3 DEF CallIsAligned, call
<1>7. AcknowledgedIsKept' /\ AcknowledgedIsFindable' /\ ExecutesOnce'
    BY <1>1, <1>2 DEF AcknowledgedIsKept, Whole, AcknowledgedIsFindable, ExecutesOnce, call
<1> QED BY <1>4, <1>5, <1>6, <1>7

-----------------------------------------------------------------------------
(* Theorems *)

LEMMA NextIInv == ASSUME IInv, [Next]_vars PROVE IInv'
<1>1. CASE UNCHANGED vars
    BY <1>1 DEF vars, IInv, TypeOK, MutexIsHeld, KeyLockIsHeld, CallIsAligned, AcknowledgedIsKept,
       Whole, AcknowledgedIsFindable, ExecutesOnce
<1>2. ASSUME NEW r \in Run, RunStep(r) PROVE IInv'
    BY <1>2, BeginIInv, LookupIInv, LookupFailsIInv, TouchIInv, MaterializeIInv,
       AcquireLockIInv, ExecuteIInv, StoreLockIInv, StoreRecordIInv, StoreIndexIInv,
       StoreFailsIInv, CommitRunIInv, ReleaseLockIInv DEF RunStep
<1>3. ASSUME NEW r \in Run, Crash(r) \/ VerifyKeyLock(r) \/ DeleteKeyLock(r) PROVE IInv'
    BY <1>3, CrashIInv, VerifyIInv, DeleteKeyLockIInv
<1>4. ASSUME NEW a \in Actor, VerifyMutex(a) \/ DeleteMutex(a) PROVE IInv'
    BY <1>4, VerifyIInv, DeleteMutexIInv DEF Actor
<1>5. CASE \/ Select \/ RemoveRecords \/ WriteIndex \/ RebuildIndex \/ CrashMaintenance
           \/ Edit \/ Damage
    BY <1>5, SelectIInv, RemoveRecordsIInv, WriteIndexIInv, RebuildIndexIInv,
       CrashMaintenanceIInv, EditIInv, DamageIInv
<1> QED BY <1>1, <1>2, <1>3, <1>4, <1>5 DEF Next

\* The sessions, the maintenance commands and the cache keep their inductive invariant.
THEOREM CacheIsConsistent == Spec => []IInv
<1>1. Init => IInv
    BY InitIInv
<1>2. IInv /\ [Next]_vars => IInv'
    BY NextIInv
<1> QED BY <1>1, <1>2, PTL DEF Spec

\* writeRecord, touch, prune, clear and rebuild never lose an acknowledged result to one
\* another, to a session that died under the mutex or to a damaged index, for as long as
\* no recovery has deleted the index mutex after another one had.
THEOREM AcknowledgedStaysFindable == Spec => []AcknowledgedIsFindable
<1>1. IInv => AcknowledgedIsFindable
    BY DEF IInv
<1> QED BY <1>1, CacheIsConsistent, PTL

\* The second lookup of runRecipe, under the key's lock, makes an action execute once, for
\* as long as no recovery that came too late has deleted the key's lock or the mutex.
THEOREM ActionsExecuteOnce == Spec => []ExecutesOnce
<1>1. IInv => ExecutesOnce
    BY DEF IInv
<1> QED BY <1>1, CacheIsConsistent, PTL
=============================================================================
