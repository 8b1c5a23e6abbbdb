------------------------ MODULE TransactionStorage ------------------------
(***************************************************************************)
(* core/delegation-transaction-storage.ts: how the record of one           *)
(* delegation and its immutable generation reach the disk.  A call takes   *)
(* the lock file of the delegation, reads the record, applies a transition *)
(* of DelegationTransaction, renames a temporary file over the record and  *)
(* releases the lock.  Processes interleave at every file operation, may   *)
(* crash between two of them and may see an operation fail; a recovery     *)
(* persists while another session works, so calls of two processes overlap.*)
(*                                                                         *)
(* The lock does not always exclude: who finds it partial or its owner     *)
(* dead moves whatever is there by then.  The history variable stolen says *)
(* that a call which had verified its lock lost it that way.               *)
(*                                                                         *)
(* The review transition, which also writes the review artifacts, is not   *)
(* among the calls of this module.                                         *)
(***************************************************************************)
EXTENDS DelegationTransaction

CONSTANTS
    Proc,         \* processes that call the storage, one call at a time
    Token,        \* lock tokens
    Kinds,        \* task kinds that are prepared
    Stops,        \* texts a run is stopped with
    MaxRecovery,  \* DELEGATION_TRANSACTION_LOCK_RECOVERY_ATTEMPTS
    MaxCrash,     \* bound: crashes of the whole run
    Faults        \* whether a file operation may fail

ASSUME StorageAssumption ==
    /\ Kinds \subseteq {"implementation", "diagnosis"}
    /\ Stops \subseteq StopReason
    /\ MaxRecovery \in Nat /\ MaxCrash \in Nat
    /\ Faults \in BOOLEAN

VARIABLES
    stored,   \* v2/transaction.json
    gen,      \* v2/generations/000001: the revision and the facts committed in it
    lock,     \* the lock file: its token, and whether the owner is written
    moved,    \* moved[p]: the file p renamed to its release path
    pc,       \* pc[p]: the file operation p performs next
    tok,      \* tok[p]: the token p puts or has put in the lock
    mine,     \* mine[p]: tokens written by the running incarnation of p
    attempt,  \* attempt[p]: recoveries left to the acquisition, then releases left
    next,     \* next[p]: the record p is about to publish
    view,     \* view[p]: the last revision p read or was told of
    crashes,
    stolen    \* history: a call lost the lock it had verified, and went on

vars == <<stored, gen, lock, moved, pc, tok, mine, attempt, next, view, crashes, stolen>>

Lifecycle == INSTANCE TransactionLifecycle WITH tx <- stored

Generation == [revision : Nat, outcome : Outcome]

LockFile == [token : Token, whole : BOOLEAN]

\* Absence is no record and no file.
ASSUME RecordAssumption ==
    None \notin TransactionRecord /\ None \notin Generation /\ None \notin LockFile
    /\ None \notin Token

TypeOK ==
    /\ stored \in TransactionRecord \union {None}
    /\ gen \in Generation \union {None}
    /\ lock \in LockFile \union {None}
    /\ moved \in [Proc -> LockFile \union {None}]
    /\ pc \in [Proc -> {"idle", "create", "write", "readback", "inspect", "move", "read",
                        "stage", "commit", "publish", "release", "verify", "down"}]
    /\ tok \in [Proc -> Token \union {None}]
    /\ mine \in [Proc -> SUBSET Token]
    /\ attempt \in [Proc -> (0..MaxRecovery) \union {1, 2}]
    /\ next \in [Proc -> TransactionRecord \union {None}]
    /\ view \in [Proc -> Nat \union {None}]
    /\ crashes \in 0..MaxCrash
    /\ stolen \in BOOLEAN

Init ==
    /\ stored = None /\ gen = None /\ lock = None
    /\ moved = [p \in Proc |-> None]
    /\ pc = [p \in Proc |-> "idle"]
    /\ tok = [p \in Proc |-> None]
    /\ mine = [p \in Proc |-> {}]
    /\ attempt = [p \in Proc |-> 0]
    /\ next = [p \in Proc |-> None]
    /\ view = [p \in Proc |-> None]
    /\ crashes = 0
    /\ stolen = FALSE

\* The tokens some file still holds.
InUse == (IF lock = None THEN {} ELSE {lock.token})
         \union {moved[p].token : p \in {q \in Proc : moved[q] # None}}
         \union {tok[p] : p \in Proc}

\* lockOwnerIsLive: the incarnation that wrote the token still runs.
lockOwnerIsLive(t) == \E p \in Proc : t \in mine[p]

Goto(p, l) == pc' = [pc EXCEPT ![p] = l]

\* The call of p has read its own lock back and relies on it.
Relies(p) == pc[p] \in {"read", "stage", "commit", "publish"}

\* A rename by p takes the lock from its path, or overwrites it.
Displaces(p) ==
    stolen' = (stolen \/ \E q \in Proc \ {p} : Relies(q) /\ lock # None /\ lock.token = tok[q])

\* The call returns; its locals are gone.
Return(p) ==
    /\ Goto(p, "idle")
    /\ tok' = [tok EXCEPT ![p] = None]
    /\ moved' = [moved EXCEPT ![p] = None]
    /\ attempt' = [attempt EXCEPT ![p] = 0]
    /\ next' = [next EXCEPT ![p] = None]

\* releaseOwnedLockFile is tried n times.
BeginRelease(p, n) == Goto(p, "release") /\ attempt' = [attempt EXCEPT ![p] = n]

-----------------------------------------------------------------------------
(* acquireLock *)

\* withDelegationLock; the caller has read the record some time before.
Call(p) ==
    /\ pc[p] = "idle"
    /\ Goto(p, "create")
    /\ attempt' = [attempt EXCEPT ![p] = MaxRecovery]
    /\ UNCHANGED <<stored, gen, lock, moved, tok, mine, next, view, crashes, stolen>>

\* The exclusive open of writeNodeFileDurably.
CreateLock(p) ==
    /\ pc[p] = "create"
    /\ \/ /\ lock = None
          /\ \E t \in Token \ InUse :
                /\ tok' = [tok EXCEPT ![p] = t]
                /\ mine' = [q \in Proc |-> (mine[q] \intersect InUse)
                                          \union (IF q = p THEN {t} ELSE {})]
                /\ lock' = [token |-> t, whole |-> FALSE]
          /\ Goto(p, "write")
       \/ lock # None /\ Goto(p, "inspect") /\ UNCHANGED <<lock, tok, mine>>
    /\ UNCHANGED <<stored, gen, moved, attempt, next, view, crashes, stolen>>

\* The write reaches the created file, wherever it has been renamed to.
WriteLock(p) ==
    /\ pc[p] = "write"
    /\ LET Written(f) == IF f # None /\ f.token = tok[p] THEN [f EXCEPT !.whole = TRUE] ELSE f
       IN \/ /\ lock' = Written(lock)
             /\ moved' = [q \in Proc |-> Written(moved[q])]
             /\ Goto(p, "readback")
             /\ UNCHANGED attempt
          \/ Faults /\ BeginRelease(p, 1) /\ UNCHANGED <<lock, moved>>
    /\ UNCHANGED <<stored, gen, tok, mine, next, view, crashes, stolen>>

\* A foreign, partial or missing file makes the acquisition fail.
ReadbackLock(p) ==
    /\ pc[p] = "readback"
    /\ \/ /\ lock = [token |-> tok[p], whole |-> TRUE]
          /\ Goto(p, "read")
          /\ UNCHANGED attempt
       \/ (lock # [token |-> tok[p], whole |-> TRUE] \/ Faults) /\ BeginRelease(p, 1)
    /\ UNCHANGED <<stored, gen, lock, moved, tok, mine, next, view, crashes, stolen>>

\* A lock that cannot be read, or does not parse, has no live owner.
InspectLock(p) ==
    /\ pc[p] = "inspect"
    /\ IF (lock # None /\ lock.whole /\ lockOwnerIsLive(lock.token)) \/ attempt[p] = 0
       THEN Return(p)
       ELSE Goto(p, "move") /\ UNCHANGED <<moved, tok, attempt, next>>
    /\ UNCHANGED <<stored, gen, lock, mine, view, crashes, stolen>>

\* The file that is there now is moved aside, whatever was inspected.
MoveLock(p) ==
    /\ pc[p] = "move"
    /\ \/ /\ lock # None
          /\ lock' = None /\ Displaces(p)
          /\ Goto(p, "create")
          /\ attempt' = [attempt EXCEPT ![p] = @ - 1]
          /\ UNCHANGED <<moved, tok, next>>
       \/ (lock = None \/ Faults) /\ Return(p) /\ UNCHANGED <<lock, stolen>>
    /\ UNCHANGED <<stored, gen, mine, view, crashes>>

-----------------------------------------------------------------------------
(* The operation under the lock *)

\* What the persist functions make of the stored record.
Results ==
    IF stored = None
    THEN UNION {createPreparedDelegationTransaction(k, FALSE) : k \in Kinds}
    ELSE startDelegationTransaction(stored)
         \union (IF stored.revision < MaxResume THEN resumeDelegationTransaction(stored) ELSE {})
         \union (UNION {beginDelegationCommit(stored, o) : o \in Outcomes})
         \union abortDelegationTransaction(stored)
         \union (UNION {requireDelegationRecovery(stored, r) : r \in Stops})

\* validateCas demands that the record still has the revision p expects.
Transitions(p) == IF stored # None /\ stored.revision # view[p] THEN {} ELSE Results

\* Mutant: the record is serialized without being parsed again.
MutantDecide(p) ==
    /\ pc[p] = "read"
    /\ \/ /\ \E s \in Transitions(p) : next' = [next EXCEPT ![p] = s]
          /\ Goto(p, "publish")
          /\ UNCHANGED attempt
       \/ BeginRelease(p, 2) /\ UNCHANGED next
    /\ UNCHANGED <<stored, gen, lock, moved, tok, mine, view, crashes, stolen>>

\* readStateAt and the transition: a result, the start of a generation commit,
\* or a refusal (in every state some of the operations are refused).
Decide(p) ==
    /\ pc[p] = "read"
    /\ \/ /\ \E s \in Transitions(p) :
                validStateInvariants(s) /\ next' = [next EXCEPT ![p] = s]
          /\ Goto(p, "publish")
          /\ UNCHANGED attempt
       \/ /\ stored # None /\ stored.status = "COMMITTING" /\ stored.revision = view[p]
          /\ next' = [next EXCEPT ![p] = stored]
          /\ Goto(p, "stage")
          /\ UNCHANGED attempt
       \/ BeginRelease(p, 2) /\ UNCHANGED next
    /\ UNCHANGED <<stored, gen, lock, moved, tok, mine, view, crashes, stolen>>

\* commitDelegationGeneration: the staged directory is complete and verified,
\* and the final one is looked for.
StageGeneration(p) ==
    /\ pc[p] = "stage"
    /\ \/ gen = None /\ Goto(p, "commit") /\ UNCHANGED attempt
       \/ (gen # None \/ Faults) /\ BeginRelease(p, 2)
    /\ UNCHANGED <<stored, gen, lock, moved, tok, mine, next, view, crashes, stolen>>

\* Mutant: the record is published before its generation directory is renamed.
MutantCommitGeneration(p) ==
    /\ pc[p] = "commit"
    /\ \/ /\ stored' \in publishDelegationCommit(next[p], next[p].revision)
          /\ gen' \in {gen, [revision |-> next[p].revision, outcome |-> next[p].outcome]}
          /\ BeginRelease(p, 2)
       \/ (gen # None \/ Faults) /\ BeginRelease(p, 2) /\ UNCHANGED <<stored, gen>>
    /\ UNCHANGED <<lock, moved, tok, mine, next, view, crashes, stolen>>

\* Renaming a directory over one that has files fails.
CommitGeneration(p) ==
    /\ pc[p] = "commit"
    /\ \/ /\ gen = None
          /\ gen' = [revision |-> next[p].revision, outcome |-> next[p].outcome]
          /\ next' \in {[next EXCEPT ![p] = s] :
                            s \in publishDelegationCommit(next[p], next[p].revision)}
          /\ Goto(p, "publish")
          /\ UNCHANGED attempt
       \/ (gen # None \/ Faults) /\ BeginRelease(p, 2) /\ UNCHANGED <<gen, next>>
    /\ UNCHANGED <<stored, lock, moved, tok, mine, view, crashes, stolen>>

\* Mutant: the caller is told of the record before the rename.
MutantPublishState(p) ==
    /\ pc[p] = "publish"
    /\ view' = [view EXCEPT ![p] = next[p].revision]
    /\ stored' = next[p] \/ (Faults /\ UNCHANGED stored)
    /\ BeginRelease(p, 2)
    /\ UNCHANGED <<gen, lock, moved, tok, mine, next, crashes, stolen>>

\* publishState: one rename.  A failure may come before it, or after it from
\* the synchronisation of the directory; the caller learns of neither.
PublishState(p) ==
    /\ pc[p] = "publish"
    /\ \/ stored' = next[p] /\ view' = [view EXCEPT ![p] = next[p].revision]
       \/ Faults /\ stored' \in {stored, next[p]} /\ UNCHANGED view
    /\ BeginRelease(p, 2)
    /\ UNCHANGED <<gen, lock, moved, tok, mine, next, crashes, stolen>>

-----------------------------------------------------------------------------
(* releaseOwnedLockFile: move aside, look, remove or move back *)

ReleaseLock(p) ==
    /\ pc[p] = "release"
    /\ \/ /\ lock # None
          /\ moved' = [moved EXCEPT ![p] = lock]
          /\ lock' = None /\ Displaces(p)
          /\ Goto(p, "verify")
          /\ UNCHANGED <<tok, attempt, next>>
       \/ /\ lock = None \/ Faults
          /\ IF attempt[p] > 1 THEN BeginRelease(p, attempt[p] - 1) /\ UNCHANGED <<moved, tok, next>>
                               ELSE Return(p)
          /\ UNCHANGED <<lock, stolen>>
    /\ UNCHANGED <<stored, gen, mine, view, crashes>>

\* A foreign or unreadable file is renamed back, over whatever is there now.
VerifyRelease(p) ==
    /\ pc[p] = "verify"
    /\ \/ /\ moved[p] = [token |-> tok[p], whole |-> TRUE]
          /\ Return(p)
          /\ UNCHANGED <<lock, stolen>>
       \/ /\ moved[p] # [token |-> tok[p], whole |-> TRUE]
          /\ lock' = moved[p] /\ Displaces(p)
          /\ IF attempt[p] > 1
             THEN BeginRelease(p, attempt[p] - 1) /\ moved' = [moved EXCEPT ![p] = None]
                  /\ UNCHANGED <<tok, next>>
             ELSE Return(p)
    /\ UNCHANGED <<stored, gen, mine, view, crashes>>

-----------------------------------------------------------------------------
(* Callers, crashes and restarts *)

\* readDelegationTransactionV2.
Look(p) ==
    /\ pc[p] = "idle" /\ stored # None /\ view[p] # stored.revision
    /\ view' = [view EXCEPT ![p] = stored.revision]
    /\ UNCHANGED <<stored, gen, lock, moved, pc, tok, mine, attempt, next, crashes, stolen>>

Crash(p) ==
    /\ pc[p] # "down" /\ crashes < MaxCrash
    /\ crashes' = crashes + 1
    /\ Goto(p, "down")
    /\ tok' = [tok EXCEPT ![p] = None]
    /\ mine' = [mine EXCEPT ![p] = {}]
    /\ moved' = [moved EXCEPT ![p] = None]
    /\ attempt' = [attempt EXCEPT ![p] = 0]
    /\ next' = [next EXCEPT ![p] = None]
    /\ view' = [view EXCEPT ![p] = None]
    /\ UNCHANGED <<stored, gen, lock, stolen>>

Restart(p) ==
    /\ pc[p] = "down"
    /\ Goto(p, "idle")
    /\ UNCHANGED <<stored, gen, lock, moved, tok, mine, attempt, next, view, crashes, stolen>>

Step(p) ==
    \/ CreateLock(p) \/ WriteLock(p) \/ ReadbackLock(p) \/ InspectLock(p) \/ MoveLock(p)
    \/ Decide(p) \/ StageGeneration(p) \/ CommitGeneration(p) \/ PublishState(p)
    \/ ReleaseLock(p) \/ VerifyRelease(p)

Next == \E p \in Proc : Step(p) \/ Call(p) \/ Look(p) \/ Crash(p) \/ Restart(p)

Spec == Init /\ [][Next]_vars

-----------------------------------------------------------------------------
(* Properties *)

\* As long as no call lost the lock it relied on, what happens to the stored record is
\* that of TransactionLifecycle: calls of two processes overlap, crash, see operations fail
\* and recover each other's locks, and each persist still is one legal transition of the
\* record that was on disk.
ImplementsLifecycle ==
    Lifecycle!LifecycleInit /\ [][Lifecycle!LifecycleNext \/ stolen]_stored

\* A record that names a committed generation has that generation on disk, with
\* the facts it was judged by, whatever commit was cut short before it and
\* whoever lost its lock.
ProofIsOnDisk ==
    stored # None /\ stored.proof # None =>
        gen # None /\ gen.revision = stored.proof /\ gen.outcome = stored.outcome

\* A revision a caller was told of is lost only to a call whose lock was stolen:
\* otherwise the record never goes back behind what any caller has seen.
AcknowledgedIsDurable ==
    ~stolen => \A p \in Proc : view[p] # None => stored # None /\ stored.revision >= view[p]

-----------------------------------------------------------------------------
(* The inductive invariant *)

\* No two calls have put the same token in a lock.
TokensDiffer == \A p, q \in Proc : p # q /\ tok[p] # None => tok[p] # tok[q]

\* Who has created a lock knows its token; who relies on one has it, unless it was stolen.
LockIsHeld ==
    \A p \in Proc :
        /\ pc[p] \in {"write", "readback"} \/ Relies(p) => tok[p] # None
        /\ Relies(p) /\ ~stolen => lock # None /\ lock.token = tok[p]

\* The stored record parses.
StoredParses == stored # None => validStateInvariants(stored)

\* What p is about to publish follows, by one transition, from what is stored now.
Follows(p) ==
    \/ next[p] \in Results
    \/ stored # None /\ next[p] \in publishDelegationCommit(stored, stored.revision)

\* The generation that a record names is on disk.
HasProof(s) == s.proof # None => gen # None /\ gen.revision = s.proof /\ gen.outcome = s.outcome

\* What a call is about to publish parses and has its generation, stolen lock or not; and
\* what it has read or prepared is not stale, unless its lock was stolen.
PendingIsSound ==
    \A p \in Proc :
        /\ pc[p] \in {"stage", "commit", "publish"} =>
               next[p] # None /\ validStateInvariants(next[p]) /\ HasProof(next[p])
        /\ pc[p] \in {"stage", "commit"} => next[p].status = "COMMITTING"
        /\ ~stolen /\ pc[p] \in {"stage", "commit"} => next[p] = stored
        /\ ~stolen /\ pc[p] = "publish" => Follows(p)

\* Only an acquisition with recoveries left moves a lock aside.
RecoveriesLeft == \A p \in Proc : pc[p] = "move" => attempt[p] > 0

IInv ==
    /\ TypeOK /\ RecoveriesLeft /\ TokensDiffer /\ LockIsHeld
    /\ StoredParses /\ PendingIsSound
    /\ ProofIsOnDisk /\ AcknowledgedIsDurable

=============================================================================
