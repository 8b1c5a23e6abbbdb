----------------------------- MODULE StartLock -----------------------------
(***************************************************************************)
(* The checkout writer lock of core/delegation-start-lock.ts: one fixed    *)
(* file, published by hard link, recovered by rename, released by rename.  *)
(*                                                                         *)
(* Every process runs acquire and release as sequences of file-system      *)
(* calls; each action below is one such call together with the private     *)
(* steps around it.  A candidate file (<lock>.candidate.<token>) is        *)
(* written, read and unlinked by its creator only, so it is represented    *)
(* by the creator's variable "mine" and not by a file.  Files named        *)
(* <lock>.recovered.<token> and <lock>.release.<token> outlive a failed    *)
(* call and a crash, and are kept.                                         *)
(*                                                                         *)
(* Tokens are 128 random bits.  The model takes any token that occurs      *)
(* nowhere in the state, so OwnerToken bounds how many records coexist.    *)
(*                                                                         *)
(* The names differ from those of CheckoutOperation, the registry above    *)
(* this lock, so that CheckoutLaneProofs can extend both.                  *)
(***************************************************************************)
EXTENDS Integers

CONSTANTS
    Proc,         \* processes (pids) that share the checkout
    OwnerToken,   \* owner and recovery tokens
    Absent,       \* "the file does not exist", "no value"
    MaxRecovery,  \* PROJECT_DELEGATION_START_LOCK_RECOVERY_ATTEMPTS_V1
    MaxInc,       \* bound on the incarnations of one pid
    IoFaults      \* whether file-system calls may fail

ASSUME StartLockAssumption ==
    /\ MaxRecovery \in Nat
    /\ MaxInc \in Nat \ {0}
    /\ IoFaults \in BOOLEAN
    /\ Absent \notin [token : OwnerToken, process : Proc, incarnation : Nat]

VARIABLES
    path,       \* the fixed path: Absent or an owner record
    recovered,  \* recovered[t]: the file <lock>.recovered.t
    released,   \* released[t]: the file <lock>.release.t
    up,         \* up[p]: pid p is running
    inc,        \* inc[p]: its current (or last) incarnation
    at,         \* at[p]: where p is in acquire / release
    attempt,    \* attempt[p]: the loop counter of acquire
    mine,       \* mine[p]: the owner record p publishes, or its lease
    observed,   \* observed[p]: the owner bytes p read last
    aside       \* aside[p]: the token naming the file p renamed to

lockVars == <<path, recovered, released, up, inc, at, attempt, mine, observed, aside>>
files == <<path, recovered, released>>
identity == <<up, inc>>

\* (boot_id, process_start_ticks) identify an incarnation of a pid.
Owner == [token : OwnerToken, process : Proc, incarnation : Nat]
File == Owner \union {Absent}

LockPC == {"idle", "try", "readback", "inspect", "judge", "rename", "verify",
           "held", "settled", "relread", "relrename", "relverify"}

\* Mutant: a pid alone identifies the owner.
MutantIsLive(o) == up[o.process]

\* inspectOwnerIdentity: the incarnation that wrote the record still runs.
IsLive(o) == up[o.process] /\ inc[o.process] = o.incarnation

\* Tokens that some file or some process still mentions.
TokensOf(S) == {o.token : o \in S \ {Absent}}
InUse ==
    TokensOf({path} \union {recovered[t] : t \in OwnerToken}
             \union {released[t] : t \in OwnerToken}
             \union {mine[p] : p \in Proc} \union {observed[p] : p \in Proc})
    \union {t \in OwnerToken : recovered[t] # Absent \/ released[t] # Absent}
FreshToken == OwnerToken \ InUse

LockTypeOK ==
    /\ path \in File
    /\ recovered \in [OwnerToken -> File]
    /\ released \in [OwnerToken -> File]
    /\ up \in [Proc -> BOOLEAN]
    /\ inc \in [Proc -> Nat]
    /\ at \in [Proc -> LockPC]
    /\ attempt \in [Proc -> 0..MaxRecovery]
    /\ mine \in [Proc -> File]
    /\ observed \in [Proc -> File]
    /\ aside \in [Proc -> OwnerToken \union {Absent}]

(***************************************************************************)
(* A checkout starts with no lock, or with the lock of a process that      *)
(* died before this run of the system (incarnation 0).                     *)
(***************************************************************************)
LockInit ==
    /\ path \in {Absent} \union [token : OwnerToken, process : Proc, incarnation : {0}]
    /\ recovered = [t \in OwnerToken |-> Absent]
    /\ released = [t \in OwnerToken |-> Absent]
    /\ up = [p \in Proc |-> TRUE]
    /\ inc = [p \in Proc |-> 1]
    /\ at = [p \in Proc |-> "idle"]
    /\ attempt = [p \in Proc |-> 0]
    /\ mine = [p \in Proc |-> Absent]
    /\ observed = [p \in Proc |-> Absent]
    /\ aside = [p \in Proc |-> Absent]

MoveTo(p, l) == at' = [at EXCEPT ![p] = l]

\* The call returns: its local variables are gone.
LeaveCall(p) ==
    /\ MoveTo(p, "idle")
    /\ mine' = [mine EXCEPT ![p] = Absent]
    /\ observed' = [observed EXCEPT ![p] = Absent]
    /\ attempt' = [attempt EXCEPT ![p] = 0]
    /\ aside' = [aside EXCEPT ![p] = Absent]

\* Mutant: the loop runs once more than the recovery bound allows.
MutantAgain(p) ==
    IF attempt[p] <= MaxRecovery
    THEN /\ MoveTo(p, "try")
         /\ attempt' = [attempt EXCEPT ![p] = @ + 1]
         /\ mine' = [mine EXCEPT ![p] = Absent]
         /\ observed' = [observed EXCEPT ![p] = Absent]
         /\ aside' = [aside EXCEPT ![p] = Absent]
    ELSE LeaveCall(p)

\* "continue": the next iteration of the acquire loop, or "exhausted".
Again(p) ==
    IF attempt[p] < MaxRecovery
    THEN /\ MoveTo(p, "try")
         /\ attempt' = [attempt EXCEPT ![p] = @ + 1]
         /\ mine' = [mine EXCEPT ![p] = Absent]
         /\ observed' = [observed EXCEPT ![p] = Absent]
         /\ aside' = [aside EXCEPT ![p] = Absent]
    ELSE LeaveCall(p)

-----------------------------------------------------------------------------
(* acquireProjectDelegationStartLockV1 *)

BeginAcquire(p) ==
    /\ up[p]
    /\ at[p] = "idle"
    /\ MoveTo(p, "try")
    /\ UNCHANGED <<files, identity, attempt, mine, observed, aside>>

\* A complete candidate is written beside the lock and hard-linked to it.
TryLink(p) ==
    /\ at[p] = "try"
    /\ \/ /\ path = Absent
          /\ \E t \in FreshToken :
               path' = [token |-> t, process |-> p, incarnation |-> inc[p]]
          /\ mine' = [mine EXCEPT ![p] = path']
          /\ MoveTo(p, "readback")
       \/ /\ path # Absent                                       \* EEXIST
          /\ MoveTo(p, "inspect")
          /\ UNCHANGED <<path, mine>>
    /\ UNCHANGED <<recovered, released, identity, attempt, observed, aside>>

\* The candidate cannot be written, read back or linked.
CandidateFault(p) ==
    /\ IoFaults
    /\ at[p] = "try"
    /\ LeaveCall(p)
    /\ UNCHANGED <<files, identity>>

\* The lease is returned only after the fixed path reads back as written;
\* otherwise the provisional lease is released and the call fails.
Readback(p) ==
    /\ at[p] = "readback"
    /\ \/ path = mine[p] /\ MoveTo(p, "held")
       \/ (path # mine[p] \/ IoFaults) /\ MoveTo(p, "relread")
    /\ UNCHANGED <<files, identity, attempt, mine, observed, aside>>

\* inspectContention: read the fixed owner.
Inspect(p) ==
    /\ at[p] = "inspect"
    /\ \/ path = Absent /\ Again(p)
       \/ /\ path # Absent
          /\ observed' = [observed EXCEPT ![p] = path]
          /\ MoveTo(p, "judge")
          /\ UNCHANGED <<attempt, mine, aside>>
       \/ LeaveCall(p)          \* unreadable, or changed while it was read
    /\ UNCHANGED <<files, identity>>

\* inspectOwnerIdentity on the bytes read before: live or unproven owners
\* conflict, a dead owner is recovered while attempts are left.
Judge(p) ==
    /\ at[p] = "judge"
    /\ \/ /\ ~IsLive(observed[p])
          /\ attempt[p] < MaxRecovery
          /\ MoveTo(p, "rename")
          /\ UNCHANGED <<attempt, mine, observed, aside>>
       \/ /\ IsLive(observed[p]) \/ attempt[p] >= MaxRecovery \/ IoFaults
          /\ LeaveCall(p)
    /\ UNCHANGED <<files, identity>>

\* recoverObservedOwner: move whatever the fixed path holds NOW aside.
RecoverRename(p) ==
    /\ at[p] = "rename"
    /\ \/ /\ path = Absent
          /\ Again(p)
          /\ UNCHANGED files
       \/ /\ path # Absent
          /\ \E t \in FreshToken :
               /\ recovered' = [recovered EXCEPT ![t] = path]
               /\ path' = Absent
               /\ \/ /\ MoveTo(p, "verify")
                     /\ aside' = [aside EXCEPT ![p] = t]
                     /\ UNCHANGED <<attempt, mine, observed>>
                  \/ IoFaults /\ LeaveCall(p)     \* syncDirectory failed
          /\ UNCHANGED released
       \/ IoFaults /\ LeaveCall(p) /\ UNCHANGED files
    /\ UNCHANGED identity

\* link(file, lock): restores the record unless the path is taken again.
\* Its failure is swallowed.
LinkBack(o) == path' \in (IF path = Absent THEN {o} ELSE {path})
                         \union (IF IoFaults THEN {path} ELSE {})

\* Mutant: the renamed file is unlinked without comparing its bytes.
MutantRecoverVerify(p) ==
    /\ at[p] = "verify"
    /\ recovered' = [recovered EXCEPT ![aside[p]] = Absent]
    /\ Again(p)
    /\ UNCHANGED <<path, released, identity>>

\* The renamed file must hold exactly the bytes that were judged dead.
RecoverVerify(p) ==
    /\ at[p] = "verify"
    /\ \/ /\ recovered[aside[p]] = observed[p]
          /\ recovered' = [recovered EXCEPT ![aside[p]] = Absent]
          /\ Again(p)
          /\ UNCHANGED path
       \/ /\ recovered[aside[p]] # observed[p] \/ IoFaults
          /\ LinkBack(recovered[aside[p]])
          /\ LeaveCall(p)
          /\ UNCHANGED recovered
       \/ IoFaults /\ LeaveCall(p) /\ UNCHANGED <<path, recovered>>  \* unlink failed
    /\ UNCHANGED <<released, identity>>

-----------------------------------------------------------------------------
(* releaseProjectDelegationStartLockV1.  After a release that reports a    *)
(* conflict or a storage failure the operation is over.  Its caller either *)
(* keeps the lease to call release again ("settled") or drops it           *)
(* (withProjectDelegationStartLockV1, and acquire's provisional lease).    *)

ReleaseStart(p) ==
    /\ at[p] \in {"held", "settled"}
    /\ MoveTo(p, "relread")
    /\ UNCHANGED <<files, identity, attempt, mine, observed, aside>>

Unreleased(p) ==
    \/ LeaveCall(p)
    \/ /\ MoveTo(p, "settled")
       /\ observed' = [observed EXCEPT ![p] = Absent]
       /\ UNCHANGED <<attempt, mine, aside>>

\* An absent path is an idempotent success; a foreign owner is a conflict.
ReleaseRead(p) ==
    /\ at[p] = "relread"
    /\ \/ path = Absent /\ LeaveCall(p)
       \/ /\ path = mine[p]
          /\ released[mine[p].token] = Absent
          /\ observed' = [observed EXCEPT ![p] = path]
          /\ MoveTo(p, "relrename")
          /\ UNCHANGED <<attempt, mine, aside>>
       \/ Unreleased(p)      \* a foreign owner, a release file left by an earlier
                              \* call, or a file that changed while it was read
    /\ UNCHANGED <<files, identity>>

ReleaseRename(p) ==
    /\ at[p] = "relrename"
    /\ \/ path = Absent /\ LeaveCall(p) /\ UNCHANGED files
       \/ /\ path # Absent
          /\ released' = [released EXCEPT ![mine[p].token] = path]
          /\ path' = Absent
          /\ \/ /\ MoveTo(p, "relverify")
                /\ UNCHANGED <<attempt, mine, observed, aside>>
             \/ IoFaults /\ Unreleased(p)              \* syncDirectory failed
          /\ UNCHANGED recovered
       \/ IoFaults /\ Unreleased(p) /\ UNCHANGED files
    /\ UNCHANGED identity

ReleaseVerify(p) ==
    /\ at[p] = "relverify"
    /\ \/ /\ released[mine[p].token] = observed[p]
          /\ released' = [released EXCEPT ![mine[p].token] = Absent]
          /\ LeaveCall(p)
          /\ UNCHANGED path
       \/ /\ released[mine[p].token] # observed[p] \/ IoFaults
          /\ LinkBack(released[mine[p].token])
          /\ Unreleased(p)
          /\ UNCHANGED released
       \/ IoFaults /\ Unreleased(p) /\ UNCHANGED <<path, released>>  \* unlink failed
    /\ UNCHANGED <<recovered, identity>>

-----------------------------------------------------------------------------
\* A process may die between any two calls; files stay as they are.
Crash(p) ==
    /\ up[p]
    /\ up' = [up EXCEPT ![p] = FALSE]
    /\ LeaveCall(p)
    /\ UNCHANGED <<files, inc>>

\* The pid is reused by a new incarnation (another start tick or boot id).
Restart(p) ==
    /\ ~up[p]
    /\ inc[p] < MaxInc
    /\ up' = [up EXCEPT ![p] = TRUE]
    /\ inc' = [inc EXCEPT ![p] = @ + 1]
    /\ UNCHANGED <<files, at, attempt, mine, observed, aside>>

LockNext ==
    \E p \in Proc :
        \/ BeginAcquire(p) \/ TryLink(p) \/ CandidateFault(p) \/ Readback(p)
        \/ Inspect(p) \/ Judge(p) \/ RecoverRename(p) \/ RecoverVerify(p)
        \/ ReleaseStart(p) \/ ReleaseRead(p) \/ ReleaseRename(p) \/ ReleaseVerify(p)
        \/ Crash(p) \/ Restart(p)

LockSpec == LockInit /\ [][LockNext]_lockVars
-----------------------------------------------------------------------------
(* Properties *)

\* p runs an operation under a lease that acquire returned.
Holds(p) == up[p] /\ at[p] = "held"

\* The record is on disk under one of the names the protocol uses.
OnDisk(o) == path = o \/ \E t \in OwnerToken : recovered[t] = o \/ released[t] = o

\* "Cross-process single-writer serialization for one project delegation":
\* no two running processes hold the checkout lease.
MutualExclusion == \A p, q \in Proc : Holds(p) /\ Holds(q) => p = q

\* The owner record of a lease that a running process holds is never destroyed,
\* only moved: recovery unlinks exactly the bytes it judged dead, and release
\* exactly the bytes it read as its own.
LiveLeaseOnDisk == \A p \in Proc : Holds(p) => OnDisk(mine[p])

\* Two leases are held at once only while the record of one of them lies in a
\* file that a recovery or a release renamed aside: link() itself never admits
\* a second owner.
DoubleLeaseIsDisplaced ==
    \A p, q \in Proc :
        Holds(p) /\ Holds(q) /\ p # q =>
            \E r \in {p, q}, t \in OwnerToken :
                mine[r] \in {recovered[t], released[t]}

\* A verdict "dead" stays true until it is acted on, however long the process
\* waits in between: what recovery has read and judged is never live again.
DeadVerdictIsFinal ==
    \A p \in Proc : at[p] \in {"rename", "verify"} => ~IsLive(observed[p])


(***************************************************************************)
(* The inductive invariant behind the properties.                          *)
(***************************************************************************)

\* p has published mine[p] and has not finished releasing it.
Leased(p) ==
    at[p] \in {"readback", "held", "settled", "relread", "relrename", "relverify"}

\* No record names an incarnation that its process has not reached yet.
Past(o) == o # Absent => o.incarnation <= inc[o.process]
RecordsArePast ==
    /\ Past(path)
    /\ \A t \in OwnerToken : Past(recovered[t]) /\ Past(released[t])
    /\ \A p \in Proc : Past(mine[p]) /\ Past(observed[p])

\* A call runs in a live process, and its lease names that process.
LeaseIsOwn ==
    \A p \in Proc :
        /\ at[p] # "idle" => up[p]
        /\ Leased(p) => /\ mine[p] # Absent
                        /\ mine[p].process = p
                        /\ mine[p].incarnation = inc[p]

TokensAreUnique ==
    \A p, q \in Proc :
        p # q /\ mine[p] # Absent /\ mine[q] # Absent => mine[p].token # mine[q].token

\* What a recovery carries from one step to the next.
RecoveryState ==
    \A p \in Proc :
        /\ at[p] \in {"judge", "rename", "verify"} => observed[p] # Absent
        /\ at[p] = "verify" => aside[p] \in OwnerToken

\* What a release carries from one step to the next.
ReleaseState ==
    \A p \in Proc :
        /\ at[p] \in {"relrename", "relverify"} => observed[p] = mine[p]
        /\ at[p] = "relrename" => released[mine[p].token] = Absent

\* From publication to the first step of release the record is on disk.
PublishedIsOnDisk ==
    \A p \in Proc : at[p] \in {"readback", "held"} => OnDisk(mine[p])

LockIInv ==
    /\ LockTypeOK
    /\ RecordsArePast
    /\ LeaseIsOwn
    /\ TokensAreUnique
    /\ RecoveryState
    /\ DeadVerdictIsFinal
    /\ ReleaseState
    /\ PublishedIsOnDisk

=============================================================================
