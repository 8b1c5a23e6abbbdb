----------------------------- MODULE RecipeRun -----------------------------
(***************************************************************************)
(* core/recipe-runner.ts with cache/action-cache.ts, cache/action-store.ts *)
(* and core/run-transaction.ts: several sessions run one declared recipe,  *)
(* look its result up in the action cache, execute it under a per-key lock *)
(* when there is none, store the result and publish a run directory.       *)
(*                                                                         *)
(* An action key is the content of the declared inputs when it was         *)
(* computed: every other component of the key is fixed here.  The cache is *)
(* an index file and one record file per key; each read and each change of *)
(* the two holds the index mutex, a lock file that survives its owner and  *)
(* is recovered from a dead one.  A recovery looks at the lock and deletes *)
(* the path later, so two recoveries of one dead owner may delete the lock *)
(* a third call has taken in between: stolen says which locks may have     *)
(* gone so.  A read or change of the index is one action where nobody else *)
(* can act under the mutex; once that is stolen no property says anything. *)
(* Calls interleave wherever the code awaits; a session may die anywhere,  *)
(* an operation may fail, and a cache file may be found damaged.           *)
(***************************************************************************)
EXTENDS Integers, Sequences, FiniteSets, Functions

CONSTANTS
    Run,        \* calls of runRecipe, each of a session of its own
    Input,      \* contents the declared inputs can have: their hashes, so finitely many
    None,       \* absent
    Damaged,    \* a file that does not parse
    Keep,       \* the cache's budget (maxBytes), in records
    MaxEdit,    \* bound: edits of the declared inputs
    MaxFault,   \* bound: operations that fail
    MaxDamage,  \* bound: cache files found damaged
    MaxCrash,   \* bound: sessions that die
    MaxLeft     \* bound: key locks that sessions had left behind when they died

ASSUME RecipeRunAssumption ==
    /\ Keep \in Nat /\ MaxEdit \in Nat
    /\ MaxFault \in Nat /\ MaxDamage \in Nat /\ MaxCrash \in Nat /\ MaxLeft \in Nat
    /\ IsFiniteSet(Input)
    /\ None \notin Run \union Input \union {"maint", "gone", "mutex", "key", Damaged}
    /\ {"maint", "gone"} \intersect Run = {} /\ "mutex" \notin Input
    /\ {None, Damaged} \intersect [src : Run, made : Input] = {}

VARIABLES
    input,     \* the declared inputs, as they are in the checkout
    index,     \* cache-index.json: keys, least recently used first; or damaged
    record,    \* actions/<key>.json: the run that made it and the inputs it read
    mutex,     \* owner of cache-index.lock
    keyLock,   \* owner of locks/<key>.lock
    pc,        \* pc[r]: where the call r is
    mode,      \* mode[r]: cache_request_mode
    key,       \* key[r]: the computed action key; None when there is none
    held,      \* held[r]: r holds the lock of its key
    found,     \* found[r]: the record of a validated hit
    miss,      \* miss[r]: how the last lookup failed
    read,      \* read[r]: the inputs the executed process read
    copy,      \* copy[r]: the index as r read it under the mutex
    runDir,    \* runDir[r]: the run directory of the call
    maint,     \* a maintenance command (prune, clear, rebuild)
    removing,  \* removing[a]: the lock that a verified to be a dead owner's and deletes next
    stolen,    \* history: locks that a living owner may have had when they were deleted
    acked,     \* history: keys stored by a lock holder, told so, and not removed since
    budget     \* edits, faults, damages and crashes left

vars == <<input, index, record, mutex, keyLock, pc, mode, key, held, found, miss, read,
          copy, runDir, maint, removing, stolen, acked, budget>>

\* Whoever takes locks: the calls, and a maintenance command.
Actor == Run \union {"maint"}

Record == [src : Run, made : Input]

Pcs == {"start", "lookup", "lock", "recheck", "touch", "materialize", "exec", "store",
        "publish", "commitIndex", "commit", "release", "done", "dead"}

TypeOK ==
    /\ input \in Input
    /\ index = Damaged \/ index \in Seq(Input)
    /\ record \in [Input -> Record \union {None, Damaged}]
    /\ mutex \in Run \union {None, "maint"}
    /\ keyLock \in [Input -> Run \union {None, "gone"}]
    /\ pc \in [Run -> Pcs]
    /\ mode \in [Run -> {"default", "refresh-cache", "no-cache"}]
    /\ key \in [Run -> Input \union {None}]
    /\ held \in [Run -> BOOLEAN]
    /\ found \in [Run -> Record \union {None}]
    /\ miss \in [Run -> {"none", "absent", "unreadable"}]
    /\ read \in [Run -> Input \union {None}]
    /\ copy \in [Run -> Seq(Input)]
    /\ runDir \in [Run -> {"none", "failed", "executed", "cached", "hit", "result", "error"}]
    /\ maint \in [pc : {"idle", "remove", "index"}, sel : SUBSET Input, idx : Seq(Input)]
    /\ removing \in [Actor -> {None, "mutex", "key"}]
    /\ \A r \in Run : removing[r] = "key" => pc[r] = "lock"
    /\ stolen \subseteq Input \union {"mutex"}
    /\ acked \subseteq Input
    /\ budget \in [edit : Nat, fault : Nat, damage : Nat, crash : Nat]

----------------------------------------------------------------------------
(* The index and the records *)

\* No maintenance command is under way.
Idle == [pc |-> "idle", sel |-> {}, idx |-> << >>]

\* The owner of a lock file has died, as "gone" had from the start: a maintenance command
\* that owns one is at work.
Dead(owner) == \/ owner = "gone"
               \/ owner \in Run /\ pc[owner] = "dead"
               \/ owner = "maint" /\ maint = Idle

\* hasFreshLock: there is a lock and its owner lives.
Fresh(k) == keyLock[k] # None /\ ~Dead(keyLock[k])

\* A record that parses is one an index can be rebuilt from.
Whole(k) == record[k] \notin {None, Damaged}

\* The indices that have the entries S, each once, by any order of their last use.
Orders(S) == {s \in [1..Cardinality(S) -> S] : Range(s) = S}

\* rebuildIndexUnlocked: the order it gives (createdAt) is any order.
Rebuilt == Orders({k \in Input : Whole(k)})

\* readIndexUnlocked: the index file, or the index rebuilt from the records.
ReadIndex == IF index # Damaged THEN {index} ELSE Rebuilt

\* The entries S of the index t follow one another as they do in s.
KeepsOrder(s, t, S) ==
    \A i, j \in DOMAIN t :
        i < j /\ {t[i], t[j]} \subseteq S =>
            \E m, n \in DOMAIN s : m < n /\ s[m] = t[i] /\ s[n] = t[j]

\* updateIndexEntry and touch: the entry becomes the most recently used.
Used(s, k) == {t \in Orders(Range(s) \union {k}) :
                 t[Len(t)] = k /\ KeepsOrder(s, t, Range(s) \ {k})}

\* The index s without the entries that are gone.
Without(s, gone) == {t \in Orders(Range(s) \ gone) : KeepsOrder(s, t, Range(t))}

Spend(what) == /\ budget[what] > 0
               /\ budget' = [budget EXCEPT ![what] = @ - 1]

Goto(r, l) == pc' = [pc EXCEPT ![r] = l]

cache == <<index, record, acked>>
call == <<mode, key, held, found, miss, read, copy, runDir>>
recovery == <<removing, stolen>>
locks == <<mutex, keyLock, recovery>>

\* The call ends and its locals are gone.
Ends(r, l) ==
    /\ Goto(r, l)
    /\ mode' = [mode EXCEPT ![r] = "default"]
    /\ key' = [key EXCEPT ![r] = None]
    /\ held' = [held EXCEPT ![r] = FALSE]
    /\ found' = [found EXCEPT ![r] = None]
    /\ miss' = [miss EXCEPT ![r] = "none"]
    /\ read' = [read EXCEPT ![r] = None]
    /\ copy' = [copy EXCEPT ![r] = << >>]

Init ==
    /\ input \in Input
    /\ index = << >>
    /\ record = [k \in Input |-> None]
    /\ mutex = None
    /\ keyLock \in [Input -> {None, "gone"}]
    /\ Cardinality({k \in Input : keyLock[k] = "gone"}) <= MaxLeft
    /\ pc = [r \in Run |-> "start"]
    /\ mode = [r \in Run |-> "default"]
    /\ key = [r \in Run |-> None]
    /\ held = [r \in Run |-> FALSE]
    /\ found = [r \in Run |-> None]
    /\ miss = [r \in Run |-> "none"]
    /\ read = [r \in Run |-> None]
    /\ copy = [r \in Run |-> << >>]
    /\ runDir = [r \in Run |-> "none"]
    /\ maint = Idle
    /\ removing = [a \in Actor |-> None]
    /\ stolen = {}
    /\ acked = {}
    /\ budget = [edit |-> MaxEdit, fault |-> MaxFault, damage |-> MaxDamage,
                 crash |-> MaxCrash]

----------------------------------------------------------------------------
(* runRecipe *)

\* The request, planCache and computeKey.  A fingerprint that cannot be taken refuses
\* the cache and the recipe executes normally.
Begin(r) ==
    /\ pc[r] = "start"
    /\ \E m \in {"default", "refresh-cache", "no-cache"} :
        /\ mode' = [mode EXCEPT ![r] = m]
        /\ \/ /\ m # "no-cache"
              /\ key' = [key EXCEPT ![r] = input]
              /\ Goto(r, IF m = "default" THEN "lookup" ELSE "lock")
              /\ UNCHANGED budget
           \/ /\ m # "no-cache" => Spend("fault")
              /\ m = "no-cache" => UNCHANGED budget
              /\ Goto(r, "exec")
              /\ UNCHANGED key
    /\ UNCHANGED <<input, cache, locks, held, found, miss, read, copy, runDir, maint>>

\* Where a lookup that is not a hit goes on: to the lock, or to the execution.
AfterMiss(r) == IF held[r] THEN "exec" ELSE "lock"

\* lookupValidated over readIndexedRecord, under the mutex: a record counts only when
\* the index names it, and a damaged one is quarantined.
Lookup(r) ==
    /\ pc[r] \in {"lookup", "recheck"}
    /\ mutex = None
    /\ \E s \in ReadIndex :
        LET k == key[r]
            indexed == k \in Range(s)
        IN  /\ index' = s
            /\ IF indexed /\ Whole(k)
               THEN /\ found' = [found EXCEPT ![r] = record[k]]
                    /\ Goto(r, "touch")
                    /\ UNCHANGED <<record, miss>>
               ELSE /\ miss' = [miss EXCEPT ![r] = IF indexed /\ record[k] = Damaged
                                                   THEN "unreadable" ELSE "absent"]
                    /\ record' = IF indexed THEN [record EXCEPT ![k] = None] ELSE record
                    /\ Goto(r, AfterMiss(r))
                    /\ UNCHANGED found
    /\ UNCHANGED <<input, locks, mode, key, held, read, copy, runDir, maint, acked, budget>>

\* The mutex cannot be taken in time or the index cannot be read: a miss.
LookupFails(r) ==
    /\ pc[r] \in {"lookup", "recheck"}
    /\ mutex = None => Spend("fault")
    /\ mutex # None => UNCHANGED budget
    /\ miss' = [miss EXCEPT ![r] = "unreadable"]
    /\ Goto(r, AfterMiss(r))
    /\ UNCHANGED <<input, cache, locks, mode, key, held, found, read, copy, runDir, maint>>

\* touch: best effort, after the mutex of the lookup was released.
Touch(r) ==
    /\ pc[r] = "touch"
    /\ \/ /\ mutex = None
          /\ \E s \in ReadIndex :
              index' \in IF key[r] \in Range(s) THEN Used(s, key[r]) ELSE {s}
       \/ mutex # None /\ UNCHANGED index
    /\ Goto(r, "materialize")
    /\ UNCHANGED <<input, record, locks, call, maint, acked, budget>>

\* materializeCachedRun: a new run directory is staged from the record; when that fails
\* the call goes on as if there had been no hit.
Materialize(r) ==
    /\ pc[r] = "materialize"
    /\ \/ /\ runDir' = [runDir EXCEPT ![r] = "cached"]
          /\ Goto(r, "commit")
          /\ UNCHANGED <<found, miss, budget>>
       \/ /\ Spend("fault")
          /\ found' = [found EXCEPT ![r] = None]
          /\ miss' = [miss EXCEPT ![r] = "unreadable"]
          /\ Goto(r, AfterMiss(r))
          /\ UNCHANGED runDir
    /\ UNCHANGED <<input, cache, locks, mode, key, held, read, copy, maint>>

\* Mutant: no second lookup under the lock.
MutantAcquireLock(r) ==
    /\ pc[r] = "lock"
    /\ keyLock[key[r]] = None
    /\ keyLock' = [keyLock EXCEPT ![key[r]] = r]
    /\ held' = [held EXCEPT ![r] = TRUE]
    /\ Goto(r, "exec")
    /\ UNCHANGED <<input, cache, mutex, recovery, mode, key, found, miss, read, copy, runDir,
                   maint, budget>>

\* acquireLock: a wait that times out, or a lock that cannot be published, goes on
\* without it.
AcquireLock(r) ==
    /\ pc[r] = "lock"
    /\ LET owner == keyLock[key[r]] IN
        \/ /\ owner = None
           /\ keyLock' = [keyLock EXCEPT ![key[r]] = r]
           /\ held' = [held EXCEPT ![r] = TRUE]
           /\ Goto(r, IF mode[r] = "default" THEN "recheck" ELSE "exec")
           /\ UNCHANGED budget
        \/ /\ owner = None => Spend("fault")
           /\ owner # None => UNCHANGED budget
           /\ Goto(r, "exec")
           /\ UNCHANGED <<keyLock, held>>
    /\ UNCHANGED <<input, cache, mutex, recovery, mode, key, found, miss, read, copy, runDir,
                   maint>>

\* beginRunTransaction and exec.  The process reads the inputs as they are now; only a
\* run that exited as expected and kept its contracts goes into the cache.
Execute(r) ==
    /\ pc[r] = "exec"
    /\ read' = [read EXCEPT ![r] = input]
    /\ \E ok \in BOOLEAN :
        /\ runDir' = [runDir EXCEPT ![r] = IF ok THEN "executed" ELSE "failed"]
        /\ Goto(r, IF ok /\ key[r] # None THEN "store" ELSE "commit")
    /\ UNCHANGED <<input, cache, locks, mode, key, held, found, miss, copy, maint, budget>>

\* The staging directory cannot be created: the call ends without executing.
ExecuteFails(r) ==
    /\ pc[r] = "exec"
    /\ Spend("fault")
    /\ runDir' = [runDir EXCEPT ![r] = "error"]
    /\ Goto(r, "release")
    /\ UNCHANGED <<input, cache, locks, mode, key, held, found, miss, read, copy, maint>>

\* Mutant: the index is read and written without the mutex.
MutantStoreLock(r) ==
    /\ pc[r] = "store"
    /\ \E s \in ReadIndex :
        /\ index' = s
        /\ copy' = [copy EXCEPT ![r] = s]
    /\ Goto(r, "publish")
    /\ UNCHANGED <<input, record, locks, mode, key, held, found, miss, read, runDir,
                   maint, acked, budget>>

\* writeRecord: the mutex and the index; then the record is renamed into place; then
\* the index.
StoreLock(r) ==
    /\ pc[r] = "store"
    /\ mutex = None
    /\ mutex' = r
    /\ \E s \in ReadIndex :
        /\ index' = s
        /\ copy' = [copy EXCEPT ![r] = s]
    /\ Goto(r, "publish")
    /\ UNCHANGED <<input, record, keyLock, recovery, mode, key, held, found, miss, read,
                   runDir, maint, acked, budget>>

StoreRecord(r) ==
    /\ pc[r] = "publish"
    /\ record' = [record EXCEPT ![key[r]] = [src |-> r, made |-> read[r]]]
    /\ Goto(r, "commitIndex")
    /\ UNCHANGED <<input, index, locks, call, maint, acked, budget>>

\* writeIndexVerified, and the release of the mutex.
StoreIndex(r) ==
    /\ pc[r] = "commitIndex"
    /\ index' \in Used(copy[r], key[r])
    /\ mutex' = IF mutex = r THEN None ELSE mutex
    /\ acked' = IF held[r] /\ Whole(key[r]) THEN acked \union {key[r]} ELSE acked
    /\ Goto(r, "commit")
    /\ UNCHANGED <<input, record, keyLock, recovery, call, maint, budget>>

\* The mutex times out, or a file operation fails: a record that was published is
\* removed, an index that was renamed before its readback failed stays.
StoreFails(r) ==
    /\ \/ pc[r] = "store" /\ mutex # None /\ UNCHANGED budget
       \/ pc[r] \in {"store", "publish", "commitIndex"} /\ Spend("fault")
    /\ LET published == pc[r] = "commitIndex" IN
        /\ record' = IF published THEN [record EXCEPT ![key[r]] = None] ELSE record
        /\ acked' = IF published THEN acked \ {key[r]} ELSE acked
        /\ index' \in {index} \union (IF published THEN Used(copy[r], key[r]) ELSE {})
    /\ mutex' = IF mutex = r THEN None ELSE mutex
    /\ Goto(r, "commit")
    /\ UNCHANGED <<input, keyLock, recovery, call, maint>>

\* commitRunTransaction: the staged directory is renamed into place, or the call ends
\* with RUN_RECORD_COMMIT_FAILED.
CommitRun(r) ==
    /\ pc[r] = "commit"
    /\ \/ /\ runDir' = [runDir EXCEPT ![r] = IF runDir[r] = "cached" THEN "hit" ELSE "result"]
          /\ UNCHANGED budget
       \/ /\ runDir' = [runDir EXCEPT ![r] = "error"]
          /\ Spend("fault")
    /\ Goto(r, "release")
    /\ UNCHANGED <<input, cache, locks, mode, key, held, found, miss, read, copy, maint>>

\* The finally block.
ReleaseLock(r) ==
    /\ pc[r] = "release"
    /\ keyLock' = IF held[r] /\ keyLock[key[r]] = r
                  THEN [keyLock EXCEPT ![key[r]] = None] ELSE keyLock
    /\ Ends(r, "done")
    /\ UNCHANGED <<input, cache, mutex, recovery, runDir, maint, budget>>

----------------------------------------------------------------------------
(* removeObservedLock: the recovery of a dead owner's lock, in two steps *)

\* The owner's name is claimed, and what is at the path is the dead owner's lock.  The
\* next one that finds the name gone links it anew to the lock that is still there, so
\* several may be past this point at once.
VerifyMutex(a) ==
    /\ removing[a] = None
    /\ Dead(mutex)
    /\ IF a = "maint" THEN maint = Idle
                      ELSE pc[a] \in {"lookup", "recheck", "touch", "store"}
    /\ removing' = [removing EXCEPT ![a] = "mutex"]
    /\ UNCHANGED <<input, cache, mutex, keyLock, stolen, pc, call, maint, budget>>

VerifyKeyLock(r) ==
    /\ removing[r] = None
    /\ pc[r] = "lock" /\ Dead(keyLock[key[r]])
    /\ removing' = [removing EXCEPT ![r] = "key"]
    /\ UNCHANGED <<input, cache, mutex, keyLock, stolen, pc, call, maint, budget>>

\* The path is removed, whoever's lock it is by now; then the wait for the lock goes on.
\* When no lock is here, it may be that of a read or change which is one action above.
DeleteMutex(a) ==
    /\ removing[a] = "mutex"
    /\ removing' = [removing EXCEPT ![a] = None]
    /\ \/ /\ mutex' = None
          /\ stolen' = IF Dead(mutex) THEN stolen ELSE stolen \union {"mutex"}
          /\ UNCHANGED budget
       \/ Spend("fault") /\ UNCHANGED <<mutex, stolen>>
    /\ UNCHANGED <<input, cache, keyLock, pc, call, maint>>

\* A removal that fails is not caught: the call ends.
DeleteKeyLock(r) ==
    /\ removing[r] = "key"
    /\ removing' = [removing EXCEPT ![r] = None]
    /\ \/ /\ keyLock' = [keyLock EXCEPT ![key[r]] = None]
          /\ stolen' = IF Fresh(key[r]) THEN stolen \union {key[r]} ELSE stolen
          /\ UNCHANGED <<pc, call, budget>>
       \/ /\ Spend("fault") /\ Ends(r, "done")
          /\ UNCHANGED <<keyLock, stolen, runDir>>
    /\ UNCHANGED <<input, cache, mutex, maint>>

----------------------------------------------------------------------------
(* Maintenance commands of a session, and the environment *)

\* The keys prune selects: the least recently used that no live run has locked, until
\* the rest fits.
PruneSelection(s) ==
    LET free == {i \in DOMAIN s : ~Fresh(s[i])}
    IN  {s[i] : i \in {i \in free : Cardinality({j \in free : j < i}) < Len(s) - Keep}}

\* prune, clear: under the mutex the entries are selected ...
Select ==
    /\ maint = Idle /\ removing["maint"] = None
    /\ mutex = None
    /\ \E s \in ReadIndex, sel \in SUBSET Input :
        /\ sel \in {PruneSelection(s), Range(s)} \ {{}}
        /\ index' = s
        /\ maint' = [pc |-> "remove", sel |-> sel, idx |-> s]
    /\ mutex' = "maint"
    /\ UNCHANGED <<input, record, keyLock, recovery, pc, call, acked, budget>>

\* ... their records removed; what cannot be removed keeps its entry ...
RemoveRecords ==
    /\ maint.pc = "remove"
    /\ \E gone \in SUBSET maint.sel :
        /\ gone # maint.sel => Spend("fault")
        /\ gone = maint.sel => UNCHANGED budget
        /\ record' = [k \in Input |-> IF k \in gone THEN None ELSE record[k]]
        /\ acked' = acked \ gone
        /\ maint' = [maint EXCEPT !.pc = "index", !.sel = gone]
    /\ UNCHANGED <<input, index, locks, pc, call>>

\* ... and the index written without them.
WriteIndex ==
    /\ maint.pc = "index"
    /\ \/ /\ index' \in Without(maint.idx, maint.sel)
          /\ UNCHANGED budget
       \/ Spend("fault") /\ UNCHANGED index
    /\ mutex' = IF mutex = "maint" THEN None ELSE mutex
    /\ maint' = Idle
    /\ UNCHANGED <<input, record, keyLock, recovery, pc, call, acked>>

\* rebuildIndex: the index of all records that parse, orphans of a crash included.
RebuildIndex ==
    /\ maint = Idle /\ removing["maint"] = None
    /\ mutex = None
    /\ index' \in Rebuilt
    /\ UNCHANGED <<input, record, locks, pc, call, maint, acked, budget>>

\* An editor changes a declared input.
Edit ==
    /\ Spend("edit")
    /\ \E i \in Input \ {input} : input' = i
    /\ UNCHANGED <<cache, locks, pc, call, maint>>

\* A cache file no longer parses.
Damage ==
    /\ Spend("damage")
    /\ \/ index # Damaged /\ index' = Damaged /\ UNCHANGED <<record, acked>>
       \/ \E k \in Input : /\ Whole(k)
                           /\ record' = [record EXCEPT ![k] = Damaged]
                           /\ acked' = acked \ {k}
                           /\ UNCHANGED index
    /\ UNCHANGED <<input, locks, pc, call, maint>>

Crash(r) ==
    /\ pc[r] \notin {"start", "done", "dead"}
    /\ Spend("crash")
    /\ Ends(r, "dead")
    /\ removing' = [removing EXCEPT ![r] = None]
    /\ UNCHANGED <<input, cache, mutex, keyLock, stolen, runDir, maint>>

CrashMaintenance ==
    /\ maint # Idle \/ removing["maint"] # None
    /\ Spend("crash")
    /\ maint' = Idle
    /\ removing' = [removing EXCEPT !["maint"] = None]
    /\ UNCHANGED <<input, cache, mutex, keyLock, stolen, pc, call>>

RunStep(r) ==
    /\ removing[r] = None
    /\ \/ Begin(r) \/ Lookup(r) \/ LookupFails(r) \/ Touch(r) \/ Materialize(r)
       \/ AcquireLock(r) \/ Execute(r) \/ ExecuteFails(r)
       \/ StoreLock(r) \/ StoreRecord(r) \/ StoreIndex(r) \/ StoreFails(r)
       \/ CommitRun(r) \/ ReleaseLock(r)

Next ==
    \/ \E r \in Run : RunStep(r) \/ Crash(r) \/ VerifyKeyLock(r) \/ DeleteKeyLock(r)
    \/ \E a \in Actor : VerifyMutex(a) \/ DeleteMutex(a)
    \/ Select \/ RemoveRecords \/ WriteIndex \/ RebuildIndex \/ CrashMaintenance
    \/ Edit \/ Damage

Spec == Init /\ [][Next]_vars

----------------------------------------------------------------------------
(* Properties *)

\* A result that was stored under the key's lock and acknowledged is found by every
\* later lookup until something removes it: neither another store, nor a touch, nor a
\* session that died in the middle of a change takes it out of the index.  This lasts
\* until a recovery that came too late has deleted the mutex of a living owner.
AcknowledgedIsFindable ==
    "mutex" \notin stolen /\ index # Damaged =>
        \A k \in acked : k \in Range(index) /\ record[k] # None

\* A call that holds the lock of its key and looked the key up under it executes only
\* when no result is acknowledged: the same action is executed once, until a recovery
\* that came too late has deleted a living owner's lock of the key, or its mutex.
ExecutesOnce ==
    \A r \in Run : /\ pc[r] = "exec" /\ held[r] /\ mode[r] = "default" /\ miss[r] = "absent"
                   /\ {"mutex", key[r]} \intersect stolen = {}
                   => key[r] \notin acked

----------------------------------------------------------------------------
(* The inductive invariant *)

\* Who changes the index holds its mutex, from the first read to the last write.
MutexIsHeld ==
    "mutex" \notin stolen =>
        /\ \A r \in Run : pc[r] \in {"publish", "commitIndex"} => mutex = r
        /\ maint.pc # "idle" => mutex = "maint"

\* The lock of a key is its holder's while the holder lives.
KeyLockIsHeld ==
    \A r \in Run : held[r] /\ pc[r] # "dead" /\ key[r] \notin stolen => keyLock[key[r]] = r

\* What a call has when it gets somewhere: a key, no lock before it took one, and the
\* inputs it read.
CallIsAligned ==
    \A r \in Run :
        /\ held[r] \/ pc[r] \in {"lookup", "recheck", "touch", "materialize", "lock", "store",
                                 "publish", "commitIndex"}
           => key[r] # None
        /\ pc[r] \in {"start", "lookup", "lock"} => ~held[r]
        /\ pc[r] \in {"store", "publish", "commitIndex"} => read[r] # None
        /\ removing[r] # None =>
             pc[r] \in {"lookup", "recheck", "touch", "store", "lock"}

\* Every acknowledged result has its record, and every index that was read under the
\* mutex to be written back has its entry; what maintenance removed is not acknowledged.
AcknowledgedIsKept ==
    "mutex" \notin stolen =>
        /\ \A k \in acked : Whole(k)
        /\ \A r \in Run : pc[r] \in {"publish", "commitIndex"} => acked \subseteq Range(copy[r])
        /\ maint.pc # "idle" => acked \subseteq Range(maint.idx)
        /\ maint.pc = "index" => acked \intersect maint.sel = {}

IInv ==
    /\ TypeOK /\ MutexIsHeld /\ KeyLockIsHeld /\ CallIsAligned /\ AcknowledgedIsKept
    /\ AcknowledgedIsFindable /\ ExecutesOnce
=============================================================================
