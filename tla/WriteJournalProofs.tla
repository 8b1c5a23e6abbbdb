------------------------- MODULE WriteJournalProofs -------------------------
(***************************************************************************)
(* The write journal for any set of paths, contents and tool calls, any    *)
(* limits of the journal, any number of foreign edits and of workers.      *)
(*                                                                         *)
(* The first part is about journals as values: what an appended and a      *)
(* closed bracket change in the chain of every path.  The second part is   *)
(* one lemma per action.                                                   *)
(***************************************************************************)
EXTENDS WriteJournal, SequenceTheorems, WellFoundedInduction, TLAPS

LEMMA Constants ==
    /\ MaxOps \in Nat /\ MaxCaptures \in Nat /\ MaxEdit \in Nat /\ MaxAttempt \in Nat \ {0}
    /\ "head" \in Content /\ "missing" \in Content /\ "dirty" \in Content
    /\ Faults \in BOOLEAN /\ Tracked \subseteq Path
BY JournalAssumption

LEMMA Absent ==
    /\ None \notin Call /\ None \notin Identity /\ None \notin Journal
    /\ None \notin [Path -> Identity \union {Clean}]
BY AbsentAssumption

-----------------------------------------------------------------------------
(* Journals as values *)

LEMMA MinExists == ASSUME NEW S, S \subseteq Nat, S # {} PROVE \E x \in S : \A y \in S : x <= y
<1> DEFINE R == OpToRel(<, Nat)
<1>1. IsWellFoundedOn(R, Nat)
    BY NatLessThanWellFounded
<1>2. \A x \in Nat, y \in Nat : y < x => <<y, x>> \in R
    BY DEF OpToRel
<1> HIDE DEF R
<1>3. PICK x \in S : \A y \in S : ~(<<y, x>> \in R)
    BY <1>1, WFMin, Zenon
<1>4. \A y \in S : ~(y < x)
    BY <1>2, <1>3, Zenon
<1> QED BY <1>4

LEMMA MaxExists ==
    ASSUME NEW n \in Nat, NEW S, S \subseteq 1..n, S # {}
    PROVE  \E x \in S : \A y \in S : y <= x
<1> DEFINE T == {n - i : i \in S}
<1>1. T \subseteq Nat /\ T # {}
    <2>1. \A i \in 1..n : n - i \in Nat
        OBVIOUS
    <2>2. \A i \in S : n - i \in Nat
        BY <2>1
    <2> QED BY <2>2, Zenon
<1>2. PICK t \in T : \A u \in T : t <= u
    BY <1>1, MinExists, Zenon
<1>3. PICK x \in S : t = n - x
    BY Zenon
<1>4. \A y \in S : n - x <= n - y
    BY <1>2, <1>3
<1> QED BY <1>4

LEMMA JournalShape ==
    ASSUME NEW j \in Journal
    PROVE  /\ j.ops \in Seq(Op) /\ Len(j.ops) \in Nat /\ DOMAIN j.ops = 1..Len(j.ops)
           /\ \A i \in 1..Len(j.ops) : j.ops[i] \in Op
           /\ IsPending(j) <=> Len(j.ops) > 0 /\ j.ops[Len(j.ops)].status = "pending"
<1>1. j.ops \in Seq(Op)
    BY DEF Journal
<1>2. Len(j.ops) \in Nat /\ DOMAIN j.ops = 1..Len(j.ops)
    BY <1>1, LenProperties
<1>3. \A i \in 1..Len(j.ops) : j.ops[i] \in Op
    BY <1>1, ElementOfSeq
<1>4. j.ops # <<>> <=> Len(j.ops) > 0
    BY <1>1, <1>2, EmptySeq
<1> QED BY <1>1, <1>2, <1>3, <1>4 DEF IsPending

\* Everything that is read off the operations depends on them alone.
LEMMA SameOps ==
    ASSUME NEW j, NEW k, k.ops = j.ops
    PROVE  /\ IsPending(k) <=> IsPending(j)
           /\ TouchedPaths(k) = TouchedPaths(j)
           /\ \A p : OpsOn(k, p) = OpsOn(j, p) /\ LastOn(k, p) = LastOn(j, p)
                     /\ FirstOn(k, p) = FirstOn(j, p)
BY Zenon DEF IsPending, TouchedPaths, OpsOn, LastOn, FirstOn

LEMMA OpsOnIs ==
    ASSUME NEW j \in Journal, NEW p, NEW i
    PROVE  i \in OpsOn(j, p) <=> i \in 1..Len(j.ops) /\ j.ops[i].path = p
BY JournalShape DEF OpsOn

LEMMA LastOnIs ==
    ASSUME NEW j \in Journal, NEW p, NEW i \in OpsOn(j, p), \A k \in OpsOn(j, p) : k <= i
    PROVE  LastOn(j, p) = j.ops[i]
<1> DEFINE m == CHOOSE x \in OpsOn(j, p) : \A k \in OpsOn(j, p) : k <= x
<1>1. m \in OpsOn(j, p) /\ \A k \in OpsOn(j, p) : k <= m
    OBVIOUS
<1>2. m \in Nat /\ i \in Nat
    BY <1>1, OpsOnIs, JournalShape
<1>3. m = i
    BY <1>1, <1>2
<1> QED BY <1>3 DEF LastOn

LEMMA LastOnExists ==
    ASSUME NEW j \in Journal, NEW p, OpsOn(j, p) # {}
    PROVE  \E i \in OpsOn(j, p) : /\ \A k \in OpsOn(j, p) : k <= i
                                  /\ LastOn(j, p) = j.ops[i]
<1>1. OpsOn(j, p) \subseteq 1..Len(j.ops) /\ Len(j.ops) \in Nat
    BY OpsOnIs, JournalShape
<1>2. PICK i \in OpsOn(j, p) : \A k \in OpsOn(j, p) : k <= i
    BY <1>1, MaxExists
<1> QED BY <1>2, LastOnIs

\* k is j with the operation x appended.
Appends(j, k, x) ==
    /\ Len(k.ops) = Len(j.ops) + 1
    /\ \A i \in 1..Len(j.ops) : k.ops[i] = j.ops[i]
    /\ k.ops[Len(j.ops) + 1] = x

LEMMA AppendsLast ==
    ASSUME NEW j \in Journal, NEW k \in Journal, NEW x, Appends(j, k, x)
    PROVE  /\ OpsOn(k, x.path) # {} /\ LastOn(k, x.path) = x
           /\ \A p : p # x.path => /\ OpsOn(k, p) = OpsOn(j, p)
                                   /\ OpsOn(k, p) # {} => LastOn(k, p) = LastOn(j, p)
<1> DEFINE n == Len(j.ops)
<1>1. n \in Nat /\ Len(k.ops) = n + 1 /\ n + 1 \in 1..(n + 1)
    BY JournalShape DEF Appends
<1>2. n + 1 \in OpsOn(k, x.path) /\ \A i \in OpsOn(k, x.path) : i <= n + 1
    BY <1>1, OpsOnIs DEF Appends
<1>3. LastOn(k, x.path) = x
    BY <1>2, LastOnIs DEF Appends
<1>4. ASSUME NEW p, p # x.path
      PROVE  /\ OpsOn(k, p) = OpsOn(j, p)
             /\ OpsOn(k, p) # {} => LastOn(k, p) = LastOn(j, p)
    <2>1. \A i : i \in OpsOn(k, p) <=> i \in OpsOn(j, p)
        <3> SUFFICES ASSUME NEW i PROVE i \in OpsOn(k, p) <=> i \in OpsOn(j, p)
            OBVIOUS
        <3>1. i \in OpsOn(k, p) <=> i \in 1..(n + 1) /\ k.ops[i].path = p
            BY <1>1, OpsOnIs
        <3>2. i \in OpsOn(j, p) <=> i \in 1..n /\ j.ops[i].path = p
            BY OpsOnIs
        <3>3. i \in 1..(n + 1) <=> i \in 1..n \/ i = n + 1
            BY <1>1
        <3> QED BY <1>1, <1>4, <3>1, <3>2, <3>3 DEF Appends
    <2>2. OpsOn(k, p) = OpsOn(j, p)
        BY <2>1
    <2>3. ASSUME OpsOn(k, p) # {} PROVE LastOn(k, p) = LastOn(j, p)
        <3>1. PICK i \in OpsOn(j, p) : /\ \A m \in OpsOn(j, p) : m <= i
                                       /\ LastOn(j, p) = j.ops[i]
            BY <2>2, <2>3, LastOnExists
        <3>2. LastOn(k, p) = k.ops[i]
            BY <2>2, <3>1, LastOnIs
        <3>3. i \in 1..n
            BY <3>1, OpsOnIs
        <3> QED BY <3>1, <3>2, <3>3 DEF Appends
    <2> QED BY <2>2, <2>3
<1> QED BY <1>2, <1>3, <1>4

\* k is j with its last operation closed.
Closes(j, k, y) ==
    /\ Len(k.ops) = Len(j.ops) /\ Len(j.ops) > 0
    /\ \A i \in 1..(Len(j.ops) - 1) : k.ops[i] = j.ops[i]
    /\ LET x == k.ops[Len(j.ops)]
           o == j.ops[Len(j.ops)]
       IN x.call = o.call /\ x.path = o.path /\ x.before = o.before
          /\ x.status = "completed" /\ x.after = y

LEMMA ClosesLast ==
    ASSUME NEW j \in Journal, NEW k \in Journal, NEW y, Closes(j, k, y)
    PROVE  LET q == j.ops[Len(j.ops)].path
           IN  /\ \A p : OpsOn(k, p) = OpsOn(j, p)
               /\ \A p : p # q /\ OpsOn(k, p) # {} => LastOn(k, p) = LastOn(j, p)
<1> DEFINE n == Len(j.ops)
           q == j.ops[n].path
<1>1. n \in Nat /\ n > 0 /\ Len(k.ops) = n
    BY JournalShape DEF Closes
<1>2. \A i \in 1..n : k.ops[i].path = j.ops[i].path
    <2> SUFFICES ASSUME NEW i \in 1..n PROVE k.ops[i].path = j.ops[i].path
        OBVIOUS
    <2>1. i = n \/ i \in 1..(n - 1)
        BY <1>1
    <2> QED BY <2>1 DEF Closes
<1>3. \A p : OpsOn(k, p) = OpsOn(j, p)
    <2> SUFFICES ASSUME NEW p, NEW i PROVE i \in OpsOn(k, p) <=> i \in OpsOn(j, p)
        OBVIOUS
    <2> QED BY <1>1, <1>2, OpsOnIs
<1>4. ASSUME NEW p, p # q, OpsOn(k, p) # {} PROVE LastOn(k, p) = LastOn(j, p)
    <2>1. PICK i \in OpsOn(j, p) : /\ \A m \in OpsOn(j, p) : m <= i
                                   /\ LastOn(j, p) = j.ops[i]
        BY <1>3, <1>4, LastOnExists
    <2>2. LastOn(k, p) = k.ops[i]
        BY <1>3, <2>1, LastOnIs
    <2>3. i \in 1..n /\ i # n
        BY <1>4, <2>1, OpsOnIs
    <2>4. i \in 1..(n - 1)
        BY <1>1, <2>3
    <2> QED BY <2>1, <2>2, <2>4 DEF Closes
<1> QED BY <1>3, <1>4

-----------------------------------------------------------------------------
(* What a step leaves alone *)

Calls == OneCall /\ BracketIsOpen /\ WritersHaveOps
Shown == ForeignShows /\ StampsAreOld /\ StrayShows

KeepsOps ==
    \/ journal' = journal
    \/ journal # None /\ journal' \in Journal /\ journal'.ops = journal.ops

LEMMA KeptReads ==
    ASSUME IInv, KeepsOps
    PROVE  /\ journal # None <=> journal' # None
           /\ journal'.ops = journal.ops
           /\ IsPending(journal') <=> IsPending(journal)
           /\ TouchedPaths(journal') = TouchedPaths(journal)
           /\ \A p : OpsOn(journal', p) = OpsOn(journal, p)
                     /\ LastOn(journal', p) = LastOn(journal, p)
                     /\ FirstOn(journal', p) = FirstOn(journal, p)
<1>1. (journal # None <=> journal' # None) /\ journal'.ops = journal.ops
    BY Absent DEF KeepsOps
<1> QED BY <1>1, SameOps

LEMMA ChainKept == ASSUME IInv, KeepsOps PROVE ChainIsUnbroken'
BY KeptReads DEF IInv, ChainIsUnbroken

LEMMA CallsKept ==
    ASSUME IInv, KeepsOps, UNCHANGED <<call, wrote>>,
           rt'.up = rt.up, rt'.pending = rt.pending, rt'.beginning = rt.beginning
    PROVE  Calls'
<1>1. OneCall'
    BY DEF IInv, OneCall
<1>2. BracketIsOpen'
    BY KeptReads DEF IInv, BracketIsOpen, LastOp
<1>3. WritersHaveOps'
    BY KeptReads DEF IInv, WritersHaveOps
<1> QED BY <1>1, <1>2, <1>3 DEF Calls

LEMMA ShownKept ==
    ASSUME IInv, KeepsOps, UNCHANGED <<files, clock, foreign, stray, guards>>
    PROVE  Shown'
<1>1. ForeignShows'
    BY KeptReads DEF IInv, ForeignShows
<1>2. StampsAreOld' /\ StrayShows'
    BY DEF IInv, StampsAreOld, StrayShows
<1> QED BY <1>1, <1>2 DEF Shown

LEMMA ResultKept ==
    ASSUME IInv, UNCHANGED <<journal, result, foreign, stray, guards>>
    PROVE  ForeignEditConflicts'
BY Zenon DEF IInv, ForeignEditConflicts

LEMMA ResultNone == ASSUME result' = None PROVE ForeignEditConflicts'
BY DEF ForeignEditConflicts

\* A tool call is let go: blocked before it ran, or answered.
LEMMA CallsRetire ==
    ASSUME IInv, KeepsOps, NEW c \in Call, UNCHANGED wrote, rt'.up = rt.up,
           \A d \in Call \ {c} : call'[d] = call[d],
           \/ call'[c].at = "done"
           \/ call'[c].at = "blocked" /\ call[c].at \in {"new", "begin"},
           call'[c].path = call[c].path,
           \/ call[c].at \in {"begin", "run", "ran"}
           \/ rt'.pending = rt.pending /\ rt'.beginning = rt.beginning
    PROVE  Calls'
<1>1. \A d \in Call : d # c /\ call[c].at \in {"begin", "run", "ran"}
                          => call[d].at \notin {"begin", "run", "ran"}
    BY Absent DEF IInv, OneCall
<1>2. OneCall'
    <2> SUFFICES ASSUME NEW d \in Call
                 PROVE  /\ call'[d].at = "begin" =>
                              rt'.up /\ rt'.beginning = d /\ rt'.pending = None
                        /\ call'[d].at \in {"run", "ran"} =>
                              rt'.up /\ rt'.pending = d /\ rt'.beginning = None
                        /\ call'[d].at \in {"begin", "run", "ran"} => call'[d].path \in Path
        BY DEF OneCall
    <2>1. CASE d = c
        BY <2>1
    <2>2. CASE d # c
        BY <1>1, <2>2 DEF IInv, OneCall
    <2> QED BY <2>1, <2>2
<1>3. BracketIsOpen'
    <2> SUFFICES ASSUME NEW d \in Call,
                        \/ call'[d].at \in {"run", "ran"}
                        \/ call'[d].at = "killed" /\ d \in wrote
                 PROVE  /\ journal' # None /\ IsPending(journal')
                        /\ journal'.ops[Len(journal'.ops)].call = d
                        /\ journal'.ops[Len(journal'.ops)].path = call'[d].path
        BY DEF BracketIsOpen, LastOp
    <2>1. d # c /\ call'[d] = call[d]
        OBVIOUS
    <2> QED BY <2>1, KeptReads DEF IInv, BracketIsOpen, LastOp
<1>4. WritersHaveOps'
    <2> SUFFICES ASSUME NEW d \in wrote
                 PROVE  /\ call'[d].at \in {"ran", "done", "killed"}
                        /\ journal' # None
                        /\ \E i \in DOMAIN journal'.ops :
                              journal'.ops[i].call = d /\ journal'.ops[i].path = call'[d].path
        BY DEF WritersHaveOps
    <2>1. d \in Call
        BY DEF IInv, TypeOK
    <2>2. CASE d = c
        BY <2>2, KeptReads DEF IInv, WritersHaveOps
    <2>3. CASE d # c
        BY <2>1, <2>3, KeptReads DEF IInv, WritersHaveOps
    <2> QED BY <2>2, <2>3
<1> QED BY <1>2, <1>3, <1>4 DEF Calls

-----------------------------------------------------------------------------
(* What the updates of the journal are *)

JournalFits(j) == j \in Journal /\ j.captures <= MaxCaptures /\ Len(j.ops) <= MaxOps

LEMMA CountedIs ==
    ASSUME IInv, journal # None, HasBudget
    PROVE  /\ JournalFits(Counted) /\ Counted.ops = journal.ops
           /\ Counted.state = journal.state /\ Counted.revision = journal.revision + 1
<1>1. journal \in Journal /\ journal.captures <= MaxCaptures /\ Len(journal.ops) <= MaxOps
    BY DEF IInv, TypeOK
<1>2. /\ journal.revision \in Nat /\ journal.captures \in Nat
      /\ journal.revision + 1 \in Nat /\ journal.captures + 1 \in Nat
      /\ journal.captures + 1 <= MaxCaptures
    BY <1>1, Constants DEF Journal, HasBudget
<1>3. /\ Counted \in Journal /\ Counted.ops = journal.ops /\ Counted.state = journal.state
      /\ Counted.revision = journal.revision + 1 /\ Counted.captures = journal.captures + 1
    BY <1>1, <1>2 DEF Counted, Journal
<1> QED BY <1>1, <1>2, <1>3 DEF JournalFits

NewOp(c) == [call |-> c, path |-> call[c].path, status |-> "pending",
             before |-> files[call[c].path], after |-> None, outcome |-> None]

LEMMA BegunIs ==
    ASSUME IInv, journal # None, HasBudget, Len(journal.ops) < MaxOps,
           NEW c \in Call, call[c].path \in Path
    PROVE  /\ JournalFits(Begun(c)) /\ Appends(journal, Begun(c), NewOp(c))
           /\ Begun(c).state = journal.state /\ Begun(c).revision = journal.revision + 1
           /\ IsPending(Begun(c))
<1>1. NewOp(c) \in Op
    BY DEF NewOp, Op, IInv, TypeOK
<1>2. /\ Counted \in Journal /\ Counted.ops = journal.ops /\ Counted.state = journal.state
      /\ Counted.revision = journal.revision + 1 /\ Counted.captures <= MaxCaptures
    BY CountedIs DEF JournalFits
<1> DEFINE s == Append(journal.ops, NewOp(c))
<1>3. journal.ops \in Seq(Op) /\ Len(journal.ops) \in Nat
    BY JournalShape DEF IInv, TypeOK
<1>4. /\ s \in Seq(Op) /\ Len(s) = Len(journal.ops) + 1
      /\ \A i \in 1..Len(journal.ops) : s[i] = journal.ops[i]
      /\ s[Len(journal.ops) + 1] = NewOp(c)
    BY <1>1, <1>3, AppendProperties
<1>5. Begun(c) = [Counted EXCEPT !.ops = s]
    BY <1>2 DEF Begun, NewOp
<1> HIDE DEF s
<1>6. /\ Begun(c) \in Journal /\ Begun(c).ops = s /\ Begun(c).state = journal.state
      /\ Begun(c).revision = journal.revision + 1 /\ Begun(c).captures <= MaxCaptures
    BY <1>2, <1>4, <1>5 DEF Journal
<1>7. Len(s) <= MaxOps /\ Len(s) > 0
    BY <1>3, <1>4, Constants
<1>8. IsPending(Begun(c))
    BY <1>4, <1>6, <1>7, JournalShape DEF NewOp
<1> QED BY <1>4, <1>6, <1>7, <1>8 DEF JournalFits, Appends

LEMMA CompletedIs ==
    ASSUME IInv, journal # None, HasBudget, IsPending(journal),
           NEW c \in Call, call[c].path \in Path
    PROVE  /\ JournalFits(Completed(c)) /\ Closes(journal, Completed(c), files[call[c].path])
           /\ Completed(c).state = journal.state
           /\ Completed(c).revision = journal.revision + 1
<1> DEFINE n == Len(journal.ops)
           o == journal.ops[n]
           outcome == IF call[c].error THEN "failed" ELSE "succeeded"
           x == [o EXCEPT !.status = "completed", !.after = files[call[c].path],
                          !.outcome = outcome]
           s == [journal.ops EXCEPT ![n] = x]
<1>1. /\ Counted \in Journal /\ Counted.ops = journal.ops /\ Counted.state = journal.state
      /\ Counted.revision = journal.revision + 1 /\ Counted.captures <= MaxCaptures
      /\ n <= MaxOps
    BY CountedIs DEF JournalFits
<1>2. journal.ops \in Seq(Op) /\ n \in Nat /\ n > 0 /\ n \in 1..n /\ o \in Op
    BY JournalShape DEF IInv, TypeOK
<1>3. files[call[c].path] \in Identity
    BY DEF IInv, TypeOK
<1>4. outcome \in {"succeeded", "failed", None}
    OBVIOUS
<1> HIDE DEF outcome, o
<1>5. /\ x \in Op /\ x.call = o.call /\ x.path = o.path /\ x.before = o.before
      /\ x.status = "completed" /\ x.after = files[call[c].path]
    BY <1>2, <1>3, <1>4 DEF Op
<1> HIDE DEF x
<1>6. /\ s \in Seq(Op) /\ Len(s) = n
      /\ \A i \in 1..n : s[i] = IF i = n THEN x ELSE journal.ops[i]
    BY <1>2, <1>5, ExceptSeq
<1>7. Completed(c) = [Counted EXCEPT !.ops = s]
    BY <1>1 DEF Completed, x, o, outcome
<1> HIDE DEF s
<1>8. /\ Completed(c) \in Journal /\ Completed(c).ops = s
      /\ Completed(c).state = journal.state
      /\ Completed(c).revision = journal.revision + 1 /\ Completed(c).captures <= MaxCaptures
    BY <1>1, <1>6, <1>7 DEF Journal
<1>9. Closes(journal, Completed(c), files[call[c].path])
    <2>1. s[n] = x /\ \A i \in 1..(n - 1) : s[i] = journal.ops[i]
        BY <1>2, <1>6
    <2> QED BY <1>2, <1>5, <1>6, <1>8, <2>1 DEF Closes, o
<1> QED BY <1>1, <1>6, <1>8, <1>9 DEF JournalFits

LEMMA SealedIs ==
    ASSUME IInv, journal # None
    PROVE  JournalFits(Sealed) /\ Sealed.ops = journal.ops /\ Sealed.state = "SEALED"
<1>1. journal \in Journal /\ journal.captures <= MaxCaptures /\ Len(journal.ops) <= MaxOps
    BY DEF IInv, TypeOK
<1>2. journal.revision + 1 \in Nat
    BY <1>1 DEF Journal
<1>3. /\ Sealed \in Journal /\ Sealed.ops = journal.ops /\ Sealed.state = "SEALED"
      /\ Sealed.captures = journal.captures
    BY <1>1, <1>2 DEF Sealed, Journal
<1> QED BY <1>1, <1>3 DEF JournalFits

-----------------------------------------------------------------------------
(* A bracket is appended *)

\* The bracket of call c is appended where the file is as the last one on it left it.
Opens(c) ==
    /\ journal # None /\ journal' \in Journal /\ ~IsPending(journal)
    /\ Appends(journal, journal', NewOp(c)) /\ IsPending(journal')
    /\ Chained(call[c].path)

LEMMA ChainOpens == ASSUME IInv, NEW c \in Call, Opens(c) PROVE ChainIsUnbroken'
<1> DEFINE n == Len(journal.ops)
           x == NewOp(c)
<1>1. /\ journal \in Journal /\ n \in Nat /\ DOMAIN journal.ops = 1..n
      /\ Len(journal'.ops) = n + 1 /\ DOMAIN journal'.ops = 1..(n + 1)
      /\ \A i \in 1..n : journal'.ops[i] = journal.ops[i]
      /\ journal'.ops[n + 1] = x
    BY JournalShape DEF Opens, Appends, IInv, TypeOK
<1>2. \A i \in 1..n : journal.ops[i].status = "completed"
    <2> SUFFICES ASSUME NEW i \in 1..n PROVE journal.ops[i].status = "completed"
        OBVIOUS
    <2>1. n \in 1..n /\ n > 0 /\ (i = n \/ i < n)
        BY <1>1
    <2>2. CASE i = n
        <3>1. journal.ops[n].status \in {"pending", "completed"}
            BY <1>1, <2>1, JournalShape DEF Op
        <3> QED BY <1>1, <2>1, <2>2, <3>1, JournalShape DEF Opens
    <2>3. CASE i < n
        BY <1>1, <2>1, <2>3 DEF IInv, ChainIsUnbroken, Opens
    <2> QED BY <2>1, <2>2, <2>3
<1> SUFFICES ASSUME NEW i \in 1..(n + 1), NEW k \in 1..(n + 1), i < k
             PROVE  /\ journal'.ops[i].status = "completed"
                    /\ (journal'.ops[i].path = journal'.ops[k].path
                        /\ \A m \in (i + 1)..(k - 1) :
                              journal'.ops[m].path # journal'.ops[i].path)
                           => journal'.ops[k].before = journal'.ops[i].after
    BY <1>1 DEF ChainIsUnbroken
<1>3. i \in 1..n /\ journal'.ops[i] = journal.ops[i]
    BY <1>1
<1>4. CASE k \in 1..n
    <2>1. \A m \in (i + 1)..(k - 1) : m \in 1..n /\ journal'.ops[m] = journal.ops[m]
        BY <1>1, <1>3, <1>4, SMTT(30)
    <2>2. journal'.ops[k] = journal.ops[k]
        BY <1>1, <1>4
    <2>3. (journal.ops[i].path = journal.ops[k].path
           /\ \A m \in (i + 1)..(k - 1) : journal.ops[m].path # journal.ops[i].path)
              => journal.ops[k].before = journal.ops[i].after
        BY <1>1, <1>3, <1>4 DEF IInv, ChainIsUnbroken, Opens
    <2>4. (\A m \in (i + 1)..(k - 1) : journal'.ops[m].path # journal'.ops[i].path)
              => \A m \in (i + 1)..(k - 1) : journal.ops[m].path # journal.ops[i].path
        BY <1>3, <2>1
    <2> QED BY <1>2, <1>3, <2>2, <2>3, <2>4
<1>5. CASE k = n + 1
    <2> SUFFICES ASSUME journal.ops[i].path = x.path,
                        \A m \in (i + 1)..n : journal'.ops[m].path # journal.ops[i].path
                 PROVE  x.before = journal.ops[i].after
        BY <1>1, <1>2, <1>3, <1>5
    <2>1. i \in OpsOn(journal, x.path)
        BY <1>1, <1>3, OpsOnIs
    <2>2. \A m \in OpsOn(journal, x.path) : m <= i
        <3> SUFFICES ASSUME NEW m \in OpsOn(journal, x.path), ~(m <= i) PROVE FALSE
            OBVIOUS
        <3>1. m \in 1..n /\ journal.ops[m].path = x.path
            BY <1>1, OpsOnIs
        <3>2. m \in (i + 1)..n
            BY <1>1, <1>3, <3>1
        <3> QED BY <1>1, <3>1, <3>2
    <2>3. LastOn(journal, x.path) = journal.ops[i]
        BY <1>1, <2>1, <2>2, LastOnIs
    <2>4. x.path = call[c].path /\ x.before = files[call[c].path]
        BY DEF NewOp
    <2> HIDE DEF x
    <2> QED BY <2>1, <2>3, <2>4 DEF Opens, Chained
<1> QED BY <1>1, <1>4, <1>5

LEMMA ShownOpens ==
    ASSUME IInv, NEW c \in Call, Opens(c), UNCHANGED <<files, clock, foreign, stray, guards>>
    PROVE  Shown'
<1>1. NewOp(c).path = call[c].path
    BY DEF NewOp
<1>2. journal \in Journal /\ journal' # None
    BY Absent DEF IInv, TypeOK, Opens
<1>3. ForeignShows'
    <2> SUFFICES ASSUME NEW p \in foreign
                 PROVE  /\ OpsOn(journal', p) # {}
                        /\ LastOn(journal', p).status = "completed"
                        /\ LastOn(journal', p).after # files[p]
        BY <1>2 DEF ForeignShows
    <2>1. /\ OpsOn(journal, p) # {} /\ LastOn(journal, p).status = "completed"
          /\ LastOn(journal, p).after # files[p]
        BY DEF IInv, ForeignShows
    <2>2. p # call[c].path
        BY <2>1 DEF Opens, Chained
    <2>3. OpsOn(journal', p) = OpsOn(journal, p) /\ LastOn(journal', p) = LastOn(journal, p)
        BY <1>1, <1>2, <2>1, <2>2, AppendsLast DEF Opens
    <2> QED BY <2>1, <2>3
<1>4. StampsAreOld' /\ StrayShows'
    BY DEF IInv, StampsAreOld, StrayShows
<1> QED BY <1>3, <1>4 DEF Shown

\* The call runs, or is blocked because its parent could not be told.
LEMMA CallsOpens ==
    ASSUME IInv, NEW c \in Call, Opens(c), call[c].at = "begin", UNCHANGED wrote,
           \A d \in Call \ {c} : call'[d] = call[d], call'[c].path = call[c].path,
           rt'.up = rt.up,
           \/ call'[c].at = "blocked"
           \/ call'[c].at = "run" /\ rt'.pending = c /\ rt'.beginning = None
    PROVE  Calls'
<1> DEFINE n == Len(journal.ops)
<1>1. /\ n \in Nat /\ DOMAIN journal.ops = 1..n
      /\ Len(journal'.ops) = n + 1 /\ DOMAIN journal'.ops = 1..(n + 1)
      /\ \A i \in 1..n : journal'.ops[i] = journal.ops[i]
      /\ journal'.ops[n + 1] = NewOp(c) /\ journal' # None
    BY JournalShape, Absent DEF Opens, Appends, IInv, TypeOK
<1>2. NewOp(c).path = call[c].path /\ NewOp(c).call = c
    BY DEF NewOp
<1>3. \A d \in Call : d # c => call'[d].at \notin {"begin", "run", "ran"}
    BY Absent DEF IInv, OneCall
<1>4. OneCall'
    BY <1>3 DEF IInv, OneCall
<1>5. BracketIsOpen'
    <2>1. \A d \in Call : ~(call[d].at = "killed" /\ d \in wrote)
        BY DEF IInv, BracketIsOpen, Opens
    <2> QED BY <1>1, <1>2, <1>3, <2>1 DEF BracketIsOpen, LastOp, Opens
<1>6. WritersHaveOps'
    <2> SUFFICES ASSUME NEW d \in wrote
                 PROVE  /\ call'[d].at \in {"ran", "done", "killed"}
                        /\ \E i \in DOMAIN journal'.ops :
                              journal'.ops[i].call = d /\ journal'.ops[i].path = call'[d].path
        BY <1>1 DEF WritersHaveOps
    <2>1. /\ d \in Call /\ call[d].at \in {"ran", "done", "killed"} /\ d # c
          /\ \E i \in 1..n : journal.ops[i].call = d /\ journal.ops[i].path = call[d].path
        BY <1>1 DEF IInv, TypeOK, WritersHaveOps
    <2>2. \A i \in 1..n : i \in 1..(n + 1)
        BY <1>1
    <2> QED BY <1>1, <2>1, <2>2
<1> QED BY <1>4, <1>5, <1>6 DEF Calls

-----------------------------------------------------------------------------
(* The last bracket is closed *)

Shuts(c) ==
    /\ journal # None /\ journal' \in Journal /\ IsPending(journal) /\ LastOp.call = c
    /\ Closes(journal, journal', files[call[c].path])

LEMMA ChainShuts == ASSUME IInv, NEW c \in Call, Shuts(c) PROVE ChainIsUnbroken'
<1> DEFINE n == Len(journal.ops)
<1>1. /\ n \in Nat /\ n > 0 /\ DOMAIN journal.ops = 1..n
      /\ DOMAIN journal'.ops = 1..n
      /\ \A i \in 1..(n - 1) : journal'.ops[i] = journal.ops[i]
      /\ journal'.ops[n].path = journal.ops[n].path
      /\ journal'.ops[n].before = journal.ops[n].before
    BY JournalShape DEF Shuts, Closes, IInv, TypeOK
<1> SUFFICES ASSUME NEW i \in 1..n, NEW k \in 1..n, i < k
             PROVE  /\ journal'.ops[i].status = "completed"
                    /\ (journal'.ops[i].path = journal'.ops[k].path
                        /\ \A m \in (i + 1)..(k - 1) :
                              journal'.ops[m].path # journal'.ops[i].path)
                           => journal'.ops[k].before = journal'.ops[i].after
    BY <1>1 DEF ChainIsUnbroken
<1>2. i \in 1..(n - 1) /\ (k = n \/ k \in 1..(n - 1))
    BY <1>1
<1>3. \A m \in (i + 1)..(k - 1) : m \in 1..(n - 1)
    BY <1>1
<1>4. /\ journal'.ops[k].path = journal.ops[k].path
      /\ journal'.ops[k].before = journal.ops[k].before
    BY <1>1, <1>2
<1>5. /\ journal.ops[i].status = "completed"
      /\ (journal.ops[i].path = journal.ops[k].path
          /\ \A m \in (i + 1)..(k - 1) : journal.ops[m].path # journal.ops[i].path)
             => journal.ops[k].before = journal.ops[i].after
    BY <1>1 DEF IInv, ChainIsUnbroken, Shuts
<1>6. (\A m \in (i + 1)..(k - 1) : journal'.ops[m].path # journal'.ops[i].path)
          => \A m \in (i + 1)..(k - 1) : journal.ops[m].path # journal.ops[i].path
    BY <1>1, <1>2, <1>3
<1> QED BY <1>1, <1>2, <1>4, <1>5, <1>6

LEMMA ShownShuts ==
    ASSUME IInv, NEW c \in Call, Shuts(c), UNCHANGED <<files, clock, foreign, stray, guards>>
    PROVE  Shown'
<1> DEFINE n == Len(journal.ops)
           q == journal.ops[n].path
<1>1. journal \in Journal /\ journal' # None
    BY Absent DEF IInv, TypeOK, Shuts
<1>2. n \in 1..n /\ journal.ops[n].status = "pending" /\ \A i \in 1..n : i <= n
    BY <1>1, JournalShape DEF Shuts
<1>3. LastOn(journal, q) = journal.ops[n]
    <2>1. n \in OpsOn(journal, q) /\ \A k \in OpsOn(journal, q) : k <= n
        BY <1>1, <1>2, OpsOnIs
    <2> QED BY <1>1, <2>1, LastOnIs
<1>4. ForeignShows'
    <2> SUFFICES ASSUME NEW p \in foreign
                 PROVE  /\ OpsOn(journal', p) # {}
                        /\ LastOn(journal', p).status = "completed"
                        /\ LastOn(journal', p).after # files[p]
        BY <1>1 DEF ForeignShows
    <2>1. /\ OpsOn(journal, p) # {} /\ LastOn(journal, p).status = "completed"
          /\ LastOn(journal, p).after # files[p]
        BY DEF IInv, ForeignShows
    <2>2. p # q
        BY <1>2, <1>3, <2>1
    <2>3. OpsOn(journal', p) = OpsOn(journal, p) /\ LastOn(journal', p) = LastOn(journal, p)
        BY <1>1, <2>1, <2>2, ClosesLast DEF Shuts
    <2> QED BY <2>1, <2>3
<1>5. StampsAreOld' /\ StrayShows'
    BY DEF IInv, StampsAreOld, StrayShows
<1> QED BY <1>4, <1>5 DEF Shown

LEMMA CallsShuts ==
    ASSUME IInv, NEW c \in Call, Shuts(c), call[c].at = "ran", UNCHANGED wrote,
           \A d \in Call \ {c} : call'[d] = call[d], call'[c].path = call[c].path,
           rt'.up = rt.up, call'[c].at = "done"
    PROVE  Calls'
<1> DEFINE n == Len(journal.ops)
<1>1. /\ n \in Nat /\ DOMAIN journal.ops = 1..n /\ DOMAIN journal'.ops = 1..n
      /\ \A i \in 1..n : /\ journal'.ops[i].call = journal.ops[i].call
                         /\ journal'.ops[i].path = journal.ops[i].path
    <2>1. /\ n \in Nat /\ DOMAIN journal.ops = 1..n /\ Len(journal'.ops) = n
          /\ DOMAIN journal'.ops = 1..n /\ n > 0
        BY JournalShape DEF Shuts, Closes, IInv, TypeOK
    <2>2. \A i \in 1..n : i = n \/ i \in 1..(n - 1)
        BY <2>1
    <2> QED BY <2>1, <2>2 DEF Shuts, Closes
<1>2. \A d \in Call : d # c => call'[d].at \notin {"begin", "run", "ran"}
    BY Absent DEF IInv, OneCall
<1>3. OneCall'
    BY <1>2 DEF IInv, OneCall
<1>4. BracketIsOpen'
    <2>1. \A d \in Call : d # c => ~(call[d].at = "killed" /\ d \in wrote)
        BY DEF IInv, BracketIsOpen, Shuts
    <2> QED BY <1>2, <2>1 DEF BracketIsOpen
<1>5. WritersHaveOps'
    <2> SUFFICES ASSUME NEW d \in wrote
                 PROVE  /\ call'[d].at \in {"ran", "done", "killed"}
                        /\ \E i \in DOMAIN journal'.ops :
                              journal'.ops[i].call = d /\ journal'.ops[i].path = call'[d].path
        BY Absent DEF WritersHaveOps, Shuts
    <2>1. d \in Call /\ call'[d].path = call[d].path
        BY DEF IInv, TypeOK
    <2> QED BY <1>1, <2>1 DEF IInv, WritersHaveOps
<1> QED BY <1>3, <1>4, <1>5 DEF Calls

-----------------------------------------------------------------------------
(* The parent prepares *)

\* Before the worker is launched nothing is between two awaits.
LEMMA DownIsQuiet ==
    ASSUME IInv, ~rt.up, NEW c \in Call PROVE call[c].at \notin {"begin", "run", "ran"}
BY DEF IInv, OneCall

LEMMA CreateJournalIInv == ASSUME IInv, CreateJournal PROVE IInv'
<1> DEFINE initial == [state |-> "OPEN", revision |-> 0, captures |-> 0, ops |-> <<>>]
<1>1. /\ phase = "create" /\ journal = None /\ result = None /\ ~rt.up
      /\ guards["before"] = None
      /\ UNCHANGED <<files, clock, worker, obs, attempt, guards, result, history>>
    BY DEF CreateJournal, IInv, Phases
<1>2. \/ journal' = initial /\ phase' = "guard"
      \/ journal' \in {None, initial} /\ phase' = "failed"
    BY DEF CreateJournal
<1>3. initial \in Journal /\ Len(initial.ops) = 0 /\ initial.ops = <<>> /\ initial # None
    <2>1. <<>> \in Seq(Op) /\ Len(<<>>) = 0
        BY EmptySeq
    <2>2. initial \in Journal
        BY <2>1 DEF Journal
    <2>3. initial # None
        BY <2>2, Absent, Zenon
    <2>4. initial.ops = <<>>
        OBVIOUS
    <2> QED BY <2>1, <2>2, <2>3, <2>4, Zenon
<1>4. TypeOK'
    <2>1. journal' # None => journal'.captures <= MaxCaptures /\ Len(journal'.ops) <= MaxOps
        BY <1>2, <1>3, Constants
    <2> HIDE DEF initial
    <2> QED BY <1>1, <1>2, <1>3, <2>1 DEF IInv, TypeOK, worker, history
<1>5. Phases'
    BY <1>1, <1>2, <1>3 DEF IInv, Phases, worker
<1>6. wrote = {} /\ foreign = {} /\ stray = {}
    BY <1>1 DEF IInv, WritersHaveOps, ForeignShows, StrayShows
<1>7. Calls'
    <2>1. \A c \in Call : call'[c].at \notin {"begin", "run", "ran"}
        BY <1>1, DownIsQuiet DEF worker
    <2> QED BY <1>1, <1>6, <2>1 DEF Calls, OneCall, BracketIsOpen, WritersHaveOps, worker, history
<1>8. Shown'
    BY <1>1, <1>6 DEF IInv, Shown, ForeignShows, StampsAreOld, StrayShows, history
<1>9. ChainIsUnbroken'
    <2>1. journal' # None => DOMAIN journal'.ops = {}
        BY <1>2, <1>3
    <2> QED BY <2>1 DEF ChainIsUnbroken
<1> QED BY <1>1, <1>4, <1>5, <1>7, <1>8, <1>9, ResultNone DEF IInv, Calls, Shown

LEMMA GuardOfTyped ==
    ASSUME IInv
    PROVE  /\ GuardOf(files) \in [Path -> Identity \union {Clean}] /\ GuardOf(files) # None
           /\ \A p \in Path : GuardOf(files)[p] \in {Clean, files[p]}
<1>1. files \in [Path -> Identity]
    BY DEF IInv, TypeOK
<1>2. GuardOf(files) \in [Path -> Identity \union {Clean}]
    BY <1>1 DEF GuardOf
<1> QED BY <1>2, Absent DEF GuardOf

LEMMA CollectBeforeGuardIInv == ASSUME IInv, CollectBeforeGuard PROVE IInv'
<1>1. /\ phase = "guard" /\ result = None /\ ~rt.up /\ guards["before"] = None
      /\ journal # None /\ journal.state = "OPEN"
      /\ UNCHANGED <<files, clock, journal, call, wire, obs, result, history>>
    BY DEF CollectBeforeGuard, IInv, Phases
<1>2. KeepsOps
    BY <1>1 DEF KeepsOps
<1>3. stray = {}
    BY <1>1 DEF IInv, StrayShows
<1>4. CASE phase' = "failed" /\ UNCHANGED <<guards, rt, attempt>>
    <2>1. TypeOK'
        BY <1>1, <1>4 DEF IInv, TypeOK, history
    <2>2. Phases'
        BY <1>1, <1>4 DEF IInv, Phases
    <2>3. Calls' /\ Shown' /\ ChainIsUnbroken'
        BY <1>1, <1>2, <1>4, CallsKept, ShownKept, ChainKept DEF history
    <2> QED BY <1>1, <2>1, <2>2, <2>3, ResultNone DEF IInv, Calls, Shown
<1>5. CASE /\ guards' = [guards EXCEPT !["before"] = GuardOf(files)]
           /\ rt' = FreshRuntime /\ attempt' = 1 /\ phase' = "running"
    <2>1. guards \in [{"before", "after"} -> [Path -> Identity \union {Clean}] \union {None}]
        BY DEF IInv, TypeOK
    <2>2. guards' \in [{"before", "after"} -> [Path -> Identity \union {Clean}] \union {None}]
          /\ guards'["before"] = GuardOf(files) /\ guards'["after"] = guards["after"]
        BY <1>5, <2>1, GuardOfTyped
    <2>3. rt' \in Runtime /\ rt'.up
        BY <1>5 DEF FreshRuntime, Runtime
    <2>4. TypeOK'
        BY <1>1, <1>5, <2>2, <2>3, Constants DEF IInv, TypeOK, history
    <2>5. Phases'
        BY <1>1, <1>5, <2>2, <2>3, GuardOfTyped DEF IInv, Phases
    <2>6. Calls'
        <3>1. \A c \in Call : call'[c].at \notin {"begin", "run", "ran"}
            BY <1>1, DownIsQuiet
        <3>2. OneCall'
            BY <3>1 DEF OneCall
        <3>3. BracketIsOpen' /\ WritersHaveOps'
            BY <1>1 DEF IInv, BracketIsOpen, WritersHaveOps, LastOp, history
        <3> QED BY <3>2, <3>3 DEF Calls
    <2>7. Shown'
        <3>1. ForeignShows'
            BY <1>1 DEF IInv, ForeignShows, history
        <3>2. StampsAreOld'
            BY <1>1, <2>2, GuardOfTyped DEF IInv, StampsAreOld
        <3>3. StrayShows'
            BY <1>1, <1>3 DEF StrayShows, history
        <3> QED BY <3>1, <3>2, <3>3 DEF Shown
    <2> QED BY <1>1, <1>2, <2>4, <2>5, <2>6, <2>7, ChainKept, ResultNone DEF IInv, Calls, Shown
<1> QED BY <1>4, <1>5, Zenon DEF CollectBeforeGuard

-----------------------------------------------------------------------------
(* The bridge in the worker process *)

LEMMA Moved ==
    ASSUME IInv, NEW c \in Call,
           NEW l \in {"new", "begin", "run", "ran", "blocked", "done", "killed"}, At(c, l)
    PROVE  /\ call' \in [Call -> ToolCall] /\ call'[c].at = l
           /\ call'[c].path = call[c].path
           /\ \A d \in Call \ {c} : call'[d] = call[d]
<1>1. call \in [Call -> ToolCall] /\ call[c] \in ToolCall
    BY DEF IInv, TypeOK
<1>2. call' = [call EXCEPT ![c] = [call[c] EXCEPT !.at = l]]
    BY DEF At
<1>3. /\ [call[c] EXCEPT !.at = l] \in ToolCall
      /\ [call[c] EXCEPT !.at = l].at = l /\ [call[c] EXCEPT !.at = l].path = call[c].path
    BY <1>1 DEF ToolCall
<1> QED BY <1>1, <1>2, <1>3

LEMMA Poisoned ==
    ASSUME IInv, NEW o \in {"succeeded", "failed", None}, NEW r \in Nat,
           NEW b \in Call \union {None}, Poison(o, r, b)
    PROVE  /\ rt' \in Runtime /\ wire' \in Seq(Telemetry)
           /\ rt'.up = rt.up /\ rt'.pending = rt.pending /\ rt'.beginning = b
<1>1. rt \in Runtime /\ wire \in Seq(Telemetry)
    BY DEF IInv, TypeOK
<1> DEFINE t == [phase |-> "failure", outcome |-> o, revision |-> r]
<1>2. t \in Telemetry
    BY DEF Telemetry
<1>3. Append(wire, t) \in Seq(Telemetry)
    BY <1>1, <1>2, AppendProperties
<1>4. /\ rt' \in Runtime
      /\ rt'.up = rt.up /\ rt'.pending = rt.pending /\ rt'.beginning = b
    BY <1>1 DEF Poison, Runtime
<1> QED BY <1>1, <1>3, <1>4 DEF Poison

\* What the bridge does leaves the files, the phases and the guards alone.
LEMMA BridgeStep ==
    ASSUME IInv, rt.up, UNCHANGED <<files, clock, parent, history>>,
           rt' \in Runtime, call' \in [Call -> ToolCall], wire' \in Seq(Telemetry),
           rt'.up = rt.up,
           journal' = journal \/ (JournalFits(journal') /\ journal'.state = journal.state),
           Calls', Shown', ChainIsUnbroken'
    PROVE  IInv'
<1>1. phase = "running" /\ result = None /\ journal # None
    BY DEF IInv, Phases
<1>2. TypeOK'
    BY <1>1 DEF IInv, TypeOK, parent, history, JournalFits
<1>3. Phases'
    BY <1>1, Absent DEF IInv, Phases, parent, JournalFits
<1>4. ForeignEditConflicts'
    BY <1>1, ResultNone DEF parent
<1> QED BY <1>2, <1>3, <1>4 DEF IInv, Calls, Shown

LEMMA beginToolCallIInv ==
    ASSUME IInv, NEW c \in Call, NEW p \in Path, beginToolCall(c, p) PROVE IInv'
<1>1. /\ rt.up /\ call[c].at = "new" /\ KeepsOps
      /\ UNCHANGED <<files, clock, journal, parent, history>>
    BY DEF beginToolCall, KeepsOps
<1>2. rt \in Runtime /\ wire \in Seq(Telemetry) /\ call \in [Call -> ToolCall]
      /\ call[c] \in ToolCall
    BY DEF IInv, TypeOK
<1>3. Shown' /\ ChainIsUnbroken'
    BY <1>1, ShownKept, ChainKept DEF parent, history
<1>4. CASE /\ rt.pending = None /\ rt.beginning = None
           /\ call' = [call EXCEPT ![c].at = "begin", ![c].path = p]
           /\ rt' = [rt EXCEPT !.beginning = c] /\ UNCHANGED wire
    <2> DEFINE x == [call[c] EXCEPT !.at = "begin", !.path = p]
    <2>1. x \in ToolCall /\ x.at = "begin" /\ x.path = p
        BY <1>2 DEF ToolCall
    <2>2. call' = [call EXCEPT ![c] = x]
        BY <1>2, <1>4
    <2> HIDE DEF x
    <2>3. /\ call' \in [Call -> ToolCall] /\ call'[c].at = "begin" /\ call'[c].path = p
          /\ \A d \in Call \ {c} : call'[d] = call[d]
        BY <1>2, <2>1, <2>2
    <2>4. rt' \in Runtime /\ rt'.up = rt.up /\ rt'.beginning = c /\ rt'.pending = rt.pending
        BY <1>2, <1>4 DEF Runtime
    <2>5. \A d \in Call : call[d].at \notin {"begin", "run", "ran"}
        BY <1>4, Absent DEF IInv, OneCall
    <2>6. OneCall'
        BY <1>1, <1>4, <2>3, <2>4, <2>5 DEF OneCall
    <2>7. BracketIsOpen'
        BY <1>1, <2>3 DEF IInv, BracketIsOpen, LastOp, history
    <2>8. WritersHaveOps'
        <3>1. c \notin wrote /\ wrote \subseteq Call
            BY <1>1 DEF IInv, TypeOK, WritersHaveOps
        <3> QED BY <1>1, <2>3, <3>1 DEF IInv, WritersHaveOps, history
    <2>9. Calls'
        BY <2>6, <2>7, <2>8 DEF Calls
    <2> QED BY <1>1, <1>2, <1>3, <1>4, <2>3, <2>4, <2>9, BridgeStep
<1>5. CASE At(c, "blocked") /\ rt' = [rt EXCEPT !.blocked = @ \union {c}] /\ UNCHANGED wire
    <2>1. /\ rt' \in Runtime /\ rt'.up = rt.up /\ rt'.beginning = rt.beginning
          /\ rt'.pending = rt.pending
        BY <1>2, <1>5 DEF Runtime
    <2>2. Calls'
        BY <1>1, <1>5, <2>1, Moved, CallsRetire DEF history
    <2> QED BY <1>1, <1>2, <1>3, <1>5, <2>1, <2>2, Moved, BridgeStep
<1>6. CASE At(c, "blocked") /\ Poison(None, rt.revision, rt.beginning)
    <2>1. rt.revision \in Nat /\ rt.beginning \in Call \union {None}
        BY <1>2 DEF Runtime
    <2>2. /\ rt' \in Runtime /\ wire' \in Seq(Telemetry) /\ rt'.up = rt.up
          /\ rt'.beginning = rt.beginning /\ rt'.pending = rt.pending
        BY <1>6, <2>1, Poisoned
    <2>3. Calls'
        BY <1>1, <1>6, <2>2, Moved, CallsRetire DEF history
    <2> QED BY <1>1, <1>3, <1>6, <2>2, <2>3, Moved, BridgeStep
<1> QED BY <1>4, <1>5, <1>6, Zenon DEF beginToolCall

LEMMA beginWriteJournalOperationIInv ==
    ASSUME IInv, NEW c \in Call, beginWriteJournalOperation(c) PROVE IInv'
<1> DEFINE admissible == /\ journal.state = "OPEN" /\ ~IsPending(journal)
                         /\ \A i \in DOMAIN journal.ops : journal.ops[i].call # c
                         /\ Len(journal.ops) < MaxOps
           capturable == admissible /\ HasBudget
<1>1. /\ rt.up /\ call[c].at = "begin" /\ call[c].path \in Path
      /\ UNCHANGED <<files, clock, parent, history>>
      /\ journal # None /\ journal \in Journal /\ journal.revision \in Nat
    BY DEF beginWriteJournalOperation, IInv, OneCall, Phases, TypeOK, Journal
<1>2. rt \in Runtime /\ wire \in Seq(Telemetry) /\ rt.revision \in Nat /\ rt.pending = None
    BY <1>1 DEF IInv, TypeOK, Runtime, OneCall
\* The bracket is published.
<1>3. ASSUME capturable, Chained(call[c].path), journal' = Begun(c), rt' \in Runtime,
             wire' \in Seq(Telemetry), rt'.up = rt.up,
             \/ At(c, "blocked")
             \/ At(c, "run") /\ rt'.pending = c /\ rt'.beginning = None
      PROVE  IInv'
    <2>1. Opens(c) /\ JournalFits(journal') /\ journal'.state = journal.state
        BY <1>1, <1>3, BegunIs DEF Opens, JournalFits
    <2>2. Shown' /\ ChainIsUnbroken'
        BY <1>1, <2>1, ShownOpens, ChainOpens DEF parent, history
    <2>3. Calls' /\ call' \in [Call -> ToolCall]
        <3>1. CASE At(c, "blocked")
            BY <1>1, <1>3, <2>1, <3>1, Moved, CallsOpens DEF history
        <3>2. CASE At(c, "run") /\ rt'.pending = c /\ rt'.beginning = None
            BY <1>1, <1>3, <2>1, <3>2, Moved, CallsOpens DEF history
        <3> QED BY <1>3, <3>1, <3>2
    <2> QED BY <1>1, <1>3, <2>1, <2>2, <2>3, BridgeStep
\* At most the meter is published.
<1>4. ASSUME At(c, "blocked"), journal' = journal \/ (capturable /\ journal' = Counted),
             NEW r \in Nat, Poison(None, r, None)
      PROVE  IInv'
    <2>1. /\ rt' \in Runtime /\ wire' \in Seq(Telemetry) /\ rt'.up = rt.up
        BY <1>4, Poisoned
    <2>2. /\ KeepsOps
          /\ journal' = journal \/ (JournalFits(journal') /\ journal'.state = journal.state)
        BY <1>1, <1>4, CountedIs DEF KeepsOps, JournalFits
    <2>3. Shown' /\ ChainIsUnbroken'
        BY <1>1, <2>2, ShownKept, ChainKept DEF parent, history
    <2>4. Calls' /\ call' \in [Call -> ToolCall]
        BY <1>1, <1>4, <2>1, <2>2, Moved, CallsRetire DEF history
    <2> QED BY <1>1, <2>1, <2>2, <2>3, <2>4, BridgeStep
<1>5. CASE /\ capturable /\ Chained(call[c].path) /\ journal' = Begun(c) /\ At(c, "run")
           /\ wire' = Append(wire, [phase |-> "begin", outcome |-> None,
                                    revision |-> journal.revision + 1])
           /\ rt' = [rt EXCEPT !.beginning = None, !.pending = c,
                               !.revision = journal.revision + 1]
    <2> DEFINE r == journal.revision + 1
    <2>0. r \in Nat
        BY <1>1
    <2> HIDE DEF r
    <2>1. /\ rt' \in Runtime /\ rt'.up = rt.up /\ rt'.pending = c /\ rt'.beginning = None
        BY <1>2, <1>5, <2>0 DEF Runtime, r
    <2>2. wire' \in Seq(Telemetry)
        <3>1. [phase |-> "begin", outcome |-> None, revision |-> journal.revision + 1]
                \in Telemetry
            BY <1>1 DEF Telemetry
        <3> QED BY <1>2, <1>5, <3>1, AppendProperties
    <2> QED BY <1>3, <1>5, <2>1, <2>2
<1>6. CASE /\ capturable /\ Chained(call[c].path) /\ journal' = Begun(c) /\ At(c, "blocked")
           /\ rt' = [rt EXCEPT !.beginning = None, !.pending = c,
                               !.revision = journal.revision + 1, !.poisoned = TRUE]
           /\ UNCHANGED wire
    <2> DEFINE r == journal.revision + 1
    <2>0. r \in Nat
        BY <1>1
    <2> HIDE DEF r
    <2>1. /\ rt' \in Runtime /\ rt'.up = rt.up
        BY <1>2, <1>6, <2>0 DEF Runtime, r
    <2> QED BY <1>2, <1>3, <1>6, <2>1
<1>7. CASE /\ capturable /\ Chained(call[c].path) /\ journal' = Begun(c) /\ At(c, "blocked")
           /\ Poison(None, journal.revision, None)
    <2>1. /\ rt' \in Runtime /\ wire' \in Seq(Telemetry) /\ rt'.up = rt.up
        BY <1>1, <1>7, Poisoned
    <2> QED BY <1>3, <1>7, <2>1
<1>8. CASE /\ At(c, "blocked") /\ UNCHANGED journal
           /\ Poison(None, journal.revision, None) \/ Poison(None, rt.revision, None)
    BY <1>1, <1>2, <1>4, <1>8
<1>9. CASE /\ capturable /\ journal' \in {Counted, journal} /\ At(c, "blocked")
           /\ Poison(None, journal.revision, None)
    BY <1>1, <1>4, <1>9
<1>10. journal' \in {Counted} \union (IF Faults THEN {journal} ELSE {})
          => journal' \in {Counted, journal}
    OBVIOUS
<1> HIDE DEF admissible
<1> QED BY <1>5, <1>6, <1>7, <1>8, <1>9, <1>10, Zenon DEF beginWriteJournalOperation, admissible

\* The files change at p, and the new stamp is one no guard has seen.
LEMMA StrayKept ==
    ASSUME IInv, NEW p \in Path, NEW f \in Identity, files' = [files EXCEPT ![p] = f],
           clock' = clock + 1, f = Missing \/ f.stamp = clock, UNCHANGED guards,
           \/ stray' = stray
           \/ stray' = stray \union {p} /\ guards["before"] # None /\ guards["after"] = None
    PROVE  StampsAreOld' /\ StrayShows'
<1>1. files \in [Path -> Identity] /\ clock \in Nat
    BY DEF IInv, TypeOK
<1>2. f.stamp < clock + 1
    BY <1>1 DEF Missing
<1>3. StampsAreOld'
    <2>1. \A q \in Path : files[q].stamp \in Nat /\ files[q].stamp < clock
        BY <1>1 DEF IInv, StampsAreOld, Identity
    <2>2. \A q \in Path : files'[q].stamp < clock + 1
        <3> SUFFICES ASSUME NEW q \in Path PROVE files'[q].stamp < clock + 1
            OBVIOUS
        <3>1. CASE q = p
            BY <1>1, <1>2, <3>1
        <3>2. CASE q # p
            BY <1>1, <2>1, <3>2
        <3> QED BY <3>1, <3>2
    <2>3. guards["before"] # None =>
              \A q \in Path : guards["before"][q] # Clean => guards["before"][q].stamp < clock + 1
        <3> SUFFICES ASSUME guards["before"] # None, NEW q \in Path, guards["before"][q] # Clean
                     PROVE  guards["before"][q].stamp < clock + 1
            OBVIOUS
        <3>1. guards["before"][q].stamp < clock
            BY DEF IInv, StampsAreOld
        <3>2. guards["before"][q].stamp \in Nat
            BY DEF IInv, TypeOK, Identity
        <3> QED BY <1>1, <3>1, <3>2
    <2> QED BY <2>2, <2>3 DEF StampsAreOld
<1>4. StrayShows'
    <2> SUFFICES ASSUME NEW q \in stray'
                 PROVE  /\ guards["before"] # None
                        /\ guards["before"][q] \notin {Clean, Missing} =>
                              /\ files'[q] # guards["before"][q]
                              /\ guards["after"] # None => guards["after"][q] # guards["before"][q]
        BY DEF StrayShows
    <2>1. q \in Path
        BY DEF IInv, TypeOK
    <2>2. guards["before"] # None
        BY DEF IInv, StrayShows
    <2>3. CASE q # p
        BY <1>1, <2>1, <2>3 DEF IInv, StrayShows
    <2>4. CASE q = p
        <3>1. guards["after"] = None \/ q \in stray
            BY <2>4
        <3>2. guards["before"][q] \notin {Clean, Missing} => files'[q] # guards["before"][q]
            <4> SUFFICES ASSUME guards["before"][q] \notin {Clean, Missing}
                         PROVE  f # guards["before"][q]
                BY <1>1, <2>4
            <4>1. guards["before"][q].stamp < clock
                BY <2>1, <2>2 DEF IInv, StampsAreOld
            <4> QED BY <1>1, <4>1
        <3> QED BY <2>2, <3>1, <3>2 DEF IInv, StrayShows
    <2> QED BY <2>3, <2>4
<1> QED BY <1>3, <1>4

LEMMA StampedIs ==
    ASSUME IInv, NEW new \in Content
    PROVE  /\ Stamped(new) \in Identity
           /\ Stamped(new) = Missing \/ Stamped(new).stamp = clock
BY Constants DEF Stamped, Missing, Identity, IInv, TypeOK

\* The path of an open bracket has it as its last one.
LEMMA OpenIsLast ==
    ASSUME IInv, journal # None, IsPending(journal)
    PROVE  /\ OpsOn(journal, LastOp.path) # {} /\ LastOn(journal, LastOp.path) = LastOp
           /\ LastOp.status = "pending"
<1> DEFINE n == Len(journal.ops)
<1>1. journal \in Journal
    BY DEF IInv, TypeOK
<1>2. n \in 1..n /\ journal.ops[n].status = "pending" /\ \A i \in 1..n : i <= n
    BY <1>1, JournalShape
<1>3. n \in OpsOn(journal, LastOp.path) /\ \A k \in OpsOn(journal, LastOp.path) : k <= n
    BY <1>1, <1>2, OpsOnIs DEF LastOp
<1> QED BY <1>1, <1>2, <1>3, LastOnIs DEF LastOp

LEMMA RunToolIInv == ASSUME IInv, NEW c \in Call, RunTool(c) PROVE IInv'
<1> DEFINE p == call[c].path
<1>1. /\ rt.up /\ call[c].at = "run" /\ p \in Path
      /\ UNCHANGED <<journal, rt, wire, parent, foreign, stray, edits>>
    BY DEF RunTool, IInv, OneCall
<1>2. /\ phase = "running" /\ result = None /\ journal # None /\ IsPending(journal)
      /\ LastOp.call = c /\ LastOp.path = p
    BY <1>1 DEF IInv, Phases, BracketIsOpen
<1>3. PICK error \in BOOLEAN :
        /\ call' = [call EXCEPT ![c].at = "ran", ![c].error = error]
        /\ \/ UNCHANGED <<files, clock, wrote>>
           \/ /\ wrote' = wrote \union {c} /\ clock' = clock + 1
              /\ \E new \in Content : files' = [files EXCEPT ![p] = Stamped(new)]
    BY DEF RunTool
<1>4. /\ call' \in [Call -> ToolCall] /\ call'[c].at = "ran" /\ call'[c].path = p
      /\ \A d \in Call \ {c} : call'[d] = call[d]
    <2> DEFINE x == [call[c] EXCEPT !.at = "ran", !.error = error]
    <2>1. call \in [Call -> ToolCall] /\ call[c] \in ToolCall
        BY DEF IInv, TypeOK
    <2>2. x \in ToolCall /\ x.at = "ran" /\ x.path = p
        BY <2>1 DEF ToolCall
    <2>3. call' = [call EXCEPT ![c] = x]
        BY <1>3, <2>1
    <2> HIDE DEF x
    <2> QED BY <2>1, <2>2, <2>3
<1>5. wrote' \in {wrote, wrote \union {c}}
    BY <1>3
<1>6. Calls'
    <2>1. OneCall'
        BY <1>1, <1>4 DEF IInv, OneCall
    <2>2. BracketIsOpen'
        <3>1. \A d \in Call : d # c => ~(call[d].at = "killed" /\ d \in wrote)
                                       /\ call[d].at \notin {"run", "ran"}
            BY <1>2 DEF IInv, BracketIsOpen
        <3> QED BY <1>1, <1>2, <1>4, <1>5, <3>1 DEF BracketIsOpen, LastOp
    <2>3. WritersHaveOps'
        <3> SUFFICES ASSUME NEW d \in wrote'
                     PROVE  /\ call'[d].at \in {"ran", "done", "killed"}
                            /\ \E i \in DOMAIN journal.ops :
                                  journal.ops[i].call = d /\ journal.ops[i].path = call'[d].path
            BY <1>1, <1>2 DEF WritersHaveOps
        <3>1. CASE d = c
            <4>1. Len(journal.ops) \in DOMAIN journal.ops
                BY <1>2, JournalShape DEF IInv, TypeOK
            <4> QED BY <1>2, <1>4, <3>1, <4>1 DEF LastOp
        <3>2. CASE d # c
            <4>1. d \in wrote /\ d \in Call
                BY <1>5, <3>2 DEF IInv, TypeOK
            <4> QED BY <1>4, <3>2, <4>1 DEF IInv, WritersHaveOps
        <3> QED BY <3>1, <3>2
    <2> QED BY <2>1, <2>2, <2>3 DEF Calls
<1>7. files' \in [Path -> Identity] /\ clock' \in Nat
    BY <1>1, <1>3, StampedIs DEF IInv, TypeOK
<1>8. Shown'
    <2>1. CASE UNCHANGED <<files, clock, wrote>>
        BY <1>1, <2>1, ShownKept DEF KeepsOps, parent
    <2>2. ASSUME NEW new \in Content, files' = [files EXCEPT ![p] = Stamped(new)],
                 clock' = clock + 1
          PROVE  Shown'
        <3>1. p \notin foreign
            BY <1>2, OpenIsLast DEF IInv, ForeignShows
        <3>2. \A q \in foreign : files'[q] = files[q]
            BY <2>2, <3>1 DEF IInv, TypeOK
        <3>3. ForeignShows'
            BY <1>1, <3>2 DEF IInv, ForeignShows
        <3>4. StampsAreOld' /\ StrayShows'
            BY <1>1, <2>2, StampedIs, StrayKept DEF parent
        <3> QED BY <3>3, <3>4 DEF Shown
    <2> QED BY <1>3, <2>1, <2>2
<1>9. TypeOK'
    BY <1>1, <1>4, <1>5, <1>7 DEF IInv, TypeOK, parent
<1>10. Phases' /\ ChainIsUnbroken'
    <2>1. ChainIsUnbroken'
        BY <1>1, ChainKept DEF KeepsOps
    <2>2. Phases'
        BY <1>1 DEF IInv, Phases, parent
    <2> QED BY <2>1, <2>2
<1>11. ForeignEditConflicts'
    BY <1>1, <1>2, ResultNone DEF parent
<1> QED BY <1>6, <1>8, <1>9, <1>10, <1>11 DEF IInv, Calls, Shown

LEMMA completeToolResultIInv ==
    ASSUME IInv, NEW c \in Call, completeToolResult(c) PROVE IInv'
<1> DEFINE outcome == IF call[c].error THEN "failed" ELSE "succeeded"
           r == journal.revision
           current == /\ journal.state = "OPEN" /\ IsPending(journal)
                      /\ r = rt.revision /\ journal.ops[Len(journal.ops)].call = c
           capturable == ~rt.poisoned /\ rt.pending = c /\ current /\ HasBudget
           told == IF ~rt.poisoned /\ rt.pending = c THEN outcome ELSE None
<1>1. /\ rt.up /\ call[c].at = "ran" /\ call[c].path \in Path /\ At(c, "done")
      /\ UNCHANGED <<files, clock, parent, history>>
    BY DEF completeToolResult, IInv, OneCall
<1>2. /\ journal # None /\ journal \in Journal /\ r \in Nat /\ r + 1 \in Nat
      /\ rt \in Runtime /\ wire \in Seq(Telemetry) /\ rt.revision \in Nat
      /\ rt.beginning \in Call \union {None}
    BY <1>1 DEF IInv, TypeOK, Phases, Runtime, Journal
<1>3. outcome \in {"succeeded", "failed", None} /\ told \in {"succeeded", "failed", None}
    OBVIOUS
<1>4. call' \in [Call -> ToolCall]
    BY <1>1, Moved
\* The bracket is closed.
<1>5. ASSUME capturable, journal' = Completed(c), rt' \in Runtime,
             wire' \in Seq(Telemetry), rt'.up = rt.up
      PROVE  IInv'
    <2>1. Shuts(c) /\ JournalFits(journal') /\ journal'.state = journal.state
        BY <1>1, <1>2, <1>5, CompletedIs DEF Shuts, JournalFits, LastOp
    <2>2. Shown' /\ ChainIsUnbroken'
        BY <1>1, <2>1, ShownShuts, ChainShuts DEF parent, history
    <2>3. Calls'
        BY <1>1, <1>5, <2>1, Moved, CallsShuts DEF history
    <2> QED BY <1>1, <1>4, <1>5, <2>1, <2>2, <2>3, BridgeStep
\* At most the meter is published.
<1>6. ASSUME journal' = journal \/ (capturable /\ journal' = Counted), rt' \in Runtime,
             wire' \in Seq(Telemetry), rt'.up = rt.up
      PROVE  IInv'
    <2>1. /\ KeepsOps
          /\ journal' = journal \/ (JournalFits(journal') /\ journal'.state = journal.state)
        BY <1>2, <1>6, CountedIs DEF KeepsOps, JournalFits
    <2>2. Shown' /\ ChainIsUnbroken'
        BY <1>1, <2>1, ShownKept, ChainKept DEF parent, history
    <2>3. Calls'
        BY <1>1, <1>6, <2>1, Moved, CallsRetire DEF history
    <2> QED BY <1>1, <1>4, <1>6, <2>1, <2>2, <2>3, BridgeStep
<1> HIDE DEF outcome, told
<1>7. CASE /\ capturable /\ journal' = Completed(c)
           /\ wire' = Append(wire, [phase |-> "complete", outcome |-> outcome, revision |-> r + 1])
           /\ rt' = [rt EXCEPT !.pending = None, !.revision = r + 1]
    <2>1. [phase |-> "complete", outcome |-> outcome, revision |-> r + 1] \in Telemetry
        BY <1>2, <1>3 DEF Telemetry
    <2>2. wire' \in Seq(Telemetry)
        BY <1>2, <1>7, <2>1, AppendProperties
    <2>3. rt' \in Runtime /\ rt'.up = rt.up
        BY <1>2, <1>7 DEF Runtime
    <2> QED BY <1>5, <1>7, <2>2, <2>3
<1>8. CASE /\ capturable /\ journal' = Completed(c) /\ UNCHANGED wire
           /\ rt' = [rt EXCEPT !.pending = None, !.revision = r + 1, !.poisoned = TRUE]
    <2>1. rt' \in Runtime /\ rt'.up = rt.up
        BY <1>2, <1>8 DEF Runtime
    <2> QED BY <1>2, <1>5, <1>8, <2>1
<1>9. ASSUME Poison(told, rt.revision, rt.beginning),
             \/ UNCHANGED journal
             \/ capturable /\ journal' \in {Counted, Completed(c)}
      PROVE  IInv'
    <2>1. rt' \in Runtime /\ wire' \in Seq(Telemetry) /\ rt'.up = rt.up
        BY <1>2, <1>3, <1>9, Poisoned
    <2> QED BY <1>5, <1>6, <1>9, <2>1
<1> QED BY <1>7, <1>8, <1>9, Zenon DEF completeToolResult, outcome, told

LEMMA BlockedResultIInv == ASSUME IInv, NEW c \in Call, BlockedResult(c) PROVE IInv'
<1>1. /\ rt.up /\ call[c].at = "blocked" /\ At(c, "done") /\ KeepsOps
      /\ UNCHANGED <<files, clock, journal, parent, history>>
    BY DEF BlockedResult, KeepsOps
<1>2. rt \in Runtime /\ rt.revision \in Nat /\ rt.beginning \in Call \union {None}
    BY DEF IInv, TypeOK, Runtime
<1>3. /\ rt' \in Runtime /\ wire' \in Seq(Telemetry) /\ rt'.up = rt.up
      /\ rt'.pending = rt.pending /\ rt'.beginning = rt.beginning
    <2>1. CASE rt' = [rt EXCEPT !.blocked = @ \ {c}] /\ UNCHANGED wire
        BY <1>2, <2>1 DEF Runtime, IInv, TypeOK
    <2>2. CASE Poison(None, rt.revision, rt.beginning)
        BY <1>2, <2>2, Poisoned
    <2> QED BY <2>1, <2>2 DEF BlockedResult
<1>4. Calls'
    BY <1>1, <1>3, Moved, CallsRetire DEF history
<1>5. Shown' /\ ChainIsUnbroken'
    BY <1>1, ShownKept, ChainKept DEF parent, history
<1> QED BY <1>1, <1>3, <1>4, <1>5, Moved, BridgeStep

\* A call that was not answered when the worker ended counts as killed.
Ended(c) == /\ call'[c].path = call[c].path
            /\ \/ call'[c].at = call[c].at /\ call[c].at \in {"new", "done", "killed"}
               \/ call'[c].at = "killed" /\ call[c].at \notin {"new", "done"}

LEMMA WorkerEndsIInv == ASSUME IInv, WorkerEnds PROVE IInv'
<1>1. /\ rt.up /\ rt' = [rt EXCEPT !.up = FALSE] /\ phase' = "returned" /\ KeepsOps
      /\ UNCHANGED <<files, clock, journal, obs, attempt, guards, result, history>>
    BY DEF WorkerEnds, KeepsOps
<1>2. phase = "running" /\ result = None
    BY <1>1 DEF IInv, Phases
<1>3. call \in [Call -> ToolCall] /\ wire \in Seq(Telemetry) /\ rt \in Runtime
    BY DEF IInv, TypeOK
<1>4. rt' \in Runtime /\ ~rt'.up
    BY <1>1, <1>3 DEF Runtime
<1>5. /\ wire' \in Seq(Telemetry) /\ call' \in [Call -> ToolCall]
      /\ \A c \in Call : Ended(c)
    <2>1. CASE (\A c \in Call : call[c].at \in {"new", "done"}) /\ UNCHANGED <<call, wire>>
        BY <1>3, <2>1 DEF Ended
    <2>2. ASSUME NEW n \in 0..Len(wire), wire' = SubSeq(wire, 1, n),
                 call' = [c \in Call |-> IF call[c].at \in {"new", "done"} THEN call[c]
                                         ELSE [call[c] EXCEPT !.at = "killed"]]
          PROVE  /\ wire' \in Seq(Telemetry) /\ call' \in [Call -> ToolCall]
                 /\ \A c \in Call : Ended(c)
        <3>1. wire' \in Seq(Telemetry)
            <4>1. \A i \in 1..n : wire[i] \in Telemetry
                BY <1>3, LenProperties, ElementOfSeq
            <4> QED BY <1>3, <2>2, <4>1, SubSeqProperties, LenProperties
        <3>2. \A c \in Call : /\ [call[c] EXCEPT !.at = "killed"] \in ToolCall
                              /\ [call[c] EXCEPT !.at = "killed"].at = "killed"
                              /\ [call[c] EXCEPT !.at = "killed"].path = call[c].path
            BY <1>3 DEF ToolCall
        <3> QED BY <1>3, <2>2, <3>1, <3>2 DEF Ended
    <2> QED BY <2>1, <2>2 DEF WorkerEnds
<1>6. TypeOK'
    BY <1>1, <1>4, <1>5 DEF IInv, TypeOK, history
<1>7. Phases'
    BY <1>1, <1>2, <1>4 DEF IInv, Phases
<1>8. Calls'
    <2>1. OneCall'
        BY <1>5 DEF OneCall, Ended
    <2>2. BracketIsOpen'
        <3> SUFFICES ASSUME NEW c \in Call, call'[c].at = "killed", c \in wrote
                     PROVE  /\ journal # None /\ IsPending(journal)
                            /\ LastOp.call = c /\ LastOp.path = call[c].path
            BY <1>1, <1>5 DEF BracketIsOpen, LastOp, Ended, history
        <3>1. call[c].at \in {"ran", "killed"}
            BY <1>5 DEF IInv, WritersHaveOps, Ended
        <3> QED BY <3>1 DEF IInv, BracketIsOpen
    <2>3. WritersHaveOps'
        <3>1. wrote \subseteq Call
            BY DEF IInv, TypeOK
        <3> QED BY <1>1, <1>5, <3>1 DEF IInv, WritersHaveOps, Ended, history
    <2> QED BY <2>1, <2>2, <2>3 DEF Calls
<1>9. Shown' /\ ChainIsUnbroken'
    BY <1>1, ShownKept, ChainKept DEF history
<1>10. ForeignEditConflicts'
    BY <1>1, <1>2, ResultNone
<1> QED BY <1>6, <1>7, <1>8, <1>9, <1>10 DEF IInv, Calls, Shown

LEMMA ExternalEditIInv == ASSUME IInv, NEW p \in Path, ExternalEdit(p) PROVE IInv'
<1> DEFINE touched == journal # None /\ OpsOn(journal, p) # {}
<1>1. PICK new \in Content :
          files[p] # Stamped(new) /\ files' = [files EXCEPT ![p] = Stamped(new)]
    BY DEF ExternalEdit
<1>2. /\ edits < MaxEdit /\ phase # "done" /\ clock' = clock + 1 /\ edits' = edits + 1
      /\ foreign' = IF ~touched \/ LastOn(journal, p).status = "pending" THEN foreign
                    ELSE IF files'[p] = LastOn(journal, p).after THEN foreign \ {p}
                    ELSE foreign \union {p}
      /\ stray' = IF guards["before"] # None /\ guards["after"] = None /\ ~touched
                  THEN stray \union {p} ELSE stray
      /\ UNCHANGED <<journal, worker, parent, wrote>>
    BY Zenon DEF ExternalEdit
<1>3. /\ Stamped(new) \in Identity /\ files \in [Path -> Identity]
      /\ Stamped(new) = Missing \/ Stamped(new).stamp = clock
    BY StampedIs DEF IInv, TypeOK
<1>4. files' \in [Path -> Identity] /\ files'[p] = Stamped(new)
      /\ \A q \in Path : q # p => files'[q] = files[q]
    BY <1>1, <1>3
<1>5. /\ foreign' \subseteq foreign \union {p} /\ stray' \subseteq stray \union {p}
      /\ edits' \in 0..MaxEdit /\ clock' \in Nat
    BY <1>2, Constants DEF IInv, TypeOK
<1>6. TypeOK'
    BY <1>2, <1>4, <1>5 DEF IInv, TypeOK, worker, parent
<1>7. Phases'
    BY <1>2 DEF IInv, Phases, worker, parent
<1>8. Calls' /\ ChainIsUnbroken'
    BY <1>2, CallsKept, ChainKept DEF KeepsOps, worker
<1>9. ForeignShows'
    <2> SUFFICES ASSUME NEW q \in foreign'
                 PROVE  /\ journal # None /\ OpsOn(journal, q) # {}
                        /\ LastOn(journal, q).status = "completed"
                        /\ LastOn(journal, q).after # files'[q]
        BY <1>2 DEF ForeignShows
    <2>1. CASE q # p
        <3>1. q \in foreign /\ q \in Path
            BY <1>5, <2>1 DEF IInv, TypeOK
        <3> QED BY <1>4, <2>1, <3>1 DEF IInv, ForeignShows
    <2>2. CASE q = p
        <3>1. touched /\ LastOn(journal, p).status # "pending"
            BY <1>2, <2>2 DEF IInv, ForeignShows
        <3>2. files'[p] # LastOn(journal, p).after
            BY <1>2, <2>2, <3>1
        <3>3. LastOn(journal, p).status \in {"pending", "completed"}
            <4>1. journal \in Journal
                BY <3>1 DEF IInv, TypeOK
            <4>2. PICK i \in OpsOn(journal, p) : LastOn(journal, p) = journal.ops[i]
                BY <3>1, <4>1, LastOnExists
            <4>3. journal.ops[i] \in Op
                BY <4>1, <4>2, OpsOnIs, JournalShape
            <4> QED BY <4>2, <4>3 DEF Op
        <3> QED BY <2>2, <3>1, <3>2, <3>3
    <2> QED BY <2>1, <2>2
<1>10. StampsAreOld' /\ StrayShows'
    <2>1. \/ stray' = stray
          \/ stray' = stray \union {p} /\ guards["before"] # None /\ guards["after"] = None
        BY <1>2
    <2> QED BY <1>1, <1>2, <1>3, <2>1, StrayKept DEF parent
<1>11. ForeignEditConflicts'
    <2>1. result' = None
        BY <1>2 DEF IInv, Phases, parent
    <2> QED BY <2>1, ResultNone
<1> QED BY <1>6, <1>7, <1>8, <1>9, <1>10, <1>11 DEF IInv, Calls

-----------------------------------------------------------------------------
(* The parent observes, hands over and finalizes *)

LEMMA ObserveIInv == ASSUME IInv, Observe PROVE IInv'
<1>1. /\ wire # <<>> /\ obs' = observe(obs, Head(wire)) /\ wire' = Tail(wire) /\ KeepsOps
      /\ UNCHANGED <<files, clock, journal, rt, call, phase, attempt, guards, result, history>>
    BY DEF Observe, KeepsOps
<1>2. Head(wire) \in Telemetry /\ wire' \in Seq(Telemetry)
    BY <1>1, HeadTailProperties DEF IInv, TypeOK
<1>3. observe(obs, Head(wire)) \in Observation
    <2> DEFINE t == Head(wire)
    <2>1. /\ obs \in Observation /\ obs.revision \in Nat
          /\ t.revision \in Nat /\ t.outcome \in {"succeeded", "failed", None}
        BY <1>2 DEF IInv, TypeOK, Observation, Telemetry
    <2>2. /\ [state |-> "failed", outcome |-> t.outcome, revision |-> t.revision] \in Observation
          /\ [state |-> "failed", outcome |-> None, revision |-> obs.revision] \in Observation
          /\ \A s \in {"begun", "complete"} :
                [state |-> s, outcome |-> t.outcome, revision |-> t.revision] \in Observation
        BY <2>1 DEF Observation
    <2> HIDE DEF t
    <2>3. observe(obs, t) \in Observation
        BY <2>1, <2>2 DEF observe
    <2> QED BY <2>3 DEF t
<1>4. TypeOK'
    BY <1>1, <1>2, <1>3 DEF IInv, TypeOK, history
<1>5. Phases'
    BY <1>1 DEF IInv, Phases
<1>6. Calls' /\ Shown' /\ ChainIsUnbroken'
    BY <1>1, CallsKept, ShownKept, ChainKept DEF history
<1>7. ForeignEditConflicts'
    BY <1>1, ResultKept DEF history
<1> QED BY <1>4, <1>5, <1>6, <1>7 DEF IInv, Calls, Shown

\* The parent goes from one phase without a result to the next.
LEMMA ParentStep ==
    ASSUME IInv, KeepsOps, UNCHANGED <<files, clock, worker, obs, attempt, guards, result, history>>,
           JournalFits(journal') \/ journal' = journal, phase # "done", Phases',
           phase' \in {"returned", "seal", "after", "failed"}
    PROVE  IInv'
<1>1. TypeOK'
    BY DEF IInv, TypeOK, JournalFits, worker, history
<1>2. Calls' /\ Shown' /\ ChainIsUnbroken'
    BY CallsKept, ShownKept, ChainKept DEF worker, history
<1>3. ForeignEditConflicts'
    BY ResultNone DEF IInv, Phases
<1> QED BY <1>1, <1>2, <1>3 DEF IInv, Calls, Shown

LEMMA HandOverIInv == ASSUME IInv, HandOver PROVE IInv'
<1>1. /\ phase = "returned" /\ attempt < MaxAttempt /\ result = None /\ ~rt.up /\ KeepsOps
      /\ UNCHANGED <<files, clock, journal, call, wire, obs, guards, result, history>>
    BY DEF HandOver, KeepsOps, IInv, Phases
<1>2. CASE rt' = FreshRuntime /\ attempt' = attempt + 1 /\ phase' = "running"
    <2>1. rt' \in Runtime /\ rt'.up
        BY <1>2 DEF FreshRuntime, Runtime
    <2>2. attempt' \in 0..MaxAttempt
        BY <1>1, <1>2, Constants DEF IInv, TypeOK
    <2>3. TypeOK'
        BY <1>1, <1>2, <2>1, <2>2 DEF IInv, TypeOK, history
    <2>4. Phases'
        BY <1>1, <1>2, <2>1 DEF IInv, Phases
    <2>5. Calls'
        <3>1. \A c \in Call : call'[c].at \notin {"begin", "run", "ran"}
            BY <1>1, DownIsQuiet
        <3>2. OneCall'
            BY <3>1 DEF OneCall
        <3>3. BracketIsOpen' /\ WritersHaveOps'
            BY <1>1 DEF IInv, BracketIsOpen, WritersHaveOps, LastOp, history
        <3> QED BY <3>2, <3>3 DEF Calls
    <2>6. Shown' /\ ChainIsUnbroken'
        BY <1>1, ShownKept, ChainKept DEF history
    <2> QED BY <1>1, <2>3, <2>4, <2>5, <2>6, ResultNone DEF IInv, Calls, Shown
<1>3. CASE phase' = "failed" /\ UNCHANGED <<rt, attempt>>
    <2>1. Phases'
        BY <1>1, <1>3 DEF IInv, Phases
    <2> QED BY <1>1, <1>3, <2>1, ParentStep DEF worker
<1> QED BY <1>2, <1>3 DEF HandOver

LEMMA CheckObservationIInv == ASSUME IInv, CheckObservation PROVE IInv'
<1>1. /\ phase = "returned" /\ phase' \in {"seal", "failed"} /\ KeepsOps
      /\ UNCHANGED <<files, clock, journal, worker, obs, attempt, guards, result, history>>
    BY DEF CheckObservation, KeepsOps
<1>2. Phases'
    BY <1>1 DEF IInv, Phases, worker
<1> QED BY <1>1, <1>2, ParentStep

LEMMA SealJournalIInv == ASSUME IInv, SealJournal PROVE IInv'
<1>1. /\ phase = "seal" /\ ~IsPending(journal) /\ journal # None
      /\ \/ journal' = Sealed /\ phase' = "after"
         \/ journal' \in {journal, Sealed} /\ phase' = "failed"
      /\ UNCHANGED <<files, clock, worker, obs, attempt, guards, result, history>>
    BY DEF SealJournal, IInv, Phases
<1>2. KeepsOps /\ (JournalFits(journal') \/ journal' = journal)
      /\ (journal' = Sealed => journal'.state = "SEALED")
    BY <1>1, SealedIs DEF KeepsOps, JournalFits
<1>3. journal' # None /\ ~IsPending(journal')
    BY <1>1, <1>2, KeptReads
<1>4. Phases'
    BY <1>1, <1>2, <1>3 DEF IInv, Phases, worker
<1> QED BY <1>1, <1>2, <1>4, ParentStep

LEMMA CollectAfterGuardIInv == ASSUME IInv, CollectAfterGuard PROVE IInv'
<1>1. /\ phase = "after" /\ result = None /\ KeepsOps
      /\ UNCHANGED <<files, clock, journal, worker, obs, attempt, result, history>>
    BY DEF CollectAfterGuard, KeepsOps, IInv, Phases
<1>2. CASE guards' = [guards EXCEPT !["after"] = GuardOf(files)] /\ phase' = "compute"
    <2>1. guards \in [{"before", "after"} -> [Path -> Identity \union {Clean}] \union {None}]
        BY DEF IInv, TypeOK
    <2>2. /\ guards' \in [{"before", "after"} -> [Path -> Identity \union {Clean}] \union {None}]
          /\ guards'["after"] = GuardOf(files) /\ guards'["before"] = guards["before"]
        BY <1>2, <2>1, GuardOfTyped
    <2>3. TypeOK'
        BY <1>1, <1>2, <2>2 DEF IInv, TypeOK, worker, history
    <2>4. Phases'
        BY <1>1, <1>2, <2>2, GuardOfTyped DEF IInv, Phases, worker
    <2>5. Calls' /\ ChainIsUnbroken'
        BY <1>1, CallsKept, ChainKept DEF worker, history
    <2>6. Shown'
        <3>1. ForeignShows'
            BY <1>1 DEF IInv, ForeignShows, history
        <3>2. StampsAreOld'
            BY <1>1, <2>2 DEF IInv, StampsAreOld
        <3>3. StrayShows'
            <4>1. \A p \in stray : GuardOf(files)[p] \in {Clean, files[p]}
                BY GuardOfTyped DEF IInv, TypeOK
            <4> QED BY <1>1, <2>2, <4>1 DEF IInv, StrayShows, history
        <3> QED BY <3>1, <3>2, <3>3 DEF Shown
    <2> QED BY <1>1, <2>3, <2>4, <2>5, <2>6, ResultNone DEF IInv, Calls, Shown
<1>3. CASE phase' = "failed" /\ UNCHANGED guards
    <2>1. Phases'
        BY <1>1, <1>3 DEF IInv, Phases, worker
    <2> QED BY <1>1, <1>3, <2>1, ParentStep
<1> QED BY <1>2, <1>3 DEF CollectAfterGuard

LEMMA computeChangeSetIInv == ASSUME IInv, computeChangeSet PROVE IInv'
<1>1. /\ phase = "compute" /\ KeepsOps /\ journal # None /\ journal \in Journal
      /\ guards["before"] # None /\ guards["after"] # None
      /\ UNCHANGED <<files, clock, journal, worker, obs, attempt, guards, history>>
    BY DEF computeChangeSet, KeepsOps, IInv, Phases, TypeOK
<1>2. \A p : p \in TouchedPaths(journal) <=> OpsOn(journal, p) # {}
    BY DEF TouchedPaths, OpsOn
<1>3. TouchedPaths(journal) \subseteq Path
    <2>1. \A i \in DOMAIN journal.ops : journal.ops[i].path \in Path
        BY <1>1, JournalShape DEF Op
    <2> QED BY <2>1, Zenon DEF TouchedPaths
<1>4. Calls' /\ Shown' /\ ChainIsUnbroken'
    BY <1>1, CallsKept, ShownKept, ChainKept DEF worker, history
<1>5. ASSUME result' = [status |-> IF Conflicts # {} THEN "CONFLICT"
                                   ELSE IF Drift # {} THEN "WORKSPACE_DRIFT" ELSE "ATTRIBUTED",
                        delta |-> IF Conflicts = {} THEN Delta ELSE {},
                        conflicts |-> Conflicts, drift |-> Drift],
             phase' = "done"
      PROVE  IInv'
    <2>1. Conflicts \subseteq Path /\ Drift \subseteq Path /\ Delta \subseteq Path
        BY <1>3 DEF Conflicts, Drift, Delta
    <2>2. /\ result' \in ChangeSet
          /\ result'.status = IF Conflicts # {} THEN "CONFLICT"
                              ELSE IF Drift # {} THEN "WORKSPACE_DRIFT" ELSE "ATTRIBUTED"
        BY <1>5, <2>1 DEF ChangeSet
    <2>3. TypeOK'
        BY <1>1, <1>5, <2>2 DEF IInv, TypeOK, worker, history
    <2>4. Phases'
        BY <1>1, <1>5 DEF IInv, Phases, worker
    <2>5. foreign # {} => result'.status = "CONFLICT"
        <3> SUFFICES ASSUME NEW p \in foreign PROVE Conflicts # {}
            BY <2>2
        <3>1. OpsOn(journal, p) # {} /\ LastOn(journal, p).after # files[p]
            BY DEF IInv, ForeignShows
        <3>2. p \in Conflicts
            BY <1>2, <3>1 DEF Conflicts
        <3> QED BY <3>2
    <2>6. ASSUME result'.status = "ATTRIBUTED", NEW p \in stray
          PROVE  \/ guards["before"][p] = Clean
                 \/ /\ p \in TouchedPaths(journal)
                    /\ FirstOn(journal, p).before = guards["before"][p]
                 \/ /\ p \notin TouchedPaths(journal)
                    /\ guards["before"][p] = Missing
        <3>1. Conflicts = {} /\ Drift = {} /\ p \in Path
            BY <2>2, <2>6 DEF IInv, TypeOK
        <3>2. CASE p \in TouchedPaths(journal)
            BY <3>1, <3>2 DEF Conflicts
        <3>3. CASE p \notin TouchedPaths(journal)
            <4>1. guards["before"][p] = guards["after"][p]
                BY <3>1, <3>3 DEF Drift
            <4> QED BY <1>1, <3>3, <4>1 DEF IInv, StrayShows
        <3> QED BY <3>2, <3>3
    <2>7. ForeignEditConflicts'
        BY <1>1, <2>5, <2>6, Zenon DEF ForeignEditConflicts, history
    <2> QED BY <1>4, <2>3, <2>4, <2>7 DEF IInv, Calls, Shown
<1>6. CASE phase' = "failed" /\ UNCHANGED result
    <2>1. Phases'
        BY <1>1, <1>6 DEF IInv, Phases, worker
    <2> QED BY <1>1, <1>6, <2>1, ParentStep
<1> QED BY <1>5, <1>6, Zenon DEF computeChangeSet

-----------------------------------------------------------------------------
(* The invariant *)

LEMMA InitIInv == ASSUME Init PROVE IInv
<1>1. PICK dirty \in SUBSET Path :
          files = [p \in Path |-> IF p \in dirty THEN [content |-> "dirty", stamp |-> 0]
                                  ELSE IF p \in Tracked THEN [content |-> "head", stamp |-> 0]
                                  ELSE Missing]
    BY DEF Init
<1>2. /\ clock = 1 /\ journal = None /\ wire = <<>> /\ obs = EmptyObservation
      /\ phase = "create" /\ attempt = 0 /\ result = None
      /\ guards = [g \in {"before", "after"} |-> None]
      /\ wrote = {} /\ foreign = {} /\ stray = {} /\ edits = 0
      /\ call = [c \in Call |-> [at |-> "new", path |-> None, error |-> FALSE]]
    BY DEF Init
<1>3. rt \in Runtime /\ ~rt.up
    BY DEF Init, FreshRuntime, Runtime
<1>4. \A p \in Path : files[p] \in Identity /\ files[p].stamp = 0
    <2>1. /\ [content |-> "dirty", stamp |-> 0] \in Identity
          /\ [content |-> "head", stamp |-> 0] \in Identity /\ Missing \in Identity
        BY Constants DEF Identity, Missing
    <2> QED BY <1>1, <2>1 DEF Missing
<1>5. files \in [Path -> Identity]
    BY <1>1, <1>4
<1>6. call \in [Call -> ToolCall] /\ \A c \in Call : call[c].at = "new"
    BY <1>2 DEF ToolCall
<1>7. obs \in Observation /\ wire \in Seq(Telemetry)
    BY <1>2 DEF EmptyObservation, Observation
<1>8. attempt \in 0..MaxAttempt /\ edits \in 0..MaxEdit
    BY <1>2, Constants
<1>9. /\ guards \in [{"before", "after"} -> [Path -> Identity \union {Clean}] \union {None}]
      /\ guards["before"] = None
    BY <1>2
<1>10. TypeOK
    BY <1>2, <1>3, <1>5, <1>6, <1>7, <1>8, <1>9 DEF TypeOK
<1>11. Phases
    BY <1>2, <1>3, <1>9 DEF Phases
<1>12. OneCall /\ BracketIsOpen /\ WritersHaveOps
    BY <1>2, <1>6 DEF OneCall, BracketIsOpen, WritersHaveOps
<1>13. ForeignShows /\ StampsAreOld /\ StrayShows
    BY <1>2, <1>4, <1>9 DEF ForeignShows, StampsAreOld, StrayShows
<1>14. ChainIsUnbroken /\ ForeignEditConflicts
    BY <1>2 DEF ChainIsUnbroken, ForeignEditConflicts
<1> QED BY <1>10, <1>11, <1>12, <1>13, <1>14 DEF IInv

LEMMA StutterIInv == ASSUME IInv, UNCHANGED vars PROVE IInv'
<1>1. UNCHANGED <<files, clock, journal, rt, call, wire, obs, phase, attempt, guards, result,
                  wrote, foreign, stray, edits>>
    BY DEF vars
<1>2. TypeOK' /\ Phases'
    BY <1>1 DEF IInv, TypeOK, Phases
<1>3. Calls' /\ Shown' /\ ChainIsUnbroken'
    BY <1>1, CallsKept, ShownKept, ChainKept DEF KeepsOps
<1>4. ForeignEditConflicts'
    BY <1>1, ResultKept
<1> QED BY <1>2, <1>3, <1>4 DEF IInv, Calls, Shown

LEMMA NextIInv == ASSUME IInv, [Next]_vars PROVE IInv'
<1>1. CASE UNCHANGED vars
    BY <1>1, StutterIInv
<1>2. CASE Next
    BY <1>2, CreateJournalIInv, CollectBeforeGuardIInv, WorkerEndsIInv, ObserveIInv,
       HandOverIInv, CheckObservationIInv, SealJournalIInv, CollectAfterGuardIInv,
       computeChangeSetIInv, StutterIInv, beginWriteJournalOperationIInv, RunToolIInv,
       completeToolResultIInv, BlockedResultIInv, beginToolCallIInv, ExternalEditIInv, Zenon
       DEF Next, Finished
<1> QED BY <1>1, <1>2

\* Journal, bridge and parent agree in every reachable state: one tool call at a time is
\* between beginToolCall and completeToolResult, its bracket is the open one at the end of
\* the journal, and the identities of files, guards and brackets tell every write apart.
THEOREM JournalIsConsistent == Spec => []IInv
<1>1. Init => IInv
    BY InitIInv
<1>2. IInv /\ [Next]_vars => IInv'
    BY NextIInv
<1> QED BY <1>1, <1>2, PTL DEF Spec

\* beginWriteJournalOperation is write-ahead: nothing the worker's tools wrote is missing
\* from the journal, and none of it is in an open bracket once sealWorkerWriteJournal has
\* returned, however often the worker was killed, poisoned or replaced.
THEOREM WritesAreJournaled == Spec => []EveryWriteIsJournaled
<1>1. ASSUME IInv PROVE EveryWriteIsJournaled
    <2>1. ASSUME phase \in {"after", "compute", "done"}, NEW c \in wrote
          PROVE  call[c].at = "done"
        <3>1. c \in Call /\ ~IsPending(journal) /\ call[c].at \in {"ran", "done", "killed"}
            BY <1>1, <2>1 DEF IInv, TypeOK, Phases, WritersHaveOps
        <3> QED BY <1>1, <3>1 DEF IInv, BracketIsOpen
    <2> QED BY <1>1, <2>1 DEF EveryWriteIsJournaled, IInv, WritersHaveOps
<1> QED BY <1>1, JournalIsConsistent, PTL

\* computeChangeSet tells an edit that somebody else makes outside the worker's open
\* brackets from the worker's: on a journaled path it is a conflict, unless it is undone
\* without a trace; on another one it is drift, leaves no trace, or the path was clean.
THEOREM ForeignEditsShow == Spec => []ForeignEditConflicts
<1>1. IInv => ForeignEditConflicts
    BY DEF IInv
<1> QED BY <1>1, JournalIsConsistent, PTL

\* What validateChain demands of every record: each bracket on a path starts in the identity
\* the one before it on that path ended in, and only the last operation may be open.
THEOREM BracketsAreChained == Spec => []ChainIsUnbroken
<1>1. IInv => ChainIsUnbroken
    BY DEF IInv
<1> QED BY <1>1, JournalIsConsistent, PTL

-----------------------------------------------------------------------------
(* The journal only grows *)

\* What a single mutation of the journal may do.
Grown(j, k) ==
    /\ j.state = "SEALED" => k = j
    /\ Len(k.ops) \in {Len(j.ops), Len(j.ops) + 1}
    /\ \A i \in DOMAIN j.ops : /\ j.ops[i].status = "completed" => k.ops[i] = j.ops[i]
                              /\ k.ops[i].before = j.ops[i].before
    /\ k.ops # j.ops => k.revision = j.revision + 1

LEMMA GrownBegun ==
    ASSUME IInv, journal # None, journal.state = "OPEN", HasBudget,
           Len(journal.ops) < MaxOps, NEW c \in Call, call[c].path \in Path
    PROVE  Grown(journal, Begun(c))
<1>1. DOMAIN journal.ops = 1..Len(journal.ops) /\ Len(journal.ops) \in Nat
    BY JournalShape DEF IInv, TypeOK
<1> QED BY <1>1, BegunIs DEF Grown, Appends

LEMMA GrownCompleted ==
    ASSUME IInv, journal # None, journal.state = "OPEN", HasBudget, IsPending(journal),
           NEW c \in Call, call[c].path \in Path
    PROVE  Grown(journal, Completed(c))
<1> DEFINE n == Len(journal.ops)
<1>1. DOMAIN journal.ops = 1..n /\ n \in Nat /\ n > 0 /\ journal.ops[n].status = "pending"
    BY JournalShape DEF IInv, TypeOK
<1>2. Closes(journal, Completed(c), files[call[c].path])
      /\ Completed(c).revision = journal.revision + 1
    BY CompletedIs
<1>3. ASSUME NEW i \in 1..n
      PROVE  /\ journal.ops[i].status = "completed" => Completed(c).ops[i] = journal.ops[i]
             /\ Completed(c).ops[i].before = journal.ops[i].before
    <2>1. CASE i = n
        BY <1>1, <1>2, <2>1 DEF Closes
    <2>2. CASE i \in 1..(n - 1)
        BY <1>2, <2>2 DEF Closes
    <2> QED BY <1>1, <2>1, <2>2
<1> QED BY <1>1, <1>2, <1>3 DEF Grown, Closes

LEMMA GrownKept ==
    ASSUME NEW j, NEW k, j.ops \in Seq(Op), k.ops = j.ops, j.state # "SEALED" \/ k = j
    PROVE  Grown(j, k)
BY DEF Grown

\* Which updates of the journal a step may make.
LEMMA JournalSteps ==
    ASSUME IInv, [Next]_vars, journal # None
    PROVE  \/ journal' = journal
           \/ HasBudget /\ journal.state = "OPEN" /\ journal' = Counted
           \/ phase = "seal" /\ journal' = Sealed
           \/ \E c \in Call : /\ journal.state = "OPEN" /\ HasBudget
                              /\ Len(journal.ops) < MaxOps /\ call[c].path \in Path
                              /\ journal' = Begun(c)
           \/ \E c \in Call : /\ journal.state = "OPEN" /\ HasBudget
                              /\ IsPending(journal) /\ call[c].path \in Path
                              /\ journal' = Completed(c)
<1>1. CASE journal' = journal
    BY <1>1
<1>2. CASE CreateJournal
    BY <1>2 DEF CreateJournal, IInv, Phases
<1>3. CASE SealJournal
    BY <1>3 DEF SealJournal
<1>4. ASSUME NEW c \in Call, beginWriteJournalOperation(c)
      PROVE  \/ journal' = journal
             \/ /\ HasBudget /\ journal.state = "OPEN" /\ Len(journal.ops) < MaxOps
                /\ journal' \in {Counted, Begun(c)}
    BY <1>4 DEF beginWriteJournalOperation
<1>5. ASSUME NEW c \in Call, completeToolResult(c)
      PROVE  \/ journal' = journal
             \/ /\ HasBudget /\ journal.state = "OPEN" /\ IsPending(journal)
                /\ journal' \in {Counted, Completed(c)}
    BY <1>5 DEF completeToolResult
<1>6. \A c \in Call : beginWriteJournalOperation(c) \/ completeToolResult(c)
                          => call[c].path \in Path
    BY DEF beginWriteJournalOperation, completeToolResult, IInv, OneCall
<1>7. [Next]_vars => \/ journal' = journal \/ CreateJournal \/ SealJournal
                     \/ \E c \in Call : beginWriteJournalOperation(c) \/ completeToolResult(c)
    BY DEF Next, vars, CollectBeforeGuard, WorkerEnds, Observe, HandOver, CheckObservation,
           CollectAfterGuard, computeChangeSet, Finished, RunTool, BlockedResult,
           beginToolCall, ExternalEdit
<1> QED BY <1>1, <1>2, <1>3, <1>4, <1>5, <1>6, <1>7

LEMMA NextGrows == ASSUME IInv, [Next]_vars, journal # None PROVE Grown(journal, journal')
<1>1. journal \in Journal /\ journal.ops \in Seq(Op)
    BY JournalShape DEF IInv, TypeOK
<1>2. CASE journal' = journal
    BY <1>1, <1>2, GrownKept
<1>3. CASE HasBudget /\ journal.state = "OPEN" /\ journal' = Counted
    BY <1>1, <1>3, CountedIs, GrownKept
<1>4. CASE phase = "seal" /\ journal' = Sealed
    <2>1. journal.state = "OPEN"
        BY <1>4 DEF IInv, Phases
    <2> QED BY <1>1, <1>4, <2>1, SealedIs, GrownKept
<1>5. ASSUME NEW c \in Call, journal.state = "OPEN", HasBudget, Len(journal.ops) < MaxOps,
             call[c].path \in Path, journal' = Begun(c)
      PROVE  Grown(journal, journal')
    BY <1>5, GrownBegun
<1>6. ASSUME NEW c \in Call, journal.state = "OPEN", HasBudget, IsPending(journal),
             call[c].path \in Path, journal' = Completed(c)
      PROVE  Grown(journal, journal')
    BY <1>6, GrownCompleted
<1> QED BY <1>2, <1>3, <1>4, <1>5, <1>6, JournalSteps

\* publishRecord replaces the whole journal, and still nobody rewrites history: a step
\* closes at most the last operation, appends at most one with the next revision, never
\* touches a closed one, and a sealed journal stays as it is.
THEOREM JournalOnlyGrows == Spec => JournalGrows
<1>1. IInv /\ [Next]_vars => [journal # None => Grown(journal, journal')]_vars
    BY NextGrows
<1>2. IInv /\ [Next]_vars =>
        [journal # None =>
            /\ journal.state = "SEALED" => journal' = journal
            /\ Len(journal'.ops) \in {Len(journal.ops), Len(journal.ops) + 1}
            /\ \A i \in DOMAIN journal.ops :
                  /\ journal.ops[i].status = "completed" => journal'.ops[i] = journal.ops[i]
                  /\ journal'.ops[i].before = journal.ops[i].before
            /\ journal'.ops # journal.ops => journal'.revision = journal.revision + 1]_vars
    BY <1>1 DEF Grown
<1> QED BY <1>2, JournalIsConsistent, PTL DEF Spec, JournalGrows

=============================================================================
