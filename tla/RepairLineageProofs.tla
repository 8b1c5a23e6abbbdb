------------------------ MODULE RepairLineageProofs ------------------------
(***************************************************************************)
(* The graph of delegations and repairs for any number of delegations,     *)
(* sessions and paths, and any number of faults and restorations.          *)
(***************************************************************************)
EXTENDS RepairLineage, SequenceTheorems, WellFoundedInduction, TLAPS

-----------------------------------------------------------------------------
(* Least and greatest elements                                             *)

LEMMA LeastIn ==
    ASSUME NEW R, IsWellFoundedOn(R, Nat), \A x, y \in Nat : y < x => <<y, x>> \in R,
           NEW T \in SUBSET Nat, T # {}
    PROVE  \E x \in T : \A y \in T : x <= y
<1>1. PICK x \in T : \A y \in T : ~(<<y, x>> \in R)
    BY WFMin
<1>2. ASSUME NEW y \in T PROVE x <= y
    <2>1. x \in Nat /\ y \in Nat
        OBVIOUS
    <2>2. ~(<<y, x>> \in R)
        BY <1>1
    <2>3. ~(y < x)
        BY <2>1, <2>2, Zenon
    <2> QED BY <2>1, <2>3
<1> QED BY <1>2

LEMMA HasLeast ==
    ASSUME NEW T \in SUBSET Nat, T # {}
    PROVE  \E x \in T : \A y \in T : x <= y
<1>1. \A x, y \in Nat : y < x => <<y, x>> \in OpToRel(<, Nat)
    BY DEF OpToRel
<1> QED BY <1>1, NatLessThanWellFounded, LeastIn

LEMMA HasGreatest ==
    ASSUME NEW n \in Nat, NEW X \in SUBSET (1..n), X # {}
    PROVE  \E x \in X : \A y \in X : y <= x
<1> DEFINE T == {m \in Nat : \E x \in X : m = n - x}
<1>1. PICK z \in X : TRUE
    OBVIOUS
<1>2. T \in SUBSET Nat /\ n - z \in T
    OBVIOUS
<1>3. PICK m \in T : \A y \in T : m <= y
    <2> HIDE DEF T
    <2> QED BY <1>2, HasLeast
<1>4. PICK x \in X : m = n - x
    OBVIOUS
<1>5. \A y \in X : n - y \in T
    OBVIOUS
<1> HIDE DEF T
<1>6. \A y \in X : n - x <= n - y
    BY <1>3, <1>4, <1>5
<1> QED BY <1>6

-----------------------------------------------------------------------------
(* The shapes the model is built from                                      *)

LEMMA RecordTyped ==
    ASSUME TypeOK, NEW d \in Ids
    PROVE  /\ d \in 1..Len(txn) /\ d \in 1..MaxTxn /\ d # 0
           /\ txn[d] \in Transaction
           /\ txn[d].st \in Status /\ txn[d].end \in End /\ txn[d].proof \in BOOLEAN
           /\ txn[d].parent \in 0..MaxTxn /\ txn[d].root \in 0..MaxTxn
           /\ txn[d].cont \in 0..MaxTxn
           /\ txn[d].allowed \subseteq Paths /\ txn[d].wrote \subseteq Paths
           /\ txn[d].changed \subseteq Paths /\ txn[d].carried \subseteq Paths
<1>1. d \in 1..Len(txn) /\ Len(txn) \in Nat /\ Len(txn) <= MaxTxn /\ txn[d] \in Transaction
    BY RepairLineageAssumption, LenProperties, ElementOfSeq DEF TypeOK, Ids
<1>2. d \in 1..MaxTxn /\ d # 0
    BY <1>1, RepairLineageAssumption
<1> QED BY <1>1, <1>2 DEF Transaction

LEMMA IdsAre == ASSUME TypeOK PROVE Len(txn) \in Nat /\ Ids = 1..Len(txn) /\ Len(txn) <= MaxTxn
BY LenProperties DEF TypeOK, Ids

LEMMA SessionTyped ==
    ASSUME TypeOK, NEW s \in Sessions
    PROVE  /\ session[s] \in Session
           /\ session[s].pc \in {"idle", "admitted", "run", "deliver", "closing"}
           /\ session[s].auth \in Authority \cup {None}
           /\ session[s].hash \in Hash \cup {None} /\ session[s].id \in 0..MaxTxn
           /\ (lane = s) <=> session[s].pc \in {"run", "deliver", "closing"}
BY DEF TypeOK, Session

\* A session that is not at rest holds the lane, and only one does.
LEMMA OneHolder ==
    ASSUME TypeOK, NEW s \in Sessions, NEW u \in Sessions,
           session[s].pc \in {"run", "deliver", "closing"},
           session[u].pc \in {"run", "deliver", "closing"}
    PROVE  s = u
BY SessionTyped

LEMMA IdleTyped ==
    ASSUME NEW d \in 0..MaxTxn
    PROVE  /\ Idle \in Session
           /\ [Idle EXCEPT !.pc = "run", !.id = d] \in Session
           /\ [Idle EXCEPT !.pc = "closing"] \in Session
<1>1. 0 \in 0..MaxTxn
    BY RepairLineageAssumption
<1> QED BY <1>1 DEF Idle, Session

\* The parts of a superseded or a live delegation.
LEMMA LiveIs ==
    ASSUME NEW d
    PROVE  /\ d \in Superseded <=> (\E r \in receipts : r.id = d)
                                    /\ HasReceipt(d, "closure") /\ Empty(d)
           /\ d \in Live <=> d \in Ids /\ IsRepair(d) /\ d \notin Superseded
BY DEF Superseded, Live

-----------------------------------------------------------------------------
(* Ancestors                                                               *)

LEMMA ParentIs ==
    ASSUME IInv, NEW d \in Lineaged
    PROVE  d \in Ids /\ txn[d].parent \in Ids /\ txn[d].parent < d
<1>1. d \in Ids /\ txn[d].parent # 0
    BY DEF Lineaged, IsRepair
<1>2. txn[d].parent < d
    BY <1>1 DEF IInv, RecordsFit
<1>3. Len(txn) \in Nat /\ Ids = 1..Len(txn) /\ txn[d].parent \in 0..MaxTxn
    BY <1>1, IdsAre, RecordTyped DEF IInv
<1>4. MaxTxn \in Nat
    BY RepairLineageAssumption
<1> QED BY <1>1, <1>2, <1>3, <1>4

\* The parent is an ancestor, and so are its ancestors.
LEMMA AncestorsGrow ==
    ASSUME IInv, NEW d \in Lineaged
    PROVE  txn[d].parent \in Ancestors(d) /\ Ancestors(txn[d].parent) \subseteq Ancestors(d)
<1> DEFINE p == txn[d].parent
<1>1. d \in Ids /\ p \in Ids /\ p # 0
    BY ParentIs DEF Lineaged, IsRepair
<1>2. ASSUME NEW A \in SUBSET Ids, Closes(A, d) PROVE p \in A /\ Closes(A, p)
    <2>1. p \in A
        BY <1>1, <1>2, Zenon DEF Closes
    <2> QED BY <2>1, <1>2, Zenon DEF Closes
<1> QED BY <1>1, <1>2, Zenon DEF Ancestors

\* What holds of the parent of d and passes from a member to its parent holds of every ancestor.
LEMMA AncestorsWithin ==
    ASSUME NEW d, NEW A \in SUBSET Ids, Closes(A, d)
    PROVE  Ancestors(d) \subseteq A
BY Zenon DEF Ancestors

\* A repair carries whatever its ancestors carried or committed.
LEMMA ChainCarries ==
    ASSUME IInv, NEW c \in Ids, NEW a \in Ancestors(c)
    PROVE  /\ a \in Ids /\ a < c /\ txn[a].carried \subseteq txn[c].carried
           /\ txn[a].proof => txn[a].changed \subseteq txn[c].carried
<1> DEFINE A == {x \in Ids : /\ x < c /\ txn[x].carried \subseteq txn[c].carried
                             /\ txn[x].proof => txn[x].changed \subseteq txn[c].carried}
<1>1. ASSUME NEW x \in A \cup {c} PROVE txn[x].parent \in A \cup {0}
    <2>1. CASE txn[x].parent = 0
        BY <2>1
    <2>2. CASE txn[x].parent # 0
        <3> DEFINE p == txn[x].parent
        <3>1. x \in Ids /\ x <= c /\ txn[x].carried \subseteq txn[c].carried
            <4>1. Ids \subseteq Nat
                BY IdsAre DEF IInv
            <4> QED BY <4>1
        <3>2. x \in Lineaged
            BY <2>2, <3>1 DEF Lineaged, IsRepair
        <3>3. p \in Ids /\ p < x
            BY <3>2, ParentIs
        <3>4. /\ txn[p].carried \subseteq txn[x].carried
              /\ txn[p].proof => txn[p].changed \subseteq txn[x].carried
            BY <3>2 DEF IInv, EdgesFit
        <3>5. p < c
            <4>1. \A i \in Ids : i \in Nat
                BY IdsAre DEF IInv
            <4>2. p \in Nat /\ x \in Nat /\ c \in Nat
                BY <4>1, <3>1, <3>3
            <4> HIDE DEF p, A
            <4> QED BY <4>2, <3>1, <3>3
        <3> QED BY <3>1, <3>3, <3>4, <3>5
    <2> QED BY <2>1, <2>2
<1>2. A \in SUBSET Ids /\ Closes(A, c)
    BY <1>1 DEF Closes
<1>3. a \in A
    <2> HIDE DEF A
    <2> QED BY <1>2, AncestorsWithin
<1> QED BY <1>3

\* A delegation that still runs is the ancestor of none.
LEMMA RunningHasNoChild ==
    ASSUME IInv, NEW c \in Ids, NEW a \in Ancestors(c)
    PROVE  txn[a].st # "RUNNING"
<1> DEFINE A == {x \in Ids : txn[x].st # "RUNNING"}
<1>1. ASSUME NEW x \in Ids PROVE txn[x].parent \in A \cup {0}
    <2>1. CASE txn[x].parent = 0
        BY <2>1
    <2>2. CASE txn[x].parent # 0
        <3>1. x \in Lineaged
            BY <2>2 DEF Lineaged, IsRepair
        <3> QED BY <3>1, ParentIs DEF IInv, EdgesFit
    <2> QED BY <2>1, <2>2
<1>2. A \in SUBSET Ids /\ Closes(A, c)
    BY <1>1 DEF Closes
<1>3. a \in A
    <2> HIDE DEF A
    <2> QED BY <1>2, AncestorsWithin
<1> QED BY <1>3

-----------------------------------------------------------------------------
(* What the invariant says of a state                                      *)

LEMMA SoundChains == IInv => ChainIsSound
<1> SUFFICES ASSUME IInv, NEW c \in Live
             PROVE  /\ Kids(txn[c].parent) = {c} /\ txn[c].parent \notin Superseded
                    /\ txn[c].root \in Roots /\ txn[c].cont \in decided
                    /\ \A a \in Ancestors(c) : txn[a].proof => txn[a].changed \subseteq txn[c].carried
    BY DEF ChainIsSound
<1>1. c \in Lineaged /\ c \in Ids
    BY LiveIs DEF Lineaged
<1>2. Kids(txn[c].parent) = {c} /\ txn[c].parent \notin Superseded
    BY DEF IInv, ChainIsLinear, Kids
<1>3. txn[c].root \in Roots /\ txn[c].cont \in decided
    BY <1>1 DEF IInv, EdgesFit
<1> QED BY <1>1, <1>2, <1>3, ChainCarries

\* The newest live delegation of a chain has no successor.
LEMMA TipOf ==
    ASSUME IInv, NEW d \in Ids
    PROVE  \E c \in Ids : /\ c = d \/ (c \in Live /\ d \in Ancestors(c))
                          /\ c \notin Parents
<1> DEFINE X == {x \in Ids : x = d \/ (x \in Live /\ d \in Ancestors(x))}
<1>1. Len(txn) \in Nat /\ Ids = 1..Len(txn)
    BY IdsAre DEF IInv
<1>2. PICK c \in X : \A y \in X : y <= c
    <2>1. X \in SUBSET (1..Len(txn)) /\ d \in X
        BY <1>1
    <2> HIDE DEF X
    <2> QED BY <1>1, <2>1, HasGreatest
<1>3. ASSUME NEW x \in Live, txn[x].parent = c PROVE FALSE
    <2>1. x \in Lineaged /\ x \in Ids
        BY LiveIs DEF Lineaged
    <2>2. c < x /\ c \in Ancestors(x) /\ Ancestors(c) \subseteq Ancestors(x)
        BY <1>3, <2>1, ParentIs, AncestorsGrow
    <2>3. x \in X
        BY <2>1, <2>2
    <2>4. x <= c
        BY <1>2, <2>3
    <2> QED BY <1>1, <2>1, <2>2, <2>4
<1>4. c \notin Parents
    BY <1>3 DEF Parents
<1> QED BY <1>4

\* A delegation that wrote what a path holds is known, if at all, with that path.
LEMMA LaneCovers ==
    ASSUME IInv, NEW p \in Dirty, Known(tree[p]), tree[p] \in Ids,
           IsRepair(tree[p]) => txn[tree[p]].proof \/ txn[tree[p]].st = "RUNNING"
    PROVE  p \in LanePaths(tree[p])
<1> DEFINE d == tree[p]
<1>1. p \in txn[d].wrote /\ (txn[d].proof => txn[d].changed = txn[d].wrote)
    BY DEF IInv, ContentIsWritten, RecordsFit, RecordFits
<1>2. CASE txn[d].proof
    BY <1>1, <1>2 DEF LanePaths
<1>3. CASE ~txn[d].proof
    <2>1. ~Retryable(d)
        BY <1>3 DEF Retryable
    <2> QED BY <1>1, <1>3, <2>1 DEF LanePaths
<1> QED BY <1>2, <1>3

\* What was closed with its chain holds no path any more.
LEMMA ClosedHoldsNothing ==
    ASSUME IInv, NEW c \in Ids, DurablyClosed(c), c \notin Superseded,
           NEW p \in Dirty, tree[p] \in Ids, tree[p] <= c
    PROVE  p \notin txn[c].wrote \cup txn[c].carried
<1>1. tree[p] # 0 /\ p \in Paths /\ ~(tree[p] > c)
    <2>1. tree[p] \in Nat /\ c \in Nat
        BY IdsAre DEF IInv
    <2> QED BY <2>1 DEF Dirty
<1>2. CASE HasReceipt(c, "abandon")
    <2> DEFINE r == [id |-> c, kind |-> "abandon", st |-> txn[c].st]
    <2>1. r \in receipts /\ r.id = c /\ r.kind = "abandon"
        BY <1>2 DEF HasReceipt
    <2> QED BY <1>1, <2>1 DEF IInv, ClosedIsClean
<1>3. CASE HasReceipt(c, "closure")
    <2> DEFINE r == [id |-> c, kind |-> "closure", st |-> txn[c].st]
    <2>1. r \in receipts /\ r.id = c
        BY <1>3 DEF HasReceipt
    <2>2. ~Empty(c)
        BY <1>3, <2>1, LiveIs
    <2>3. p \in txn[c].wrote \cup txn[c].carried => tree[p] = 0 \/ tree[p] > c
        BY <1>1, <2>1, <2>2 DEF IInv, ClosedIsClean
    <2> QED BY <1>1, <2>3
<1> QED BY <1>2, <1>3 DEF DurablyClosed

LEMMA GuardedWork == IInv => UnacceptedWorkIsGuarded
<1> SUFFICES ASSUME IInv, NEW p \in Dirty, ~Accepted(tree[p]),
                    IsRepair(tree[p]) => txn[tree[p]].proof \/ txn[tree[p]].st = "RUNNING"
             PROVE  ~Admit({p}, 0)
    BY DEF UnacceptedWorkIsGuarded
<1> DEFINE d == tree[p]
<1>0. /\ d \in Ids /\ p \in txn[d].wrote /\ txn[d].st \in Status
      /\ \A i \in Ids : i \in Nat /\ i # 0
    <2>1. d \in 0..Len(txn) /\ d # 0 /\ p \in txn[d].wrote
        BY DEF IInv, TypeOK, Dirty, ContentIsWritten
    <2>2. d \in Ids
        BY <2>1, IdsAre DEF IInv
    <2>3. \A i \in Ids : i \in Nat /\ i # 0
        BY IdsAre DEF IInv
    <2> QED BY <2>1, <2>2, <2>3, RecordTyped DEF IInv
<1>1. /\ txn[d].proof <=> txn[d].st \in {"PENDING_REVIEW", "REVIEWED", "FAILED", "INTERRUPTED"}
      /\ txn[d].proof => txn[d].changed = txn[d].wrote
      /\ txn[d].st # "ABORTED"
      /\ d \in decided => txn[d].proof
    BY <1>0 DEF IInv, RecordsFit, RecordFits
<1>2. ASSUME NEW c \in Ids, txn[c].st = "REVIEWED", c = d \/ d \in Ancestors(c) PROVE FALSE
    BY <1>2 DEF Accepted
<1>3. ASSUME NEW c \in Unresolved, c \in Ids, Known(c) => p \in LanePaths(c)
      PROVE  ~Admit({p}, 0)
    <2>1. c \in Unresolved \ {0}
        BY <1>0, <1>3
    <2> QED BY <1>3, <2>1 DEF Admit
<1>4. Known(d) => p \in LanePaths(d)
    BY <1>0, LaneCovers
<1>5. CASE ~IsRepair(d) /\ d \notin decided
    <2>1. txn[d].st # "REVIEWED"
        BY <1>0, <1>2
    <2>2. Blocking(d)
        BY <1>0, <1>1, <2>1 DEF Blocking
    <2>3. ~HasReceipt(d, "closure")
        <3>1. d \notin Superseded
            BY <1>5, LiveIs DEF Empty, Retryable
        <3>2. d <= d
            BY <1>0
        <3> QED BY <1>0, <3>1, <3>2, ClosedHoldsNothing DEF DurablyClosed
    <2>4. d \in Unresolved
        BY <1>0, <1>5, <2>2, <2>3 DEF Unresolved, Ordinary
    <2> QED BY <1>0, <1>3, <1>4, <2>4
<1>6. CASE IsRepair(d) \/ d \in decided
    <2>1. d \in Roots \cup Live
        <3>1. CASE IsRepair(d)
            <4>1. ~Empty(d)
                BY <1>6, <3>1 DEF Empty, Retryable
            <4> QED BY <1>0, <3>1, <4>1, LiveIs
        <3> QED BY <1>6, <3>1 DEF Roots
    <2>2. PICK c \in Ids : /\ c = d \/ (c \in Live /\ d \in Ancestors(c))
                           /\ c \notin Parents
        BY <1>0, TipOf
    <2>3. c \in Roots \cup Live /\ c \notin Superseded
        <3>1. c \in Roots \cup Live
            BY <2>1, <2>2
        <3> QED BY <3>1, LiveIs DEF Roots, Empty, Retryable
    <2>4. c # d => d < c /\ p \in txn[c].carried
        <3> SUFFICES ASSUME c # d PROVE d < c /\ p \in txn[c].carried
            OBVIOUS
        <3>1. c \in Live /\ d \in Ancestors(c)
            BY <2>2
        <3>2. d < c /\ (txn[d].proof => txn[d].changed \subseteq txn[c].carried)
            BY <3>1, ChainCarries
        <3>3. txn[d].proof
            <4>1. CASE d \in decided
                BY <1>1, <4>1
            <4>2. CASE IsRepair(d) /\ txn[d].st = "RUNNING"
                BY <1>0, <3>1, <4>2, RunningHasNoChild
            <4> QED BY <1>6, <4>1, <4>2
        <3> QED BY <1>0, <1>1, <3>2, <3>3
    <2>5. txn[c].st # "REVIEWED"
        BY <1>2, <2>2
    <2>6. ~DurablyClosed(c)
        <3>1. d <= c /\ p \in txn[c].wrote \cup txn[c].carried
            BY <1>0, <2>4
        <3> QED BY <1>0, <2>3, <3>1, ClosedHoldsNothing
    <2>7. c \in Unresolved
        BY <2>2, <2>3, <2>5, <2>6 DEF Unresolved, RepairTips, Closed, DurablyClosed
    <2>8. Known(c) => p \in LanePaths(c)
        <3>1. CASE c = d
            BY <1>4, <3>1
        <3>2. CASE c # d
            BY <2>4, <3>2 DEF LanePaths
        <3> QED BY <3>1, <3>2
    <2> QED BY <1>3, <2>7, <2>8
<1> QED BY <1>5, <1>6

-----------------------------------------------------------------------------
(* Steps that add no transaction and no receipt                            *)

\* A transaction that does not run keeps everything but its acceptance.
Advances ==
    /\ Len(txn') = Len(txn) /\ DOMAIN txn' = DOMAIN txn
    /\ decided \subseteq decided'
    /\ \A d \in Ids :
          /\ txn'[d].parent = txn[d].parent /\ txn'[d].root = txn[d].root
          /\ txn'[d].cont = txn[d].cont /\ txn'[d].carried = txn[d].carried
          /\ txn'[d].allowed = txn[d].allowed /\ txn[d].wrote \subseteq txn'[d].wrote
          /\ txn[d].st # "RUNNING" =>
                /\ txn'[d].end = txn[d].end /\ txn'[d].wrote = txn[d].wrote
                /\ txn'[d].changed = txn[d].changed /\ txn'[d].proof = txn[d].proof
                /\ txn'[d].st = txn[d].st
                   \/ (txn[d].st = "PENDING_REVIEW" /\ txn'[d].st = "REVIEWED")

LEMMA EmptyKept ==
    ASSUME Advances, NEW d \in Ids, txn[d].st # "RUNNING"
    PROVE  (Empty(d))' <=> Empty(d)
BY DEF Advances, Empty, Retryable, IsRepair

LEMMA SupersededKept ==
    ASSUME IInv, Advances, receipts' = receipts
    PROVE  Superseded' = Superseded
<1>1. ASSUME NEW d PROVE d \in Superseded' <=> d \in Superseded
    <2>1. ASSUME HasReceipt(d, "closure") \/ HasReceipt(d, "closure")'
          PROVE  d \in Ids /\ txn[d].st # "RUNNING"
        <3>1. PICK r \in receipts : r.id = d /\ r.kind = "closure"
            BY <2>1 DEF HasReceipt
        <3> QED BY <3>1 DEF IInv, TypeOK, ClosedIsClean, Ids
    <2>2. ASSUME d \in Ids, txn[d].st # "RUNNING", Empty(d)
          PROVE  HasReceipt(d, "closure")' <=> HasReceipt(d, "closure")
        BY <2>2 DEF Advances, HasReceipt, Empty, Retryable
    <2>3. (d \in Superseded)' <=> (\E r \in receipts : r.id = d)
                                   /\ HasReceipt(d, "closure")' /\ (Empty(d))'
        BY DEF Superseded
    <2> QED BY <2>1, <2>2, <2>3, LiveIs, EmptyKept
<1> QED BY <1>1

LEMMA LiveKept ==
    ASSUME IInv, Advances, receipts' = receipts
    PROVE  Ids' = Ids /\ Live' = Live /\ Lineaged' = Lineaged /\ Roots \subseteq Roots'
<1>1. Ids' = Ids /\ \A d \in Ids : IsRepair(d)' <=> IsRepair(d)
    BY DEF Advances, Ids, IsRepair
<1>2. \A d : (d \in Live)' <=> d \in Ids' /\ IsRepair(d)' /\ d \notin Superseded'
    BY DEF Live
<1>3. Live' = Live
    BY <1>1, <1>2, LiveIs, SupersededKept
<1>4. decided \subseteq Ids
    BY DEF IInv, TypeOK, Ids
<1> QED BY <1>1, <1>3, <1>4 DEF Lineaged, Roots, Advances

LEMMA EdgesKept ==
    ASSUME IInv, Advances, receipts' = receipts
    PROVE  EdgesFit' /\ ChainIsLinear'
<1>1. EdgesFit'
    <2> SUFFICES ASSUME NEW c \in Lineaged
                 PROVE  LET p == txn'[c].parent IN
                        /\ txn'[p].st # "RUNNING"
                        /\ txn'[p].carried \subseteq txn'[c].carried
                        /\ txn'[p].proof => txn'[p].changed \subseteq txn'[c].carried
                        /\ txn'[c].root \in Roots' /\ txn'[c].cont \in decided'
        BY LiveKept DEF EdgesFit
    <2> DEFINE p == txn[c].parent
    <2>1. c \in Ids /\ p \in Ids
        BY ParentIs
    <2>2. /\ txn[p].st # "RUNNING" /\ txn[p].carried \subseteq txn[c].carried
          /\ txn[p].proof => txn[p].changed \subseteq txn[c].carried
          /\ txn[c].root \in Roots /\ txn[c].cont \in decided
        BY DEF IInv, EdgesFit
    <2>3. /\ txn'[c].parent = p /\ txn'[c].carried = txn[c].carried
          /\ txn'[c].root = txn[c].root /\ txn'[c].cont = txn[c].cont
          /\ txn'[p].carried = txn[p].carried /\ txn'[p].changed = txn[p].changed
          /\ txn'[p].proof = txn[p].proof /\ txn'[p].st # "RUNNING"
        BY <2>1, <2>2 DEF Advances
    <2>4. Roots \subseteq Roots' /\ decided \subseteq decided'
        BY LiveKept DEF Advances
    <2> QED BY <2>2, <2>3, <2>4
<1>2. ChainIsLinear'
    <2>1. \A c \in Live : c \in Ids /\ txn'[c].parent = txn[c].parent
        BY LiveIs DEF Advances
    <2>2. Live' = Live /\ Superseded' = Superseded
        BY LiveKept, SupersededKept
    <2>3. \A c \in Live : /\ txn[c].parent \notin Superseded
                          /\ \A e \in Live : txn[e].parent = txn[c].parent => e = c
        BY DEF IInv, ChainIsLinear
    <2>4. \A c \in Live : /\ txn'[c].parent \notin Superseded'
                          /\ \A e \in Live : txn'[e].parent = txn'[c].parent => e = c
        BY <2>1, <2>2, <2>3
    <2> QED BY <2>2, <2>4 DEF ChainIsLinear
<1> QED BY <1>1, <1>2

LEMMA AuthorityKept ==
    ASSUME IInv, Advances, NEW a, AuthorityFits(a)
    PROVE  AuthorityFits(a)'
<1> DEFINE d == a.of
<1>1. /\ a \in Authority /\ d \in Ids /\ txn[d].st # "RUNNING" /\ a = Successor(d, a.kind)
      /\ IF a.kind \in {"semantic", "negative"} THEN d \in decided ELSE IsRepair(d)
    BY DEF AuthorityFits
<1>2. /\ Ids' = Ids /\ txn'[d].st # "RUNNING" /\ decided \subseteq decided'
      /\ txn'[d].parent = txn[d].parent /\ txn'[d].root = txn[d].root
      /\ txn'[d].cont = txn[d].cont /\ txn'[d].carried = txn[d].carried
      /\ txn'[d].proof = txn[d].proof /\ txn'[d].changed = txn[d].changed
    BY <1>1 DEF Advances, Ids
<1>3. Successor(d, a.kind)' = Successor(d, a.kind) /\ (IsRepair(d)' <=> IsRepair(d))
    BY <1>2 DEF Successor, IsRepair, CarriedBy
<1> QED BY <1>1, <1>2, <1>3 DEF AuthorityFits

LEMMA RecordsKept ==
    ASSUME IInv, Advances,
           \A d \in Ids : txn[d].st = "RUNNING" => RecordFits(txn'[d]),
           \A d \in decided' \ decided : d \in Ids /\ txn[d].proof
    PROVE  RecordsFit'
<1> SUFFICES ASSUME NEW d \in Ids
             PROVE  /\ txn'[d].parent < d /\ RecordFits(txn'[d])
                    /\ d \in decided' => txn'[d].proof
    BY DEF RecordsFit, Advances, Ids
<1>1. txn[d].parent < d /\ RecordFits(txn[d]) /\ (d \in decided => txn[d].proof)
    BY DEF IInv, RecordsFit
<1>2. txn'[d].parent < d
    BY <1>1 DEF Advances
<1>3. CASE txn[d].st = "RUNNING"
    <2>1. ~txn[d].proof /\ d \notin decided'
        BY <1>1, <1>3 DEF RecordFits
    <2> QED BY <1>2, <1>3, <2>1
<1>4. CASE txn[d].st # "RUNNING"
    <2>1. /\ txn'[d].proof = txn[d].proof /\ txn'[d].changed = txn[d].changed
          /\ txn'[d].wrote = txn[d].wrote /\ txn'[d].allowed = txn[d].allowed
          /\ txn'[d].st = txn[d].st
             \/ (txn[d].st = "PENDING_REVIEW" /\ txn'[d].st = "REVIEWED")
        BY <1>4 DEF Advances
    <2>2. RecordFits(txn'[d])
        BY <1>1, <2>1 DEF RecordFits
    <2> QED BY <1>1, <1>2, <2>1, <2>2
<1> QED BY <1>3, <1>4

\* Where the content of a path may come from: it stays, goes, or is the running worker's.
Content ==
    \A p \in Paths :
        \/ tree'[p] \in {tree[p], 0}
        \/ /\ tree'[p] = Len(txn) /\ p \in txn'[Len(txn)].wrote
           /\ \E s \in Sessions : session[s].pc = "run"

\* A session that runs or delivers goes on with its delegation.
Sessionwise ==
    \A s \in Sessions :
        /\ session'[s].pc = "run" => /\ session[s].pc = "run" /\ session'[s].id = session[s].id
                                     /\ txn'[Len(txn)].st = "RUNNING"
        /\ session'[s].pc = "deliver" =>
              /\ session[s].pc \in {"run", "deliver"} /\ session'[s].id = session[s].id
              /\ txn'[Len(txn)].st = "PENDING_REVIEW"
        /\ session'[s].pc = "admitted" =>
              \/ session[s].pc = "admitted" /\ session'[s].auth = session[s].auth
              \/ AuthorityFits(session[s].auth)'

LEMMA ClosedKept ==
    ASSUME IInv, Advances, receipts' = receipts, Content, Sessionwise
    PROVE  ClosedIsClean'
<1> SUFFICES ASSUME NEW r \in receipts
             PROVE  /\ r.kind = "closure" => txn'[r.id].st # "RUNNING"
                    /\ \A s \in Sessions : session'[s].pc = "run" => session'[s].id # r.id
                    /\ \A p \in Paths :
                          r.kind = "abandon" \/ (~(Empty(r.id))' /\ p \in txn'[r.id].wrote \cup txn'[r.id].carried)
                          => tree'[p] = 0 \/ tree'[p] > r.id
    BY DEF ClosedIsClean
<1>1. /\ r.kind = "closure" => txn[r.id].st # "RUNNING"
      /\ \A s \in Sessions : session[s].pc = "run" => session[s].id # r.id
      /\ \A p \in Paths :
            r.kind = "abandon" \/ (~Empty(r.id) /\ p \in txn[r.id].wrote \cup txn[r.id].carried)
            => tree[p] = 0 \/ tree[p] > r.id
    BY DEF IInv, ClosedIsClean
<1>2. r.id \in Ids /\ r.kind \in {"closure", "abandon"}
    BY DEF IInv, TypeOK, Ids
<1>3. \A s \in Sessions : session'[s].pc = "run" => session'[s].id # r.id
    BY <1>1 DEF Sessionwise
<1>4. r.kind = "closure" => txn'[r.id].st # "RUNNING"
    BY <1>1, <1>2 DEF Advances
<1>5. ASSUME NEW p \in Paths,
             r.kind = "abandon" \/ (~(Empty(r.id))' /\ p \in txn'[r.id].wrote \cup txn'[r.id].carried)
      PROVE  tree'[p] = 0 \/ tree'[p] > r.id
    <2>1. tree[p] = 0 \/ tree[p] > r.id
        <3>1. CASE r.kind = "abandon"
            BY <1>1, <3>1
        <3>2. CASE r.kind = "closure"
            <4>1. txn[r.id].st # "RUNNING"
                BY <1>1, <3>2
            <4>2. ~Empty(r.id) /\ p \in txn[r.id].wrote \cup txn[r.id].carried
                BY <1>2, <1>5, <3>2, <4>1, EmptyKept DEF Advances
            <4> QED BY <1>1, <4>2
        <3> QED BY <1>2, <3>1, <3>2
    <2>2. CASE tree'[p] \in {tree[p], 0}
        BY <2>1, <2>2
    <2>3. CASE tree'[p] = Len(txn) /\ \E s \in Sessions : session[s].pc = "run"
        <3>1. PICK s \in Sessions : session[s].pc = "run"
            BY <2>3
        <3>2. session[s].id = Len(txn)
            BY <3>1 DEF IInv, WorkerIsLast
        <3>3. r.id # Len(txn)
            BY <1>1, <3>1, <3>2
        <3> QED BY <1>2, <2>3, <3>3, IdsAre DEF IInv
    <2> QED BY <2>2, <2>3 DEF Content
<1> QED BY <1>3, <1>4, <1>5

LEMMA AdvanceStep ==
    ASSUME IInv, TypeOK', Advances, receipts' = receipts, Content, Sessionwise,
           \A d \in Ids : txn[d].st = "RUNNING" => RecordFits(txn'[d]),
           \A d \in decided' \ decided : d \in Ids /\ txn[d].proof
    PROVE  IInv'
<1>1. RecordsFit' /\ EdgesFit' /\ ChainIsLinear' /\ ClosedIsClean'
    BY RecordsKept, EdgesKept, ClosedKept
<1>2. ContentIsWritten'
    <2> SUFFICES ASSUME NEW p \in Paths, tree'[p] # 0 PROVE p \in txn'[tree'[p]].wrote
        BY DEF ContentIsWritten, Dirty
    <2>1. CASE tree'[p] = tree[p]
        <3>1. p \in txn[tree[p]].wrote /\ tree[p] \in Ids
            <4>1. tree[p] \in 0..Len(txn)
                BY DEF IInv, TypeOK
            <4> QED BY <2>1, <4>1, IdsAre DEF IInv, ContentIsWritten, Dirty
        <3> QED BY <2>1, <3>1 DEF Advances
    <2> QED BY <2>1 DEF Content
<1>3. WorkerIsLast'
    <2> SUFFICES ASSUME NEW s \in Sessions, session'[s].pc \in {"run", "deliver"}
                 PROVE  /\ Ids' # {} /\ session'[s].id = Len(txn')
                        /\ txn'[Len(txn')].st = IF session'[s].pc = "run" THEN "RUNNING"
                                                ELSE "PENDING_REVIEW"
        BY DEF WorkerIsLast
    <2>1. Ids' = Ids /\ Len(txn') = Len(txn)
        BY DEF Advances, Ids
    <2>2. session[s].pc \in {"run", "deliver"} /\ session'[s].id = session[s].id
        BY DEF Sessionwise
    <2>3. Ids # {} /\ session[s].id = Len(txn)
        BY <2>2 DEF IInv, WorkerIsLast
    <2> QED BY <2>1, <2>2, <2>3 DEF Sessionwise
<1>4. AdmittedFits'
    <2> SUFFICES ASSUME NEW s \in Sessions, session'[s].pc = "admitted"
                 PROVE  AuthorityFits(session[s].auth)'
        BY DEF AdmittedFits
    <2>1. CASE session[s].pc = "admitted" /\ session'[s].auth = session[s].auth
        <3>1. PICK a : a = session[s].auth
            OBVIOUS
        <3>2. AuthorityFits(a)
            BY <2>1, <3>1 DEF IInv, AdmittedFits
        <3>3. AuthorityFits(a)'
            BY <3>2, AuthorityKept
        <3> QED BY <2>1, <3>1, <3>3 DEF AuthorityFits, Successor, IsRepair, CarriedBy, Ids
    <2> QED BY <2>1 DEF Sessionwise
<1> QED BY <1>1, <1>2, <1>3, <1>4 DEF IInv

-----------------------------------------------------------------------------
(* Types of a step                                                         *)

Holding == {"run", "deliver", "closing"}

LaneOK ==
    /\ lane \in Sessions \cup {None} /\ session \in [Sessions -> Session]
    /\ \A s \in Sessions : (lane = s) <=> session[s].pc \in Holding

LEMMA TypeParts ==
    /\ TypeOK => LaneOK
    /\ TypeOK' <=> /\ txn' \in Seq(Transaction) /\ Len(txn') <= MaxTxn
                   /\ decided' \subseteq DOMAIN txn'
                   /\ receipts' \subseteq [id : DOMAIN txn', kind : {"closure", "abandon"}, st : Status]
                   /\ tree' \in [Paths -> 0..Len(txn')]
                   /\ LaneOK'
                   /\ faults' \in 0..MaxFault
BY DEF TypeOK, LaneOK, Holding

\* The session that may have the lane takes it, keeps it or gives it up.
LEMMA HolderMoves ==
    ASSUME TypeOK, NEW s \in Sessions, NEW x \in Session, lane \in {None, s}, lane' \in {None, s},
           session' = [session EXCEPT ![s] = x], (lane' = s) <=> x.pc \in Holding
    PROVE  LaneOK' /\ session'[s] = x /\ \A u \in Sessions \ {s} : session'[u] = session[u]
<1>1. session \in [Sessions -> Session] /\ None \notin Sessions
    BY RepairLineageAssumption DEF TypeOK
<1>2. session' \in [Sessions -> Session] /\ session'[s] = x
      /\ \A u \in Sessions \ {s} : session'[u] = session[u]
    BY <1>1
<1>3. ASSUME NEW u \in Sessions PROVE (lane' = u) <=> session'[u].pc \in Holding
    <2>1. CASE u = s
        BY <1>2, <2>1
    <2>2. CASE u # s
        <3>1. session[u].pc \notin Holding
            BY <1>1, <2>2, SessionTyped DEF Holding
        <3> QED BY <1>1, <1>2, <2>2, <3>1
    <2> QED BY <2>1, <2>2
<1> QED BY <1>1, <1>2, <1>3 DEF LaneOK

\* A session without the lane goes on without it.
LEMMA BystanderMoves ==
    ASSUME TypeOK, NEW s \in Sessions, NEW x \in Session, lane' = lane,
           session' = [session EXCEPT ![s] = x], session[s].pc \notin Holding, x.pc \notin Holding
    PROVE  LaneOK' /\ session'[s] = x /\ \A u \in Sessions \ {s} : session'[u] = session[u]
<1>1. /\ session \in [Sessions -> Session] /\ lane \in Sessions \cup {None}
      /\ \A u \in Sessions : (lane = u) <=> session[u].pc \in Holding
    BY DEF TypeOK, Holding
<1>2. session' \in [Sessions -> Session] /\ session'[s] = x
      /\ \A u \in Sessions \ {s} : session'[u] = session[u]
    BY <1>1
<1> QED BY <1>1, <1>2 DEF LaneOK

LEMMA UpdateTypes ==
    ASSUME TypeOK, NEW d \in Ids, NEW t \in Transaction, txn' = [txn EXCEPT ![d] = t]
    PROVE  /\ txn' \in Seq(Transaction) /\ Len(txn') = Len(txn) /\ DOMAIN txn' = DOMAIN txn
           /\ txn'[d] = t /\ \A j \in Ids \ {d} : txn'[j] = txn[j]
<1>1. txn \in Seq(Transaction) /\ d \in 1..Len(txn) /\ Ids = 1..Len(txn)
    BY IdsAre DEF TypeOK
<1>2. /\ txn' \in Seq(Transaction) /\ Len(txn') = Len(txn)
      /\ \A j \in 1..Len(txn) : txn'[j] = IF j = d THEN t ELSE txn[j]
    BY <1>1, ExceptSeq
<1>3. DOMAIN txn' = 1..Len(txn') /\ DOMAIN txn = 1..Len(txn)
    BY <1>1, <1>2, LenProperties
<1> QED BY <1>1, <1>2, <1>3

\* The types of a step that adds no transaction.
LEMMA StepTypes ==
    ASSUME TypeOK, txn' \in Seq(Transaction), Len(txn') = Len(txn), DOMAIN txn' = DOMAIN txn,
           decided' \subseteq Ids, receipts' = receipts, LaneOK',
           tree' \in [Paths -> 0..Len(txn)], faults' \in 0..MaxFault
    PROVE  TypeOK'
BY TypeParts DEF TypeOK, Ids

LEMMA FaultTyped == TypeOK /\ Fault => faults' \in 0..MaxFault
BY RepairLineageAssumption DEF TypeOK, Fault

\* Nothing but the sessions, the lane and the faults changes.
LEMMA QuietStep ==
    ASSUME IInv, UNCHANGED <<txn, decided, receipts, tree>>, LaneOK', faults' \in 0..MaxFault,
           NEW s \in Sessions, \A u \in Sessions \ {s} : session'[u] = session[u],
           session'[s].pc \notin {"run", "deliver"},
           session'[s].pc = "admitted" => AuthorityFits(session[s].auth)'
    PROVE  IInv'
<1>1. TypeOK'
    BY TypeParts DEF IInv, TypeOK, Ids
<1>2. Advances
    BY DEF Advances
<1>3. Content
    BY DEF Content
<1>4. Sessionwise
    BY DEF Sessionwise, IInv, WorkerIsLast
<1>5. /\ \A d \in Ids : txn[d].st = "RUNNING" => RecordFits(txn'[d])
      /\ \A d \in decided' \ decided : d \in Ids /\ txn[d].proof
    BY DEF IInv, RecordsFit
<1> QED BY <1>1, <1>2, <1>3, <1>4, <1>5, AdvanceStep

-----------------------------------------------------------------------------
(* The steps of a session without a transaction                            *)

LEMMA PathsTyped ==
    ASSUME IInv, NEW d \in Ids
    PROVE  LanePaths(d) \subseteq Paths /\ CarriedBy(d) \subseteq Paths
<1>1. /\ txn[d].wrote \subseteq Paths /\ txn[d].changed \subseteq Paths
      /\ txn[d].carried \subseteq Paths
    BY RecordTyped DEF IInv
<1>2. LanePaths(d) \in {txn[d].changed \cup txn[d].carried, txn[d].carried,
                        txn[d].wrote \cup txn[d].changed \cup txn[d].carried}
    BY DEF LanePaths
<1> QED BY <1>1, <1>2 DEF CarriedBy

LEMMA TipsAreIds ==
    ASSUME IInv
    PROVE  /\ Ids \subseteq 1..MaxTxn /\ decided \subseteq Ids /\ Roots \subseteq decided
           /\ RepairTips \subseteq Roots \cup Live /\ RepairTips \subseteq Ids
           /\ Ordinary \subseteq Ids /\ Unresolved \subseteq Ids
<1>1. Ids \subseteq 1..MaxTxn
    BY RecordTyped DEF IInv
<1>2. decided \subseteq Ids /\ Roots \subseteq decided
    BY DEF IInv, TypeOK, Ids, Roots
<1>3. RepairTips \subseteq Roots \cup Live /\ Live \subseteq Ids
    BY LiveIs DEF RepairTips
<1> QED BY <1>1, <1>2, <1>3 DEF Ordinary, Unresolved

LEMMA HashTyped == IInv => AuthorityHash \in Hash
<1> SUFFICES ASSUME IInv PROVE AuthorityHash \in Hash
    OBVIOUS
<1> DEFINE L == {<<d, LanePaths(d)>> : d \in {b \in Unresolved : Known(b)}}
<1>1. Ordinary \in SUBSET (1..MaxTxn) /\ RepairTips \in SUBSET (1..MaxTxn)
    BY TipsAreIds
<1>2. ASSUME NEW d \in Unresolved PROVE <<d, LanePaths(d)>> \in (1..MaxTxn) \X SUBSET Paths
    BY TipsAreIds, PathsTyped
<1>3. L \in SUBSET ((1..MaxTxn) \X SUBSET Paths)
    BY <1>2
<1> HIDE DEF L
<1>4. <<Ordinary, RepairTips, L>> \in Hash
    BY <1>1, <1>3 DEF Hash
<1> QED BY <1>4 DEF AuthorityHash, L

\* Whatever /q-repair finds a delegation to authorise is over.
LEMMA KindsFit ==
    ASSUME IInv, NEW d \in Ids, NEW kind \in RepairKinds(d)
    PROVE  /\ kind \in {"semantic", "negative", "lineage", "raw"} /\ txn[d].st # "RUNNING"
           /\ IF kind \in {"semantic", "negative"} THEN d \in decided ELSE IsRepair(d)
<1>1. CASE txn[d].st = "PENDING_REVIEW"
    BY <1>1 DEF RepairKinds, Retryable
<1>2. CASE txn[d].st \in {"FAILED", "INTERRUPTED"} /\ d \in decided
    BY <1>2 DEF RepairKinds, Retryable
<1>3. CASE txn[d].st = "FAILED" /\ d \notin decided
    BY <1>3 DEF RepairKinds, Retryable
<1>4. CASE /\ txn[d].st # "PENDING_REVIEW" /\ ~(txn[d].st = "FAILED" /\ d \notin decided)
           /\ ~(txn[d].st \in {"FAILED", "INTERRUPTED"} /\ d \in decided)
    <2>1. Retryable(d) /\ kind = "raw"
        BY <1>4 DEF RepairKinds
    <2> QED BY <2>1 DEF Retryable
<1> QED BY <1>1, <1>2, <1>3, <1>4

LEMMA SuccessorFits ==
    ASSUME IInv, NEW d \in Ids, NEW kind \in RepairKinds(d)
    PROVE  AuthorityFits(Successor(d, kind)) /\ Successor(d, kind) \in Authority
<1> DEFINE a == Successor(d, kind)
<1>1. /\ kind \in {"semantic", "negative", "lineage", "raw"} /\ txn[d].st # "RUNNING"
      /\ IF kind \in {"semantic", "negative"} THEN d \in decided ELSE IsRepair(d)
    BY KindsFit
<1>2. d \in 1..MaxTxn /\ decided \subseteq 1..MaxTxn /\ Roots \subseteq 1..MaxTxn
    BY TipsAreIds
<1>3. IsRepair(d) => txn[d].root \in 1..MaxTxn /\ txn[d].cont \in 1..MaxTxn
    BY <1>2 DEF IInv, EdgesFit, Lineaged
<1>4. CarriedBy(d) \subseteq Paths
    BY PathsTyped
<1>5. a \in Authority
    BY <1>1, <1>2, <1>3, <1>4 DEF Successor, Authority
<1>6. a.of = d /\ a.kind = kind
    BY DEF Successor
<1> QED BY <1>1, <1>5, <1>6 DEF AuthorityFits

LEMMA RecoverStep ==
    ASSUME IInv, NEW s \in Sessions, session[s].pc = "idle", NEW d \in Ids, RepairRecover(s, d)
    PROVE  IInv'
<1>1. PICK kind \in RepairKinds(d) :
          Goto(s, [Idle EXCEPT !.pc = "admitted", !.auth = Successor(d, kind),
                               !.hash = AuthorityHash])
    BY DEF RepairRecover
<1>2. UNCHANGED <<txn, decided, receipts, tree, lane, faults>>
    BY DEF RepairRecover
<1>3. PICK a : a = Successor(d, kind)
    OBVIOUS
<1>4. PICK h : h = AuthorityHash
    OBVIOUS
<1> DEFINE x == [Idle EXCEPT !.pc = "admitted", !.auth = a, !.hash = h]
<1>5. AuthorityFits(a) /\ a \in Authority /\ h \in Hash
    BY <1>3, <1>4, SuccessorFits, HashTyped
<1>6. x \in Session /\ x.pc = "admitted" /\ x.auth = a
    <2>1. 0 \in 0..MaxTxn
        BY RepairLineageAssumption
    <2> QED BY <1>5, <2>1 DEF Session, Idle
<1>7. session' = [session EXCEPT ![s] = x]
    BY <1>1, <1>3, <1>4 DEF Goto
<1> HIDE DEF x
<1>8. LaneOK' /\ session'[s] = x /\ \A u \in Sessions \ {s} : session'[u] = session[u]
    BY <1>2, <1>6, <1>7, BystanderMoves DEF IInv, Holding
<1>9. AuthorityFits(a)'
    <2>1. Advances
        BY <1>2 DEF Advances
    <2> QED BY <1>5, <2>1, AuthorityKept
<1>10. AuthorityFits(session[s].auth)'
    BY <1>6, <1>8, <1>9 DEF AuthorityFits, Successor, IsRepair, CarriedBy, Ids
<1>11. faults' \in 0..MaxFault
    BY <1>2 DEF IInv, TypeOK
<1> QED BY <1>2, <1>6, <1>8, <1>10, <1>11, QuietStep

\* A session is at rest again.
LEMMA RestStep ==
    ASSUME IInv, NEW s \in Sessions, UNCHANGED <<txn, decided, receipts, tree>>,
           Goto(s, Idle), faults' \in 0..MaxFault,
           \/ session[s].pc = "admitted" /\ lane' = lane
           \/ lane = s /\ lane' = None
    PROVE  IInv'
<1>1. 0 \in 0..MaxTxn
    BY RepairLineageAssumption
<1>2. Idle \in Session /\ Idle.pc = "idle" /\ None \notin Sessions
    BY <1>1, IdleTyped, RepairLineageAssumption DEF Idle
<1>3. LaneOK' /\ session'[s] = Idle /\ \A u \in Sessions \ {s} : session'[u] = session[u]
    <2>1. CASE session[s].pc = "admitted" /\ lane' = lane
        BY <1>2, <2>1, BystanderMoves DEF IInv, Holding, Goto
    <2>2. CASE lane = s /\ lane' = None
        BY <1>2, <2>2, HolderMoves DEF IInv, Holding, Goto
    <2> QED BY <2>1, <2>2
<1> QED BY <1>2, <1>3, QuietStep

LEMMA RefusedStep ==
    ASSUME IInv, NEW s \in Sessions, RepairRefused(s)
    PROVE  IInv'
<1>1. faults' \in 0..MaxFault
    BY DEF RepairRefused, IInv, TypeOK
<1> QED BY <1>1, RestStep DEF RepairRefused

LEMMA CloseRefusedStep ==
    ASSUME IInv, NEW s \in Sessions, session[s].pc = "closing", CloseRefused(s)
    PROVE  IInv'
<1>1. faults' \in 0..MaxFault
    BY DEF CloseRefused, IInv, TypeOK
<1>2. lane = s
    BY SessionTyped DEF IInv
<1> QED BY <1>1, <1>2, RestStep DEF CloseRefused, Release

LEMMA CrashStep ==
    ASSUME IInv, NEW s \in Sessions, Crash(s)
    PROVE  IInv'
<1>1. faults' \in 0..MaxFault
    BY FaultTyped DEF Crash, IInv
<1> QED BY <1>1, RestStep DEF Crash, Release

-----------------------------------------------------------------------------
(* The worker                                                              *)

\* What a session that runs says of its delegation, and of the other sessions.
LEMMA WorkerIs ==
    ASSUME IInv, NEW s \in Sessions, session[s].pc \in {"run", "deliver"}
    PROVE  /\ lane = s /\ session[s].id = Len(txn) /\ Len(txn) \in Ids
           /\ txn[Len(txn)] \in Transaction /\ RecordFits(txn[Len(txn)])
           /\ txn[Len(txn)].st = IF session[s].pc = "run" THEN "RUNNING" ELSE "PENDING_REVIEW"
           /\ \A u \in Sessions \ {s} : session[u].pc \notin Holding
<1>1. lane = s
    BY SessionTyped DEF IInv
<1>2. Ids # {} /\ session[s].id = Len(txn)
      /\ txn[Len(txn)].st = IF session[s].pc = "run" THEN "RUNNING" ELSE "PENDING_REVIEW"
    BY DEF IInv, WorkerIsLast
<1>3. Len(txn) \in Ids
    BY <1>2, IdsAre DEF IInv
<1>4. txn[Len(txn)] \in Transaction /\ RecordFits(txn[Len(txn)])
    BY <1>3, RecordTyped DEF IInv, RecordsFit
<1>5. \A u \in Sessions \ {s} : session[u].pc \notin Holding
    BY <1>1, SessionTyped DEF IInv, Holding
<1> QED BY <1>1, <1>2, <1>3, <1>4, <1>5

\* The running delegation is written: its contract and its place in the chain stay.
LEMMA RunningAdvances ==
    ASSUME IInv, NEW s \in Sessions, session[s].pc = "run", NEW t \in Transaction,
           txn' = [txn EXCEPT ![Len(txn)] = t], decided' = decided,
           LET d == txn[Len(txn)] IN
               /\ t.parent = d.parent /\ t.root = d.root /\ t.cont = d.cont
               /\ t.carried = d.carried /\ t.allowed = d.allowed /\ d.wrote \subseteq t.wrote
    PROVE  /\ txn' \in Seq(Transaction) /\ DOMAIN txn' = DOMAIN txn /\ txn'[Len(txn)] = t
           /\ Advances
<1>1. Len(txn) \in Ids /\ txn[Len(txn)].st = "RUNNING"
    BY WorkerIs
<1>2. /\ txn' \in Seq(Transaction) /\ Len(txn') = Len(txn) /\ DOMAIN txn' = DOMAIN txn
      /\ txn'[Len(txn)] = t /\ \A j \in Ids \ {Len(txn)} : txn'[j] = txn[j]
    BY <1>1, UpdateTypes DEF IInv
<1> QED BY <1>1, <1>2 DEF Advances

\* Delegations that run and belong to nobody: their processes died.
LEMMA OthersFit ==
    ASSUME IInv, NEW d \in Ids, txn'[d] = txn[d]
    PROVE  RecordFits(txn'[d])
BY DEF IInv, RecordsFit

LEMMA WriteStep ==
    ASSUME IInv, NEW s \in Sessions, session[s].pc = "run", NEW p \in Paths, Write(s, p)
    PROVE  IInv'
<1> DEFINE n == Len(txn)
           t == [txn[n] EXCEPT !.wrote = @ \cup {p}]
<1>1. /\ lane = s /\ session[s].id = n /\ n \in Ids /\ txn[n] \in Transaction
      /\ RecordFits(txn[n]) /\ txn[n].st = "RUNNING"
      /\ \A u \in Sessions \ {s} : session[u].pc \notin Holding
    BY WorkerIs
<1>2. /\ p \in txn[n].allowed /\ tree' = [tree EXCEPT ![p] = n]
      /\ txn' = [txn EXCEPT ![n] = t] /\ UNCHANGED <<decided, receipts, lane, session, faults>>
    BY <1>1 DEF Write
<1>3. /\ t \in Transaction /\ t.wrote = txn[n].wrote \cup {p} /\ t.st = "RUNNING"
      /\ t.parent = txn[n].parent /\ t.root = txn[n].root /\ t.cont = txn[n].cont
      /\ t.carried = txn[n].carried /\ t.allowed = txn[n].allowed /\ t.proof = txn[n].proof
    BY <1>1 DEF Transaction
<1>4. RecordFits(t)
    BY <1>1, <1>2, <1>3 DEF RecordFits
<1> HIDE DEF t
<1>5. txn' \in Seq(Transaction) /\ DOMAIN txn' = DOMAIN txn /\ txn'[n] = t /\ Advances
    BY <1>2, <1>3, RunningAdvances
<1>6. \A j \in Ids \ {n} : txn'[j] = txn[j]
    BY <1>1, <1>2, <1>3, UpdateTypes DEF IInv
<1>7. tree \in [Paths -> 0..n] /\ n \in Nat /\ n \in 0..n
    BY IdsAre DEF IInv, TypeOK
<1>8. TypeOK'
    <2>1. tree' \in [Paths -> 0..n]
        BY <1>2, <1>7
    <2>2. LaneOK' /\ faults' \in 0..MaxFault /\ decided' \subseteq Ids
        BY <1>2 DEF IInv, TypeOK, LaneOK, Holding, Ids
    <2> QED BY <1>2, <1>5, <2>1, <2>2, StepTypes DEF IInv, Advances
<1>9. Content
    <2> SUFFICES ASSUME NEW q \in Paths, q # p PROVE tree'[q] = tree[q]
        BY <1>1, <1>2, <1>3, <1>5, <1>7 DEF Content
    <2> QED BY <1>2, <1>7
<1>10. Sessionwise
    BY <1>1, <1>2, <1>3, <1>5 DEF Sessionwise, Holding
<1>11. \A d \in Ids : txn[d].st = "RUNNING" => RecordFits(txn'[d])
    BY <1>4, <1>5, <1>6, OthersFit
<1> QED BY <1>2, <1>5, <1>8, <1>9, <1>10, <1>11, AdvanceStep

\* The end of a delegation, committed or not.
LEMMA SettleStep ==
    ASSUME IInv, NEW s \in Sessions, session[s].pc = "run", NEW t \in Transaction,
           t.st # "RUNNING", RecordFits(t), Settle(s, t), faults' \in 0..MaxFault,
           LET d == txn[Len(txn)] IN
               /\ t.parent = d.parent /\ t.root = d.root /\ t.cont = d.cont
               /\ t.carried = d.carried /\ t.allowed = d.allowed /\ t.wrote = d.wrote
    PROVE  IInv'
<1> DEFINE n == Len(txn)
<1>1. /\ lane = s /\ session[s].id = n /\ n \in Ids
      /\ \A u \in Sessions \ {s} : session[u].pc \notin Holding
    BY WorkerIs
<1>2. txn' = [txn EXCEPT ![n] = t] /\ UNCHANGED <<decided, receipts, tree>>
    BY <1>1 DEF Settle
<1>3. txn' \in Seq(Transaction) /\ DOMAIN txn' = DOMAIN txn /\ txn'[n] = t /\ Advances
    BY <1>2, RunningAdvances
<1>4. \A j \in Ids \ {n} : txn'[j] = txn[j]
    BY <1>1, <1>2, UpdateTypes DEF IInv
<1>5. /\ LaneOK' /\ \A u \in Sessions \ {s} : session'[u] = session[u]
      /\ \/ session'[s].pc = "idle"
         \/ session'[s].pc = "deliver" /\ session'[s].id = n /\ t.st = "PENDING_REVIEW"
    <2>1. CASE t.st = "PENDING_REVIEW"
        <3> DEFINE x == [session[s] EXCEPT !.pc = "deliver"]
        <3>1. lane' = s /\ session' = [session EXCEPT ![s] = x]
            BY <2>1 DEF Settle, Goto
        <3>2. session[s] \in Session
            BY SessionTyped DEF IInv
        <3>3. x \in Session /\ x.pc = "deliver" /\ x.id = n
            BY <1>1, <3>2 DEF Session
        <3> HIDE DEF x
        <3> QED BY <1>1, <2>1, <3>1, <3>3, HolderMoves DEF IInv, Holding
    <2>2. CASE t.st # "PENDING_REVIEW"
        <3>1. lane' = None /\ session' = [session EXCEPT ![s] = Idle]
            BY <2>2 DEF Settle, Release, Goto
        <3>2. Idle \in Session /\ Idle.pc = "idle" /\ None \notin Sessions
            <4>1. 0 \in 0..MaxTxn
                BY RepairLineageAssumption
            <4> QED BY <4>1, IdleTyped, RepairLineageAssumption DEF Idle
        <3> QED BY <1>1, <3>1, <3>2, HolderMoves DEF IInv, Holding
    <2> QED BY <2>1, <2>2
<1>6. TypeOK'
    BY <1>2, <1>3, <1>5, StepTypes DEF IInv, TypeOK, Advances, Ids
<1>7. Content
    BY <1>2 DEF Content
<1>8. Sessionwise
    BY <1>1, <1>3, <1>5 DEF Sessionwise, Holding
<1>9. \A d \in Ids : txn[d].st = "RUNNING" => RecordFits(txn'[d])
    BY <1>3, <1>4, OthersFit
<1> QED BY <1>2, <1>3, <1>6, <1>7, <1>8, <1>9, AdvanceStep

LEMMA CommitStep ==
    ASSUME IInv, NEW s \in Sessions, session[s].pc = "run",
           NEW st \in {"PENDING_REVIEW", "FAILED", "INTERRUPTED"}, Commit(s, st)
    PROVE  IInv'
<1> DEFINE n == Len(txn)
           bound == txn[n].wrote \cup txn[n].carried
           b == [p \in Paths |-> IF p \in bound THEN tree[p] ELSE 0]
           t == [txn[n] EXCEPT !.st = st, !.proof = TRUE, !.changed = txn[n].wrote, !.bind = b]
<1>1. session[s].id = n /\ txn[n] \in Transaction /\ RecordFits(txn[n])
    BY WorkerIs
<1>2. Settle(s, t) /\ faults' = faults
    BY <1>1 DEF Commit
<1>3. b \in [Paths -> 0..MaxTxn]
    <2>1. /\ tree \in [Paths -> 0..n] /\ n \in Nat /\ n <= MaxTxn /\ MaxTxn \in Nat
        BY IdsAre, RepairLineageAssumption DEF IInv, TypeOK
    <2>2. \A p \in Paths : tree[p] \in 0..MaxTxn /\ 0 \in 0..MaxTxn
        BY <2>1
    <2> QED BY <2>2
<1> HIDE DEF b
<1>4. /\ t \in Transaction /\ t.st = st /\ t.proof = TRUE /\ t.changed = txn[n].wrote
      /\ t.wrote = txn[n].wrote /\ t.parent = txn[n].parent /\ t.root = txn[n].root
      /\ t.cont = txn[n].cont /\ t.carried = txn[n].carried /\ t.allowed = txn[n].allowed
    BY <1>1, <1>3 DEF Transaction, Status
<1>5. RecordFits(t)
    BY <1>1, <1>4 DEF RecordFits
<1> HIDE DEF t
<1>6. faults' \in 0..MaxFault /\ t.st # "RUNNING"
    BY <1>2, <1>4 DEF IInv, TypeOK
<1> QED BY <1>2, <1>4, <1>5, <1>6, SettleStep

LEMMA FailStep ==
    ASSUME IInv, NEW s \in Sessions, session[s].pc = "run", NEW end \in End, Fail(s, end)
    PROVE  IInv'
<1> DEFINE n == Len(txn)
           c == IF end = "unpublished" THEN txn[n].wrote ELSE {}
           t == [txn[n] EXCEPT !.st = "RECOVERY_REQUIRED", !.end = end, !.changed = c]
<1>1. /\ session[s].id = n /\ txn[n] \in Transaction /\ RecordFits(txn[n])
      /\ txn[n].st = "RUNNING"
    BY WorkerIs
<1>2. Settle(s, t) /\ Fault
    BY <1>1 DEF Fail
<1>3. c \subseteq Paths
    BY <1>1 DEF Transaction
<1> HIDE DEF c
<1>4. /\ t \in Transaction /\ t.st = "RECOVERY_REQUIRED" /\ t.proof = txn[n].proof
      /\ t.wrote = txn[n].wrote /\ t.parent = txn[n].parent /\ t.root = txn[n].root
      /\ t.cont = txn[n].cont /\ t.carried = txn[n].carried /\ t.allowed = txn[n].allowed
    BY <1>1, <1>3 DEF Transaction, Status
<1>5. RecordFits(t)
    BY <1>1, <1>4 DEF RecordFits
<1> HIDE DEF t
<1>6. faults' \in 0..MaxFault
    BY <1>2, FaultTyped DEF IInv
<1> QED BY <1>2, <1>4, <1>5, <1>6, SettleStep

LEMMA AbortStep ==
    ASSUME IInv, NEW s \in Sessions, session[s].pc = "run", Abort(s)
    PROVE  IInv'
<1> DEFINE n == Len(txn)
           t == [txn[n] EXCEPT !.st = "ABORTED", !.end = "open"]
<1>1. /\ session[s].id = n /\ txn[n] \in Transaction /\ RecordFits(txn[n])
      /\ txn[n].st = "RUNNING"
    BY WorkerIs
<1>2. Settle(s, t) /\ txn[n].wrote = {} /\ faults' = faults
    BY <1>1 DEF Abort
<1>3. /\ t \in Transaction /\ t.st = "ABORTED" /\ t.proof = txn[n].proof
      /\ t.wrote = txn[n].wrote /\ t.parent = txn[n].parent /\ t.root = txn[n].root
      /\ t.cont = txn[n].cont /\ t.carried = txn[n].carried /\ t.allowed = txn[n].allowed
    BY <1>1 DEF Transaction, Status, End
<1>4. RecordFits(t)
    BY <1>1, <1>2, <1>3 DEF RecordFits
<1> HIDE DEF t
<1>5. faults' \in 0..MaxFault
    BY <1>2 DEF IInv, TypeOK
<1> QED BY <1>2, <1>3, <1>4, <1>5, SettleStep

-----------------------------------------------------------------------------
(* Reviews, restorations and reconciliation                                *)

\* A decision changes the status of a committed delegation, or is added for one.
LEMMA DecideAdvances ==
    ASSUME IInv, NEW d \in Ids, NEW verdict, Decide(d, verdict), txn[d].proof,
           verdict = "ACCEPT" => txn[d].st = "PENDING_REVIEW"
    PROVE  /\ txn' \in Seq(Transaction) /\ Len(txn') = Len(txn) /\ DOMAIN txn' = DOMAIN txn
           /\ Advances /\ decided' \subseteq Ids
           /\ \A e \in decided' \ decided : e \in Ids /\ txn[e].proof
           /\ \A e \in Ids : txn[e].st = "RUNNING" => RecordFits(txn'[e])
<1>1. /\ txn[d] \in Transaction /\ txn[d].st # "RUNNING" /\ decided \subseteq Ids
      /\ txn \in Seq(Transaction)
    <2>1. txn[d].proof <=> txn[d].st \in {"PENDING_REVIEW", "REVIEWED", "FAILED", "INTERRUPTED"}
        BY DEF IInv, RecordsFit, RecordFits
    <2> QED BY <2>1, RecordTyped DEF IInv, TypeOK, Ids
<1>2. decided \subseteq decided' /\ decided' \subseteq decided \cup {d}
    BY DEF Decide
<1>3. CASE verdict = "ACCEPT"
    <2> DEFINE t == [txn[d] EXCEPT !.st = "REVIEWED"]
    <2>1. txn' = [txn EXCEPT ![d] = t]
        BY <1>3 DEF Decide
    <2>2. /\ t \in Transaction /\ t.st = "REVIEWED" /\ t.end = txn[d].end /\ t.proof = txn[d].proof
          /\ t.wrote = txn[d].wrote /\ t.changed = txn[d].changed /\ t.parent = txn[d].parent
          /\ t.root = txn[d].root /\ t.cont = txn[d].cont /\ t.carried = txn[d].carried
          /\ t.allowed = txn[d].allowed
        BY <1>1 DEF Transaction, Status
    <2> HIDE DEF t
    <2>3. /\ txn' \in Seq(Transaction) /\ Len(txn') = Len(txn) /\ DOMAIN txn' = DOMAIN txn
          /\ txn'[d] = t /\ \A j \in Ids \ {d} : txn'[j] = txn[j]
        BY <2>1, <2>2, UpdateTypes DEF IInv
    <2>4. Advances
        BY <1>2, <1>3, <2>2, <2>3 DEF Advances
    <2>5. \A e \in Ids : txn[e].st = "RUNNING" => RecordFits(txn'[e])
        BY <1>1, <2>3, OthersFit
    <2> QED BY <1>1, <1>2, <2>3, <2>4, <2>5
<1>4. CASE verdict # "ACCEPT"
    <2>1. txn' = txn
        BY <1>4 DEF Decide
    <2>2. Advances
        BY <1>2, <2>1 DEF Advances
    <2>3. \A e \in Ids : txn[e].st = "RUNNING" => RecordFits(txn'[e])
        BY <2>1, OthersFit
    <2> QED BY <1>1, <1>2, <2>1, <2>2, <2>3
<1> QED BY <1>3, <1>4

LEMMA DeliverStep ==
    ASSUME IInv, NEW s \in Sessions, NEW verdict, Deliver(s, verdict)
    PROVE  IInv'
<1> DEFINE n == Len(txn)
<1>1. session[s].pc = "deliver" /\ lane' = None /\ session' = [session EXCEPT ![s] = Idle]
      /\ UNCHANGED <<receipts, tree, faults>>
    BY DEF Deliver, Release, Goto
<1>2. /\ lane = s /\ session[s].id = n /\ n \in Ids /\ txn[n].st = "PENDING_REVIEW" /\ txn[n].proof
      /\ \A u \in Sessions \ {s} : session[u].pc \notin Holding
    BY <1>1, WorkerIs DEF RecordFits
<1>3. Decide(n, verdict)
    BY <1>2 DEF Deliver
<1>4. /\ txn' \in Seq(Transaction) /\ Len(txn') = Len(txn) /\ DOMAIN txn' = DOMAIN txn
      /\ Advances /\ decided' \subseteq Ids
      /\ \A e \in decided' \ decided : e \in Ids /\ txn[e].proof
      /\ \A e \in Ids : txn[e].st = "RUNNING" => RecordFits(txn'[e])
    BY <1>2, <1>3, DecideAdvances
<1>5. Idle \in Session /\ Idle.pc = "idle" /\ None \notin Sessions
    <2>1. 0 \in 0..MaxTxn
        BY RepairLineageAssumption
    <2> QED BY <2>1, IdleTyped, RepairLineageAssumption DEF Idle
<1>6. LaneOK' /\ session'[s] = Idle /\ \A u \in Sessions \ {s} : session'[u] = session[u]
    BY <1>1, <1>2, <1>5, HolderMoves DEF IInv, Holding
<1>7. TypeOK'
    <2>1. tree' \in [Paths -> 0..Len(txn)] /\ faults' \in 0..MaxFault
        BY <1>1 DEF IInv, TypeOK
    <2> QED BY <1>1, <1>4, <1>6, <2>1, StepTypes DEF IInv
<1>8. Content
    BY <1>1 DEF Content
<1>9. Sessionwise
    BY <1>2, <1>5, <1>6 DEF Sessionwise, Holding
<1> QED BY <1>1, <1>4, <1>7, <1>8, <1>9, AdvanceStep

\* While the lane is free nobody runs, delivers or closes.
LEMMA FreeLane ==
    ASSUME IInv, lane = None, UNCHANGED <<lane, session>>
    PROVE  LaneOK' /\ Sessionwise /\ \A s \in Sessions : session[s].pc \notin Holding
<1>1. \A s \in Sessions : session[s].pc \notin Holding
    BY SessionTyped, RepairLineageAssumption DEF IInv, Holding
<1>2. LaneOK'
    BY DEF IInv, TypeOK, LaneOK, Holding
<1> QED BY <1>1, <1>2 DEF Sessionwise, Holding

LEMMA ReviewStep ==
    ASSUME IInv, NEW d \in Ids, NEW verdict, Review(d, verdict)
    PROVE  IInv'
<1>1. /\ lane = None /\ txn[d].proof /\ Decide(d, verdict)
      /\ verdict = "ACCEPT" => txn[d].st = "PENDING_REVIEW"
      /\ UNCHANGED <<receipts, tree, lane, session, faults>>
    BY DEF Review, Reviewable
<1>2. /\ txn' \in Seq(Transaction) /\ Len(txn') = Len(txn) /\ DOMAIN txn' = DOMAIN txn
      /\ Advances /\ decided' \subseteq Ids
      /\ \A e \in decided' \ decided : e \in Ids /\ txn[e].proof
      /\ \A e \in Ids : txn[e].st = "RUNNING" => RecordFits(txn'[e])
    BY <1>1, DecideAdvances
<1>3. LaneOK' /\ Sessionwise
    BY <1>1, FreeLane
<1>4. TypeOK'
    <2>1. tree' \in [Paths -> 0..Len(txn)] /\ faults' \in 0..MaxFault
        BY <1>1 DEF IInv, TypeOK
    <2> QED BY <1>1, <1>2, <1>3, <2>1, StepTypes DEF IInv
<1>5. Content
    BY <1>1 DEF Content
<1> QED BY <1>1, <1>2, <1>3, <1>4, <1>5, AdvanceStep

LEMMA DiscardStep ==
    ASSUME IInv, NEW P, Discard(P)
    PROVE  IInv'
<1>1. /\ lane = None /\ Fault /\ UNCHANGED <<txn, decided, receipts, lane, session>>
      /\ tree' = [p \in Paths |-> IF p \in P THEN 0 ELSE tree[p]]
    BY DEF Discard
<1>2. LaneOK' /\ Sessionwise /\ faults' \in 0..MaxFault
    BY <1>1, FreeLane, FaultTyped DEF IInv
<1>3. Advances /\ \A d \in Ids : txn[d].st = "RUNNING" => RecordFits(txn'[d])
    BY <1>1, OthersFit DEF Advances
<1>4. Content
    BY <1>1 DEF Content
<1>5. TypeOK'
    <2>1. tree \in [Paths -> 0..Len(txn)] /\ 0 \in 0..Len(txn)
        BY IdsAre DEF IInv, TypeOK
    <2>2. tree' \in [Paths -> 0..Len(txn)]
        BY <1>1, <2>1
    <2>3. txn' \in Seq(Transaction) /\ decided' \subseteq Ids
        BY <1>1 DEF IInv, TypeOK, Ids
    <2> QED BY <1>1, <1>2, <2>2, <2>3, StepTypes DEF IInv
<1> QED BY <1>1, <1>2, <1>3, <1>4, <1>5, AdvanceStep

LEMMA ReconcileStep ==
    ASSUME IInv, NEW d \in Ids, Reconcile(d)
    PROVE  IInv'
<1> DEFINE t == [txn[d] EXCEPT !.st = "ABORTED", !.end = "open"]
<1>1. /\ lane = None /\ txn[d].st = "RUNNING" /\ txn[d].wrote = {}
      /\ UNCHANGED <<decided, receipts, tree, lane, session, faults>>
    BY DEF Reconcile
<1>2. txn[d] \in Transaction /\ RecordFits(txn[d])
    BY RecordTyped DEF IInv, RecordsFit
<1>3. txn' = [txn EXCEPT ![d] = t]
    <2>1. txn' = [txn EXCEPT ![d].st = "ABORTED", ![d].end = "open"]
        BY DEF Reconcile
    <2>2. txn \in Seq(Transaction) /\ d \in DOMAIN txn
        BY DEF IInv, TypeOK, Ids
    <2> QED BY <2>1, <2>2
<1>4. /\ t \in Transaction /\ t.st = "ABORTED" /\ t.proof = txn[d].proof
      /\ t.wrote = txn[d].wrote /\ t.parent = txn[d].parent /\ t.root = txn[d].root
      /\ t.cont = txn[d].cont /\ t.carried = txn[d].carried /\ t.allowed = txn[d].allowed
    BY <1>2 DEF Transaction, Status, End
<1>5. RecordFits(t)
    BY <1>1, <1>2, <1>4 DEF RecordFits
<1> HIDE DEF t
<1>6. /\ txn' \in Seq(Transaction) /\ Len(txn') = Len(txn) /\ DOMAIN txn' = DOMAIN txn
      /\ txn'[d] = t /\ \A j \in Ids \ {d} : txn'[j] = txn[j]
    BY <1>3, <1>4, UpdateTypes DEF IInv
<1>7. Advances
    BY <1>1, <1>4, <1>6 DEF Advances
<1>8. LaneOK' /\ Sessionwise
    BY <1>1, FreeLane
<1>9. TypeOK'
    BY <1>1, <1>6, <1>8, StepTypes DEF IInv, TypeOK, Ids
<1>10. Content
    BY <1>1 DEF Content
<1>11. \A e \in Ids : txn[e].st = "RUNNING" => RecordFits(txn'[e])
    BY <1>5, <1>6, OthersFit
<1> QED BY <1>1, <1>7, <1>8, <1>9, <1>10, <1>11, AdvanceStep

-----------------------------------------------------------------------------
(* New delegations                                                         *)

\* What a delegation that nobody repairs yet gives its successor.
Hangs(parent, root, cont, carried) ==
    \/ parent = 0 /\ root = 0 /\ cont = 0
    \/ /\ parent \in Ids /\ txn[parent].st # "RUNNING"
       /\ txn[parent].carried \subseteq carried
       /\ txn[parent].proof => txn[parent].changed \subseteq carried
       /\ root \in Roots /\ cont \in decided
       /\ parent \notin Parents /\ parent \notin Superseded

LEMMA PrepareStep ==
    ASSUME IInv, NEW s \in Sessions, lane = None, NEW allowed \in SUBSET Paths,
           NEW parent, NEW root, NEW cont, NEW carried \in SUBSET Paths,
           Hangs(parent, root, cont, carried),
           Prepare(s, allowed, parent, root, cont, carried)
    PROVE  IInv'
<1> DEFINE n == Len(txn) + 1
           t == [st |-> "RUNNING", end |-> "none", parent |-> parent, root |-> root, cont |-> cont,
                 allowed |-> allowed, wrote |-> {}, changed |-> {}, carried |-> carried,
                 proof |-> FALSE, bind |-> [p \in Paths |-> 0]]
           x == [Idle EXCEPT !.pc = "run", !.id = n]
<1>1. /\ txn' = Append(txn, t) /\ Len(txn) < MaxTxn /\ lane' = s
      /\ session' = [session EXCEPT ![s] = x] /\ UNCHANGED <<decided, receipts, tree, faults>>
    BY DEF Prepare
<1>2. /\ Len(txn) \in Nat /\ Ids = 1..Len(txn) /\ MaxTxn \in Nat /\ txn \in Seq(Transaction)
      /\ decided \subseteq Ids /\ Roots \subseteq decided
    BY IdsAre, TipsAreIds, RepairLineageAssumption DEF IInv, TypeOK
<1>3. parent \in 0..Len(txn) /\ root \in 0..Len(txn) /\ cont \in 0..Len(txn)
    <2>1. 0 \in 0..Len(txn) /\ \A i \in Ids : i \in 0..Len(txn)
        BY <1>2
    <2>2. parent \in Ids \cup {0} /\ root \in Ids \cup {0} /\ cont \in Ids \cup {0}
        BY <1>2 DEF Hangs
    <2> QED BY <2>1, <2>2
<1>4. t \in Transaction
    <2>1. parent \in 0..MaxTxn /\ root \in 0..MaxTxn /\ cont \in 0..MaxTxn /\ 0 \in 0..MaxTxn
        BY <1>1, <1>2, <1>3
    <2>2. [p \in Paths |-> 0] \in [Paths -> 0..MaxTxn]
        BY <2>1
    <2> QED BY <2>1, <2>2 DEF Transaction, Status, End
<1>5. /\ t.st = "RUNNING" /\ t.parent = parent /\ t.root = root /\ t.cont = cont
      /\ t.carried = carried /\ t.wrote = {} /\ t.allowed = allowed /\ t.proof = FALSE
    OBVIOUS
<1>6. n \in 1..MaxTxn /\ n \notin Ids
    BY <1>1, <1>2
<1>7. x \in Session /\ x.pc = "run" /\ x.id = n
    <2>1. n \in 0..MaxTxn
        BY <1>2, <1>6
    <2> QED BY <2>1, IdleTyped DEF Idle
<1> HIDE DEF t, x
<1>8. /\ txn' \in Seq(Transaction) /\ Len(txn') = n /\ txn'[n] = t
      /\ \A j \in Ids : txn'[j] = txn[j] /\ j # n
    BY <1>1, <1>2, <1>4, AppendProperties
<1>9. Ids' = Ids \cup {n} /\ DOMAIN txn' = Ids'
    BY <1>2, <1>8, LenProperties DEF Ids
<1>10. /\ LaneOK' /\ session'[s] = x /\ \A u \in Sessions \ {s} : session'[u] = session[u]
       /\ \A u \in Sessions \ {s} : session[u].pc \notin Holding
    <2>1. \A u \in Sessions \ {s} : session[u].pc \notin Holding
        BY SessionTyped, RepairLineageAssumption DEF IInv, Holding
    <2> QED BY <1>1, <1>7, <2>1, HolderMoves, RepairLineageAssumption DEF IInv, Holding
<1>11. TypeOK'
    <2>1. decided' \subseteq DOMAIN txn' /\ Len(txn') <= MaxTxn
        BY <1>1, <1>2, <1>6, <1>8, <1>9
    <2>2. receipts \subseteq [id : Ids, kind : {"closure", "abandon"}, st : Status]
        BY DEF IInv, TypeOK, Ids
    <2>3. receipts' \subseteq [id : DOMAIN txn', kind : {"closure", "abandon"}, st : Status]
        BY <1>1, <1>9, <2>2
    <2>4. tree' \in [Paths -> 0..Len(txn')]
        <3>1. tree \in [Paths -> 0..Len(txn)] /\ 0..Len(txn) \subseteq 0..n
            BY <1>2 DEF IInv, TypeOK
        <3> QED BY <1>1, <1>8, <3>1
    <2>5. faults' \in 0..MaxFault
        BY <1>1 DEF IInv, TypeOK
    <2> QED BY <1>8, <1>10, <2>1, <2>3, <2>4, <2>5, TypeParts
<1>12. RecordsFit'
    <2> SUFFICES ASSUME NEW d \in Ids'
                 PROVE  /\ txn'[d].parent < d /\ RecordFits(txn'[d])
                        /\ d \in decided' => txn'[d].proof
        BY DEF RecordsFit
    <2>1. CASE d \in Ids
        BY <1>1, <1>8, <2>1 DEF IInv, RecordsFit
    <2>2. CASE d = n
        <3>1. parent < n /\ d \notin decided'
            BY <1>1, <1>2, <1>3, <1>6, <2>2
        <3>2. RecordFits(t)
            BY <1>5 DEF RecordFits
        <3> QED BY <1>5, <1>8, <2>2, <3>1, <3>2
    <2> QED BY <1>9, <2>1, <2>2
<1>13. ContentIsWritten'
    <2> SUFFICES ASSUME NEW p \in Paths, tree'[p] # 0 PROVE p \in txn'[tree'[p]].wrote
        BY DEF ContentIsWritten, Dirty
    <2>1. tree[p] \in 0..Len(txn) /\ tree'[p] = tree[p]
        BY <1>1 DEF IInv, TypeOK
    <2>2. tree[p] \in Ids /\ p \in txn[tree[p]].wrote
        BY <1>2, <2>1 DEF IInv, ContentIsWritten, Dirty
    <2> QED BY <1>8, <2>1, <2>2
<1>14. WorkerIsLast'
    <2> SUFFICES ASSUME NEW u \in Sessions, session'[u].pc \in {"run", "deliver"}
                 PROVE  /\ Ids' # {} /\ session'[u].id = Len(txn')
                        /\ txn'[Len(txn')].st = IF session'[u].pc = "run" THEN "RUNNING"
                                                ELSE "PENDING_REVIEW"
        BY DEF WorkerIsLast
    <2>1. u = s
        BY <1>10 DEF Holding
    <2> QED BY <1>5, <1>7, <1>8, <1>9, <1>10, <2>1
<1>15. AdmittedFits'
    <2> SUFFICES ASSUME NEW u \in Sessions, session'[u].pc = "admitted"
                 PROVE  AuthorityFits(session[u].auth)'
        BY DEF AdmittedFits
    <2>1. PICK a : a = session[u].auth
        OBVIOUS
    <2>2. session[u].pc = "admitted" /\ session'[u].auth = a
        BY <1>7, <1>10, <2>1
    <2>3. AuthorityFits(a)
        BY <2>1, <2>2 DEF IInv, AdmittedFits
    <2>4. a.of \in Ids /\ a.of \in Ids' /\ txn'[a.of] = txn[a.of]
        BY <1>8, <1>9, <2>3 DEF AuthorityFits
    <2>5. Successor(a.of, a.kind)' = Successor(a.of, a.kind) /\ (IsRepair(a.of)' <=> IsRepair(a.of))
        BY <2>4 DEF Successor, IsRepair, CarriedBy
    <2>6. AuthorityFits(a)'
        BY <1>1, <2>3, <2>4, <2>5 DEF AuthorityFits
    <2> QED BY <2>2, <2>6 DEF AuthorityFits, Successor, IsRepair, CarriedBy, Ids
<1>16. /\ \A d \in Ids : (IsRepair(d)' <=> IsRepair(d)) /\ (Empty(d)' <=> Empty(d))
       /\ \A d \in Ids : \A k : HasReceipt(d, k)' <=> HasReceipt(d, k)
       /\ \A r \in receipts : r.id \in Ids
    <2>1. \A r \in receipts : r.id \in Ids
        BY DEF IInv, TypeOK, Ids
    <2> QED BY <1>1, <1>8, <2>1 DEF IsRepair, Empty, Retryable, HasReceipt
<1>17. Superseded' = Superseded /\ Superseded \subseteq Ids
    <2>1. \A d : (d \in Superseded)' <=> (\E r \in receipts : r.id = d)
                                         /\ HasReceipt(d, "closure")' /\ (Empty(d))'
        BY <1>1 DEF Superseded
    <2> QED BY <1>16, <2>1, LiveIs
<1>18. /\ Live' = Live \cup (IF parent = 0 THEN {} ELSE {n})
       /\ Lineaged' = Lineaged \cup (IF parent = 0 THEN {} ELSE {n})
       /\ Roots \subseteq Roots'
    <2>1. /\ \A d : (d \in Live)' <=> d \in Ids' /\ txn'[d].parent # 0 /\ d \notin Superseded'
          /\ \A d : (d \in Lineaged)' <=> d \in Ids' /\ txn'[d].parent # 0
        BY DEF Live, Lineaged, IsRepair
    <2>2. /\ txn'[n].parent # 0 <=> parent # 0
          /\ \A d \in Ids : txn'[d].parent # 0 <=> IsRepair(d)
        BY <1>5, <1>8 DEF IsRepair
    <2>3. n \notin Superseded
        BY <1>6, <1>17
    <2>4. Live' = Live \cup (IF parent = 0 THEN {} ELSE {n})
        BY <1>9, <1>17, <2>1, <2>2, <2>3, LiveIs
    <2>5. Lineaged' = Lineaged \cup (IF parent = 0 THEN {} ELSE {n})
        BY <1>9, <2>1, <2>2 DEF Lineaged
    <2> QED BY <1>1, <1>2, <1>16, <2>4, <2>5 DEF Roots
<1>19. EdgesFit'
    <2> SUFFICES ASSUME NEW c \in Lineaged'
                 PROVE  LET p == txn'[c].parent IN
                        /\ txn'[p].st # "RUNNING"
                        /\ txn'[p].carried \subseteq txn'[c].carried
                        /\ txn'[p].proof => txn'[p].changed \subseteq txn'[c].carried
                        /\ txn'[c].root \in Roots' /\ txn'[c].cont \in decided'
        BY DEF EdgesFit
    <2>1. CASE c \in Lineaged
        <3> DEFINE p == txn[c].parent
        <3>1. c \in Ids /\ p \in Ids
            BY <2>1, ParentIs
        <3>2. /\ txn[p].st # "RUNNING" /\ txn[p].carried \subseteq txn[c].carried
              /\ txn[p].proof => txn[p].changed \subseteq txn[c].carried
              /\ txn[c].root \in Roots /\ txn[c].cont \in decided
            BY <2>1 DEF IInv, EdgesFit
        <3>3. txn'[c] = txn[c] /\ txn'[p] = txn[p]
            BY <1>8, <3>1
        <3> QED BY <1>1, <1>18, <3>2, <3>3
    <2>2. CASE c = n /\ parent # 0
        <3>1. /\ parent \in Ids /\ txn[parent].st # "RUNNING" /\ txn[parent].carried \subseteq carried
              /\ txn[parent].proof => txn[parent].changed \subseteq carried
              /\ root \in Roots /\ cont \in decided
            BY <2>2 DEF Hangs
        <3>2. txn'[parent] = txn[parent] /\ txn'[c] = t
            BY <1>8, <2>2, <3>1
        <3> QED BY <1>1, <1>5, <1>18, <3>1, <3>2
    <2> QED BY <1>18, <2>1, <2>2
<1>20. ChainIsLinear'
    <2>1. ASSUME NEW c \in Live
          PROVE  /\ txn'[c].parent = txn[c].parent /\ txn[c].parent \notin Superseded
                 /\ txn[c].parent \in Parents
                 /\ \A e \in Live : txn[e].parent = txn[c].parent => e = c
        <3>1. c \in Ids
            BY LiveIs
        <3> QED BY <1>8, <3>1 DEF IInv, ChainIsLinear, Parents
    <2>2. parent # 0 => parent \notin Parents /\ parent \notin Superseded
        BY DEF Hangs
    <2>3. txn'[n].parent = parent
        BY <1>5, <1>8
    <2> SUFFICES ASSUME NEW c \in Live'
                 PROVE  /\ txn'[c].parent \notin Superseded'
                        /\ \A e \in Live' : txn'[e].parent = txn'[c].parent => e = c
        BY DEF ChainIsLinear
    <2> QED BY <1>17, <1>18, <2>1, <2>2, <2>3
<1>21. ClosedIsClean'
    <2> SUFFICES ASSUME NEW r \in receipts
                 PROVE  /\ r.kind = "closure" => txn'[r.id].st # "RUNNING"
                        /\ \A u \in Sessions : session'[u].pc = "run" => session'[u].id # r.id
                        /\ \A p \in Paths :
                              r.kind = "abandon"
                              \/ (~(Empty(r.id))' /\ p \in txn'[r.id].wrote \cup txn'[r.id].carried)
                              => tree'[p] = 0 \/ tree'[p] > r.id
        BY <1>1 DEF ClosedIsClean
    <2>1. r.id \in Ids /\ txn'[r.id] = txn[r.id] /\ (Empty(r.id)' <=> Empty(r.id)) /\ r.id # n
        BY <1>6, <1>8, <1>16
    <2>2. /\ r.kind = "closure" => txn[r.id].st # "RUNNING"
          /\ \A p \in Paths :
                r.kind = "abandon" \/ (~Empty(r.id) /\ p \in txn[r.id].wrote \cup txn[r.id].carried)
                => tree[p] = 0 \/ tree[p] > r.id
        BY DEF IInv, ClosedIsClean
    <2>3. \A u \in Sessions : session'[u].pc = "run" => session'[u].id # r.id
        BY <1>7, <1>10, <2>1 DEF Holding
    <2> QED BY <1>1, <2>1, <2>2, <2>3
<1> QED BY <1>11, <1>12, <1>13, <1>14, <1>15, <1>19, <1>20, <1>21 DEF IInv

LEMMA DelegateStep ==
    ASSUME IInv, NEW s \in Sessions, Delegate(s)
    PROVE  IInv'
<1>1. PICK allowed \in SUBSET Paths : Prepare(s, allowed, 0, 0, 0, {})
    BY DEF Delegate
<1>2. lane = None /\ Hangs(0, 0, 0, {}) /\ {} \in SUBSET Paths
    BY DEF Delegate, Hangs
<1> QED BY <1>1, <1>2, PrepareStep

\* A tip is part of its chain and is neither superseded nor repaired nor closed.
LEMMA TipIsOpen ==
    ASSUME IInv, NEW d \in RepairTips
    PROVE  d \in Ids /\ d \notin Parents /\ d \notin Superseded /\ ~Closed(d)
<1>1. d \in Ids /\ d \in Roots \cup Live /\ d \notin Parents /\ ~Closed(d)
    BY TipsAreIds DEF RepairTips
<1> QED BY <1>1, LiveIs DEF Roots, Empty, Retryable

\* What is revalidated under the lane is a tip, with everything its successor is given.
LEMMA RevalidatedHangs ==
    ASSUME IInv, NEW s \in Sessions, session[s].pc = "admitted", Revalidated(s), NEW a,
           a = session[s].auth
    PROVE  /\ a.of \in RepairTips /\ a.of # 0 /\ a.carried \subseteq Paths
           /\ txn[a.of].allowed \subseteq Paths /\ Hangs(a.of, a.root, a.cont, a.carried)
<1> DEFINE d == a.of
<1>1. /\ a \in Authority /\ d \in Ids /\ txn[d].st # "RUNNING" /\ a = Successor(d, a.kind)
      /\ IF a.kind \in {"semantic", "negative"} THEN d \in decided ELSE IsRepair(d)
    BY DEF IInv, AdmittedFits, AuthorityFits
<1>2. d # 0 /\ txn[d].allowed \subseteq Paths /\ CarriedBy(d) \subseteq Paths
    BY <1>1, RecordTyped, PathsTyped DEF IInv
<1>3. d \in RepairTips
    BY <1>2 DEF Revalidated, Admit
<1>4. d \notin Parents /\ d \notin Superseded
    BY <1>3, TipIsOpen
<1>5. /\ a.carried = CarriedBy(d) /\ a.root = IF IsRepair(d) THEN txn[d].root ELSE d
      /\ a.cont = IF a.kind \in {"semantic", "negative"} THEN d ELSE txn[d].cont
    <2>1. PICK k : k = a.kind
        OBVIOUS
    <2>2. a = Successor(d, k)
        BY <1>1, <2>1
    <2> QED BY <2>1, <2>2 DEF Successor
<1>6. IsRepair(d) => txn[d].root \in Roots /\ txn[d].cont \in decided
    BY <1>1 DEF IInv, EdgesFit, Lineaged
<1>7. a.root \in Roots /\ a.cont \in decided
    BY <1>1, <1>5, <1>6 DEF Roots
<1>8. /\ txn[d].carried \subseteq CarriedBy(d)
      /\ txn[d].proof => txn[d].changed \subseteq CarriedBy(d)
    BY DEF CarriedBy
<1> QED BY <1>1, <1>2, <1>3, <1>4, <1>5, <1>7, <1>8 DEF Hangs

LEMMA RepairPrepareStep ==
    ASSUME IInv, NEW s \in Sessions, RepairPrepare(s)
    PROVE  IInv'
<1>1. PICK a : a = session[s].auth
    OBVIOUS
<1>2. /\ session[s].pc = "admitted" /\ lane = None /\ Revalidated(s)
      /\ Prepare(s, txn[a.of].allowed, a.of, a.root, a.cont, a.carried)
    BY <1>1 DEF RepairPrepare
<1>3. /\ a.carried \subseteq Paths /\ txn[a.of].allowed \subseteq Paths
      /\ Hangs(a.of, a.root, a.cont, a.carried)
    BY <1>1, <1>2, RevalidatedHangs
<1>4. PICK w : w = txn[a.of].allowed
    OBVIOUS
<1> QED BY <1>2, <1>3, <1>4, PrepareStep

-----------------------------------------------------------------------------
(* Closure and abandonment                                                 *)

\* A receipt of a delegation that is clean: an attempt it supersedes has no successor.
LEMMA ReceiptStep ==
    ASSUME IInv, NEW d \in Ids, NEW kind \in {"closure", "abandon"},
           receipts' = receipts \cup {[id |-> d, kind |-> kind, st |-> txn[d].st]},
           UNCHANGED <<txn, decided, tree, faults>>, LaneOK',
           \A u \in Sessions : session'[u] = session[u] \/ session'[u].pc \in {"idle", "closing"},
           \A u \in Sessions : session'[u].pc \notin {"run", "deliver"},
           kind = "closure" => txn[d].st # "RUNNING",
           kind = "closure" /\ Empty(d) => d \notin Parents,
           \A p \in Paths :
               kind = "abandon" \/ (~Empty(d) /\ p \in txn[d].wrote \cup txn[d].carried) => tree[p] = 0
    PROVE  IInv'
<1> DEFINE q == [id |-> d, kind |-> kind, st |-> txn[d].st]
<1>1. TypeOK'
    <2>1. q \in [id : DOMAIN txn, kind : {"closure", "abandon"}, st : Status]
        BY RecordTyped DEF IInv, Ids
    <2>2. receipts \subseteq [id : DOMAIN txn, kind : {"closure", "abandon"}, st : Status]
        BY DEF IInv, TypeOK
    <2> HIDE DEF q
    <2>3. receipts' = receipts \cup {q}
        BY DEF q
    <2>4. receipts' \subseteq [id : DOMAIN txn', kind : {"closure", "abandon"}, st : Status]
        BY <2>1, <2>2, <2>3
    <2> QED BY <2>4, TypeParts DEF IInv, TypeOK
<1>2. RecordsFit' /\ ContentIsWritten' /\ Ids' = Ids
    BY DEF IInv, RecordsFit, ContentIsWritten, Dirty, Ids
<1>3. WorkerIsLast'
    BY DEF WorkerIsLast
<1>4. AdmittedFits'
    <2> SUFFICES ASSUME NEW u \in Sessions, session'[u].pc = "admitted"
                 PROVE  AuthorityFits(session[u].auth)'
        BY DEF AdmittedFits
    <2>1. session'[u] = session[u]
        OBVIOUS
    <2>2. AuthorityFits(session[u].auth)
        BY <2>1 DEF IInv, AdmittedFits
    <2> QED BY <2>1, <2>2 DEF AuthorityFits, Successor, IsRepair, CarriedBy, Ids
<1>5. EdgesFit'
    BY DEF IInv, EdgesFit, Lineaged, IsRepair, Roots, Ids
<1>6. \A e : e \in Superseded' <=> e \in Superseded \/ (e = d /\ kind = "closure" /\ Empty(d))
    <2>1. ASSUME NEW e
          PROVE  HasReceipt(e, "closure")' <=> HasReceipt(e, "closure") \/ (e = d /\ kind = "closure")
        BY DEF HasReceipt
    <2>2. \A e : Empty(e)' <=> Empty(e)
        BY DEF Empty, Retryable, IsRepair
    <2>3. \A e : (\E r \in receipts' : r.id = e) <=> (\E r \in receipts : r.id = e) \/ e = d
        <3>1. q \in receipts' /\ q.id = d
            OBVIOUS
        <3> QED BY <3>1
    <2>4. \A e : (e \in Superseded)' <=> (\E r \in receipts' : r.id = e)
                                         /\ HasReceipt(e, "closure")' /\ (Empty(e))'
        BY DEF Superseded
    <2>5. \A e : HasReceipt(e, "closure") => \E r \in receipts : r.id = e
        BY DEF HasReceipt
    <2> QED BY <2>1, <2>2, <2>3, <2>4, <2>5, LiveIs
<1>7. Live' \subseteq Live
    BY <1>6, LiveIs DEF Live, IsRepair, Ids
<1>8. ChainIsLinear'
    <2> SUFFICES ASSUME NEW c \in Live'
                 PROVE  /\ txn[c].parent \notin Superseded'
                        /\ \A e \in Live' : txn[e].parent = txn[c].parent => e = c
        BY DEF ChainIsLinear
    <2>1. /\ c \in Live /\ txn[c].parent \notin Superseded /\ txn[c].parent \in Parents
          /\ \A e \in Live : txn[e].parent = txn[c].parent => e = c
        BY <1>7 DEF IInv, ChainIsLinear, Parents
    <2> QED BY <1>6, <1>7, <2>1
<1>9. ClosedIsClean'
    <2> SUFFICES ASSUME NEW r \in receipts'
                 PROVE  /\ r.kind = "closure" => txn[r.id].st # "RUNNING"
                        /\ \A p \in Paths :
                              r.kind = "abandon" \/ (~Empty(r.id) /\ p \in txn[r.id].wrote \cup txn[r.id].carried)
                              => tree[p] = 0 \/ tree[p] > r.id
        BY DEF ClosedIsClean, Empty, Retryable, IsRepair
    <2>1. CASE r \in receipts
        BY <2>1 DEF IInv, ClosedIsClean
    <2>2. CASE r = q
        <3>1. r.id = d /\ r.kind = kind
            BY <2>2
        <3> QED BY <3>1
    <2> QED BY <2>1, <2>2
<1> QED BY <1>1, <1>2, <1>3, <1>4, <1>5, <1>8, <1>9 DEF IInv

LEMMA BlockersAre ==
    ASSUME IInv, NEW d \in Blockers
    PROVE  d \in Ids /\ d \in Ordinary \cup RepairTips /\ (Empty(d) => d \notin Parents)
<1>1. d \in Ordinary \cup RepairTips
    BY DEF Blockers
<1>2. Empty(d) => d \notin Ordinary
    BY DEF Ordinary, Empty, Retryable
<1> QED BY <1>1, <1>2, TipsAreIds, TipIsOpen

\* What a closure asks to be clean is all that the delegation wrote or carried.
LEMMA RelevantCovers ==
    ASSUME IInv, NEW d \in Ids, ~Empty(d)
    PROVE  txn[d].wrote \cup txn[d].carried \subseteq RelevantPaths(d)
<1>1. (txn[d].proof => txn[d].changed = txn[d].wrote) /\ txn[d].wrote \subseteq txn[d].allowed
    BY DEF IInv, RecordsFit, RecordFits
<1>2. CASE txn[d].proof /\ txn[d].end \in {"sealed", "unpublished"}
    BY <1>1, <1>2 DEF RelevantPaths
<1>3. CASE txn[d].proof /\ txn[d].end \notin {"sealed", "unpublished"}
    BY <1>1, <1>3 DEF RelevantPaths
<1>4. CASE ~txn[d].proof /\ txn[d].end \in {"sealed", "unpublished"}
    BY <1>4 DEF RelevantPaths
<1>5. CASE ~txn[d].proof /\ txn[d].end \notin {"sealed", "unpublished"}
    <2>1. RelevantPaths(d) = txn[d].allowed \cup txn[d].carried
        BY <1>5 DEF RelevantPaths
    <2> QED BY <1>1, <2>1
<1> QED BY <1>2, <1>3, <1>4, <1>5

LEMMA CloseStep ==
    ASSUME IInv, NEW s \in Sessions, session[s].pc \in {"idle", "closing"}, NEW d \in Ids,
           Close(s, d)
    PROVE  IInv'
<1>1. /\ lane \in {None, s} /\ isInactiveClosableStatus(d) /\ RelevantPaths(d) \cap Dirty = {}
      /\ d \in Blockers /\ UNCHANGED <<txn, decided, tree, faults>>
      /\ receipts' = receipts \cup {[id |-> d, kind |-> "closure", st |-> txn[d].st]}
    BY DEF Close
<1>2. PICK x \in {Idle, [Idle EXCEPT !.pc = "closing"]} :
          /\ session' = [session EXCEPT ![s] = x]
          /\ lane' = IF x = Idle THEN None ELSE s
    <2>1. Idle # [Idle EXCEPT !.pc = "closing"]
        BY DEF Idle
    <2> DEFINE more == Empty(d) /\ \E b \in Blockers' : Retryable(b)
    <2>2. /\ lane' = IF more THEN s ELSE None
          /\ session' = [session EXCEPT ![s] = IF more THEN [Idle EXCEPT !.pc = "closing"] ELSE Idle]
        BY DEF Close, Goto
    <2> HIDE DEF more
    <2>3. CASE more
        BY <2>1, <2>2, <2>3
    <2>4. CASE ~more
        BY <2>2, <2>4
    <2> QED BY <2>3, <2>4
<1>3. x \in Session /\ x.pc \in {"idle", "closing"} /\ (x = Idle <=> x.pc = "idle")
    <2>1. 0 \in 0..MaxTxn
        BY RepairLineageAssumption
    <2>2. Idle.pc = "idle" /\ [Idle EXCEPT !.pc = "closing"].pc = "closing"
        BY DEF Idle
    <2>3. Idle \in Session /\ [Idle EXCEPT !.pc = "closing"] \in Session
        BY <2>1, IdleTyped
    <2> QED BY <1>2, <2>2, <2>3
<1>4. LaneOK' /\ session'[s] = x /\ \A u \in Sessions \ {s} : session'[u] = session[u]
    BY <1>1, <1>2, <1>3, HolderMoves, RepairLineageAssumption DEF IInv, Holding
<1>5. \A u \in Sessions : session'[u].pc \notin {"run", "deliver"}
    <2>1. \A u \in Sessions \ {s} : session[u].pc \notin {"run", "deliver"}
        BY <1>1, SessionTyped, RepairLineageAssumption DEF IInv
    <2> QED BY <1>3, <1>4, <2>1
<1>6. txn[d].st # "RUNNING"
    BY <1>1 DEF isInactiveClosableStatus
<1>7. Empty(d) => d \notin Parents
    BY <1>1, BlockersAre
<1>8. \A p \in Paths : ~Empty(d) /\ p \in txn[d].wrote \cup txn[d].carried => tree[p] = 0
    BY <1>1, RelevantCovers DEF Dirty
<1> QED BY <1>1, <1>3, <1>4, <1>5, <1>6, <1>7, <1>8, ReceiptStep

LEMMA AbandonStep ==
    ASSUME IInv, NEW d \in Ids, Abandon(d)
    PROVE  IInv'
<1>1. /\ lane = None /\ Dirty = {} /\ UNCHANGED <<txn, decided, tree, lane, session, faults>>
      /\ receipts' = receipts \cup {[id |-> d, kind |-> "abandon", st |-> txn[d].st]}
    BY DEF Abandon
<1>2. LaneOK' /\ \A u \in Sessions : session'[u].pc \notin {"run", "deliver"}
    BY <1>1, FreeLane DEF Holding
<1>3. \A p \in Paths : tree[p] = 0
    BY <1>1 DEF Dirty
<1> QED BY <1>1, <1>2, <1>3, ReceiptStep

-----------------------------------------------------------------------------
(* The invariant of the specification                                      *)

LEMMA InitIInv == Init => IInv
<1> SUFFICES ASSUME Init PROVE IInv
    OBVIOUS
<1>1. txn = <<>> /\ Len(txn) = 0 /\ Ids = {} /\ DOMAIN txn = {}
    BY DEF Init, Ids
<1>2. TypeOK
    <2>1. 0 \in 0..MaxTxn /\ 0 <= MaxTxn /\ 0 \in 0..MaxFault /\ None \notin Sessions
        BY RepairLineageAssumption
    <2>2. session \in [Sessions -> Session] /\ \A s \in Sessions : session[s].pc = "idle"
        BY <2>1, IdleTyped DEF Init, Idle
    <2>3. tree \in [Paths -> 0..Len(txn)]
        BY <1>1 DEF Init
    <2> QED BY <1>1, <2>1, <2>2, <2>3 DEF Init, TypeOK
<1>3. RecordsFit /\ EdgesFit /\ ContentIsWritten
    BY <1>1 DEF RecordsFit, EdgesFit, Lineaged, ContentIsWritten, Dirty, Init
<1>4. WorkerIsLast /\ AdmittedFits
    BY DEF Init, WorkerIsLast, AdmittedFits, Idle
<1>5. ChainIsLinear /\ ClosedIsClean
    BY <1>1 DEF Init, ChainIsLinear, ClosedIsClean, Live
<1> QED BY <1>2, <1>3, <1>4, <1>5 DEF IInv

LEMMA SessionIInv ==
    ASSUME IInv, NEW s \in Sessions, SessionStep(s)
    PROVE  IInv'
<1>1. CASE Command(s)
    <2>1. session[s].pc = "idle"
        BY <1>1 DEF Command
    <2>2. CASE Delegate(s)
        BY <2>2, DelegateStep
    <2>3. CASE \E d \in Ids : RepairRecover(s, d)
        BY <2>1, <2>3, RecoverStep
    <2>4. CASE \E d \in Ids, verdict \in {"ACCEPT", "REPAIR"} : Review(d, verdict)
        BY <2>4, ReviewStep
    <2>5. CASE \E d \in Ids : Close(s, d) \/ Abandon(d)
        BY <2>1, <2>5, CloseStep, AbandonStep
    <2> QED BY <1>1, <2>2, <2>3, <2>4, <2>5 DEF Command
<1>2. CASE RepairPrepare(s)
    BY <1>2, RepairPrepareStep
<1>3. CASE RepairRefused(s)
    BY <1>3, RefusedStep
<1>4. CASE Worker(s)
    <2>1. session[s].pc = "run"
        BY <1>4 DEF Worker
    <2>2. CASE \E p \in Paths : Write(s, p)
        BY <2>1, <2>2, WriteStep
    <2>3. CASE \E st \in {"PENDING_REVIEW", "FAILED", "INTERRUPTED"} : Commit(s, st)
        BY <2>1, <2>3, CommitStep
    <2>4. CASE \E end \in End \ {"none"} : Fail(s, end)
        BY <2>1, <2>4, FailStep
    <2>5. CASE Abort(s)
        BY <2>1, <2>5, AbortStep
    <2> QED BY <1>4, <2>2, <2>3, <2>4, <2>5 DEF Worker
<1>5. CASE \E verdict \in {"none", "ACCEPT", "REPAIR"} : Deliver(s, verdict)
    BY <1>5, DeliverStep
<1>6. CASE session[s].pc = "closing" /\ ((\E d \in Ids : Close(s, d)) \/ CloseRefused(s))
    BY <1>6, CloseStep, CloseRefusedStep
<1>7. CASE Crash(s)
    BY <1>7, CrashStep
<1> QED BY <1>1, <1>2, <1>3, <1>4, <1>5, <1>6, <1>7 DEF SessionStep

LEMMA NextIInv == IInv /\ [Next]_vars => IInv'
<1> SUFFICES ASSUME IInv, [Next]_vars PROVE IInv'
    OBVIOUS
<1>1. CASE \E s \in Sessions : SessionStep(s)
    BY <1>1, SessionIInv
<1>2. CASE \E P \in (SUBSET Dirty) \ {{}} : Discard(P)
    BY <1>2, DiscardStep
<1>3. CASE \E d \in Ids : Reconcile(d)
    BY <1>3, ReconcileStep
<1>4. CASE UNCHANGED vars
    <2>1. UNCHANGED <<txn, decided, receipts, tree, lane, session, faults>>
        BY <1>4 DEF vars
    <2>2. TypeOK'
        BY <2>1 DEF IInv, TypeOK
    <2>3. Advances /\ Content /\ \A d \in Ids : RecordFits(txn'[d])
        BY <2>1, OthersFit DEF Advances, Content
    <2>4. Sessionwise
        BY <2>1 DEF Sessionwise, IInv, WorkerIsLast
    <2> QED BY <2>1, <2>2, <2>3, <2>4, AdvanceStep
<1> QED BY <1>1, <1>2, <1>3, <1>4 DEF Next

\* For any number of delegations, sessions, paths and faults: the records of delegations, the
\* lane and the sessions keep their types (TypeOK), every repair hangs on a parent that was over
\* and gives it what it carried and committed, no delegation has two live successors, and what
\* was closed or abandoned holds no content of its own (delegation-project-authority.ts).
THEOREM InvariantHolds == Spec => []IInv
<1>1. Init => IInv
    BY InitIInv
<1>2. IInv /\ [Next]_vars => IInv'
    BY NextIInv
<1> QED BY <1>1, <1>2, PTL DEF Spec

\* Content of a delegation that nobody accepted stays refused to every ordinary delegation:
\* its chain has a newest live member that is neither closed nor accepted, whose path lane
\* covers the content or is unknown (delegation-path-lane-admission.ts).
THEOREM UnacceptedWorkStaysGuarded == Spec => []UnacceptedWorkIsGuarded
BY InvariantHolds, GuardedWork, PTL

\* The chain of every live repair is linear, hangs on a decided root and on a decision, and
\* carries the committed content of all its ancestors, however long it is
\* (readProjectDelegationRepairClosureV1 of delegation-project-authority.ts).
THEOREM ChainsStaySound == Spec => []ChainIsSound
BY InvariantHolds, SoundChains, PTL

\* A successor is added by the revalidation under the lane only, which asks for a tip.
LEMMA NewSuccessor ==
    ASSUME IInv, NEW n \in DOMAIN txn' \ DOMAIN txn, [Next]_vars
    PROVE  txn'[n].parent # 0 => ~Closed(txn'[n].parent)
<1>1. ASSUME NEW s \in Sessions, NEW allowed, NEW parent, NEW root, NEW cont, NEW carried,
             Prepare(s, allowed, parent, root, cont, carried)
      PROVE  txn'[n].parent = parent
    <2> DEFINE t == [st |-> "RUNNING", end |-> "none", parent |-> parent, root |-> root,
                     cont |-> cont, allowed |-> allowed, wrote |-> {}, changed |-> {},
                     carried |-> carried, proof |-> FALSE, bind |-> [p \in Paths |-> 0]]
    <2>1. txn' = Append(txn, t) /\ t.parent = parent
        BY <1>1 DEF Prepare
    <2>2. txn \in Seq(Transaction) /\ DOMAIN txn = 1..Len(txn) /\ Len(txn) \in Nat
        BY IdsAre DEF IInv, TypeOK, Ids
    <2> HIDE DEF t
    <2>3. txn \in Seq(Transaction \cup {t}) /\ t \in Transaction \cup {t}
        BY <2>2, SeqMonotonic
    <2>4. DOMAIN txn' = 1..(Len(txn) + 1) /\ txn'[Len(txn) + 1] = t
        BY <2>1, <2>3, AppendProperties, LenProperties
    <2>5. n = Len(txn) + 1
        BY <2>2, <2>4
    <2> QED BY <2>1, <2>4, <2>5
<1>2. ASSUME DOMAIN txn' = DOMAIN txn PROVE FALSE
    BY <1>2
<1>3. ASSUME NEW s \in Sessions, Command(s) PROVE txn'[n].parent = 0
    <2>1. CASE Delegate(s)
        BY <2>1, <1>1 DEF Delegate
    <2>2. CASE ~Delegate(s)
        <3>1. \/ txn' = txn
              \/ \E d \in Ids, verdict \in {"ACCEPT", "REPAIR"} : Decide(d, verdict)
            BY <1>3, <2>2 DEF Command, RepairRecover, Review, Close, Abandon
        <3>2. DOMAIN txn' = DOMAIN txn
            BY <3>1 DEF Decide
        <3> QED BY <1>2, <3>2
    <2> QED BY <2>1, <2>2
<1>4. ASSUME NEW s \in Sessions, RepairPrepare(s) PROVE ~Closed(txn'[n].parent)
    <2>1. PICK a : a = session[s].auth
        OBVIOUS
    <2>2. /\ session[s].pc = "admitted" /\ Revalidated(s)
          /\ Prepare(s, txn[a.of].allowed, a.of, a.root, a.cont, a.carried)
        BY <1>4, <2>1 DEF RepairPrepare
    <2>3. a.of \in RepairTips
        BY <2>1, <2>2, RevalidatedHangs
    <2>4. ~Closed(a.of)
        BY <2>3, TipIsOpen
    <2>5. txn'[n].parent = a.of
        BY <1>1, <2>2
    <2> QED BY <2>4, <2>5
<1>5. CASE \E s \in Sessions : Worker(s)
    <2>1. DOMAIN txn' = DOMAIN txn
        BY <1>5 DEF Worker, Write, Commit, Fail, Abort, Settle
    <2> QED BY <1>2, <2>1
<1>6. CASE \E s \in Sessions, verdict \in {"none", "ACCEPT", "REPAIR"} : Deliver(s, verdict)
    <2>1. DOMAIN txn' = DOMAIN txn
        BY <1>6 DEF Deliver, Decide
    <2> QED BY <1>2, <2>1
<1>7. CASE \/ \E s \in Sessions : \/ RepairRefused(s) \/ CloseRefused(s) \/ Crash(s)
                                  \/ \E d \in Ids : Close(s, d)
           \/ \E P \in (SUBSET Dirty) \ {{}} : Discard(P)
           \/ UNCHANGED vars
    <2>1. txn' = txn
        BY <1>7 DEF RepairRefused, CloseRefused, Crash, Close, Discard, vars
    <2> QED BY <1>2, <2>1
<1>8. CASE \E d \in Ids : Reconcile(d)
    <2>1. DOMAIN txn' = DOMAIN txn
        BY <1>8 DEF Reconcile
    <2> QED BY <1>2, <2>1
<1> QED BY <1>3, <1>4, <1>5, <1>6, <1>7, <1>8 DEF Next, SessionStep

\* A successor is never created for a delegation that was closed, abandoned or accepted after the
\* repair was authorised: both audits are read again under the checkout lane
\* (delegate-tool-controller.ts).
THEOREM ClosedStaysClosed == Spec => ClosedIsNotRepaired
<1>1. IInv /\ [Next]_vars =>
          [\A n \in DOMAIN txn' \ DOMAIN txn :
              txn'[n].parent # 0 => ~Closed(txn'[n].parent)]_vars
    BY NewSuccessor
<1> QED BY <1>1, InvariantHolds, PTL DEF Spec, ClosedIsNotRepaired
=============================================================================
