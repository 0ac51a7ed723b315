-------------------------- MODULE OverlayStateProofs -------------------------
(* Proofs about the overlay state manager, for every set of addresses,     *)
(* slots, values and codes and every nesting depth.                        *)
EXTENDS OverlayState, WellFoundedInduction, TLAPS

(* Lengths and elements of the sequences the checkpoint operations build.   *)
LEMMA AppendProperties ==
  ASSUME NEW S, NEW s \in Seq(S), NEW e \in S
  PROVE  /\ Append(s, e) \in Seq(S)
         /\ Len(Append(s, e)) = Len(s) + 1
         /\ \A i \in 1..Len(s) : Append(s, e)[i] = s[i]
         /\ Append(s, e)[Len(s) + 1] = e
OBVIOUS

LEMMA PrefixProperties ==
  ASSUME NEW S, NEW s \in Seq(S), NEW n \in 0..Len(s)
  PROVE  /\ SubSeq(s, 1, n) \in Seq(S)
         /\ Len(SubSeq(s, 1, n)) = n
         /\ \A i \in 1..n : SubSeq(s, 1, n)[i] = s[i]
OBVIOUS

LEMMA UpdateProperties ==
  ASSUME NEW S, NEW s \in Seq(S), NEW n \in 1..Len(s), NEW e \in S
  PROVE  /\ [s EXCEPT ![n] = e] \in Seq(S)
         /\ Len([s EXCEPT ![n] = e]) = Len(s)
         /\ [s EXCEPT ![n] = e][n] = e
         /\ \A i \in 1..Len(s) : i # n => [s EXCEPT ![n] = e][i] = s[i]
OBVIOUS

-----------------------------------------------------------------------------
(* The walk down the overlays. *)

(* A non-empty set of overlay indices has a greatest element.               *)
LEMMA GreatestExists ==
  ASSUME NEW n \in Nat, NEW S \in SUBSET (1..n), S # {}
  PROVE  /\ Greatest(S) \in S
         /\ \A y \in S : y <= Greatest(S)
<1> DEFINE T == {k \in Nat : n - k \in S}
           R == {e \in Nat \X Nat : e[1] < e[2]}
<1>1. T \subseteq Nat /\ T # {}
  <2>1. PICK x \in S : TRUE
    OBVIOUS
  <2>2. n - x \in Nat /\ n - (n - x) \in S
    BY <2>1
  <2>3. QED
    BY <2>2
<1>2. IsWellFoundedOn(R, Nat)
  BY NatLessThanWellFounded DEF OpToRel
<1>3. PICK m \in T : \A k \in T : ~ (<<k, m>> \in R)
  <2> HIDE DEF T, R
  <2>1. QED
    BY <1>1, <1>2, WFMin
<1>4. \A k \in T : m <= k
  <2>1. ASSUME NEW k \in T PROVE m <= k
    <3>1. k \in Nat /\ m \in Nat
      OBVIOUS
    <3>2. k < m => <<k, m>> \in R
      BY <3>1
    <3>3. ~ (<<k, m>> \in R)
      BY <1>3
    <3>4. QED
      BY <3>1, <3>2, <3>3
  <2>2. QED
    BY <2>1
<1>5. n - m \in S
  OBVIOUS
<1>6. \A y \in S : y <= n - m
  <2>1. ASSUME NEW y \in S PROVE y <= n - m
    <3>1. n - y \in Nat /\ n - (n - y) \in S
      OBVIOUS
    <3>2. m <= n - y
      BY <1>4, <3>1
    <3>3. QED
      BY <3>2
  <2>2. QED
    BY <2>1
<1>7. QED
  <2>1. \E x \in S : \A y \in S : y <= x
    BY <1>5, <1>6
  <2>2. QED
    BY <2>1 DEF Greatest

(* Reading below the bottom finds nothing.                                  *)
LEMMA WalkBottom ==
  ASSUME NEW o, NEW a, NEW s
  PROVE  StorageAtDepth(o, a, s, 0) = Absent
BY DEF StorageAtDepth, WalkStops

(* One step of the walk: the overlay's own slot, else nothing if it cleared *)
(* the account, else what the walk from the overlay below finds.            *)
FoundIn(overlay, a, s, below) ==
  IF overlay.written[a][s] # Absent THEN overlay.written[a][s]
  ELSE IF a \in overlay.cleared THEN Absent
  ELSE below

LEMMA WalkStep ==
  ASSUME NEW o, NEW a, NEW s, NEW n \in Nat \ {0}
  PROVE  StorageAtDepth(o, a, s, n) =
           FoundIn(o[n], a, s, StorageAtDepth(o, a, s, n - 1))
<1> USE DEF FoundIn
<1> DEFINE W(k) == WalkStops(o, a, s, k)
<1>1. W(n) \in SUBSET (1..n) /\ W(n - 1) \in SUBSET (1..(n - 1))
  BY DEF WalkStops
<1>2. CASE o[n].written[a][s] # Absent \/ a \in o[n].cleared
  <2>1. n \in W(n)
    BY <1>2 DEF WalkStops
  <2>2. Greatest(W(n)) = n
    <3> HIDE DEF W
    <3>1. Greatest(W(n)) \in 1..n /\ n <= Greatest(W(n))
      BY <1>1, <2>1, GreatestExists
    <3>2. QED
      BY <3>1
  <2>3. StorageAtDepth(o, a, s, n) = o[n].written[a][s]
    BY <2>1, <2>2 DEF StorageAtDepth
  <2>4. QED
    BY <2>3, <1>2
<1>3. CASE ~(o[n].written[a][s] # Absent \/ a \in o[n].cleared)
  <2>1. W(n) = W(n - 1)
    BY <1>3 DEF WalkStops
  <2>2. QED
    BY <1>3, <2>1 DEF StorageAtDepth
<1>4. QED
  BY <1>2, <1>3

(* A walk from level n reads no overlay above n.                            *)
LEMMA WalkFrame ==
  ASSUME NEW o, NEW p, NEW a, NEW s, NEW n \in Nat,
         \A i \in 1..n : o[i] = p[i]
  PROVE  StorageAtDepth(o, a, s, n) = StorageAtDepth(p, a, s, n)
<1>1. WalkStops(o, a, s, n) = WalkStops(p, a, s, n)
  BY DEF WalkStops
<1>2. CASE WalkStops(o, a, s, n) = {}
  BY <1>1, <1>2 DEF StorageAtDepth
<1>3. CASE WalkStops(o, a, s, n) # {}
  <2>1. Greatest(WalkStops(o, a, s, n)) \in 1..n
    BY <1>3, GreatestExists DEF WalkStops
  <2>2. QED
    BY <1>1, <1>3, <2>1 DEF StorageAtDepth
<1>4. QED
  BY <1>2, <1>3

(* What a walk returns is the content of some written slot, or Absent.      *)
LEMMA WalkType ==
  ASSUME NEW o \in Seq(Overlay), NEW a \in Address, NEW s \in Slot,
         NEW n \in 0..Len(o)
  PROVE  StorageAtDepth(o, a, s, n) \in SlotContent \cup {Absent}
<1>1. CASE WalkStops(o, a, s, n) = {}
  BY <1>1 DEF StorageAtDepth
<1>2. CASE WalkStops(o, a, s, n) # {}
  <2>1. Greatest(WalkStops(o, a, s, n)) \in 1..n
    <3>1. n \in Nat /\ WalkStops(o, a, s, n) \in SUBSET (1..n)
      BY DEF WalkStops
    <3>2. QED
      BY <1>2, <3>1, GreatestExists
  <2>2. o[Greatest(WalkStops(o, a, s, n))] \in Overlay
    BY <2>1
  <2>3. QED
    BY <1>2, <2>2 DEF StorageAtDepth, Overlay
<1>3. QED
  BY <1>1, <1>2

(* A clear comes across exactly the slots a read finds, with their values.  *)
LEMMA ClearSeesWhatReadsSee ==
  ASSUME NEW o, NEW a, NEW s, NEW n \in Nat
  PROVE  LET seen == SeenByClear(o, a, s, n)
             found == StorageAtDepth(o, a, s, n)
         IN  /\ seen = {} => found = Absent
             /\ seen # {} => /\ found = o[Greatest(seen)].written[a][s]
                             /\ found # Absent
<1> DEFINE seen == SeenByClear(o, a, s, n)
           stops == WalkStops(o, a, s, n)
<1>0. seen \in SUBSET (1..n) /\ stops \in SUBSET (1..n) /\ seen \subseteq stops
  BY DEF SeenByClear, WalkStops
<1>1. CASE stops = {}
  BY <1>0, <1>1 DEF StorageAtDepth
<1>2. CASE stops # {}
  <2> DEFINE g == Greatest(stops)
  <2>1. g \in stops /\ g \in 1..n /\ \A y \in stops : y <= g
    <3> HIDE DEF stops
    <3>1. QED
      BY <1>0, <1>2, GreatestExists
  <2>2. \A j \in (g + 1)..n : a \notin o[j].cleared
    BY <2>1 DEF WalkStops
  <2>3. StorageAtDepth(o, a, s, n) = o[g].written[a][s]
    BY <1>2 DEF StorageAtDepth
  <2>4. CASE o[g].written[a][s] # Absent
    <3>1. g \in seen
      BY <2>1, <2>2, <2>4 DEF SeenByClear
    <3>2. Greatest(seen) = g
      <4> HIDE DEF seen, stops, g
      <4>1. Greatest(seen) \in seen /\ g <= Greatest(seen)
        BY <1>0, <3>1, GreatestExists
      <4>2. Greatest(seen) <= g /\ Greatest(seen) \in 1..n
        BY <4>1, <1>0, <2>1
      <4>3. QED
        BY <4>1, <4>2, <2>1
    <3>3. QED
      BY <2>3, <2>4, <3>1, <3>2
  <2>5. CASE o[g].written[a][s] = Absent
    <3>1. a \in o[g].cleared
      BY <2>1, <2>5 DEF WalkStops
    <3>2. ASSUME NEW i \in seen PROVE FALSE
      <4>1. i \in stops /\ i \in 1..n /\ o[i].written[a][s] # Absent
        BY <1>0 DEF SeenByClear
      <4>2. i <= g /\ i # g
        BY <4>1, <2>1, <2>5
      <4>3. g \in (i + 1)..n
        BY <4>1, <4>2, <2>1
      <4>4. QED
        BY <3>1, <3>2, <4>3 DEF SeenByClear
    <3>3. QED
      BY <2>3, <2>5, <3>2
  <2>6. QED
    BY <2>4, <2>5
<1>3. QED
  BY <1>1, <1>2

-----------------------------------------------------------------------------
(* Types. *)

LEMMA EmptyTypes == EmptyOverlay \in Overlay /\ EmptyChangeSet \in ChangeSet
BY DEF EmptyOverlay, NothingWritten, Overlay, EmptyChangeSet, ChangeSet

LEMMA PriorIndexType ==
  ASSUME TypeOK
  PROVE  /\ PriorIndex \in 1..Depth
         /\ Depth \in Nat \ {0}
         /\ Depth > 1 => PriorIndex = Depth - 1
         /\ Depth = 1 => PriorIndex = 1
BY OverlayAssumption DEF TypeOK, PriorIndex

LEMMA RecordAccountPriorType ==
  ASSUME TypeOK, NEW levels \in Seq(ChangeSet), Len(levels) = Depth,
         NEW accounts \in Seq(AccountMap),
         Len(accounts) = Depth, NEW a \in Address
  PROVE  /\ RecordAccountPrior(levels, accounts, a) \in Seq(ChangeSet)
         /\ Len(RecordAccountPrior(levels, accounts, a)) = Depth
<1> DEFINE entry == KeepOlder(levels[Depth].accounts[a],
                              accounts[PriorIndex][a])
           top == [levels[Depth] EXCEPT !.accounts[a] = entry]
<1>1. levels[Depth] \in ChangeSet /\ PriorIndex \in 1..Depth /\ Depth \in 1..Len(levels)
  BY PriorIndexType
<1>2. entry \in Account \cup {Absent, NotRecorded}
  <2>1. accounts[PriorIndex] \in AccountMap
    BY <1>1
  <2>2. QED
    BY <1>1, <2>1 DEF KeepOlder, ChangeSet, AccountMap, CodeMap
<1>3. top \in ChangeSet
  <2> HIDE DEF entry
  <2>1. QED
    BY <1>1, <1>2 DEF ChangeSet
<1>4. RecordAccountPrior(levels, accounts, a) =
        IF Recording THEN [levels EXCEPT ![Depth] = top] ELSE levels
  BY <1>1 DEF RecordAccountPrior
<1>5. QED
  <2> HIDE DEF top
  <2>1. QED
    BY <1>1, <1>3, <1>4

LEMMA RecordCodePriorType ==
  ASSUME TypeOK, NEW levels \in Seq(ChangeSet), Len(levels) = Depth,
         NEW a \in Address
  PROVE  /\ RecordCodePrior(levels, a) \in Seq(ChangeSet)
         /\ Len(RecordCodePrior(levels, a)) = Depth
<1> DEFINE entry == KeepOlder(levels[Depth].code[a], codeStack[PriorIndex][a])
           top == [levels[Depth] EXCEPT !.code[a] = entry]
<1>1. levels[Depth] \in ChangeSet /\ PriorIndex \in 1..Depth /\ Depth \in 1..Len(levels)
  BY PriorIndexType
<1>2. entry \in Code \cup {Absent, NotRecorded}
  <2>1. codeStack[PriorIndex] \in CodeMap
    BY <1>1 DEF TypeOK
  <2>2. QED
    BY <1>1, <2>1 DEF KeepOlder, ChangeSet, AccountMap, CodeMap
<1>3. top \in ChangeSet
  <2> HIDE DEF entry
  <2>1. QED
    BY <1>1, <1>2 DEF ChangeSet
<1>4. RecordCodePrior(levels, a) =
        IF Recording THEN [levels EXCEPT ![Depth] = top] ELSE levels
  BY <1>1 DEF RecordCodePrior
<1>5. QED
  <2> HIDE DEF top
  <2>1. QED
    BY <1>1, <1>3, <1>4

LEMMA RecordSlotPriorType ==
  ASSUME TypeOK, NEW levels \in Seq(ChangeSet), Len(levels) = Depth,
         NEW a \in Address, NEW s \in Slot
  PROVE  /\ RecordSlotPrior(levels, a, s) \in Seq(ChangeSet)
         /\ Len(RecordSlotPrior(levels, a, s)) = Depth
<1> DEFINE found == StorageAtDepth(storageOverlays, a, s, PriorIndex)
           entry == KeepOlder(levels[Depth].storage[a][s], found)
           top == [levels[Depth] EXCEPT !.storage[a][s] = entry]
<1>1. levels[Depth] \in ChangeSet /\ PriorIndex \in 1..Depth /\ Depth \in 1..Len(levels)
  BY PriorIndexType
<1>2. entry \in SlotContent \cup {Absent, NotRecorded}
  <2>1. found \in SlotContent \cup {Absent}
    <3>1. storageOverlays \in Seq(Overlay) /\ PriorIndex \in 0..Len(storageOverlays)
      BY <1>1 DEF TypeOK
    <3>2. QED
      BY <3>1, WalkType
  <2>2. QED
    <3> HIDE DEF found
    <3>1. QED
      BY <1>1, <2>1 DEF KeepOlder, ChangeSet, AccountMap, CodeMap
<1>3. top \in ChangeSet
  <2> HIDE DEF entry
  <2>1. QED
    BY <1>1, <1>2 DEF ChangeSet
<1>4. RecordSlotPrior(levels, a, s) =
        IF Recording THEN [levels EXCEPT ![Depth] = top] ELSE levels
  BY <1>1 DEF RecordSlotPrior
<1>5. QED
  <2> HIDE DEF top
  <2>1. QED
    BY <1>1, <1>3, <1>4

(* What a clear records for a slot: its value below if there is one.        *)
ClearPrior(a, s) ==
  LET found == StorageAtDepth(storageOverlays, a, s, PriorIndex)
  IN  IF found = Absent THEN NotRecorded ELSE found

(* The record of the top level after a clear.                               *)
ClearedTop(level, a) ==
  [level EXCEPT !.storageCleared = @ \cup {a},
                !.storage[a] = [s \in Slot |-> KeepOlder(level.storage[a][s],
                                                        ClearPrior(a, s))]]

LEMMA RecordClearPriorTop ==
  ASSUME TypeOK, NEW levels \in Seq(ChangeSet), Len(levels) = Depth,
         NEW a \in Address
  PROVE  RecordClearPrior(levels, a) =
           IF Recording
           THEN [levels EXCEPT ![Depth] = ClearedTop(levels[Depth], a)]
           ELSE levels
<1> DEFINE seen(s) == SeenByClear(storageOverlays, a, s, PriorIndex)
           prior(s) == IF seen(s) = {} THEN NotRecorded
                       ELSE storageOverlays[Greatest(seen(s))].written[a][s]
<1>1. PriorIndex \in Nat /\ Depth \in 1..Len(levels)
  BY PriorIndexType
<1>2. ASSUME NEW s \in Slot PROVE prior(s) = ClearPrior(a, s)
  BY <1>1, ClearSeesWhatReadsSee DEF ClearPrior
<1>3. RecordClearPrior(levels, a) =
        IF Recording
        THEN [levels EXCEPT
                ![Depth] = [levels[Depth] EXCEPT
                   !.storageCleared = @ \cup {a},
                   !.storage[a] =
                      [s \in Slot |-> KeepOlder(levels[Depth].storage[a][s],
                                                prior(s))]]]
        ELSE levels
  <2> HIDE DEF prior
  <2>1. RecordClearPrior(levels, a) =
          IF Recording
          THEN [levels EXCEPT
                  ![Depth].storageCleared = @ \cup {a},
                  ![Depth].storage[a] =
                      [s \in Slot |-> KeepOlder(levels[Depth].storage[a][s],
                                                prior(s))]]
          ELSE levels
    BY DEF RecordClearPrior, prior
  <2> DEFINE priors == [s \in Slot |-> KeepOlder(levels[Depth].storage[a][s], prior(s))]
  <2>2. [levels EXCEPT ![Depth].storageCleared = @ \cup {a},
                       ![Depth].storage[a] = priors] =
        [levels EXCEPT ![Depth] = [levels[Depth] EXCEPT !.storageCleared = @ \cup {a},
                                                        !.storage[a] = priors]]
    <3> HIDE DEF priors
    <3>1. QED
      BY <1>1
  <2>3. QED
    BY <2>1, <2>2
<1>4. [s \in Slot |-> KeepOlder(levels[Depth].storage[a][s], prior(s))] =
      [s \in Slot |-> KeepOlder(levels[Depth].storage[a][s], ClearPrior(a, s))]
  <2> HIDE DEF prior
  <2>1. QED
    BY <1>2
<1>5. QED
  BY <1>3, <1>4 DEF ClearedTop

LEMMA RecordClearPriorType ==
  ASSUME TypeOK, NEW levels \in Seq(ChangeSet), Len(levels) = Depth,
         NEW a \in Address
  PROVE  /\ RecordClearPrior(levels, a) \in Seq(ChangeSet)
         /\ Len(RecordClearPrior(levels, a)) = Depth
<1>1. levels[Depth] \in ChangeSet /\ PriorIndex \in 1..Depth /\ Depth \in 1..Len(levels)
  BY PriorIndexType
<1>2. ASSUME NEW s \in Slot
      PROVE  KeepOlder(levels[Depth].storage[a][s], ClearPrior(a, s))
               \in SlotContent \cup {Absent, NotRecorded}
  <2>1. storageOverlays \in Seq(Overlay) /\ PriorIndex \in 0..Len(storageOverlays)
    BY <1>1 DEF TypeOK
  <2>2. ClearPrior(a, s) \in SlotContent \cup {Absent, NotRecorded}
    BY <2>1, WalkType DEF ClearPrior
  <2>3. QED
    BY <1>1, <2>2 DEF KeepOlder, ChangeSet
<1>3. ClearedTop(levels[Depth], a) \in ChangeSet
  BY <1>1, <1>2 DEF ClearedTop, ChangeSet
<1>4. QED
  BY <1>1, <1>3, RecordClearPriorTop

-----------------------------------------------------------------------------
(* Type correctness. *)

(* A write into the top level of a stack keeps its type and its length.     *)
LEMMA TopWriteType ==
  ASSUME NEW M, NEW stack \in Seq(M), NEW d \in 1..Len(stack), NEW a, NEW v,
         [stack[d] EXCEPT ![a] = v] \in M
  PROVE  /\ [stack EXCEPT ![d][a] = v] \in Seq(M)
         /\ Len([stack EXCEPT ![d][a] = v]) = Len(stack)
         /\ [stack EXCEPT ![d][a] = v][d] = [stack[d] EXCEPT ![a] = v]
         /\ \A i \in 1..Len(stack) :
              i # d => [stack EXCEPT ![d][a] = v][i] = stack[i]
<1> DEFINE top == [stack[d] EXCEPT ![a] = v]
<1>1. [stack EXCEPT ![d][a] = v] = [stack EXCEPT ![d] = top]
  OBVIOUS
<1>2. top \in M
  OBVIOUS
<1> HIDE DEF top
<1>3. QED
  BY <1>1, <1>2, UpdateProperties DEF top

(* The same for a write of an account, and of a code.                       *)
LEMMA AccountWriteType ==
  ASSUME NEW stack \in Seq(AccountMap), NEW d \in 1..Len(stack),
         NEW a \in Address, NEW v \in Account \cup {Absent}
  PROVE  /\ [stack EXCEPT ![d][a] = v] \in Seq(AccountMap)
         /\ Len([stack EXCEPT ![d][a] = v]) = Len(stack)
         /\ [stack EXCEPT ![d][a] = v][d] = [stack[d] EXCEPT ![a] = v]
         /\ \A i \in 1..Len(stack) :
              i # d => [stack EXCEPT ![d][a] = v][i] = stack[i]
<1>1. stack[d] \in AccountMap
  OBVIOUS
<1>2. [stack[d] EXCEPT ![a] = v] \in AccountMap
  BY <1>1 DEF AccountMap
<1>3. QED
  BY <1>2, TopWriteType

LEMMA CodeWriteType ==
  ASSUME NEW stack \in Seq(CodeMap), NEW d \in 1..Len(stack),
         NEW a \in Address, NEW v \in Code
  PROVE  /\ [stack EXCEPT ![d][a] = v] \in Seq(CodeMap)
         /\ Len([stack EXCEPT ![d][a] = v]) = Len(stack)
         /\ [stack EXCEPT ![d][a] = v][d] = [stack[d] EXCEPT ![a] = v]
         /\ \A i \in 1..Len(stack) :
              i # d => [stack EXCEPT ![d][a] = v][i] = stack[i]
<1>1. stack[d] \in CodeMap
  OBVIOUS
<1>2. [stack[d] EXCEPT ![a] = v] \in CodeMap
  BY <1>1 DEF CodeMap
<1>3. QED
  BY <1>2, TopWriteType

LEMMA EditedType ==
  ASSUME TypeOK, NEW a \in Address, NEW acct \in Account
  PROVE  /\ EditedThroughGetAccount(a, acct) \in Seq(AccountMap)
         /\ Len(EditedThroughGetAccount(a, acct)) = Depth
<1>1. /\ accountStack \in Seq(AccountMap)
      /\ Len(accountStack) = Depth
      /\ Depth \in 1..Len(accountStack)
  BY PriorIndexType DEF TypeOK, Depth
<1>2. acct \in Account \cup {Absent}
  OBVIOUS
<1>3. /\ [accountStack EXCEPT ![Depth][a] = acct] \in Seq(AccountMap)
      /\ Len([accountStack EXCEPT ![Depth][a] = acct]) = Depth
  BY <1>1, <1>2, AccountWriteType
<1>4. QED
  BY <1>1, <1>3 DEF EditedThroughGetAccount

LEMMA AccountOrNewType ==
  ASSUME TypeOK, NEW a \in Address
  PROVE  AccountOrNew(a) \in Account
<1>1. accountStack[Depth] \in AccountMap
  BY PriorIndexType DEF TypeOK, Depth
<1>2. QED
  BY <1>1, OverlayAssumption DEF AccountOrNew, NewAccount, Account, AccountMap

LEMMA OverlaysAfterClearType ==
  ASSUME TypeOK, NEW a \in Address
  PROVE  /\ OverlaysAfterClear(a) \in Seq(Overlay)
         /\ Len(OverlaysAfterClear(a)) = Depth
<1> DEFINE top == [storageOverlays[Depth] EXCEPT
                     !.written[a] = NothingWritten,
                     !.cleared = @ \cup Tombstone(a)]
<1>1. Depth \in 1..Len(storageOverlays) /\ storageOverlays \in Seq(Overlay)
  BY PriorIndexType DEF TypeOK
<1>2. storageOverlays[Depth] \in Overlay
  BY <1>1
<1>3. top \in Overlay
  BY <1>2 DEF Overlay, NothingWritten, Tombstone
<1>4. OverlaysAfterClear(a) = [storageOverlays EXCEPT ![Depth] = top]
  BY <1>1 DEF OverlaysAfterClear
<1>5. QED
  <2> HIDE DEF top
  <2>1. QED
    BY <1>1, <1>3, <1>4 DEF TypeOK

LEMMA MergeTypes ==
  /\ \A below, top \in Overlay, b \in BOOLEAN :
       MergeOverlays(below, top, b) \in Overlay
  /\ \A older, newer \in ChangeSet : MergeOlderWins(older, newer) \in ChangeSet
<1>1. ASSUME NEW below \in Overlay, NEW top \in Overlay, NEW b \in BOOLEAN
      PROVE  MergeOverlays(below, top, b) \in Overlay
  BY DEF MergeOverlays, Overlay
<1>2. ASSUME NEW older \in ChangeSet, NEW newer \in ChangeSet
      PROVE  MergeOlderWins(older, newer) \in ChangeSet
  BY DEF MergeOlderWins, ChangeSet, KeepOlder
<1>3. QED
  BY <1>1, <1>2

(* The top two levels of a stack replaced by one.                           *)
LEMMA ReplaceTopTwo ==
  ASSUME NEW S, NEW stack \in Seq(S), NEW d \in Nat \ {0},
         Len(stack) = d + 1, NEW e \in S
  PROVE  /\ Append(SubSeq(stack, 1, d - 1), e) \in Seq(S)
         /\ Len(Append(SubSeq(stack, 1, d - 1), e)) = d
         /\ Append(SubSeq(stack, 1, d - 1), e)[d] = e
         /\ \A i \in 1..(d - 1) :
              Append(SubSeq(stack, 1, d - 1), e)[i] = stack[i]
<1> DEFINE lower == SubSeq(stack, 1, d - 1)
<1>1. d - 1 \in 0..Len(stack)
  OBVIOUS
<1>2. /\ lower \in Seq(S)
      /\ Len(lower) = d - 1
      /\ \A i \in 1..(d - 1) : lower[i] = stack[i]
  BY <1>1, PrefixProperties
<1>3. QED
  <2> HIDE DEF lower
  <2>1. QED
    BY <1>1, <1>2, AppendProperties

-----------------------------------------------------------------------------
(* What the checkpoint operations do to each stack. *)

LEMMA StackTypes ==
  ASSUME TypeOK
  PROVE  /\ accountStack \in Seq(AccountMap)
         /\ codeStack \in Seq(CodeMap)
         /\ storageOverlays \in Seq(Overlay)
         /\ changeLevels \in Seq(ChangeSet)
         /\ Len(accountStack) = Depth
         /\ Len(codeStack) = Depth
         /\ Len(storageOverlays) = Depth
         /\ Len(changeLevels) = Depth
         /\ Depth \in Nat \ {0}
         /\ Depth \in 1..MaxDepth
         /\ MaxDepth \in Nat
         /\ changeSetsSuspended \in {0, 1}
BY OverlayAssumption DEF TypeOK, Depth

LEMMA CommitEffect ==
  ASSUME TypeOK, Commit, NEW d \in Nat \ {0}, Depth = d + 1
  PROVE  /\ ~CommitRefused
         /\ UNCHANGED changeSetsSuspended
         /\ /\ accountStack' \in Seq(AccountMap)
            /\ Len(accountStack') = d
            /\ accountStack'[d] = accountStack[d + 1]
            /\ \A i \in 1..(d - 1) : accountStack'[i] = accountStack[i]
         /\ /\ codeStack' \in Seq(CodeMap)
            /\ Len(codeStack') = d
            /\ codeStack'[d] = codeStack[d + 1]
            /\ \A i \in 1..(d - 1) : codeStack'[i] = codeStack[i]
         /\ /\ storageOverlays' \in Seq(Overlay)
            /\ Len(storageOverlays') = d
            /\ storageOverlays'[d] =
                 MergeOverlays(storageOverlays[d], storageOverlays[d + 1], d = 1)
            /\ \A i \in 1..(d - 1) : storageOverlays'[i] = storageOverlays[i]
         /\ /\ changeLevels' \in Seq(ChangeSet)
            /\ Len(changeLevels') = d
            /\ changeLevels'[d] =
                 MergeOlderWins(changeLevels[d], changeLevels[d + 1])
            /\ \A i \in 1..(d - 1) : changeLevels'[i] = changeLevels[i]
<1> DEFINE overlay == MergeOverlays(storageOverlays[d], storageOverlays[d + 1],
                                    d = 1)
           record == MergeOlderWins(changeLevels[d], changeLevels[d + 1])
<1>0. Depth - 1 = d
  OBVIOUS
<1>1. /\ ~CommitRefused
      /\ UNCHANGED changeSetsSuspended
      /\ accountStack' = Append(SubSeq(accountStack, 1, d - 1),
                                accountStack[d + 1])
      /\ codeStack' = Append(SubSeq(codeStack, 1, d - 1), codeStack[d + 1])
      /\ storageOverlays' = Append(SubSeq(storageOverlays, 1, d - 1), overlay)
      /\ changeLevels' = Append(SubSeq(changeLevels, 1, d - 1), record)
  BY <1>0 DEF Commit
<1>2. /\ accountStack[d + 1] \in AccountMap
      /\ codeStack[d + 1] \in CodeMap
      /\ storageOverlays[d + 1] \in Overlay
      /\ storageOverlays[d] \in Overlay
      /\ changeLevels[d + 1] \in ChangeSet
      /\ changeLevels[d] \in ChangeSet
  BY StackTypes
<1>3. overlay \in Overlay /\ record \in ChangeSet
  BY <1>2, MergeTypes
<1> HIDE DEF overlay, record
<1>4. /\ accountStack' \in Seq(AccountMap)
      /\ Len(accountStack') = d
      /\ accountStack'[d] = accountStack[d + 1]
      /\ \A i \in 1..(d - 1) : accountStack'[i] = accountStack[i]
  <2>1. accountStack \in Seq(AccountMap)
        /\ Len(accountStack) = d + 1
    BY StackTypes
  <2>2. QED
    BY <1>1, <1>2, <2>1, ReplaceTopTwo
<1>5. /\ codeStack' \in Seq(CodeMap)
      /\ Len(codeStack') = d
      /\ codeStack'[d] = codeStack[d + 1]
      /\ \A i \in 1..(d - 1) : codeStack'[i] = codeStack[i]
  <2>1. codeStack \in Seq(CodeMap)
        /\ Len(codeStack) = d + 1
    BY StackTypes
  <2>2. QED
    BY <1>1, <1>2, <2>1, ReplaceTopTwo
<1>6. /\ storageOverlays' \in Seq(Overlay)
      /\ Len(storageOverlays') = d
      /\ storageOverlays'[d] = overlay
      /\ \A i \in 1..(d - 1) : storageOverlays'[i] = storageOverlays[i]
  <2>1. storageOverlays \in Seq(Overlay) /\ Len(storageOverlays) = d + 1
    BY StackTypes
  <2>2. QED
    BY <1>1, <1>3, <2>1, ReplaceTopTwo
<1>7. /\ changeLevels' \in Seq(ChangeSet)
      /\ Len(changeLevels') = d
      /\ changeLevels'[d] = record
      /\ \A i \in 1..(d - 1) : changeLevels'[i] = changeLevels[i]
  <2>1. changeLevels \in Seq(ChangeSet) /\ Len(changeLevels) = d + 1
    BY StackTypes
  <2>2. QED
    BY <1>1, <1>3, <2>1, ReplaceTopTwo
<1>8. QED
  BY <1>1, <1>4, <1>5, <1>6, <1>7 DEF overlay, record

-----------------------------------------------------------------------------
(* The initial state is well typed.                                         *)
LEMMA InitTypeOK == Init => TypeOK
<1> SUFFICES ASSUME Init PROVE TypeOK
  OBVIOUS
<1>1. /\ accountStack \in Seq(AccountMap)
      /\ codeStack \in Seq(CodeMap)
      /\ storageOverlays \in Seq(Overlay)
      /\ changeLevels \in Seq(ChangeSet)
  BY EmptyTypes DEF Init, AccountMap, CodeMap
<1>2. /\ Len(accountStack) = 1 /\ Len(codeStack) = 1
      /\ Len(storageOverlays) = 1 /\ Len(changeLevels) = 1
  BY DEF Init
<1>3. 1 \in 1..MaxDepth
  BY OverlayAssumption
<1>4. QED
  BY <1>1, <1>2, <1>3 DEF Init, TypeOK, Depth

(* Every step keeps the types and the four stacks parallel.                 *)
LEMMA NextTypeOK == TypeOK /\ [Next]_vars => TypeOK'
<1> SUFFICES ASSUME TypeOK, [Next]_vars PROVE TypeOK'
  OBVIOUS
<1>0. /\ accountStack \in Seq(AccountMap)
      /\ codeStack \in Seq(CodeMap)
      /\ storageOverlays \in Seq(Overlay)
      /\ changeLevels \in Seq(ChangeSet)
      /\ Depth = Len(accountStack)
      /\ Len(codeStack) = Depth
      /\ Len(storageOverlays) = Depth
      /\ Len(changeLevels) = Depth
      /\ Depth \in 1..Len(accountStack)
      /\ Depth \in Nat \ {0}
      /\ Depth \in 1..MaxDepth
      /\ MaxDepth \in Nat
      /\ changeSetsSuspended \in {0, 1}
  BY OverlayAssumption DEF TypeOK, Depth
<1>1. ASSUME NEW a \in Address, NEW acct \in Account \cup {Absent},
             SetAccountAt(a, acct)
      PROVE  TypeOK'
  <2> DEFINE top == [accountStack[Depth] EXCEPT ![a] = acct]
  <2>0. top \in AccountMap
    BY <1>0 DEF AccountMap
  <2>1. /\ accountStack' \in Seq(AccountMap)
        /\ Len(accountStack') = Depth
    BY <1>0, <1>1, <2>0, TopWriteType DEF SetAccountAt
  <2>2. changeLevels' \in Seq(ChangeSet) /\ Len(changeLevels') = Depth
    BY <1>0, <1>1, RecordAccountPriorType DEF SetAccountAt
  <2>3. QED
    BY <1>0, <1>1, <2>1, <2>2 DEF SetAccountAt, TypeOK, Depth
<1>2. ASSUME NEW a \in Address, NEW c \in Code, SetCodeAt(a, c)
      PROVE  TypeOK'
  <2>1. /\ codeStack' \in Seq(CodeMap)
        /\ Len(codeStack') = Depth
    BY <1>0, <1>2, CodeWriteType DEF SetCodeAt
  <2>2. changeLevels' \in Seq(ChangeSet) /\ Len(changeLevels') = Depth
    BY <1>0, <1>2, RecordCodePriorType DEF SetCodeAt
  <2>3. QED
    BY <1>0, <1>2, <2>1, <2>2 DEF SetCodeAt, TypeOK, Depth
<1>3. ASSUME NEW a \in Address, NEW f \in Fields, ModifyAccountFields(a, f)
      PROVE  TypeOK'
  <2> DEFINE acct == [AccountOrNew(a) EXCEPT !.fields = f]
             edited == EditedThroughGetAccount(a, acct)
  <2>1. acct \in Account
    BY AccountOrNewType DEF Account
  <2>2. /\ edited \in Seq(AccountMap)
        /\ Len(edited) = Depth
    <3> HIDE DEF acct
    <3>1. QED
      BY <2>1, EditedType
  <2>3. /\ changeLevels' = RecordAccountPrior(changeLevels, edited, a)
        /\ accountStack' = [edited EXCEPT ![Depth][a] = acct]
        /\ UNCHANGED <<codeStack, storageOverlays, changeSetsSuspended>>
    BY <1>3 DEF ModifyAccountFields
  <2> HIDE DEF edited, acct
  <2>4. /\ accountStack' \in Seq(AccountMap)
        /\ Len(accountStack') = Depth
    BY <1>0, <2>1, <2>2, <2>3, AccountWriteType, CodeWriteType
  <2>5. changeLevels' \in Seq(ChangeSet) /\ Len(changeLevels') = Depth
    BY <1>0, <2>2, <2>3, RecordAccountPriorType
  <2>6. QED
    BY <1>0, <2>3, <2>4, <2>5 DEF TypeOK, Depth
<1>4. ASSUME NEW a \in Address, NEW c \in Code, PutCode(a, c)
      PROVE  TypeOK'
  <2> DEFINE acct == [AccountOrNew(a) EXCEPT !.codeHash = c]
             edited == EditedThroughGetAccount(a, acct)
  <2>1. acct \in Account
    BY AccountOrNewType DEF Account
  <2>2. /\ edited \in Seq(AccountMap)
        /\ Len(edited) = Depth
    <3> HIDE DEF acct
    <3>1. QED
      BY <2>1, EditedType
  <2>3. /\ changeLevels' =
             RecordAccountPrior(RecordCodePrior(changeLevels, a), edited, a)
        /\ accountStack' = [edited EXCEPT ![Depth][a] = acct]
        /\ codeStack' = [codeStack EXCEPT ![Depth][a] = c]
        /\ UNCHANGED <<storageOverlays, changeSetsSuspended>>
    BY <1>4 DEF PutCode
  <2> HIDE DEF edited, acct
  <2>4. /\ accountStack' \in Seq(AccountMap)
        /\ Len(accountStack') = Depth
        /\ codeStack' \in Seq(CodeMap)
        /\ Len(codeStack') = Depth
    BY <1>0, <2>1, <2>2, <2>3, AccountWriteType, CodeWriteType
  <2>5. /\ RecordCodePrior(changeLevels, a) \in Seq(ChangeSet)
        /\ Len(RecordCodePrior(changeLevels, a)) = Depth
    BY <1>0, RecordCodePriorType
  <2>6. changeLevels' \in Seq(ChangeSet) /\ Len(changeLevels') = Depth
    BY <1>0, <2>2, <2>3, <2>5, RecordAccountPriorType
  <2>7. QED
    BY <1>0, <2>3, <2>4, <2>6 DEF TypeOK, Depth
<1>5. ASSUME NEW a \in Address, NEW s \in Slot, NEW v \in SlotContent,
             SetStorageAt(a, s, v)
      PROVE  TypeOK'
  <2> DEFINE top == [storageOverlays[Depth] EXCEPT !.written[a][s] = v]
  <2>1. storageOverlays[Depth] \in Overlay
    BY <1>0
  <2>2. top \in Overlay
    BY <2>1 DEF Overlay
  <2>3. storageOverlays' = [storageOverlays EXCEPT ![Depth] = top]
    BY <1>0, <1>5 DEF SetStorageAt
  <2>4. storageOverlays' \in Seq(Overlay) /\ Len(storageOverlays') = Depth
    <3> HIDE DEF top
    <3>1. QED
      BY <1>0, <2>2, <2>3
  <2>5. changeLevels' \in Seq(ChangeSet) /\ Len(changeLevels') = Depth
    BY <1>0, <1>5, RecordSlotPriorType DEF SetStorageAt
  <2>6. QED
    BY <1>0, <1>5, <2>4, <2>5 DEF SetStorageAt, TypeOK, Depth
<1>6. ASSUME NEW a \in Address, ClearStorageAt(a)
      PROVE  TypeOK'
  <2>1. storageOverlays' \in Seq(Overlay) /\ Len(storageOverlays') = Depth
    BY <1>6, OverlaysAfterClearType DEF ClearStorageAt
  <2>2. changeLevels' \in Seq(ChangeSet) /\ Len(changeLevels') = Depth
    BY <1>0, <1>6, RecordClearPriorType DEF ClearStorageAt
  <2>3. QED
    BY <1>0, <1>6, <2>1, <2>2 DEF ClearStorageAt, TypeOK, Depth
<1>7. ASSUME NEW a \in Address, DeleteAccount(a)
      PROVE  TypeOK'
  <2>1. storageOverlays' \in Seq(Overlay) /\ Len(storageOverlays') = Depth
    BY <1>7, OverlaysAfterClearType DEF DeleteAccount
  <2>0. [accountStack[Depth] EXCEPT ![a] = Absent] \in AccountMap
    BY <1>0 DEF AccountMap
  <2>2. /\ accountStack' \in Seq(AccountMap)
        /\ Len(accountStack') = Depth
    BY <1>0, <1>7, <2>0, TopWriteType DEF DeleteAccount
  <2>3. /\ RecordAccountPrior(changeLevels, accountStack, a) \in Seq(ChangeSet)
        /\ Len(RecordAccountPrior(changeLevels, accountStack, a)) = Depth
    BY <1>0, RecordAccountPriorType
  <2>4. changeLevels' \in Seq(ChangeSet) /\ Len(changeLevels') = Depth
    BY <1>0, <1>7, <2>3, RecordClearPriorType DEF DeleteAccount
  <2>5. QED
    BY <1>0, <1>7, <2>1, <2>2, <2>4 DEF DeleteAccount, TypeOK, Depth
<1>8. CASE Checkpoint
  <2>1. /\ accountStack' \in Seq(AccountMap)
        /\ Len(accountStack') = Depth + 1
    BY <1>0, <1>8, AppendProperties DEF Checkpoint
  <2>2. /\ codeStack' \in Seq(CodeMap)
        /\ Len(codeStack') = Depth + 1
    BY <1>0, <1>8, AppendProperties DEF Checkpoint
  <2>3. /\ storageOverlays' \in Seq(Overlay)
        /\ Len(storageOverlays') = Depth + 1
    BY <1>0, <1>8, AppendProperties, EmptyTypes DEF Checkpoint
  <2>4. /\ changeLevels' \in Seq(ChangeSet)
        /\ Len(changeLevels') = Depth + 1
    BY <1>0, <1>8, AppendProperties, EmptyTypes DEF Checkpoint
  <2>5. Depth + 1 \in 1..MaxDepth
    BY <1>0, <1>8 DEF Checkpoint
  <2>6. QED
    BY <1>0, <1>8, <2>1, <2>2, <2>3, <2>4, <2>5 DEF Checkpoint, TypeOK, Depth
<1>9. CASE Commit
  <2> DEFINE d == Depth - 1
  <2>1. d \in Nat \ {0} /\ Depth = d + 1
    BY <1>0, <1>9 DEF Commit
  <2> HIDE DEF d
  <2>2. /\ UNCHANGED changeSetsSuspended
        /\ accountStack' \in Seq(AccountMap)
        /\ codeStack' \in Seq(CodeMap)
        /\ storageOverlays' \in Seq(Overlay)
        /\ changeLevels' \in Seq(ChangeSet)
        /\ Len(accountStack') = d
        /\ Len(codeStack') = d
        /\ Len(storageOverlays') = d
        /\ Len(changeLevels') = d
    BY <1>9, <2>1, CommitEffect
  <2>3. d \in 1..MaxDepth
    BY <1>0, <2>1
  <2>4. QED
    BY <1>0, <2>2, <2>3 DEF TypeOK, Depth
<1>10. CASE Revert
  <2>1. Depth > 1 /\ Depth - 1 \in 0..Depth
    BY <1>0, <1>10 DEF Revert
  <2>2. /\ accountStack' \in Seq(AccountMap)
        /\ Len(accountStack') = Depth - 1
    BY <1>0, <1>10, <2>1, PrefixProperties DEF Revert
  <2>3. /\ codeStack' \in Seq(CodeMap)
        /\ Len(codeStack') = Depth - 1
    BY <1>0, <1>10, <2>1, PrefixProperties DEF Revert
  <2>4. /\ storageOverlays' \in Seq(Overlay)
        /\ Len(storageOverlays') = Depth - 1
    BY <1>0, <1>10, <2>1, PrefixProperties DEF Revert
  <2>5. /\ changeLevels' \in Seq(ChangeSet)
        /\ Len(changeLevels') = Depth - 1
    BY <1>0, <1>10, <2>1, PrefixProperties DEF Revert
  <2>6. QED
    BY <1>0, <1>10, <2>1, <2>2, <2>3, <2>4, <2>5 DEF Revert, TypeOK, Depth
<1>11. CASE TakeChangeSet
  <2>1. changeLevels' \in Seq(ChangeSet) /\ Len(changeLevels') = 1
    BY <1>11, EmptyTypes DEF TakeChangeSet
  <2>2. QED
    BY <1>0, <1>11, <2>1 DEF TakeChangeSet, TypeOK, Depth
<1>12. CASE BeginPureRead
  <2>1. changeSetsSuspended' = 1
    BY <1>12 DEF BeginPureRead
  <2>2. QED
    BY <1>0, <1>12, <2>1 DEF BeginPureRead, TypeOK, Depth
<1>13. CASE EndPureRead
  <2>1. changeSetsSuspended' = 0
    BY <1>0, <1>13 DEF EndPureRead
  <2>2. QED
    BY <1>0, <1>13, <2>1 DEF EndPureRead, TypeOK, Depth
<1>14. CASE UNCHANGED vars
  BY <1>14 DEF vars, TypeOK, Depth
<1>15. QED
  BY <1>1, <1>2, <1>3, <1>4, <1>5, <1>6, <1>7, <1>8, <1>9, <1>10, <1>11,
     <1>12, <1>13, <1>14
     DEF Next, AccountStep, CodeStep, StorageStep, LevelStep

(* The types hold in every reachable state, and the account stack, the code *)
(* stack, the overlays and the change levels stay parallel: a commit or a   *)
(* revert never pops one of them without the others.                        *)
THEOREM TypeCorrect == Spec => []TypeOK
<1>1. QED
  BY InitTypeOK, NextTypeOK, PTL DEF Spec

-----------------------------------------------------------------------------
(* The bottom overlay. *)

(* The two places where a tombstone could reach the bottom overlay, a clear *)
(* with no checkpoint open and the commit of the last open level, leave     *)
(* none there; no other step touches the bottom's set.                      *)
LEMMA NextNoBottomTombstones ==
  TypeOK /\ NoBottomTombstones /\ [Next]_vars => NoBottomTombstones'
<1> SUFFICES ASSUME TypeOK, NoBottomTombstones, [Next]_vars
             PROVE  NoBottomTombstones'
  OBVIOUS
<1>0. /\ storageOverlays \in Seq(Overlay)
      /\ Len(storageOverlays) = Depth
      /\ Depth \in Nat \ {0}
      /\ 1 \in 1..Len(storageOverlays)
      /\ storageOverlays[1] \in Overlay
      /\ storageOverlays[1].cleared = {}
  BY StackTypes DEF NoBottomTombstones
<1>1. ASSUME NEW a \in Address,
             storageOverlays' = OverlaysAfterClear(a)
      PROVE  NoBottomTombstones'
  <2>1. CASE Depth = 1
    <3>1. Tombstone(a) = {}
      BY <2>1 DEF Tombstone
    <3>2. storageOverlays'[1].cleared = storageOverlays[1].cleared \cup {}
      BY <1>0, <1>1, <2>1, <3>1 DEF OverlaysAfterClear, Overlay
    <3>3. QED
      BY <1>0, <3>2 DEF NoBottomTombstones
  <2>2. CASE Depth > 1
    <3>1. storageOverlays'[1] = storageOverlays[1]
      BY <1>0, <1>1, <2>2 DEF OverlaysAfterClear
    <3>2. QED
      BY <1>0, <3>1 DEF NoBottomTombstones
  <2>3. QED
    BY <1>0, <2>1, <2>2
<1>2. ASSUME NEW a \in Address, NEW s \in Slot, NEW v \in SlotContent,
             SetStorageAt(a, s, v)
      PROVE  NoBottomTombstones'
  <2>1. storageOverlays'[1].cleared = storageOverlays[1].cleared
    <3>1. storageOverlays' = [storageOverlays EXCEPT ![Depth] =
                                [@ EXCEPT !.written[a][s] = v]]
      BY <1>2 DEF SetStorageAt
    <3>2. QED
      BY <1>0, <3>1 DEF Overlay
  <2>2. QED
    BY <1>0, <2>1 DEF NoBottomTombstones
<1>3. CASE Commit
  <2> DEFINE d == Depth - 1
  <2>1. d \in Nat \ {0} /\ Depth = d + 1
    BY <1>0, <1>3 DEF Commit
  <2> HIDE DEF d
  <2>2. CASE d = 1
    <3>1. storageOverlays'[d] =
            MergeOverlays(storageOverlays[d], storageOverlays[d + 1], d = 1)
      BY <1>3, <2>1, CommitEffect
    <3>2. storageOverlays'[1].cleared = storageOverlays[1].cleared
      BY <2>2, <3>1 DEF MergeOverlays
    <3>3. QED
      BY <1>0, <3>2 DEF NoBottomTombstones
  <2>3. CASE d # 1
    <3>1. storageOverlays'[1] = storageOverlays[1]
      BY <1>3, <2>1, <2>3, CommitEffect
    <3>2. QED
      BY <1>0, <3>1 DEF NoBottomTombstones
  <2>4. QED
    BY <2>2, <2>3
<1>4. CASE Checkpoint
  <2>1. storageOverlays'[1] = storageOverlays[1]
    BY <1>0, <1>4, EmptyTypes, AppendProperties DEF Checkpoint
  <2>2. QED
    BY <1>0, <2>1 DEF NoBottomTombstones
<1>5. CASE Revert
  <2>1. storageOverlays'[1] = storageOverlays[1]
    BY <1>0, <1>5, PrefixProperties DEF Revert
  <2>2. QED
    BY <1>0, <2>1 DEF NoBottomTombstones
<1>6. CASE UNCHANGED storageOverlays
  BY <1>0, <1>6 DEF NoBottomTombstones
<1>7. \/ UNCHANGED storageOverlays
      \/ Commit \/ Checkpoint \/ Revert
      \/ \E a \in Address : storageOverlays' = OverlaysAfterClear(a)
      \/ \E a \in Address, s \in Slot, v \in SlotContent : SetStorageAt(a, s, v)
  BY DEF Next, AccountStep, CodeStep, StorageStep, LevelStep, vars,
         SetAccountAt, SetCodeAt, ModifyAccountFields, PutCode, DeleteAccount,
         ClearStorageAt, TakeChangeSet, BeginPureRead, EndPureRead
<1>8. QED
  BY <1>1, <1>2, <1>3, <1>4, <1>5, <1>6, <1>7

(* The bottom overlay never holds a tombstone.                              *)
THEOREM BottomTombstonesPruned == Spec => []NoBottomTombstones
<1>1. Init => NoBottomTombstones
  BY DEF Init, NoBottomTombstones, EmptyOverlay
<1>2. QED
  BY <1>1, TypeCorrect, NextNoBottomTombstones, PTL DEF Spec

-----------------------------------------------------------------------------
(* The change set is exact: undoing what an open level recorded gives the  *)
(* state of the level below, and undoing the open record gives the state   *)
(* at the last takeChangeSet.  The second is what makes the overlay state  *)
(* an implementation of CheckpointedState.                                 *)

(* The state that undoing the record of level i leads back to.              *)
Undone(i) == Undo(LevelState(i), changeLevels[i])

(* A write: any operation on the top level that is not about levels.        *)
WriteStep == \E a \in Address : AccountStep(a) \/ CodeStep(a) \/ StorageStep(a)

(* A step that changes nothing below the top level.                         *)
LowerKept ==
  /\ Depth' = Depth
  /\ UNCHANGED changeSetsSuspended
  /\ \A i \in 1..(Depth - 1) :
       /\ accountStack'[i] = accountStack[i]
       /\ codeStack'[i] = codeStack[i]
       /\ storageOverlays'[i] = storageOverlays[i]
       /\ changeLevels'[i] = changeLevels[i]

-----------------------------------------------------------------------------
(* Change sets, key by key. *)

(* One more prior, recorded before the value changes, does not change what  *)
(* undoing gives, if an unrecorded key still has the prior's value.         *)
LEMMA KeepOlderStep ==
  ASSUME NEW old, NEW prior, NEW cur, NEW new, prior # NotRecorded,
         old = NotRecorded => prior = cur
  PROVE  KeepOlder(KeepOlder(old, prior), new) = KeepOlder(old, cur)
BY DEF KeepOlder

LEMMA LevelTypes ==
  ASSUME TypeOK, NEW i \in 1..Depth
  PROVE  /\ accountStack[i] \in AccountMap
         /\ codeStack[i] \in CodeMap
         /\ storageOverlays[i] \in Overlay
         /\ changeLevels[i] \in ChangeSet
         /\ \A a \in Address, s \in Slot :
              StorageAtDepth(storageOverlays, a, s, i)
                \in SlotContent \cup {Absent}
<1>1. /\ accountStack[i] \in AccountMap
      /\ codeStack[i] \in CodeMap
      /\ storageOverlays[i] \in Overlay
      /\ changeLevels[i] \in ChangeSet
  BY StackTypes
<1>2. storageOverlays \in Seq(Overlay) /\ i \in 0..Len(storageOverlays)
  BY StackTypes
<1>3. QED
  BY <1>1, <1>2, WalkType

(* Two undone levels are equal when they agree on every key.                *)
LEMMA UndoneEqual ==
  ASSUME NEW s1, NEW c1, NEW s2, NEW c2,
         \A a \in Address :
           /\ KeepOlder(c1.accounts[a], s1.accounts[a]) =
                KeepOlder(c2.accounts[a], s2.accounts[a])
           /\ KeepOlder(c1.code[a], s1.code[a]) =
                KeepOlder(c2.code[a], s2.code[a])
           /\ \A s \in Slot :
                KeepOlder(c1.storage[a][s], s1.storage[a][s]) =
                  KeepOlder(c2.storage[a][s], s2.storage[a][s])
  PROVE  Undo(s1, c1) = Undo(s2, c2)
BY DEF Undo

(* The same, against a state.                                               *)
LEMMA UndoneIsState ==
  ASSUME TypeOK, NEW s1, NEW c1, NEW j \in 1..Depth
  PROVE  Undo(s1, c1) = LevelState(j) <=>
           \A a \in Address :
             /\ KeepOlder(c1.accounts[a], s1.accounts[a]) = accountStack[j][a]
             /\ KeepOlder(c1.code[a], s1.code[a]) = codeStack[j][a]
             /\ \A s \in Slot :
                  KeepOlder(c1.storage[a][s], s1.storage[a][s]) =
                    StorageAtDepth(storageOverlays, a, s, j)
<1>1. /\ accountStack[j] = [a \in Address |-> accountStack[j][a]]
      /\ codeStack[j] = [a \in Address |-> codeStack[j][a]]
  BY LevelTypes DEF AccountMap, CodeMap
<1>2. LevelState(j) =
        [accounts |-> [a \in Address |-> accountStack[j][a]],
         code     |-> [a \in Address |-> codeStack[j][a]],
         storage  |-> [a \in Address |-> [s \in Slot |->
                         StorageAtDepth(storageOverlays, a, s, j)]]]
  BY <1>1 DEF LevelState
<1> DEFINE U == Undo(s1, c1)
           S == LevelState(j)
<1>3. ASSUME U = S, NEW a \in Address
      PROVE  /\ KeepOlder(c1.accounts[a], s1.accounts[a]) = accountStack[j][a]
             /\ KeepOlder(c1.code[a], s1.code[a]) = codeStack[j][a]
             /\ \A s \in Slot :
                  KeepOlder(c1.storage[a][s], s1.storage[a][s]) =
                    StorageAtDepth(storageOverlays, a, s, j)
  <2>1. /\ U.accounts[a] = S.accounts[a]
        /\ U.code[a] = S.code[a]
        /\ U.storage[a] = S.storage[a]
    BY <1>3
  <2>2. \A s \in Slot : U.storage[a][s] = S.storage[a][s]
    BY <2>1
  <2>3. QED
    BY <1>2, <2>1, <2>2 DEF Undo
<1>4. ASSUME \A a \in Address :
               /\ KeepOlder(c1.accounts[a], s1.accounts[a]) = accountStack[j][a]
               /\ KeepOlder(c1.code[a], s1.code[a]) = codeStack[j][a]
               /\ \A s \in Slot :
                    KeepOlder(c1.storage[a][s], s1.storage[a][s]) =
                      StorageAtDepth(storageOverlays, a, s, j)
      PROVE  U = S
  BY <1>2, <1>4 DEF Undo
<1>5. QED
  BY <1>3, <1>4

(* While the top level records, a key its record does not name still has,   *)
(* in the top level, the value a prior would be read from.                  *)
LEMMA PriorIsCurrent ==
  ASSUME TypeOK, LevelRecordsUndo, Recording, NEW a \in Address
  PROVE  /\ changeLevels[Depth].accounts[a] = NotRecorded =>
              accountStack[PriorIndex][a] = accountStack[Depth][a]
         /\ accountStack[PriorIndex][a] # NotRecorded
         /\ changeLevels[Depth].code[a] = NotRecorded =>
              codeStack[PriorIndex][a] = codeStack[Depth][a]
         /\ codeStack[PriorIndex][a] # NotRecorded
         /\ \A s \in Slot :
              /\ changeLevels[Depth].storage[a][s] = NotRecorded =>
                   StorageAtDepth(storageOverlays, a, s, PriorIndex) =
                     StorageAtDepth(storageOverlays, a, s, Depth)
              /\ StorageAtDepth(storageOverlays, a, s, PriorIndex) # NotRecorded
<1>1. PriorIndex \in 1..Depth /\ Depth \in Nat \ {0}
  BY PriorIndexType
<1>2. /\ accountStack[PriorIndex][a] # NotRecorded
      /\ codeStack[PriorIndex][a] # NotRecorded
      /\ \A s \in Slot :
           StorageAtDepth(storageOverlays, a, s, PriorIndex) # NotRecorded
  <2>1. /\ accountStack[PriorIndex][a] \in Account \cup {Absent}
        /\ codeStack[PriorIndex][a] \in Code \cup {Absent}
    BY <1>1, LevelTypes DEF AccountMap, CodeMap
  <2>2. \A s \in Slot : StorageAtDepth(storageOverlays, a, s, PriorIndex)
                          \in SlotContent \cup {Absent}
    BY <1>1, LevelTypes
  <2>3. QED
    BY <2>1, <2>2, OverlayAssumption
<1>3. CASE Depth = 1
  <2>1. PriorIndex = Depth
    BY <1>3, PriorIndexType
  <2>2. QED
    BY <1>2, <2>1
<1>4. CASE Depth > 1
  <2>1. PriorIndex = Depth - 1 /\ Depth \in 2..Depth
    BY <1>1, <1>4, PriorIndexType
  <2>2. changeSetsSuspended = 0
    BY <1>1, <1>4, StackTypes DEF Recording
  <2>3. Undo(LevelState(Depth), changeLevels[Depth]) = LevelState(PriorIndex)
    BY <2>1, <2>2 DEF LevelRecordsUndo
  <2>4. /\ KeepOlder(changeLevels[Depth].accounts[a],
                     LevelState(Depth).accounts[a]) = accountStack[PriorIndex][a]
        /\ KeepOlder(changeLevels[Depth].code[a],
                     LevelState(Depth).code[a]) = codeStack[PriorIndex][a]
        /\ \A s \in Slot :
             KeepOlder(changeLevels[Depth].storage[a][s],
                       LevelState(Depth).storage[a][s]) =
               StorageAtDepth(storageOverlays, a, s, PriorIndex)
    BY <1>1, <2>3, UndoneIsState
  <2>5. QED
    BY <1>2, <2>4 DEF LevelState, KeepOlder
<1>5. QED
  BY <1>1, <1>3, <1>4

-----------------------------------------------------------------------------
(* What the recording operators do to the top record, and to no other.      *)

LEMMA RecordAccountPriorFacts ==
  ASSUME TypeOK, NEW levels \in Seq(ChangeSet), Len(levels) = Depth,
         NEW accounts, NEW a \in Address
  PROVE  LET L == RecordAccountPrior(levels, accounts, a)
         IN  /\ \A i \in 1..(Depth - 1) : L[i] = levels[i]
             /\ ~Recording => L = levels
             /\ L[Depth].code = levels[Depth].code
             /\ L[Depth].storage = levels[Depth].storage
             /\ L[Depth].storageCleared = levels[Depth].storageCleared
             /\ Recording =>
                  \A b \in Address :
                    L[Depth].accounts[b] =
                      IF b = a THEN KeepOlder(levels[Depth].accounts[a],
                                              accounts[PriorIndex][a])
                      ELSE levels[Depth].accounts[b]
<1> DEFINE entry == KeepOlder(levels[Depth].accounts[a],
                              accounts[PriorIndex][a])
           top == [levels[Depth] EXCEPT !.accounts[a] = entry]
<1>1. levels[Depth] \in ChangeSet /\ Depth \in 1..Len(levels) /\ Depth \in Nat
  BY PriorIndexType
<1>2. RecordAccountPrior(levels, accounts, a) =
        IF Recording THEN [levels EXCEPT ![Depth] = top] ELSE levels
  BY <1>1 DEF RecordAccountPrior
<1>3. /\ top.code = levels[Depth].code
      /\ top.storage = levels[Depth].storage
      /\ top.storageCleared = levels[Depth].storageCleared
      /\ \A b \in Address :
           top.accounts[b] = IF b = a THEN entry ELSE levels[Depth].accounts[b]
  <2> HIDE DEF entry
  <2>1. QED
    BY <1>1 DEF ChangeSet
<1> HIDE DEF top
<1>4. QED
  BY <1>1, <1>2, <1>3

LEMMA RecordCodePriorFacts ==
  ASSUME TypeOK, NEW levels \in Seq(ChangeSet), Len(levels) = Depth,
         NEW a \in Address
  PROVE  LET L == RecordCodePrior(levels, a)
         IN  /\ \A i \in 1..(Depth - 1) : L[i] = levels[i]
             /\ ~Recording => L = levels
             /\ L[Depth].accounts = levels[Depth].accounts
             /\ L[Depth].storage = levels[Depth].storage
             /\ L[Depth].storageCleared = levels[Depth].storageCleared
             /\ Recording =>
                  \A b \in Address :
                    L[Depth].code[b] =
                      IF b = a THEN KeepOlder(levels[Depth].code[a],
                                              codeStack[PriorIndex][a])
                      ELSE levels[Depth].code[b]
<1> DEFINE entry == KeepOlder(levels[Depth].code[a], codeStack[PriorIndex][a])
           top == [levels[Depth] EXCEPT !.code[a] = entry]
<1>1. levels[Depth] \in ChangeSet /\ Depth \in 1..Len(levels) /\ Depth \in Nat
  BY PriorIndexType
<1>2. RecordCodePrior(levels, a) =
        IF Recording THEN [levels EXCEPT ![Depth] = top] ELSE levels
  BY <1>1 DEF RecordCodePrior
<1>3. /\ top.accounts = levels[Depth].accounts
      /\ top.storage = levels[Depth].storage
      /\ top.storageCleared = levels[Depth].storageCleared
      /\ \A b \in Address :
           top.code[b] = IF b = a THEN entry ELSE levels[Depth].code[b]
  <2> HIDE DEF entry
  <2>1. QED
    BY <1>1 DEF ChangeSet
<1> HIDE DEF top
<1>4. QED
  BY <1>1, <1>2, <1>3

LEMMA RecordSlotPriorFacts ==
  ASSUME TypeOK, NEW levels \in Seq(ChangeSet), Len(levels) = Depth,
         NEW a \in Address, NEW s \in Slot
  PROVE  LET L == RecordSlotPrior(levels, a, s)
         IN  /\ \A i \in 1..(Depth - 1) : L[i] = levels[i]
             /\ ~Recording => L = levels
             /\ L[Depth].accounts = levels[Depth].accounts
             /\ L[Depth].code = levels[Depth].code
             /\ L[Depth].storageCleared = levels[Depth].storageCleared
             /\ Recording =>
                  \A b \in Address, t \in Slot :
                    L[Depth].storage[b][t] =
                      IF b = a /\ t = s
                      THEN KeepOlder(levels[Depth].storage[a][s],
                             StorageAtDepth(storageOverlays, a, s, PriorIndex))
                      ELSE levels[Depth].storage[b][t]
<1> DEFINE entry == KeepOlder(levels[Depth].storage[a][s],
                      StorageAtDepth(storageOverlays, a, s, PriorIndex))
           top == [levels[Depth] EXCEPT !.storage[a][s] = entry]
<1>1. levels[Depth] \in ChangeSet /\ Depth \in 1..Len(levels) /\ Depth \in Nat
  BY PriorIndexType
<1>2. RecordSlotPrior(levels, a, s) =
        IF Recording THEN [levels EXCEPT ![Depth] = top] ELSE levels
  BY <1>1 DEF RecordSlotPrior
<1>3. /\ top.accounts = levels[Depth].accounts
      /\ top.code = levels[Depth].code
      /\ top.storageCleared = levels[Depth].storageCleared
      /\ \A b \in Address, t \in Slot :
           top.storage[b][t] = IF b = a /\ t = s THEN entry
                               ELSE levels[Depth].storage[b][t]
  <2> HIDE DEF entry
  <2>1. QED
    BY <1>1 DEF ChangeSet
<1> HIDE DEF top
<1>4. QED
  BY <1>1, <1>2, <1>3

LEMMA RecordClearPriorFacts ==
  ASSUME TypeOK, NEW levels \in Seq(ChangeSet), Len(levels) = Depth,
         NEW a \in Address
  PROVE  LET L == RecordClearPrior(levels, a)
         IN  /\ \A i \in 1..(Depth - 1) : L[i] = levels[i]
             /\ ~Recording => L = levels
             /\ L[Depth].accounts = levels[Depth].accounts
             /\ L[Depth].code = levels[Depth].code
             /\ Recording => L[Depth].storageCleared =
                              levels[Depth].storageCleared \cup {a}
             /\ Recording =>
                  \A b \in Address, t \in Slot :
                    L[Depth].storage[b][t] =
                      IF b = a
                      THEN KeepOlder(levels[Depth].storage[a][t],
                                     ClearPrior(a, t))
                      ELSE levels[Depth].storage[b][t]
<1> DEFINE top == ClearedTop(levels[Depth], a)
<1>1. levels[Depth] \in ChangeSet /\ Depth \in 1..Len(levels) /\ Depth \in Nat
  BY PriorIndexType
<1>2. RecordClearPrior(levels, a) =
        IF Recording THEN [levels EXCEPT ![Depth] = top] ELSE levels
  BY RecordClearPriorTop
<1>3. /\ top.accounts = levels[Depth].accounts
      /\ top.code = levels[Depth].code
      /\ top.storageCleared = levels[Depth].storageCleared \cup {a}
      /\ \A b \in Address, t \in Slot :
           top.storage[b][t] =
             IF b = a THEN KeepOlder(levels[Depth].storage[a][t], ClearPrior(a, t))
             ELSE levels[Depth].storage[b][t]
  BY <1>1 DEF ChangeSet, ClearedTop
<1> HIDE DEF top
<1>4. QED
  BY <1>1, <1>2, <1>3

-----------------------------------------------------------------------------
(* How a write changes what the top level shows. *)

(* The top of a written account map.                                        *)
LEMMA TopWriteFacts ==
  ASSUME NEW M, NEW stack \in Seq(M), NEW d \in 1..Len(stack), NEW a, NEW v
  PROVE  /\ Len([stack EXCEPT ![d][a] = v]) = Len(stack)
         /\ \A i \in 1..Len(stack) :
              i # d => [stack EXCEPT ![d][a] = v][i] = stack[i]
         /\ [stack EXCEPT ![d][a] = v][d] = [stack[d] EXCEPT ![a] = v]
OBVIOUS

(* The walk from an overlay whose lower ones are those of another stack.    *)
SameBelow(o, p, d) == \A i \in 1..(d - 1) : p[i] = o[i]

LEMMA WalkOnTop ==
  ASSUME NEW o, NEW p, NEW d \in Nat \ {0}, SameBelow(o, p, d),
         NEW b, NEW t
  PROVE  StorageAtDepth(p, b, t, d) =
           FoundIn(p[d], b, t, StorageAtDepth(o, b, t, d - 1))
<1>1. d - 1 \in Nat
  OBVIOUS
<1>2. StorageAtDepth(p, b, t, d - 1) = StorageAtDepth(o, b, t, d - 1)
  BY <1>1, WalkFrame DEF SameBelow
<1>3. QED
  BY <1>2, WalkStep

(* The two ways a write changes overlay d.                                  *)
SlotWritten(o, d, a, s, v) == [o EXCEPT ![d].written[a][s] = v]

AccountCleared(o, d, a, mark) ==
  [o EXCEPT ![d].written[a] = NothingWritten, ![d].cleared = @ \cup mark]

(* The storage seen from overlay d after one of its slots is written.       *)
LEMMA SlotWriteView ==
  ASSUME NEW o \in Seq(Overlay), NEW d \in 1..Len(o),
         NEW a \in Address, NEW s \in Slot, NEW v \in SlotContent
  PROVE  LET p == SlotWritten(o, d, a, s, v)
         IN  /\ \A i \in 1..(d - 1) : p[i] = o[i]
             /\ \A b \in Address, t \in Slot :
                  ~(b = a /\ t = s) =>
                    StorageAtDepth(p, b, t, d) = StorageAtDepth(o, b, t, d)
<1> DEFINE top == [o[d] EXCEPT !.written[a][s] = v]
           p == SlotWritten(o, d, a, s, v)
<1>1. d \in Nat \ {0} /\ Len(o) \in Nat /\ o[d] \in Overlay
  OBVIOUS
<1>2. /\ top.cleared = o[d].cleared
      /\ \A b \in Address, t \in Slot :
           ~(b = a /\ t = s) => top.written[b][t] = o[d].written[b][t]
  BY <1>1 DEF Overlay
<1>3. (\A i \in 1..(d - 1) : p[i] = o[i]) /\ p[d] = top
  BY DEF SlotWritten
<1> HIDE DEF top, p
<1>4. ASSUME NEW b \in Address, NEW t \in Slot, ~(b = a /\ t = s)
      PROVE  StorageAtDepth(p, b, t, d) = StorageAtDepth(o, b, t, d)
  <2>1. /\ p[d].written[b][t] = o[d].written[b][t]
        /\ p[d].cleared = o[d].cleared
    BY <1>2, <1>3, <1>4
  <2>2. /\ StorageAtDepth(p, b, t, d) =
             FoundIn(p[d], b, t, StorageAtDepth(o, b, t, d - 1))
        /\ StorageAtDepth(o, b, t, d) =
             FoundIn(o[d], b, t, StorageAtDepth(o, b, t, d - 1))
    <3>1. SameBelow(o, p, d) /\ d \in Nat \ {0}
      BY <1>1, <1>3 DEF SameBelow
    <3>2. QED
      BY <3>1, WalkOnTop, WalkStep
  <2>3. QED
    BY <2>1, <2>2 DEF FoundIn
<1>5. QED
  BY <1>3, <1>4 DEF p

(* The storage seen from overlay d after it clears an account: the bottom   *)
(* one needs no tombstone for it.                                           *)
LEMMA ClearView ==
  ASSUME NEW o \in Seq(Overlay), NEW d \in 1..Len(o), NEW a \in Address,
         NEW mark, mark = (IF d > 1 THEN {a} ELSE {})
  PROVE  LET p == AccountCleared(o, d, a, mark)
         IN  /\ \A i \in 1..(d - 1) : p[i] = o[i]
             /\ \A b \in Address, t \in Slot :
                  StorageAtDepth(p, b, t, d) =
                    IF b = a THEN Absent ELSE StorageAtDepth(o, b, t, d)
<1> DEFINE top == [o[d] EXCEPT !.written[a] = NothingWritten,
                               !.cleared = @ \cup mark]
           p == AccountCleared(o, d, a, mark)
<1>1. d \in Nat \ {0} /\ Len(o) \in Nat /\ o[d] \in Overlay
  OBVIOUS
<1>2. /\ top.cleared = o[d].cleared \cup mark
      /\ \A b \in Address, t \in Slot :
           top.written[b][t] = IF b = a THEN Absent ELSE o[d].written[b][t]
  BY <1>1 DEF Overlay, NothingWritten
<1>3. (\A i \in 1..(d - 1) : p[i] = o[i]) /\ p[d] = top
  <2> DEFINE q == [o EXCEPT ![d].written[a] = NothingWritten]
  <2>1. q = [o EXCEPT ![d] = [o[d] EXCEPT !.written[a] = NothingWritten]]
    OBVIOUS
  <2>2. DOMAIN q = 1..Len(o) /\ q[d] = [o[d] EXCEPT !.written[a] = NothingWritten]
        /\ \A i \in 1..(d - 1) : q[i] = o[i]
    BY <1>1, <2>1
  <2>3. q[d].cleared = o[d].cleared
    BY <1>1, <2>2 DEF Overlay
  <2>4. p = [q EXCEPT ![d] = [q[d] EXCEPT !.cleared = @ \cup mark]]
    BY DEF AccountCleared
  <2> HIDE DEF q, p
  <2>5. QED
    BY <1>1, <2>2, <2>3, <2>4
<1> HIDE DEF top, p
<1>5. ASSUME NEW b \in Address, NEW t \in Slot
      PROVE  StorageAtDepth(p, b, t, d) =
               IF b = a THEN Absent ELSE StorageAtDepth(o, b, t, d)
  <2>2. /\ StorageAtDepth(p, b, t, d) =
             FoundIn(p[d], b, t, StorageAtDepth(o, b, t, d - 1))
        /\ StorageAtDepth(o, b, t, d) =
             FoundIn(o[d], b, t, StorageAtDepth(o, b, t, d - 1))
    <3>1. SameBelow(o, p, d) /\ d \in Nat \ {0}
      BY <1>1, <1>3 DEF SameBelow
    <3>2. QED
      BY <3>1, WalkOnTop, WalkStep
  <2>3. CASE b # a
    <3>1. /\ p[d].written[b][t] = o[d].written[b][t]
          /\ b \in p[d].cleared <=> b \in o[d].cleared
      BY <1>2, <1>3, <2>3
    <3>2. QED
      BY <2>2, <2>3, <3>1 DEF FoundIn
  <2>4. CASE b = a
    <3>1. p[d].written[b][t] = Absent
      BY <1>2, <1>3, <2>4
    <3>2. CASE d = 1
      <4>1. StorageAtDepth(o, b, t, d - 1) = Absent
        BY <3>2, WalkBottom
      <4>2. QED
        BY <2>2, <2>4, <3>1, <4>1 DEF FoundIn
    <3>3. CASE d > 1
      <4>1. b \in p[d].cleared
        BY <1>2, <1>3, <2>4, <3>3
      <4>2. QED
        BY <2>2, <2>4, <3>1, <4>1 DEF FoundIn
    <3>4. QED
      BY <1>1, <3>2, <3>3
  <2>5. QED
    BY <2>3, <2>4
<1>6. QED
  BY <1>3, <1>5 DEF p

-----------------------------------------------------------------------------
(* A write, in the top level only, does not change what undoing gives. *)

(* The accounts: `recorded` and `map` are the record's and the top level's  *)
(* after a write to a.                                                      *)
LEMMA AccountUndoKept ==
  ASSUME TypeOK, LevelRecordsUndo, Recording, NEW a \in Address,
         NEW b \in Address, NEW recorded, NEW current,
         recorded = IF b = a THEN KeepOlder(changeLevels[Depth].accounts[a],
                                            accountStack[PriorIndex][a])
                    ELSE changeLevels[Depth].accounts[b],
         b # a => current = accountStack[Depth][b]
  PROVE  KeepOlder(recorded, current) =
           KeepOlder(changeLevels[Depth].accounts[b], accountStack[Depth][b])
<1>1. CASE b = a
  <2>1. KeepOlder(KeepOlder(changeLevels[Depth].accounts[a],
                            accountStack[PriorIndex][a]), current) =
          KeepOlder(changeLevels[Depth].accounts[a], accountStack[Depth][a])
    BY PriorIsCurrent, KeepOlderStep
  <2>2. QED
    BY <1>1, <2>1
<1>2. QED
  BY <1>1

LEMMA CodeUndoKept ==
  ASSUME TypeOK, LevelRecordsUndo, Recording, NEW a \in Address,
         NEW b \in Address, NEW recorded, NEW current,
         recorded = IF b = a THEN KeepOlder(changeLevels[Depth].code[a],
                                            codeStack[PriorIndex][a])
                    ELSE changeLevels[Depth].code[b],
         b # a => current = codeStack[Depth][b]
  PROVE  KeepOlder(recorded, current) =
           KeepOlder(changeLevels[Depth].code[b], codeStack[Depth][b])
<1>1. CASE b = a
  <2>1. KeepOlder(KeepOlder(changeLevels[Depth].code[a],
                            codeStack[PriorIndex][a]), current) =
          KeepOlder(changeLevels[Depth].code[a], codeStack[Depth][a])
    BY PriorIsCurrent, KeepOlderStep
  <2>2. QED
    BY <1>1, <2>1
<1>2. QED
  BY <1>1

(* What the operations on the level below the top show: in none of them     *)
(* does the account map a prior is read from differ from the stack's.       *)
LEMMA EditedFacts ==
  ASSUME TypeOK, NEW a \in Address, NEW acct \in Account
  PROVE  LET edited == EditedThroughGetAccount(a, acct)
         IN  /\ edited[PriorIndex][a] = accountStack[PriorIndex][a]
             /\ Len([edited EXCEPT ![Depth][a] = acct]) = Depth
             /\ [edited EXCEPT ![Depth][a] = acct][Depth] =
                  [accountStack[Depth] EXCEPT ![a] = acct]
             /\ \A i \in 1..(Depth - 1) :
                  [edited EXCEPT ![Depth][a] = acct][i] = accountStack[i]
<1> DEFINE edited == EditedThroughGetAccount(a, acct)
<1>1. /\ accountStack \in Seq(AccountMap)
      /\ Len(accountStack) = Depth
      /\ Depth \in 1..Len(accountStack)
      /\ Depth \in Nat \ {0}
  BY StackTypes
<1>2. edited \in Seq(AccountMap) /\ Len(edited) = Depth
  BY EditedType
<1>3. edited = accountStack \/ edited = [accountStack EXCEPT ![Depth][a] = acct]
  BY DEF EditedThroughGetAccount
<1>4. edited[Depth] = accountStack[Depth]
      \/ edited[Depth] = [accountStack[Depth] EXCEPT ![a] = acct]
  <2> HIDE DEF edited
  <2>1. QED
    BY <1>1, <1>3, TopWriteFacts
<1>5. \A i \in 1..(Depth - 1) : edited[i] = accountStack[i]
  <2> HIDE DEF edited
  <2>1. QED
    BY <1>1, <1>3, TopWriteFacts
<1>6. edited[PriorIndex][a] = accountStack[PriorIndex][a]
  <2>1. CASE Depth = 1
    BY <2>1, PriorIndexType DEF EditedThroughGetAccount
  <2>2. CASE Depth > 1
    <3>1. PriorIndex \in 1..(Depth - 1)
      BY <1>1, <2>2, PriorIndexType
    <3>2. QED
      BY <1>5, <3>1
  <2>3. QED
    BY <1>1, <2>1, <2>2
<1>7. [edited[Depth] EXCEPT ![a] = acct] =
        [accountStack[Depth] EXCEPT ![a] = acct]
  <2> HIDE DEF edited
  <2>1. QED
    BY <1>4
<1> HIDE DEF edited
<1>8. /\ Len([edited EXCEPT ![Depth][a] = acct]) = Depth
      /\ [edited EXCEPT ![Depth][a] = acct][Depth] =
           [edited[Depth] EXCEPT ![a] = acct]
      /\ \A i \in 1..(Depth - 1) :
           [edited EXCEPT ![Depth][a] = acct][i] = edited[i]
  BY <1>1, <1>2, TopWriteFacts
<1>9. QED
  BY <1>5, <1>6, <1>7, <1>8 DEF edited

(* After the step, undoing the top record gives what it gave before.        *)
AccountsKept ==
  \A a \in Address :
    KeepOlder(changeLevels'[Depth].accounts[a], accountStack'[Depth][a]) =
      KeepOlder(changeLevels[Depth].accounts[a], accountStack[Depth][a])

CodeKept ==
  \A a \in Address :
    KeepOlder(changeLevels'[Depth].code[a], codeStack'[Depth][a]) =
      KeepOlder(changeLevels[Depth].code[a], codeStack[Depth][a])

StorageKept ==
  \A a \in Address, s \in Slot :
    KeepOlder(changeLevels'[Depth].storage[a][s],
              StorageAtDepth(storageOverlays', a, s, Depth)) =
      KeepOlder(changeLevels[Depth].storage[a][s],
                StorageAtDepth(storageOverlays, a, s, Depth))

UndoneTopKept == AccountsKept /\ CodeKept /\ StorageKept

LEMMA SetAccountAtKeeps ==
  ASSUME TypeOK, LevelRecordsUndo, NEW a \in Address,
         NEW acct \in Account \cup {Absent}, SetAccountAt(a, acct)
  PROVE  LowerKept /\ (Recording => UndoneTopKept)
<1>1. /\ accountStack \in Seq(AccountMap) /\ Len(accountStack) = Depth
      /\ changeLevels \in Seq(ChangeSet) /\ Len(changeLevels) = Depth
      /\ Depth \in 1..Len(accountStack) /\ Depth \in Nat
  BY StackTypes
<1>2. /\ changeLevels' = RecordAccountPrior(changeLevels, accountStack, a)
      /\ accountStack' = [accountStack EXCEPT ![Depth][a] = acct]
      /\ UNCHANGED <<codeStack, storageOverlays, changeSetsSuspended>>
  BY DEF SetAccountAt
<1>3. /\ Len(accountStack') = Depth
      /\ \A i \in 1..(Depth - 1) : accountStack'[i] = accountStack[i]
      /\ accountStack'[Depth] = [accountStack[Depth] EXCEPT ![a] = acct]
  BY <1>1, <1>2, TopWriteFacts
<1>4. LowerKept
  BY <1>1, <1>2, <1>3, RecordAccountPriorFacts DEF LowerKept, Depth
<1>5. ASSUME Recording PROVE AccountsKept
  <2>1. \A b \in Address :
          changeLevels'[Depth].accounts[b] =
            IF b = a THEN KeepOlder(changeLevels[Depth].accounts[a],
                                    accountStack[PriorIndex][a])
            ELSE changeLevels[Depth].accounts[b]
    BY <1>1, <1>2, <1>5, RecordAccountPriorFacts
  <2>2. QED
    BY <1>3, <1>5, <2>1, AccountUndoKept DEF AccountsKept
<1>6. CodeKept /\ StorageKept
  BY <1>1, <1>2, RecordAccountPriorFacts DEF CodeKept, StorageKept
<1>7. QED
  BY <1>4, <1>5, <1>6 DEF UndoneTopKept

LEMMA SetCodeAtKeeps ==
  ASSUME TypeOK, LevelRecordsUndo, NEW a \in Address, NEW c \in Code,
         SetCodeAt(a, c)
  PROVE  LowerKept /\ (Recording => UndoneTopKept)
<1>1. /\ codeStack \in Seq(CodeMap) /\ Len(codeStack) = Depth
      /\ changeLevels \in Seq(ChangeSet) /\ Len(changeLevels) = Depth
      /\ Depth \in 1..Len(codeStack) /\ Depth \in Nat
  BY StackTypes
<1>2. /\ changeLevels' = RecordCodePrior(changeLevels, a)
      /\ codeStack' = [codeStack EXCEPT ![Depth][a] = c]
      /\ UNCHANGED <<accountStack, storageOverlays, changeSetsSuspended>>
  BY DEF SetCodeAt
<1>3. /\ Len(codeStack') = Depth
      /\ \A i \in 1..(Depth - 1) : codeStack'[i] = codeStack[i]
      /\ codeStack'[Depth] = [codeStack[Depth] EXCEPT ![a] = c]
  BY <1>1, <1>2, TopWriteFacts
<1>4. LowerKept
  BY <1>1, <1>2, <1>3, RecordCodePriorFacts DEF LowerKept, Depth
<1>5. ASSUME Recording PROVE CodeKept
  <2>1. \A b \in Address :
          changeLevels'[Depth].code[b] =
            IF b = a THEN KeepOlder(changeLevels[Depth].code[a],
                                    codeStack[PriorIndex][a])
            ELSE changeLevels[Depth].code[b]
    BY <1>1, <1>2, <1>5, RecordCodePriorFacts
  <2>2. QED
    BY <1>3, <1>5, <2>1, CodeUndoKept DEF CodeKept
<1>6. AccountsKept /\ StorageKept
  BY <1>1, <1>2, RecordCodePriorFacts DEF AccountsKept, StorageKept
<1>7. QED
  BY <1>4, <1>5, <1>6 DEF UndoneTopKept

LEMMA ModifyAccountFieldsKeeps ==
  ASSUME TypeOK, LevelRecordsUndo, NEW a \in Address, NEW f \in Fields,
         ModifyAccountFields(a, f)
  PROVE  LowerKept /\ (Recording => UndoneTopKept)
<1> DEFINE acct == [AccountOrNew(a) EXCEPT !.fields = f]
           edited == EditedThroughGetAccount(a, acct)
<1>1. /\ Len(accountStack) = Depth
      /\ changeLevels \in Seq(ChangeSet) /\ Len(changeLevels) = Depth
      /\ Depth \in Nat
  BY StackTypes
<1>2. /\ changeLevels' = RecordAccountPrior(changeLevels, edited, a)
      /\ accountStack' = [edited EXCEPT ![Depth][a] = acct]
      /\ UNCHANGED <<codeStack, storageOverlays, changeSetsSuspended>>
  BY DEF ModifyAccountFields
<1>3. acct \in Account
  BY AccountOrNewType DEF Account
<1> HIDE DEF acct
<1>4. /\ Len(accountStack') = Depth
      /\ \A i \in 1..(Depth - 1) : accountStack'[i] = accountStack[i]
      /\ accountStack'[Depth] = [accountStack[Depth] EXCEPT ![a] = acct]
      /\ edited[PriorIndex][a] = accountStack[PriorIndex][a]
  BY <1>2, <1>3, EditedFacts
<1> HIDE DEF edited
<1>5. LowerKept
  BY <1>1, <1>2, <1>4, RecordAccountPriorFacts DEF LowerKept, Depth
<1>6. ASSUME Recording PROVE AccountsKept
  <2>1. \A b \in Address :
          changeLevels'[Depth].accounts[b] =
            IF b = a THEN KeepOlder(changeLevels[Depth].accounts[a],
                                    accountStack[PriorIndex][a])
            ELSE changeLevels[Depth].accounts[b]
    BY <1>1, <1>2, <1>4, <1>6, RecordAccountPriorFacts
  <2>2. \A b \in Address :
          b # a => accountStack'[Depth][b] = accountStack[Depth][b]
    <3>1. accountStack[Depth] \in AccountMap
      BY PriorIndexType, LevelTypes
    <3>2. QED
      BY <1>4, <3>1 DEF AccountMap
  <2>3. QED
    BY <1>6, <2>1, <2>2, AccountUndoKept DEF AccountsKept
<1>7. CodeKept /\ StorageKept
  BY <1>1, <1>2, RecordAccountPriorFacts DEF CodeKept, StorageKept
<1>8. QED
  BY <1>5, <1>6, <1>7 DEF UndoneTopKept

LEMMA PutCodeKeeps ==
  ASSUME TypeOK, LevelRecordsUndo, NEW a \in Address, NEW c \in Code,
         PutCode(a, c)
  PROVE  LowerKept /\ (Recording => UndoneTopKept)
<1> DEFINE acct == [AccountOrNew(a) EXCEPT !.codeHash = c]
           edited == EditedThroughGetAccount(a, acct)
           coded == RecordCodePrior(changeLevels, a)
<1>1. /\ Len(accountStack) = Depth
      /\ codeStack \in Seq(CodeMap) /\ Len(codeStack) = Depth
      /\ changeLevels \in Seq(ChangeSet) /\ Len(changeLevels) = Depth
      /\ Depth \in 1..Len(codeStack) /\ Depth \in Nat
  BY StackTypes
<1>2. /\ changeLevels' = RecordAccountPrior(coded, edited, a)
      /\ codeStack' = [codeStack EXCEPT ![Depth][a] = c]
      /\ accountStack' = [edited EXCEPT ![Depth][a] = acct]
      /\ UNCHANGED <<storageOverlays, changeSetsSuspended>>
  BY DEF PutCode
<1>3. acct \in Account
  BY AccountOrNewType DEF Account
<1> HIDE DEF acct
<1>4. /\ Len(accountStack') = Depth
      /\ \A i \in 1..(Depth - 1) : accountStack'[i] = accountStack[i]
      /\ accountStack'[Depth] = [accountStack[Depth] EXCEPT ![a] = acct]
      /\ edited[PriorIndex][a] = accountStack[PriorIndex][a]
  BY <1>2, <1>3, EditedFacts
<1>5. /\ \A i \in 1..(Depth - 1) : codeStack'[i] = codeStack[i]
      /\ codeStack'[Depth] = [codeStack[Depth] EXCEPT ![a] = c]
  BY <1>1, <1>2, TopWriteFacts
<1>6. coded \in Seq(ChangeSet) /\ Len(coded) = Depth
  BY <1>1, RecordCodePriorType
<1>7. /\ \A i \in 1..(Depth - 1) : coded[i] = changeLevels[i]
      /\ coded[Depth].accounts = changeLevels[Depth].accounts
      /\ coded[Depth].storage = changeLevels[Depth].storage
      /\ Recording =>
           \A b \in Address :
             coded[Depth].code[b] =
               IF b = a THEN KeepOlder(changeLevels[Depth].code[a],
                                       codeStack[PriorIndex][a])
               ELSE changeLevels[Depth].code[b]
  BY <1>1, RecordCodePriorFacts
<1> HIDE DEF edited, coded
<1>8. /\ \A i \in 1..(Depth - 1) : changeLevels'[i] = coded[i]
      /\ changeLevels'[Depth].code = coded[Depth].code
      /\ changeLevels'[Depth].storage = coded[Depth].storage
      /\ Recording =>
           \A b \in Address :
             changeLevels'[Depth].accounts[b] =
               IF b = a THEN KeepOlder(coded[Depth].accounts[a],
                                       edited[PriorIndex][a])
               ELSE coded[Depth].accounts[b]
  BY <1>2, <1>6, RecordAccountPriorFacts
<1>9. LowerKept
  BY <1>1, <1>2, <1>4, <1>5, <1>7, <1>8 DEF LowerKept, Depth
<1>10. ASSUME Recording PROVE AccountsKept
  <2>1. \A b \in Address :
          changeLevels'[Depth].accounts[b] =
            IF b = a THEN KeepOlder(changeLevels[Depth].accounts[a],
                                    accountStack[PriorIndex][a])
            ELSE changeLevels[Depth].accounts[b]
    BY <1>4, <1>7, <1>8, <1>10
  <2>2. \A b \in Address :
          b # a => accountStack'[Depth][b] = accountStack[Depth][b]
    <3>1. accountStack[Depth] \in AccountMap
      BY PriorIndexType, LevelTypes
    <3>2. QED
      BY <1>4, <3>1 DEF AccountMap
  <2>3. QED
    BY <1>10, <2>1, <2>2, AccountUndoKept DEF AccountsKept
<1>11. ASSUME Recording PROVE CodeKept
  <2>1. \A b \in Address :
          changeLevels'[Depth].code[b] =
            IF b = a THEN KeepOlder(changeLevels[Depth].code[a],
                                    codeStack[PriorIndex][a])
            ELSE changeLevels[Depth].code[b]
    BY <1>7, <1>8, <1>11
  <2>2. QED
    BY <1>5, <1>11, <2>1, CodeUndoKept DEF CodeKept
<1>12. StorageKept
  BY <1>2, <1>7, <1>8 DEF StorageKept
<1>13. QED
  BY <1>9, <1>10, <1>11, <1>12 DEF UndoneTopKept

(* A slot that was written: its prior is in the record if it was not yet.   *)
LEMMA SlotUndoKept ==
  ASSUME TypeOK, LevelRecordsUndo, Recording, NEW a \in Address, NEW s \in Slot,
         NEW current
  PROVE  KeepOlder(KeepOlder(changeLevels[Depth].storage[a][s],
                             StorageAtDepth(storageOverlays, a, s, PriorIndex)),
                   current) =
           KeepOlder(changeLevels[Depth].storage[a][s],
                     StorageAtDepth(storageOverlays, a, s, Depth))
BY PriorIsCurrent, KeepOlderStep

(* A slot that was cleared: one that had no value below needs no prior.     *)
LEMMA ClearedSlotUndoKept ==
  ASSUME TypeOK, LevelRecordsUndo, Recording, NEW a \in Address, NEW s \in Slot
  PROVE  KeepOlder(KeepOlder(changeLevels[Depth].storage[a][s],
                             ClearPrior(a, s)), Absent) =
           KeepOlder(changeLevels[Depth].storage[a][s],
                     StorageAtDepth(storageOverlays, a, s, Depth))
<1> DEFINE prior == StorageAtDepth(storageOverlays, a, s, PriorIndex)
<1>1. CASE prior = Absent
  <2>1. ClearPrior(a, s) = NotRecorded
    BY <1>1 DEF ClearPrior
  <2>2. changeLevels[Depth].storage[a][s] = NotRecorded =>
          StorageAtDepth(storageOverlays, a, s, Depth) = Absent
    BY <1>1, PriorIsCurrent
  <2>3. QED
    BY <2>1, <2>2 DEF KeepOlder
<1>2. CASE prior # Absent
  <2>1. ClearPrior(a, s) = prior
    BY <1>2 DEF ClearPrior
  <2>2. QED
    BY <2>1, SlotUndoKept
<1>3. QED
  BY <1>1, <1>2

LEMMA SetStorageAtKeeps ==
  ASSUME TypeOK, LevelRecordsUndo, NEW a \in Address, NEW s \in Slot,
         NEW v \in SlotContent, SetStorageAt(a, s, v)
  PROVE  LowerKept /\ (Recording => UndoneTopKept)
<1>1. /\ storageOverlays \in Seq(Overlay) /\ Len(storageOverlays) = Depth
      /\ changeLevels \in Seq(ChangeSet) /\ Len(changeLevels) = Depth
      /\ Depth \in 1..Len(storageOverlays) /\ Depth \in Nat
  BY StackTypes
<1>2. /\ changeLevels' = RecordSlotPrior(changeLevels, a, s)
      /\ storageOverlays' = SlotWritten(storageOverlays, Depth, a, s, v)
      /\ UNCHANGED <<accountStack, codeStack, changeSetsSuspended>>
  BY DEF SetStorageAt, SlotWritten
<1>3. /\ \A i \in 1..(Depth - 1) : storageOverlays'[i] = storageOverlays[i]
      /\ \A b \in Address, t \in Slot :
           ~(b = a /\ t = s) =>
             StorageAtDepth(storageOverlays', b, t, Depth) =
               StorageAtDepth(storageOverlays, b, t, Depth)
  BY <1>1, <1>2, SlotWriteView
<1>4. LowerKept
  BY <1>1, <1>2, <1>3, RecordSlotPriorFacts DEF LowerKept, Depth
<1>5. AccountsKept /\ CodeKept
  BY <1>1, <1>2, RecordSlotPriorFacts DEF AccountsKept, CodeKept
<1>6. ASSUME Recording PROVE StorageKept
  <2>1. \A b \in Address, t \in Slot :
          changeLevels'[Depth].storage[b][t] =
            IF b = a /\ t = s
            THEN KeepOlder(changeLevels[Depth].storage[a][s],
                   StorageAtDepth(storageOverlays, a, s, PriorIndex))
            ELSE changeLevels[Depth].storage[b][t]
    BY <1>1, <1>2, <1>6, RecordSlotPriorFacts
  <2>2. ASSUME NEW b \in Address, NEW t \in Slot
        PROVE  KeepOlder(changeLevels'[Depth].storage[b][t],
                         StorageAtDepth(storageOverlays', b, t, Depth)) =
                 KeepOlder(changeLevels[Depth].storage[b][t],
                           StorageAtDepth(storageOverlays, b, t, Depth))
    <3>1. CASE b = a /\ t = s
      BY <1>6, <2>1, <3>1, SlotUndoKept
    <3>2. CASE ~(b = a /\ t = s)
      BY <1>3, <2>1, <3>2
    <3>3. QED
      BY <3>1, <3>2
  <2>3. QED
    BY <2>2 DEF StorageKept
<1>7. QED
  BY <1>4, <1>5, <1>6 DEF UndoneTopKept

(* What a clear does to the overlays, and to a record that the operation    *)
(* may already have added account priors to.                                *)
LEMMA ClearKeeps ==
  ASSUME TypeOK, LevelRecordsUndo, NEW a \in Address,
         NEW levels \in Seq(ChangeSet), Len(levels) = Depth,
         \A b \in Address : levels[Depth].storage[b] =
                              changeLevels[Depth].storage[b],
         changeLevels' = RecordClearPrior(levels, a),
         storageOverlays' = OverlaysAfterClear(a)
  PROVE  /\ \A i \in 1..(Depth - 1) :
              /\ storageOverlays'[i] = storageOverlays[i]
              /\ changeLevels'[i] = levels[i]
         /\ changeLevels'[Depth].accounts = levels[Depth].accounts
         /\ changeLevels'[Depth].code = levels[Depth].code
         /\ Recording => StorageKept
<1>1. /\ storageOverlays \in Seq(Overlay) /\ Len(storageOverlays) = Depth
      /\ Depth \in 1..Len(storageOverlays) /\ Depth \in Nat
  BY StackTypes
<1>2. Tombstone(a) = (IF Depth > 1 THEN {a} ELSE {})
  BY DEF Tombstone
<1>3. storageOverlays' =
        AccountCleared(storageOverlays, Depth, a, Tombstone(a))
  BY DEF OverlaysAfterClear, AccountCleared
<1>4. /\ \A i \in 1..(Depth - 1) : storageOverlays'[i] = storageOverlays[i]
      /\ \A b \in Address, t \in Slot :
           StorageAtDepth(storageOverlays', b, t, Depth) =
             IF b = a THEN Absent
             ELSE StorageAtDepth(storageOverlays, b, t, Depth)
  BY <1>1, <1>2, <1>3, ClearView
<1>5. /\ \A i \in 1..(Depth - 1) : changeLevels'[i] = levels[i]
      /\ changeLevels'[Depth].accounts = levels[Depth].accounts
      /\ changeLevels'[Depth].code = levels[Depth].code
      /\ Recording =>
           \A b \in Address, t \in Slot :
             changeLevels'[Depth].storage[b][t] =
               IF b = a THEN KeepOlder(levels[Depth].storage[a][t],
                                       ClearPrior(a, t))
               ELSE levels[Depth].storage[b][t]
  BY RecordClearPriorFacts
<1>6. ASSUME Recording, NEW b \in Address, NEW t \in Slot
      PROVE  KeepOlder(changeLevels'[Depth].storage[b][t],
                       StorageAtDepth(storageOverlays', b, t, Depth)) =
               KeepOlder(changeLevels[Depth].storage[b][t],
                         StorageAtDepth(storageOverlays, b, t, Depth))
  <2>1. levels[Depth].storage[b][t] = changeLevels[Depth].storage[b][t]
    OBVIOUS
  <2>2. CASE b = a
    <3>1. /\ changeLevels'[Depth].storage[b][t] =
               KeepOlder(changeLevels[Depth].storage[b][t], ClearPrior(b, t))
          /\ StorageAtDepth(storageOverlays', b, t, Depth) = Absent
      BY <1>4, <1>5, <1>6, <2>1, <2>2
    <3>2. QED
      BY <1>6, <3>1, ClearedSlotUndoKept
  <2>3. CASE b # a
    BY <1>4, <1>5, <1>6, <2>1, <2>3
  <2>4. QED
    BY <2>2, <2>3
<1>7. QED
  BY <1>4, <1>5, <1>6 DEF StorageKept

LEMMA ClearStorageAtKeeps ==
  ASSUME TypeOK, LevelRecordsUndo, NEW a \in Address, ClearStorageAt(a)
  PROVE  LowerKept /\ (Recording => UndoneTopKept)
<1>1. changeLevels \in Seq(ChangeSet) /\ Len(changeLevels) = Depth
  BY StackTypes
<1>2. /\ changeLevels' = RecordClearPrior(changeLevels, a)
      /\ storageOverlays' = OverlaysAfterClear(a)
      /\ UNCHANGED <<accountStack, codeStack, changeSetsSuspended>>
  BY DEF ClearStorageAt
<1>3. /\ \A i \in 1..(Depth - 1) :
           /\ storageOverlays'[i] = storageOverlays[i]
           /\ changeLevels'[i] = changeLevels[i]
      /\ changeLevels'[Depth].accounts = changeLevels[Depth].accounts
      /\ changeLevels'[Depth].code = changeLevels[Depth].code
      /\ Recording => StorageKept
  BY <1>1, <1>2, ClearKeeps
<1>4. QED
  BY <1>2, <1>3 DEF LowerKept, Depth, UndoneTopKept, AccountsKept, CodeKept

LEMMA DeleteAccountKeeps ==
  ASSUME TypeOK, LevelRecordsUndo, NEW a \in Address, DeleteAccount(a)
  PROVE  LowerKept /\ (Recording => UndoneTopKept)
<1> DEFINE levels == RecordAccountPrior(changeLevels, accountStack, a)
<1>1. /\ accountStack \in Seq(AccountMap) /\ Len(accountStack) = Depth
      /\ changeLevels \in Seq(ChangeSet) /\ Len(changeLevels) = Depth
      /\ Depth \in 1..Len(accountStack) /\ Depth \in Nat
  BY StackTypes
<1>2. /\ changeLevels' = RecordClearPrior(levels, a)
      /\ accountStack' = [accountStack EXCEPT ![Depth][a] = Absent]
      /\ storageOverlays' = OverlaysAfterClear(a)
      /\ UNCHANGED <<codeStack, changeSetsSuspended>>
  BY DEF DeleteAccount
<1>3. levels \in Seq(ChangeSet) /\ Len(levels) = Depth
  BY <1>1, RecordAccountPriorType
<1>4. /\ \A i \in 1..(Depth - 1) : levels[i] = changeLevels[i]
      /\ levels[Depth].code = changeLevels[Depth].code
      /\ levels[Depth].storage = changeLevels[Depth].storage
      /\ Recording =>
           \A b \in Address :
             levels[Depth].accounts[b] =
               IF b = a THEN KeepOlder(changeLevels[Depth].accounts[a],
                                       accountStack[PriorIndex][a])
               ELSE changeLevels[Depth].accounts[b]
  BY <1>1, RecordAccountPriorFacts
<1> HIDE DEF levels
<1>5. /\ \A i \in 1..(Depth - 1) :
           /\ storageOverlays'[i] = storageOverlays[i]
           /\ changeLevels'[i] = levels[i]
      /\ changeLevels'[Depth].accounts = levels[Depth].accounts
      /\ changeLevels'[Depth].code = levels[Depth].code
      /\ Recording => StorageKept
  BY <1>2, <1>3, <1>4, ClearKeeps
<1>6. /\ Len(accountStack') = Depth
      /\ \A i \in 1..(Depth - 1) : accountStack'[i] = accountStack[i]
      /\ accountStack'[Depth] = [accountStack[Depth] EXCEPT ![a] = Absent]
  BY <1>1, <1>2, TopWriteFacts
<1>7. LowerKept
  BY <1>1, <1>2, <1>4, <1>5, <1>6 DEF LowerKept, Depth
<1>8. ASSUME Recording PROVE AccountsKept
  <2>1. \A b \in Address :
          changeLevels'[Depth].accounts[b] =
            IF b = a THEN KeepOlder(changeLevels[Depth].accounts[a],
                                    accountStack[PriorIndex][a])
            ELSE changeLevels[Depth].accounts[b]
    BY <1>4, <1>5, <1>8
  <2>2. \A b \in Address :
          b # a => accountStack'[Depth][b] = accountStack[Depth][b]
    <3>1. accountStack[Depth] \in AccountMap
      BY PriorIndexType, LevelTypes
    <3>2. QED
      BY <1>6, <3>1 DEF AccountMap
  <2>3. QED
    BY <1>8, <2>1, <2>2, AccountUndoKept DEF AccountsKept
<1>9. CodeKept
  BY <1>2, <1>4, <1>5 DEF CodeKept
<1>10. QED
  BY <1>5, <1>7, <1>8, <1>9 DEF UndoneTopKept

(* Every write.                                                             *)
LEMMA WriteKeeps ==
  ASSUME TypeOK, LevelRecordsUndo, WriteStep
  PROVE  LowerKept /\ (Recording => UndoneTopKept)
<1>1. PICK a \in Address : AccountStep(a) \/ CodeStep(a) \/ StorageStep(a)
  BY DEF WriteStep
<1>2. CASE AccountStep(a)
  BY <1>2, SetAccountAtKeeps, ModifyAccountFieldsKeeps, DeleteAccountKeeps
     DEF AccountStep
<1>3. CASE CodeStep(a)
  BY <1>3, SetCodeAtKeeps, PutCodeKeeps DEF CodeStep
<1>4. CASE StorageStep(a)
  BY <1>4, SetStorageAtKeeps, ClearStorageAtKeeps DEF StorageStep
<1>5. QED
  BY <1>1, <1>2, <1>3, <1>4

(* A write above the bottom during a pure read records nothing.             *)
LEMMA SuspendedWriteRecordsNothing ==
  ASSUME WriteStep, ~Recording
  PROVE  changeLevels' = changeLevels
<1>1. PICK a \in Address : AccountStep(a) \/ CodeStep(a) \/ StorageStep(a)
  BY DEF WriteStep
<1>2. CASE AccountStep(a)
  BY <1>2 DEF AccountStep, SetAccountAt, ModifyAccountFields, DeleteAccount,
              RecordAccountPrior, RecordClearPrior
<1>3. CASE CodeStep(a)
  BY <1>3 DEF CodeStep, SetCodeAt, PutCode, RecordAccountPrior, RecordCodePrior
<1>4. CASE StorageStep(a)
  BY <1>4 DEF StorageStep, SetStorageAt, ClearStorageAt, RecordSlotPrior,
              RecordClearPrior
<1>5. QED
  BY <1>1, <1>2, <1>3, <1>4

-----------------------------------------------------------------------------
(* Levels. *)

(* A level that a step does not touch shows the same state after it.        *)
LEMMA LevelKept ==
  ASSUME NEW i \in Nat,
         accountStack'[i] = accountStack[i],
         codeStack'[i] = codeStack[i],
         \A j \in 1..i : storageOverlays'[j] = storageOverlays[j]
  PROVE  LevelState(i)' = LevelState(i)
<1>1. \A a \in Address, s \in Slot :
        StorageAtDepth(storageOverlays', a, s, i) =
          StorageAtDepth(storageOverlays, a, s, i)
  BY WalkFrame
<1>2. QED
  BY <1>1 DEF LevelState

(* A record that names nothing undoes nothing.                              *)
LEMMA UndoEmpty ==
  ASSUME TypeOK, NEW i \in 1..Depth
  PROVE  Undo(LevelState(i), EmptyChangeSet) = LevelState(i)
<1>1. accountStack[i] \in AccountMap /\ codeStack[i] \in CodeMap
  BY LevelTypes
<1>2. QED
  BY <1>1 DEF Undo, LevelState, EmptyChangeSet, KeepOlder, AccountMap, CodeMap

(* Undoing a merged record is undoing the newer one, then the older one.    *)
LEMMA UndoMerged ==
  ASSUME NEW state, NEW older, NEW newer
  PROVE  Undo(state, MergeOlderWins(older, newer)) =
           Undo(Undo(state, newer), older)
<1>1. \A o, n, v : KeepOlder(KeepOlder(o, n), v) = KeepOlder(o, KeepOlder(n, v))
  BY DEF KeepOlder
<1>2. QED
  BY <1>1 DEF Undo, MergeOlderWins

(* The merged overlay shows what the two did.                               *)
LEMMA MergedView ==
  ASSUME NEW o, NEW p, NEW d \in Nat \ {0}, NEW a \in Address, NEW s \in Slot,
         p[d] = MergeOverlays(o[d], o[d + 1], d = 1), SameBelow(o, p, d)
  PROVE  StorageAtDepth(p, a, s, d) = StorageAtDepth(o, a, s, d + 1)
<1> DEFINE below == StorageAtDepth(o, a, s, d - 1)
<1>1. StorageAtDepth(p, a, s, d) = FoundIn(p[d], a, s, below)
  BY WalkOnTop
<1>2. StorageAtDepth(o, a, s, d + 1) =
        FoundIn(o[d + 1], a, s, FoundIn(o[d], a, s, below))
  <2>1. StorageAtDepth(o, a, s, d + 1) =
          FoundIn(o[d + 1], a, s, StorageAtDepth(o, a, s, d + 1 - 1))
    BY d + 1 \in Nat \ {0}, WalkStep
  <2>2. StorageAtDepth(o, a, s, d) = FoundIn(o[d], a, s, below)
    BY WalkStep
  <2>3. d + 1 - 1 = d
    OBVIOUS
  <2>4. QED
    BY <2>1, <2>2, <2>3
<1>3. d = 1 => below = Absent
  BY WalkBottom
<1>4. /\ p[d].written[a][s] =
           IF o[d + 1].written[a][s] # Absent THEN o[d + 1].written[a][s]
           ELSE IF a \in o[d + 1].cleared THEN Absent
           ELSE o[d].written[a][s]
      /\ d # 1 => p[d].cleared = o[d].cleared \cup o[d + 1].cleared
      /\ d = 1 => p[d].cleared = o[d].cleared
  BY DEF MergeOverlays
<1> HIDE DEF below
<1>5. QED
  BY <1>1, <1>2, <1>3, <1>4 DEF FoundIn

(* A commit: the level below takes the top's state, and undoing its record  *)
(* gives what undoing it gave before.                                       *)
LEMMA CommitLevels ==
  ASSUME TypeOK, LevelRecordsUndo, Commit, NEW d \in Nat \ {0}, Depth = d + 1
  PROVE  /\ Depth' = d
         /\ LevelState(d)' = LevelState(d + 1)
         /\ \A i \in 1..(d - 1) : LevelState(i)' = LevelState(i)
         /\ \A i \in 1..(d - 1) : changeLevels'[i] = changeLevels[i]
         /\ changeSetsSuspended = 0 => Undone(d)' = Undone(d)
         /\ changeSetsSuspended # 0 =>
              d # 1 /\ changeLevels'[d] = MergeOlderWins(changeLevels[d],
                                                         changeLevels[d + 1])
<1>1. /\ ~CommitRefused
      /\ Len(accountStack') = d
      /\ accountStack'[d] = accountStack[d + 1]
      /\ \A i \in 1..(d - 1) : accountStack'[i] = accountStack[i]
      /\ codeStack'[d] = codeStack[d + 1]
      /\ \A i \in 1..(d - 1) : codeStack'[i] = codeStack[i]
      /\ storageOverlays'[d] =
           MergeOverlays(storageOverlays[d], storageOverlays[d + 1], d = 1)
      /\ \A i \in 1..(d - 1) : storageOverlays'[i] = storageOverlays[i]
      /\ changeLevels'[d] = MergeOlderWins(changeLevels[d], changeLevels[d + 1])
      /\ \A i \in 1..(d - 1) : changeLevels'[i] = changeLevels[i]
  BY CommitEffect
<1>2. \A a \in Address, s \in Slot :
        StorageAtDepth(storageOverlays', a, s, d) =
          StorageAtDepth(storageOverlays, a, s, d + 1)
  <2>1. SameBelow(storageOverlays, storageOverlays', d)
    BY <1>1 DEF SameBelow
  <2>2. QED
    BY <1>1, <2>1, MergedView
<1>3. LevelState(d)' = LevelState(d + 1)
  BY <1>1, <1>2 DEF LevelState
<1>4. ASSUME NEW i \in 1..(d - 1) PROVE LevelState(i)' = LevelState(i)
  <2>1. i \in Nat /\ \A j \in 1..i : j \in 1..(d - 1)
    OBVIOUS
  <2>2. QED
    BY <1>1, <2>1, LevelKept
<1>5. ASSUME changeSetsSuspended = 0 PROVE Undone(d)' = Undone(d)
  <2>1. Undo(LevelState(d + 1), changeLevels[d + 1]) = LevelState(d)
    <3>1. d + 1 \in 2..Depth /\ d + 1 - 1 = d
      OBVIOUS
    <3>2. QED
      BY <1>5, <3>1 DEF LevelRecordsUndo
  <2>2. Undo(LevelState(d + 1), changeLevels'[d]) =
          Undo(Undo(LevelState(d + 1), changeLevels[d + 1]), changeLevels[d])
    BY <1>1, UndoMerged
  <2>3. Undo(LevelState(d)', changeLevels'[d]) =
          Undo(LevelState(d), changeLevels[d])
    BY <1>3, <2>1, <2>2
  <2>4. QED
    BY <2>3 DEF Undone, Undo
<1>6. changeSetsSuspended # 0 => d # 1
  BY <1>1, StackTypes DEF CommitRefused
<1>7. QED
  BY <1>1, <1>3, <1>4, <1>5, <1>6 DEF Depth

(* A write: the levels below are as they were, and undoing the top record   *)
(* gives what it gave before.                                               *)
LEMMA WriteLevels ==
  ASSUME TypeOK, LevelRecordsUndo, WriteStep
  PROVE  /\ Depth' = Depth
         /\ UNCHANGED changeSetsSuspended
         /\ \A i \in 1..(Depth - 1) : LevelState(i)' = LevelState(i)
         /\ \A i \in 1..(Depth - 1) : changeLevels'[i] = changeLevels[i]
         /\ Recording => Undone(Depth)' = Undone(Depth)
         /\ ~Recording => changeLevels' = changeLevels
<1>1. LowerKept /\ (Recording => UndoneTopKept)
  BY WriteKeeps
<1>2. Depth \in Nat \ {0} /\ Depth' = Depth
  BY <1>1, StackTypes DEF LowerKept
<1>3. ASSUME NEW i \in 1..(Depth - 1) PROVE LevelState(i)' = LevelState(i)
  <2>1. i \in Nat /\ \A j \in 1..i : j \in 1..(Depth - 1)
    BY <1>2
  <2>2. /\ accountStack'[i] = accountStack[i]
        /\ codeStack'[i] = codeStack[i]
        /\ \A j \in 1..i : storageOverlays'[j] = storageOverlays[j]
    BY <1>1, <2>1 DEF LowerKept
  <2>3. QED
    BY <2>1, <2>2, LevelKept
<1>4. ASSUME Recording PROVE Undone(Depth)' = Undone(Depth)
  <2>1. UndoneTopKept
    BY <1>1, <1>4
  <2>2. Undone(Depth)' =
          [accounts |-> [a \in Address |->
             KeepOlder(changeLevels'[Depth].accounts[a],
                       accountStack'[Depth][a])],
           code |-> [a \in Address |->
             KeepOlder(changeLevels'[Depth].code[a], codeStack'[Depth][a])],
           storage |-> [a \in Address |-> [s \in Slot |->
             KeepOlder(changeLevels'[Depth].storage[a][s],
                       StorageAtDepth(storageOverlays', a, s, Depth))]]]
    BY <1>2 DEF Undone, Undo, LevelState
  <2>3. Undone(Depth) =
          [accounts |-> [a \in Address |->
             KeepOlder(changeLevels[Depth].accounts[a],
                       accountStack[Depth][a])],
           code |-> [a \in Address |->
             KeepOlder(changeLevels[Depth].code[a], codeStack[Depth][a])],
           storage |-> [a \in Address |-> [s \in Slot |->
             KeepOlder(changeLevels[Depth].storage[a][s],
                       StorageAtDepth(storageOverlays, a, s, Depth))]]]
    BY DEF Undone, Undo, LevelState
  <2>4. QED
    BY <2>1, <2>2, <2>3
       DEF UndoneTopKept, AccountsKept, CodeKept, StorageKept
<1>5. QED
  BY <1>1, <1>2, <1>3, <1>4, SuspendedWriteRecordsNothing DEF LowerKept

(* A checkpoint: the new level shows the state of the one it was opened on. *)
LEMMA CheckpointLevels ==
  ASSUME TypeOK, Checkpoint, NEW d \in Nat \ {0}, Depth = d
  PROVE  /\ Depth' = d + 1
         /\ UNCHANGED changeSetsSuspended
         /\ \A i \in 1..d : LevelState(i)' = LevelState(i)
         /\ \A i \in 1..d : changeLevels'[i] = changeLevels[i]
         /\ LevelState(d + 1)' = LevelState(d)
         /\ changeLevels'[d + 1] = EmptyChangeSet
<1>1. /\ accountStack \in Seq(AccountMap) /\ Len(accountStack) = d
      /\ codeStack \in Seq(CodeMap) /\ Len(codeStack) = d
      /\ storageOverlays \in Seq(Overlay) /\ Len(storageOverlays) = d
      /\ changeLevels \in Seq(ChangeSet) /\ Len(changeLevels) = d
      /\ d \in 1..Depth
  BY StackTypes
<1>2. accountStack[d] \in AccountMap /\ codeStack[d] \in CodeMap
  BY <1>1, LevelTypes
<1>3. /\ Len(accountStack') = d + 1
      /\ accountStack'[d + 1] = accountStack[d]
      /\ \A i \in 1..d : accountStack'[i] = accountStack[i]
  BY <1>1, <1>2, AppendProperties DEF Checkpoint
<1>4. /\ codeStack'[d + 1] = codeStack[d]
      /\ \A i \in 1..d : codeStack'[i] = codeStack[i]
  BY <1>1, <1>2, AppendProperties DEF Checkpoint
<1>5. /\ storageOverlays'[d + 1] = EmptyOverlay
      /\ \A i \in 1..d : storageOverlays'[i] = storageOverlays[i]
  BY <1>1, EmptyTypes, AppendProperties DEF Checkpoint
<1>6. /\ changeLevels'[d + 1] = EmptyChangeSet
      /\ \A i \in 1..d : changeLevels'[i] = changeLevels[i]
  BY <1>1, EmptyTypes, AppendProperties DEF Checkpoint
<1>7. ASSUME NEW i \in 1..d PROVE LevelState(i)' = LevelState(i)
  <2>1. i \in Nat /\ \A j \in 1..i : j \in 1..d
    OBVIOUS
  <2>2. QED
    BY <1>3, <1>4, <1>5, <2>1, LevelKept
<1>8. ASSUME NEW a \in Address, NEW s \in Slot
      PROVE  StorageAtDepth(storageOverlays', a, s, d + 1) =
               StorageAtDepth(storageOverlays, a, s, d)
  <2>1. StorageAtDepth(storageOverlays', a, s, d + 1) =
          FoundIn(storageOverlays'[d + 1], a, s,
                  StorageAtDepth(storageOverlays', a, s, d))
    <3>1. d + 1 \in Nat \ {0} /\ d + 1 - 1 = d
      OBVIOUS
    <3>2. StorageAtDepth(storageOverlays', a, s, d + 1) =
            FoundIn(storageOverlays'[d + 1], a, s,
                    StorageAtDepth(storageOverlays', a, s, d + 1 - 1))
      BY <3>1, WalkStep
    <3>3. QED
      BY <3>1, <3>2
  <2>2. StorageAtDepth(storageOverlays', a, s, d) =
          StorageAtDepth(storageOverlays, a, s, d)
    BY <1>5, WalkFrame
  <2>3. QED
    BY <1>5, <2>1, <2>2 DEF FoundIn, EmptyOverlay, NothingWritten
<1>9. LevelState(d + 1)' = LevelState(d)
  BY <1>3, <1>4, <1>8 DEF LevelState
<1>10. QED
  BY <1>3, <1>6, <1>7, <1>9 DEF Depth, Checkpoint

(* A revert: the levels below the one it drops are as they were.            *)
LEMMA RevertLevels ==
  ASSUME TypeOK, Revert, NEW d \in Nat \ {0}, Depth = d + 1
  PROVE  /\ Depth' = d
         /\ UNCHANGED changeSetsSuspended
         /\ \A i \in 1..d : LevelState(i)' = LevelState(i)
         /\ \A i \in 1..d : changeLevels'[i] = changeLevels[i]
<1>1. /\ accountStack \in Seq(AccountMap) /\ Len(accountStack) = d + 1
      /\ codeStack \in Seq(CodeMap) /\ Len(codeStack) = d + 1
      /\ storageOverlays \in Seq(Overlay) /\ Len(storageOverlays) = d + 1
      /\ changeLevels \in Seq(ChangeSet) /\ Len(changeLevels) = d + 1
      /\ Depth - 1 = d /\ d \in 0..(d + 1)
  BY StackTypes
<1>2. /\ Len(accountStack') = d
      /\ \A i \in 1..d : accountStack'[i] = accountStack[i]
  BY <1>1, PrefixProperties DEF Revert
<1>3. \A i \in 1..d : codeStack'[i] = codeStack[i]
  BY <1>1, PrefixProperties DEF Revert
<1>4. \A i \in 1..d : storageOverlays'[i] = storageOverlays[i]
  BY <1>1, PrefixProperties DEF Revert
<1>5. \A i \in 1..d : changeLevels'[i] = changeLevels[i]
  BY <1>1, PrefixProperties DEF Revert
<1>6. ASSUME NEW i \in 1..d PROVE LevelState(i)' = LevelState(i)
  <2>1. i \in Nat /\ \A j \in 1..i : j \in 1..d
    OBVIOUS
  <2>2. QED
    BY <1>2, <1>3, <1>4, <2>1, LevelKept
<1>7. QED
  BY <1>2, <1>5, <1>6 DEF Depth, Revert

-----------------------------------------------------------------------------
(* The record of every open level is exact. *)

(* The property, level by level, with the level's number a constant.        *)
RecordExact(i) ==
  IF changeSetsSuspended = 0 THEN Undone(i) = LevelState(i - 1)
  ELSE changeLevels[i] = EmptyChangeSet

(* It is kept at a level that a step leaves alone, with the one below.      *)
LEMMA RecordExactKept ==
  ASSUME NEW i \in Nat, RecordExact(i), UNCHANGED changeSetsSuspended,
         LevelState(i)' = LevelState(i),
         LevelState(i - 1)' = LevelState(i - 1),
         changeLevels'[i] = changeLevels[i]
  PROVE  RecordExact(i)'
BY DEF RecordExact, Undone, Undo

LEMMA WriteRecordsUndo ==
  ASSUME TypeOK, LevelRecordsUndo, WriteStep, NEW i \in 2..Depth, RecordExact(i)
  PROVE  RecordExact(i)'
<1>1. PICK d \in Nat \ {0} : Depth = d
  BY StackTypes
<1>2. /\ Depth' = d
      /\ UNCHANGED changeSetsSuspended
      /\ \A j \in 1..(d - 1) : LevelState(j)' = LevelState(j)
      /\ \A j \in 1..(d - 1) : changeLevels'[j] = changeLevels[j]
      /\ Recording => Undone(Depth)' = Undone(Depth)
      /\ ~Recording => changeLevels' = changeLevels
  BY <1>1, WriteLevels
<1>3. i \in Nat /\ i - 1 \in 1..(d - 1) /\ LevelState(i - 1)' = LevelState(i - 1)
  BY <1>1, <1>2
<1>4. CASE i # d
  <2>1. i \in 1..(d - 1)
    BY <1>1, <1>4
  <2>2. QED
    BY <1>2, <1>3, <2>1, RecordExactKept
<1>5. CASE i = d /\ changeSetsSuspended = 0
  <2>1. Undone(Depth)' = Undone(d)'
    BY <1>2 DEF Undone
  <2>2. Undone(d)' = Undone(d)
    BY <1>1, <1>2, <1>5, <2>1 DEF Recording
  <2>3. QED
    BY <1>2, <1>3, <1>5, <2>2 DEF RecordExact
<1>6. CASE i = d /\ changeSetsSuspended # 0
  <2>1. ~Recording
    BY <1>1, <1>3, <1>6 DEF Recording
  <2>2. QED
    BY <1>2, <1>6, <2>1 DEF RecordExact
<1>7. QED
  BY <1>4, <1>5, <1>6

LEMMA CheckpointRecordsUndo ==
  ASSUME TypeOK, LevelRecordsUndo, Checkpoint, NEW i \in 2..(Depth + 1),
         i # Depth + 1 => RecordExact(i)
  PROVE  RecordExact(i)'
<1>1. PICK d \in Nat \ {0} : Depth = d
  BY StackTypes
<1>2. /\ UNCHANGED changeSetsSuspended
      /\ \A j \in 1..d : LevelState(j)' = LevelState(j)
      /\ \A j \in 1..d : changeLevels'[j] = changeLevels[j]
      /\ LevelState(d + 1)' = LevelState(d)
      /\ changeLevels'[d + 1] = EmptyChangeSet
  BY <1>1, CheckpointLevels
<1>3. CASE i # d + 1
  <2>1. i \in Nat /\ i \in 1..d /\ i - 1 \in 1..d /\ RecordExact(i)
    BY <1>1, <1>3
  <2>2. QED
    BY <1>2, <2>1, RecordExactKept
<1>4. CASE i = d + 1
  <2>1. Undo(LevelState(d), EmptyChangeSet) = LevelState(d)
    BY <1>1, UndoEmpty
  <2>2. i - 1 = d /\ LevelState(i - 1)' = LevelState(d)
    BY <1>2, <1>4
  <2>3. Undone(i)' = Undo(LevelState(i)', changeLevels'[i])
    BY DEF Undone, Undo
  <2>4. QED
    BY <1>2, <1>4, <2>1, <2>2, <2>3 DEF RecordExact
<1>5. QED
  BY <1>3, <1>4

LEMMA CommitRecordsUndo ==
  ASSUME TypeOK, LevelRecordsUndo, Commit, NEW i \in 2..(Depth - 1),
         RecordExact(i), RecordExact(i + 1)
  PROVE  RecordExact(i)'
<1>1. PICK d \in Nat \ {0} : Depth = d + 1
  <2>1. Depth - 1 \in Nat \ {0} /\ Depth = (Depth - 1) + 1
    BY StackTypes
  <2>2. QED
    BY <2>1
<1>2. /\ UNCHANGED changeSetsSuspended
      /\ \A j \in 1..(d - 1) : LevelState(j)' = LevelState(j)
      /\ \A j \in 1..(d - 1) : changeLevels'[j] = changeLevels[j]
      /\ changeSetsSuspended = 0 => Undone(d)' = Undone(d)
      /\ changeSetsSuspended # 0 =>
           changeLevels'[d] = MergeOlderWins(changeLevels[d],
                                             changeLevels[d + 1])
  BY <1>1, CommitLevels DEF Commit
<1>3. i \in Nat /\ i - 1 \in 1..(d - 1) /\ i \in 2..d
  BY <1>1
<1>4. CASE i # d
  <2>1. i \in 1..(d - 1)
    BY <1>3, <1>4
  <2>2. QED
    BY <1>2, <1>3, <2>1, RecordExactKept
<1>5. CASE i = d /\ changeSetsSuspended = 0
  <2>1. LevelState(i - 1)' = LevelState(i - 1)
    BY <1>2, <1>3
  <2>2. QED
    BY <1>2, <1>5, <2>1 DEF RecordExact
<1>6. CASE i = d /\ changeSetsSuspended # 0
  <2>1. changeLevels'[i] = MergeOlderWins(EmptyChangeSet, EmptyChangeSet)
    BY <1>2, <1>6 DEF RecordExact
  <2>2. MergeOlderWins(EmptyChangeSet, EmptyChangeSet) = EmptyChangeSet
    BY DEF MergeOlderWins, EmptyChangeSet, KeepOlder
  <2>3. QED
    BY <1>2, <1>6, <2>1, <2>2 DEF RecordExact
<1>7. QED
  BY <1>4, <1>5, <1>6

LEMMA RevertRecordsUndo ==
  ASSUME TypeOK, Revert, NEW i \in 2..(Depth - 1), RecordExact(i)
  PROVE  RecordExact(i)'
<1>1. PICK d \in Nat \ {0} : Depth = d + 1
  <2>1. Depth - 1 \in Nat \ {0} /\ Depth = (Depth - 1) + 1
    BY StackTypes
  <2>2. QED
    BY <2>1
<1>2. /\ UNCHANGED changeSetsSuspended
      /\ \A j \in 1..d : LevelState(j)' = LevelState(j)
      /\ \A j \in 1..d : changeLevels'[j] = changeLevels[j]
  BY <1>1, RevertLevels
<1>3. i \in Nat /\ i - 1 \in 1..d /\ i \in 1..d
  BY <1>1
<1>4. QED
  BY <1>2, <1>3, RecordExactKept

LEMMA NextRecordsUndo ==
  TypeOK /\ LevelRecordsUndo /\ [Next]_vars => LevelRecordsUndo'
<1> SUFFICES ASSUME TypeOK, LevelRecordsUndo, [Next]_vars
             PROVE  LevelRecordsUndo'
  OBVIOUS
<1>1. PICK d \in Nat \ {0} : Depth = d
  BY StackTypes
<1>2. \A i \in 2..d : RecordExact(i)
  BY <1>1 DEF LevelRecordsUndo, RecordExact, Undone
<1>3. SUFFICES ASSUME NEW i \in 2..Depth' PROVE RecordExact(i)'
  BY DEF LevelRecordsUndo, RecordExact, Undone
<1>4. CASE WriteStep
  <2>1. Depth' = d
    BY <1>1, <1>4, WriteLevels
  <2>2. QED
    BY <1>1, <1>2, <1>4, <2>1, WriteRecordsUndo
<1>5. CASE Checkpoint
  <2>1. Depth' = d + 1
    BY <1>1, <1>5, CheckpointLevels
  <2>2. i \in 2..(Depth + 1) /\ (i # Depth + 1 => RecordExact(i))
    BY <1>1, <1>2, <2>1
  <2>3. QED
    BY <1>5, <2>2, CheckpointRecordsUndo
<1>6. CASE Commit
  <2>1. d - 1 \in Nat \ {0} /\ d = (d - 1) + 1
    BY <1>1, <1>6 DEF Commit
  <2>2. Depth' = d - 1
    BY <1>1, <1>6, <2>1, CommitLevels
  <2>3. i \in 2..(Depth - 1) /\ RecordExact(i) /\ RecordExact(i + 1)
    BY <1>1, <1>2, <2>2
  <2>4. QED
    BY <1>6, <2>3, CommitRecordsUndo
<1>7. CASE Revert
  <2>1. d - 1 \in Nat \ {0} /\ d = (d - 1) + 1
    BY <1>1, <1>7 DEF Revert
  <2>2. Depth' = d - 1
    BY <1>1, <1>7, <2>1, RevertLevels
  <2>3. i \in 2..(Depth - 1) /\ RecordExact(i)
    BY <1>1, <1>2, <2>2
  <2>4. QED
    BY <1>7, <2>3, RevertRecordsUndo
<1>8. CASE TakeChangeSet \/ BeginPureRead \/ EndPureRead
  <2>1. Depth = 1 /\ Depth' = Depth
    BY <1>8 DEF TakeChangeSet, BeginPureRead, EndPureRead, Depth
  <2>2. QED
    BY <2>1
<1>9. CASE UNCHANGED vars
  <2>1. Depth' = d /\ RecordExact(i)
    BY <1>1, <1>2, <1>9 DEF vars, Depth
  <2>2. QED
    BY <1>9, <2>1 DEF vars, RecordExact, Undone, LevelState
<1>10. QED
  BY <1>4, <1>5, <1>6, <1>7, <1>8, <1>9 DEF Next, WriteStep, LevelStep

(* In every reachable state, for any numbers of accounts, slots, values and *)
(* levels, undoing what a level recorded gives the state of the level       *)
(* below (setAccountAt, setCodeAt, setStorageAt, clearStorageAt and         *)
(* mergeChangeLevelDown of state-manager.ts).                               *)
THEOREM RecordsExact == Spec => []LevelRecordsUndo
<1>1. Init => LevelRecordsUndo
  BY DEF Init, LevelRecordsUndo, Depth
<1>2. QED
  BY <1>1, NextRecordsUndo, TypeCorrect, PTL DEF Spec

-----------------------------------------------------------------------------
(* The refinement.  Every operation on the layered state is the same        *)
(* operation on a stack of complete world states, and what undoing the open *)
(* record gives changes only when the record is taken.                      *)

(* The mapped stack.                                                        *)
FlatStack == [i \in 1..Depth |-> LevelState(i)]

LEMMA FlatStackFacts ==
  ASSUME TypeOK, NEW d \in Nat \ {0}, Depth = d
  PROVE  /\ FlatStack = [i \in 1..d |-> LevelState(i)]
         /\ Len(FlatStack) = d
         /\ FlatStack[d] = LevelState(d)
         /\ Flat!Top = LevelState(d)
<1>1. FlatStack = [i \in 1..d |-> LevelState(i)]
  BY DEF FlatStack
<1>2. Len([i \in 1..d |-> LevelState(i)]) = d
  OBVIOUS
<1>3. Flat!Top = FlatStack[Len(FlatStack)]
  BY DEF Flat!Top, FlatStack
<1>4. QED
  BY <1>1, <1>2, <1>3

(* A write that gives the top level a new state, the baseline unchanged.    *)
LEMMA WriteRefines ==
  ASSUME TypeOK, LevelRecordsUndo, WriteStep, NEW d \in Nat \ {0}, Depth = d,
         NEW state, LevelState(d)' = state
  PROVE  Flat!Write(state)
<1>1. /\ Depth' = d
      /\ \A i \in 1..(d - 1) : LevelState(i)' = LevelState(i)
      /\ \A i \in 1..(d - 1) : changeLevels'[i] = changeLevels[i]
      /\ Recording => Undone(Depth)' = Undone(Depth)
  BY WriteLevels
<1>2. FlatStack' = [FlatStack EXCEPT ![Len(FlatStack)] = state]
  <2>1. FlatStack' = [i \in 1..d |-> LevelState(i)']
    BY <1>1 DEF FlatStack
  <2>2. FlatStack = [i \in 1..d |-> LevelState(i)] /\ Len(FlatStack) = d
    BY FlatStackFacts
  <2>3. QED
    BY <1>1, <2>1, <2>2
<1>3. Undone(1)' = Undone(1)
  <2>1. CASE d = 1
    <3>1. Undone(Depth)' = Undone(d)'
      BY <1>1 DEF Undone
    <3>2. QED
      BY <1>1, <2>1, <3>1 DEF Recording
  <2>2. CASE d # 1
    <3>1. 1 \in 1..(d - 1)
      BY <2>2
    <3>2. QED
      BY <1>1, <3>1 DEF Undone, Undo
  <2>3. QED
    BY <2>1, <2>2
<1>4. QED
  BY <1>2, <1>3 DEF Flat!Write, FlatStack, Undone

(* A state by its parts, and what writing one part of it gives.             *)
StorageView(overlays, d) ==
  [a \in Address |-> [s \in Slot |-> StorageAtDepth(overlays, a, s, d)]]

StateOf(A, C, S) == [accounts |-> A, code |-> C, storage |-> S]

LEMMA LevelSplit ==
  ASSUME NEW d
  PROVE  /\ LevelState(d) = StateOf(accountStack[d], codeStack[d],
                                    StorageView(storageOverlays, d))
         /\ LevelState(d)' = StateOf(accountStack'[d], codeStack'[d],
                                     StorageView(storageOverlays', d))
BY DEF LevelState, StorageView, StateOf

(* The writes of CheckpointedState, named, and what each gives.             *)
Put(f, a, v) == [f EXCEPT ![a] = v]

AccountWritten(state, a, v) == [state EXCEPT !.accounts[a] = v]
CodeWritten(state, a, v)    == [state EXCEPT !.code[a] = v]
StorageWritten(state, a, v) == [state EXCEPT !.storage[a] = v]
AccountDeleted(state, a, v, w) ==
  [state EXCEPT !.accounts[a] = v, !.storage[a] = w]
BothWritten(state, a, v, w) ==
  [state EXCEPT !.code[a] = v, !.accounts[a] = w]

LEMMA EntryWritten ==
  ASSUME NEW A, NEW C, NEW S, NEW a, NEW v,
         NEW state, state = StateOf(A, C, S)
  PROVE  /\ AccountWritten(state, a, v) = StateOf(Put(A, a, v), C, S)
         /\ CodeWritten(state, a, v) = StateOf(A, Put(C, a, v), S)
         /\ StorageWritten(state, a, v) = StateOf(A, C, Put(S, a, v))
<1>1. /\ state = [accounts |-> A, code |-> C, storage |-> S]
      /\ state.accounts = A /\ state.code = C /\ state.storage = S
  BY DEF StateOf
<1>2. AccountWritten(state, a, v) =
        [accounts |-> Put(A, a, v), code |-> C, storage |-> S]
  <2>1. AccountWritten(state, a, v) = [state EXCEPT !.accounts = Put(A, a, v)]
    BY <1>1 DEF AccountWritten, Put
  <2>2. QED
    BY <1>1, <2>1
<1>3. CodeWritten(state, a, v) =
        [accounts |-> A, code |-> Put(C, a, v), storage |-> S]
  <2>1. CodeWritten(state, a, v) = [state EXCEPT !.code = Put(C, a, v)]
    BY <1>1 DEF CodeWritten, Put
  <2>2. QED
    BY <1>1, <2>1
<1>4. StorageWritten(state, a, v) =
        [accounts |-> A, code |-> C, storage |-> Put(S, a, v)]
  <2>1. StorageWritten(state, a, v) = [state EXCEPT !.storage = Put(S, a, v)]
    BY <1>1 DEF StorageWritten, Put
  <2>2. QED
    BY <1>1, <2>1
<1>5. QED
  BY <1>2, <1>3, <1>4 DEF StateOf

LEMMA EntriesWritten ==
  ASSUME NEW A, NEW C, NEW S, NEW a, NEW v, NEW w,
         NEW state, state = StateOf(A, C, S)
  PROVE  /\ AccountDeleted(state, a, v, w) =
              StateOf(Put(A, a, v), C, Put(S, a, w))
         /\ BothWritten(state, a, v, w) = StateOf(Put(A, a, w), Put(C, a, v), S)
<1>1. /\ state = [accounts |-> A, code |-> C, storage |-> S]
      /\ state.accounts = A /\ state.code = C /\ state.storage = S
  BY DEF StateOf
<1>2. AccountDeleted(state, a, v, w) =
        [accounts |-> Put(A, a, v), code |-> C, storage |-> Put(S, a, w)]
  <2> DEFINE first == [state EXCEPT !.accounts = Put(A, a, v)]
  <2>1. AccountDeleted(state, a, v, w) =
          [first EXCEPT !.storage = Put(S, a, w)]
    BY <1>1 DEF AccountDeleted, Put
  <2> HIDE DEF first
  <2>2. first = [accounts |-> Put(A, a, v), code |-> C, storage |-> S]
    BY <1>1 DEF first
  <2>3. QED
    BY <2>1, <2>2
<1>3. BothWritten(state, a, v, w) =
        [accounts |-> Put(A, a, w), code |-> Put(C, a, v), storage |-> S]
  <2> DEFINE first == [state EXCEPT !.code = Put(C, a, v)]
  <2>1. BothWritten(state, a, v, w) = [first EXCEPT !.accounts = Put(A, a, w)]
    BY <1>1 DEF BothWritten, Put
  <2> HIDE DEF first
  <2>2. first = [accounts |-> A, code |-> Put(C, a, v), storage |-> S]
    BY <1>1 DEF first
  <2>3. QED
    BY <2>1, <2>2
<1>4. QED
  BY <1>2, <1>3 DEF StateOf

(* What the top level shows after a clear.                                  *)
LEMMA ClearedView ==
  ASSUME TypeOK, NEW d \in Nat \ {0}, Depth = d, NEW a \in Address,
         storageOverlays' = OverlaysAfterClear(a)
  PROVE  \A b \in Address, t \in Slot :
           StorageAtDepth(storageOverlays', b, t, d) =
             IF b = a THEN Absent ELSE StorageAtDepth(storageOverlays, b, t, d)
<1>1. storageOverlays \in Seq(Overlay) /\ d \in 1..Len(storageOverlays)
  BY StackTypes
<1>2. Tombstone(a) = (IF d > 1 THEN {a} ELSE {})
  BY DEF Tombstone
<1>3. storageOverlays' = AccountCleared(storageOverlays, d, a, Tombstone(a))
  BY DEF OverlaysAfterClear, AccountCleared
<1>4. QED
  BY <1>1, <1>2, <1>3, ClearView

LEMMA AccountStepRefines ==
  ASSUME TypeOK, LevelRecordsUndo, NEW a \in Address, AccountStep(a)
  PROVE  Flat!Next
<1>0. WriteStep
  BY DEF WriteStep
<1>1. PICK d \in Nat \ {0} : Depth = d
  BY StackTypes
<1>2. /\ accountStack \in Seq(AccountMap) /\ Len(accountStack) = d
      /\ d \in 1..Len(accountStack)
      /\ Flat!Top = LevelState(d)
  BY <1>1, StackTypes, FlatStackFacts
<1>3. ASSUME NEW acct \in Account \cup {Absent},
             accountStack'[d] = [accountStack[d] EXCEPT ![a] = acct],
             UNCHANGED <<codeStack, storageOverlays>>
      PROVE  Flat!Next
  <2>1. LevelState(d)' = AccountWritten(Flat!Top, a, acct)
    <3>1. LevelState(d)' =
            StateOf(Put(accountStack[d], a, acct), codeStack[d],
                    StorageView(storageOverlays, d))
      BY <1>3, LevelSplit DEF Put
    <3>2. Flat!Top = StateOf(accountStack[d], codeStack[d],
                             StorageView(storageOverlays, d))
      BY <1>2, LevelSplit
    <3>3. QED
      BY <3>1, <3>2, EntryWritten
  <2>2. Flat!Write(AccountWritten(Flat!Top, a, acct))
    BY <1>0, <1>1, <2>1, WriteRefines
  <2>3. Flat!WriteAccount(a)
    BY <2>2 DEF Flat!WriteAccount, AccountWritten
  <2>4. QED
    BY <2>3 DEF Flat!Next
<1>4. CASE \E acct \in Account \cup {Absent} : SetAccountAt(a, acct)
  <2>1. PICK acct \in Account \cup {Absent} : SetAccountAt(a, acct)
    BY <1>4
  <2>2. accountStack'[d] = [accountStack[d] EXCEPT ![a] = acct]
    BY <1>1, <1>2, <2>1, TopWriteFacts DEF SetAccountAt
  <2>3. QED
    BY <1>3, <2>1, <2>2 DEF SetAccountAt
<1>5. CASE \E f \in Fields : ModifyAccountFields(a, f)
  <2>1. PICK f \in Fields : ModifyAccountFields(a, f)
    BY <1>5
  <2> DEFINE acct == [AccountOrNew(a) EXCEPT !.fields = f]
  <2>2. acct \in Account
    BY AccountOrNewType DEF Account
  <2>3. accountStack' =
          [EditedThroughGetAccount(a, acct) EXCEPT ![Depth][a] = acct]
    BY <2>1 DEF ModifyAccountFields
  <2>4. UNCHANGED <<codeStack, storageOverlays>>
    BY <2>1 DEF ModifyAccountFields
  <2> HIDE DEF acct
  <2>5. accountStack'[d] = [accountStack[d] EXCEPT ![a] = acct]
    <3>1. [EditedThroughGetAccount(a, acct) EXCEPT ![Depth][a] = acct][Depth] =
            [accountStack[Depth] EXCEPT ![a] = acct]
      BY <2>2, EditedFacts
    <3>2. QED
      BY <1>1, <2>3, <3>1
  <2>6. acct \in Account \cup {Absent}
    BY <2>2
  <2>7. QED
    BY <1>3, <2>4, <2>5, <2>6
<1>6. CASE DeleteAccount(a)
  <2>1. accountStack'[d] = [accountStack[d] EXCEPT ![a] = Absent]
    BY <1>1, <1>2, <1>6, TopWriteFacts DEF DeleteAccount
  <2>2. \A b \in Address, t \in Slot :
          StorageAtDepth(storageOverlays', b, t, d) =
            IF b = a THEN Absent ELSE StorageAtDepth(storageOverlays, b, t, d)
    BY <1>1, <1>6, ClearedView DEF DeleteAccount
  <2>3. LevelState(d)' = AccountDeleted(Flat!Top, a, Absent, Flat!NoStorage)
    <3>1. StorageView(storageOverlays', d) =
            Put(StorageView(storageOverlays, d), a, Flat!NoStorage)
      BY <2>2 DEF StorageView, Put, Flat!NoStorage
    <3>2. LevelState(d)' =
            StateOf(Put(accountStack[d], a, Absent), codeStack[d],
                    Put(StorageView(storageOverlays, d), a, Flat!NoStorage))
      BY <1>6, <2>1, <3>1, LevelSplit DEF DeleteAccount, Put
    <3>3. Flat!Top = StateOf(accountStack[d], codeStack[d],
                             StorageView(storageOverlays, d))
      BY <1>2, LevelSplit
    <3>4. QED
      BY <3>2, <3>3, EntriesWritten
  <2>4. Flat!Write(AccountDeleted(Flat!Top, a, Absent, Flat!NoStorage))
    BY <1>0, <1>1, <2>3, WriteRefines
  <2>5. Flat!DeleteAccount(a)
    BY <2>4 DEF Flat!DeleteAccount, AccountDeleted
  <2>6. QED
    BY <2>5 DEF Flat!Next
<1>7. QED
  BY <1>4, <1>5, <1>6 DEF AccountStep

LEMMA CodeStepRefines ==
  ASSUME TypeOK, LevelRecordsUndo, NEW a \in Address, CodeStep(a)
  PROVE  Flat!Next
<1>0. WriteStep
  BY DEF WriteStep
<1>1. PICK d \in Nat \ {0} : Depth = d
  BY StackTypes
<1>2. /\ codeStack \in Seq(CodeMap) /\ Len(codeStack) = d
      /\ d \in 1..Len(codeStack)
      /\ Flat!Top = LevelState(d)
  BY <1>1, StackTypes, FlatStackFacts
<1>3. Flat!Top = StateOf(accountStack[d], codeStack[d],
                         StorageView(storageOverlays, d))
  BY <1>2, LevelSplit
<1>4. PICK c \in Code : SetCodeAt(a, c) \/ PutCode(a, c)
  BY DEF CodeStep
<1>5. codeStack'[d] = Put(codeStack[d], a, c)
  <2>1. codeStack' = [codeStack EXCEPT ![d][a] = c]
    BY <1>1, <1>4 DEF SetCodeAt, PutCode
  <2>2. QED
    BY <1>2, <2>1, TopWriteFacts DEF Put
<1>6. CASE SetCodeAt(a, c)
  <2>1. LevelState(d)' = CodeWritten(Flat!Top, a, c)
    <3>1. LevelState(d)' =
            StateOf(accountStack[d], Put(codeStack[d], a, c),
                    StorageView(storageOverlays, d))
      BY <1>5, <1>6, LevelSplit DEF SetCodeAt
    <3>2. QED
      BY <1>3, <3>1, EntryWritten
  <2>2. Flat!Write(CodeWritten(Flat!Top, a, c))
    BY <1>0, <1>1, <2>1, WriteRefines
  <2>3. Flat!WriteCode(a)
    BY <2>2 DEF Flat!WriteCode, CodeWritten
  <2>4. QED
    BY <2>3 DEF Flat!Next
<1>7. CASE PutCode(a, c)
  <2> DEFINE acct == [AccountOrNew(a) EXCEPT !.codeHash = c]
  <2>1. acct \in Account
    BY AccountOrNewType DEF Account
  <2>2. /\ accountStack' =
             [EditedThroughGetAccount(a, acct) EXCEPT ![Depth][a] = acct]
        /\ UNCHANGED storageOverlays
    BY <1>7 DEF PutCode
  <2> HIDE DEF acct
  <2>3. accountStack'[d] = Put(accountStack[d], a, acct)
    <3>1. [EditedThroughGetAccount(a, acct) EXCEPT ![Depth][a] = acct][Depth] =
            [accountStack[Depth] EXCEPT ![a] = acct]
      BY <2>1, EditedFacts
    <3>2. QED
      BY <1>1, <2>2, <3>1 DEF Put
  <2>4. LevelState(d)' = BothWritten(Flat!Top, a, c, acct)
    <3>1. LevelState(d)' =
            StateOf(Put(accountStack[d], a, acct), Put(codeStack[d], a, c),
                    StorageView(storageOverlays, d))
      BY <1>5, <2>2, <2>3, LevelSplit
    <3>2. QED
      BY <1>3, <3>1, EntriesWritten
  <2>5. Flat!Write(BothWritten(Flat!Top, a, c, acct))
    BY <1>0, <1>1, <2>4, WriteRefines
  <2>6. Flat!WriteCodeAndAccount(a)
    BY <2>1, <2>5 DEF Flat!WriteCodeAndAccount, BothWritten
  <2>7. QED
    BY <2>6 DEF Flat!Next
<1>8. QED
  BY <1>4, <1>6, <1>7

(* What the top level shows after one of its slots is written.              *)
LEMMA WrittenSlotView ==
  ASSUME TypeOK, NEW d \in Nat \ {0}, Depth = d, NEW a \in Address,
         NEW s \in Slot, NEW v \in SlotContent, SetStorageAt(a, s, v)
  PROVE  \A b \in Address, t \in Slot :
           StorageAtDepth(storageOverlays', b, t, d) =
             IF b = a /\ t = s THEN v ELSE StorageAtDepth(storageOverlays, b, t, d)
<1>1. /\ storageOverlays \in Seq(Overlay) /\ d \in 1..Len(storageOverlays)
      /\ storageOverlays[d] \in Overlay
  BY StackTypes
<1>2. storageOverlays' = SlotWritten(storageOverlays, d, a, s, v)
  BY DEF SetStorageAt, SlotWritten
<1>3. storageOverlays'[d].written[a][s] = v
  BY <1>1, <1>2 DEF SlotWritten, Overlay
<1>4. StorageAtDepth(storageOverlays', a, s, d) =
        FoundIn(storageOverlays'[d], a, s,
                StorageAtDepth(storageOverlays', a, s, d - 1))
  BY WalkStep
<1>5. v # Absent
  BY OverlayAssumption
<1>6. StorageAtDepth(storageOverlays', a, s, d) = v
  BY <1>3, <1>4, <1>5 DEF FoundIn
<1>7. \A b \in Address, t \in Slot :
        ~(b = a /\ t = s) => StorageAtDepth(storageOverlays', b, t, d) =
                               StorageAtDepth(storageOverlays, b, t, d)
  BY <1>1, <1>2, SlotWriteView
<1>8. QED
  BY <1>6, <1>7

LEMMA StorageStepRefines ==
  ASSUME TypeOK, LevelRecordsUndo, NEW a \in Address, StorageStep(a)
  PROVE  Flat!Next
<1>0. WriteStep
  BY DEF WriteStep
<1>1. PICK d \in Nat \ {0} : Depth = d
  BY StackTypes
<1>2. Flat!Top = LevelState(d)
  BY <1>1, FlatStackFacts
<1>3. Flat!Top = StateOf(accountStack[d], codeStack[d],
                         StorageView(storageOverlays, d))
  BY <1>2, LevelSplit
<1>4. UNCHANGED <<accountStack, codeStack>>
  BY DEF StorageStep, SetStorageAt, ClearStorageAt
<1>5. CASE \E s \in Slot, v \in SlotContent : SetStorageAt(a, s, v)
  <2>1. PICK s \in Slot, v \in SlotContent : SetStorageAt(a, s, v)
    BY <1>5
  <2> DEFINE row == Put(StorageView(storageOverlays, d)[a], s, v)
  <2>2. \A b \in Address, t \in Slot :
          StorageAtDepth(storageOverlays', b, t, d) =
            IF b = a /\ t = s THEN v
            ELSE StorageAtDepth(storageOverlays, b, t, d)
    BY <1>1, <2>1, WrittenSlotView
  <2>3. StorageView(storageOverlays', d) =
          Put(StorageView(storageOverlays, d), a, row)
    BY <2>2 DEF StorageView, Put
  <2>4. LevelState(d)' = StorageWritten(Flat!Top, a, row)
    <3> HIDE DEF row
    <3>1. LevelState(d)' =
            StateOf(accountStack[d], codeStack[d],
                    Put(StorageView(storageOverlays, d), a, row))
      BY <1>4, <2>3, LevelSplit
    <3>2. QED
      BY <1>3, <3>1, EntryWritten
  <2>5. Flat!Write(StorageWritten(Flat!Top, a, row))
    BY <1>0, <1>1, <2>4, WriteRefines
  <2>6. StorageWritten(Flat!Top, a, row) = [Flat!Top EXCEPT !.storage[a][s] = v]
    <3>1. Flat!Top.storage = StorageView(storageOverlays, d)
      BY <1>3 DEF StateOf
    <3>2. QED
      BY <3>1 DEF StorageWritten, Put
  <2>7. Flat!WriteSlot(a)
    BY <2>5, <2>6 DEF Flat!WriteSlot
  <2>8. QED
    BY <2>7 DEF Flat!Next
<1>6. CASE ClearStorageAt(a)
  <2>1. \A b \in Address, t \in Slot :
          StorageAtDepth(storageOverlays', b, t, d) =
            IF b = a THEN Absent ELSE StorageAtDepth(storageOverlays, b, t, d)
    BY <1>1, <1>6, ClearedView DEF ClearStorageAt
  <2>2. StorageView(storageOverlays', d) =
          Put(StorageView(storageOverlays, d), a, Flat!NoStorage)
    BY <2>1 DEF StorageView, Put, Flat!NoStorage
  <2>3. LevelState(d)' = StorageWritten(Flat!Top, a, Flat!NoStorage)
    <3>1. LevelState(d)' =
            StateOf(accountStack[d], codeStack[d],
                    Put(StorageView(storageOverlays, d), a, Flat!NoStorage))
      BY <1>4, <2>2, LevelSplit
    <3>2. QED
      BY <1>3, <3>1, EntryWritten
  <2>4. Flat!Write(StorageWritten(Flat!Top, a, Flat!NoStorage))
    BY <1>0, <1>1, <2>3, WriteRefines
  <2>5. Flat!ClearStorage(a)
    BY <2>4 DEF Flat!ClearStorage, StorageWritten
  <2>6. QED
    BY <2>5 DEF Flat!Next
<1>7. QED
  BY <1>5, <1>6 DEF StorageStep

-----------------------------------------------------------------------------
(* The levels. *)

(* Sequences given element by element.                                      *)
Elementwise(f, n) == f = [i \in 1..n |-> f[i]]

Agree(f, g, n) == \A i \in 1..n : g[i] = f[i]

LEMMA SequencePushed ==
  ASSUME NEW d \in Nat, NEW f, NEW g,
         Elementwise(f, d), Elementwise(g, d + 1), Agree(f, g, d)
  PROVE  g = Append(f, g[d + 1])
<1>0. /\ f = [i \in 1..d |-> f[i]]
      /\ g = [i \in 1..(d + 1) |-> g[i]]
      /\ \A i \in 1..d : g[i] = f[i]
  BY DEF Elementwise, Agree
<1> DEFINE S == {f[i] : i \in 1..d} \cup {g[d + 1]}
<1>1. f \in [1..d -> S]
  BY <1>0, Zenon
<1>2. f \in Seq(S) /\ Len(f) = d
  <2> HIDE DEF S
  <2>1. QED
    BY <1>1
<1>3. g[d + 1] \in S
  OBVIOUS
<1>4. /\ Append(f, g[d + 1]) \in Seq(S)
      /\ Len(Append(f, g[d + 1])) = d + 1
      /\ \A i \in 1..d : Append(f, g[d + 1])[i] = f[i]
      /\ Append(f, g[d + 1])[d + 1] = g[d + 1]
  <2> HIDE DEF S
  <2>1. QED
    BY <1>2, <1>3, AppendProperties
<1>5. DOMAIN Append(f, g[d + 1]) = 1..(d + 1)
  <2> HIDE DEF S
  <2>1. QED
    BY <1>4
<1>6. Append(f, g[d + 1]) = [i \in 1..(d + 1) |-> Append(f, g[d + 1])[i]]
  <2> HIDE DEF S
  <2>1. QED
    BY <1>4, <1>5
<1>7. \A i \in 1..(d + 1) : Append(f, g[d + 1])[i] = g[i]
  <2> HIDE DEF S
  <2>1. ASSUME NEW i \in 1..(d + 1) PROVE Append(f, g[d + 1])[i] = g[i]
    <3>1. CASE i = d + 1
      BY <1>4, <3>1
    <3>2. CASE i \in 1..d
      BY <1>0, <1>4, <3>2
    <3>3. i = d + 1 \/ i \in 1..d
      OBVIOUS
    <3>4. QED
      BY <3>1, <3>2, <3>3
  <2>2. QED
    BY <2>1
<1>8. QED
  BY <1>0, <1>6, <1>7

LEMMA SequencePrefix ==
  ASSUME NEW n \in Nat, NEW d \in Nat, d <= n, NEW f, NEW g,
         Elementwise(f, n), Elementwise(g, d), Agree(f, g, d)
  PROVE  g = SubSeq(f, 1, d)
<1>0. /\ f = [i \in 1..n |-> f[i]]
      /\ g = [i \in 1..d |-> g[i]]
      /\ \A i \in 1..d : g[i] = f[i]
  BY DEF Elementwise, Agree
<1> DEFINE S == {f[i] : i \in 1..n}
<1>1. f \in [1..n -> S]
  BY <1>0, Zenon
<1>2. f \in Seq(S) /\ Len(f) = n
  <2> HIDE DEF S
  <2>1. QED
    BY <1>1
<1>3. /\ SubSeq(f, 1, d) \in Seq(S)
      /\ Len(SubSeq(f, 1, d)) = d
      /\ \A i \in 1..d : SubSeq(f, 1, d)[i] = f[i]
  <2> HIDE DEF S
  <2>1. d \in 0..Len(f)
    BY <1>2
  <2>2. QED
    BY <1>2, <2>1, PrefixProperties
<1>4. SubSeq(f, 1, d) = [i \in 1..d |-> SubSeq(f, 1, d)[i]]
  <2> HIDE DEF S
  <2>1. QED
    BY <1>3
<1>5. QED
  BY <1>0, <1>3, <1>4

LEMMA CheckpointRefines ==
  ASSUME TypeOK, Checkpoint
  PROVE  Flat!Checkpoint
<1>1. PICK d \in Nat \ {0} : Depth = d
  BY StackTypes
<1>2. /\ Depth' = d + 1
      /\ \A i \in 1..d : LevelState(i)' = LevelState(i)
      /\ \A i \in 1..d : changeLevels'[i] = changeLevels[i]
      /\ LevelState(d + 1)' = LevelState(d)
  BY <1>1, CheckpointLevels
<1>3. /\ FlatStack = [i \in 1..d |-> LevelState(i)]
      /\ Flat!Top = LevelState(d)
  BY <1>1, FlatStackFacts
<1>4. FlatStack' = [i \in 1..(d + 1) |-> LevelState(i)']
  BY <1>2 DEF FlatStack
<1>5. FlatStack' = Append(FlatStack, Flat!Top)
  <2> DEFINE f == FlatStack
             g == FlatStack'
  <2>1. /\ Elementwise(f, d)
        /\ Elementwise(g, d + 1)
        /\ Agree(f, g, d)
        /\ g[d + 1] = Flat!Top
    BY <1>2, <1>3, <1>4 DEF Elementwise, Agree
  <2> HIDE DEF f, g
  <2>2. g = Append(f, g[d + 1])
    BY <2>1, SequencePushed
  <2>3. QED
    BY <2>1, <2>2 DEF f, g
<1>6. Undone(1)' = Undone(1)
  <2>1. 1 \in 1..d
    OBVIOUS
  <2>2. QED
    BY <1>2, <2>1 DEF Undone, Undo
<1>7. QED
  BY <1>5, <1>6 DEF Flat!Checkpoint, FlatStack, Undone

LEMMA CommitRefines ==
  ASSUME TypeOK, LevelRecordsUndo, Commit
  PROVE  Flat!Commit
<1>1. PICK d \in Nat \ {0} : Depth = d + 1
  <2>1. Depth - 1 \in Nat \ {0} /\ Depth = (Depth - 1) + 1
    BY StackTypes DEF Commit
  <2>2. QED
    BY <2>1
<1>2. /\ Depth' = d
      /\ LevelState(d)' = LevelState(d + 1)
      /\ \A i \in 1..(d - 1) : LevelState(i)' = LevelState(i)
      /\ \A i \in 1..(d - 1) : changeLevels'[i] = changeLevels[i]
      /\ changeSetsSuspended = 0 => Undone(d)' = Undone(d)
      /\ changeSetsSuspended # 0 => d # 1
  BY <1>1, CommitLevels
<1>3. /\ FlatStack = [i \in 1..(d + 1) |-> LevelState(i)]
      /\ Len(FlatStack) = d + 1
      /\ Flat!Top = LevelState(d + 1)
  BY <1>1, d + 1 \in Nat \ {0}, FlatStackFacts
<1>4. FlatStack' = [i \in 1..d |-> LevelState(i)']
  BY <1>2 DEF FlatStack
<1>5. FlatStack' = Append(SubSeq(FlatStack, 1, d - 1), Flat!Top)
  <2> DEFINE f == FlatStack
             g == FlatStack'
             h == [i \in 1..(d - 1) |-> FlatStack[i]]
  <2>1. /\ Elementwise(f, d + 1)
        /\ Elementwise(g, d)
        /\ Elementwise(h, d - 1)
        /\ Agree(f, h, d - 1)
        /\ Agree(h, g, d - 1)
        /\ g[d] = Flat!Top
    BY <1>2, <1>3, <1>4 DEF Elementwise, Agree
  <2>2. d - 1 \in Nat /\ d - 1 + 1 = d /\ d - 1 <= d + 1
    OBVIOUS
  <2> HIDE DEF f, g, h
  <2>3. h = SubSeq(f, 1, d - 1)
    BY <2>1, <2>2, SequencePrefix
  <2>4. g = Append(h, g[d])
    <3> DEFINE e == d - 1
    <3>1. e \in Nat /\ e + 1 = d
      OBVIOUS
    <3>2. Elementwise(h, e) /\ Elementwise(g, e + 1) /\ Agree(h, g, e)
      BY <2>1, <3>1
    <3> HIDE DEF e
    <3>3. g = Append(h, g[e + 1])
      BY <3>1, <3>2, SequencePushed
    <3>4. QED
      BY <3>1, <3>3
  <2>5. QED
    BY <2>1, <2>3, <2>4 DEF f, g
<1>6. Undone(1)' = Undone(1)
  <2>1. CASE d = 1
    <3>1. changeSetsSuspended = 0
      BY <1>2, <2>1
    <3>2. QED
      BY <1>2, <2>1, <3>1
  <2>2. CASE d # 1
    <3>1. 1 \in 1..(d - 1)
      BY <2>2
    <3>2. QED
      BY <1>2, <3>1 DEF Undone, Undo
  <2>3. QED
    BY <2>1, <2>2
<1>7. Len(FlatStack) > 1 /\ Len(FlatStack) - 2 = d - 1
  BY <1>3
<1>8. QED
  BY <1>5, <1>6, <1>7 DEF Flat!Commit, FlatStack, Undone

LEMMA RevertRefines ==
  ASSUME TypeOK, Revert
  PROVE  Flat!Revert
<1>1. PICK d \in Nat \ {0} : Depth = d + 1
  <2>1. Depth - 1 \in Nat \ {0} /\ Depth = (Depth - 1) + 1
    BY StackTypes DEF Revert
  <2>2. QED
    BY <2>1
<1>2. /\ Depth' = d
      /\ \A i \in 1..d : LevelState(i)' = LevelState(i)
      /\ \A i \in 1..d : changeLevels'[i] = changeLevels[i]
  BY <1>1, RevertLevels
<1>3. /\ FlatStack = [i \in 1..(d + 1) |-> LevelState(i)]
      /\ Len(FlatStack) = d + 1
  BY <1>1, d + 1 \in Nat \ {0}, FlatStackFacts
<1>4. FlatStack' = [i \in 1..d |-> LevelState(i)']
  BY <1>2 DEF FlatStack
<1>5. FlatStack' = SubSeq(FlatStack, 1, d)
  <2> DEFINE f == FlatStack
             g == FlatStack'
             n == d + 1
  <2>1. Elementwise(f, n) /\ Elementwise(g, d) /\ Agree(f, g, d)
    BY <1>2, <1>3, <1>4 DEF Elementwise, Agree
  <2>2. n \in Nat /\ d \in Nat /\ d <= n
    OBVIOUS
  <2> HIDE DEF f, g, n
  <2>3. g = SubSeq(f, 1, d)
    BY <2>1, <2>2, SequencePrefix
  <2>4. QED
    BY <2>3 DEF f, g
<1>6. Undone(1)' = Undone(1)
  <2>1. 1 \in 1..d
    OBVIOUS
  <2>2. QED
    BY <1>2, <2>1 DEF Undone, Undo
<1>7. Len(FlatStack) > 1 /\ Len(FlatStack) - 1 = d
  BY <1>3
<1>8. QED
  BY <1>5, <1>6, <1>7 DEF Flat!Revert, FlatStack, Undone

LEMMA TakeChangeSetRefines ==
  ASSUME TypeOK, TakeChangeSet
  PROVE  Flat!TakeChangeSet
<1>1. Depth = 1 /\ Depth' = 1
  BY DEF TakeChangeSet, Depth
<1>2. Len(FlatStack) = 1 /\ Flat!Top = LevelState(1)
  BY <1>1, FlatStackFacts
<1>3. FlatStack' = FlatStack
  BY <1>1 DEF TakeChangeSet, FlatStack, LevelState
<1>4. Undone(1)' = LevelState(1)
  <2>1. Undo(LevelState(1), EmptyChangeSet) = LevelState(1)
    BY <1>1, UndoEmpty
  <2>2. LevelState(1)' = LevelState(1) /\ changeLevels'[1] = EmptyChangeSet
    BY DEF TakeChangeSet, LevelState
  <2>3. Undone(1)' = Undo(LevelState(1)', changeLevels'[1])
    BY DEF Undone, Undo
  <2>4. QED
    BY <2>1, <2>2, <2>3
<1>5. QED
  BY <1>2, <1>3, <1>4 DEF Flat!TakeChangeSet, FlatStack, Undone

(* Every other step is a stutter of the flat state.                         *)
LEMMA StutterRefines ==
  ASSUME BeginPureRead \/ EndPureRead \/ UNCHANGED vars
  PROVE  UNCHANGED Flat!vars
BY DEF BeginPureRead, EndPureRead, vars, Flat!vars, Depth, LevelState

LEMMA InitRefines == Init => Flat!Init
<1> SUFFICES ASSUME Init PROVE Flat!Init
  OBVIOUS
<1>1. Depth = 1
  BY DEF Init, Depth
<1>2. TypeOK
  BY InitTypeOK
<1>3. LevelState(1) = Flat!EmptyState
  <2>1. ASSUME NEW a \in Address, NEW s \in Slot
        PROVE  StorageAtDepth(storageOverlays, a, s, 1) = Absent
    <3>1. StorageAtDepth(storageOverlays, a, s, 1) =
            FoundIn(storageOverlays[1], a, s,
                    StorageAtDepth(storageOverlays, a, s, 1 - 1))
      BY WalkStep
    <3>2. StorageAtDepth(storageOverlays, a, s, 1 - 1) = Absent
      BY WalkBottom
    <3>3. storageOverlays[1] = EmptyOverlay
      BY DEF Init
    <3>4. QED
      BY <3>1, <3>2, <3>3 DEF FoundIn, EmptyOverlay, NothingWritten
  <2>2. QED
    BY <2>1 DEF Init, LevelState, Flat!EmptyState, Flat!NoStorage
<1>4. [i \in 1..Depth |-> LevelState(i)] = <<Flat!EmptyState>>
  BY <1>1, <1>3
<1>5. Undo(LevelState(1), changeLevels[1]) = Flat!EmptyState
  <2>1. changeLevels[1] = EmptyChangeSet
    BY DEF Init
  <2>2. Undo(LevelState(1), EmptyChangeSet) = LevelState(1)
    BY <1>1, <1>2, UndoEmpty
  <2>3. QED
    BY <1>3, <2>1, <2>2
<1>6. QED
  BY <1>4, <1>5 DEF Flat!Init

LEMMA NextRefines ==
  TypeOK /\ LevelRecordsUndo /\ [Next]_vars => [Flat!Next]_(Flat!vars)
<1> SUFFICES ASSUME TypeOK, LevelRecordsUndo, [Next]_vars
             PROVE  Flat!Next \/ UNCHANGED Flat!vars
  OBVIOUS
<1>1. CASE \E a \in Address : AccountStep(a) \/ CodeStep(a) \/ StorageStep(a)
  BY <1>1, AccountStepRefines, CodeStepRefines, StorageStepRefines
<1>2. CASE Checkpoint
  BY <1>2, CheckpointRefines DEF Flat!Next
<1>3. CASE Commit
  BY <1>3, CommitRefines DEF Flat!Next
<1>4. CASE Revert
  BY <1>4, RevertRefines DEF Flat!Next
<1>5. CASE TakeChangeSet
  BY <1>5, TakeChangeSetRefines DEF Flat!Next
<1>6. CASE BeginPureRead \/ EndPureRead \/ UNCHANGED vars
  BY <1>6, StutterRefines
<1>7. QED
  BY <1>1, <1>2, <1>3, <1>4, <1>5, <1>6 DEF Next, LevelStep

(* For any numbers of accounts, slots, values and levels: the layered state *)
(* manager behaves as a stack of complete states, each checkpoint a copy,   *)
(* and undoing the open record always gives the state at the last           *)
(* takeChangeSet (state-manager.ts; what the undo log of node.ts and the    *)
(* derived trie rely on).                                                   *)
THEOREM OverlayRefinesCheckpointed == Spec => ImplementsCheckpointedState
<1>1. Init => Flat!Init
  BY InitRefines
<1>2. TypeOK /\ LevelRecordsUndo /\ [Next]_vars => [Flat!Next]_(Flat!vars)
  BY NextRefines
<1>3. QED
  BY <1>1, <1>2, TypeCorrect, RecordsExact, PTL
     DEF Spec, ImplementsCheckpointedState, Flat!Spec
=============================================================================
