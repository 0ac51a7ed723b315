-------------------------- MODULE DerivedDataProofs --------------------------
(***************************************************************************)
(* The data kept beside the flat state follow it, and give its past back: the *)
(* tries of the state root (module DerivedTrie), the code index of the revm  *)
(* engine (RevmStore), the dump a node is loaded from (DumpLoad), and the     *)
(* records a request at an earlier block is answered from (HistoricalCall),   *)
(* all on the lemmas of OverlayStateProofs.                                  *)
(***************************************************************************)
EXTENDS DerivedTrie, RevmStore, HistoricalCall, DumpLoad, OverlayStateProofs

-----------------------------------------------------------------------------
(* THE STATE ROOT.                                                          *)
(* Whenever the root is asked for,                                          *)
(* rereading the keys the open record names turns the trie of the last root *)
(* into the one built from the whole flat state.                            *)
(*                                                                         *)
(* The record names enough (module OverlayStateProofs: an unnamed key      *)
(* still has the value it had when the record was last taken); what is left *)
(* is that it keeps naming a key once it does, through every commit and     *)
(* revert, and that an account it only marks as cleared has no storage.     *)

(* Everything the older record names, the newer one names.                  *)
NamesKept(older, newer) ==
  /\ \A a \in Address :
       /\ newer.accounts[a] = NotRecorded => older.accounts[a] = NotRecorded
       /\ newer.code[a] = NotRecorded => older.code[a] = NotRecorded
       /\ \A s \in Slot : newer.storage[a][s] = NotRecorded =>
                            older.storage[a][s] = NotRecorded
  /\ older.storageCleared \subseteq newer.storageCleared

(* A slot of a cleared account that a level's record does not name holds    *)
(* nothing.                                                                 *)
ClearsExplained(i) ==
  \A a \in changeLevels[i].storageCleared \cap Address, s \in Slot :
    changeLevels[i].storage[a][s] = NotRecorded =>
      LevelState(i).storage[a][s] = Absent

(* What the open record does not name is in the tries as it is in the state. *)
UnnamedInTries ==
  \A a \in Address, s \in Slot :
    /\ changeLevels[1].storage[a][s] = NotRecorded
    /\ a \notin changeLevels[1].storageCleared
    => storageTries[a][s] = SlotNow(a, s)

UnnamedInAccounts ==
  \A a \in Address :
    a \notin Dirty(changeLevels[1]) => accountTrie[a] = Derived(a, BuiltTries)

AllClearsExplained == \A i \in 1..Depth : ClearsExplained(i)

TrieInv ==
  /\ TypeOK
  /\ LevelRecordsUndo
  /\ TrieTypeOK
  /\ AllClearsExplained
  /\ UnnamedInTries
  /\ UnnamedInAccounts

-----------------------------------------------------------------------------
(* Names are never lost by a write. *)

(* Keeping names is transitive.                                             *)
LEMMA NamesKeptTwice ==
  ASSUME NEW r1, NEW r2, NEW r3, NamesKept(r1, r2), NamesKept(r2, r3)
  PROVE  NamesKept(r1, r3)
BY DEF NamesKept

(* A prior is kept, and a record that names a key still names it.           *)
LEMMA NamedStays ==
  ASSUME NEW recorded, NEW prior
  PROVE  KeepOlder(recorded, prior) = NotRecorded => recorded = NotRecorded
BY DEF KeepOlder

(* What each recording operator does to the names of the top record.        *)
LEMMA AccountPriorNames ==
  ASSUME TypeOK, NEW levels \in Seq(ChangeSet), Len(levels) = Depth,
         NEW accounts, NEW a \in Address
  PROVE  LET L == RecordAccountPrior(levels, accounts, a)
         IN  /\ NamesKept(levels[Depth], L[Depth])
             /\ L[Depth].storageCleared = levels[Depth].storageCleared
<1> DEFINE L == RecordAccountPrior(levels, accounts, a)
<1>1. /\ ~Recording => L = levels
      /\ L[Depth].code = levels[Depth].code
      /\ L[Depth].storage = levels[Depth].storage
      /\ L[Depth].storageCleared = levels[Depth].storageCleared
      /\ Recording =>
           \A b \in Address :
             L[Depth].accounts[b] =
               IF b = a THEN KeepOlder(levels[Depth].accounts[a],
                                       accounts[PriorIndex][a])
               ELSE levels[Depth].accounts[b]
  BY RecordAccountPriorFacts
<1> HIDE DEF L
<1>2. \A b \in Address : L[Depth].accounts[b] = NotRecorded =>
                           levels[Depth].accounts[b] = NotRecorded
  BY <1>1, NamedStays
<1>3. QED
  BY <1>1, <1>2 DEF NamesKept, L

LEMMA CodePriorNames ==
  ASSUME TypeOK, NEW levels \in Seq(ChangeSet), Len(levels) = Depth,
         NEW a \in Address
  PROVE  LET L == RecordCodePrior(levels, a)
         IN  /\ NamesKept(levels[Depth], L[Depth])
             /\ L[Depth].storageCleared = levels[Depth].storageCleared
<1> DEFINE L == RecordCodePrior(levels, a)
<1>1. /\ ~Recording => L = levels
      /\ L[Depth].accounts = levels[Depth].accounts
      /\ L[Depth].storage = levels[Depth].storage
      /\ L[Depth].storageCleared = levels[Depth].storageCleared
      /\ Recording =>
           \A b \in Address :
             L[Depth].code[b] =
               IF b = a THEN KeepOlder(levels[Depth].code[a],
                                       codeStack[PriorIndex][a])
               ELSE levels[Depth].code[b]
  BY RecordCodePriorFacts
<1> HIDE DEF L
<1>2. \A b \in Address : L[Depth].code[b] = NotRecorded =>
                           levels[Depth].code[b] = NotRecorded
  BY <1>1, NamedStays
<1>3. QED
  BY <1>1, <1>2 DEF NamesKept, L

LEMMA SlotPriorNames ==
  ASSUME TypeOK, NEW levels \in Seq(ChangeSet), Len(levels) = Depth,
         NEW a \in Address, NEW s \in Slot
  PROVE  LET L == RecordSlotPrior(levels, a, s)
         IN  /\ NamesKept(levels[Depth], L[Depth])
             /\ L[Depth].storageCleared = levels[Depth].storageCleared
<1> DEFINE L == RecordSlotPrior(levels, a, s)
           prior == StorageAtDepth(storageOverlays, a, s, PriorIndex)
<1>1. /\ ~Recording => L = levels
      /\ L[Depth].accounts = levels[Depth].accounts
      /\ L[Depth].code = levels[Depth].code
      /\ L[Depth].storageCleared = levels[Depth].storageCleared
      /\ Recording =>
           \A b \in Address, t \in Slot :
             L[Depth].storage[b][t] =
               IF b = a /\ t = s THEN KeepOlder(levels[Depth].storage[a][s], prior)
               ELSE levels[Depth].storage[b][t]
  BY RecordSlotPriorFacts
<1> HIDE DEF L, prior
<1>2. \A b \in Address, t \in Slot :
        L[Depth].storage[b][t] = NotRecorded =>
          levels[Depth].storage[b][t] = NotRecorded
  BY <1>1, NamedStays
<1>3. QED
  BY <1>1, <1>2 DEF NamesKept, L

LEMMA ClearPriorNames ==
  ASSUME TypeOK, NEW levels \in Seq(ChangeSet), Len(levels) = Depth,
         NEW a \in Address
  PROVE  LET L == RecordClearPrior(levels, a)
         IN  /\ NamesKept(levels[Depth], L[Depth])
             /\ L[Depth].storageCleared \subseteq
                  levels[Depth].storageCleared \cup {a}
<1> DEFINE L == RecordClearPrior(levels, a)
<1>1. /\ ~Recording => L = levels
      /\ L[Depth].accounts = levels[Depth].accounts
      /\ L[Depth].code = levels[Depth].code
      /\ Recording => L[Depth].storageCleared =
                        levels[Depth].storageCleared \cup {a}
      /\ Recording =>
           \A b \in Address, t \in Slot :
             L[Depth].storage[b][t] =
               IF b = a THEN KeepOlder(levels[Depth].storage[a][t],
                                       ClearPrior(a, t))
               ELSE levels[Depth].storage[b][t]
  BY RecordClearPriorFacts
<1> HIDE DEF L
<1>2. \A b \in Address, t \in Slot :
        L[Depth].storage[b][t] = NotRecorded =>
          levels[Depth].storage[b][t] = NotRecorded
  BY <1>1, NamedStays
<1>3. /\ levels[Depth].storageCleared \subseteq L[Depth].storageCleared
      /\ L[Depth].storageCleared \subseteq levels[Depth].storageCleared \cup {a}
  BY <1>1
<1>4. QED
  BY <1>1, <1>2, <1>3 DEF NamesKept, L

(* After a write the top record names what it named before, and an account   *)
(* newly marked as cleared shows no storage.                                *)
TopNamesKept ==
  /\ NamesKept(changeLevels[Depth], changeLevels'[Depth])
  /\ \A b \in Address, t \in Slot :
       b \in changeLevels'[Depth].storageCleared =>
         \/ b \in changeLevels[Depth].storageCleared
         \/ StorageAtDepth(storageOverlays', b, t, Depth) = Absent

(* The storage after a clear.                                               *)
LEMMA ClearedShowsNothing ==
  ASSUME TypeOK, NEW a \in Address, NEW t \in Slot,
         storageOverlays' = OverlaysAfterClear(a)
  PROVE  StorageAtDepth(storageOverlays', a, t, Depth) = Absent
<1>1. /\ storageOverlays \in Seq(Overlay)
      /\ Depth \in 1..Len(storageOverlays)
  BY StackTypes
<1>2. Tombstone(a) = (IF Depth > 1 THEN {a} ELSE {})
  BY DEF Tombstone
<1>3. storageOverlays' =
        AccountCleared(storageOverlays, Depth, a, Tombstone(a))
  BY DEF OverlaysAfterClear, AccountCleared
<1>4. QED
  BY <1>1, <1>2, <1>3, ClearView

LEMMA AccountStepNames ==
  ASSUME TypeOK, NEW a \in Address, AccountStep(a)
  PROVE  TopNamesKept
<1>1. changeLevels \in Seq(ChangeSet) /\ Len(changeLevels) = Depth
  BY StackTypes
<1>2. ASSUME NEW accounts,
             changeLevels' = RecordAccountPrior(changeLevels, accounts, a)
      PROVE  TopNamesKept
  BY <1>1, <1>2, AccountPriorNames DEF TopNamesKept
<1>3. CASE DeleteAccount(a)
  <2> DEFINE levels == RecordAccountPrior(changeLevels, accountStack, a)
  <2>1. levels \in Seq(ChangeSet) /\ Len(levels) = Depth
    BY <1>1, StackTypes, RecordAccountPriorType
  <2>2. /\ NamesKept(changeLevels[Depth], levels[Depth])
        /\ levels[Depth].storageCleared = changeLevels[Depth].storageCleared
    BY <1>1, AccountPriorNames
  <2>3. changeLevels' = RecordClearPrior(levels, a)
    BY <1>3 DEF DeleteAccount
  <2> HIDE DEF levels
  <2>4. /\ NamesKept(levels[Depth], changeLevels'[Depth])
        /\ changeLevels'[Depth].storageCleared \subseteq
             levels[Depth].storageCleared \cup {a}
    BY <2>1, <2>3, ClearPriorNames
  <2>5. \A t \in Slot : StorageAtDepth(storageOverlays', a, t, Depth) = Absent
    BY <1>3, ClearedShowsNothing DEF DeleteAccount
  <2>6. NamesKept(changeLevels[Depth], changeLevels'[Depth])
    BY <2>2, <2>4, NamesKeptTwice
  <2>7. QED
    BY <2>2, <2>4, <2>5, <2>6 DEF TopNamesKept
<1>4. QED
  BY <1>2, <1>3 DEF AccountStep, SetAccountAt, ModifyAccountFields

LEMMA CodeStepNames ==
  ASSUME TypeOK, NEW a \in Address, CodeStep(a)
  PROVE  TopNamesKept
<1>1. changeLevels \in Seq(ChangeSet) /\ Len(changeLevels) = Depth
  BY StackTypes
<1>2. PICK c \in Code : SetCodeAt(a, c) \/ PutCode(a, c)
  BY DEF CodeStep
<1> DEFINE levels == RecordCodePrior(changeLevels, a)
<1>3. levels \in Seq(ChangeSet) /\ Len(levels) = Depth
  BY <1>1, RecordCodePriorType
<1>4. /\ NamesKept(changeLevels[Depth], levels[Depth])
      /\ levels[Depth].storageCleared = changeLevels[Depth].storageCleared
  BY <1>1, CodePriorNames
<1>5. CASE SetCodeAt(a, c)
  BY <1>4, <1>5 DEF SetCodeAt, TopNamesKept
<1>6. CASE PutCode(a, c)
  <2>1. PICK accounts : changeLevels' = RecordAccountPrior(levels, accounts, a)
    BY <1>6 DEF PutCode
  <2> HIDE DEF levels
  <2>2. /\ NamesKept(levels[Depth], changeLevels'[Depth])
        /\ changeLevels'[Depth].storageCleared = levels[Depth].storageCleared
    BY <1>3, <2>1, AccountPriorNames
  <2>3. NamesKept(changeLevels[Depth], changeLevels'[Depth])
    BY <1>4, <2>2, NamesKeptTwice
  <2>4. QED
    BY <1>4, <2>2, <2>3 DEF TopNamesKept
<1>7. QED
  BY <1>2, <1>5, <1>6

LEMMA StorageStepNames ==
  ASSUME TypeOK, NEW a \in Address, StorageStep(a)
  PROVE  TopNamesKept
<1>1. changeLevels \in Seq(ChangeSet) /\ Len(changeLevels) = Depth
  BY StackTypes
<1>2. ASSUME NEW s \in Slot, NEW v \in SlotContent, SetStorageAt(a, s, v)
      PROVE  TopNamesKept
  <2>1. changeLevels' = RecordSlotPrior(changeLevels, a, s)
    BY <1>2 DEF SetStorageAt
  <2>2. /\ NamesKept(changeLevels[Depth], changeLevels'[Depth])
        /\ changeLevels'[Depth].storageCleared = changeLevels[Depth].storageCleared
    BY <1>1, <2>1, SlotPriorNames
  <2>3. QED
    BY <2>2 DEF TopNamesKept
<1>3. CASE ClearStorageAt(a)
  <2>1. /\ changeLevels' = RecordClearPrior(changeLevels, a)
        /\ storageOverlays' = OverlaysAfterClear(a)
    BY <1>3 DEF ClearStorageAt
  <2>2. /\ NamesKept(changeLevels[Depth], changeLevels'[Depth])
        /\ changeLevels'[Depth].storageCleared \subseteq
             changeLevels[Depth].storageCleared \cup {a}
    BY <1>1, <2>1, ClearPriorNames
  <2>3. \A t \in Slot : StorageAtDepth(storageOverlays', a, t, Depth) = Absent
    BY <2>1, ClearedShowsNothing
  <2>4. QED
    BY <2>2, <2>3 DEF TopNamesKept
<1>4. QED
  BY <1>2, <1>3 DEF StorageStep

LEMMA WriteNames ==
  ASSUME TypeOK, WriteStep
  PROVE  TopNamesKept
BY AccountStepNames, CodeStepNames, StorageStepNames DEF WriteStep

-----------------------------------------------------------------------------
(* Unnamed keys. *)

(* What a level shows of a slot.                                            *)
LEMMA SlotSeen ==
  ASSUME NEW i, NEW a \in Address, NEW s \in Slot
  PROVE  /\ LevelState(i).storage[a][s] = StorageAtDepth(storageOverlays, a, s, i)
         /\ LevelState(i)'.storage[a][s] =
              StorageAtDepth(storageOverlays', a, s, i)
         /\ LevelState(i).accounts = accountStack[i]
         /\ LevelState(i)'.accounts = accountStack'[i]
BY DEF LevelState

(* Undoing a record leaves the keys it does not name alone.                 *)
LEMMA UnnamedUndone ==
  ASSUME NEW state, NEW changes, NEW a \in Address
  PROVE  LET U == Undo(state, changes)
         IN  /\ changes.accounts[a] = NotRecorded =>
                  U.accounts[a] = state.accounts[a]
             /\ \A s \in Slot : changes.storage[a][s] = NotRecorded =>
                                  U.storage[a][s] = state.storage[a][s]
BY DEF Undo, KeepOlder

(* A step that keeps the names and the undone state of a record changes no   *)
(* key that is unnamed after it.                                            *)
LEMMA UnnamedUnchanged ==
  ASSUME NEW s1, NEW c1, NEW s2, NEW c2, NamesKept(c1, c2),
         Undo(s2, c2) = Undo(s1, c1), NEW a \in Address
  PROVE  /\ c2.accounts[a] = NotRecorded => s2.accounts[a] = s1.accounts[a]
         /\ \A s \in Slot : c2.storage[a][s] = NotRecorded =>
                              s2.storage[a][s] = s1.storage[a][s]
<1> DEFINE U == Undo(s1, c1)
<1>1. /\ c1.accounts[a] = NotRecorded => U.accounts[a] = s1.accounts[a]
      /\ \A s \in Slot : c1.storage[a][s] = NotRecorded =>
                           U.storage[a][s] = s1.storage[a][s]
  BY UnnamedUndone
<1>2. /\ c2.accounts[a] = NotRecorded => U.accounts[a] = s2.accounts[a]
      /\ \A s \in Slot : c2.storage[a][s] = NotRecorded =>
                           U.storage[a][s] = s2.storage[a][s]
  BY UnnamedUndone
<1> HIDE DEF U
<1>3. QED
  BY <1>1, <1>2 DEF NamesKept

-----------------------------------------------------------------------------
(* Cleared accounts, level by level. *)

(* Nothing is cleared in a record that names nothing.                       *)
LEMMA EmptyClearsNothing ==
  ASSUME NEW i, changeLevels[i] = EmptyChangeSet
  PROVE  ClearsExplained(i)
BY DEF ClearsExplained, EmptyChangeSet

(* A level that a step leaves alone.                                        *)
LEMMA ClearsUntouched ==
  ASSUME NEW i, ClearsExplained(i), LevelState(i)' = LevelState(i),
         changeLevels'[i] = changeLevels[i]
  PROVE  ClearsExplained(i)'
<1>1. \A a \in changeLevels'[i].storageCleared \cap Address, s \in Slot :
        changeLevels'[i].storage[a][s] = NotRecorded =>
          LevelState(i)'.storage[a][s] = Absent
  BY DEF ClearsExplained
<1>2. QED
  BY <1>1 DEF ClearsExplained

LEMMA WriteKeepsClears ==
  ASSUME TypeOK, LevelRecordsUndo, AllClearsExplained, WriteStep
  PROVE  AllClearsExplained'
<1>1. PICK d \in Nat \ {0} : Depth = d
  BY StackTypes
<1>2. /\ Depth' = d
      /\ UNCHANGED changeSetsSuspended
      /\ \A i \in 1..(d - 1) : LevelState(i)' = LevelState(i)
      /\ \A i \in 1..(d - 1) : changeLevels'[i] = changeLevels[i]
      /\ Recording => Undone(d)' = Undone(d)
      /\ ~Recording => changeLevels' = changeLevels
  BY <1>1, WriteLevels
<1>3. \A i \in 1..d : ClearsExplained(i)
  BY <1>1 DEF AllClearsExplained
<1>4. \A i \in 1..(d - 1) : ClearsExplained(i)'
  BY <1>2, <1>3, ClearsUntouched
<1>5. CASE Recording
  <2>1. /\ NamesKept(changeLevels[d], changeLevels'[d])
        /\ \A b \in Address, t \in Slot :
             b \in changeLevels'[d].storageCleared =>
               \/ b \in changeLevels[d].storageCleared
               \/ StorageAtDepth(storageOverlays', b, t, d) = Absent
    BY <1>1, WriteNames DEF TopNamesKept
  <2>2. Undo(LevelState(d)', changeLevels'[d]) =
          Undo(LevelState(d), changeLevels[d])
    BY <1>2, <1>5 DEF Undone, Undo
  <2>3. ASSUME NEW a \in changeLevels'[d].storageCleared \cap Address,
               NEW s \in Slot, changeLevels'[d].storage[a][s] = NotRecorded
        PROVE  LevelState(d)'.storage[a][s] = Absent
    <3>1. CASE a \in changeLevels[d].storageCleared
      <4>1. changeLevels[d].storage[a][s] = NotRecorded
        BY <2>1, <2>3 DEF NamesKept
      <4>2. LevelState(d).storage[a][s] = Absent
        BY <1>3, <3>1, <4>1 DEF ClearsExplained
      <4>3. LevelState(d)'.storage[a][s] = LevelState(d).storage[a][s]
        BY <2>1, <2>2, <2>3, UnnamedUnchanged
      <4>4. QED
        BY <4>2, <4>3
    <3>2. CASE StorageAtDepth(storageOverlays', a, s, d) = Absent
      BY <3>2, SlotSeen
    <3>3. QED
      BY <2>1, <2>3, <3>1, <3>2
  <2>4. ClearsExplained(d)'
    BY <2>3 DEF ClearsExplained
  <2>5. QED
    BY <1>2, <1>4, <2>4 DEF AllClearsExplained
<1>6. CASE ~Recording
  <2>1. d \in 2..Depth /\ changeSetsSuspended # 0
    BY <1>1, <1>6 DEF Recording
  <2>2. changeLevels'[d] = EmptyChangeSet
    BY <1>2, <1>6, <2>1 DEF LevelRecordsUndo
  <2>3. ClearsExplained(d)'
    BY <2>2 DEF ClearsExplained, EmptyChangeSet
  <2>4. QED
    BY <1>2, <1>4, <2>3 DEF AllClearsExplained
<1>7. QED
  BY <1>5, <1>6

(* What the merge of two records names and marks as cleared.                *)
LEMMA MergedNames ==
  ASSUME NEW older, NEW newer
  PROVE  LET m == MergeOlderWins(older, newer)
         IN  /\ NamesKept(older, m)
             /\ m.storageCleared = older.storageCleared \cup newer.storageCleared
             /\ \A a \in Address, s \in Slot :
                  m.storage[a][s] = NotRecorded =>
                    /\ older.storage[a][s] = NotRecorded
                    /\ newer.storage[a][s] = NotRecorded
BY DEF MergeOlderWins, KeepOlder, NamesKept

LEMMA CommitKeepsClears ==
  ASSUME TypeOK, LevelRecordsUndo, AllClearsExplained, Commit,
         NEW d \in Nat \ {0}, Depth = d + 1
  PROVE  AllClearsExplained'
<1>1. /\ Depth' = d
      /\ LevelState(d)' = LevelState(d + 1)
      /\ \A i \in 1..(d - 1) : LevelState(i)' = LevelState(i)
      /\ \A i \in 1..(d - 1) : changeLevels'[i] = changeLevels[i]
      /\ changeSetsSuspended # 0 => d # 1
  BY CommitLevels
<1>2. changeLevels'[d] = MergeOlderWins(changeLevels[d], changeLevels[d + 1])
  BY CommitEffect
<1>3. \A i \in 1..(d + 1) : ClearsExplained(i)
  BY DEF AllClearsExplained
<1>4. \A i \in 1..(d - 1) : ClearsExplained(i)'
  BY <1>1, <1>3, ClearsUntouched
<1> DEFINE e == d + 1
<1>5. /\ d \in 1..e /\ e \in 1..e /\ e \in 2..Depth /\ e - 1 = d
      /\ d # 1 => d \in 2..Depth
  OBVIOUS
<1>6. /\ LevelState(d)' = LevelState(e)
      /\ changeLevels'[d] = MergeOlderWins(changeLevels[d], changeLevels[e])
      /\ ClearsExplained(d) /\ ClearsExplained(e)
  BY <1>1, <1>2, <1>3, <1>5
<1> HIDE DEF e
<1>7. CASE changeSetsSuspended = 0
  <2>1. Undo(LevelState(e), changeLevels[e]) = LevelState(d)
    BY <1>5, <1>7 DEF LevelRecordsUndo
  <2>2. ASSUME NEW a \in changeLevels'[d].storageCleared \cap Address,
               NEW s \in Slot, changeLevels'[d].storage[a][s] = NotRecorded
        PROVE  LevelState(e).storage[a][s] = Absent
    <3>1. /\ a \in changeLevels[d].storageCleared \/
             a \in changeLevels[e].storageCleared
          /\ changeLevels[d].storage[a][s] = NotRecorded
          /\ changeLevels[e].storage[a][s] = NotRecorded
      BY <1>6, <2>2, MergedNames
    <3>2. LevelState(d).storage[a][s] = LevelState(e).storage[a][s]
      BY <2>1, <3>1, UnnamedUndone
    <3>3. QED
      BY <1>6, <3>1, <3>2 DEF ClearsExplained
  <2>3. ClearsExplained(d)'
    BY <1>6, <2>2 DEF ClearsExplained
  <2>4. QED
    BY <1>1, <1>4, <2>3 DEF AllClearsExplained
<1>8. CASE changeSetsSuspended # 0
  <2>1. changeLevels[d] = EmptyChangeSet /\ changeLevels[e] = EmptyChangeSet
    BY <1>1, <1>5, <1>8 DEF LevelRecordsUndo
  <2>2. changeLevels'[d].storageCleared = {}
    BY <1>6, <2>1, MergedNames DEF EmptyChangeSet
  <2>3. ClearsExplained(d)'
    BY <2>2 DEF ClearsExplained
  <2>4. QED
    BY <1>1, <1>4, <2>3 DEF AllClearsExplained
<1>9. QED
  BY <1>7, <1>8

LEMMA LevelStepKeepsClears ==
  ASSUME TypeOK, AllClearsExplained,
         Checkpoint \/ Revert \/ TakeChangeSet \/ BeginPureRead \/ EndPureRead
         \/ UNCHANGED vars
  PROVE  AllClearsExplained'
<1>1. PICK d \in Nat \ {0} : Depth = d
  BY StackTypes
<1>2. \A i \in 1..d : ClearsExplained(i)
  BY <1>1 DEF AllClearsExplained
<1>3. CASE Checkpoint
  <2> DEFINE e == d + 1
  <2>1. /\ Depth' = e
        /\ \A i \in 1..d : LevelState(i)' = LevelState(i)
        /\ \A i \in 1..d : changeLevels'[i] = changeLevels[i]
        /\ changeLevels'[e] = EmptyChangeSet
    BY <1>1, <1>3, CheckpointLevels
  <2>2. \A i \in 1..e : i \in 1..d \/ i = e
    OBVIOUS
  <2> HIDE DEF e
  <2>3. \A i \in 1..d : ClearsExplained(i)'
    BY <1>2, <2>1, ClearsUntouched
  <2>4. ClearsExplained(e)'
    BY <2>1 DEF ClearsExplained, EmptyChangeSet
  <2>5. QED
    BY <2>1, <2>2, <2>3, <2>4 DEF AllClearsExplained
<1>4. CASE Revert
  <2>1. PICK e \in Nat \ {0} : Depth = e + 1
    <3>1. d - 1 \in Nat \ {0} /\ Depth = (d - 1) + 1
      BY <1>1, <1>4 DEF Revert
    <3>2. QED
      BY <3>1
  <2>2. /\ Depth' = e
        /\ \A i \in 1..e : LevelState(i)' = LevelState(i)
        /\ \A i \in 1..e : changeLevels'[i] = changeLevels[i]
    BY <1>4, <2>1, RevertLevels
  <2>3. \A i \in 1..e : ClearsExplained(i)
    BY <1>1, <1>2, <2>1
  <2>4. QED
    BY <2>2, <2>3, ClearsUntouched DEF AllClearsExplained
<1>5. CASE TakeChangeSet
  <2>1. Depth' = 1 /\ changeLevels'[1] = EmptyChangeSet
    BY <1>5 DEF TakeChangeSet, Depth
  <2>2. ClearsExplained(1)'
    BY <2>1 DEF ClearsExplained, EmptyChangeSet
  <2>3. QED
    BY <2>1, <2>2 DEF AllClearsExplained
<1>6. CASE BeginPureRead \/ EndPureRead \/ UNCHANGED vars
  <2>1. UNCHANGED <<accountStack, codeStack, storageOverlays, changeLevels>>
    BY <1>6 DEF BeginPureRead, EndPureRead, vars
  <2>2. /\ Depth' = d
        /\ \A i : LevelState(i)' = LevelState(i)
        /\ \A i : changeLevels'[i] = changeLevels[i]
    BY <1>1, <2>1 DEF Depth, LevelState
  <2>3. QED
    BY <1>2, <2>2, ClearsUntouched DEF AllClearsExplained
<1>7. QED
  BY <1>3, <1>4, <1>5, <1>6

(* No step of the state manager breaks it.                                  *)
LEMMA NextKeepsClears ==
  ASSUME TypeOK, LevelRecordsUndo, AllClearsExplained, [Next]_vars
  PROVE  AllClearsExplained'
<1>1. CASE Commit
  <2>1. Depth - 1 \in Nat \ {0} /\ Depth = (Depth - 1) + 1
    BY <1>1, StackTypes DEF Commit
  <2>2. PICK d \in Nat \ {0} : Depth = d + 1
    BY <2>1
  <2>3. QED
    BY <1>1, <2>2, CommitKeepsClears
<1>2. QED
  BY <1>1, WriteKeepsClears, LevelStepKeepsClears DEF Next, WriteStep, LevelStep

-----------------------------------------------------------------------------
(* The open record. *)

(* A step of the flat state alone keeps the open record's names and what    *)
(* undoing it gives: what it does not name after the step is as it was.     *)
BottomKept ==
  /\ NamesKept(changeLevels[1], changeLevels'[1])
  /\ Undo(LevelState(1)', changeLevels'[1]) = Undo(LevelState(1), changeLevels[1])

LEMMA SameNames ==
  ASSUME NEW r PROVE NamesKept(r, r)
BY DEF NamesKept

LEMMA BottomUntouched ==
  ASSUME LevelState(1)' = LevelState(1), changeLevels'[1] = changeLevels[1]
  PROVE  BottomKept
BY SameNames DEF BottomKept

LEMMA FlatStepKeepsBottom ==
  ASSUME TypeOK, LevelRecordsUndo, FlatStep
  PROVE  BottomKept
<1>1. PICK d \in Nat \ {0} : Depth = d
  BY StackTypes
<1>2. CASE WriteStep
  <2>1. /\ \A i \in 1..(d - 1) : LevelState(i)' = LevelState(i)
        /\ \A i \in 1..(d - 1) : changeLevels'[i] = changeLevels[i]
        /\ Recording => Undone(d)' = Undone(d)
    BY <1>1, <1>2, WriteLevels
  <2>2. CASE d = 1
    <3>1. Undo(LevelState(1)', changeLevels'[1]) =
            Undo(LevelState(1), changeLevels[1])
      BY <1>1, <2>1, <2>2 DEF Undone, Undo, Recording
    <3>2. NamesKept(changeLevels[1], changeLevels'[1])
      BY <1>1, <1>2, <2>2, WriteNames DEF TopNamesKept
    <3>3. QED
      BY <3>1, <3>2 DEF BottomKept
  <2>3. CASE d # 1
    <3>1. 1 \in 1..(d - 1)
      BY <2>3
    <3>2. QED
      BY <2>1, <3>1, BottomUntouched
  <2>4. QED
    BY <2>2, <2>3
<1>3. CASE Checkpoint
  <2>1. 1 \in 1..d
    OBVIOUS
  <2>2. QED
    BY <1>1, <1>3, <2>1, CheckpointLevels, BottomUntouched
<1>4. CASE Commit \/ Revert
  <2>1. PICK e \in Nat \ {0} : Depth = e + 1
    <3>1. d - 1 \in Nat \ {0} /\ Depth = (d - 1) + 1
      BY <1>1, <1>4 DEF Commit, Revert
    <3>2. QED
      BY <3>1
  <2>2. CASE Revert
    <3>1. 1 \in 1..e
      OBVIOUS
    <3>2. QED
      BY <2>1, <2>2, <3>1, RevertLevels, BottomUntouched
  <2>3. CASE Commit
    <3>1. /\ \A i \in 1..(e - 1) : LevelState(i)' = LevelState(i)
          /\ \A i \in 1..(e - 1) : changeLevels'[i] = changeLevels[i]
          /\ changeSetsSuspended = 0 => Undone(e)' = Undone(e)
          /\ changeSetsSuspended # 0 => e # 1
      BY <2>1, <2>3, CommitLevels
    <3>2. changeLevels'[e] =
            MergeOlderWins(changeLevels[e], changeLevels[e + 1])
      BY <2>1, <2>3, CommitEffect
    <3>3. CASE e = 1
      <4>1. Undo(LevelState(1)', changeLevels'[1]) =
              Undo(LevelState(1), changeLevels[1])
        BY <3>1, <3>3 DEF Undone, Undo
      <4>2. NamesKept(changeLevels[1], changeLevels'[1])
        BY <3>2, <3>3, MergedNames
      <4>3. QED
        BY <4>1, <4>2 DEF BottomKept
    <3>4. CASE e # 1
      <4>1. 1 \in 1..(e - 1)
        BY <3>4
      <4>2. QED
        BY <3>1, <4>1, BottomUntouched
    <3>5. QED
      BY <3>3, <3>4
  <2>4. QED
    BY <1>4, <2>2, <2>3
<1>5. CASE BeginPureRead \/ EndPureRead
  <2>1. LevelState(1)' = LevelState(1) /\ changeLevels'[1] = changeLevels[1]
    BY <1>5 DEF BeginPureRead, EndPureRead, LevelState
  <2>2. QED
    BY <2>1, BottomUntouched
<1>6. QED
  BY <1>2, <1>3, <1>4, <1>5 DEF FlatStep, WriteStep

-----------------------------------------------------------------------------
(* The tries. *)

(* What the flat state would put in the tries has their types.              *)
LEMMA BuiltTypes ==
  ASSUME TypeOK
  PROVE  /\ \A a \in Address, s \in Slot : SlotNow(a, s) \in SlotValue \cup {Absent}
         /\ BuiltTries \in [Address -> [Slot -> SlotValue \cup {Absent}]]
         /\ \A a \in Address : accountStack[1][a] \in Account \cup {Absent}
<1>1. 1 \in 1..Depth
  BY StackTypes
<1>2. ASSUME NEW a \in Address, NEW s \in Slot
      PROVE  SlotNow(a, s) \in SlotValue \cup {Absent}
  <2>1. StorageAtDepth(storageOverlays, a, s, 1) \in SlotContent \cup {Absent}
    BY <1>1, LevelTypes
  <2>2. QED
    BY <2>1 DEF SlotNow, Leaf, SlotContent
<1>3. BuiltTries \in [Address -> [Slot -> SlotValue \cup {Absent}]]
  BY <1>2 DEF BuiltTries
<1>4. \A a \in Address : accountStack[1][a] \in Account \cup {Absent}
  BY <1>1, LevelTypes DEF AccountMap
<1>5. QED
  BY <1>2, <1>3, <1>4

(* An account's leaf over tries of the right type.                          *)
TrieLeaf ==
  [account : Account, storageRoot : [Slot -> SlotValue \cup {Absent}]]
    \cup {Absent}

LEMMA DerivedType ==
  ASSUME TypeOK, NEW a \in Address,
         NEW tries \in [Address -> [Slot -> SlotValue \cup {Absent}]]
  PROVE  Derived(a, tries) \in TrieLeaf
<1>1. tries[a] \in [Slot -> SlotValue \cup {Absent}]
  OBVIOUS
<1>2. accountStack[1][a] \in Account \cup {Absent}
  BY BuiltTypes
<1>3. QED
  BY <1>1, <1>2 DEF Derived, TrieLeaf

(* The invariant is what apply needs: rereading the named keys builds the    *)
(* trie of the whole state.                                                 *)
LEMMA ApplyBuilds ==
  ASSUME TrieInv
  PROVE  /\ AppliedTries(changeLevels[1]) = BuiltTries
         /\ AppliedAccounts(changeLevels[1]) = BuiltAccounts
<1>1. 1 \in 1..Depth /\ changeLevels[1] \in ChangeSet
  BY StackTypes, LevelTypes DEF TrieInv
<1>2. ASSUME NEW a \in Address, NEW s \in Slot
      PROVE  TrieAfter(changeLevels[1], a, s) = SlotNow(a, s)
  <2>1. CASE changeLevels[1].storage[a][s] # NotRecorded
    BY <2>1 DEF TrieAfter
  <2>2. CASE /\ changeLevels[1].storage[a][s] = NotRecorded
             /\ a \in changeLevels[1].storageCleared
    <3>1. LevelState(1).storage[a][s] = Absent
      BY <1>1, <2>2 DEF TrieInv, AllClearsExplained, ClearsExplained
    <3>2. SlotNow(a, s) = Absent
      BY <3>1, SlotSeen DEF SlotNow, Leaf
    <3>3. QED
      BY <2>2, <3>2 DEF TrieAfter
  <2>3. CASE /\ changeLevels[1].storage[a][s] = NotRecorded
             /\ a \notin changeLevels[1].storageCleared
    BY <2>3 DEF TrieAfter, TrieInv, UnnamedInTries
  <2>4. QED
    BY <2>1, <2>2, <2>3
<1>3. AppliedTries(changeLevels[1]) = BuiltTries
  BY <1>2 DEF AppliedTries, BuiltTries
<1>4. ASSUME NEW a \in Address, a \notin Dirty(changeLevels[1])
      PROVE  accountTrie[a] = Derived(a, BuiltTries)
  BY <1>4 DEF TrieInv, UnnamedInAccounts
<1>5. AppliedAccounts(changeLevels[1]) = BuiltAccounts
  BY <1>3, <1>4 DEF AppliedAccounts, BuiltAccounts
<1>6. QED
  BY <1>3, <1>5

LEMMA InvRootFollows == TrieInv => RootFollowsState
BY ApplyBuilds DEF TrieInv, RootFollowsState

(* The invariant when the two tries have just been built or reread.         *)
LEMMA JustBuilt ==
  ASSUME TypeOK, NEW T, NEW A, T = BuiltTries, A = BuiltAccounts
  PROVE  /\ T \in [Address -> [Slot -> SlotValue \cup {Absent}]]
         /\ A \in [Address -> TrieLeaf]
         /\ \A a \in Address, s \in Slot : T[a][s] = SlotNow(a, s)
         /\ \A a \in Address : A[a] = Derived(a, BuiltTries)
<1>1. BuiltTries \in [Address -> [Slot -> SlotValue \cup {Absent}]]
  BY BuiltTypes
<1>2. \A a \in Address, s \in Slot : BuiltTries[a][s] = SlotNow(a, s)
  BY DEF BuiltTries
<1>3. \A a \in Address : Derived(a, BuiltTries) \in TrieLeaf
  BY <1>1, DerivedType
<1>4. /\ BuiltAccounts \in [Address -> TrieLeaf]
      /\ \A a \in Address : BuiltAccounts[a] = Derived(a, BuiltTries)
  BY <1>3 DEF BuiltAccounts
<1>5. QED
  BY <1>1, <1>2, <1>4

(* A state whose tries are those of the whole flat state.                   *)
Fresh == storageTries = BuiltTries /\ accountTrie = BuiltAccounts

LEMMA FreshInv ==
  TypeOK /\ LevelRecordsUndo /\ AllClearsExplained /\ Fresh => TrieInv
<1> SUFFICES ASSUME TypeOK, LevelRecordsUndo, AllClearsExplained, Fresh
             PROVE  TrieInv
  OBVIOUS
<1>1. /\ storageTries \in [Address -> [Slot -> SlotValue \cup {Absent}]]
      /\ accountTrie \in [Address -> TrieLeaf]
      /\ \A a \in Address, s \in Slot : storageTries[a][s] = SlotNow(a, s)
      /\ \A a \in Address : accountTrie[a] = Derived(a, BuiltTries)
  BY JustBuilt DEF Fresh
<1>2. TrieTypeOK
  BY <1>1 DEF TrieTypeOK, TrieLeaf
<1>3. QED
  BY <1>1, <1>2 DEF TrieInv, UnnamedInTries, UnnamedInAccounts

-----------------------------------------------------------------------------
(* The steps. *)

(* The state of a root: the bottom level's, whatever the record is.          *)
LEMMA BuiltUnchanged ==
  ASSUME UNCHANGED <<accountStack, storageOverlays>>
  PROVE  BuiltTries' = BuiltTries /\ BuiltAccounts' = BuiltAccounts
BY DEF BuiltTries, BuiltAccounts, SlotNow, Derived

LEMMA ApplyFresh ==
  ASSUME TrieInv, Apply, UNCHANGED <<accountStack, storageOverlays>>
  PROVE  Fresh'
BY ApplyBuilds, BuiltUnchanged DEF Apply, Fresh

(* A step that only works on the flat state.                                *)
LEMMA FlatStepKeepsUnnamed ==
  ASSUME TrieInv, FlatStep
  PROVE  UnnamedInTries' /\ UnnamedInAccounts'
<1> DEFINE c == changeLevels[1]
           d == changeLevels'[1]
<1>1. BottomKept /\ UNCHANGED trieVars
  BY FlatStepKeepsBottom DEF TrieInv, FlatStep
<1>2. NamesKept(c, d)
  BY <1>1 DEF BottomKept
<1>3. ASSUME NEW a \in Address
      PROVE  /\ d.accounts[a] = NotRecorded =>
                  accountStack'[1][a] = accountStack[1][a]
             /\ \A s \in Slot : d.storage[a][s] = NotRecorded =>
                                  SlotNow(a, s)' = SlotNow(a, s)
  <2>1. Undo(LevelState(1)', d) = Undo(LevelState(1), c)
    BY <1>1 DEF BottomKept
  <2>2. /\ d.accounts[a] = NotRecorded =>
             LevelState(1)'.accounts[a] = LevelState(1).accounts[a]
        /\ \A s \in Slot : d.storage[a][s] = NotRecorded =>
             LevelState(1)'.storage[a][s] = LevelState(1).storage[a][s]
    BY <1>2, <2>1, UnnamedUnchanged
  <2> HIDE DEF d
  <2>3. ASSUME NEW s \in Slot, d.storage[a][s] = NotRecorded
        PROVE  SlotNow(a, s)' = SlotNow(a, s)
    <3>1. StorageAtDepth(storageOverlays', a, s, 1) =
            StorageAtDepth(storageOverlays, a, s, 1)
      BY <2>2, <2>3, SlotSeen
    <3>2. QED
      BY <3>1 DEF SlotNow, Leaf
  <2>4. d.accounts[a] = NotRecorded => accountStack'[1][a] = accountStack[1][a]
    BY <2>2 DEF LevelState
  <2>5. QED
    BY <2>3, <2>4
<1>4. ASSUME NEW a \in Address, NEW s \in Slot,
             d.storage[a][s] = NotRecorded, a \notin d.storageCleared
      PROVE  storageTries'[a][s] = SlotNow(a, s)'
  <2>1. c.storage[a][s] = NotRecorded /\ a \notin c.storageCleared
    BY <1>2, <1>4 DEF NamesKept
  <2>2. storageTries[a][s] = SlotNow(a, s)
    BY <2>1 DEF TrieInv, UnnamedInTries
  <2>3. QED
    BY <1>1, <1>3, <1>4, <2>2 DEF trieVars
<1>5. UnnamedInTries'
  BY <1>4 DEF UnnamedInTries
<1>6. ASSUME NEW a \in Address, a \notin Dirty(d)
      PROVE  accountTrie'[a] = Derived(a, BuiltTries)'
  <2>1. /\ d.accounts[a] = NotRecorded
        /\ \A s \in Slot : d.storage[a][s] = NotRecorded
    BY <1>6 DEF Dirty
  <2>2. a \notin Dirty(c)
    BY <1>2, <1>6 DEF NamesKept, Dirty
  <2>3. accountTrie[a] = Derived(a, BuiltTries)
    BY <2>2 DEF TrieInv, UnnamedInAccounts
  <2>4. BuiltTries'[a] = BuiltTries[a]
    BY <1>3, <2>1 DEF BuiltTries
  <2>5. accountStack'[1][a] = accountStack[1][a]
    BY <1>3, <2>1
  <2>6. QED
    BY <1>1, <2>3, <2>4, <2>5 DEF Derived, trieVars
<1>7. UnnamedInAccounts'
  BY <1>6 DEF UnnamedInAccounts, Dirty
<1>8. QED
  BY <1>5, <1>7

LEMMA TrieInitInv == TrieInit => TrieInv
<1> SUFFICES ASSUME TrieInit PROVE TrieInv
  OBVIOUS
<1>1. TypeOK
  BY InitTypeOK DEF TrieInit
<1>2. Depth = 1 /\ changeLevels[1] = EmptyChangeSet
  BY DEF TrieInit, Init, Depth
<1>3. LevelRecordsUndo
  BY <1>2 DEF LevelRecordsUndo
<1>4. AllClearsExplained
  BY <1>2, EmptyClearsNothing DEF AllClearsExplained
<1>5. QED
  BY <1>1, <1>3, <1>4, FreshInv DEF TrieInit, Fresh

LEMMA TrieNextInv == TrieInv /\ [TrieNext]_<<vars, trieVars>> => TrieInv'
<1> SUFFICES ASSUME TrieInv, [TrieNext]_<<vars, trieVars>> PROVE TrieInv'
  OBVIOUS
<1>1. [Next]_vars
  <2>1. CASE FlatStep
    BY <2>1 DEF FlatStep, Next, LevelStep
  <2>2. CASE GetStateRoot
    BY <2>2 DEF GetStateRoot
  <2>3. CASE MineBlock \/ Rebuild
    BY <2>3 DEF MineBlock, Rebuild, Next, LevelStep
  <2>4. QED
    BY <2>1, <2>2, <2>3 DEF TrieNext, trieVars, vars
<1>2. TypeOK' /\ LevelRecordsUndo' /\ AllClearsExplained'
  BY <1>1, NextTypeOK, NextRecordsUndo, NextKeepsClears DEF TrieInv
<1>3. CASE FlatStep
  <2>1. TrieTypeOK'
    BY <1>3 DEF FlatStep, trieVars, TrieInv, TrieTypeOK
  <2>2. QED
    BY <1>2, <1>3, <2>1, FlatStepKeepsUnnamed DEF TrieInv
<1>4. CASE GetStateRoot \/ MineBlock
  <2>1. Apply /\ UNCHANGED <<accountStack, storageOverlays>>
    BY <1>4 DEF GetStateRoot, MineBlock, TakeChangeSet, vars
  <2>2. Fresh'
    BY <2>1, ApplyFresh
  <2>3. QED
    BY <1>2, <2>2, FreshInv, PTL
<1>5. CASE Rebuild
  <2>1. Fresh'
    BY <1>5, BuiltUnchanged DEF Rebuild, TakeChangeSet, Fresh
  <2>2. QED
    BY <1>2, <2>1, FreshInv, PTL
<1>6. CASE UNCHANGED <<vars, trieVars>>
  <2>1. /\ UNCHANGED <<accountStack, storageOverlays, changeLevels,
                       storageTries, accountTrie>>
    BY <1>6 DEF trieVars, vars
  <2>2. BuiltTries' = BuiltTries
    BY <2>1, BuiltUnchanged
  <2>3. TrieTypeOK' /\ UnnamedInTries'
    BY <2>1 DEF TrieInv, TrieTypeOK, UnnamedInTries, SlotNow
  <2>4. UnnamedInAccounts'
    BY <2>1, <2>2 DEF TrieInv, UnnamedInAccounts, Dirty, Derived
  <2>5. QED
    BY <1>2, <2>3, <2>4 DEF TrieInv
<1>7. QED
  BY <1>3, <1>4, <1>5, <1>6 DEF TrieNext

(* In every reachable state, for any numbers of accounts, slots, values and  *)
(* levels, applying the open record to the tries gives the tries built from *)
(* the whole flat state: apply of derived-trie.ts, called for getStateRoot   *)
(* and at the end of executeAndMine, returns the root of the state.          *)
THEOREM RootAlwaysFollows == TrieSpec => []RootFollowsState
<1>1. QED
  BY TrieInitInv, TrieNextInv, InvRootFollows, PTL DEF TrieSpec

-----------------------------------------------------------------------------
(* THE CODE INDEX.                                                          *)
(* The revm engine finds every code, and a transaction leaves in the node   *)
(* exactly what it changed: for any accounts, slots, values and codes, any   *)
(* order of a commit's accounts and slots, and any executions, cheats and    *)
(* reverted entries before (revm-state-store.ts).                           *)

(* The code hash of an account that may be absent.                           *)
HashIn(acct) == IF acct = Absent THEN EmptyCode ELSE acct.codeHash

(* An account's code is kept under its own address.                          *)
Synced(accounts, codes) ==
  \A a \in Address : HashIn(accounts[a]) # EmptyCode => codes[a] = HashIn(accounts[a])

LevelsSynced ==
  execution.phase # "commit" =>
    \A i \in 1..Depth : Synced(accountStack[i], codeStack[i])

CacheTypes ==
  byCodeHash \subseteq Code /\ absentCodeHashes \subseteq Code /\ pendingCode \subseteq Code

(* No hash that some account's code has is taken for absent.                 *)
AbsentIsAbsent ==
  execution.phase = "run" =>
    \A a \in Address : Top(codeStack)[a] \notin absentCodeHashes

-----------------------------------------------------------------------------
(* A commit. *)

AnyChange ==
  [kind : {"untouched", "touched", "created", "removed"}, fields : Fields, code : Code,
   loaded : BOOLEAN, slots : SlotChanges]

Slots == [Slot -> SlotContent \cup {Absent}]

StateType == [accounts : AccountMap, code : CodeMap, storage : [Address -> Slots]]

Callbacks == {"next", "clear", "code", "account", "slots", "remove"}

CommitType ==
  [phase : {"commit"}, changes : [Address -> AnyChange], before : StateType,
   left : SUBSET Address, at : Address \cup {Absent}, callback : Callbacks,
   slots : SUBSET Slot]

ExecutionType ==
  \/ execution = Idle
  \/ execution \in [phase : {"run"}, commits : BOOLEAN]
  \/ execution \in CommitType

(* A transaction runs on committed state.                                    *)
RunsOnBottom == execution.phase = "run" => (execution.commits => Depth = 1)

(* What the bottom level holds of an account, and what the commit found.      *)
Held(a) ==
  [account |-> accountStack[1][a], code |-> codeStack[1][a],
   slots |-> storageOverlays[1].written[a]]

Found(a) ==
  [account |-> execution.before.accounts[a], code |-> execution.before.code[a],
   slots |-> execution.before.storage[a]]

(* What holds of a change where it was made.                                 *)
Legal(change, found) ==
  /\ change.kind = "touched" => change.code = HashIn(found.account)
  /\ change.kind = "created" => change.loaded
  /\ change.kind \in {"untouched", "removed"} => change.slots = NoSlots

Wiped(change) == change.kind \in {"removed", "created"}

Puts(change) == change.kind \in {"touched", "created"}

(* An account's storage when the slots of the change in `kept` are written.   *)
SlotsAfter(change, slots, kept) ==
  [s \in Slot |-> IF s \in kept THEN change.slots[s]
                  ELSE IF Wiped(change) THEN Absent ELSE slots[s]]

(* The account when its part of the commit is done.                          *)
Left(change) == IF change.kind = "removed" THEN Absent ELSE AccountIn(change)

Done(change, found, held) ==
  /\ held.account = Left(change)
  /\ HashIn(Left(change)) # EmptyCode => held.code = HashIn(Left(change))
  /\ held.slots = SlotsAfter(change, found.slots, SlotsIn(change))

(* The account as found, but for what a clear has wiped.                     *)
Cleared(change, found, held) ==
  /\ held.account = found.account
  /\ held.code = found.code
  /\ held.slots = SlotsAfter(change, found.slots, {})

(* What each callback of the account at hand finds, with `slots` to write.    *)
AtClear(change, found, held, slots) ==
  Wiped(change) /\ held = found /\ slots = SlotsIn(change)

AtCode(change, found, held, slots) ==
  Puts(change) /\ Cleared(change, found, held) /\ slots = SlotsIn(change)

AtAccount(change, found, held, slots, pending) ==
  /\ AtCode(change, found, held, slots)
  /\ change.loaded => (change.code = EmptyCode \/ change.code \in pending)

AtSlots(change, found, held, slots) ==
  /\ Puts(change)
  /\ held.account = AccountIn(change)
  /\ change.code # EmptyCode => held.code = change.code
  /\ slots \subseteq SlotsIn(change)
  /\ held.slots = SlotsAfter(change, found.slots, SlotsIn(change) \ slots)

AtRemove(change, found, held) ==
  change.kind = "removed" /\ Cleared(change, found, held)

AtCallback(callback, change, found, held, slots, pending) ==
  \/ callback = "clear" /\ AtClear(change, found, held, slots)
  \/ callback = "code" /\ AtCode(change, found, held, slots)
  \/ callback = "account" /\ AtAccount(change, found, held, slots, pending)
  \/ callback = "slots" /\ AtSlots(change, found, held, slots)
  \/ callback = "remove" /\ AtRemove(change, found, held)

(* The accounts that are not at hand: still to come, or done.                *)
Elsewhere(change, found, held, isLeft) ==
  IF isLeft \/ change.kind = "untouched" THEN held = found ELSE Done(change, found, held)

Working == execution.callback # "next"

ChangesLegal == \A a \in Address : Legal(execution.changes[a], Found(a))

LeftTouched == \A a \in execution.left : execution.changes[a].kind # "untouched"

AtHand ==
  Working =>
    /\ execution.at \in Address \ execution.left
    /\ AtCallback(execution.callback, Change, Found(execution.at),
                  Held(execution.at), execution.slots, pendingCode)

Others ==
  \A a \in Address :
    \/ Working /\ a = execution.at
    \/ Elsewhere(execution.changes[a], Found(a), Held(a), a \in execution.left)

CommitInv ==
  execution.phase = "commit" =>
    /\ Depth = 1
    /\ Synced(execution.before.accounts, execution.before.code)
    /\ ChangesLegal
    /\ LeftTouched
    /\ AtHand
    /\ Others

(* The engine and the state it runs on.                                      *)
StoreInv ==
  /\ TypeOK
  /\ CacheTypes
  /\ ExecutionType
  /\ RunsOnBottom
  /\ LevelsSynced
  /\ AbsentIsAbsent
  /\ CommitInv

-----------------------------------------------------------------------------
(* Types. *)

(* The types a proof starts from, the execution's by its phase.               *)
LEMMA ExecutionKinds ==
  ASSUME StoreInv
  PROVE  /\ execution.phase \in {"idle", "run", "commit"}
         /\ execution.phase = "idle" <=> execution = Idle
         /\ execution.phase = "run" => execution \in [phase : {"run"}, commits : BOOLEAN]
         /\ execution.phase = "commit" => execution \in CommitType
BY DEF StoreInv, ExecutionType, Idle, CommitType

(* The bottom level, and that a read of it finds what it has written.         *)
LEMMA BottomTypes ==
  ASSUME TypeOK
  PROVE  /\ 1 \in 1..Depth
         /\ accountStack[1] \in AccountMap
         /\ codeStack[1] \in CodeMap
         /\ storageOverlays[1].written \in [Address -> Slots]
         /\ LevelState(1).storage = storageOverlays[1].written
         /\ LevelState(1) \in StateType
<1>1. 1 \in 1..Depth
  BY StackTypes
<1>2. /\ accountStack[1] \in AccountMap
      /\ codeStack[1] \in CodeMap
      /\ storageOverlays[1] \in Overlay
  BY <1>1, LevelTypes
<1>3. storageOverlays[1].written \in [Address -> Slots]
  BY <1>2 DEF Overlay, Slots
<1>4. ASSUME NEW a \in Address, NEW s \in Slot
      PROVE  StorageAtDepth(storageOverlays, a, s, 1) = storageOverlays[1].written[a][s]
  <2>1. StorageAtDepth(storageOverlays, a, s, 1) =
          FoundIn(storageOverlays[1], a, s, StorageAtDepth(storageOverlays, a, s, 1 - 1))
    BY WalkStep
  <2>2. StorageAtDepth(storageOverlays, a, s, 1 - 1) = Absent
    BY WalkBottom
  <2>3. QED
    BY <2>1, <2>2 DEF FoundIn
<1>5. LevelState(1).storage =
        [a \in Address |-> [s \in Slot |-> storageOverlays[1].written[a][s]]]
  BY <1>4 DEF LevelState
<1>6. LevelState(1).storage = storageOverlays[1].written
  BY <1>3, <1>5 DEF Slots
<1>7. LevelState(1) = [accounts |-> accountStack[1], code |-> codeStack[1],
                       storage |-> LevelState(1).storage]
  BY DEF LevelState
<1>8. QED
  BY <1>1, <1>2, <1>3, <1>6, <1>7 DEF StateType

(* The code hash of an account is the hash of a code.                        *)
LEMMA HashTypes ==
  ASSUME TypeOK, NEW a \in Address
  PROVE  /\ HashOf(a) = HashIn(accountStack[Depth][a])
         /\ HashOf(a) \in Code
         /\ codeStack[Depth][a] \in Code \cup {Absent}
<1>1. /\ accountStack[Depth] \in AccountMap
      /\ codeStack[Depth] \in CodeMap
  BY StackTypes
<1>2. QED
  BY <1>1, OverlayAssumption
     DEF HashOf, HashIn, Exists, Top, AccountMap, CodeMap, Account

LEMMA ReindexedType ==
  ASSUME TypeOK
  PROVE  /\ Reindexed \subseteq Code
         /\ \A a \in Address : codeStack[Depth][a] \in Reindexed \cup {Absent}
<1>1. \A a \in Address : codeStack[Depth][a] \in Code \cup {Absent}
  BY HashTypes
<1>2. QED
  BY <1>1 DEF Reindexed, Top

-----------------------------------------------------------------------------
(* The properties, from the invariant. *)

LEMMA InvFindsCode == StoreInv => CodeFound
<1> SUFFICES ASSUME StoreInv, execution.phase = "run", NEW a \in Address, Exists(a)
             PROVE  Finds(HashOf(a))
  BY DEF CodeFound
<1>1. TypeOK /\ LevelsSynced /\ AbsentIsAbsent
  BY DEF StoreInv
<1>2. CASE HashOf(a) = EmptyCode
  BY <1>2 DEF Finds, Hit
<1>3. CASE HashOf(a) # EmptyCode
  <2>1. Synced(accountStack[Depth], codeStack[Depth])
    BY <1>1, StackTypes DEF LevelsSynced
  <2>2. codeStack[Depth][a] = HashOf(a)
    BY <1>1, <1>3, <2>1, HashTypes DEF Synced
  <2>3. HashOf(a) # Absent
    BY <1>1, HashTypes, OverlayAssumption
  <2>4. HashOf(a) \in Reindexed
    BY <1>1, <2>2, <2>3, ReindexedType
  <2>5. HashOf(a) \notin absentCodeHashes
    BY <1>1, <2>2 DEF AbsentIsAbsent, Top
  <2>6. QED
    BY <2>4, <2>5 DEF Finds
<1>4. QED
  BY <1>2, <1>3

LEMMA InvKeepsCode == StoreInv => CodeOfEveryAccount
<1> SUFFICES ASSUME StoreInv PROVE CodeOfEveryAccount
  OBVIOUS
<1>1. TypeOK /\ LevelsSynced /\ CacheTypes
  BY DEF StoreInv
<1>2. StoreTypeOK
  BY <1>1, ExecutionKinds DEF StoreTypeOK, CacheTypes
<1>3. ASSUME execution.phase # "commit", NEW a \in Address, HashOf(a) # EmptyCode
      PROVE  Top(codeStack)[a] = HashOf(a)
  <2>1. Synced(accountStack[Depth], codeStack[Depth])
    BY <1>1, <1>3, StackTypes DEF LevelsSynced
  <2>2. QED
    BY <1>1, <1>3, <2>1, HashTypes DEF Synced, Top
<1>4. QED
  BY <1>2, <1>3 DEF CodeOfEveryAccount

LEMMA InvCommitsExact == StoreInv => CommitExact
<1> SUFFICES ASSUME StoreInv, Committed PROVE CommitExact
  BY DEF CommitExact
<1> DEFINE changes == execution.changes
           before == execution.before
           after == Effect(before, changes)
<1>1. /\ TypeOK /\ CommitInv
      /\ execution.phase = "commit" /\ ~Working /\ execution.left = {}
      /\ execution \in CommitType
  BY ExecutionKinds DEF StoreInv, Committed, Calls, Working
<1>2. /\ accountStack[1] \in AccountMap
      /\ storageOverlays[1].written \in [Address -> Slots]
      /\ LevelState(1).accounts = accountStack[1]
      /\ LevelState(1).storage = storageOverlays[1].written
  BY <1>1, BottomTypes DEF LevelState
<1>3. before \in StateType /\ changes \in [Address -> AnyChange]
  BY <1>1 DEF CommitType
<1>4. ASSUME NEW a \in Address
      PROVE  /\ accountStack[1][a] = after.accounts[a]
             /\ storageOverlays[1].written[a] = after.storage[a]
  <2>1. /\ Legal(changes[a], Found(a))
        /\ Elsewhere(changes[a], Found(a), Held(a), a \in execution.left)
        /\ a \notin execution.left
    BY <1>1 DEF CommitInv, ChangesLegal, Others
  <2>2. /\ before.storage[a] \in Slots
        /\ changes[a].kind \in {"untouched", "touched", "created", "removed"}
    BY <1>3 DEF StateType, AnyChange
  <2>3. /\ after.accounts[a] =
             CASE changes[a].kind = "untouched" -> before.accounts[a]
               [] changes[a].kind = "removed"   -> Absent
               [] OTHER -> AccountIn(changes[a])
        /\ after.storage[a] =
             [s \in Slot |->
                IF changes[a].slots[s] # Absent THEN changes[a].slots[s]
                ELSE IF changes[a].kind \in {"removed", "created"} THEN Absent
                ELSE before.storage[a][s]]
    BY DEF Effect
  <2> HIDE DEF changes, before, after
  <2>4. CASE changes[a].kind = "untouched"
    <3>1. /\ accountStack[1][a] = before.accounts[a]
          /\ storageOverlays[1].written[a] = before.storage[a]
      BY <2>1, <2>4 DEF Elsewhere, Held, Found, before
    <3>2. \A s \in Slot : changes[a].slots[s] = Absent
      BY <2>1, <2>4 DEF Legal, NoSlots
    <3>3. after.storage[a] = [s \in Slot |-> before.storage[a][s]]
      BY <2>3, <2>4, <3>2
    <3>4. QED
      BY <2>2, <2>3, <2>4, <3>1, <3>3 DEF Slots
  <2>5. CASE changes[a].kind # "untouched"
    <3>1. /\ accountStack[1][a] = Left(changes[a])
          /\ storageOverlays[1].written[a] =
               SlotsAfter(changes[a], before.storage[a], SlotsIn(changes[a]))
      BY <2>1, <2>5 DEF Elsewhere, Done, Held, Found, before
    <3>2. SlotsAfter(changes[a], before.storage[a], SlotsIn(changes[a])) =
            [s \in Slot |->
                IF changes[a].slots[s] # Absent THEN changes[a].slots[s]
                ELSE IF changes[a].kind \in {"removed", "created"} THEN Absent
                ELSE before.storage[a][s]]
      BY DEF SlotsAfter, SlotsIn, Wiped
    <3>3. QED
      BY <2>2, <2>3, <2>5, <3>1, <3>2 DEF Left
  <2>6. QED
    BY <2>4, <2>5 DEF changes, before, after
<1>5. /\ after.accounts = [a \in Address |-> after.accounts[a]]
      /\ after.storage = [a \in Address |-> after.storage[a]]
  BY DEF Effect
<1> HIDE DEF after
<1>6. accountStack[1] = after.accounts /\ storageOverlays[1].written = after.storage
  BY <1>2, <1>4, <1>5 DEF AccountMap
<1>7. QED
  BY <1>2, <1>6 DEF CommitExact, after

-----------------------------------------------------------------------------
(* Executions up to the commit. *)

(* With the state manager left alone, its type and the code under every      *)
(* account's address are as they were.                                       *)
LEMMA StateFrame ==
  ASSUME StoreInv, UNCHANGED vars
  PROVE  /\ TypeOK' /\ Depth' = Depth
         /\ execution.phase # "commit" => \A i \in 1..Depth' : Synced(accountStack'[i], codeStack'[i])
<1>1. TypeOK /\ LevelsSynced
  BY DEF StoreInv
<1>2. TypeOK'
  BY <1>1, NextTypeOK
<1>3. Depth' = Depth /\ accountStack' = accountStack /\ codeStack' = codeStack
  BY DEF vars, Depth
<1>4. QED
  BY <1>1, <1>2, <1>3 DEF LevelsSynced

LEMMA StoreInitInv == StoreInit => StoreInv
<1> SUFFICES ASSUME StoreInit PROVE StoreInv
  OBVIOUS
<1>1. /\ Init
      /\ byCodeHash = {} /\ absentCodeHashes = {} /\ pendingCode = {}
      /\ execution = Idle
      /\ execution.phase = "idle"
  BY DEF StoreInit, Idle
<1>2. TypeOK
  BY <1>1, InitTypeOK
<1>3. CacheTypes /\ ExecutionType /\ RunsOnBottom /\ AbsentIsAbsent /\ CommitInv
  BY <1>1 DEF CacheTypes, ExecutionType, RunsOnBottom, AbsentIsAbsent, CommitInv
<1>4. LevelsSynced
  <2>1. Depth = 1 /\ accountStack[1] = [a \in Address |-> Absent]
    BY <1>1 DEF Init, Depth
  <2>2. QED
    BY <2>1 DEF LevelsSynced, Synced, HashIn
<1>5. QED
  BY <1>2, <1>3, <1>4 DEF StoreInv

(* call and transact: an execution that has looked for nothing yet.          *)
LEMMA BeginInv ==
  ASSUME StoreInv, Call \/ Transact
  PROVE  StoreInv'
<1>1. /\ execution = Idle
      /\ BeginExecution
      /\ UNCHANGED vars
      /\ \E commits \in BOOLEAN :
           /\ execution' = [phase |-> "run", commits |-> commits]
           /\ commits => Depth = 1
  BY DEF Call, Transact
<1>2. PICK commits \in BOOLEAN : /\ execution' = [phase |-> "run", commits |-> commits]
                                 /\ commits => Depth = 1
  BY <1>1
<1>3. execution.phase # "commit" /\ execution'.phase = "run" /\ execution'.commits = commits
  BY <1>1, <1>2 DEF Idle
<1>4. TypeOK' /\ Depth' = Depth /\ LevelsSynced'
  BY <1>1, <1>3, StateFrame DEF LevelsSynced
<1>5. ExecutionType'
  BY <1>2 DEF ExecutionType
<1>6. CacheTypes' /\ AbsentIsAbsent'
  BY <1>1 DEF StoreInv, CacheTypes, AbsentIsAbsent, BeginExecution
<1>7. RunsOnBottom' /\ CommitInv'
  BY <1>2, <1>3, <1>4 DEF RunsOnBottom, CommitInv
<1>8. QED
  BY <1>4, <1>5, <1>6, <1>7 DEF StoreInv

(* A hash goes down as absent only when the index, just built again, does     *)
(* not hold it.                                                             *)
LEMMA LoadCodeInv ==
  ASSUME StoreInv, NEW a \in Address, LoadCode(a)
  PROVE  StoreInv'
<1>1. /\ execution.phase = "run"
      /\ GetCode(HashOf(a))
      /\ UNCHANGED <<vars, execution>>
      /\ TypeOK
  BY DEF LoadCode, StoreInv
<1>2. TypeOK' /\ Depth' = Depth /\ LevelsSynced'
  BY <1>1, StateFrame DEF LevelsSynced
<1>3. ExecutionType' /\ RunsOnBottom' /\ CommitInv'
  BY <1>1, <1>2 DEF StoreInv, ExecutionType, RunsOnBottom, CommitInv
<1>4. CacheTypes'
  <2>1. Reindexed \subseteq Code /\ HashOf(a) \in Code
    BY <1>1, ReindexedType, HashTypes
  <2>2. QED
    BY <1>1, <2>1 DEF StoreInv, CacheTypes, GetCode, storeVars
<1>5. AbsentIsAbsent'
  <2> SUFFICES ASSUME NEW b \in Address
               PROVE  Top(codeStack)[b] \notin absentCodeHashes'
    BY <1>1, <1>2 DEF AbsentIsAbsent, Top, vars
  <2>1. Top(codeStack)[b] \notin absentCodeHashes
    BY <1>1 DEF StoreInv, AbsentIsAbsent
  <2>2. Top(codeStack)[b] = Absent \/ Top(codeStack)[b] \in Reindexed
    BY <1>1, ReindexedType DEF Top
  <2>3. HashOf(a) # Absent
    BY <1>1, HashTypes, OverlayAssumption
  <2>4. QED
    BY <1>1, <2>1, <2>2, <2>3 DEF GetCode, storeVars
<1>6. QED
  BY <1>2, <1>3, <1>4, <1>5 DEF StoreInv

LEMMA EndWithoutCommitInv ==
  ASSUME StoreInv, EndWithoutCommit
  PROVE  StoreInv'
<1>1. /\ execution.phase = "run"
      /\ execution' = Idle /\ execution'.phase = "idle"
      /\ UNCHANGED <<vars, storeVars>>
  BY DEF EndWithoutCommit, Idle
<1>2. TypeOK' /\ Depth' = Depth /\ LevelsSynced'
  BY <1>1, StateFrame DEF LevelsSynced
<1>3. ExecutionType' /\ RunsOnBottom' /\ CommitInv' /\ AbsentIsAbsent' /\ CacheTypes'
  BY <1>1, <1>2 DEF StoreInv, ExecutionType, RunsOnBottom, CommitInv, AbsentIsAbsent,
     CacheTypes, storeVars
<1>4. QED
  BY <1>2, <1>3 DEF StoreInv

-----------------------------------------------------------------------------
(* Between executions. *)

(* An idle store: only the state manager's part is left to show.             *)
LEMMA IdleFrame ==
  ASSUME StoreInv, execution = Idle, UNCHANGED <<storeVars, execution>>, TypeOK',
         \A i \in 1..Depth' : Synced(accountStack'[i], codeStack'[i])
  PROVE  StoreInv'
<1>1. execution' = Idle /\ execution'.phase = "idle"
  BY DEF Idle
<1>2. ExecutionType' /\ RunsOnBottom' /\ CommitInv' /\ AbsentIsAbsent' /\ CacheTypes'
  BY <1>1 DEF StoreInv, ExecutionType, RunsOnBottom, CommitInv, AbsentIsAbsent,
     CacheTypes, storeVars
<1>3. LevelsSynced'
  BY DEF LevelsSynced
<1>4. QED
  BY <1>2, <1>3 DEF StoreInv

(* putCode stores the code and names it in one go.                           *)
LEMMA SetCodeCheatInv ==
  ASSUME StoreInv, NEW a \in Address, SetCodeCheat(a)
  PROVE  StoreInv'
<1>1. /\ execution = Idle /\ execution.phase # "commit"
      /\ UNCHANGED <<storeVars, execution>>
      /\ TypeOK /\ LevelsSynced
  BY DEF SetCodeCheat, StoreInv, Idle
<1>2. PICK c \in Code : PutCode(a, c)
  BY DEF SetCodeCheat
<1>3. TypeOK'
  BY <1>1, <1>2, NextTypeOK DEF Next, CodeStep
<1> DEFINE acct == [AccountOrNew(a) EXCEPT !.codeHash = c]
           edited == EditedThroughGetAccount(a, acct)
<1>4. acct \in Account /\ acct.codeHash = c
  BY <1>1, AccountOrNewType DEF Account
<1>5. /\ accountStack' = [edited EXCEPT ![Depth][a] = acct]
      /\ codeStack' = [codeStack EXCEPT ![Depth][a] = c]
  BY <1>2 DEF PutCode
<1> HIDE DEF acct
<1>6. /\ Len(accountStack') = Depth
      /\ \A i \in 1..(Depth - 1) : accountStack'[i] = accountStack[i]
      /\ accountStack'[Depth] = [accountStack[Depth] EXCEPT ![a] = acct]
  BY <1>1, <1>4, <1>5, EditedFacts
<1>7. /\ \A i \in 1..(Depth - 1) : codeStack'[i] = codeStack[i]
      /\ codeStack'[Depth] = [codeStack[Depth] EXCEPT ![a] = c]
      /\ accountStack[Depth] \in AccountMap
      /\ codeStack[Depth] \in CodeMap
      /\ Depth' = Depth
  <2>1. codeStack \in Seq(CodeMap) /\ Depth \in 1..Len(codeStack) /\ Depth \in Nat
        /\ Len(codeStack) = Depth
    BY <1>1, StackTypes
  <2>2. QED
    BY <1>1, <1>5, <1>6, <2>1, TopWriteFacts, StackTypes DEF Depth
<1> HIDE DEF edited
<1>8. ASSUME NEW i \in 1..Depth
      PROVE  Synced(accountStack'[i], codeStack'[i])
  <2>1. Synced(accountStack[i], codeStack[i])
    BY <1>1 DEF LevelsSynced
  <2>2. CASE i = Depth
    <3>1. accountStack'[i][a] = acct /\ codeStack'[i][a] = c
      BY <1>6, <1>7, <2>2 DEF AccountMap, CodeMap
    <3>2. acct # Absent
      BY <1>4, OverlayAssumption
    <3>3. \A b \in Address : b # a => /\ accountStack'[i][b] = accountStack[i][b]
                                      /\ codeStack'[i][b] = codeStack[i][b]
      BY <1>6, <1>7, <2>2 DEF AccountMap, CodeMap
    <3>4. QED
      BY <1>4, <2>1, <3>1, <3>2, <3>3 DEF Synced, HashIn
  <2>3. CASE i # Depth
    <3>1. i \in 1..(Depth - 1)
      BY <1>1, <2>3, StackTypes
    <3>2. QED
      BY <1>6, <1>7, <2>1, <3>1
  <2>4. QED
    BY <2>2, <2>3
<1>9. QED
  BY <1>1, <1>3, <1>7, <1>8, IdleFrame

(* The level opened copies the accounts and the code of the one below.        *)
LEMMA OpenEntriesInv ==
  ASSUME StoreInv, OpenEntries
  PROVE  StoreInv'
<1>1. /\ execution = Idle /\ execution.phase # "commit"
      /\ Checkpoint
      /\ UNCHANGED <<storeVars, execution>>
      /\ TypeOK /\ LevelsSynced
  BY DEF OpenEntries, StoreInv, Idle
<1>2. TypeOK'
  BY <1>1, NextTypeOK DEF Next, LevelStep
<1>3. /\ accountStack' = Append(accountStack, accountStack[Depth])
      /\ codeStack' = Append(codeStack, codeStack[Depth])
      /\ accountStack[Depth] \in AccountMap
      /\ codeStack[Depth] \in CodeMap
  BY <1>1, StackTypes DEF Checkpoint
<1>4. /\ Depth' = Depth + 1
      /\ \A i \in 1..Depth : accountStack'[i] = accountStack[i] /\ codeStack'[i] = codeStack[i]
      /\ accountStack'[Depth + 1] = accountStack[Depth]
      /\ codeStack'[Depth + 1] = codeStack[Depth]
  BY <1>1, <1>3, StackTypes, AppendProperties DEF Depth
<1>5. ASSUME NEW i \in 1..Depth'
      PROVE  Synced(accountStack'[i], codeStack'[i])
  <2>1. i \in 1..Depth \/ i = Depth + 1
    BY <1>1, <1>4, StackTypes
  <2>2. \A j \in 1..Depth : Synced(accountStack[j], codeStack[j])
    BY <1>1 DEF LevelsSynced
  <2>3. Depth \in 1..Depth
    BY <1>1, StackTypes
  <2>4. QED
    BY <1>4, <2>1, <2>2, <2>3
<1>6. QED
  BY <1>1, <1>2, <1>5, IdleFrame

LEMMA CloseEntriesInv ==
  ASSUME StoreInv, CloseEntries
  PROVE  StoreInv'
<1>1. /\ execution = Idle /\ execution.phase # "commit"
      /\ Revert /\ Depth > 1
      /\ UNCHANGED <<storeVars, execution>>
      /\ TypeOK /\ LevelsSynced
  BY DEF CloseEntries, StoreInv, Idle
<1>2. TypeOK'
  BY <1>1, NextTypeOK DEF Next, LevelStep
<1>3. /\ accountStack' = SubSeq(accountStack, 1, Depth - 1)
      /\ codeStack' = SubSeq(codeStack, 1, Depth - 1)
  BY <1>1 DEF Revert
<1>4. /\ Depth' = Depth - 1
      /\ \A i \in 1..(Depth - 1) : /\ accountStack'[i] = accountStack[i]
                                   /\ codeStack'[i] = codeStack[i]
  BY <1>1, <1>3, StackTypes, PrefixProperties DEF Depth
<1>5. \A i \in 1..Depth' : Synced(accountStack'[i], codeStack'[i])
  BY <1>1, <1>4, StackTypes DEF LevelsSynced
<1>6. QED
  BY <1>1, <1>2, <1>5, IdleFrame

-----------------------------------------------------------------------------
(* The commit. *)

(* A commit as the invariant knows it.                                       *)
LEMMA CommitFacts ==
  ASSUME StoreInv, execution.phase = "commit"
  PROVE  /\ TypeOK /\ CacheTypes
         /\ Depth = 1
         /\ execution \in CommitType
         /\ execution.changes \in [Address -> AnyChange]
         /\ execution.before \in StateType
         /\ execution.left \subseteq Address
         /\ execution.slots \subseteq Slot
         /\ execution.callback \in Callbacks
         /\ Synced(execution.before.accounts, execution.before.code)
         /\ \A a \in Address : Legal(execution.changes[a], Found(a))
BY ExecutionKinds DEF StoreInv, CommitInv, CommitType, ChangesLegal

(* The account at hand: what its change and what was found of it are.         *)
LEMMA AtHandFacts ==
  ASSUME StoreInv, execution.phase = "commit", Working
  PROVE  /\ execution.at \in Address
         /\ execution.at \notin execution.left
         /\ Change \in AnyChange
         /\ Found(execution.at).slots \in Slots
         /\ Legal(Change, Found(execution.at))
         /\ AtCallback(execution.callback, Change, Found(execution.at),
                       Held(execution.at), execution.slots, pendingCode)
<1>1. CommitInv
  BY DEF StoreInv
<1>2. /\ execution.changes \in [Address -> AnyChange]
      /\ execution.before \in StateType
      /\ \A a \in Address : Legal(execution.changes[a], Found(a))
  BY CommitFacts
<1>3. /\ execution.at \in Address /\ execution.at \notin execution.left
      /\ AtCallback(execution.callback, Change, Found(execution.at),
                    Held(execution.at), execution.slots, pendingCode)
  BY <1>1 DEF CommitInv, AtHand
<1>4. Found(execution.at).slots \in Slots
  BY <1>2, <1>3 DEF Found, StateType
<1>5. QED
  BY <1>2, <1>3, <1>4 DEF Change

(* In a commit only the types, the depth and the commit's own part are to     *)
(* be shown.                                                                *)
LEMMA CommitFrame ==
  ASSUME TypeOK', CacheTypes', execution' \in CommitType, CommitInv'
  PROVE  StoreInv'
<1>1. execution'.phase = "commit"
  BY DEF CommitType
<1>2. ExecutionType' /\ RunsOnBottom' /\ LevelsSynced' /\ AbsentIsAbsent'
  BY <1>1 DEF ExecutionType, RunsOnBottom, LevelsSynced, AbsentIsAbsent
<1>3. QED
  BY <1>2 DEF StoreInv

(* What the commit goes by is the same.                                      *)
SameCommit ==
  /\ execution'.changes = execution.changes
  /\ execution'.before = execution.before

(* What the bottom level holds of an account is the same.                    *)
SameAt(b) ==
  /\ accountStack'[1][b] = accountStack[1][b]
  /\ codeStack'[1][b] = codeStack[1][b]
  /\ storageOverlays'[1].written[b] = storageOverlays[1].written[b]

(* A callback of the account at hand leaves the others alone.                *)
LEMMA AtHandInv ==
  ASSUME StoreInv, execution.phase = "commit", Working,
         NEW a \in Address, execution.at = a,
         TypeOK', Depth' = Depth, CacheTypes', execution' \in CommitType,
         SameCommit, execution'.left = execution.left,
         \A b \in Address : b # a => SameAt(b),
         \/ /\ Working'
            /\ execution'.at = a
            /\ AtCallback(execution'.callback, Change, Found(a), Held(a)',
                          execution'.slots, pendingCode')
         \/ /\ ~Working'
            /\ Change.kind # "untouched"
            /\ Done(Change, Found(a), Held(a)')
  PROVE  StoreInv'
<1>1. /\ CommitInv /\ Depth = 1
      /\ execution.at \in Address /\ execution.at \notin execution.left
      /\ Synced(execution.before.accounts, execution.before.code)
      /\ \A b \in Address : Legal(execution.changes[b], Found(b))
  BY CommitFacts, AtHandFacts DEF StoreInv
<1>2. \A b \in Address : Found(b)' = Found(b)
  BY DEF SameCommit, Found
<1>3. \A b \in Address : b # a => Held(b)' = Held(b)
  BY DEF SameAt, Held
<1>4. ASSUME NEW b \in Address, b # a
      PROVE  Elsewhere(execution'.changes[b], Found(b)', Held(b)', b \in execution'.left)
  <2>1. Elsewhere(execution.changes[b], Found(b), Held(b), b \in execution.left)
    BY <1>1, <1>4 DEF CommitInv, Others
  <2>2. QED
    BY <1>2, <1>3, <1>4, <2>1 DEF SameCommit, Elsewhere
<1>5. /\ Depth' = 1
      /\ Synced(execution'.before.accounts, execution'.before.code)
      /\ ChangesLegal' /\ LeftTouched'
  <2>1. LeftTouched
    BY <1>1 DEF CommitInv
  <2>2. QED
    BY <1>1, <1>2, <2>1 DEF SameCommit, ChangesLegal, LeftTouched
<1>6. CASE Working' /\ execution'.at = a
           /\ AtCallback(execution'.callback, Change, Found(a), Held(a)',
                         execution'.slots, pendingCode')
  <2>1. AtHand'
    <3>1. /\ Change' = Change
          /\ Found(a)' = Found(a)
          /\ execution'.at \in Address \ execution'.left
      BY <1>1, <1>2, <1>6 DEF Change, SameCommit
    <3>2. AtCallback(execution'.callback, Change', Found(execution.at)',
                     Held(execution.at)', execution'.slots, pendingCode')
      BY <1>6, <3>1 DEF Found, Held
    <3>3. QED
      BY <3>1, <3>2 DEF AtHand
  <2>2. Others'
    BY <1>4, <1>6 DEF Others
  <2>3. CommitInv'
    BY <1>5, <2>1, <2>2 DEF CommitInv
  <2>4. QED
    BY <2>3, CommitFrame
<1>7. CASE ~Working' /\ Change.kind # "untouched"
           /\ Done(Change, Found(a), Held(a)')
  <2>1. Elsewhere(execution'.changes[a], Found(a)', Held(a)', a \in execution'.left)
    BY <1>1, <1>2, <1>7 DEF Elsewhere, SameCommit, Change
  <2>2. Others'
    <3>1. ASSUME NEW b \in Address
          PROVE  Elsewhere(execution'.changes[b], Found(b)', Held(b)', b \in execution'.left)
      BY <1>4, <2>1
    <3>2. QED
      BY <3>1 DEF Others
  <2>3. AtHand'
    BY <1>7 DEF AtHand
  <2>4. CommitInv'
    BY <1>5, <2>2, <2>3 DEF CommitInv
  <2>5. QED
    BY <2>4, CommitFrame
<1>8. QED
  BY <1>6, <1>7

-----------------------------------------------------------------------------
(* What the writes of a commit leave at the bottom level. *)

LEMMA ClearedBottom ==
  ASSUME TypeOK, Depth = 1, NEW a \in Address, ClearStorageAt(a)
  PROVE  /\ TypeOK' /\ Depth' = Depth
         /\ \A b \in Address : b # a => SameAt(b)
         /\ accountStack' = accountStack /\ codeStack' = codeStack
         /\ storageOverlays'[1].written[a] = NothingWritten
<1>1. TypeOK'
  BY NextTypeOK DEF Next, StorageStep
<1>2. /\ storageOverlays' = OverlaysAfterClear(a)
      /\ UNCHANGED <<accountStack, codeStack>>
      /\ Depth' = Depth
  BY DEF ClearStorageAt, Depth
<1>3. /\ storageOverlays \in Seq(Overlay) /\ 1 \in 1..Len(storageOverlays)
      /\ storageOverlays[1].written \in [Address -> Slots]
  BY StackTypes, BottomTypes
<1>4. storageOverlays'[1].written = [storageOverlays[1].written EXCEPT ![a] = NothingWritten]
  <2> DEFINE top == [storageOverlays[1] EXCEPT !.written[a] = NothingWritten,
                                               !.cleared = @ \cup Tombstone(a)]
  <2>1. storageOverlays[1] \in Overlay
    BY <1>3
  <2>2. OverlaysAfterClear(a) = [storageOverlays EXCEPT ![1] = top]
    BY <1>3 DEF OverlaysAfterClear
  <2>3. top.written = [storageOverlays[1].written EXCEPT ![a] = NothingWritten]
    BY <2>1 DEF Overlay
  <2> HIDE DEF top
  <2>4. storageOverlays'[1] = top
    BY <1>2, <1>3, <2>2
  <2>5. QED
    BY <2>3, <2>4
<1>5. QED
  BY <1>1, <1>2, <1>3, <1>4 DEF SameAt

LEMMA SlotBottom ==
  ASSUME TypeOK, Depth = 1, NEW a \in Address, NEW s \in Slot, NEW v \in SlotContent,
         SetStorageAt(a, s, v)
  PROVE  /\ TypeOK' /\ Depth' = Depth
         /\ \A b \in Address : b # a => SameAt(b)
         /\ accountStack' = accountStack /\ codeStack' = codeStack
         /\ storageOverlays'[1].written[a] =
              [storageOverlays[1].written[a] EXCEPT ![s] = v]
<1>1. TypeOK'
  BY NextTypeOK DEF Next, StorageStep
<1>2. /\ storageOverlays' = [storageOverlays EXCEPT ![1].written[a][s] = v]
      /\ UNCHANGED <<accountStack, codeStack>>
      /\ Depth' = Depth
  BY DEF SetStorageAt, Depth
<1>3. /\ storageOverlays \in Seq(Overlay) /\ 1 \in 1..Len(storageOverlays)
      /\ storageOverlays[1].written \in [Address -> Slots]
  BY StackTypes, BottomTypes
<1>4. storageOverlays'[1].written = [storageOverlays[1].written EXCEPT ![a][s] = v]
  <2> DEFINE top == [storageOverlays[1] EXCEPT !.written[a][s] = v]
  <2>1. storageOverlays[1] \in Overlay
    BY <1>3
  <2>2. storageOverlays' = [storageOverlays EXCEPT ![1] = top]
    BY <1>2, <1>3
  <2>3. top.written = [storageOverlays[1].written EXCEPT ![a][s] = v]
    BY <2>1 DEF Overlay
  <2> HIDE DEF top
  <2>4. storageOverlays'[1] = top
    BY <1>3, <2>2
  <2>5. QED
    BY <2>3, <2>4 DEF top
<1>5. QED
  BY <1>1, <1>2, <1>3, <1>4 DEF SameAt

LEMMA AccountBottom ==
  ASSUME TypeOK, Depth = 1, NEW a \in Address, SetAccountAt(a, Absent)
  PROVE  /\ TypeOK' /\ Depth' = Depth
         /\ \A b \in Address : b # a => SameAt(b)
         /\ codeStack' = codeStack /\ storageOverlays' = storageOverlays
         /\ accountStack'[1][a] = Absent
<1>1. TypeOK'
  BY NextTypeOK DEF Next, AccountStep
<1>2. /\ accountStack' = [accountStack EXCEPT ![1][a] = Absent]
      /\ UNCHANGED <<codeStack, storageOverlays>>
  BY DEF SetAccountAt
<1>3. /\ accountStack \in Seq(AccountMap) /\ 1 \in 1..Len(accountStack)
      /\ accountStack[1] \in AccountMap
  BY StackTypes, BottomTypes
<1>4. /\ Len(accountStack') = Len(accountStack)
      /\ accountStack'[1] = [accountStack[1] EXCEPT ![a] = Absent]
  BY <1>2, <1>3, TopWriteFacts
<1>5. Depth' = Depth
  BY <1>4 DEF Depth
<1>6. QED
  BY <1>1, <1>2, <1>3, <1>4, <1>5 DEF SameAt, AccountMap

(* setAccount puts the account, and under its address the code it names if    *)
(* this execution handed that over.                                         *)
LEMMA SetAccountBottom ==
  ASSUME TypeOK, Depth = 1, pendingCode \subseteq Code, NEW a \in Address,
         NEW acct \in Account, SetAccount(a, acct)
  PROVE  /\ TypeOK' /\ Depth' = Depth
         /\ \A b \in Address : b # a => SameAt(b)
         /\ storageOverlays' = storageOverlays
         /\ accountStack'[1][a] = acct
         /\ codeStack'[1][a] = IF acct.codeHash \in pendingCode THEN acct.codeHash
                               ELSE codeStack[1][a]
<1> DEFINE recorded == RecordAccountPrior(changeLevels, accountStack, a)
<1>1. /\ accountStack' = [accountStack EXCEPT ![1][a] = acct]
      /\ codeStack' = IF acct.codeHash \in pendingCode
                      THEN [codeStack EXCEPT ![1][a] = acct.codeHash] ELSE codeStack
      /\ changeLevels' = IF acct.codeHash \in pendingCode
                         THEN RecordCodePrior(recorded, a) ELSE recorded
      /\ UNCHANGED <<storageOverlays, changeSetsSuspended>>
  BY DEF SetAccount, Attached
<1>2. /\ accountStack \in Seq(AccountMap) /\ 1 \in 1..Len(accountStack)
      /\ codeStack \in Seq(CodeMap) /\ 1 \in 1..Len(codeStack)
      /\ accountStack[1] \in AccountMap /\ codeStack[1] \in CodeMap
      /\ acct \in Account \cup {Absent}
      /\ Len(accountStack) = Depth /\ Len(codeStack) = Depth
      /\ changeLevels \in Seq(ChangeSet) /\ Len(changeLevels) = Depth
  BY StackTypes, BottomTypes
<1>3. /\ accountStack' \in Seq(AccountMap)
      /\ Len(accountStack') = Depth
      /\ accountStack'[1] = [accountStack[1] EXCEPT ![a] = acct]
  BY <1>1, <1>2, AccountWriteType
<1>4. /\ codeStack' \in Seq(CodeMap)
      /\ Len(codeStack') = Depth
      /\ codeStack'[1] = IF acct.codeHash \in pendingCode
                         THEN [codeStack[1] EXCEPT ![a] = acct.codeHash] ELSE codeStack[1]
  <2>1. CASE acct.codeHash \in pendingCode
    <3>1. acct.codeHash \in Code
      BY <2>1
    <3>2. codeStack' = [codeStack EXCEPT ![1][a] = acct.codeHash]
      BY <1>1, <2>1
    <3>3. /\ codeStack' \in Seq(CodeMap)
          /\ Len(codeStack') = Depth
          /\ codeStack'[1] = [codeStack[1] EXCEPT ![a] = acct.codeHash]
      BY <1>2, <3>1, <3>2, CodeWriteType
    <3>4. QED
      BY <2>1, <3>3
  <2>2. CASE acct.codeHash \notin pendingCode
    BY <1>1, <1>2, <2>2
  <2>3. QED
    BY <2>1, <2>2
<1>5. recorded \in Seq(ChangeSet) /\ Len(recorded) = Depth
  BY <1>2, RecordAccountPriorType
<1>6. changeLevels' \in Seq(ChangeSet) /\ Len(changeLevels') = Depth
  BY <1>1, <1>5, RecordCodePriorType
<1>7. Depth' = Depth
  BY <1>3 DEF Depth
<1>8. TypeOK'
  BY <1>1, <1>3, <1>4, <1>6, <1>7 DEF TypeOK
<1>9. \A b \in Address : b # a => /\ accountStack'[1][b] = accountStack[1][b]
                                  /\ codeStack'[1][b] = codeStack[1][b]
  BY <1>2, <1>3, <1>4 DEF AccountMap, CodeMap
<1>10. accountStack'[1][a] = acct
  BY <1>2, <1>3 DEF AccountMap
<1>11. codeStack'[1][a] = IF acct.codeHash \in pendingCode THEN acct.codeHash
                          ELSE codeStack[1][a]
  BY <1>2, <1>4 DEF CodeMap
<1>12. QED
  BY <1>1, <1>7, <1>8, <1>9, <1>10, <1>11 DEF SameAt

-----------------------------------------------------------------------------
(* The callbacks, one by one.  In each, `a` is the account at hand.           *)

LEMMA CommitClearInv ==
  ASSUME StoreInv, CommitClear
  PROVE  StoreInv'
<1>0. PICK a : a = execution.at
  OBVIOUS
<1>1. /\ execution.phase = "commit" /\ execution.callback = "clear" /\ Working
      /\ ClearStorageAt(a)
      /\ execution' = [execution EXCEPT !.callback = AfterClear(Change)]
      /\ UNCHANGED storeVars
  BY <1>0 DEF CommitClear, Calls, ClearStorage, ThenCalls, Working
<1>2. /\ a \in Address
      /\ Change \in AnyChange
      /\ AtClear(Change, Found(a), Held(a), execution.slots)
      /\ TypeOK /\ CacheTypes /\ Depth = 1 /\ execution \in CommitType
  BY <1>0, <1>1, CommitFacts, AtHandFacts DEF AtCallback
<1>3. AfterClear(Change) \in Callbacks \ {"next", "clear"}
  BY DEF AfterClear, Callbacks
<1>4. /\ execution' \in CommitType
      /\ execution'.callback = AfterClear(Change)
      /\ execution'.at = a /\ Working' /\ Change' = Change
      /\ execution'.slots = execution.slots
      /\ execution'.left = execution.left /\ SameCommit
  BY <1>0, <1>1, <1>2, <1>3 DEF CommitType, SameCommit, Change, Working
<1>5. CacheTypes'
  BY <1>1, <1>2 DEF CacheTypes, storeVars
<1>6. /\ TypeOK' /\ Depth' = Depth
      /\ \A b \in Address : b # a => SameAt(b)
      /\ accountStack' = accountStack /\ codeStack' = codeStack
      /\ storageOverlays'[1].written[a] = NothingWritten
  BY <1>1, <1>2, ClearedBottom
<1>7. /\ Found(a)' = Found(a)
      /\ Held(a).account = Found(a).account /\ Held(a).code = Found(a).code
      /\ Held(a)'.account = Held(a).account /\ Held(a)'.code = Held(a).code
      /\ Held(a)'.slots = NothingWritten
  BY <1>2, <1>4, <1>6 DEF Found, Held, SameCommit, AtClear
<1>8. SlotsAfter(Change, Found(a).slots, {}) = NothingWritten
  BY <1>2 DEF AtClear, SlotsAfter, NothingWritten
<1>9. Cleared(Change, Found(a), Held(a)')
  BY <1>7, <1>8 DEF Cleared
<1>10. AtCallback(execution'.callback, Change, Found(a), Held(a)', execution'.slots,
                  pendingCode')
  BY <1>2, <1>4, <1>9 DEF AtCallback, AtClear, Wiped, AfterClear, AtRemove, AtCode, Puts
<1>11. QED
  BY <1>0, <1>1, <1>2, <1>4, <1>5, <1>6, <1>10, AtHandInv

LEMMA CommitCodeInv ==
  ASSUME StoreInv, CommitCode
  PROVE  StoreInv'
<1>0. PICK a : a = execution.at
  OBVIOUS
<1>1. /\ execution.phase = "commit" /\ execution.callback = "code" /\ Working
      /\ execution' = [execution EXCEPT !.callback = "account"]
      /\ UNCHANGED vars
      /\ IF Change.loaded /\ Change.code # EmptyCode
         THEN SetCode(Change.code) ELSE UNCHANGED storeVars
  BY <1>0 DEF CommitCode, Calls, SetCode, ThenCalls, Working
<1>2. /\ a \in Address
      /\ Change \in AnyChange
      /\ AtCode(Change, Found(a), Held(a), execution.slots)
      /\ TypeOK /\ CacheTypes /\ Depth = 1 /\ execution \in CommitType
  BY <1>0, <1>1, CommitFacts, AtHandFacts DEF AtCallback
<1>3. /\ execution' \in CommitType
      /\ execution'.callback = "account"
      /\ execution'.at = a /\ Working' /\ Change' = Change
      /\ execution'.slots = execution.slots
      /\ execution'.left = execution.left /\ SameCommit
  BY <1>0, <1>1, <1>2 DEF CommitType, SameCommit, Change, Working, Callbacks
<1>4. /\ CacheTypes'
      /\ Change.loaded => Change.code = EmptyCode \/ Change.code \in pendingCode'
  BY <1>0, <1>1, <1>2 DEF CacheTypes, storeVars, SetCode, AnyChange
<1>5. /\ TypeOK' /\ Depth' = Depth
      /\ \A b \in Address : SameAt(b)
  BY <1>1, StateFrame DEF vars, SameAt
<1>6. Found(a)' = Found(a) /\ Held(a)' = Held(a)
  BY <1>2, <1>3, <1>5 DEF Found, Held, SameCommit, SameAt
<1>7. AtCallback(execution'.callback, Change, Found(a), Held(a)', execution'.slots,
                  pendingCode')
  BY <1>2, <1>3, <1>4, <1>6 DEF AtCallback, AtAccount, AtCode, Cleared
<1>8. QED
  BY <1>0, <1>1, <1>2, <1>3, <1>4, <1>5, <1>7, AtHandInv

(* The code an account names is under its address afterwards: it was handed   *)
(* over, or the account had it and has it still.                             *)
LEMMA CommitSetAccountInv ==
  ASSUME StoreInv, CommitSetAccount
  PROVE  StoreInv'
<1>0. PICK a : a = execution.at
  OBVIOUS
<1>1. /\ execution.phase = "commit" /\ execution.callback = "account" /\ Working
      /\ SetAccount(a, AccountIn(Change))
      /\ execution' = [execution EXCEPT !.callback = "slots"]
      /\ UNCHANGED storeVars
  BY <1>0 DEF CommitSetAccount, Calls, ThenCalls, Working, SetAccount
<1>2. /\ a \in Address
      /\ Change \in AnyChange
      /\ Legal(Change, Found(a))
      /\ Found(a).slots \in Slots
      /\ AtAccount(Change, Found(a), Held(a), execution.slots, pendingCode)
      /\ TypeOK /\ CacheTypes /\ Depth = 1 /\ execution \in CommitType
      /\ Synced(execution.before.accounts, execution.before.code)
  BY <1>0, <1>1, CommitFacts, AtHandFacts DEF AtCallback
<1>3. /\ execution' \in CommitType
      /\ execution'.callback = "slots"
      /\ execution'.at = a /\ Working' /\ Change' = Change
      /\ execution'.slots = execution.slots
      /\ execution'.left = execution.left /\ SameCommit
  BY <1>0, <1>1, <1>2 DEF CommitType, SameCommit, Change, Working, Callbacks
<1>4. CacheTypes'
  BY <1>0, <1>1, <1>2 DEF CacheTypes, storeVars
<1>5. AccountIn(Change) \in Account /\ AccountIn(Change).codeHash = Change.code
  BY <1>2 DEF AccountIn, AnyChange, Account
<1>6. /\ TypeOK' /\ Depth' = Depth
      /\ \A b \in Address : b # a => SameAt(b)
      /\ storageOverlays' = storageOverlays
      /\ accountStack'[1][a] = AccountIn(Change)
      /\ codeStack'[1][a] = IF Change.code \in pendingCode THEN Change.code
                            ELSE codeStack[1][a]
  BY <1>1, <1>2, <1>5, SetAccountBottom DEF CacheTypes
<1>7. /\ Found(a)' = Found(a)
      /\ Held(a)'.account = AccountIn(Change)
      /\ Held(a)'.code = IF Change.code \in pendingCode THEN Change.code ELSE Held(a).code
      /\ Held(a)'.slots = Held(a).slots
  BY <1>2, <1>3, <1>6 DEF Found, Held, SameCommit
<1>8. Change.code # EmptyCode => Held(a)'.code = Change.code
  <2> SUFFICES ASSUME Change.code # EmptyCode, Change.code \notin pendingCode
               PROVE  Held(a).code = Change.code
    BY <1>7
  <2>1. ~Change.loaded /\ Puts(Change) /\ Held(a).code = Found(a).code
    BY <1>2 DEF AtAccount, AtCode, Cleared
  <2>2. Change.kind = "touched" /\ Change.code = HashIn(Found(a).account)
    BY <1>2, <2>1 DEF Legal, Puts
  <2>3. Found(a).code = HashIn(Found(a).account)
    BY <1>2, <2>2 DEF Synced, Found
  <2>4. QED
    BY <2>1, <2>2, <2>3
<1>9. AtSlots(Change, Found(a), Held(a)', execution.slots)
  <2>1. /\ Puts(Change)
        /\ execution.slots = SlotsIn(Change)
        /\ Held(a).slots = SlotsAfter(Change, Found(a).slots, {})
    BY <1>2 DEF AtAccount, AtCode, Cleared
  <2>2. SlotsIn(Change) \ execution.slots = {}
    BY <2>1
  <2>3. QED
    BY <1>7, <1>8, <2>1, <2>2 DEF AtSlots
<1>10. AtCallback(execution'.callback, Change, Found(a), Held(a)', execution'.slots,
                  pendingCode')
  BY <1>3, <1>7, <1>9 DEF AtCallback, AtSlots
<1>11. QED
  BY <1>0, <1>1, <1>2, <1>3, <1>4, <1>6, <1>10, AtHandInv

(* The slots come in any order: what is written is what is not left.          *)
LEMMA CommitSlotInv ==
  ASSUME StoreInv, NEW s \in Slot, CommitSlot(s)
  PROVE  StoreInv'
<1>0. PICK a : a = execution.at
  OBVIOUS
<1>1. /\ execution.phase = "commit" /\ execution.callback = "slots" /\ Working
      /\ s \in execution.slots
      /\ SetStorageAt(a, s, Change.slots[s])
      /\ execution' = [execution EXCEPT !.slots = @ \ {s}]
      /\ UNCHANGED storeVars
  BY <1>0 DEF CommitSlot, Calls, Working
<1>2. /\ a \in Address
      /\ Change \in AnyChange
      /\ Found(a).slots \in Slots
      /\ AtSlots(Change, Found(a), Held(a), execution.slots)
      /\ TypeOK /\ CacheTypes /\ Depth = 1 /\ execution \in CommitType
  BY <1>0, <1>1, CommitFacts, AtHandFacts DEF AtCallback
<1>3. /\ execution' \in CommitType
      /\ execution'.callback = "slots"
      /\ execution'.at = a /\ Working' /\ Change' = Change
      /\ execution'.slots = execution.slots \ {s}
      /\ execution'.left = execution.left /\ SameCommit
  BY <1>0, <1>1, <1>2 DEF CommitType, SameCommit, Change, Working
<1>4. CacheTypes'
  BY <1>1, <1>2 DEF CacheTypes, storeVars
<1>5. Change.slots[s] \in SlotContent /\ execution.slots \subseteq SlotsIn(Change)
  <2>1. execution.slots \subseteq SlotsIn(Change) /\ Change.slots[s] # Absent
    BY <1>1, <1>2 DEF AtSlots, SlotsIn
  <2>2. Change.slots \in SlotChanges
    BY <1>2 DEF AnyChange
  <2>3. QED
    BY <2>1, <2>2 DEF SlotChanges
<1>6. /\ TypeOK' /\ Depth' = Depth
      /\ \A b \in Address : b # a => SameAt(b)
      /\ accountStack' = accountStack /\ codeStack' = codeStack
      /\ storageOverlays'[1].written[a] =
           [storageOverlays[1].written[a] EXCEPT ![s] = Change.slots[s]]
  BY <1>1, <1>2, <1>5, SlotBottom
<1>7. /\ Held(a)'.account = Held(a).account
      /\ Held(a)'.code = Held(a).code
      /\ Held(a)'.slots = [Held(a).slots EXCEPT ![s] = Change.slots[s]]
  BY <1>6 DEF Held
<1>8. Held(a)'.slots =
        SlotsAfter(Change, Found(a).slots, SlotsIn(Change) \ execution'.slots)
  <2>1. Held(a).slots = SlotsAfter(Change, Found(a).slots, SlotsIn(Change) \ execution.slots)
    BY <1>2 DEF AtSlots
  <2>2. \A t \in Slot : t \in SlotsIn(Change) \ execution'.slots
                          <=> t = s \/ t \in SlotsIn(Change) \ execution.slots
    BY <1>1, <1>3, <1>5
  <2>3. QED
    BY <1>7, <2>1, <2>2 DEF SlotsAfter
<1>9. AtSlots(Change, Found(a), Held(a)', execution'.slots)
  BY <1>2, <1>3, <1>5, <1>7, <1>8 DEF AtSlots
<1>10. AtCallback(execution'.callback, Change, Found(a), Held(a)', execution'.slots,
                  pendingCode')
  BY <1>3, <1>9 DEF AtCallback
<1>11. QED
  BY <1>0, <1>1, <1>2, <1>3, <1>4, <1>6, <1>10, AtHandInv

(* The account at hand done, the commit goes on to the next.                 *)
LEMMA ThenNextFacts ==
  ASSUME execution \in CommitType, ThenNext
  PROVE  /\ execution' \in CommitType
         /\ ~Working'
         /\ execution'.left = execution.left /\ SameCommit
BY DEF ThenNext, CommitType, SameCommit, Working, Callbacks

LEMMA CommitSlotsDoneInv ==
  ASSUME StoreInv, CommitSlotsDone
  PROVE  StoreInv'
<1>0. PICK a : a = execution.at
  OBVIOUS
<1>1. /\ execution.phase = "commit" /\ execution.callback = "slots" /\ Working
      /\ execution.slots = {}
      /\ ThenNext
      /\ UNCHANGED <<vars, storeVars>>
  BY DEF CommitSlotsDone, Calls, Working
<1>2. /\ a \in Address
      /\ Change \in AnyChange
      /\ AtSlots(Change, Found(a), Held(a), execution.slots)
      /\ TypeOK /\ CacheTypes /\ Depth = 1 /\ execution \in CommitType
  BY <1>0, <1>1, CommitFacts, AtHandFacts DEF AtCallback
<1>3. /\ execution' \in CommitType /\ ~Working'
      /\ execution'.left = execution.left /\ SameCommit
  BY <1>1, <1>2, ThenNextFacts
<1>4. CacheTypes'
  BY <1>1, <1>2 DEF CacheTypes, storeVars
<1>5. /\ TypeOK' /\ Depth' = Depth
      /\ \A b \in Address : SameAt(b)
      /\ Held(a)' = Held(a)
  BY <1>1, StateFrame DEF vars, SameAt, Held
<1>6. Done(Change, Found(a), Held(a))
  <2>1. AccountIn(Change) # Absent /\ AccountIn(Change).codeHash = Change.code
    BY <1>2, OverlayAssumption DEF AccountIn, AnyChange, Account
  <2>2. Left(Change) = AccountIn(Change) /\ HashIn(Left(Change)) = Change.code
    BY <1>2, <2>1 DEF AtSlots, Puts, Left, HashIn
  <2>3. SlotsIn(Change) \ execution.slots = SlotsIn(Change)
    BY <1>1
  <2>4. QED
    BY <1>2, <2>2, <2>3 DEF Done, AtSlots
<1>7. Change.kind # "untouched" /\ Done(Change, Found(a), Held(a)')
  BY <1>2, <1>5, <1>6 DEF AtSlots, Puts
<1>8. QED
  BY <1>0, <1>1, <1>2, <1>3, <1>4, <1>5, <1>7, AtHandInv

LEMMA CommitRemoveInv ==
  ASSUME StoreInv, CommitRemove
  PROVE  StoreInv'
<1>0. PICK a : a = execution.at
  OBVIOUS
<1>1. /\ execution.phase = "commit" /\ execution.callback = "remove" /\ Working
      /\ SetAccountAt(a, Absent)
      /\ ThenNext
      /\ UNCHANGED storeVars
  BY <1>0 DEF CommitRemove, Calls, Working
<1>2. /\ a \in Address
      /\ Legal(Change, Found(a))
      /\ AtRemove(Change, Found(a), Held(a))
      /\ TypeOK /\ CacheTypes /\ Depth = 1 /\ execution \in CommitType
  BY <1>0, <1>1, CommitFacts, AtHandFacts DEF AtCallback
<1>3. /\ execution' \in CommitType /\ ~Working'
      /\ execution'.left = execution.left /\ SameCommit
  BY <1>1, <1>2, ThenNextFacts
<1>4. CacheTypes'
  BY <1>1, <1>2 DEF CacheTypes, storeVars
<1>5. /\ TypeOK' /\ Depth' = Depth
      /\ \A b \in Address : b # a => SameAt(b)
      /\ storageOverlays' = storageOverlays
      /\ accountStack'[1][a] = Absent
  BY <1>1, <1>2, AccountBottom
<1>6. Held(a)'.account = Absent /\ Held(a)'.slots = Held(a).slots
  BY <1>5 DEF Held
<1>7. Done(Change, Found(a), Held(a)')
  <2>1. Left(Change) = Absent /\ HashIn(Left(Change)) = EmptyCode
    BY <1>2 DEF AtRemove, Left, HashIn
  <2>2. SlotsIn(Change) = {}
    BY <1>2 DEF AtRemove, Legal, SlotsIn, NoSlots
  <2>3. Held(a).slots = SlotsAfter(Change, Found(a).slots, {})
    BY <1>2 DEF AtRemove, Cleared
  <2>4. QED
    BY <1>6, <2>1, <2>2, <2>3 DEF Done
<1>8. Change.kind # "untouched"
  BY <1>2 DEF AtRemove
<1>9. QED
  BY <1>0, <1>1, <1>2, <1>3, <1>4, <1>5, <1>7, <1>8, AtHandInv

-----------------------------------------------------------------------------
(* The start, the turn and the end of a commit. *)

LEMMA ChangesTypes ==
  ASSUME TypeOK, NEW a \in Address, NEW change \in ChangesOf(a)
  PROVE  /\ change \in AnyChange
         /\ change.kind = "touched" => change.code = HashOf(a)
         /\ change.kind = "created" => change.loaded
         /\ change.kind \in {"untouched", "removed"} => change.slots = NoSlots
<1>1. HashOf(a) \in Code
  BY HashTypes
<1>2. NoSlots \in SlotChanges
  BY DEF NoSlots, SlotChanges
<1>3. \/ change = Untouched
      \/ change \in [kind : {"touched"}, fields : Fields, code : {HashOf(a)},
                     loaded : BOOLEAN, slots : SlotChanges]
      \/ change \in [kind : {"created"}, fields : Fields, code : Code, loaded : {TRUE},
                     slots : SlotChanges]
      \/ change \in [kind : {"removed"}, fields : {ZeroFields}, code : {EmptyCode},
                     loaded : {FALSE}, slots : {NoSlots}]
  BY <1>2 DEF ChangesOf
<1>4. CASE change = Untouched
  BY <1>2, <1>4, OverlayAssumption DEF Untouched, AnyChange
<1>5. CASE change # Untouched
  BY <1>1, <1>2, <1>3, <1>5, OverlayAssumption DEF AnyChange
<1>6. QED
  BY <1>4, <1>5

LEMMA BeginCommitInv ==
  ASSUME StoreInv, BeginCommit
  PROVE  StoreInv'
<1>1. /\ execution.phase = "run" /\ execution.commits
      /\ UNCHANGED <<vars, storeVars>>
      /\ TypeOK /\ CacheTypes /\ Depth = 1 /\ LevelsSynced
  BY DEF BeginCommit, StoreInv, RunsOnBottom
<1>2. PICK changes \in [Address -> UNION {ChangesOf(a) : a \in Address}] :
        /\ \A a \in Address : changes[a] \in ChangesOf(a)
        /\ execution' =
             [phase |-> "commit", changes |-> changes, before |-> LevelState(1),
              left |-> {a \in Address : changes[a].kind # "untouched"}, at |-> Absent,
              callback |-> "next", slots |-> {}]
  BY DEF BeginCommit
<1>3. /\ TypeOK' /\ Depth' = 1
      /\ \A b \in Address : SameAt(b)
  BY <1>1, StateFrame DEF vars, SameAt
<1>4. CacheTypes'
  BY <1>1 DEF CacheTypes, storeVars
<1>5. /\ LevelState(1) \in StateType
      /\ LevelState(1).accounts = accountStack[1]
      /\ LevelState(1).code = codeStack[1]
      /\ LevelState(1).storage = storageOverlays[1].written
  BY <1>1, BottomTypes DEF LevelState
<1>6. /\ execution'.phase = "commit" /\ ~Working'
      /\ execution'.changes = changes
      /\ execution'.before = LevelState(1)
      /\ execution'.left = {a \in Address : changes[a].kind # "untouched"}
  BY <1>2 DEF Working
<1>7. \A a \in Address : changes[a] \in AnyChange
  BY <1>1, <1>2, ChangesTypes
<1>8. execution' \in CommitType
  <2>1. changes \in [Address -> AnyChange]
    BY <1>2, <1>7
  <2>2. QED
    BY <1>2, <1>5, <2>1 DEF CommitType, Callbacks
<1>9. \A a \in Address : Found(a)' = Held(a) /\ Held(a)' = Held(a)
  BY <1>3, <1>5, <1>6 DEF Found, Held, SameAt
<1>10. ChangesLegal'
  <2>1. ASSUME NEW a \in Address
        PROVE  Legal(changes[a], Held(a))
    <3>1. /\ changes[a].kind = "touched" => changes[a].code = HashOf(a)
          /\ changes[a].kind = "created" => changes[a].loaded
          /\ changes[a].kind \in {"untouched", "removed"} => changes[a].slots = NoSlots
      BY <1>1, <1>2, ChangesTypes
    <3>2. HashOf(a) = HashIn(Held(a).account)
      BY <1>1, HashTypes DEF Held
    <3>3. QED
      BY <3>1, <3>2 DEF Legal
  <2>2. QED
    BY <1>6, <1>9, <2>1 DEF ChangesLegal
<1>11. Synced(execution'.before.accounts, execution'.before.code)
  <2>1. Synced(accountStack[1], codeStack[1])
    BY <1>1 DEF LevelsSynced
  <2>2. QED
    BY <1>5, <1>6, <2>1
<1>12. LeftTouched' /\ AtHand'
  BY <1>6 DEF LeftTouched, AtHand
<1>13. Others'
  <2>1. ASSUME NEW a \in Address
        PROVE  Elsewhere(execution'.changes[a], Found(a)', Held(a)', a \in execution'.left)
    BY <1>6, <1>9 DEF Elsewhere
  <2>2. QED
    BY <2>1 DEF Others
<1>14. CommitInv'
  BY <1>3, <1>10, <1>11, <1>12, <1>13 DEF CommitInv
<1>15. QED
  BY <1>3, <1>4, <1>8, <1>14, CommitFrame

(* An account's turn comes once, and finds it as the commit found it.         *)
LEMMA CommitAccountInv ==
  ASSUME StoreInv, NEW a \in Address, CommitAccount(a)
  PROVE  StoreInv'
<1> DEFINE change == execution.changes[a]
<1>1. /\ execution.phase = "commit" /\ ~Working
      /\ a \in execution.left
      /\ execution' = [execution EXCEPT !.left = @ \ {a}, !.at = a,
                         !.callback = FirstCallback(change), !.slots = SlotsIn(change)]
      /\ UNCHANGED <<vars, storeVars>>
  BY DEF CommitAccount, Calls, Working
<1>2. /\ TypeOK /\ CacheTypes /\ Depth = 1 /\ execution \in CommitType
      /\ change \in AnyChange
      /\ execution.before \in StateType
      /\ Synced(execution.before.accounts, execution.before.code)
      /\ ChangesLegal /\ LeftTouched /\ Others
  BY <1>1, CommitFacts DEF StoreInv, CommitInv
<1>3. /\ TypeOK' /\ Depth' = 1
      /\ \A b \in Address : SameAt(b)
  BY <1>1, <1>2, StateFrame DEF vars, SameAt
<1>4. CacheTypes'
  BY <1>1, <1>2 DEF CacheTypes, storeVars
<1>5. FirstCallback(change) \in Callbacks \ {"next"} /\ SlotsIn(change) \subseteq Slot
  BY DEF FirstCallback, Callbacks, SlotsIn
<1>6. /\ execution' \in CommitType
      /\ execution'.phase = "commit" /\ Working'
      /\ execution'.at = a
      /\ execution'.callback = FirstCallback(change)
      /\ execution'.slots = SlotsIn(change)
      /\ execution'.left = execution.left \ {a}
      /\ SameCommit
  <2> HIDE DEF change
  <2>1. QED
    BY <1>1, <1>2, <1>5 DEF CommitType, SameCommit, Working
<1>7. \A b \in Address : Found(b)' = Found(b) /\ Held(b)' = Held(b)
  BY <1>3, <1>6 DEF Found, Held, SameAt, SameCommit
<1>8. Held(a) = Found(a) /\ change.kind # "untouched" /\ Found(a).slots \in Slots
  <2>1. Elsewhere(change, Found(a), Held(a), a \in execution.left)
    BY <1>1, <1>2 DEF Others
  <2>2. QED
    BY <1>1, <1>2, <2>1 DEF Elsewhere, LeftTouched, Found, StateType
<1>9. AtCallback(FirstCallback(change), change, Found(a), Held(a), SlotsIn(change),
                 pendingCode')
  <2>1. CASE change.kind = "touched"
    <3>1. SlotsAfter(change, Found(a).slots, {}) = Found(a).slots
      BY <1>8, <2>1 DEF SlotsAfter, Wiped, Slots
    <3>2. AtCode(change, Found(a), Held(a), SlotsIn(change))
      BY <1>8, <2>1, <3>1 DEF AtCode, Cleared, Puts
    <3>3. QED
      BY <2>1, <3>2 DEF AtCallback, FirstCallback
  <2>2. CASE change.kind # "touched"
    <3>1. Wiped(change)
      BY <1>2, <1>8, <2>2 DEF AnyChange, Wiped
    <3>2. QED
      BY <1>8, <2>2, <3>1 DEF AtCallback, AtClear, FirstCallback
  <2>3. QED
    BY <2>1, <2>2
<1>10. AtHand'
  <2>1. Change' = change /\ execution'.at \in Address \ execution'.left
    BY <1>6 DEF Change, SameCommit
  <2>2. AtCallback(execution'.callback, Change', Found(execution.at)',
                   Held(execution.at)', execution'.slots, pendingCode')
    BY <1>6, <1>7, <1>9, <2>1 DEF Found, Held
  <2>3. QED
    BY <2>1, <2>2 DEF AtHand
<1>11. Others'
  <2>1. ASSUME NEW b \in Address, b # a
        PROVE  Elsewhere(execution'.changes[b], Found(b)', Held(b)', b \in execution'.left)
    <3>1. Elsewhere(execution.changes[b], Found(b), Held(b), b \in execution.left)
      BY <1>1, <1>2 DEF Others
    <3>2. QED
      BY <1>6, <1>7, <2>1, <3>1 DEF Elsewhere, SameCommit
  <2>2. QED
    BY <1>6, <2>1 DEF Others
<1>12. /\ ChangesLegal' /\ LeftTouched'
       /\ Synced(execution'.before.accounts, execution'.before.code)
  BY <1>2, <1>6, <1>7 DEF ChangesLegal, LeftTouched, SameCommit
<1>13. CommitInv'
  BY <1>3, <1>10, <1>11, <1>12 DEF CommitInv
<1>14. QED
  BY <1>3, <1>4, <1>6, <1>13, CommitFrame

(* With every account done or untouched, the code of each is under its own    *)
(* address again.                                                           *)
LEMMA EndCommitInv ==
  ASSUME StoreInv, EndCommit
  PROVE  StoreInv'
<1>1. /\ execution.phase = "commit" /\ ~Working /\ execution.left = {}
      /\ execution' = Idle
      /\ TakeChangeSet
      /\ UNCHANGED storeVars
  BY DEF EndCommit, Committed, Calls, Working
<1>2. /\ TypeOK /\ CacheTypes /\ Depth = 1
      /\ Synced(execution.before.accounts, execution.before.code)
      /\ Others
  BY <1>1, CommitFacts DEF StoreInv, CommitInv
<1>3. TypeOK'
  BY <1>1, <1>2, NextTypeOK DEF Next, LevelStep
<1>4. accountStack' = accountStack /\ codeStack' = codeStack /\ Depth' = 1
  BY <1>1, <1>2 DEF TakeChangeSet, Depth
<1>5. Synced(accountStack[1], codeStack[1])
  <2> SUFFICES ASSUME NEW a \in Address, HashIn(accountStack[1][a]) # EmptyCode
               PROVE  codeStack[1][a] = HashIn(accountStack[1][a])
    BY DEF Synced
  <2>1. Elsewhere(execution.changes[a], Found(a), Held(a), a \in execution.left)
    BY <1>1, <1>2 DEF Others
  <2>2. CASE execution.changes[a].kind = "untouched"
    <3>1. /\ accountStack[1][a] = execution.before.accounts[a]
          /\ codeStack[1][a] = execution.before.code[a]
      BY <2>1, <2>2 DEF Elsewhere, Held, Found
    <3>2. QED
      BY <1>2, <3>1 DEF Synced
  <2>3. CASE execution.changes[a].kind # "untouched"
    <3>1. Done(execution.changes[a], Found(a), Held(a))
      BY <1>1, <2>1, <2>3 DEF Elsewhere
    <3>2. QED
      BY <3>1 DEF Done, Held
  <2>4. QED
    BY <2>2, <2>3
<1>6. execution'.phase = "idle"
  BY <1>1 DEF Idle
<1>7. LevelsSynced'
  BY <1>4, <1>5 DEF LevelsSynced
<1>8. /\ CacheTypes' /\ ExecutionType' /\ RunsOnBottom' /\ AbsentIsAbsent' /\ CommitInv'
  BY <1>1, <1>2, <1>6
     DEF CacheTypes, storeVars, ExecutionType, RunsOnBottom, AbsentIsAbsent, CommitInv
<1>9. QED
  BY <1>3, <1>7, <1>8 DEF StoreInv

-----------------------------------------------------------------------------
LEMMA StoreNextInv == StoreInv /\ [StoreNext]_allVars => StoreInv'
<1> SUFFICES ASSUME StoreInv, [StoreNext]_allVars PROVE StoreInv'
  OBVIOUS
<1>1. CASE UNCHANGED allVars
  <2>1. UNCHANGED vars /\ UNCHANGED storeVars /\ UNCHANGED execution
    BY <1>1 DEF allVars
  <2>2. StoreInv <=> StoreInv'
    BY <2>1 DEF vars, storeVars, StoreInv, TypeOK, Depth, CacheTypes, ExecutionType,
       RunsOnBottom, LevelsSynced, AbsentIsAbsent, CommitInv, ChangesLegal, LeftTouched,
       AtHand, Others, Working, Change, Held, Found, Top
  <2>3. QED
    BY <2>2
<1>2. CASE StoreNext
  BY <1>2, BeginInv, OpenEntriesInv, CloseEntriesInv, SetCodeCheatInv, LoadCodeInv,
     EndWithoutCommitInv, BeginCommitInv, CommitAccountInv, CommitClearInv, CommitCodeInv,
     CommitSetAccountInv, CommitSlotInv, CommitSlotsDoneInv, CommitRemoveInv, EndCommitInv
     DEF StoreNext
<1>3. QED
  BY <1>1, <1>2

LEMMA StoreHolds == StoreSpec => []StoreInv
<1>1. QED
  BY StoreInitInv, StoreNextInv, PTL DEF StoreSpec

(* Whenever revm runs it finds the code of every account it can meet: no      *)
(* contract runs as empty code (getCode and #reindexCode of                   *)
(* revm-state-store.ts).                                                     *)
THEOREM CodeAlwaysFound == StoreSpec => []CodeFound
<1>1. QED
  BY StoreHolds, InvFindsCode, PTL

(* The node keeps the code of every account under the account's own address,  *)
(* whatever a commit handed over and in whichever order (setAccount).         *)
THEOREM EveryAccountKeepsCode == StoreSpec => []CodeOfEveryAccount
<1>1. QED
  BY StoreHolds, InvKeepsCode, PTL

(* A commit leaves the accounts and the storage the transaction left, and     *)
(* everything else as it was, however revm orders accounts and slots (the     *)
(* callbacks of commitState).                                                *)
THEOREM CommitsExact == StoreSpec => []CommitExact
<1>1. QED
  BY StoreHolds, InvCommitsExact, PTL

-----------------------------------------------------------------------------
(* THE PAST.                                                                *)
(* A request at an earlier block reads that block, with its overrides on     *)
(* top, and leaves nothing behind.                                          *)
(*                                                                         *)
(* Each record turns the state its block ended in into the one before, so of *)
(* all the records after a block the first to name a key has the value the    *)
(* key had in it.  What the entries say of an address is a function of what   *)
(* it holds (After): while they are written one by one, what is held and what *)
(* is left to say come to the same, and when all is said what is held is the  *)
(* block, overridden.                                                       *)

(* What an address holds in a state.                                        *)
HeldIn(state, a) ==
  [account |-> state.accounts[a], code |-> state.code[a], slots |-> state.storage[a]]

OrNew(acct) == IF acct = Absent THEN NewAccount ELSE acct

(* What it holds after everything an entry still states.                     *)
AccountAfter(e, acct) ==
  LET coded == IF e.code = Absent THEN acct ELSE [OrNew(acct) EXCEPT !.codeHash = e.code]
      whole == IF e.account = Absent THEN coded ELSE e.account
  IN  IF e.absent # "no" THEN Absent
      ELSE IF e.fields = Absent THEN whole
      ELSE [OrNew(whole) EXCEPT !.fields = e.fields]

CodeAfter(e, code) ==
  IF e.absent = "empty" THEN EmptyCode ELSE IF e.code = Absent THEN code ELSE e.code

SlotAfter(e, s, v) ==
  IF e.absent # "no" THEN Absent
  ELSE IF e.slots[s] # Absent THEN e.slots[s]
  ELSE IF e.clearStorage THEN Absent ELSE v

After(e, held) ==
  [account |-> AccountAfter(e, held.account), code |-> CodeAfter(e, held.code),
   slots |-> [s \in Slot |-> SlotAfter(e, s, held.slots[s])]]

AfterIf(stated, e, held) == IF stated THEN After(e, held) ELSE held

(* What the entries of a request make of what an address held ...             *)
Meant(a) ==
  AfterIf(a \in Overrides(call.override), call.override[a],
    AfterIf(a \in HistoricalAt(call.block, call.union), HistoricalEntry(call.union, a),
            HeldIn(call.before[1], a)))

(* ... and what those not written yet will make of what it holds.             *)
Ending(state, a) ==
  AfterIf(a \in call.overridden, call.override[a],
    AfterIf(a \in call.historical, HistoricalEntry(call.union, a),
      AfterIf(a = call.at, call.entry, HeldIn(state, a))))

AsExpected(held, a) ==
  /\ held.account = Expected.accounts[a]
  /\ StateAt(call.block).accounts[a] # Absent =>
       /\ Bytes(held.code) = Expected.code[a]
       /\ \A s \in Slot : Word(held.slots[s]) = Expected.storage[a][s]

CodeNamesAccount(record) ==
  \A a \in Address : record.code[a] # NotRecorded => record.accounts[a] # NotRecorded

ClearedWasEmpty(record, state) ==
  \A a \in record.storageCleared \cap Address, s \in Slot :
    record.storage[a][s] = NotRecorded => state.storage[a][s] = Absent

(* Each record turns the state its block ended in into the one before.        *)
RecordsLinked ==
  /\ \A i \in 1..HeadNumber :
       /\ Undo(past[i + 1], sealed[i]) = past[i]
       /\ CodeNamesAccount(sealed[i])
       /\ ClearedWasEmpty(sealed[i], past[i + 1])
  /\ Undo(LevelState(1), changeLevels[1]) = past[HeadNumber + 1]
  /\ CodeNamesAccount(changeLevels[1])

Open == [phase : {"open", "write", "read", "run", "ran", "close"}, block : 0..HeadNumber,
         override : Override, union : ChangeSet, historical : SUBSET Address,
         overridden : SUBSET Address, level : BOOLEAN, at : Address \cup {Absent},
         entry : Stated, before : {<<LevelState(1), changeLevels[1]>>}]

EntryDepth == IF call.level THEN 2 ELSE 1

DepthOf(phase) ==
  IF phase \in {"open", "close"} THEN 1
  ELSE IF phase \in {"write", "read"} THEN EntryDepth ELSE EntryDepth + 1

EntriesInOrder ==
  /\ call.entry # NothingStated => call.at \in Address /\ call.level
  /\ call.historical \cup call.overridden # {} => call.level
  /\ call.overridden \subseteq Overrides(call.override)

EntriesEnd ==
  /\ call.phase \in {"open", "write"} =>
       \A a \in Address : Ending(LevelState(Depth), a) = Meant(a)
  /\ call.phase \in {"read", "run", "ran"} =>
       \A a \in Address : HeldIn(LevelState(EntryDepth), a) = Meant(a)

InCall ==
  /\ call \in Open
  /\ changeSetsSuspended = 1
  /\ Depth = DepthOf(call.phase)
  /\ EntriesInOrder
  /\ EntriesEnd
  /\ \A a \in Address : AsExpected(Meant(a), a)

HistoryTypes ==
  /\ sealed \in Seq(ChangeSet)
  /\ past \in Seq(StateType)
  /\ Len(past) = HeadNumber + 1

CallInv ==
  /\ TypeOK
  /\ LevelRecordsUndo
  /\ AllClearsExplained
  /\ HistoryTypes
  /\ RecordsLinked
  /\ IF call = NoCall THEN Depth = 1 /\ changeSetsSuspended = 0 ELSE InCall
-----------------------------------------------------------------------------
(* The union of the records. *)

LEMMA MinExists ==
  ASSUME NEW S \in SUBSET Nat, S # {}
  PROVE  /\ Min(S) \in S
         /\ \A y \in S : Min(S) <= y
<1> DEFINE R == {e \in Nat \X Nat : e[1] < e[2]}
<1>1. IsWellFoundedOn(R, Nat)
  BY NatLessThanWellFounded DEF OpToRel
<1>2. PICK m \in S : \A k \in S : ~ (<<k, m>> \in R)
  <2> HIDE DEF R
  <2>1. QED
    BY <1>1, WFMin
<1>3. \A k \in S : m <= k
  <2>1. ASSUME NEW k \in S PROVE m <= k
    <3>1. k \in Nat /\ m \in Nat
      OBVIOUS
    <3>2. k < m => <<k, m>> \in R
      BY <3>1
    <3>3. QED
      BY <1>2, <3>1, <3>2
  <2>2. QED
    BY <2>1
<1>4. \E x \in S : \A y \in S : x <= y
  BY <1>3
<1>5. QED
  BY <1>4 DEF Min

(* A value that no step of a range changes is the same all over it.           *)
LEMMA ChainConstant ==
  ASSUME NEW lo \in Nat, NEW hi \in Nat, NEW v,
         \A i \in lo..(hi - 1) : v[i] = v[i + 1]
  PROVE  \A i \in lo..hi : v[i] = v[lo]
<1> DEFINE Wrong == {i \in lo..hi : v[i] # v[lo]}
<1>1. SUFFICES ASSUME Wrong # {} PROVE FALSE
  OBVIOUS
<1>2. Wrong \in SUBSET Nat
  OBVIOUS
<1>3. /\ Min(Wrong) \in Wrong
      /\ \A y \in Wrong : Min(Wrong) <= y
  <2> HIDE DEF Wrong
  <2>1. QED
    BY <1>1, <1>2, MinExists
<1>4. PICK m \in Wrong : \A y \in Wrong : m <= y
  BY <1>3
<1>5. m \in (lo + 1)..hi /\ m - 1 \in lo..(hi - 1) /\ (m - 1) + 1 = m
  BY <1>4
<1>6. m - 1 \in Wrong
  BY <1>4, <1>5
<1>7. QED
  BY <1>4, <1>5, <1>6

(* The earliest record to name a key has its value from before all of them.    *)
LEMMA EarliestExact ==
  ASSUME NEW lo \in Nat, NEW hi \in Nat, lo <= hi, NEW priors, NEW value,
         DOMAIN priors = lo..hi,
         \A i \in lo..hi : value[i] = KeepOlder(priors[i], value[i + 1])
  PROVE  /\ KeepOlder(Earliest(priors), value[hi + 1]) = value[lo]
         /\ Earliest(priors) = NotRecorded =>
              \A i \in lo..hi :
                priors[i] = NotRecorded /\ value[i + 1] = value[lo]
         /\ Earliest(priors) # NotRecorded =>
              \E i \in lo..hi : Earliest(priors) = priors[i]
<1> DEFINE naming == {i \in DOMAIN priors : priors[i] # NotRecorded}
<1>1. CASE naming = {}
  <2>1. \A i \in lo..hi : priors[i] = NotRecorded
    BY <1>1
  <2>2. \A i \in lo..((hi + 1) - 1) : value[i] = value[i + 1]
    BY <2>1 DEF KeepOlder
  <2>3. \A i \in lo..(hi + 1) : value[i] = value[lo]
    <3>1. hi + 1 \in Nat
      OBVIOUS
    <3>2. QED
      BY <2>2, <3>1, ChainConstant
  <2>4. Earliest(priors) = NotRecorded
    BY <1>1 DEF Earliest
  <2>5. value[hi + 1] = value[lo]
    BY <2>3
  <2>6. \A i \in lo..hi : value[i + 1] = value[lo]
    BY <2>3
  <2>7. QED
    BY <2>1, <2>4, <2>5, <2>6 DEF KeepOlder
<1>2. CASE naming # {}
  <2>1. Earliest(priors) = priors[Min(naming)]
    BY <1>2 DEF Earliest
  <2>2. naming \in SUBSET Nat
    OBVIOUS
  <2>3. /\ Min(naming) \in naming
        /\ \A y \in naming : Min(naming) <= y
    <3> HIDE DEF naming
    <3>1. QED
      BY <1>2, <2>2, MinExists
  <2>4. PICK m : m = Min(naming)
    OBVIOUS
  <2>5. m \in lo..hi /\ priors[m] # NotRecorded
    BY <2>3, <2>4
  <2>6. \A i \in lo..(m - 1) : priors[i] = NotRecorded
    <3>1. ASSUME NEW i \in lo..(m - 1), priors[i] # NotRecorded PROVE FALSE
      <4>1. i \in naming
        BY <2>5, <3>1
      <4>2. m <= i
        BY <2>3, <2>4, <4>1
      <4>3. QED
        BY <2>5, <4>2
    <3>2. QED
      BY <3>1
  <2>7. \A i \in lo..(m - 1) : value[i] = value[i + 1]
    <3>1. ASSUME NEW i \in lo..(m - 1) PROVE value[i] = value[i + 1]
      <4>1. i \in lo..hi
        BY <2>5
      <4>2. QED
        BY <2>6, <4>1 DEF KeepOlder
    <3>2. QED
      BY <3>1
  <2>8. value[m] = value[lo]
    <3>1. m \in Nat /\ m \in lo..m
      BY <2>5
    <3>2. \A i \in lo..m : value[i] = value[lo]
      BY <2>7, <3>1, ChainConstant
    <3>3. QED
      BY <3>1, <3>2
  <2>9. value[m] = priors[m]
    BY <2>5 DEF KeepOlder
  <2>10. QED
    BY <2>1, <2>4, <2>5, <2>8, <2>9 DEF KeepOlder
<1>3. QED
  BY <1>1, <1>2

-----------------------------------------------------------------------------
(* Entries. *)

HeldType ==
  [account : Account \cup {Absent}, code : Code \cup {Absent},
   slots : [Slot -> SlotContent \cup {Absent}]]

LEMMA ConstantsApart ==
  /\ NewAccount \in Account
  /\ Absent \notin Account /\ Absent \notin Code /\ Absent \notin SlotContent
  /\ NotRecorded \notin Account /\ NotRecorded \notin Code /\ NotRecorded \notin SlotContent
  /\ NotRecorded # Absent
  /\ EmptyCode \in Code
  /\ EmptyValue \in SlotContent
  /\ NothingWritten \in [Slot -> SlotContent \cup {Absent}]
  /\ \A s \in Slot : NothingWritten[s] = Absent
  BY OverlayAssumption DEF NewAccount, Account, SlotContent, NothingWritten

LEMMA OrNewType ==
  ASSUME NEW acct \in Account \cup {Absent}
  PROVE  OrNew(acct) \in Account
  BY ConstantsApart DEF OrNew

LEMMA SameHeld ==
  ASSUME NEW h \in HeldType, NEW g, g \in HeldType,
         g.account = h.account, g.code = h.code, \A s \in Slot : g.slots[s] = h.slots[s]
  PROVE  g = h
<1>1. g.slots = h.slots
  BY DEF HeldType
<1>2. QED
  BY <1>1 DEF HeldType

LEMMA SameAfter ==
  ASSUME NEW e, NEW h, NEW d, NEW g,
         AccountAfter(e, h.account) = AccountAfter(d, g.account),
         CodeAfter(e, h.code) = CodeAfter(d, g.code),
         \A s \in Slot : SlotAfter(e, s, h.slots[s]) = SlotAfter(d, s, g.slots[s])
  PROVE  After(e, h) = After(d, g)
<1>1. [s \in Slot |-> SlotAfter(e, s, h.slots[s])]
        = [s \in Slot |-> SlotAfter(d, s, g.slots[s])]
  OBVIOUS
<1>2. QED
  BY <1>1 DEF After

LEMMA AfterNothing ==
  ASSUME NEW h \in HeldType
  PROVE  After(NothingStated, h) = h
<1>1. /\ AccountAfter(NothingStated, h.account) = h.account
      /\ CodeAfter(NothingStated, h.code) = h.code
      /\ \A s \in Slot : SlotAfter(NothingStated, s, h.slots[s]) = h.slots[s]
  BY ConstantsApart DEF AccountAfter, CodeAfter, SlotAfter, NothingStated
<1>2. [s \in Slot |-> SlotAfter(NothingStated, s, h.slots[s])] = h.slots
  BY <1>1 DEF HeldType
<1>3. QED
  BY <1>1, <1>2 DEF After, HeldType

Clears(e) == e.clearStorage = TRUE

(* What each write takes from the entry it adds to what is held.              *)
LEMMA SameEndCode ==
  ASSUME NEW e \in Stated, NEW h \in HeldType, e.code # Absent,
         NEW d, d = [e EXCEPT !.code = Absent], NEW g,
         g = [account |-> [OrNew(h.account) EXCEPT !.codeHash = e.code],
              code |-> e.code, slots |-> h.slots]
  PROVE  After(d, g) = After(e, h)
<1>1. /\ d.account = e.account /\ d.code = Absent /\ d.fields = e.fields
      /\ d.absent = e.absent /\ d.slots = e.slots /\ d.clearStorage = e.clearStorage
  BY DEF Stated
<1>2. AccountAfter(d, g.account) = AccountAfter(e, h.account)
  BY <1>1 DEF AccountAfter
<1>3. CodeAfter(d, g.code) = CodeAfter(e, h.code)
  BY <1>1 DEF CodeAfter
<1>4. \A s \in Slot : SlotAfter(d, s, g.slots[s]) = SlotAfter(e, s, h.slots[s])
  BY <1>1 DEF SlotAfter
<1>5. QED
  BY ONLY <1>2, <1>3, <1>4, SameAfter

LEMMA SameEndAccount ==
  ASSUME NEW e \in Stated, NEW h \in HeldType, e.code = Absent, e.account # Absent,
         NEW d, d = [e EXCEPT !.account = Absent], NEW g,
         g = [account |-> e.account, code |-> h.code, slots |-> h.slots]
  PROVE  After(d, g) = After(e, h)
<1>1. /\ d.account = Absent /\ d.code = Absent /\ d.fields = e.fields
      /\ d.absent = e.absent /\ d.slots = e.slots /\ d.clearStorage = e.clearStorage
  BY DEF Stated
<1>2. AccountAfter(d, g.account) = AccountAfter(e, h.account)
  BY <1>1 DEF AccountAfter
<1>3. CodeAfter(d, g.code) = CodeAfter(e, h.code)
  BY <1>1 DEF CodeAfter
<1>4. \A s \in Slot : SlotAfter(d, s, g.slots[s]) = SlotAfter(e, s, h.slots[s])
  BY <1>1 DEF SlotAfter
<1>5. QED
  BY ONLY <1>2, <1>3, <1>4, SameAfter

LEMMA SameEndFields ==
  ASSUME NEW e \in Stated, NEW h \in HeldType, e.code = Absent, e.account = Absent,
         e.fields # Absent,
         NEW d, d = [e EXCEPT !.fields = Absent], NEW g,
         g = [account |-> [OrNew(h.account) EXCEPT !.fields = e.fields],
              code |-> h.code, slots |-> h.slots]
  PROVE  After(d, g) = After(e, h)
<1>1. /\ d.account = Absent /\ d.code = Absent /\ d.fields = Absent
      /\ d.absent = e.absent /\ d.slots = e.slots /\ d.clearStorage = e.clearStorage
  BY DEF Stated
<1>2. AccountAfter(d, g.account) = AccountAfter(e, h.account)
  BY <1>1 DEF AccountAfter
<1>3. CodeAfter(d, g.code) = CodeAfter(e, h.code)
  BY <1>1 DEF CodeAfter
<1>4. \A s \in Slot : SlotAfter(d, s, g.slots[s]) = SlotAfter(e, s, h.slots[s])
  BY <1>1 DEF SlotAfter
<1>5. QED
  BY ONLY <1>2, <1>3, <1>4, SameAfter

LEMMA SameEndClear ==
  ASSUME NEW e \in Stated, NEW h \in HeldType, Clears(e),
         NEW d, d = [e EXCEPT !.clearStorage = FALSE], NEW g,
         g = [account |-> h.account, code |-> h.code, slots |-> NothingWritten]
  PROVE  After(d, g) = After(e, h)
<1>1. /\ d.account = e.account /\ d.code = e.code /\ d.fields = e.fields
      /\ d.absent = e.absent /\ d.slots = e.slots /\ ~ d.clearStorage
  BY DEF Stated
<1>2. AccountAfter(d, g.account) = AccountAfter(e, h.account)
  BY <1>1 DEF AccountAfter
<1>3. CodeAfter(d, g.code) = CodeAfter(e, h.code)
  BY <1>1 DEF CodeAfter
<1>4. \A s \in Slot : SlotAfter(d, s, g.slots[s]) = SlotAfter(e, s, h.slots[s])
  BY <1>1, ConstantsApart DEF SlotAfter, Clears
<1>5. QED
  BY ONLY <1>2, <1>3, <1>4, SameAfter

LEMMA SameEndSlot ==
  ASSUME NEW e \in Stated, NEW h \in HeldType, NEW s \in Slot,
         ~ Clears(e), e.slots[s] # Absent,
         NEW d, d = [e EXCEPT !.slots[s] = Absent], NEW g,
         g = [account |-> h.account, code |-> h.code,
              slots |-> [h.slots EXCEPT ![s] = e.slots[s]]]
  PROVE  After(d, g) = After(e, h)
<1>1. /\ d.account = e.account /\ d.code = e.code /\ d.fields = e.fields
      /\ d.absent = e.absent /\ d.clearStorage = e.clearStorage
      /\ \A t \in Slot : d.slots[t] = IF t = s THEN Absent ELSE e.slots[t]
  BY DEF Stated
<1>2. AccountAfter(d, g.account) = AccountAfter(e, h.account)
  BY <1>1 DEF AccountAfter
<1>3. CodeAfter(d, g.code) = CodeAfter(e, h.code)
  BY <1>1 DEF CodeAfter
<1>4. \A t \in Slot : g.slots[t] = IF t = s THEN e.slots[s] ELSE h.slots[t]
  BY DEF HeldType
<1>5. \A t \in Slot : SlotAfter(d, t, g.slots[t]) = SlotAfter(e, t, h.slots[t])
  BY <1>1, <1>4 DEF SlotAfter, Clears
<1>6. QED
  BY ONLY <1>2, <1>3, <1>5, SameAfter

LEMMA SameEndEmpty ==
  ASSUME NEW e \in Stated, NEW h \in HeldType, e.absent = "empty",
         e.code = Absent,
         NEW d, d = [e EXCEPT !.absent = "delete"], NEW g, NEW acct,
         g = [account |-> acct, code |-> EmptyCode, slots |-> h.slots]
  PROVE  After(d, g) = After(e, h)
<1>1. d.code = Absent /\ d.absent = "delete"
  BY DEF Stated
<1>2. AccountAfter(d, g.account) = AccountAfter(e, h.account)
  BY <1>1 DEF AccountAfter
<1>3. CodeAfter(d, g.code) = CodeAfter(e, h.code)
  BY <1>1 DEF CodeAfter
<1>4. \A s \in Slot : SlotAfter(d, s, g.slots[s]) = SlotAfter(e, s, h.slots[s])
  BY <1>1 DEF SlotAfter
<1>5. QED
  BY ONLY <1>2, <1>3, <1>4, SameAfter

LEMMA SameEndDelete ==
  ASSUME NEW e \in Stated, NEW h \in HeldType, e.absent = "delete",
         e.code = Absent, e.account = Absent, e.fields = Absent, e.slots = NothingWritten,
         NEW d, d = [e EXCEPT !.absent = "no"], NEW g,
         g = [account |-> Absent, code |-> h.code, slots |-> NothingWritten]
  PROVE  After(d, g) = After(e, h)
<1>1. /\ d.account = Absent /\ d.code = Absent /\ d.fields = Absent
      /\ d.absent = "no" /\ d.slots = NothingWritten /\ d.clearStorage = e.clearStorage
  BY DEF Stated
<1>2. AccountAfter(d, g.account) = AccountAfter(e, h.account)
  BY <1>1 DEF AccountAfter
<1>3. CodeAfter(d, g.code) = CodeAfter(e, h.code)
  BY <1>1 DEF CodeAfter
<1>4. \A s \in Slot : SlotAfter(d, s, g.slots[s]) = SlotAfter(e, s, h.slots[s])
  BY <1>1, ConstantsApart DEF SlotAfter
<1>5. QED
  BY ONLY <1>2, <1>3, <1>4, SameAfter

-----------------------------------------------------------------------------
(* What a write does to the top level. *)

TopHeld(b) == HeldIn(LevelState(Depth), b)

SlotsAt(overlays, b, i) == [s \in Slot |-> StorageAtDepth(overlays, b, s, i)]

LEMMA TopParts ==
  ASSUME NEW b \in Address
  PROVE  /\ TopHeld(b) = [account |-> accountStack[Depth][b], code |-> codeStack[Depth][b],
                          slots |-> SlotsAt(storageOverlays, b, Depth)]
         /\ TopHeld(b)' = [account |-> accountStack'[Depth'][b],
                           code |-> codeStack'[Depth'][b],
                           slots |-> SlotsAt(storageOverlays', b, Depth')]
  BY DEF TopHeld, HeldIn, LevelState, SlotsAt

LEMMA TopType ==
  ASSUME TypeOK, NEW b \in Address
  PROVE  TopHeld(b) \in HeldType
<1>1. Depth \in 1..Depth
  BY StackTypes
<1>2. /\ accountStack[Depth][b] \in Account \cup {Absent}
      /\ codeStack[Depth][b] \in Code \cup {Absent}
      /\ SlotsAt(storageOverlays, b, Depth) \in [Slot -> SlotContent \cup {Absent}]
  BY <1>1, LevelTypes DEF AccountMap, CodeMap, SlotsAt
<1>3. QED
  BY <1>2, TopParts DEF HeldType

LEMMA SetAccountHeld ==
  ASSUME TypeOK, NEW a \in Address, NEW acct \in Account \cup {Absent},
         SetAccountAt(a, acct)
  PROVE  \A b \in Address :
           TopHeld(b)' = IF b = a THEN [account |-> acct, code |-> TopHeld(a).code,
                                        slots |-> TopHeld(a).slots]
                         ELSE TopHeld(b)
<1>1. /\ accountStack \in Seq(AccountMap) /\ Depth \in 1..Len(accountStack)
      /\ Depth \in Nat \ {0}
  BY StackTypes
<1>2. /\ accountStack' = [accountStack EXCEPT ![Depth][a] = acct]
      /\ codeStack' = codeStack /\ storageOverlays' = storageOverlays
  BY DEF SetAccountAt
<1>3. /\ Len(accountStack') = Len(accountStack)
      /\ accountStack'[Depth] = [accountStack[Depth] EXCEPT ![a] = acct]
  BY <1>1, <1>2, AccountWriteType
<1>4. Depth' = Depth
  BY <1>3 DEF Depth
<1>5. accountStack[Depth] \in AccountMap
  BY <1>1, LevelTypes
<1>6. \A b \in Address : accountStack'[Depth][b] = IF b = a THEN acct ELSE accountStack[Depth][b]
  BY <1>3, <1>5 DEF AccountMap
<1>7. QED
  BY <1>2, <1>4, <1>6, TopParts

LEMMA EditedHeld ==
  ASSUME TypeOK, NEW a \in Address, NEW acct \in Account,
         accountStack' = [EditedThroughGetAccount(a, acct) EXCEPT ![Depth][a] = acct]
  PROVE  /\ Depth' = Depth
         /\ \A b \in Address :
              accountStack'[Depth][b] = IF b = a THEN acct ELSE accountStack[Depth][b]
<1>1. /\ Len(accountStack') = Depth
      /\ accountStack'[Depth] = [accountStack[Depth] EXCEPT ![a] = acct]
  BY EditedFacts
<1>2. Depth' = Depth
  BY <1>1 DEF Depth
<1>3. accountStack[Depth] \in AccountMap
  BY StackTypes, LevelTypes
<1>4. QED
  BY <1>1, <1>2, <1>3 DEF AccountMap

LEMMA ModifyFieldsHeld ==
  ASSUME TypeOK, NEW a \in Address, NEW f \in Fields, ModifyAccountFields(a, f)
  PROVE  \A b \in Address :
           TopHeld(b)' = IF b = a
                         THEN [account |-> [OrNew(TopHeld(a).account) EXCEPT !.fields = f],
                               code |-> TopHeld(a).code, slots |-> TopHeld(a).slots]
                         ELSE TopHeld(b)
<1> DEFINE acct == [AccountOrNew(a) EXCEPT !.fields = f]
<1>1. acct \in Account
  BY AccountOrNewType DEF Account
<1>2. /\ accountStack' = [EditedThroughGetAccount(a, acct) EXCEPT ![Depth][a] = acct]
      /\ codeStack' = codeStack /\ storageOverlays' = storageOverlays
  BY DEF ModifyAccountFields
<1>3. acct = [OrNew(TopHeld(a).account) EXCEPT !.fields = f]
  BY TopParts DEF AccountOrNew, OrNew
<1> HIDE DEF acct
<1>4. /\ Depth' = Depth
      /\ \A b \in Address :
           accountStack'[Depth][b] = IF b = a THEN acct ELSE accountStack[Depth][b]
  BY <1>1, <1>2, EditedHeld
<1>5. QED
  BY <1>2, <1>3, <1>4, TopParts

LEMMA PutCodeHeld ==
  ASSUME TypeOK, NEW a \in Address, NEW c \in Code, PutCode(a, c)
  PROVE  \A b \in Address :
           TopHeld(b)' = IF b = a
                         THEN [account |-> [OrNew(TopHeld(a).account) EXCEPT !.codeHash = c],
                               code |-> c, slots |-> TopHeld(a).slots]
                         ELSE TopHeld(b)
<1> DEFINE acct == [AccountOrNew(a) EXCEPT !.codeHash = c]
<1>1. acct \in Account
  BY AccountOrNewType DEF Account
<1>2. /\ accountStack' = [EditedThroughGetAccount(a, acct) EXCEPT ![Depth][a] = acct]
      /\ codeStack' = [codeStack EXCEPT ![Depth][a] = c]
      /\ storageOverlays' = storageOverlays
  BY DEF PutCode
<1>3. acct = [OrNew(TopHeld(a).account) EXCEPT !.codeHash = c]
  BY TopParts DEF AccountOrNew, OrNew
<1> HIDE DEF acct
<1>4. /\ Depth' = Depth
      /\ \A b \in Address :
           accountStack'[Depth][b] = IF b = a THEN acct ELSE accountStack[Depth][b]
  BY <1>1, <1>2, EditedHeld
<1>5. \A b \in Address : codeStack'[Depth][b] = IF b = a THEN c ELSE codeStack[Depth][b]
  <2>1. /\ codeStack \in Seq(CodeMap) /\ Depth \in 1..Len(codeStack) /\ Depth \in 1..Depth
    BY StackTypes
  <2>2. codeStack'[Depth] = [codeStack[Depth] EXCEPT ![a] = c]
    BY <1>2, <2>1, CodeWriteType
  <2>3. codeStack[Depth] \in CodeMap
    BY <2>1, LevelTypes
  <2>4. QED
    BY <2>2, <2>3 DEF CodeMap
<1>6. QED
  BY <1>2, <1>3, <1>4, <1>5, TopParts

LEMMA SetStorageHeld ==
  ASSUME TypeOK, NEW a \in Address, NEW s \in Slot, NEW v \in SlotContent,
         SetStorageAt(a, s, v)
  PROVE  \A b \in Address :
           TopHeld(b)' = IF b = a
                         THEN [account |-> TopHeld(a).account, code |-> TopHeld(a).code,
                               slots |-> [TopHeld(a).slots EXCEPT ![s] = v]]
                         ELSE TopHeld(b)
<1>1. Depth \in Nat \ {0}
  BY StackTypes
<1>2. accountStack' = accountStack /\ codeStack' = codeStack /\ Depth' = Depth
  BY DEF SetStorageAt, Depth
<1>3. \A b \in Address, t \in Slot :
        StorageAtDepth(storageOverlays', b, t, Depth) =
          IF b = a /\ t = s THEN v ELSE StorageAtDepth(storageOverlays, b, t, Depth)
  BY <1>1, WrittenSlotView
<1>4. \A b \in Address :
        SlotsAt(storageOverlays', b, Depth) =
          IF b = a THEN [SlotsAt(storageOverlays, a, Depth) EXCEPT ![s] = v]
          ELSE SlotsAt(storageOverlays, b, Depth)
  BY <1>3 DEF SlotsAt
<1>5. QED
  BY <1>2, <1>4, TopParts

LEMMA ClearedHeld ==
  ASSUME TypeOK, NEW a \in Address, storageOverlays' = OverlaysAfterClear(a)
  PROVE  \A b \in Address :
           SlotsAt(storageOverlays', b, Depth) =
             IF b = a THEN NothingWritten ELSE SlotsAt(storageOverlays, b, Depth)
<1>1. Depth \in Nat \ {0}
  BY StackTypes
<1>2. \A b \in Address, t \in Slot :
        StorageAtDepth(storageOverlays', b, t, Depth) =
          IF b = a THEN Absent ELSE StorageAtDepth(storageOverlays, b, t, Depth)
  BY <1>1, ClearedView
<1>3. QED
  BY <1>2 DEF SlotsAt, NothingWritten

LEMMA ClearStorageHeld ==
  ASSUME TypeOK, NEW a \in Address, ClearStorageAt(a)
  PROVE  \A b \in Address :
           TopHeld(b)' = IF b = a
                         THEN [account |-> TopHeld(a).account, code |-> TopHeld(a).code,
                               slots |-> NothingWritten]
                         ELSE TopHeld(b)
<1>1. /\ accountStack' = accountStack /\ codeStack' = codeStack /\ Depth' = Depth
      /\ storageOverlays' = OverlaysAfterClear(a)
  BY DEF ClearStorageAt, Depth
<1>2. QED
  BY <1>1, ClearedHeld, TopParts

LEMMA DeleteHeld ==
  ASSUME TypeOK, NEW a \in Address, DeleteAccount(a)
  PROVE  \A b \in Address :
           TopHeld(b)' = IF b = a
                         THEN [account |-> Absent, code |-> TopHeld(a).code,
                               slots |-> NothingWritten]
                         ELSE TopHeld(b)
<1>1. /\ accountStack \in Seq(AccountMap) /\ Depth \in 1..Len(accountStack)
      /\ Depth \in 1..Depth
  BY StackTypes
<1>2. /\ accountStack' = [accountStack EXCEPT ![Depth][a] = Absent]
      /\ codeStack' = codeStack /\ storageOverlays' = OverlaysAfterClear(a)
  BY DEF DeleteAccount
<1>3. /\ Len(accountStack') = Len(accountStack)
      /\ accountStack'[Depth] = [accountStack[Depth] EXCEPT ![a] = Absent]
  BY <1>1, <1>2, AccountWriteType
<1>4. Depth' = Depth
  BY <1>3 DEF Depth
<1>5. accountStack[Depth] \in AccountMap
  BY <1>1, LevelTypes
<1>6. \A b \in Address :
        accountStack'[Depth][b] = IF b = a THEN Absent ELSE accountStack[Depth][b]
  BY <1>3, <1>5 DEF AccountMap
<1>7. QED
  BY <1>2, <1>4, <1>6, ClearedHeld, TopParts

-----------------------------------------------------------------------------
(* The entries restore the block, and the overrides go on top. *)

LEMMA EarliestIn ==
  ASSUME NEW T, NEW priors, DOMAIN priors \in SUBSET Nat,
         \A i \in DOMAIN priors : priors[i] \in T \cup {NotRecorded}
  PROVE  Earliest(priors) \in T \cup {NotRecorded}
<1> DEFINE naming == {i \in DOMAIN priors : priors[i] # NotRecorded}
<1>1. CASE naming = {}
  BY <1>1 DEF Earliest
<1>2. CASE naming # {}
  <2>1. Earliest(priors) = priors[Min(naming)]
    BY <1>2 DEF Earliest
  <2>2. naming \in SUBSET Nat
    OBVIOUS
  <2>3. Min(naming) \in naming
    <3> HIDE DEF naming
    <3>1. QED
      BY <1>2, <2>2, MinExists
  <2>4. QED
    BY <2>1, <2>3
<1>3. QED
  BY <1>1, <1>2

Records == Append(sealed, changeLevels[1])

LEMMA RecordsType ==
  ASSUME TypeOK, HistoryTypes
  PROVE  /\ HeadNumber \in Nat
         /\ \A i \in 1..(HeadNumber + 1) : Records[i] \in ChangeSet
         /\ \A i \in 1..HeadNumber : Records[i] = sealed[i]
         /\ Records[HeadNumber + 1] = changeLevels[1]
<1>1. sealed \in Seq(ChangeSet) /\ HeadNumber = Len(sealed) /\ HeadNumber \in Nat
  BY DEF HistoryTypes, HeadNumber
<1>2. changeLevels[1] \in ChangeSet
  BY StackTypes, LevelTypes
<1>3. QED
  BY <1>1, <1>2 DEF Records

LEMMA UnionParts ==
  ASSUME NEW k, NEW a \in Address
  PROVE  LET U == UnionAfter(k)
             after == (k + 1)..(HeadNumber + 1)
         IN  /\ U.accounts[a] = Earliest([i \in after |-> Records[i].accounts[a]])
             /\ U.code[a] = Earliest([i \in after |-> Records[i].code[a]])
             /\ \A s \in Slot :
                  U.storage[a][s] = Earliest([i \in after |-> Records[i].storage[a][s]])
             /\ a \in U.storageCleared <=>
                  \E i \in after : a \in Records[i].storageCleared
  BY DEF UnionAfter, UnionOf, Records

LEMMA UnionType ==
  ASSUME TypeOK, HistoryTypes, NEW k \in 0..HeadNumber
  PROVE  UnionAfter(k) \in ChangeSet
<1> DEFINE after == (k + 1)..(HeadNumber + 1)
<1>1. /\ after \in SUBSET Nat /\ after \subseteq 1..(HeadNumber + 1)
      /\ \A i \in after : Records[i] \in ChangeSet
  BY RecordsType
<1>2. \A a \in Address :
        /\ Earliest([i \in after |-> Records[i].accounts[a]])
             \in (Account \cup {Absent}) \cup {NotRecorded}
        /\ Earliest([i \in after |-> Records[i].code[a]])
             \in (Code \cup {Absent}) \cup {NotRecorded}
        /\ \A s \in Slot : Earliest([i \in after |-> Records[i].storage[a][s]])
                             \in (SlotContent \cup {Absent}) \cup {NotRecorded}
  <2>1. ASSUME NEW a \in Address
        PROVE  /\ Earliest([i \in after |-> Records[i].accounts[a]])
                    \in (Account \cup {Absent}) \cup {NotRecorded}
               /\ Earliest([i \in after |-> Records[i].code[a]])
                    \in (Code \cup {Absent}) \cup {NotRecorded}
    <3>1. \A i \in after :
            /\ Records[i].accounts[a] \in (Account \cup {Absent}) \cup {NotRecorded}
            /\ Records[i].code[a] \in (Code \cup {Absent}) \cup {NotRecorded}
      BY <1>1 DEF ChangeSet
    <3> HIDE DEF after
    <3>2. QED
      BY <1>1, <3>1, EarliestIn
  <2>2. ASSUME NEW a \in Address, NEW s \in Slot
        PROVE  Earliest([i \in after |-> Records[i].storage[a][s]])
                 \in (SlotContent \cup {Absent}) \cup {NotRecorded}
    <3>1. \A i \in after :
            Records[i].storage[a][s] \in (SlotContent \cup {Absent}) \cup {NotRecorded}
      BY <1>1 DEF ChangeSet
    <3> HIDE DEF after
    <3>2. QED
      BY <1>1, <3>1, EarliestIn
  <2>3. QED
    BY <2>1, <2>2
<1>3. UNION {Records[i].storageCleared : i \in after} \subseteq Address
  BY <1>1 DEF ChangeSet
<1> HIDE DEF after
<1>4. UnionAfter(k) =
        [accounts |-> [a \in Address |-> Earliest([i \in after |-> Records[i].accounts[a]])],
         code     |-> [a \in Address |-> Earliest([i \in after |-> Records[i].code[a]])],
         storage  |-> [a \in Address |-> [s \in Slot |->
            Earliest([i \in after |-> Records[i].storage[a][s]])]],
         storageCleared |-> UNION {Records[i].storageCleared : i \in after}]
  BY DEF UnionAfter, UnionOf, Records, after
<1>5. /\ [a \in Address |-> Earliest([i \in after |-> Records[i].accounts[a]])]
           \in [Address -> Account \cup {Absent, NotRecorded}]
      /\ [a \in Address |-> Earliest([i \in after |-> Records[i].code[a]])]
           \in [Address -> Code \cup {Absent, NotRecorded}]
  BY <1>2
<1>6. [a \in Address |-> [s \in Slot |-> Earliest([i \in after |-> Records[i].storage[a][s]])]]
        \in [Address -> [Slot -> SlotContent \cup {Absent, NotRecorded}]]
  BY <1>2
<1>7. QED
  BY <1>3, <1>4, <1>5, <1>6 DEF ChangeSet

(* The state after each record, from the genesis to the live one.             *)
StateAfter(i) == IF i = HeadNumber + 2 THEN LevelState(1) ELSE past[i]

LEMMA RecordsChain ==
  ASSUME TypeOK, AllClearsExplained, HistoryTypes, RecordsLinked
  PROVE  \A i \in 1..(HeadNumber + 1) :
           /\ Undo(StateAfter(i + 1), Records[i]) = StateAfter(i)
           /\ CodeNamesAccount(Records[i])
           /\ ClearedWasEmpty(Records[i], StateAfter(i + 1))
<1>1. 1 \in 1..Depth
  BY StackTypes
<1>2. ClearedWasEmpty(changeLevels[1], LevelState(1))
  BY <1>1 DEF AllClearsExplained, ClearsExplained, ClearedWasEmpty
<1>3. HeadNumber \in Nat
  BY RecordsType
<1>4. ASSUME NEW i \in 1..HeadNumber
      PROVE  /\ Undo(StateAfter(i + 1), Records[i]) = StateAfter(i)
             /\ CodeNamesAccount(Records[i])
             /\ ClearedWasEmpty(Records[i], StateAfter(i + 1))
  <2>1. Records[i] = sealed[i]
    BY RecordsType
  <2>2. StateAfter(i) = past[i] /\ StateAfter(i + 1) = past[i + 1]
    BY <1>3 DEF StateAfter
  <2>3. QED
    BY <2>1, <2>2 DEF RecordsLinked
<1>5. /\ StateAfter(HeadNumber + 1) = past[HeadNumber + 1]
      /\ StateAfter((HeadNumber + 1) + 1) = LevelState(1)
  BY <1>3 DEF StateAfter
<1>6. /\ Undo(StateAfter((HeadNumber + 1) + 1), Records[HeadNumber + 1])
           = StateAfter(HeadNumber + 1)
      /\ CodeNamesAccount(Records[HeadNumber + 1])
      /\ ClearedWasEmpty(Records[HeadNumber + 1], StateAfter((HeadNumber + 1) + 1))
  BY <1>2, <1>5, RecordsType DEF RecordsLinked
<1>7. QED
  <2>1. ASSUME NEW i \in 1..(HeadNumber + 1)
        PROVE  i \in 1..HeadNumber \/ i = HeadNumber + 1
    BY <1>3
  <2>2. QED
    BY <2>1, <1>4, <1>6

(* The union undoes the live state to that of block k, key by key.            *)
LEMMA UnionExact ==
  ASSUME TypeOK, AllClearsExplained, HistoryTypes, RecordsLinked,
         NEW k \in 0..HeadNumber, NEW a \in Address
  PROVE  LET U == UnionAfter(k)
             now == LevelState(1)
             then == past[k + 1]
         IN  /\ KeepOlder(U.accounts[a], now.accounts[a]) = then.accounts[a]
             /\ KeepOlder(U.code[a], now.code[a]) = then.code[a]
             /\ \A s \in Slot :
                  /\ KeepOlder(U.storage[a][s], now.storage[a][s]) = then.storage[a][s]
                  /\ a \in U.storageCleared /\ U.storage[a][s] = NotRecorded =>
                       then.storage[a][s] = Absent
             /\ U.code[a] # NotRecorded => U.accounts[a] # NotRecorded
<1> DEFINE n == HeadNumber
           lo == k + 1
           hi == n + 1
           after == lo..hi
           accountPriors == [i \in after |-> Records[i].accounts[a]]
           codePriors == [i \in after |-> Records[i].code[a]]
           slotPriors(s) == [i \in after |-> Records[i].storage[a][s]]
           accounts == [i \in Nat |-> StateAfter(i).accounts[a]]
           codes == [i \in Nat |-> StateAfter(i).code[a]]
           slots(s) == [i \in Nat |-> StateAfter(i).storage[a][s]]
<1>1. n \in Nat /\ k \in 0..n /\ lo \in Nat /\ hi \in Nat /\ lo <= hi
  BY RecordsType
<1>2. /\ StateAfter(k + 1) = past[k + 1] /\ StateAfter(n + 2) = LevelState(1)
      /\ k + 1 \in Nat /\ n + 2 \in Nat
      /\ \A i \in after : i \in 1..(HeadNumber + 1) /\ i \in Nat /\ i + 1 \in Nat
  BY <1>1 DEF StateAfter
<1>3. \A i \in after :
        /\ Undo(StateAfter(i + 1), Records[i]) = StateAfter(i)
        /\ CodeNamesAccount(Records[i])
        /\ ClearedWasEmpty(Records[i], StateAfter(i + 1))
  BY <1>2, RecordsChain
<1>4. \A i \in after :
        /\ accounts[i] = KeepOlder(accountPriors[i], accounts[i + 1])
        /\ codes[i] = KeepOlder(codePriors[i], codes[i + 1])
  BY <1>2, <1>3 DEF Undo
<1>5. \A s \in Slot : \A i \in after :
        slots(s)[i] = KeepOlder(slotPriors(s)[i], slots(s)[i + 1])
  BY <1>2, <1>3 DEF Undo
<1>6. /\ KeepOlder(Earliest(accountPriors), accounts[hi + 1]) = accounts[lo]
      /\ Earliest(accountPriors) = NotRecorded =>
           \A i \in after : accountPriors[i] = NotRecorded
  <2> DEFINE P == accountPriors
             V == accounts
  <2>1. DOMAIN P = lo..hi
    OBVIOUS
  <2>2. \A i \in lo..hi : V[i] = KeepOlder(P[i], V[i + 1])
    BY <1>4
  <2> HIDE DEF P, V, lo, hi
  <2>3. /\ KeepOlder(Earliest(P), V[hi + 1]) = V[lo]
        /\ Earliest(P) = NotRecorded =>
             \A i \in lo..hi : P[i] = NotRecorded /\ V[i + 1] = V[lo]
    BY ONLY <1>1, <2>1, <2>2, EarliestExact
  <2>4. QED
    BY <2>3 DEF P, V
<1>7. /\ KeepOlder(Earliest(codePriors), codes[hi + 1]) = codes[lo]
      /\ Earliest(codePriors) # NotRecorded =>
           \E i \in after : Earliest(codePriors) = codePriors[i]
  <2> DEFINE P == codePriors
             V == codes
  <2>1. DOMAIN P = lo..hi
    OBVIOUS
  <2>2. \A i \in lo..hi : V[i] = KeepOlder(P[i], V[i + 1])
    BY <1>4
  <2> HIDE DEF P, V, lo, hi
  <2>3. /\ KeepOlder(Earliest(P), V[hi + 1]) = V[lo]
        /\ Earliest(P) # NotRecorded => \E i \in lo..hi : Earliest(P) = P[i]
    BY ONLY <1>1, <2>1, <2>2, EarliestExact
  <2>4. QED
    BY <2>3 DEF P, V
<1>8. ASSUME NEW s \in Slot
      PROVE  /\ KeepOlder(Earliest(slotPriors(s)), slots(s)[hi + 1]) = slots(s)[lo]
             /\ Earliest(slotPriors(s)) = NotRecorded =>
                  \A i \in after : slotPriors(s)[i] = NotRecorded
                                   /\ slots(s)[i + 1] = slots(s)[lo]
  <2>1. PICK P, V : P = slotPriors(s) /\ V = slots(s)
    OBVIOUS
  <2>2. DOMAIN P = lo..hi
    BY <2>1
  <2>3. \A i \in lo..hi : V[i] = KeepOlder(P[i], V[i + 1])
    BY <1>5, <2>1
  <2> HIDE DEF slotPriors, slots, lo, hi
  <2>4. /\ KeepOlder(Earliest(P), V[hi + 1]) = V[lo]
        /\ Earliest(P) = NotRecorded =>
             \A i \in lo..hi : P[i] = NotRecorded /\ V[i + 1] = V[lo]
    BY ONLY <1>1, <2>2, <2>3, EarliestExact
  <2>5. QED
    BY ONLY <2>1, <2>4
<1>9. /\ accounts[hi + 1] = LevelState(1).accounts[a] /\ accounts[lo] = past[k + 1].accounts[a]
      /\ codes[hi + 1] = LevelState(1).code[a] /\ codes[lo] = past[k + 1].code[a]
      /\ \A s \in Slot : /\ slots(s)[hi + 1] = LevelState(1).storage[a][s]
                         /\ slots(s)[lo] = past[k + 1].storage[a][s]
  <2>1. hi + 1 \in Nat /\ lo \in Nat /\ hi + 1 = n + 2
    BY <1>1
  <2>2. StateAfter(hi + 1) = LevelState(1) /\ StateAfter(lo) = past[k + 1]
    BY <1>2, <2>1
  <2>3. \A i \in Nat : /\ accounts[i] = StateAfter(i).accounts[a]
                       /\ codes[i] = StateAfter(i).code[a]
                       /\ \A s \in Slot : slots(s)[i] = StateAfter(i).storage[a][s]
    OBVIOUS
  <2> HIDE DEF accounts, codes, slots, hi, lo, n
  <2>4. QED
    BY <2>1, <2>2, <2>3
<1>10. LET U == UnionAfter(k)
       IN  /\ U.accounts[a] = Earliest(accountPriors)
           /\ U.code[a] = Earliest(codePriors)
           /\ \A s \in Slot : U.storage[a][s] = Earliest(slotPriors(s))
           /\ a \in U.storageCleared <=>
                \E i \in after : a \in Records[i].storageCleared
  BY UnionParts
<1>11. UnionAfter(k).code[a] # NotRecorded => UnionAfter(k).accounts[a] # NotRecorded
  <2>1. \A i \in after : codePriors[i] # NotRecorded => accountPriors[i] # NotRecorded
    BY <1>3 DEF CodeNamesAccount
  <2>2. QED
    BY <1>6, <1>7, <1>10, <2>1
<1>12. ASSUME NEW s \in Slot, a \in UnionAfter(k).storageCleared,
              UnionAfter(k).storage[a][s] = NotRecorded
       PROVE  past[k + 1].storage[a][s] = Absent
  <2>1. PICK i \in after : a \in Records[i].storageCleared
    BY <1>10, <1>12
  <2>2. Records[i].storage[a][s] = NotRecorded /\ slots(s)[i + 1] = slots(s)[lo]
    BY <1>8, <1>10, <1>12
  <2>3. StateAfter(i + 1).storage[a][s] = Absent
    BY <1>3, <2>1, <2>2 DEF ClearedWasEmpty
  <2>4. slots(s)[i + 1] = Absent
    BY <1>2, <2>3
  <2>5. QED
    BY <1>9, <2>2, <2>4
<1>13. /\ KeepOlder(UnionAfter(k).accounts[a], LevelState(1).accounts[a]) = past[k + 1].accounts[a]
       /\ KeepOlder(UnionAfter(k).code[a], LevelState(1).code[a]) = past[k + 1].code[a]
  BY <1>6, <1>7, <1>9, <1>10
<1>14. \A s \in Slot :
         KeepOlder(UnionAfter(k).storage[a][s], LevelState(1).storage[a][s])
           = past[k + 1].storage[a][s]
  BY <1>8, <1>9, <1>10
<1> HIDE DEF n, after, accountPriors, codePriors, slotPriors, accounts, codes, slots
<1>15. QED
  BY <1>11, <1>12, <1>13, <1>14

LEMMA RewrittenType ==
  ASSUME NEW acct \in Account, NEW f \in Fields, NEW c \in Code
  PROVE  /\ [acct EXCEPT !.fields = f] = [fields |-> f, codeHash |-> acct.codeHash]
         /\ [acct EXCEPT !.codeHash = c] = [fields |-> acct.fields, codeHash |-> c]
         /\ [acct EXCEPT !.fields = f] \in Account
         /\ [acct EXCEPT !.codeHash = c] \in Account
  BY DEF Account

LEMMA AfterType ==
  ASSUME NEW e \in Stated, NEW h \in HeldType
  PROVE  After(e, h) \in HeldType
<1>1. /\ e.account \in Account \cup {Absent} /\ e.code \in Code \cup {Absent}
      /\ e.fields \in Fields \cup {Absent}
      /\ \A s \in Slot : e.slots[s] \in SlotContent \cup {Absent}
  BY DEF Stated
<1>2. /\ h.account \in Account \cup {Absent} /\ h.code \in Code \cup {Absent}
      /\ \A s \in Slot : h.slots[s] \in SlotContent \cup {Absent}
  BY DEF HeldType
<1> DEFINE coded == IF e.code = Absent THEN h.account
                    ELSE [OrNew(h.account) EXCEPT !.codeHash = e.code]
           whole == IF e.account = Absent THEN coded ELSE e.account
<1>3. coded \in Account \cup {Absent}
  <2>1. CASE e.code = Absent
    BY <1>2, <2>1
  <2>2. CASE e.code # Absent
    <3>1. OrNew(h.account) \in Account
      BY <1>2, OrNewType
    <3>2. e.code \in Code
      BY <1>1, <2>2
    <3>3. [OrNew(h.account) EXCEPT !.codeHash = e.code] \in Account
      BY <3>1, <3>2 DEF Account
    <3>4. QED
      BY <2>2, <3>3
  <2>3. QED
    BY <2>1, <2>2
<1>4. whole \in Account \cup {Absent}
  BY <1>1, <1>3
<1>5. AccountAfter(e, h.account) \in Account \cup {Absent}
  <2>1. CASE e.absent # "no"
    BY <2>1 DEF AccountAfter
  <2>2. CASE e.absent = "no" /\ e.fields = Absent
    <3>1. AccountAfter(e, h.account) = whole
      BY <2>2 DEF AccountAfter
    <3>2. QED
      BY <1>4, <3>1
  <2>3. CASE e.absent = "no" /\ e.fields # Absent
    <3>1. AccountAfter(e, h.account) = [OrNew(whole) EXCEPT !.fields = e.fields]
      BY <2>3 DEF AccountAfter
    <3> HIDE DEF whole
    <3>2. OrNew(whole) \in Account
      BY <1>4, OrNewType
    <3>3. e.fields \in Fields
      BY <1>1, <2>3
    <3>4. [OrNew(whole) EXCEPT !.fields = e.fields] \in Account
      BY <3>2, <3>3 DEF Account
    <3>5. QED
      BY <3>1, <3>4
  <2>4. QED
    BY <2>1, <2>2, <2>3
<1>6. CodeAfter(e, h.code) \in Code \cup {Absent}
  BY <1>1, <1>2, ConstantsApart DEF CodeAfter
<1>7. [s \in Slot |-> SlotAfter(e, s, h.slots[s])] \in [Slot -> SlotContent \cup {Absent}]
  BY <1>1, <1>2 DEF SlotAfter
<1>8. QED
  BY <1>5, <1>6, <1>7 DEF After, HeldType

LEMMA AfterIfType ==
  ASSUME NEW stated \in BOOLEAN, NEW e, stated => e \in Stated, NEW h \in HeldType
  PROVE  AfterIf(stated, e, h) \in HeldType
  BY AfterType DEF AfterIf

LEMMA HistoricalEntryType ==
  ASSUME NEW U \in ChangeSet, NEW a \in Address
  PROVE  HistoricalEntry(U, a) \in Stated
<1>1. /\ U.accounts[a] \in Account \cup {Absent, NotRecorded}
      /\ U.code[a] \in Code \cup {Absent, NotRecorded}
      /\ \A s \in Slot : U.storage[a][s] \in SlotContent \cup {Absent, NotRecorded}
  BY DEF ChangeSet
<1>2. SlotsOf(U.storage[a]) \in [Slot -> SlotContent \cup {Absent}]
  BY <1>1, ConstantsApart DEF SlotsOf
<1> DEFINE e == HistoricalEntry(U, a)
<1>3. e = [account |-> e.account, absent |-> e.absent, code |-> e.code, fields |-> Absent,
           clearStorage |-> e.clearStorage, slots |-> SlotsOf(U.storage[a])]
  BY DEF HistoricalEntry
<1>4. /\ e.account \in Account \cup {Absent}
      /\ e.absent \in {"no", "empty", "delete"}
      /\ e.code \in Code \cup {Absent}
      /\ e.clearStorage \in BOOLEAN
  BY <1>1, ConstantsApart DEF HistoricalEntry
<1> HIDE DEF e
<1>5. e \in Stated
  BY <1>2, <1>3, <1>4 DEF Stated
<1>6. QED
  BY <1>5 DEF e

LEMMA OverrideType ==
  ASSUME NEW o \in Override, NEW a \in Overrides(o)
  PROVE  /\ a \in Address /\ o # NoOverride /\ o[a] # Absent
         /\ o[a] \in Stated /\ o[a].absent = "no" /\ o[a].account = Absent
<1>1. a \in Address /\ o # NoOverride /\ o[a] # Absent
  BY DEF Overrides
<1>2. o \in [Address -> Stated \cup {Absent}]
  BY <1>1, OverrideAssumption
<1>3. o[a] \in Stated
  BY <1>1, <1>2
<1>4. QED
  BY <1>1, <1>3, OverrideAssumption

LEMMA HeldInType ==
  ASSUME TypeOK, NEW i \in 1..Depth, NEW a \in Address
  PROVE  HeldIn(LevelState(i), a) \in HeldType
<1>1. /\ accountStack[i][a] \in Account \cup {Absent}
      /\ codeStack[i][a] \in Code \cup {Absent}
      /\ SlotsAt(storageOverlays, a, i) \in [Slot -> SlotContent \cup {Absent}]
  BY LevelTypes DEF AccountMap, CodeMap, SlotsAt
<1>2. HeldIn(LevelState(i), a) =
        [account |-> accountStack[i][a], code |-> codeStack[i][a],
         slots |-> SlotsAt(storageOverlays, a, i)]
  BY DEF HeldIn, LevelState, SlotsAt
<1>3. QED
  BY <1>1, <1>2 DEF HeldType

(* What is held reads as an address does in a state.                          *)
ReadsAs(held, state, a) ==
  /\ held.account = state.accounts[a]
  /\ state.accounts[a] # Absent =>
       /\ Bytes(held.code) = Bytes(state.code[a])
       /\ \A s \in Slot : Word(held.slots[s]) = Word(state.storage[a][s])

RestoredTo(k, a) ==
  AfterIf(a \in HistoricalAt(k, UnionAfter(k)), HistoricalEntry(UnionAfter(k), a),
          HeldIn(LevelState(1), a))

StateFor(k) == IF k = HeadNumber THEN LevelState(1) ELSE past[k + 1]

LEMMA HistoricalRestores ==
  ASSUME TypeOK, AllClearsExplained, HistoryTypes, RecordsLinked,
         NEW k \in 0..HeadNumber, NEW a \in Address
  PROVE  ReadsAs(RestoredTo(k, a), StateFor(k), a)
<1> DEFINE U == UnionAfter(k)
           now == HeldIn(LevelState(1), a)
           then == past[k + 1]
           e == HistoricalEntry(U, a)
<1>1. now.account = LevelState(1).accounts[a] /\ now.code = LevelState(1).code[a]
      /\ now.slots = LevelState(1).storage[a]
  BY DEF HeldIn
<1>2. CASE k = HeadNumber
  <2>1. RestoredTo(k, a) = now /\ StateFor(k) = LevelState(1)
    BY <1>2 DEF RestoredTo, HistoricalAt, AfterIf, StateFor
  <2>2. QED
    BY <1>1, <2>1 DEF ReadsAs
<1>3. CASE k # HeadNumber
  <2>1. /\ KeepOlder(U.accounts[a], now.account) = then.accounts[a]
        /\ KeepOlder(U.code[a], now.code) = then.code[a]
        /\ \A s \in Slot :
             /\ KeepOlder(U.storage[a][s], now.slots[s]) = then.storage[a][s]
             /\ a \in U.storageCleared /\ U.storage[a][s] = NotRecorded =>
                  then.storage[a][s] = Absent
        /\ U.code[a] # NotRecorded => U.accounts[a] # NotRecorded
    BY <1>1, UnionExact
  <2>2. StateFor(k) = then
    BY <1>3 DEF StateFor
  <2>3. CASE a \notin Named(U)
    <3>1. RestoredTo(k, a) = now
      BY <1>3, <2>3 DEF RestoredTo, HistoricalAt, AfterIf
    <3>2. /\ U.accounts[a] = NotRecorded /\ U.code[a] = NotRecorded
          /\ \A s \in Slot : U.storage[a][s] = NotRecorded
      BY <2>3 DEF Named
    <3>3. QED
      BY <2>1, <2>2, <3>1, <3>2 DEF ReadsAs, KeepOlder
  <2>4. CASE a \in Named(U)
    <3>1. RestoredTo(k, a) = After(e, now)
      BY <1>3, <2>4 DEF RestoredTo, HistoricalAt, AfterIf
    <3>2. /\ e.account = IF U.accounts[a] = NotRecorded THEN Absent ELSE U.accounts[a]
          /\ e.absent = IF U.accounts[a] = Absent THEN "empty" ELSE "no"
          /\ e.code = IF U.code[a] = NotRecorded THEN Absent
                      ELSE IF U.code[a] = Absent THEN EmptyCode ELSE U.code[a]
          /\ e.fields = Absent
          /\ e.clearStorage = (a \in U.storageCleared)
          /\ \A s \in Slot :
               e.slots[s] = IF U.storage[a][s] = NotRecorded THEN Absent
                            ELSE IF U.storage[a][s] = Absent THEN EmptyValue
                            ELSE U.storage[a][s]
      BY DEF HistoricalEntry, SlotsOf
    <3>3. /\ After(e, now).account = AccountAfter(e, now.account)
          /\ After(e, now).code = CodeAfter(e, now.code)
          /\ \A s \in Slot : After(e, now).slots[s] = SlotAfter(e, s, now.slots[s])
      BY DEF After
    <3> HIDE DEF e, now, U, then
    <3>4. AccountAfter(e, now.account) = then.accounts[a]
      <4>1. CASE U.accounts[a] = NotRecorded
        BY <2>1, <3>2, <4>1, ConstantsApart DEF AccountAfter, KeepOlder
      <4>2. CASE U.accounts[a] = Absent
        BY <2>1, <3>2, <4>2, ConstantsApart DEF AccountAfter, KeepOlder
      <4>3. CASE U.accounts[a] # NotRecorded /\ U.accounts[a] # Absent
        BY <2>1, <3>2, <4>3, ConstantsApart DEF AccountAfter, KeepOlder
      <4>4. QED
        BY <4>1, <4>2, <4>3
    <3>5. ASSUME then.accounts[a] # Absent PROVE e.absent = "no"
      BY <2>1, <3>2, <3>5, ConstantsApart DEF KeepOlder
    <3>6. ASSUME then.accounts[a] # Absent
          PROVE  Bytes(CodeAfter(e, now.code)) = Bytes(then.code[a])
      <4>1. e.absent = "no"
        BY <3>5, <3>6
      <4>2. QED
        BY <2>1, <3>2, <4>1, ConstantsApart DEF CodeAfter, Bytes, KeepOlder
    <3>7. ASSUME then.accounts[a] # Absent, NEW s \in Slot
          PROVE  Word(SlotAfter(e, s, now.slots[s])) = Word(then.storage[a][s])
      <4>1. e.absent = "no"
        BY <3>5, <3>7
      <4>2. QED
        BY <2>1, <3>2, <4>1, ConstantsApart DEF SlotAfter, Word, KeepOlder
    <3>8. QED
      BY <2>2, <3>1, <3>3, <3>4, <3>6, <3>7 DEF ReadsAs
  <2>5. QED
    BY <2>3, <2>4
<1>4. QED
  BY <1>2, <1>3

LEMMA OverridesApply ==
  ASSUME NEW S \in StateType, NEW o \in Override, NEW a \in Address,
         NEW h \in HeldType, ReadsAs(h, S, a)
  PROVE  LET held == AfterIf(a \in Overrides(o), o[a], h)
         IN  /\ held.account = Overridden(S, o).accounts[a]
             /\ S.accounts[a] # Absent =>
                  /\ Bytes(held.code) = Overridden(S, o).code[a]
                  /\ \A s \in Slot : Word(held.slots[s]) = Overridden(S, o).storage[a][s]
<1> DEFINE e == o[a]
           X == Overridden(S, o)
<1>1. h.account = S.accounts[a] /\ h.account \in Account \cup {Absent}
  BY DEF ReadsAs, HeldType
<1>2. CASE a \notin Overrides(o)
  <2>1. AfterIf(a \in Overrides(o), o[a], h) = h
    BY <1>2 DEF AfterIf
  <2>2. ~ (o # NoOverride /\ o[a] # Absent)
    BY <1>2 DEF Overrides
  <2>3. /\ X.accounts[a] = S.accounts[a] /\ X.code[a] = Bytes(S.code[a])
        /\ \A s \in Slot : X.storage[a][s] = Word(S.storage[a][s])
    BY <2>2 DEF Overridden
  <2>4. QED
    BY <1>1, <2>1, <2>3 DEF ReadsAs
<1>3. CASE a \in Overrides(o)
  <2>1. /\ o # NoOverride /\ e # Absent
        /\ e \in Stated /\ e.absent = "no" /\ e.account = Absent
    BY <1>3, OverrideType
  <2>2. /\ e.code \in Code \cup {Absent} /\ e.fields \in Fields \cup {Absent}
        /\ e.clearStorage \in BOOLEAN
        /\ \A s \in Slot : e.slots[s] \in SlotContent \cup {Absent}
    BY <2>1 DEF Stated
  <2>3. AfterIf(a \in Overrides(o), o[a], h) = After(e, h)
    BY <1>3 DEF AfterIf
  <2>4. /\ After(e, h).account = AccountAfter(e, h.account)
        /\ After(e, h).code = CodeAfter(e, h.code)
        /\ \A s \in Slot : After(e, h).slots[s] = SlotAfter(e, s, h.slots[s])
    BY DEF After
  <2>5. X.accounts[a] =
          IF e.fields # Absent \/ e.code # Absent
          THEN [fields   |-> IF e.fields = Absent THEN OrNew(S.accounts[a]).fields ELSE e.fields,
                codeHash |-> IF e.code = Absent THEN OrNew(S.accounts[a]).codeHash ELSE e.code]
          ELSE S.accounts[a]
    BY <2>1 DEF Overridden, OrNew
  <2>6. /\ X.code[a] = IF e.code # Absent THEN e.code ELSE Bytes(S.code[a])
        /\ \A s \in Slot :
             X.storage[a][s] = IF e.slots[s] # Absent THEN e.slots[s]
                               ELSE IF e.clearStorage THEN EmptyValue
                               ELSE Word(S.storage[a][s])
    BY <2>1 DEF Overridden
  <2>7. PICK base \in Account : base = OrNew(h.account)
    BY <1>1, OrNewType
  <2> HIDE DEF e, X
  <2>8. AccountAfter(e, h.account) = X.accounts[a]
    <3>1. CASE e.code = Absent /\ e.fields = Absent
      BY <1>1, <2>1, <2>5, <3>1 DEF AccountAfter
    <3>2. CASE e.code = Absent /\ e.fields # Absent
      <4>1. AccountAfter(e, h.account) = [base EXCEPT !.fields = e.fields]
        BY <2>1, <2>7, <3>2 DEF AccountAfter
      <4>2. [base EXCEPT !.fields = e.fields] = [fields |-> e.fields, codeHash |-> base.codeHash]
        BY DEF Account
      <4>3. X.accounts[a] = [fields |-> e.fields, codeHash |-> base.codeHash]
        BY <1>1, <2>5, <2>7, <3>2
      <4>4. QED
        BY <4>1, <4>2, <4>3
    <3>3. CASE e.code # Absent /\ e.fields = Absent
      <4>1. AccountAfter(e, h.account) = [base EXCEPT !.codeHash = e.code]
        BY <2>1, <2>7, <3>3 DEF AccountAfter
      <4>2. [base EXCEPT !.codeHash = e.code] = [fields |-> base.fields, codeHash |-> e.code]
        BY DEF Account
      <4>3. X.accounts[a] = [fields |-> base.fields, codeHash |-> e.code]
        BY <1>1, <2>5, <2>7, <3>3
      <4>4. QED
        BY <4>1, <4>2, <4>3
    <3>4. CASE e.code # Absent /\ e.fields # Absent
      <4>1. PICK coded : coded = [base EXCEPT !.codeHash = e.code]
        OBVIOUS
      <4>2. coded \in Account /\ coded = [fields |-> base.fields, codeHash |-> e.code]
        BY <2>2, <3>4, <4>1 DEF Account
      <4>3. OrNew(coded) = coded
        BY <4>2, ConstantsApart DEF OrNew
      <4>4. AccountAfter(e, h.account) = [OrNew(coded) EXCEPT !.fields = e.fields]
        BY <2>1, <2>7, <3>4, <4>1 DEF AccountAfter
      <4>5. AccountAfter(e, h.account) = [fields |-> e.fields, codeHash |-> e.code]
        BY <4>2, <4>3, <4>4
      <4>6. QED
        BY <2>5, <3>4, <4>5
    <3>5. QED
      BY <3>1, <3>2, <3>3, <3>4
  <2>9. ASSUME S.accounts[a] # Absent
        PROVE  Bytes(CodeAfter(e, h.code)) = X.code[a]
    BY <2>1, <2>6, <2>9, ConstantsApart DEF CodeAfter, Bytes, ReadsAs
  <2>10. ASSUME S.accounts[a] # Absent, NEW s \in Slot
         PROVE  Word(SlotAfter(e, s, h.slots[s])) = X.storage[a][s]
    BY <2>1, <2>6, <2>10, ConstantsApart DEF SlotAfter, Word, ReadsAs
  <2>11. QED
    BY <2>3, <2>4, <2>8, <2>9, <2>10 DEF X
<1>4. QED
  BY <1>2, <1>3

-----------------------------------------------------------------------------
(* The steps of a request. *)

CallBase ==
  /\ TypeOK
  /\ LevelRecordsUndo
  /\ AllClearsExplained
  /\ HistoryTypes
  /\ RecordsLinked

BottomStays == /\ LevelState(1)' = LevelState(1)
              /\ changeLevels'[1] = changeLevels[1]

RequestKept ==
  /\ call'.block = call.block /\ call'.override = call.override
  /\ call'.union = call.union /\ call'.level = call.level /\ call'.before = call.before
  /\ UNCHANGED <<sealed, past>>

LEMMA WriteIsNext == WriteStep => Next
  BY DEF WriteStep, Next

LEMMA BaseKept ==
  ASSUME CallBase, [Next]_vars, BottomStays, UNCHANGED <<sealed, past>>
  PROVE  CallBase'
<1>1. TypeOK' /\ LevelRecordsUndo' /\ AllClearsExplained'
  BY NextTypeOK, NextRecordsUndo, NextKeepsClears DEF CallBase
<1>2. HistoryTypes'
  BY DEF CallBase, HistoryTypes, HeadNumber
<1>3. Undo(LevelState(1), changeLevels[1])' = Undo(LevelState(1), changeLevels[1])
  BY DEF BottomStays
<1>4. RecordsLinked'
  BY <1>3 DEF CallBase, RecordsLinked, HeadNumber, BottomStays
<1>5. QED
  BY <1>1, <1>2, <1>4 DEF CallBase

LEMMA MeantKept ==
  ASSUME RequestKept, NEW a \in Address
  PROVE  /\ Meant(a)' = Meant(a)
         /\ AsExpected(Meant(a), a) => AsExpected(Meant(a), a)'
<1>1. HeadNumber' = HeadNumber
  BY DEF RequestKept, HeadNumber
<1>2. Meant(a)' = Meant(a)
  BY <1>1 DEF RequestKept, Meant, HistoricalAt
<1>3. StateAt(call.block)' = StateAt(call.block) /\ Expected' = Expected
  BY <1>1 DEF RequestKept, StateAt, Expected
<1>4. QED
  BY <1>2, <1>3 DEF AsExpected

LEMMA NotIdle ==
  ASSUME NEW c \in Open
  PROVE  c # NoCall
  BY DEF Open, NoCall

LEMMA StepInv ==
  ASSUME CallInv, call # NoCall, [Next]_vars, BottomStays, RequestKept,
         UNCHANGED changeSetsSuspended, call' \in Open, Depth' = DepthOf(call.phase)',
         EntriesInOrder', EntriesEnd'
  PROVE  CallInv'
<1>1. CallBase /\ InCall
  BY DEF CallInv, CallBase
<1>2. CallBase'
  BY <1>1, BaseKept DEF RequestKept
<1>3. Open' = Open
  BY DEF Open, RequestKept, BottomStays, HeadNumber
<1>4. call' \in Open' /\ call' # NoCall
  BY <1>3, NotIdle
<1>5. \A a \in Address : AsExpected(Meant(a), a)'
  BY <1>1, MeantKept DEF InCall
<1>6. changeSetsSuspended' = 1
  BY <1>1 DEF InCall
<1>7. InCall'
  BY <1>4, <1>5, <1>6 DEF InCall
<1>8. NoCall' = NoCall
  BY DEF NoCall
<1>9. QED
  BY <1>2, <1>4, <1>7, <1>8 DEF CallInv, CallBase

InProgress == CallInv /\ call # NoCall

LEMMA InProgressFacts ==
  ASSUME InProgress
  PROVE  /\ CallBase /\ InCall /\ call \in Open /\ changeSetsSuspended = 1
         /\ Depth \in Nat \ {0} /\ Depth = DepthOf(call.phase)
         /\ call.level \in BOOLEAN
         /\ EntryDepth \in {1, 2}
         /\ call.phase \in {"open", "write", "read", "run", "ran", "close"}
<1>1. CallBase /\ InCall
  BY DEF InProgress, CallInv, CallBase
<1>2. Depth \in Nat \ {0}
  BY <1>1, StackTypes DEF CallBase
<1>3. call.level \in BOOLEAN
      /\ call.phase \in {"open", "write", "read", "run", "ran", "close"}
  BY <1>1 DEF InCall, Open
<1>4. QED
  BY <1>1, <1>2, <1>3 DEF InCall, EntryDepth

(* A field of the request in progress is replaced.                            *)
LEMMA RequestFields ==
  ASSUME NEW c \in Open
  PROVE  /\ \A p \in {"open", "write", "read", "run", "ran", "close"} :
              LET d == [c EXCEPT !.phase = p]
              IN  /\ d \in Open /\ d.phase = p /\ d.entry = c.entry /\ d.at = c.at
                  /\ d.historical = c.historical /\ d.overridden = c.overridden
                  /\ d.block = c.block /\ d.override = c.override /\ d.union = c.union
                  /\ d.level = c.level /\ d.before = c.before
  BY DEF Open

LEMMA StutterNext == UNCHANGED vars => [Next]_vars
  OBVIOUS

LEMMA SameLevels ==
  ASSUME UNCHANGED vars
  PROVE  /\ Depth' = Depth /\ UNCHANGED changeSetsSuspended /\ BottomStays
         /\ \A i : LevelState(i)' = LevelState(i)
  BY DEF vars, Depth, BottomStays, LevelState

LEMMA ReadyInv ==
  ASSUME InProgress, Ready
  PROVE  CallInv'
<1>1. /\ CallBase /\ InCall /\ call \in Open /\ call.phase = "write"
      /\ call.entry = NothingStated /\ call.historical = {} /\ call.overridden = {}
      /\ call' = [call EXCEPT !.phase = "read"] /\ UNCHANGED <<vars, sealed, past>>
      /\ Depth = EntryDepth /\ Depth \in Nat \ {0}
  BY InProgressFacts DEF Ready, DepthOf
<1>2. /\ call' \in Open /\ RequestKept /\ call'.phase = "read" /\ call'.entry = call.entry
      /\ call'.historical = {} /\ call'.overridden = {} /\ call'.level = call.level
  BY <1>1, RequestFields DEF RequestKept
<1>3. Depth' = Depth /\ EntryDepth' = EntryDepth /\ \A i : LevelState(i)' = LevelState(i)
  BY <1>1, <1>2, SameLevels DEF EntryDepth
<1>4. Depth' = DepthOf(call.phase)'
  BY <1>1, <1>2, <1>3 DEF DepthOf
<1>5. EntriesInOrder'
  BY <1>1, <1>2 DEF EntriesInOrder
<1>6. ASSUME NEW a \in Address
      PROVE  HeldIn(LevelState(EntryDepth), a)' = Meant(a)'
  <2>1. Ending(LevelState(Depth), a) = Meant(a)
    BY <1>1 DEF InCall, EntriesEnd
  <2>2. HeldIn(LevelState(Depth), a) \in HeldType
    <3>1. Depth \in 1..Depth
      BY <1>1
    <3>2. QED
      BY <1>1, <3>1, HeldInType DEF CallBase
  <2>3. AfterIf(a = call.at, call.entry, HeldIn(LevelState(Depth), a))
          = HeldIn(LevelState(Depth), a)
    BY <1>1, <2>2, AfterNothing DEF AfterIf
  <2>4. Ending(LevelState(Depth), a) = HeldIn(LevelState(Depth), a)
    BY <1>1, <2>3 DEF Ending, AfterIf
  <2>5. HeldIn(LevelState(EntryDepth), a)' = HeldIn(LevelState(Depth), a)
    BY <1>1, <1>3 DEF HeldIn
  <2>6. QED
    BY <1>2, <2>1, <2>4, <2>5, MeantKept
<1>7. EntriesEnd'
  BY <1>2, <1>6 DEF EntriesEnd
<1>8. QED
  BY <1>1, <1>2, <1>4, <1>5, <1>7, StepInv, StutterNext, SameLevels DEF InProgress

LEMMA OpenLevelInv ==
  ASSUME InProgress, OpenLevel
  PROVE  CallInv'
<1>1. /\ CallBase /\ InCall /\ call \in Open /\ call.phase = "open"
      /\ call' = [call EXCEPT !.phase = "write"] /\ UNCHANGED <<sealed, past>>
      /\ IF call.level THEN Checkpoint ELSE UNCHANGED vars
      /\ Depth = 1 /\ changeSetsSuspended = 1
  BY InProgressFacts DEF OpenLevel, DepthOf
<1>2. /\ call' \in Open /\ RequestKept /\ call'.phase = "write" /\ call'.entry = call.entry
      /\ call'.historical = call.historical /\ call'.overridden = call.overridden
      /\ call'.level = call.level /\ call'.at = call.at /\ call'.union = call.union
      /\ call'.override = call.override
  BY <1>1, RequestFields DEF RequestKept
<1>3. /\ Depth' = EntryDepth /\ BottomStays /\ UNCHANGED changeSetsSuspended
      /\ LevelState(EntryDepth)' = LevelState(1) /\ [Next]_vars
  <2>1. CASE call.level
    <3>1. /\ Depth' = 1 + 1 /\ UNCHANGED changeSetsSuspended
          /\ \A i \in 1..1 : LevelState(i)' = LevelState(i)
          /\ \A i \in 1..1 : changeLevels'[i] = changeLevels[i]
          /\ LevelState(1 + 1)' = LevelState(1)
      BY <1>1, <2>1, CheckpointLevels DEF CallBase
    <3>2. EntryDepth = 2 /\ EntryDepth' = 2
      BY <1>2, <2>1 DEF EntryDepth
    <3>3. [Next]_vars
      BY <1>1, <2>1 DEF Next, LevelStep
    <3>4. QED
      BY <3>1, <3>2, <3>3 DEF BottomStays
  <2>2. CASE ~ call.level
    <3>1. EntryDepth = 1 /\ EntryDepth' = 1
      BY <1>2, <2>2 DEF EntryDepth
    <3>2. QED
      BY <1>1, <2>2, <3>1, SameLevels, StutterNext
  <2>3. QED
    BY <2>1, <2>2
<1>4. Depth' = DepthOf(call.phase)'
  BY <1>2, <1>3 DEF DepthOf, EntryDepth
<1>5. EntriesInOrder'
  BY <1>1, <1>2 DEF EntriesInOrder, InCall
<1>6. ASSUME NEW a \in Address
      PROVE  Ending(LevelState(Depth), a)' = Meant(a)'
  <2>1. Ending(LevelState(1), a) = Meant(a)
    BY <1>1 DEF InCall, EntriesEnd
  <2>2. LevelState(Depth)' = LevelState(1)
    BY <1>2, <1>3 DEF EntryDepth
  <2>3. Ending(LevelState(Depth), a)' = Ending(LevelState(1), a)
    BY <1>2, <2>2 DEF Ending, HeldIn
  <2>4. QED
    BY <1>2, <2>1, <2>3, MeantKept
<1>7. EntriesEnd'
  BY <1>2, <1>6 DEF EntriesEnd
<1>8. QED
  BY <1>2, <1>3, <1>4, <1>5, <1>7, StepInv DEF InProgress

LEMMA TakeEntryInv ==
  ASSUME InProgress, TakeEntry
  PROVE  CallInv'
<1>1. /\ CallBase /\ InCall /\ call \in Open /\ call.phase = "write"
      /\ call.entry = NothingStated /\ UNCHANGED <<vars, sealed, past>>
      /\ Depth = EntryDepth /\ Depth \in Nat \ {0}
      /\ call.union \in ChangeSet /\ call.override \in Override
      /\ call.historical \in SUBSET Address /\ call.overridden \in SUBSET Address
  BY InProgressFacts DEF TakeEntry, DepthOf, Open
<1>2. PICK a \in Address, e \in Stated, hs \in SUBSET Address, os \in SUBSET Address :
        /\ call' = [call EXCEPT !.historical = hs, !.overridden = os, !.at = a, !.entry = e]
        /\ call.level
        /\ os \subseteq call.overridden
        /\ \/ /\ a \in call.historical /\ hs = call.historical \ {a}
              /\ os = call.overridden /\ e = HistoricalEntry(call.union, a)
           \/ /\ call.historical = {} /\ hs = {} /\ a \in call.overridden
              /\ os = call.overridden \ {a} /\ e = call.override[a]
  <2>1. ASSUME NEW a \in call.historical,
               call' = [call EXCEPT !.historical = @ \ {a}, !.at = a,
                                    !.entry = HistoricalEntry(call.union, a)]
        PROVE  /\ a \in Address /\ HistoricalEntry(call.union, a) \in Stated
               /\ call.historical \ {a} \in SUBSET Address
               /\ call' = [call EXCEPT !.historical = call.historical \ {a},
                                       !.overridden = call.overridden, !.at = a,
                                       !.entry = HistoricalEntry(call.union, a)]
               /\ call.level
    <3>1. a \in Address
      BY <1>1
    <3>2. HistoricalEntry(call.union, a) \in Stated
      BY <1>1, <3>1, HistoricalEntryType
    <3>3. call.level
      BY <1>1 DEF InCall, EntriesInOrder
    <3>4. call' = [call EXCEPT !.historical = call.historical \ {a},
                               !.overridden = call.overridden, !.at = a,
                               !.entry = HistoricalEntry(call.union, a)]
      BY <1>1, <2>1 DEF Open
    <3>5. QED
      BY <1>1, <3>1, <3>2, <3>3, <3>4
  <2>2. ASSUME call.historical = {}, NEW a \in call.overridden,
               call' = [call EXCEPT !.overridden = @ \ {a}, !.at = a,
                                    !.entry = call.override[a]]
        PROVE  /\ a \in Address /\ call.override[a] \in Stated
               /\ call.overridden \ {a} \in SUBSET Address
               /\ call' = [call EXCEPT !.historical = {},
                                       !.overridden = call.overridden \ {a}, !.at = a,
                                       !.entry = call.override[a]]
               /\ call.level
    <3>1. a \in Overrides(call.override)
      BY <1>1 DEF InCall, EntriesInOrder
    <3>2. a \in Address /\ call.override[a] \in Stated
      BY <1>1, <3>1, OverrideType
    <3>3. call.level
      BY <1>1 DEF InCall, EntriesInOrder
    <3>4. call' = [call EXCEPT !.historical = {},
                               !.overridden = call.overridden \ {a}, !.at = a,
                               !.entry = call.override[a]]
      BY <1>1, <2>2 DEF Open
    <3>5. QED
      BY <1>1, <3>2, <3>3, <3>4
  <2>3. CASE \E a \in call.historical :
               call' = [call EXCEPT !.historical = @ \ {a}, !.at = a,
                                    !.entry = HistoricalEntry(call.union, a)]
    <3>1. PICK a \in call.historical :
               call' = [call EXCEPT !.historical = @ \ {a}, !.at = a,
                                    !.entry = HistoricalEntry(call.union, a)]
      BY <2>3
    <3>2. QED
      BY <1>1, <2>1, <3>1
  <2>4. CASE /\ call.historical = {}
             /\ \E a \in call.overridden :
                  call' = [call EXCEPT !.overridden = @ \ {a}, !.at = a,
                                       !.entry = call.override[a]]
    <3>1. PICK a \in call.overridden :
                  call' = [call EXCEPT !.overridden = @ \ {a}, !.at = a,
                                       !.entry = call.override[a]]
      BY <2>4
    <3>2. QED
      BY <1>1, <2>2, <2>4, <3>1
  <2>5. QED
    BY <2>3, <2>4 DEF TakeEntry
<1>3. /\ call' \in Open /\ RequestKept /\ call'.phase = "write" /\ call'.entry = e
      /\ call'.historical = hs /\ call'.overridden = os
      /\ call'.level = call.level /\ call'.at = a /\ call'.union = call.union
      /\ call'.override = call.override
  BY <1>1, <1>2 DEF Open, RequestKept
<1>4. Depth' = Depth /\ EntryDepth' = EntryDepth /\ \A i : LevelState(i)' = LevelState(i)
  BY <1>1, <1>3, SameLevels DEF EntryDepth
<1>5. Depth' = DepthOf(call.phase)'
  BY <1>1, <1>3, <1>4 DEF DepthOf
<1>6. EntriesInOrder'
  BY <1>1, <1>2, <1>3 DEF EntriesInOrder, InCall
<1>7. ASSUME NEW b \in Address
      PROVE  Ending(LevelState(Depth), b)' = Meant(b)'
  <2>1. PICK h : h = HeldIn(LevelState(Depth), b)
    OBVIOUS
  <2>2. h \in HeldType
    <3>1. Depth \in 1..Depth
      BY <1>1
    <3>2. QED
      BY <1>1, <2>1, <3>1, HeldInType DEF CallBase
  <2>3. AfterIf(b = call.at, call.entry, h) = h
    BY <1>1, <2>2, AfterNothing DEF AfterIf
  <2>4. Ending(LevelState(Depth), b) =
          AfterIf(b \in call.overridden, call.override[b],
            AfterIf(b \in call.historical, HistoricalEntry(call.union, b), h))
    BY <2>1, <2>3 DEF Ending
  <2>5. Ending(LevelState(Depth), b)' =
          AfterIf(b \in os, call.override[b],
            AfterIf(b \in hs, HistoricalEntry(call.union, b), AfterIf(b = a, e, h)))
    BY <1>3, <1>4, <2>1 DEF Ending, HeldIn
  <2>6. Ending(LevelState(Depth), b)' = Ending(LevelState(Depth), b)
    BY <1>2, <2>4, <2>5 DEF AfterIf
  <2>7. Ending(LevelState(Depth), b) = Meant(b)
    BY <1>1 DEF InCall, EntriesEnd
  <2>8. QED
    BY <1>3, <2>6, <2>7, MeantKept
<1>8. EntriesEnd'
  BY <1>3, <1>7 DEF EntriesEnd
<1>9. QED
  BY <1>1, <1>3, <1>5, <1>6, <1>8, StepInv, StutterNext, SameLevels DEF InProgress

LEMMA EntryReplaced ==
  ASSUME NEW c \in Open, NEW e \in Stated, NEW d, d = [c EXCEPT !.entry = e]
  PROVE  /\ d \in Open /\ d.phase = c.phase /\ d.entry = e /\ d.at = c.at
         /\ d.historical = c.historical /\ d.overridden = c.overridden
         /\ d.block = c.block /\ d.override = c.override /\ d.union = c.union
         /\ d.level = c.level /\ d.before = c.before
  BY DEF Open

(* A write of the entry in hand leaves less of it to be written, and the same  *)
(* in the end.                                                              *)
LEMMA WriteInv ==
  ASSUME InProgress, call.phase = "write", WriteStep, UNCHANGED <<sealed, past>>,
         NEW d \in Stated, call' = [call EXCEPT !.entry = d], call.entry # NothingStated,
         NEW g, \A b \in Address : TopHeld(b)' = IF b = call.at THEN g ELSE TopHeld(b),
         call.at \in Address => After(d, g) = After(call.entry, TopHeld(call.at))
  PROVE  CallInv'
<1>1. /\ CallBase /\ InCall /\ call \in Open
      /\ call.at \in Address /\ call.level = TRUE
      /\ Depth = 2 /\ EntryDepth = 2
  BY InProgressFacts DEF InCall, EntriesInOrder, DepthOf, EntryDepth
<1>2. /\ call' \in Open /\ RequestKept /\ call'.phase = "write" /\ call'.entry = d
      /\ call'.historical = call.historical /\ call'.overridden = call.overridden
      /\ call'.level = call.level /\ call'.at = call.at /\ call'.union = call.union
      /\ call'.override = call.override
  <2>1. PICK c : c = [call EXCEPT !.entry = d]
    OBVIOUS
  <2>2. /\ c \in Open /\ c.phase = call.phase /\ c.entry = d /\ c.at = call.at
        /\ c.historical = call.historical /\ c.overridden = call.overridden
        /\ c.block = call.block /\ c.override = call.override /\ c.union = call.union
        /\ c.level = call.level /\ c.before = call.before
    BY ONLY <1>1, <2>1, EntryReplaced
  <2>3. call' = c
    BY <2>1
  <2>4. QED
    BY <1>1, <2>2, <2>3 DEF RequestKept
<1>3. Depth' = Depth /\ BottomStays /\ UNCHANGED changeSetsSuspended /\ [Next]_vars
  <2>1. /\ Depth' = Depth /\ UNCHANGED changeSetsSuspended
        /\ \A i \in 1..(Depth - 1) : LevelState(i)' = LevelState(i)
        /\ \A i \in 1..(Depth - 1) : changeLevels'[i] = changeLevels[i]
    BY <1>1, WriteLevels DEF CallBase
  <2>2. 1 \in 1..(Depth - 1)
    BY <1>1
  <2>3. QED
    BY <2>1, <2>2, WriteIsNext DEF BottomStays
<1>4. Depth' = DepthOf(call.phase)'
  BY <1>1, <1>2, <1>3 DEF DepthOf, EntryDepth
<1>5. EntriesInOrder'
  BY <1>1, <1>2 DEF EntriesInOrder, InCall
<1>6. ASSUME NEW b \in Address
      PROVE  Ending(LevelState(Depth), b)' = Meant(b)'
  <2>1. Ending(LevelState(Depth), b) =
          AfterIf(b \in call.overridden, call.override[b],
            AfterIf(b \in call.historical, HistoricalEntry(call.union, b),
              AfterIf(b = call.at, call.entry, TopHeld(b))))
    BY DEF Ending, TopHeld
  <2>2. Ending(LevelState(Depth), b)' =
          AfterIf(b \in call.overridden, call.override[b],
            AfterIf(b \in call.historical, HistoricalEntry(call.union, b),
              AfterIf(b = call.at, d, TopHeld(b)')))
    BY <1>2 DEF Ending, TopHeld
  <2>3. AfterIf(b = call.at, d, TopHeld(b)') = AfterIf(b = call.at, call.entry, TopHeld(b))
    BY <1>1 DEF AfterIf
  <2>4. Ending(LevelState(Depth), b) = Meant(b)
    BY <1>1 DEF InCall, EntriesEnd
  <2>5. QED
    BY <1>2, <2>1, <2>2, <2>3, <2>4, MeantKept
<1>7. EntriesEnd'
  BY <1>2, <1>6 DEF EntriesEnd
<1>8. QED
  BY <1>2, <1>3, <1>4, <1>5, <1>7, StepInv DEF InProgress

LEMMA WritesAreSteps ==
  ASSUME NEW a \in Address
  PROVE  /\ \A acct \in Account : SetAccountAt(a, acct) => WriteStep
         /\ \A f \in Fields : ModifyAccountFields(a, f) => WriteStep
         /\ \A c \in Code : PutCode(a, c) => WriteStep
         /\ \A s \in Slot, v \in SlotContent : SetStorageAt(a, s, v) => WriteStep
         /\ ClearStorageAt(a) => WriteStep
         /\ DeleteAccount(a) => WriteStep
  BY DEF WriteStep, AccountStep, CodeStep, StorageStep

LEMMA EntryInHand ==
  ASSUME InProgress, call.phase = "write", call.entry # NothingStated
  PROVE  /\ TypeOK /\ call \in Open /\ call.entry \in Stated
         /\ call.at \in Address /\ TopHeld(call.at) \in HeldType
<1>1. /\ CallBase /\ InCall /\ call \in Open /\ call.at \in Address
  BY InProgressFacts DEF InCall, EntriesInOrder
<1>2. TypeOK
  BY <1>1 DEF CallBase
<1>3. TopHeld(call.at) \in HeldType
  BY <1>1, <1>2, TopType
<1>4. QED
  BY <1>1, <1>2, <1>3 DEF Open

LEMMA WriteEntryInv ==
  ASSUME InProgress, WriteEntry
  PROVE  CallInv'
<1> DEFINE e == call.entry
           a == call.at
           h == TopHeld(call.at)
<1>1. call.phase = "write" /\ UNCHANGED <<sealed, past>>
  BY DEF WriteEntry, WriteCode, WriteAccount, WriteFields, WriteClear, WriteSlot,
         EmptyAbsent, DeleteAbsent
<1>2. e # NothingStated
  <2>1. /\ NothingStated.code = Absent /\ NothingStated.account = Absent
        /\ NothingStated.fields = Absent /\ NothingStated.clearStorage = FALSE
        /\ NothingStated.absent = "no"
        /\ \A s \in Slot : NothingStated.slots[s] = Absent
    BY ConstantsApart DEF NothingStated
  <2> HIDE DEF e
  <2>2. \/ e.code # Absent \/ e.account # Absent \/ e.fields # Absent \/ e.clearStorage
        \/ \E s \in Slot : e.slots[s] # Absent
        \/ e.absent = "empty" \/ e.absent = "delete"
    BY DEF WriteEntry, WriteCode, WriteAccount, WriteFields, WriteClear, WriteSlot,
           EmptyAbsent, DeleteAbsent, e
  <2>3. QED
    BY <2>1, <2>2
<1>3. TypeOK /\ call \in Open /\ e \in Stated /\ a \in Address /\ h \in HeldType
  BY <1>1, <1>2, EntryInHand
<1>4. /\ e.code \in Code \cup {Absent} /\ e.account \in Account \cup {Absent}
      /\ e.fields \in Fields \cup {Absent} /\ e.clearStorage \in BOOLEAN
      /\ \A s \in Slot : e.slots[s] \in SlotContent \cup {Absent}
  BY <1>3 DEF Stated
<1>5. CASE WriteCode
  <2>1. /\ e.code \in Code /\ e.code # Absent /\ PutCode(a, e.code)
        /\ call' = [call EXCEPT !.entry.code = Absent]
    BY <1>4, <1>5 DEF WriteCode
  <2>2. PICK d \in Stated : d = [e EXCEPT !.code = Absent]
    BY <1>3 DEF Stated
  <2>3. call' = [call EXCEPT !.entry = d]
    BY <1>3, <2>1, <2>2 DEF Open
  <2>4. PICK g : g = [account |-> [OrNew(h.account) EXCEPT !.codeHash = e.code],
                      code |-> e.code, slots |-> h.slots]
    OBVIOUS
  <2>5. \A b \in Address : TopHeld(b)' = IF b = a THEN g ELSE TopHeld(b)
    BY <1>3, <2>1, <2>4, PutCodeHeld
  <2>6. WriteStep
    BY <1>3, <2>1, WritesAreSteps
  <2> HIDE DEF e, a, h
  <2>7. After(d, g) = After(e, h)
    BY <1>3, <2>1, <2>2, <2>4, SameEndCode
  <2>8. QED
    BY <1>1, <1>2, <2>3, <2>5, <2>6, <2>7, WriteInv DEF e, a, h
<1>6. CASE WriteAccount
  <2>1. /\ e.code = Absent /\ e.account \in Account /\ e.account # Absent
        /\ SetAccountAt(a, e.account)
        /\ call' = [call EXCEPT !.entry.account = Absent]
    BY <1>4, <1>6 DEF WriteAccount
  <2>2. PICK d \in Stated : d = [e EXCEPT !.account = Absent]
    BY <1>3 DEF Stated
  <2>3. call' = [call EXCEPT !.entry = d]
    BY <1>3, <2>1, <2>2 DEF Open
  <2>4. PICK g : g = [account |-> e.account, code |-> h.code, slots |-> h.slots]
    OBVIOUS
  <2>5. \A b \in Address : TopHeld(b)' = IF b = a THEN g ELSE TopHeld(b)
    BY <1>3, <2>1, <2>4, SetAccountHeld
  <2>6. WriteStep
    BY <1>3, <2>1, WritesAreSteps
  <2> HIDE DEF e, a, h
  <2>7. After(d, g) = After(e, h)
    BY <1>3, <2>1, <2>2, <2>4, SameEndAccount
  <2>8. QED
    BY <1>1, <1>2, <2>3, <2>5, <2>6, <2>7, WriteInv DEF e, a, h
<1>7. CASE WriteFields
  <2>1. /\ e.code = Absent /\ e.account = Absent /\ e.fields \in Fields /\ e.fields # Absent
        /\ ModifyAccountFields(a, e.fields)
        /\ call' = [call EXCEPT !.entry.fields = Absent]
    BY <1>4, <1>7 DEF WriteFields, AccountDone
  <2>2. PICK d \in Stated : d = [e EXCEPT !.fields = Absent]
    BY <1>3 DEF Stated
  <2>3. call' = [call EXCEPT !.entry = d]
    BY <1>3, <2>1, <2>2 DEF Open
  <2>4. PICK g : g = [account |-> [OrNew(h.account) EXCEPT !.fields = e.fields],
                      code |-> h.code, slots |-> h.slots]
    OBVIOUS
  <2>5. \A b \in Address : TopHeld(b)' = IF b = a THEN g ELSE TopHeld(b)
    BY <1>3, <2>1, <2>4, ModifyFieldsHeld
  <2>6. WriteStep
    BY <1>3, <2>1, WritesAreSteps
  <2> HIDE DEF e, a, h
  <2>7. After(d, g) = After(e, h)
    BY <1>3, <2>1, <2>2, <2>4, SameEndFields
  <2>8. QED
    BY <1>1, <1>2, <2>3, <2>5, <2>6, <2>7, WriteInv DEF e, a, h
<1>8. CASE WriteClear
  <2>1. /\ Clears(e) /\ ClearStorageAt(a)
        /\ call' = [call EXCEPT !.entry.clearStorage = FALSE]
    BY <1>4, <1>8 DEF WriteClear, Clears
  <2>2. PICK d \in Stated : d = [e EXCEPT !.clearStorage = FALSE]
    BY <1>3 DEF Stated
  <2>3. call' = [call EXCEPT !.entry = d]
    BY <1>3, <2>1, <2>2 DEF Open
  <2>4. PICK g : g = [account |-> h.account, code |-> h.code, slots |-> NothingWritten]
    OBVIOUS
  <2>5. \A b \in Address : TopHeld(b)' = IF b = a THEN g ELSE TopHeld(b)
    BY <1>3, <2>1, <2>4, ClearStorageHeld
  <2>6. WriteStep
    BY <1>3, <2>1, WritesAreSteps
  <2> HIDE DEF e, a, h
  <2>7. After(d, g) = After(e, h)
    BY ONLY <1>3, <2>1, <2>2, <2>4, SameEndClear
  <2>8. QED
    BY <1>1, <1>2, <2>3, <2>5, <2>6, <2>7, WriteInv DEF e, a, h
<1>9. ASSUME NEW s \in Slot, WriteSlot(s)
      PROVE  CallInv'
  <2>1. /\ ~ Clears(e) /\ e.slots[s] # Absent /\ e.slots[s] \in SlotContent
        /\ SetStorageAt(a, s, e.slots[s])
        /\ call' = [call EXCEPT !.entry.slots[s] = Absent]
    BY <1>4, <1>9 DEF WriteSlot, ClearDone, Clears
  <2>2. PICK d \in Stated : d = [e EXCEPT !.slots[s] = Absent]
    <3>1. [e.slots EXCEPT ![s] = Absent] \in [Slot -> SlotContent \cup {Absent}]
      BY <1>3 DEF Stated
    <3>2. [e EXCEPT !.slots = [e.slots EXCEPT ![s] = Absent]] \in Stated
      BY <1>3, <3>1 DEF Stated
    <3>3. [e EXCEPT !.slots[s] = Absent] = [e EXCEPT !.slots = [e.slots EXCEPT ![s] = Absent]]
      BY <1>3 DEF Stated
    <3>4. QED
      BY <3>2, <3>3
  <2>3. call' = [call EXCEPT !.entry = d]
    BY <1>3, <2>1, <2>2 DEF Open
  <2>4. PICK g : g = [account |-> h.account, code |-> h.code,
                      slots |-> [h.slots EXCEPT ![s] = e.slots[s]]]
    OBVIOUS
  <2>5. \A b \in Address : TopHeld(b)' = IF b = a THEN g ELSE TopHeld(b)
    BY <1>3, <2>1, <2>4, SetStorageHeld
  <2>6. WriteStep
    BY <1>3, <2>1, WritesAreSteps
  <2> HIDE DEF e, a, h
  <2>7. After(d, g) = After(e, h)
    BY ONLY <1>3, <2>1, <2>2, <2>4, SameEndSlot
  <2>8. QED
    BY <1>1, <1>2, <2>3, <2>5, <2>6, <2>7, WriteInv DEF e, a, h
<1>10. CASE EmptyAbsent
  <2>1. /\ e.absent = "empty" /\ e.code = Absent /\ PutCode(a, EmptyCode)
        /\ call' = [call EXCEPT !.entry.absent = "delete"]
    BY <1>10 DEF EmptyAbsent, SlotsDone, ClearDone, FieldsDone, AccountDone
  <2>2. PICK d \in Stated : d = [e EXCEPT !.absent = "delete"]
    BY <1>3 DEF Stated
  <2>3. call' = [call EXCEPT !.entry = d]
    BY <1>3, <2>1, <2>2 DEF Open
  <2>4. PICK acct : acct = [OrNew(h.account) EXCEPT !.codeHash = EmptyCode]
    OBVIOUS
  <2>5. PICK g : g = [account |-> acct, code |-> EmptyCode, slots |-> h.slots]
    OBVIOUS
  <2>6. \A b \in Address : TopHeld(b)' = IF b = a THEN g ELSE TopHeld(b)
    BY <1>3, <2>1, <2>4, <2>5, PutCodeHeld, ConstantsApart
  <2>7. WriteStep
    BY <1>3, <2>1, WritesAreSteps, ConstantsApart
  <2> HIDE DEF e, a, h
  <2>8. After(d, g) = After(e, h)
    BY <1>3, <2>1, <2>2, <2>5, SameEndEmpty
  <2>9. QED
    BY <1>1, <1>2, <2>3, <2>6, <2>7, <2>8, WriteInv DEF e, a, h
<1>11. CASE DeleteAbsent
  <2>1. /\ e.absent = "delete" /\ e.code = Absent /\ e.account = Absent
        /\ e.fields = Absent /\ e.slots = NothingWritten /\ DeleteAccount(a)
        /\ call' = [call EXCEPT !.entry.absent = "no"]
    BY <1>11 DEF DeleteAbsent, SlotsDone, ClearDone, FieldsDone, AccountDone
  <2>2. PICK d \in Stated : d = [e EXCEPT !.absent = "no"]
    BY <1>3 DEF Stated
  <2>3. call' = [call EXCEPT !.entry = d]
    BY <1>3, <2>1, <2>2 DEF Open
  <2>4. PICK g : g = [account |-> Absent, code |-> h.code, slots |-> NothingWritten]
    OBVIOUS
  <2>5. \A b \in Address : TopHeld(b)' = IF b = a THEN g ELSE TopHeld(b)
    BY <1>3, <2>1, <2>4, DeleteHeld
  <2>6. WriteStep
    BY <1>3, <2>1, WritesAreSteps
  <2> HIDE DEF e, a, h
  <2>7. After(d, g) = After(e, h)
    BY <1>3, <2>1, <2>2, <2>4, SameEndDelete
  <2>8. QED
    BY <1>1, <1>2, <2>3, <2>5, <2>6, <2>7, WriteInv DEF e, a, h
<1>12. QED
  BY <1>5, <1>6, <1>7, <1>8, <1>9, <1>10, <1>11 DEF WriteEntry

LEMMA BeginRunInv ==
  ASSUME InProgress, BeginRun
  PROVE  CallInv'
<1>1. /\ CallBase /\ InCall /\ call \in Open /\ call.phase = "read"
      /\ call' = [call EXCEPT !.phase = "run"] /\ UNCHANGED <<sealed, past>>
      /\ Checkpoint /\ Depth = EntryDepth /\ Depth \in Nat \ {0}
  BY InProgressFacts DEF BeginRun, DepthOf
<1>2. /\ call' \in Open /\ RequestKept /\ call'.phase = "run" /\ call'.entry = call.entry
      /\ call'.historical = call.historical /\ call'.overridden = call.overridden
      /\ call'.level = call.level /\ call'.at = call.at /\ call'.override = call.override
  BY <1>1, RequestFields DEF RequestKept
<1>3. /\ Depth' = Depth + 1 /\ UNCHANGED changeSetsSuspended
      /\ \A i \in 1..Depth : LevelState(i)' = LevelState(i)
      /\ \A i \in 1..Depth : changeLevels'[i] = changeLevels[i]
  BY <1>1, CheckpointLevels DEF CallBase
<1>4. /\ BottomStays /\ [Next]_vars /\ EntryDepth' = EntryDepth
      /\ LevelState(EntryDepth)' = LevelState(EntryDepth)
  <2>1. 1 \in 1..Depth /\ Depth \in 1..Depth
    BY <1>1
  <2>2. EntryDepth' = EntryDepth
    BY <1>2 DEF EntryDepth
  <2>3. [Next]_vars
    BY <1>1 DEF Next, LevelStep
  <2>4. QED
    BY <1>1, <1>3, <2>1, <2>2, <2>3 DEF BottomStays
<1>5. Depth' = DepthOf(call.phase)'
  BY <1>1, <1>2, <1>3, <1>4 DEF DepthOf
<1>6. EntriesInOrder'
  BY <1>1, <1>2 DEF EntriesInOrder, InCall
<1>7. ASSUME NEW a \in Address
      PROVE  HeldIn(LevelState(EntryDepth), a)' = Meant(a)'
  <2>1. HeldIn(LevelState(EntryDepth), a) = Meant(a)
    BY <1>1 DEF InCall, EntriesEnd
  <2>2. HeldIn(LevelState(EntryDepth), a)' = HeldIn(LevelState(EntryDepth), a)
    BY <1>4 DEF HeldIn
  <2>3. QED
    BY <1>2, <2>1, <2>2, MeantKept
<1>8. EntriesEnd'
  BY <1>2, <1>7 DEF EntriesEnd
<1>9. QED
  BY <1>2, <1>3, <1>4, <1>5, <1>6, <1>8, StepInv DEF InProgress

LEMMA RunWritesInv ==
  ASSUME InProgress, RunWrites
  PROVE  CallInv'
<1>1. /\ CallBase /\ InCall /\ call \in Open /\ call.phase = "run"
      /\ call' = [call EXCEPT !.phase = "ran"] /\ UNCHANGED <<sealed, past>>
      /\ Depth = EntryDepth + 1 /\ Depth \in Nat \ {0} /\ EntryDepth \in {1, 2}
  BY InProgressFacts DEF RunWrites, DepthOf
<1>2. WriteStep
  BY WritesAreSteps DEF RunWrites
<1>3. /\ call' \in Open /\ RequestKept /\ call'.phase = "ran" /\ call'.entry = call.entry
      /\ call'.historical = call.historical /\ call'.overridden = call.overridden
      /\ call'.level = call.level /\ call'.at = call.at /\ call'.override = call.override
  BY <1>1, RequestFields DEF RequestKept
<1>4. /\ Depth' = Depth /\ UNCHANGED changeSetsSuspended
      /\ \A i \in 1..(Depth - 1) : LevelState(i)' = LevelState(i)
      /\ \A i \in 1..(Depth - 1) : changeLevels'[i] = changeLevels[i]
  BY <1>1, <1>2, WriteLevels DEF CallBase
<1>5. /\ BottomStays /\ [Next]_vars /\ EntryDepth' = EntryDepth
      /\ LevelState(EntryDepth)' = LevelState(EntryDepth)
  <2>1. 1 \in 1..(Depth - 1) /\ EntryDepth \in 1..(Depth - 1)
    BY <1>1
  <2>2. EntryDepth' = EntryDepth
    BY <1>3 DEF EntryDepth
  <2>3. QED
    BY <1>2, <1>4, <2>1, <2>2, WriteIsNext DEF BottomStays
<1>6. Depth' = DepthOf(call.phase)'
  BY <1>1, <1>3, <1>4, <1>5 DEF DepthOf
<1>7. EntriesInOrder'
  BY <1>1, <1>3 DEF EntriesInOrder, InCall
<1>8. ASSUME NEW a \in Address
      PROVE  HeldIn(LevelState(EntryDepth), a)' = Meant(a)'
  <2>1. HeldIn(LevelState(EntryDepth), a) = Meant(a)
    BY <1>1 DEF InCall, EntriesEnd
  <2>2. HeldIn(LevelState(EntryDepth), a)' = HeldIn(LevelState(EntryDepth), a)
    BY <1>5 DEF HeldIn
  <2>3. QED
    BY <1>3, <2>1, <2>2, MeantKept
<1>9. EntriesEnd'
  BY <1>3, <1>8 DEF EntriesEnd
<1>10. QED
  BY <1>3, <1>4, <1>5, <1>6, <1>7, <1>9, StepInv DEF InProgress

LEMMA EndRunInv ==
  ASSUME InProgress, EndRun
  PROVE  CallInv'
<1>1. /\ CallBase /\ InCall /\ call \in Open /\ call.phase \in {"run", "ran"}
      /\ call' = [call EXCEPT !.phase = "read"] /\ UNCHANGED <<sealed, past>>
      /\ Revert /\ Depth = EntryDepth + 1 /\ EntryDepth \in {1, 2}
  BY InProgressFacts DEF EndRun, DepthOf
<1>2. /\ call' \in Open /\ RequestKept /\ call'.phase = "read" /\ call'.entry = call.entry
      /\ call'.historical = call.historical /\ call'.overridden = call.overridden
      /\ call'.level = call.level /\ call'.at = call.at /\ call'.override = call.override
  BY <1>1, RequestFields DEF RequestKept
<1>3. PICK d \in Nat \ {0} : d = EntryDepth
  BY <1>1
<1>4. /\ Depth' = d /\ UNCHANGED changeSetsSuspended
      /\ \A i \in 1..d : LevelState(i)' = LevelState(i)
      /\ \A i \in 1..d : changeLevels'[i] = changeLevels[i]
  BY <1>1, <1>3, RevertLevels DEF CallBase
<1>5. /\ BottomStays /\ [Next]_vars /\ EntryDepth' = EntryDepth
      /\ LevelState(EntryDepth)' = LevelState(EntryDepth)
  <2>1. 1 \in 1..d /\ d \in 1..d
    BY <1>3
  <2>2. EntryDepth' = EntryDepth
    BY <1>2 DEF EntryDepth
  <2>3. [Next]_vars
    BY <1>1 DEF Next, LevelStep
  <2>4. QED
    BY <1>3, <1>4, <2>1, <2>2, <2>3 DEF BottomStays
<1>6. Depth' = DepthOf(call.phase)'
  BY <1>2, <1>3, <1>4, <1>5 DEF DepthOf
<1>7. EntriesInOrder'
  BY <1>1, <1>2 DEF EntriesInOrder, InCall
<1>8. ASSUME NEW a \in Address
      PROVE  HeldIn(LevelState(EntryDepth), a)' = Meant(a)'
  <2>1. HeldIn(LevelState(EntryDepth), a) = Meant(a)
    BY <1>1 DEF InCall, EntriesEnd
  <2>2. HeldIn(LevelState(EntryDepth), a)' = HeldIn(LevelState(EntryDepth), a)
    BY <1>5 DEF HeldIn
  <2>3. QED
    BY <1>2, <2>1, <2>2, MeantKept
<1>9. EntriesEnd'
  BY <1>2, <1>8 DEF EntriesEnd
<1>10. QED
  BY <1>2, <1>4, <1>5, <1>6, <1>7, <1>9, StepInv DEF InProgress

LEMMA EndReadInv ==
  ASSUME InProgress, EndRead
  PROVE  CallInv'
<1>1. /\ CallBase /\ InCall /\ call \in Open /\ call.phase = "read"
      /\ call' = [call EXCEPT !.phase = "close"] /\ UNCHANGED <<sealed, past>>
      /\ IF call.level THEN Revert ELSE UNCHANGED vars
      /\ Depth = EntryDepth
  BY InProgressFacts DEF EndRead, CloseLevel, DepthOf
<1>2. /\ call' \in Open /\ RequestKept /\ call'.phase = "close" /\ call'.entry = call.entry
      /\ call'.historical = call.historical /\ call'.overridden = call.overridden
      /\ call'.level = call.level /\ call'.at = call.at /\ call'.override = call.override
  BY <1>1, RequestFields DEF RequestKept
<1>3. Depth' = 1 /\ BottomStays /\ UNCHANGED changeSetsSuspended /\ [Next]_vars
  <2>1. CASE call.level
    <3>1. PICK d \in Nat \ {0} : d = 1
      OBVIOUS
    <3>2. /\ Depth' = d /\ UNCHANGED changeSetsSuspended
          /\ \A i \in 1..d : LevelState(i)' = LevelState(i)
          /\ \A i \in 1..d : changeLevels'[i] = changeLevels[i]
      <4>1. Depth = d + 1
        BY <1>1, <2>1, <3>1 DEF EntryDepth
      <4>2. QED
        BY <1>1, <2>1, <4>1, RevertLevels DEF CallBase
    <3>3. [Next]_vars
      BY <1>1, <2>1 DEF Next, LevelStep
    <3>4. QED
      BY <3>1, <3>2, <3>3 DEF BottomStays
  <2>2. CASE ~ call.level
    <3>1. Depth = 1
      BY <1>1, <2>2 DEF EntryDepth
    <3>2. QED
      BY <1>1, <2>2, <3>1, SameLevels, StutterNext
  <2>3. QED
    BY <2>1, <2>2
<1>4. Depth' = DepthOf(call.phase)'
  BY <1>2, <1>3 DEF DepthOf
<1>5. EntriesInOrder'
  BY <1>1, <1>2 DEF EntriesInOrder, InCall
<1>6. EntriesEnd'
  BY <1>2 DEF EntriesEnd
<1>7. QED
  BY <1>2, <1>3, <1>4, <1>5, <1>6, StepInv DEF InProgress

LEMMA EndCallInv ==
  ASSUME InProgress, EndCall
  PROVE  CallInv'
<1>1. /\ CallBase /\ Depth = 1 /\ changeSetsSuspended = 1
      /\ changeSetsSuspended' = changeSetsSuspended - 1
      /\ UNCHANGED <<accountStack, codeStack, storageOverlays, changeLevels>>
      /\ UNCHANGED <<sealed, past>> /\ call' = NoCall
  BY InProgressFacts DEF EndCall, DepthOf
<1>2. [Next]_vars
  BY <1>1 DEF EndPureRead, Next, LevelStep
<1>3. Depth' = 1 /\ BottomStays /\ changeSetsSuspended' = 0
  BY <1>1 DEF Depth, BottomStays, LevelState
<1>4. CallBase'
  BY <1>1, <1>2, <1>3, BaseKept
<1>5. NoCall' = NoCall
  BY DEF NoCall
<1>6. QED
  BY <1>1, <1>3, <1>4, <1>5 DEF CallInv, CallBase

-----------------------------------------------------------------------------
(* Between requests. *)

(* A block's state is a state, and a request reads it.                        *)
LEMMA StateForType ==
  ASSUME TypeOK, HistoryTypes, NEW k \in 0..HeadNumber
  PROVE  StateFor(k) \in StateType
<1>1. LevelState(1) \in StateType
  BY BottomTypes
<1>2. k + 1 \in 1..Len(past)
  BY RecordsType DEF HistoryTypes
<1>3. past[k + 1] \in StateType
  BY <1>2 DEF HistoryTypes
<1>4. QED
  BY <1>1, <1>3 DEF StateFor

LEMMA BeginCallInv ==
  ASSUME CallInv, NEW k \in 0..HeadNumber, NEW o \in Override, BeginCall(k, o)
  PROVE  CallInv'
<1>1. /\ CallBase /\ Depth = 1 /\ Depth' = 1 /\ changeSetsSuspended' = 1
      /\ [Next]_vars /\ BottomStays /\ UNCHANGED <<sealed, past>>
      /\ \A i : LevelState(i)' = LevelState(i)
  BY DEF CallInv, CallBase, BeginCall, BeginPureRead, Next, LevelStep, Depth, BottomStays,
         LevelState
<1>2. CallBase'
  BY <1>1, BaseKept
<1>3. TypeOK /\ HistoryTypes /\ AllClearsExplained /\ RecordsLinked
      /\ HeadNumber' = HeadNumber
  BY <1>1 DEF CallBase, HeadNumber
<1>4. PICK U \in ChangeSet : U = UnionAfter(k)
  BY <1>3, UnionType
<1>5. PICK hs \in SUBSET Address, os \in SUBSET Address, level \in BOOLEAN :
        /\ hs = HistoricalAt(k, U) /\ os = Overrides(o)
        /\ level = (hs \cup os # {})
        /\ call' = [phase |-> "open", block |-> k, override |-> o, union |-> U,
                    historical |-> hs, overridden |-> os, level |-> level,
                    at |-> Absent, entry |-> NothingStated,
                    before |-> <<LevelState(1), changeLevels[1]>>]
  BY <1>4 DEF BeginCall, HistoricalAt, Named, Overrides
<1>6. NothingStated \in Stated
  BY ConstantsApart DEF NothingStated, Stated
<1>7. call' \in Open' /\ call' # NoCall
  <2>1. call' \in Open
    BY <1>5, <1>6 DEF Open
  <2>2. Open' = Open
    BY <1>1, <1>3 DEF Open, BottomStays
  <2>3. QED
    BY <2>1, <2>2, NotIdle
<1>8. Depth' = DepthOf(call.phase)'
  BY <1>1, <1>5 DEF DepthOf
<1>9. EntriesInOrder'
  BY <1>5 DEF EntriesInOrder, Overrides
<1>10. ASSUME NEW a \in Address
       PROVE  /\ Ending(LevelState(Depth), a)' = Meant(a)'
              /\ AsExpected(Meant(a), a)'
  <2>1. PICK now \in HeldType : now = HeldIn(LevelState(1), a)
    BY <1>1, <1>3, HeldInType
  <2>2. Meant(a)' = AfterIf(a \in os, o[a], AfterIf(a \in hs, HistoricalEntry(U, a), now))
    BY <1>3, <1>5, <2>1 DEF Meant, HistoricalAt, HeldIn
  <2>3. Ending(LevelState(Depth), a)' =
          AfterIf(a \in os, o[a], AfterIf(a \in hs, HistoricalEntry(U, a),
            AfterIf(a = Absent, NothingStated, now)))
    BY <1>1, <1>5, <2>1 DEF Ending, HeldIn
  <2>4. AfterIf(a = Absent, NothingStated, now) = now
    BY AfterNothing DEF AfterIf
  <2>5. PICK h : h = AfterIf(a \in hs, HistoricalEntry(U, a), now)
    OBVIOUS
  <2>6. h \in HeldType
    BY <2>5, HistoricalEntryType, AfterType DEF AfterIf
  <2>7. RestoredTo(k, a) = h
    BY <1>4, <1>5, <2>1, <2>5 DEF RestoredTo
  <2>8. ReadsAs(h, StateFor(k), a)
    BY <1>3, <2>7, HistoricalRestores
  <2>9. PICK S \in StateType : S = StateFor(k)
    BY <1>3, StateForType
  <2>10. LET held == AfterIf(a \in Overrides(o), o[a], h)
         IN  /\ held.account = Overridden(S, o).accounts[a]
             /\ S.accounts[a] # Absent =>
                  /\ Bytes(held.code) = Overridden(S, o).code[a]
                  /\ \A s \in Slot : Word(held.slots[s]) = Overridden(S, o).storage[a][s]
    BY ONLY o \in Override, a \in Address, <2>6, <2>8, <2>9, OverridesApply
  <2>11. Meant(a)' = AfterIf(a \in Overrides(o), o[a], h)
    BY <1>5, <2>2, <2>5
  <2>12. StateAt(call.block)' = S
    BY <1>1, <1>3, <1>5, <2>9 DEF StateAt, StateFor
  <2>13. Expected' = Overridden(S, o)
    BY <1>5, <2>12 DEF Expected
  <2>14. AsExpected(Meant(a), a)'
    BY <2>10, <2>11, <2>12, <2>13 DEF AsExpected
  <2>15. QED
    BY <2>2, <2>3, <2>4, <2>14
<1>11. EntriesEnd'
  BY <1>5, <1>10 DEF EntriesEnd
<1>12. InCall'
  BY <1>1, <1>7, <1>8, <1>9, <1>10, <1>11 DEF InCall
<1>13. NoCall' = NoCall
  BY DEF NoCall
<1>14. QED
  BY <1>2, <1>7, <1>12, <1>13 DEF CallInv, CallBase

(* No record names an address's code without naming the account.              *)
LEMMA BottomNamesAccount ==
  ASSUME TypeOK, Depth = 1, CodeNamesAccount(changeLevels[1]), NEW a \in Address,
         \/ \E f \in Fields : ModifyAccountFields(a, f)
         \/ \E c \in Code : PutCode(a, c)
         \/ \E s \in Slot, v \in SlotContent : SetStorageAt(a, s, v)
         \/ ClearStorageAt(a)
         \/ DeleteAccount(a)
  PROVE  CodeNamesAccount(changeLevels'[1])
<1>1. /\ changeLevels \in Seq(ChangeSet) /\ Len(changeLevels) = Depth
      /\ Recording /\ PriorIndex = 1
  BY DEF TypeOK, Recording, PriorIndex
<1>2. accountStack[1][a] # NotRecorded
  <2>1. accountStack[1] \in AccountMap
    BY BottomTypes
  <2>2. QED
    BY <2>1, ConstantsApart DEF AccountMap
<1>3. ASSUME NEW f \in Fields, ModifyAccountFields(a, f)
      PROVE  CodeNamesAccount(changeLevels'[1])
  <2>1. \E accounts : changeLevels' = RecordAccountPrior(changeLevels, accounts, a)
    BY <1>3 DEF ModifyAccountFields
  <2>2. PICK accounts : changeLevels' = RecordAccountPrior(changeLevels, accounts, a)
    BY <2>1
  <2>3. /\ NamesKept(changeLevels[Depth], changeLevels'[Depth])
        /\ changeLevels'[Depth].code = changeLevels[Depth].code
    BY <1>1, <2>2, AccountPriorNames, RecordAccountPriorFacts
  <2>4. QED
    BY <2>3 DEF NamesKept, CodeNamesAccount
<1>4. ASSUME NEW c \in Code, PutCode(a, c)
      PROVE  CodeNamesAccount(changeLevels'[1])
  <2>1. PICK levels : levels = RecordCodePrior(changeLevels, a)
    OBVIOUS
  <2>2. levels \in Seq(ChangeSet) /\ Len(levels) = Depth
    BY <1>1, <2>1, RecordCodePriorType
  <2>3. changeLevels' = RecordAccountPrior(levels, accountStack, a)
    BY <1>4, <2>1 DEF PutCode, EditedThroughGetAccount
  <2>4. /\ levels[Depth].accounts = changeLevels[Depth].accounts
        /\ \A b \in Address : b # a => levels[Depth].code[b] = changeLevels[Depth].code[b]
    BY <1>1, <2>1, RecordCodePriorFacts
  <2>5. /\ changeLevels'[Depth].code = levels[Depth].code
        /\ \A b \in Address :
             changeLevels'[Depth].accounts[b] =
               IF b = a THEN KeepOlder(levels[Depth].accounts[a], accountStack[PriorIndex][a])
               ELSE levels[Depth].accounts[b]
    BY <1>1, <2>2, <2>3, RecordAccountPriorFacts
  <2>6. changeLevels'[1].accounts[a] # NotRecorded
    BY <1>1, <1>2, <2>5 DEF KeepOlder
  <2>7. QED
    BY <2>4, <2>5, <2>6 DEF CodeNamesAccount
<1>5. ASSUME NEW s \in Slot, NEW v \in SlotContent, SetStorageAt(a, s, v)
      PROVE  CodeNamesAccount(changeLevels'[1])
  <2>1. changeLevels' = RecordSlotPrior(changeLevels, a, s)
    BY <1>5 DEF SetStorageAt
  <2>2. /\ changeLevels'[Depth].accounts = changeLevels[Depth].accounts
        /\ changeLevels'[Depth].code = changeLevels[Depth].code
    BY <1>1, <2>1, RecordSlotPriorFacts
  <2>3. QED
    BY <2>2 DEF CodeNamesAccount
<1>6. CASE ClearStorageAt(a)
  <2>1. changeLevels' = RecordClearPrior(changeLevels, a)
    BY <1>6 DEF ClearStorageAt
  <2>2. /\ changeLevels'[Depth].accounts = changeLevels[Depth].accounts
        /\ changeLevels'[Depth].code = changeLevels[Depth].code
    BY <1>1, <2>1, RecordClearPriorFacts
  <2>3. QED
    BY <2>2 DEF CodeNamesAccount
<1>7. CASE DeleteAccount(a)
  <2>1. PICK levels : levels = RecordAccountPrior(changeLevels, accountStack, a)
    OBVIOUS
  <2>2. levels \in Seq(ChangeSet) /\ Len(levels) = Depth
    <3>1. accountStack \in Seq(AccountMap) /\ Len(accountStack) = Depth
      BY StackTypes
    <3>2. QED
      BY <1>1, <2>1, <3>1, RecordAccountPriorType
  <2>3. changeLevels' = RecordClearPrior(levels, a)
    BY <1>7, <2>1 DEF DeleteAccount
  <2>4. /\ NamesKept(changeLevels[Depth], levels[Depth])
        /\ levels[Depth].code = changeLevels[Depth].code
    BY <1>1, <2>1, AccountPriorNames, RecordAccountPriorFacts
  <2>5. /\ changeLevels'[Depth].accounts = levels[Depth].accounts
        /\ changeLevels'[Depth].code = levels[Depth].code
    BY <1>1, <2>2, <2>3, RecordClearPriorFacts
  <2>6. QED
    BY <2>4, <2>5 DEF NamesKept, CodeNamesAccount
<1>8. QED
  BY <1>3, <1>4, <1>5, <1>6, <1>7

LEMMA IdleFacts ==
  ASSUME CallInv, call = NoCall
  PROVE  /\ CallBase /\ Depth = 1 /\ changeSetsSuspended = 0
         /\ TypeOK /\ LevelRecordsUndo /\ AllClearsExplained /\ HistoryTypes /\ RecordsLinked
  BY DEF CallInv, CallBase

LEMMA WriteBottomInv ==
  ASSUME CallInv, WriteBottom
  PROVE  CallInv'
<1>1. /\ call = NoCall /\ call' = NoCall /\ UNCHANGED <<sealed, past>>
      /\ CallBase /\ Depth = 1 /\ changeSetsSuspended = 0
      /\ TypeOK /\ LevelRecordsUndo /\ AllClearsExplained /\ HistoryTypes /\ RecordsLinked
  BY IdleFacts DEF WriteBottom
<1>2. PICK a \in Address :
         \/ \E f \in Fields : ModifyAccountFields(a, f)
         \/ \E c \in Code : PutCode(a, c)
         \/ \E s \in Slot, v \in SlotContent : SetStorageAt(a, s, v)
         \/ ClearStorageAt(a)
         \/ DeleteAccount(a)
  BY DEF WriteBottom
<1>3. WriteStep
  BY <1>2, WritesAreSteps
<1>4. Depth' = Depth /\ UNCHANGED changeSetsSuspended /\ Undone(Depth)' = Undone(Depth)
  BY <1>1, <1>3, WriteLevels DEF Recording
<1>5. TypeOK' /\ LevelRecordsUndo' /\ AllClearsExplained'
  BY <1>1, <1>3, WriteIsNext, NextTypeOK, NextRecordsUndo, NextKeepsClears
<1>6. HistoryTypes'
  BY <1>1 DEF HistoryTypes, HeadNumber
<1>7. CodeNamesAccount(changeLevels'[1])
  BY <1>1, <1>2, BottomNamesAccount DEF RecordsLinked
<1>8. Undo(LevelState(1), changeLevels[1])' = Undo(LevelState(1), changeLevels[1])
  <2>1. Undone(1)' = Undone(1)
    BY <1>1, <1>4 DEF Undone
  <2>2. QED
    BY <2>1 DEF Undone
<1>9. RecordsLinked'
  BY <1>1, <1>7, <1>8 DEF RecordsLinked, HeadNumber
<1>10. NoCall' = NoCall
  BY DEF NoCall
<1>11. QED
  BY <1>1, <1>4, <1>5, <1>6, <1>9, <1>10 DEF CallInv

LEMMA SealBlockInv ==
  ASSUME CallInv, SealBlock
  PROVE  CallInv'
<1>1. /\ call = NoCall /\ call' = NoCall
      /\ CallBase /\ Depth = 1 /\ changeSetsSuspended = 0
      /\ TypeOK /\ LevelRecordsUndo /\ AllClearsExplained /\ HistoryTypes /\ RecordsLinked
      /\ sealed' = Append(sealed, changeLevels[1]) /\ past' = Append(past, LevelState(1))
      /\ changeLevels' = <<EmptyChangeSet>>
      /\ UNCHANGED <<accountStack, codeStack, storageOverlays, changeSetsSuspended>>
  BY IdleFacts DEF SealBlock, TakeChangeSet
<1>2. [Next]_vars
  BY DEF SealBlock, Next, LevelStep
<1>3. TypeOK' /\ LevelRecordsUndo' /\ AllClearsExplained'
  BY <1>1, <1>2, NextTypeOK, NextRecordsUndo, NextKeepsClears
<1>4. /\ 1 \in 1..Depth /\ changeLevels[1] \in ChangeSet /\ LevelState(1) \in StateType
      /\ LevelState(1)' = LevelState(1) /\ Depth' = Depth
  BY <1>1, BottomTypes, LevelTypes DEF LevelState, Depth
<1>5. PICK n \in Nat : /\ n = HeadNumber /\ n = Len(sealed) /\ Len(past) = n + 1
                       /\ sealed \in Seq(ChangeSet) /\ past \in Seq(StateType)
  BY <1>1, RecordsType DEF HistoryTypes, HeadNumber
<1>6. /\ sealed' \in Seq(ChangeSet) /\ Len(sealed') = n + 1 /\ HeadNumber' = n + 1
      /\ \A i \in 1..n : sealed'[i] = sealed[i]
      /\ sealed'[n + 1] = changeLevels[1]
  BY <1>1, <1>4, <1>5 DEF HeadNumber
<1>7. /\ past' \in Seq(StateType) /\ Len(past') = (n + 1) + 1
      /\ \A i \in 1..(n + 1) : past'[i] = past[i]
      /\ past'[(n + 1) + 1] = LevelState(1)
  BY <1>1, <1>4, <1>5
<1>8. HistoryTypes'
  BY <1>6, <1>7 DEF HistoryTypes
<1>9. ASSUME NEW i \in 1..(n + 1)
      PROVE  /\ Undo(past'[i + 1], sealed'[i]) = past'[i]
             /\ CodeNamesAccount(sealed'[i])
             /\ ClearedWasEmpty(sealed'[i], past'[i + 1])
  <2>1. CASE i \in 1..n
    <3>1. sealed'[i] = sealed[i] /\ past'[i] = past[i] /\ past'[i + 1] = past[i + 1]
      BY <1>5, <1>6, <1>7, <2>1
    <3>2. QED
      BY <1>1, <1>5, <2>1, <3>1 DEF RecordsLinked
  <2>2. CASE i = n + 1
    <3>1. sealed'[i] = changeLevels[1] /\ past'[i] = past[i] /\ past'[i + 1] = LevelState(1)
      BY <1>6, <1>7, <2>2
    <3>2. ClearedWasEmpty(changeLevels[1], LevelState(1))
      BY <1>1, <1>4 DEF AllClearsExplained, ClearsExplained, ClearedWasEmpty
    <3>3. QED
      BY <1>1, <1>5, <2>2, <3>1, <3>2 DEF RecordsLinked
  <2>3. QED
    BY <1>5, <2>1, <2>2
<1>10. Undo(LevelState(1), changeLevels[1])' = past'[HeadNumber' + 1]
  <2>1. changeLevels'[1] = EmptyChangeSet
    BY <1>1
  <2>2. Undo(LevelState(1), EmptyChangeSet) = LevelState(1)
    BY <1>1, <1>4, UndoEmpty
  <2>3. QED
    BY <1>4, <1>6, <1>7, <2>1, <2>2
<1>11. CodeNamesAccount(changeLevels'[1])
  BY <1>1 DEF CodeNamesAccount, EmptyChangeSet
<1>12. RecordsLinked'
  BY <1>6, <1>9, <1>10, <1>11 DEF RecordsLinked
<1>13. NoCall' = NoCall
  BY DEF NoCall
<1>14. QED
  BY <1>1, <1>3, <1>4, <1>8, <1>12, <1>13 DEF CallInv

LEMMA CallInitInv == CallInit => CallInv
<1> SUFFICES ASSUME CallInit PROVE CallInv
  OBVIOUS
<1>1. PICK base \in Genesis :
        /\ accountStack = <<base.accounts>>
        /\ codeStack = <<base.code>>
        /\ storageOverlays = <<[written |-> base.storage, cleared |-> {}]>>
        /\ changeLevels = <<EmptyChangeSet>>
        /\ changeSetsSuspended = 0
        /\ sealed = <<>>
        /\ past = <<base>>
        /\ call = NoCall
  BY DEF CallInit
<1>2. base \in StateType
  BY OverrideAssumption DEF StateType, Slots
<1>3. Depth = 1
  BY <1>1 DEF Depth
<1>4. TypeOK
  <2>1. /\ base.accounts \in AccountMap /\ base.code \in CodeMap
        /\ [written |-> base.storage, cleared |-> {}] \in Overlay
    BY <1>2 DEF StateType, Slots, Overlay
  <2>2. MaxDepth \in Nat \ {0}
    BY OverlayAssumption
  <2>3. QED
    BY <1>1, <1>3, <2>1, <2>2, EmptyTypes DEF TypeOK
<1>5. LevelRecordsUndo
  BY <1>3 DEF LevelRecordsUndo
<1>6. AllClearsExplained
  BY <1>1, <1>3, EmptyClearsNothing DEF AllClearsExplained
<1>7. HeadNumber = 0 /\ HistoryTypes
  BY <1>1, <1>2 DEF HeadNumber, HistoryTypes
<1>8. LevelState(1) = base
  <2>1. /\ LevelState(1).storage = base.storage
        /\ LevelState(1).accounts = base.accounts /\ LevelState(1).code = base.code
    BY <1>1, <1>4, BottomTypes DEF LevelState
  <2>2. LevelState(1) \in StateType
    BY <1>4, BottomTypes
  <2>3. QED
    BY <1>2, <2>1, <2>2 DEF StateType
<1>9. RecordsLinked
  <2>1. Undo(LevelState(1), changeLevels[1]) = past[HeadNumber + 1]
    <3>1. Undo(LevelState(1), EmptyChangeSet) = LevelState(1)
      BY <1>3, <1>4, UndoEmpty
    <3>2. QED
      BY <1>1, <1>7, <1>8, <3>1
  <2>2. CodeNamesAccount(changeLevels[1])
    BY <1>1 DEF CodeNamesAccount, EmptyChangeSet
  <2>3. QED
    BY <1>7, <2>1, <2>2 DEF RecordsLinked
<1>10. QED
  BY <1>1, <1>3, <1>4, <1>5, <1>6, <1>7, <1>9 DEF CallInv

LEMMA CallNextInv == CallInv /\ [CallNext]_callVars => CallInv'
<1> SUFFICES ASSUME CallInv, [CallNext]_callVars PROVE CallInv'
  OBVIOUS
<1>1. CASE WriteBottom \/ SealBlock
  BY <1>1, WriteBottomInv, SealBlockInv
<1>2. CASE \E k \in 0..HeadNumber, o \in Override : BeginCall(k, o)
  BY <1>2, BeginCallInv
<1>3. CASE /\ call # NoCall
           /\ \/ OpenLevel \/ TakeEntry \/ WriteEntry \/ Ready
              \/ BeginRun \/ RunWrites \/ EndRun
              \/ EndRead \/ EndCall
  BY <1>3, OpenLevelInv, TakeEntryInv, WriteEntryInv, ReadyInv, BeginRunInv, RunWritesInv,
     EndRunInv, EndReadInv, EndCallInv DEF InProgress
<1>4. CASE UNCHANGED callVars
  <2>1. UNCHANGED vars /\ UNCHANGED <<sealed, past, call>>
    BY <1>4 DEF callVars
  <2>2. UNCHANGED <<accountStack, codeStack, storageOverlays, changeLevels, changeSetsSuspended>>
    BY <2>1 DEF vars
  <2>3. CallBase' = CallBase
    BY <2>1, <2>2
       DEF CallBase, TypeOK, LevelRecordsUndo, AllClearsExplained, ClearsExplained,
           HistoryTypes, RecordsLinked, HeadNumber, Depth, LevelState
  <2>4. InCall' = InCall
    BY <2>1, <2>2
       DEF InCall, Open, Depth, DepthOf, EntryDepth, EntriesInOrder, EntriesEnd, Ending,
           Meant, HeldIn, LevelState, HistoricalAt, HeadNumber, AsExpected, Expected, StateAt
  <2>5. NoCall' = NoCall /\ Depth' = Depth
    BY <2>2 DEF NoCall, Depth
  <2>6. QED
    BY <2>1, <2>2, <2>3, <2>4, <2>5 DEF CallInv, CallBase
<1>5. QED
  BY <1>1, <1>2, <1>3, <1>4 DEF CallNext

LEMMA InvReadsPast == CallInv => CallReadsPast
<1> SUFFICES ASSUME CallInv, call.phase = "read" PROVE CallReadsPast
  BY DEF CallReadsPast
<1>1. call # NoCall
  BY DEF NoCall
<1>2. InCall /\ TypeOK /\ Depth = EntryDepth
  BY <1>1, InProgressFacts DEF CallInv, InProgress, DepthOf
<1>3. ASSUME NEW a \in Address
      PROVE  AsExpected(HeldIn(LevelState(Depth), a), a)
  <2>1. HeldIn(LevelState(Depth), a) = Meant(a)
    BY <1>2 DEF InCall, EntriesEnd
  <2>2. QED
    BY <1>2, <2>1 DEF InCall
<1>4. LevelState(Depth).accounts \in AccountMap
  <2>1. Depth \in 1..Depth
    BY <1>2, StackTypes
  <2>2. QED
    BY <1>2, <2>1, LevelTypes DEF LevelState
<1>5. /\ DOMAIN LevelState(Depth).accounts = Address
      /\ DOMAIN Expected.accounts = Address
  BY <1>4 DEF AccountMap, Expected, Overridden
<1>6. LevelState(Depth).accounts = Expected.accounts
  <2>1. \A a \in Address : LevelState(Depth).accounts[a] = Expected.accounts[a]
    BY <1>3 DEF AsExpected, HeldIn
  <2>2. Expected.accounts = [a \in Address |-> Expected.accounts[a]]
    BY DEF Expected, Overridden
  <2>3. LevelState(Depth).accounts = [a \in Address |-> LevelState(Depth).accounts[a]]
    BY <1>4 DEF AccountMap
  <2>4. QED
    BY <2>1, <2>2, <2>3
<1>7. QED
  BY <1>3, <1>6 DEF CallReadsPast, AsExpected, HeldIn

LEMMA InvNoTrace == CallInv => NoTrace
<1> SUFFICES ASSUME CallInv PROVE NoTrace
  OBVIOUS
<1>1. CallTypeOK
  BY DEF CallInv, CallTypeOK, HistoryTypes
<1>2. ASSUME call.phase = "close"
      PROVE  Depth = 1 /\ <<LevelState(1), changeLevels[1]>> = call.before
  <2>1. call # NoCall
    BY <1>2 DEF NoCall
  <2>2. InCall
    BY <2>1 DEF CallInv
  <2>3. QED
    BY <1>2, <2>2 DEF InCall, DepthOf, Open
<1>3. QED
  BY <1>1, <1>2 DEF NoTrace

LEMMA CallsHold == CallSpec => []CallInv
BY CallInitInv, CallNextInv, PTL DEF CallSpec

(* For any accounts, slots, codes, overrides and genesis, any chain and any   *)
(* writes since, and whatever the engine ran before: a request reads the block *)
(* it names with the overrides on top (node.ts, historicalEntries and         *)
(* withStateEntries; applyStateEntry).                                      *)
THEOREM CallsReadPast == CallSpec => []CallReadsPast
BY CallsHold, InvReadsPast, PTL

(* When a request ends, returned or thrown, the state and the open record are  *)
(* those it began with (withStateEntries, withChangeSetsSuspended).          *)
THEOREM CallsLeaveNoTrace == CallSpec => []NoTrace
BY CallsHold, InvNoTrace, PTL

-----------------------------------------------------------------------------
(* The flat state through a dump and a reload (module DumpLoad).                *)

(* The invariant.  No request is in progress between requests; the dump is the   *)
(* state it was taken from; and a code the genesis put under an address is       *)
(* there for good, or replaced: no operation ever removes one, so where a dump    *)
(* names no code the genesis of the next node has none either.                *)
CodeStays(state) ==
  \A a \in Address : genesis.code[a] # Absent => state.code[a] # Absent

DumpInv ==
  /\ DumpTypeOK
  /\ Depth = 1
  /\ CodeStays(Live)
  /\ saved # NoDump => saved = atDump /\ CodeStays(atDump)

(* The live state is the bottom of the stacks.                               *)
LEMMA LiveTypes ==
  ASSUME TypeOK
  PROVE  /\ Live \in State
         /\ Live.code = codeStack[1]
<1>1. Live \in StateType
  BY BottomTypes DEF Live
<1>2. StateType = State
  BY DEF StateType, State, Slots, AccountMap, CodeMap
<1>3. QED
  BY <1>1, <1>2 DEF Live, LevelState

(* Holds: the stacks of a state manager built on a state show that state.        *)
LEMMA HoldsState ==
  ASSUME NEW state \in State, changeSetsSuspended \in {0, 1}, Holds(state)
  PROVE  TypeOK' /\ Depth' = 1 /\ Live' = state
<1>1. /\ accountStack' = <<state.accounts>> /\ codeStack' = <<state.code>>
      /\ storageOverlays' = <<[written |-> state.storage, cleared |-> {}]>>
      /\ changeLevels' = <<EmptyChangeSet>> /\ changeSetsSuspended' = changeSetsSuspended
  BY DEF Holds
<1>2. /\ state.accounts \in AccountMap /\ state.code \in CodeMap
      /\ state.storage \in [Address -> [Slot -> SlotContent \cup {Absent}]]
      /\ [written |-> state.storage, cleared |-> {}] \in Overlay
  BY DEF State, Overlay
<1>3. Depth' = 1
  BY <1>1 DEF Depth
<1>4. TypeOK'
  <2>1. accountStack' \in Seq(AccountMap) /\ codeStack' \in Seq(CodeMap)
    BY <1>1, <1>2
  <2>2. storageOverlays' \in Seq(Overlay) /\ changeLevels' \in Seq(ChangeSet)
    BY <1>1, <1>2, EmptyTypes
  <2>3. Len(codeStack') = 1 /\ Len(storageOverlays') = 1 /\ Len(changeLevels') = 1
    BY <1>1
  <2>4. 1 \in 1..MaxDepth
    BY OverlayAssumption
  <2>5. QED
    BY <1>1, <1>3, <2>1, <2>2, <2>3, <2>4 DEF TypeOK
<1>5. (LevelState(1).storage = storageOverlays[1].written)'
  BY <1>4, BottomTypes, PTL
<1>6. Live' = [accounts |-> state.accounts, code |-> state.code, storage |-> state.storage]
  <2>1. LevelState(1)' = [accounts |-> accountStack'[1], code |-> codeStack'[1],
                          storage |-> LevelState(1)'.storage]
    BY DEF LevelState
  <2>2. LevelState(1)'.storage = state.storage
    BY <1>1, <1>5
  <2>3. QED
    BY <1>1, <2>1, <2>2 DEF Live
<1>7. state = [accounts |-> state.accounts, code |-> state.code, storage |-> state.storage]
  BY DEF State
<1>8. QED
  BY <1>3, <1>4, <1>6, <1>7

(* Every genesis is a state, and its accounts have the code they name.            *)
LEMMA GenesisTypes ==
  ASSUME NEW base \in GenesisStates
  PROVE  /\ base \in State
         /\ \A a \in Address :
              base.accounts[a] # Absent /\ base.accounts[a].codeHash # EmptyCode =>
                base.code[a] = base.accounts[a].codeHash
<1>1. PICK g \in [Address -> GenesisAt] :
        base = [accounts |-> [a \in Address |-> g[a].account],
                code     |-> [a \in Address |-> WithCode(g[a]).code],
                storage  |-> [a \in Address |-> g[a].slots]]
  BY DEF GenesisStates
<1>2. ASSUME NEW a \in Address
      PROVE  /\ g[a].account \in Account \cup {Absent}
             /\ WithCode(g[a]).code \in Code \cup {Absent}
             /\ g[a].slots \in [Slot -> SlotContent \cup {Absent}]
             /\ g[a].account # Absent /\ g[a].account.codeHash # EmptyCode =>
                  WithCode(g[a]).code = g[a].account.codeHash
  <2>1. g[a] \in GenesisAt
    OBVIOUS
  <2>2. /\ g[a].account \in Account \cup {Absent} /\ g[a].code = Absent
        /\ g[a].slots \in [Slot -> SlotContent \cup {Absent}]
        /\ g[a] = [account |-> g[a].account, code |-> g[a].code, slots |-> g[a].slots]
    BY <2>1 DEF GenesisAt, EmptySlots, Account
  <2>3. CASE g[a].account # Absent /\ g[a].account.codeHash # EmptyCode
    <3>1. WithCode(g[a]).code = g[a].account.codeHash
      BY <2>2, <2>3 DEF WithCode
    <3>2. g[a].account.codeHash \in Code
      BY <2>2, <2>3 DEF Account
    <3>3. QED
      BY <2>2, <3>1, <3>2
  <2>4. CASE ~ (g[a].account # Absent /\ g[a].account.codeHash # EmptyCode)
    <3>1. WithCode(g[a]) = g[a]
      BY <2>4 DEF WithCode
    <3>2. QED
      BY <2>2, <2>4, <3>1
  <2>5. QED
    BY <2>3, <2>4
<1>3. base.accounts \in AccountMap
  BY <1>1, <1>2 DEF AccountMap
<1>4. base.code \in CodeMap
  BY <1>1, <1>2 DEF CodeMap
<1>5. base.storage \in [Address -> [Slot -> SlotContent \cup {Absent}]]
  BY <1>1, <1>2
<1>6. base \in State
  BY <1>1, <1>3, <1>4, <1>5 DEF State
<1>7. QED
  BY <1>1, <1>2, <1>6

(* What a load leaves is a state, and names every code its genesis has.         *)
LEMMA LoadedTypes ==
  ASSUME NEW base \in State, NEW dump \in State
  PROVE  /\ Loaded(base, dump) \in State
         /\ \A a \in Address : base.code[a] # Absent => Loaded(base, dump).code[a] # Absent
<1>1. ASSUME NEW a \in Address
      PROVE  /\ LoadedAccount(base, dump, a) \in Account \cup {Absent}
             /\ dump.code[a] \in Code \cup {Absent} /\ base.code[a] \in Code \cup {Absent}
             /\ \A s \in Slot : /\ dump.storage[a][s] \in SlotContent \cup {Absent}
                                /\ base.storage[a][s] \in SlotContent \cup {Absent}
  <2>1. /\ dump.accounts[a] \in Account \cup {Absent}
        /\ base.accounts[a] \in Account \cup {Absent}
        /\ dump.code[a] \in Code \cup {Absent} /\ base.code[a] \in Code \cup {Absent}
    BY DEF State, AccountMap, CodeMap
  <2>2. NewAccount \in Account
    BY OverlayAssumption DEF NewAccount, Account
  <2>3. PICK put \in Account \cup {Absent} :
          put = IF dump.accounts[a] # Absent THEN dump.accounts[a] ELSE base.accounts[a]
    BY <2>1
  <2>4. PICK found \in Account : found = IF put = Absent THEN NewAccount ELSE put
    BY <2>2
  <2>5. LoadedAccount(base, dump, a) =
          IF dump.code[a] = Absent THEN put ELSE [found EXCEPT !.codeHash = dump.code[a]]
    BY <2>3, <2>4 DEF LoadedAccount
  <2>6. \A c \in Code : [found EXCEPT !.codeHash = c] \in Account
    BY DEF Account
  <2>7. LoadedAccount(base, dump, a) \in Account \cup {Absent}
    BY <2>1, <2>5, <2>6
  <2>8. \A s \in Slot : /\ dump.storage[a][s] \in SlotContent \cup {Absent}
                        /\ base.storage[a][s] \in SlotContent \cup {Absent}
    BY DEF State
  <2>9. QED
    BY <2>1, <2>7, <2>8
<1>2. /\ Loaded(base, dump).accounts \in AccountMap
      /\ Loaded(base, dump).code \in CodeMap
  BY <1>1 DEF Loaded, AccountMap, CodeMap
<1>3. Loaded(base, dump).storage \in [Address -> [Slot -> SlotContent \cup {Absent}]]
  BY <1>1 DEF Loaded
<1>4. Loaded(base, dump) \in State
  BY <1>2, <1>3 DEF Loaded, State
<1>5. QED
  BY <1>4 DEF Loaded

LEMMA DumpInitInv == DumpInit => DumpInv
<1> SUFFICES ASSUME DumpInit PROVE DumpInv
  OBVIOUS
<1>1. /\ genesis \in State
      /\ \A a \in Address :
           genesis.accounts[a] # Absent /\ genesis.accounts[a].codeHash # EmptyCode =>
             genesis.code[a] = genesis.accounts[a].codeHash
  BY GenesisTypes DEF DumpInit
<1>2. /\ genesis.accounts \in AccountMap /\ genesis.code \in CodeMap
      /\ genesis.storage \in [Address -> [Slot -> SlotContent \cup {Absent}]]
      /\ [written |-> genesis.storage, cleared |-> {}] \in Overlay
  BY <1>1 DEF State, Overlay
<1>3. /\ accountStack = <<genesis.accounts>> /\ codeStack = <<genesis.code>>
      /\ storageOverlays = <<[written |-> genesis.storage, cleared |-> {}]>>
      /\ changeLevels = <<EmptyChangeSet>> /\ changeSetsSuspended = 0
      /\ saved = NoDump /\ atDump = EmptyState
  BY DEF DumpInit
<1>4. Depth = 1
  BY <1>3 DEF Depth
<1>5. TypeOK
  <2>1. accountStack \in Seq(AccountMap) /\ codeStack \in Seq(CodeMap)
    BY <1>2, <1>3
  <2>2. storageOverlays \in Seq(Overlay) /\ changeLevels \in Seq(ChangeSet)
    BY <1>2, <1>3, EmptyTypes
  <2>3. Len(codeStack) = 1 /\ Len(storageOverlays) = 1 /\ Len(changeLevels) = 1
    BY <1>3
  <2>4. 1 \in 1..MaxDepth
    BY OverlayAssumption
  <2>5. QED
    BY <1>3, <1>4, <2>1, <2>2, <2>3, <2>4 DEF TypeOK
<1>6. atDump \in State
  BY <1>3 DEF EmptyState, EmptySlots, State, AccountMap, CodeMap
<1>7. CodeStays(Live)
  <2>1. Live.code = genesis.code
    BY <1>3, <1>5, LiveTypes
  <2>2. QED
    BY <2>1 DEF CodeStays
<1>8. DumpTypeOK
  BY <1>1, <1>3, <1>5, <1>6 DEF DumpTypeOK
<1>9. QED
  BY <1>3, <1>4, <1>7, <1>8 DEF DumpInv

(* A write at the bottom: no code goes.                                      *)
LEMMA WriteKeepsCode ==
  ASSUME TypeOK, Depth = 1, NEW a \in Address, Write(a)
  PROVE  /\ TypeOK' /\ Depth' = 1
         /\ \A b \in Address : Live.code[b] # Absent => Live'.code[b] # Absent
<1>1. WriteStep
  BY WritesAreSteps DEF Write
<1>2. LevelRecordsUndo
  BY DEF LevelRecordsUndo
<1>3. TypeOK'
  BY <1>1, WriteIsNext, NextTypeOK
<1>4. Depth' = 1
  BY <1>1, <1>2, WriteLevels
<1>5. codeStack' = codeStack \/ \E c \in Code : codeStack' = [codeStack EXCEPT ![1][a] = c]
  BY DEF Write, ModifyAccountFields, PutCode, SetStorageAt, DeleteAccount
<1>6. ASSUME NEW b \in Address, codeStack[1][b] # Absent PROVE codeStack'[1][b] # Absent
  <2>1. codeStack \in Seq(CodeMap) /\ 1 \in 1..Len(codeStack) /\ codeStack[1] \in CodeMap
    BY StackTypes, BottomTypes
  <2>2. CASE codeStack' = codeStack
    BY <1>6, <2>2
  <2>3. ASSUME NEW c \in Code, codeStack' = [codeStack EXCEPT ![1][a] = c]
        PROVE  codeStack'[1][b] # Absent
    <3>1. codeStack'[1] = [codeStack[1] EXCEPT ![a] = c]
      BY <2>1, <2>3, CodeWriteType
    <3>2. c # Absent
      BY OverlayAssumption
    <3>3. QED
      BY <1>6, <2>1, <3>1, <3>2 DEF CodeMap
  <2>4. QED
    BY <1>5, <2>2, <2>3
<1>7. Live.code = codeStack[1]
  BY LiveTypes
<1>8. (Live.code = codeStack[1])'
  BY <1>3, LiveTypes, PTL
<1>9. QED
  BY <1>3, <1>4, <1>6, <1>7, <1>8

LEMMA StateUnmoved ==
  ASSUME TypeOK, UNCHANGED vars
  PROVE  Live' = Live /\ Depth' = Depth /\ TypeOK'
<1>1. /\ accountStack' = accountStack /\ codeStack' = codeStack
      /\ storageOverlays' = storageOverlays
  BY DEF vars
<1>2. TypeOK'
  BY NextTypeOK
<1>3. LevelState(1)' = LevelState(1)
  BY <1>1 DEF LevelState
<1>4. QED
  BY <1>1, <1>2, <1>3 DEF Live, Depth

LEMMA DumpNextInv == DumpInv /\ [DumpNext]_<<vars, dumpVars>> => DumpInv'
<1> SUFFICES ASSUME DumpInv, [DumpNext]_<<vars, dumpVars>> PROVE DumpInv'
  OBVIOUS
<1>0. /\ TypeOK /\ Depth = 1 /\ CodeStays(Live) /\ genesis \in State /\ atDump \in State
      /\ saved # NoDump => saved \in State /\ saved = atDump /\ CodeStays(atDump)
      /\ changeSetsSuspended \in {0, 1}
      /\ \A a \in Address :
           genesis.accounts[a] # Absent /\ genesis.accounts[a].codeHash # EmptyCode =>
             genesis.code[a] = genesis.accounts[a].codeHash
  BY DEF DumpInv, DumpTypeOK, TypeOK
<1>1. ASSUME NEW a \in Address, Write(a) PROVE DumpInv'
  <2>1. UNCHANGED <<genesis, saved, atDump>>
    BY <1>1 DEF Write, dumpVars
  <2>2. /\ TypeOK' /\ Depth' = 1
        /\ \A b \in Address : Live.code[b] # Absent => Live'.code[b] # Absent
    BY <1>0, <1>1, WriteKeepsCode
  <2>3. CodeStays(Live)'
    BY <1>0, <2>1, <2>2 DEF CodeStays
  <2>4. DumpTypeOK'
    BY <1>0, <2>1, <2>2 DEF DumpTypeOK
  <2>5. QED
    BY <1>0, <2>1, <2>2, <2>3, <2>4 DEF DumpInv, CodeStays
<1>2. CASE DumpState
  <2>1. /\ saved' = Live /\ atDump' = Live /\ UNCHANGED <<vars, genesis>>
    BY <1>2 DEF DumpState, Dumped
  <2>2. Live' = Live /\ Depth' = Depth /\ TypeOK'
    BY <1>0, <2>1, StateUnmoved
  <2>3. Live \in State
    BY <1>0, LiveTypes
  <2>4. DumpTypeOK'
    BY <1>0, <2>1, <2>2, <2>3 DEF DumpTypeOK
  <2>5. CodeStays(Live)' /\ CodeStays(atDump)'
    BY <1>0, <2>1, <2>2 DEF CodeStays
  <2>6. QED
    BY <1>0, <2>1, <2>2, <2>4, <2>5 DEF DumpInv
<1>3. CASE Reload
  <2>1. /\ saved # NoDump /\ Holds(Loaded(genesis, saved))
        /\ UNCHANGED <<genesis, saved, atDump>>
    BY <1>3 DEF Reload, dumpVars
  <2>2. PICK loaded \in State :
          /\ loaded = Loaded(genesis, saved)
          /\ \A a \in Address : genesis.code[a] # Absent => loaded.code[a] # Absent
    BY <1>0, <2>1, LoadedTypes
  <2>3. TypeOK' /\ Depth' = 1 /\ Live' = loaded
    BY <1>0, <2>1, <2>2, HoldsState
  <2>4. DumpTypeOK'
    BY <1>0, <2>1, <2>3 DEF DumpTypeOK
  <2>5. CodeStays(Live)'
    BY <2>1, <2>2, <2>3 DEF CodeStays
  <2>6. QED
    BY <1>0, <2>1, <2>3, <2>4, <2>5 DEF DumpInv, CodeStays
<1>4. CASE UNCHANGED <<vars, dumpVars>>
  <2>0. UNCHANGED <<genesis, saved, atDump>> /\ UNCHANGED vars
    BY <1>4 DEF dumpVars
  <2>1. Live' = Live /\ Depth' = Depth /\ TypeOK' /\ UNCHANGED <<genesis, saved, atDump>>
    BY <1>0, <2>0, StateUnmoved
  <2>2. DumpTypeOK'
    BY <1>0, <2>1 DEF DumpTypeOK
  <2>3. QED
    BY <1>0, <2>1, <2>2 DEF DumpInv, CodeStays
<1>5. QED
  BY <1>1, <1>2, <1>3, <1>4 DEF DumpNext

(* What a reload puts at an address that owns its code and lost nothing of its    *)
(* genesis is what was dumped there: every case of LoadedAccount.               *)
LEMMA LoadedAt ==
  ASSUME NEW dump \in State, genesis \in State, CodeStays(dump), NEW a \in Address,
         OwnsItsCode(dump, a), CoversGenesis(dump, a)
  PROVE  At(Loaded(genesis, dump), a) = At(dump, a)
<1>1. /\ dump.accounts[a] \in Account \cup {Absent}
      /\ dump.storage[a] \in [Slot -> SlotContent \cup {Absent}]
  BY DEF State, AccountMap
<1>2. Loaded(genesis, dump).accounts[a] = dump.accounts[a]
  <2>1. Loaded(genesis, dump).accounts[a] = LoadedAccount(genesis, dump, a)
    BY DEF Loaded
  <2>2. CASE dump.accounts[a] = Absent
    <3>1. dump.code[a] = Absent /\ genesis.accounts[a] = Absent
      BY <2>2 DEF OwnsItsCode, CoversGenesis
    <3>2. QED
      BY <2>1, <2>2, <3>1 DEF LoadedAccount
  <2>3. CASE dump.accounts[a] # Absent /\ dump.code[a] = Absent
    BY <2>1, <2>3 DEF LoadedAccount
  <2>4. CASE dump.accounts[a] # Absent /\ dump.code[a] # Absent
    <3>1. dump.accounts[a] \in Account /\ dump.accounts[a].codeHash = dump.code[a]
      BY <1>1, <2>4 DEF OwnsItsCode
    <3>2. [dump.accounts[a] EXCEPT !.codeHash = dump.code[a]] = dump.accounts[a]
      BY <3>1 DEF Account
    <3>3. QED
      BY <2>1, <2>4, <3>2 DEF LoadedAccount
  <2>5. QED
    BY <2>2, <2>3, <2>4
<1>3. Loaded(genesis, dump).code[a] = dump.code[a]
  BY DEF Loaded, CodeStays
<1>4. Loaded(genesis, dump).storage[a] = dump.storage[a]
  <2>1. Loaded(genesis, dump).storage[a] =
          [s \in Slot |-> IF dump.storage[a][s] = Absent THEN genesis.storage[a][s]
                          ELSE dump.storage[a][s]]
    BY DEF Loaded
  <2>2. \A s \in Slot : dump.storage[a][s] = Absent => genesis.storage[a][s] = Absent
    BY DEF CoversGenesis
  <2>3. QED
    BY <1>1, <2>1, <2>2
<1>5. QED
  BY <1>2, <1>3, <1>4 DEF At

LEMMA DumpsHold == DumpSpec => []DumpInv
BY DumpInitInv, DumpNextInv, PTL DEF DumpSpec

(* For any accounts, slots, codes and genesis, any writes before and after any     *)
(* number of dumps and loads: a reload gives back every address that owns its     *)
(* code and lost nothing of its genesis, exactly as it was dumped.              *)
THEOREM ReloadsKeepAddresses == DumpSpec => ReloadKeepsAddress
<1>1. DumpInv => DumpTypeOK
  BY DEF DumpInv
<1>2. DumpInv /\ [DumpNext]_<<vars, dumpVars>> =>
        [Reload => \A a \in Address :
          OwnsItsCode(atDump, a) /\ CoversGenesis(atDump, a) =>
            At(Live', a) = At(atDump, a)]_<<vars, dumpVars>>
  <2> SUFFICES ASSUME DumpInv, Reload, NEW a \in Address,
                      OwnsItsCode(atDump, a), CoversGenesis(atDump, a)
               PROVE  At(Live', a) = At(atDump, a)
    OBVIOUS
  <2>1. /\ saved # NoDump /\ Holds(Loaded(genesis, saved)) /\ saved = atDump
        /\ genesis \in State /\ atDump \in State /\ CodeStays(atDump)
        /\ changeSetsSuspended \in {0, 1}
    BY DEF Reload, DumpInv, DumpTypeOK, TypeOK
  <2>2. PICK loaded \in State : loaded = Loaded(genesis, atDump)
    BY <2>1, LoadedTypes
  <2>3. Live' = loaded
    BY <2>1, <2>2, HoldsState
  <2>4. At(Loaded(genesis, atDump), a) = At(atDump, a)
    BY <2>1, LoadedAt
  <2>5. QED
    BY <2>2, <2>3, <2>4
<1>3. QED
  BY <1>1, <1>2, DumpsHold, PTL DEF DumpSpec, ReloadKeepsAddress
=============================================================================
