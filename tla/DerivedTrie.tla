----------------------------- MODULE DerivedTrie -----------------------------
(***************************************************************************)
(* The state trie of a `computeStateRoot` node                              *)
(* (src/packages/webevm/src/derived-trie.ts, and currentStateRoot in         *)
(* node.ts): built once from the whole flat state of module OverlayState,    *)
(* then kept current by rereading the keys the open record names.           *)
(*                                                                         *)
(* A trie is modelled by what it maps, and its root by the trie: two tries   *)
(* have one root exactly when they map the same.                            *)
(*                                                                         *)
(* Definitions marked FAULTY are not part of the model: each is a plausible *)
(* mistake in the definition after it, kept to show that the properties     *)
(* notice the mistake.                                                      *)
(***************************************************************************)
EXTENDS OverlayState

VARIABLES
  storageTries,  \* address -> slot -> value, Absent where the trie has no leaf
  accountTrie    \* address -> the account with its storage root, or Absent

trieVars == <<storageTries, accountTrie>>

-----------------------------------------------------------------------------
(* FAULTY: a zero is stored as a leaf.                                      *)
LeafOfZero(v) == v

(* putSlot: the shortest form, and no leaf for zero.                         *)
Leaf(v) == IF v = EmptyValue THEN Absent ELSE v

SlotNow(a, s) == Leaf(StorageAtDepth(storageOverlays, a, s, 1))

(* writeAccount: the account as the flat state holds it, over a storage trie. *)
Derived(a, tries) ==
  IF accountStack[1][a] = Absent THEN Absent
  ELSE [account |-> accountStack[1][a], storageRoot |-> tries[a]]

(* build: from the whole of the flat state.                                 *)
BuiltTries == [a \in Address |-> [s \in Slot |-> SlotNow(a, s)]]

BuiltAccounts == [a \in Address |-> Derived(a, BuiltTries)]

(* FAULTY: the value the record holds, not the one the flat state holds now.  *)
TrieAfterRecorded(changes, a, s) ==
  IF changes.storage[a][s] # NotRecorded THEN Leaf(changes.storage[a][s])
  ELSE IF a \in changes.storageCleared THEN Absent
  ELSE storageTries[a][s]

(* apply, on a slot: its storage trie goes if the account was cleared, then   *)
(* the slot is reread if it is named.                                       *)
TrieAfter(changes, a, s) ==
  IF changes.storage[a][s] # NotRecorded THEN SlotNow(a, s)
  ELSE IF a \in changes.storageCleared THEN Absent
  ELSE storageTries[a][s]

AppliedTries(changes) ==
  [a \in Address |-> [s \in Slot |-> TrieAfter(changes, a, s)]]

(* FAULTY: only the accounts written are written again.                      *)
DirtyAccounts(changes) == {a \in Address : changes.accounts[a] # NotRecorded}

(* The accounts whose leaf is written again: anything of theirs was named.    *)
Dirty(changes) ==
  {a \in Address : \/ changes.accounts[a] # NotRecorded
                   \/ changes.code[a] # NotRecorded
                   \/ a \in changes.storageCleared
                   \/ \E s \in Slot : changes.storage[a][s] # NotRecorded}

AppliedAccounts(changes) ==
  [a \in Address |-> IF a \in Dirty(changes) THEN Derived(a, AppliedTries(changes))
                     ELSE accountTrie[a]]

Apply ==
  /\ storageTries' = AppliedTries(changeLevels[1])
  /\ accountTrie' = AppliedAccounts(changeLevels[1])

-----------------------------------------------------------------------------
(* currentStateRoot, for getStateRoot: no checkpoint may be open.            *)
GetStateRoot ==
  /\ Depth = 1
  /\ Apply
  /\ UNCHANGED vars

(* The end of executeAndMine: the root, and then the record is taken.        *)
MineBlock ==
  /\ Apply
  /\ TakeChangeSet

(* The end of loadState: the record is dropped and the trie built again.      *)
Rebuild ==
  /\ TakeChangeSet
  /\ storageTries' = BuiltTries
  /\ accountTrie' = BuiltAccounts

(* Everything else works on the flat state alone.                            *)
FlatStep ==
  /\ \/ \E a \in Address : AccountStep(a) \/ CodeStep(a) \/ StorageStep(a)
     \/ Checkpoint
     \/ Commit
     \/ Revert
     \/ BeginPureRead
     \/ EndPureRead
  /\ UNCHANGED trieVars

(* createNode builds the trie from the baselines and clears the record.       *)
TrieInit ==
  /\ Init
  /\ storageTries = BuiltTries
  /\ accountTrie = BuiltAccounts

TrieNext == FlatStep \/ GetStateRoot \/ MineBlock \/ Rebuild

TrieSpec == TrieInit /\ [][TrieNext]_<<vars, trieVars>>

-----------------------------------------------------------------------------
(* The tries map slots to words and hold no leaf for a zero.                 *)
TrieTypeOK ==
  /\ storageTries \in [Address -> [Slot -> SlotValue \cup {Absent}]]
  /\ accountTrie \in
       [Address -> [account : Account, storageRoot : [Slot -> SlotValue \cup {Absent}]]
                   \cup {Absent}]

(* The root is the root of the state: whenever it is asked for, what the open *)
(* record names is enough to turn the trie into the one built from the whole  *)
(* flat state, whatever was written, cleared, deleted, committed, reverted or  *)
(* suspended since it was last asked for; and applying it twice is harmless.  *)
RootFollowsState ==
  /\ TypeOK /\ TrieTypeOK
  /\ AppliedTries(changeLevels[1]) = BuiltTries
  /\ AppliedAccounts(changeLevels[1]) = BuiltAccounts
=============================================================================
