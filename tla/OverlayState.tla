---------------------------- MODULE OverlayState ----------------------------
(***************************************************************************)
(* webevm's state manager (src/packages/webevm/src/state-manager.ts): the  *)
(* world state of the node as three parallel stacks, one level per open    *)
(* checkpoint, and beside them the change set.                             *)
(*                                                                         *)
(*   - accounts and code are COPIED by a checkpoint;                       *)
(*   - storage pushes an EMPTY overlay, which holds the slots written since *)
(*     and tombstones for the accounts cleared since; a read walks down;   *)
(*   - each level records, for every key changed in it, the value the key  *)
(*     had below the level (at the bottom: when the record was last taken).*)
(*                                                                         *)
(* The callers run one piece of work at a time (module header of           *)
(* node.ts, `serialise`) and suspend recording only around a pure read     *)
(* that begins and ends with no checkpoint of its own open.                *)
(*                                                                         *)
(* Levels are numbered from 1 (the bottom, committed state); the code      *)
(* counts from 0.  A level that has recorded nothing is `undefined` in the *)
(* code and EmptyChangeSet here: no reader tells the two apart.            *)
(*                                                                         *)
(* Definitions marked FAULTY are not part of the model: each is a plausible *)
(* mistake in the definition after it, kept to show that the properties     *)
(* notice the mistake.                                                      *)
(***************************************************************************)
EXTENDS Integers, Sequences

CONSTANTS
  Address,      \* account addresses
  Slot,         \* storage slot keys
  SlotValue,    \* non-zero slot values
  EmptyValue,   \* the zero-length value an SSTORE of zero leaves
  Fields,       \* what an account holds besides its codeHash (nonce, balance)
  ZeroFields,   \* those of `new Account()`
  Code,         \* contract codes; an account's codeHash is named by the code
  EmptyCode,    \* the zero-length code
  Absent,       \* "no entry" (`undefined`)
  NotRecorded,  \* "the change set does not name this key"
  MaxDepth      \* bound on the number of levels, the bottom one included

SlotContent == SlotValue \cup {EmptyValue}
Account     == [fields : Fields, codeHash : Code]
AccountMap  == [Address -> Account \cup {Absent}]
CodeMap     == [Address -> Code \cup {Absent}]
NewAccount  == [fields |-> ZeroFields, codeHash |-> EmptyCode]

ASSUME OverlayAssumption ==
  /\ MaxDepth \in Nat \ {0}
  /\ ZeroFields \in Fields
  /\ EmptyCode \in Code
  /\ Absent \notin Account \cup Code \cup SlotContent
  /\ NotRecorded \notin Account \cup Code \cup SlotContent \cup {Absent}

VARIABLES
  accountStack,        \* level -> address -> account, or Absent
  codeStack,           \* level -> address -> code, or Absent
  storageOverlays,     \* level -> [written, cleared]
  changeLevels,        \* level -> the change set recorded in it
  changeSetsSuspended  \* number of pure reads in progress

vars == <<accountStack, codeStack, storageOverlays, changeLevels,
          changeSetsSuspended>>

Depth == Len(accountStack)

-----------------------------------------------------------------------------
(* Overlays and change sets. *)

NothingWritten == [s \in Slot |-> Absent]

EmptyOverlay ==
  [written |-> [a \in Address |-> NothingWritten], cleared |-> {}]

EmptyChangeSet ==
  [accounts       |-> [a \in Address |-> NotRecorded],
   code           |-> [a \in Address |-> NotRecorded],
   storage        |-> [a \in Address |-> [s \in Slot |-> NotRecorded]],
   storageCleared |-> {}]

Greatest(S) == CHOOSE x \in S : \A y \in S : y <= x

(* The overlays at or below `from` at which the walk down for this slot     *)
(* may stop: one that holds the slot, or one that cleared the account.      *)
WalkStops(overlays, a, s, from) ==
  {i \in 1..from : \/ overlays[i].written[a][s] # Absent
                   \/ a \in overlays[i].cleared}

(* FAULTY: a walk that does not stop at the tombstones.                     *)
StorageAtDepthIgnoringClears(overlays, a, s, from) ==
  LET stops == {i \in 1..from : overlays[i].written[a][s] # Absent}
  IN  IF stops = {} THEN Absent ELSE overlays[Greatest(stops)].written[a][s]

(* storageAtDepth: what the walk finds at the highest such overlay.         *)
StorageAtDepth(overlays, a, s, from) ==
  LET stops == WalkStops(overlays, a, s, from)
  IN  IF stops = {} THEN Absent ELSE overlays[Greatest(stops)].written[a][s]

(* The overlays whose value for the slot a clear comes across: it walks     *)
(* down from `from` and stops below an overlay that cleared the account.    *)
SeenByClear(overlays, a, s, from) ==
  {i \in 1..from : /\ overlays[i].written[a][s] # Absent
                   /\ \A j \in (i + 1)..from : a \notin overlays[j].cleared}

-----------------------------------------------------------------------------
(* Recording.  Each operator takes the change levels and returns them with *)
(* one more prior in the record of the top level, unless that record       *)
(* already names the key or nothing is to be recorded.                     *)

(* recordingLevel: a level above the bottom records nothing while a pure    *)
(* read runs; the bottom always records.                                    *)
Recording == Depth = 1 \/ changeSetsSuspended = 0

(* The level a prior is read from: the one below the top, frozen while the  *)
(* top is open; the bottom itself when no checkpoint is open.               *)
PriorIndex == IF Depth > 1 THEN Depth - 1 ELSE 1

(* FAULTY: a record that keeps the last prior it is given, not the first.   *)
KeepNewer(recorded, prior) == prior

KeepOlder(recorded, prior) ==
  IF recorded = NotRecorded THEN prior ELSE recorded

RecordAccountPrior(levels, accounts, a) ==
  IF Recording
  THEN [levels EXCEPT ![Depth].accounts[a] =
                         KeepOlder(@, accounts[PriorIndex][a])]
  ELSE levels

RecordCodePrior(levels, a) ==
  IF Recording
  THEN [levels EXCEPT ![Depth].code[a] =
                         KeepOlder(@, codeStack[PriorIndex][a])]
  ELSE levels

RecordSlotPrior(levels, a, s) ==
  IF Recording
  THEN [levels EXCEPT ![Depth].storage[a][s] =
          KeepOlder(@, StorageAtDepth(storageOverlays, a, s, PriorIndex))]
  ELSE levels

(* recordClearPrior: the marker, and every slot the walk comes across.      *)
RecordClearPrior(levels, a) ==
  LET seen(s) == SeenByClear(storageOverlays, a, s, PriorIndex)
      prior(s) == IF seen(s) = {} THEN NotRecorded
                  ELSE storageOverlays[Greatest(seen(s))].written[a][s]
  IN  IF Recording
      THEN [levels EXCEPT
              ![Depth].storageCleared = @ \cup {a},
              ![Depth].storage[a] =
                 [s \in Slot |-> KeepOlder(levels[Depth].storage[a][s],
                                           prior(s))]]
      ELSE levels

(* mergeChangeSetOlderWins.                                                 *)
MergeOlderWins(older, newer) ==
  [accounts |-> [a \in Address |-> KeepOlder(older.accounts[a],
                                             newer.accounts[a])],
   code     |-> [a \in Address |-> KeepOlder(older.code[a], newer.code[a])],
   storage  |-> [a \in Address |-> [s \in Slot |->
                   KeepOlder(older.storage[a][s], newer.storage[a][s])]],
   storageCleared |-> older.storageCleared \cup newer.storageCleared]

-----------------------------------------------------------------------------
(* Accounts and code. *)

(* setAccountAt, putAccount; removeAccountAt is the case of Absent.         *)
SetAccountAt(a, acct) ==
  /\ changeLevels' = RecordAccountPrior(changeLevels, accountStack, a)
  /\ accountStack' = [accountStack EXCEPT ![Depth][a] = acct]
  /\ UNCHANGED <<codeStack, storageOverlays, changeSetsSuspended>>

SetCodeAt(a, c) ==
  /\ changeLevels' = RecordCodePrior(changeLevels, a)
  /\ codeStack' = [codeStack EXCEPT ![Depth][a] = c]
  /\ UNCHANGED <<accountStack, storageOverlays, changeSetsSuspended>>

(* FAULTY: getAccount without the copy at the bottom level.                 *)
EditedWithoutCopy(a, acct) ==
  IF accountStack[Depth][a] # Absent
  THEN [accountStack EXCEPT ![Depth][a] = acct]
  ELSE accountStack

(* getAccount hands out the very object the top level holds, which its     *)
(* caller edits before it calls putAccount; with no checkpoint open it     *)
(* hands out a copy.  The account map when putAccount is reached:          *)
EditedThroughGetAccount(a, acct) ==
  IF Depth > 1 /\ accountStack[Depth][a] # Absent
  THEN [accountStack EXCEPT ![Depth][a] = acct]
  ELSE accountStack

AccountOrNew(a) ==
  IF accountStack[Depth][a] = Absent THEN NewAccount ELSE accountStack[Depth][a]

(* modifyAccountFields, and the node's mutateAccount: read, edit, put.      *)
ModifyAccountFields(a, f) ==
  LET acct   == [AccountOrNew(a) EXCEPT !.fields = f]
      edited == EditedThroughGetAccount(a, acct)
  IN  /\ changeLevels' = RecordAccountPrior(changeLevels, edited, a)
      /\ accountStack' = [edited EXCEPT ![Depth][a] = acct]
      /\ UNCHANGED <<codeStack, storageOverlays, changeSetsSuspended>>

(* putCode: the code, an empty account if there was none, its codeHash.     *)
PutCode(a, c) ==
  LET acct   == [AccountOrNew(a) EXCEPT !.codeHash = c]
      edited == EditedThroughGetAccount(a, acct)
  IN  /\ changeLevels' =
           RecordAccountPrior(RecordCodePrior(changeLevels, a), edited, a)
      /\ codeStack' = [codeStack EXCEPT ![Depth][a] = c]
      /\ accountStack' = [edited EXCEPT ![Depth][a] = acct]
      /\ UNCHANGED <<storageOverlays, changeSetsSuspended>>

-----------------------------------------------------------------------------
(* Storage. *)

SetStorageAt(a, s, v) ==
  /\ changeLevels' = RecordSlotPrior(changeLevels, a, s)
  /\ storageOverlays' = [storageOverlays EXCEPT ![Depth].written[a][s] = v]
  /\ UNCHANGED <<accountStack, codeStack, changeSetsSuspended>>

(* FAULTY: a tombstone at the bottom too.                                   *)
TombstoneAlways(a) == {a}

(* The tombstone a clear leaves in the top overlay: none at the bottom,     *)
(* where there is nothing below to hide.                                    *)
Tombstone(a) == IF Depth > 1 THEN {a} ELSE {}

OverlaysAfterClear(a) ==
  [storageOverlays EXCEPT ![Depth].written[a] = NothingWritten,
                          ![Depth].cleared = @ \cup Tombstone(a)]

ClearStorageAt(a) ==
  /\ changeLevels' = RecordClearPrior(changeLevels, a)
  /\ storageOverlays' = OverlaysAfterClear(a)
  /\ UNCHANGED <<accountStack, codeStack, changeSetsSuspended>>

(* deleteAccount: the account and its storage; its code stays.              *)
DeleteAccount(a) ==
  /\ changeLevels' =
       RecordClearPrior(RecordAccountPrior(changeLevels, accountStack, a), a)
  /\ accountStack' = [accountStack EXCEPT ![Depth][a] = Absent]
  /\ storageOverlays' = OverlaysAfterClear(a)
  /\ UNCHANGED <<codeStack, changeSetsSuspended>>

-----------------------------------------------------------------------------
(* Checkpoints. *)

Checkpoint ==
  /\ Depth < MaxDepth
  /\ accountStack' = Append(accountStack, accountStack[Depth])
  /\ codeStack' = Append(codeStack, codeStack[Depth])
  /\ storageOverlays' = Append(storageOverlays, EmptyOverlay)
  /\ changeLevels' = Append(changeLevels, EmptyChangeSet)
  /\ UNCHANGED changeSetsSuspended

(* FAULTY: the writes merged first, so that the clears hide them.           *)
MergeOverlaysWritesFirst(below, top, belowIsBottom) ==
  [written |-> [a \in Address |-> [s \in Slot |->
                  IF a \in top.cleared THEN Absent
                  ELSE IF top.written[a][s] # Absent THEN top.written[a][s]
                  ELSE below.written[a][s]]],
   cleared |-> IF belowIsBottom THEN below.cleared
               ELSE below.cleared \cup top.cleared]

(* The overlay below after the top one merges into it: the clears first,    *)
(* their tombstones kept unless it is the bottom, then the writes.          *)
MergeOverlays(below, top, belowIsBottom) ==
  [written |-> [a \in Address |-> [s \in Slot |->
                  IF top.written[a][s] # Absent THEN top.written[a][s]
                  ELSE IF a \in top.cleared THEN Absent
                  ELSE below.written[a][s]]],
   cleared |-> IF belowIsBottom THEN below.cleared
               ELSE below.cleared \cup top.cleared]

(* refuseCommitIntoBottomWhileSuspended: such a commit throws before        *)
(* anything moves.                                                          *)
CommitRefused == changeSetsSuspended > 0 /\ Depth = 2

Commit ==
  LET d == Depth - 1
  IN  /\ Depth > 1
      /\ ~CommitRefused
      /\ accountStack' = Append(SubSeq(accountStack, 1, d - 1),
                                accountStack[Depth])
      /\ codeStack' = Append(SubSeq(codeStack, 1, d - 1), codeStack[Depth])
      /\ storageOverlays' =
           Append(SubSeq(storageOverlays, 1, d - 1),
                  MergeOverlays(storageOverlays[d], storageOverlays[Depth],
                                d = 1))
      /\ changeLevels' =
           Append(SubSeq(changeLevels, 1, d - 1),
                  MergeOlderWins(changeLevels[d], changeLevels[Depth]))
      /\ UNCHANGED changeSetsSuspended

(* FAULTY: a revert that forgets the record of the level it drops.          *)
RevertKeepingRecord ==
  /\ Depth > 1
  /\ accountStack' = SubSeq(accountStack, 1, Depth - 1)
  /\ codeStack' = SubSeq(codeStack, 1, Depth - 1)
  /\ storageOverlays' = SubSeq(storageOverlays, 1, Depth - 1)
  /\ UNCHANGED <<changeLevels, changeSetsSuspended>>

Revert ==
  /\ Depth > 1
  /\ accountStack' = SubSeq(accountStack, 1, Depth - 1)
  /\ codeStack' = SubSeq(codeStack, 1, Depth - 1)
  /\ storageOverlays' = SubSeq(storageOverlays, 1, Depth - 1)
  /\ changeLevels' = SubSeq(changeLevels, 1, Depth - 1)
  /\ UNCHANGED changeSetsSuspended

(* takeChangeSet: it throws with a checkpoint open.                         *)
TakeChangeSet ==
  /\ Depth = 1
  /\ changeLevels' = <<EmptyChangeSet>>
  /\ UNCHANGED <<accountStack, codeStack, storageOverlays, changeSetsSuspended>>

(* withChangeSetsSuspended, its two ends: the node enters it with no        *)
(* checkpoint open and everything run inside reverts what it opens.         *)
BeginPureRead ==
  /\ Depth = 1
  /\ changeSetsSuspended = 0
  /\ changeSetsSuspended' = changeSetsSuspended + 1
  /\ UNCHANGED <<accountStack, codeStack, storageOverlays, changeLevels>>

EndPureRead ==
  /\ Depth = 1
  /\ changeSetsSuspended > 0
  /\ changeSetsSuspended' = changeSetsSuspended - 1
  /\ UNCHANGED <<accountStack, codeStack, storageOverlays, changeLevels>>

-----------------------------------------------------------------------------
Init ==
  /\ accountStack = <<[a \in Address |-> Absent]>>
  /\ codeStack = <<[a \in Address |-> Absent]>>
  /\ storageOverlays = <<EmptyOverlay>>
  /\ changeLevels = <<EmptyChangeSet>>
  /\ changeSetsSuspended = 0

AccountStep(a) ==
  \/ \E acct \in Account \cup {Absent} : SetAccountAt(a, acct)
  \/ \E f \in Fields : ModifyAccountFields(a, f)
  \/ DeleteAccount(a)

CodeStep(a) == \E c \in Code : SetCodeAt(a, c) \/ PutCode(a, c)

StorageStep(a) ==
  \/ \E s \in Slot, v \in SlotContent : SetStorageAt(a, s, v)
  \/ ClearStorageAt(a)

LevelStep ==
  \/ Checkpoint
  \/ Commit
  \/ Revert
  \/ TakeChangeSet
  \/ BeginPureRead
  \/ EndPureRead

Next ==
  \/ \E a \in Address : AccountStep(a) \/ CodeStep(a) \/ StorageStep(a)
  \/ LevelStep

Spec == Init /\ [][Next]_vars

-----------------------------------------------------------------------------
(* Properties. *)

ChangeSet ==
  [accounts       : [Address -> Account \cup {Absent, NotRecorded}],
   code           : [Address -> Code \cup {Absent, NotRecorded}],
   storage        : [Address ->
                       [Slot -> SlotContent \cup {Absent, NotRecorded}]],
   storageCleared : SUBSET Address]

Overlay ==
  [written : [Address -> [Slot -> SlotContent \cup {Absent}]],
   cleared : SUBSET Address]

(* The type of every variable, and that the four stacks of the state       *)
(* manager stay parallel through every checkpoint, commit and revert.      *)
TypeOK ==
  /\ accountStack \in Seq(AccountMap)
  /\ codeStack \in Seq(CodeMap)
  /\ storageOverlays \in Seq(Overlay)
  /\ changeLevels \in Seq(ChangeSet)
  /\ changeSetsSuspended \in {0, 1}
  /\ Depth \in 1..MaxDepth
  /\ Len(codeStack) = Depth
  /\ Len(storageOverlays) = Depth
  /\ Len(changeLevels) = Depth

(* The bottom overlay holds no tombstones, so a long-lived node does not    *)
(* keep one per contract ever created (StorageOverlay's comment).           *)
NoBottomTombstones == storageOverlays[1].cleared = {}

(* The complete world state as seen from level i.                           *)
LevelState(i) ==
  [accounts |-> accountStack[i],
   code     |-> codeStack[i],
   storage  |-> [a \in Address |-> [s \in Slot |->
                   StorageAtDepth(storageOverlays, a, s, i)]]]

(* What a consumer of a change set reconstructs: the recorded value for a   *)
(* recorded key, the current one for any other.                             *)
Undo(state, changes) ==
  [accounts |-> [a \in Address |->
                   KeepOlder(changes.accounts[a], state.accounts[a])],
   code     |-> [a \in Address |->
                   KeepOlder(changes.code[a], state.code[a])],
   storage  |-> [a \in Address |-> [s \in Slot |->
                   KeepOlder(changes.storage[a][s], state.storage[a][s])]]]

(* Undoing what an open level recorded gives exactly the state of the level *)
(* below, for every level and every interleaving of writes, clears,         *)
(* checkpoints, commits and reverts: a change set names every key that      *)
(* changed, with the value from before the first change.  During a pure     *)
(* read nothing is recorded above the bottom.                               *)
LevelRecordsUndo ==
  \A i \in 2..Depth :
    IF changeSetsSuspended = 0
    THEN Undo(LevelState(i), changeLevels[i]) = LevelState(i - 1)
    ELSE changeLevels[i] = EmptyChangeSet

(* The layered state implements a stack of complete states, and undoing the *)
(* OPEN record always gives the state at the last takeChangeSet: the record *)
(* is exactly what the undo log and the derived trie need.                  *)
Flat == INSTANCE CheckpointedState WITH
  stack <- [i \in 1..Depth |-> LevelState(i)],
  baseline <- Undo(LevelState(1), changeLevels[1])

ImplementsCheckpointedState == Flat!Spec
=============================================================================
