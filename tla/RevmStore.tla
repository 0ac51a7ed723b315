------------------------------ MODULE RevmStore ------------------------------
(***************************************************************************)
(* The revm engine on the node's state                                      *)
(* (src/packages/webevm/src/revm-state-store.ts, revm.ts): revm asks for     *)
(* code by HASH where the node keys it by ADDRESS, and hands back what a     *)
(* transaction changed as a sequence of callbacks, each one write to the top *)
(* level of the state manager of module OverlayState.                       *)
(*                                                                         *)
(* A code stands for its hash as well: the index by hash is the set of codes *)
(* it holds.  The callbacks of a commit, and their order, are revm-wasm's as  *)
(* the comments and tests of the store measured them.                       *)
(*                                                                         *)
(* Definitions marked FAULTY are not part of the model: each is a plausible *)
(* mistake in the definition after it, kept to show that the properties     *)
(* notice the mistake.                                                      *)
(***************************************************************************)
EXTENDS OverlayState

VARIABLES
  byCodeHash,        \* codes indexed by hash
  absentCodeHashes,  \* hashes looked for and not found in this execution
  pendingCode,       \* codes handed over in this execution
  execution          \* the execution in progress

storeVars == <<byCodeHash, absentCodeHashes, pendingCode>>
allVars == <<vars, storeVars, execution>>

Idle == [phase |-> "idle"]

Top(stack) == stack[Depth]

-----------------------------------------------------------------------------
(* Reading. *)

(* FAULTY: the code map at the bottom of the stack.                          *)
ReindexedFromBottom == {codeStack[1][a] : a \in Address} \ {Absent}

(* FAULTY: an address without code is indexed as well.                       *)
ReindexedWithAbsent == {Top(codeStack)[a] : a \in Address}

(* #reindexCode: what the live code map holds now, and nothing else.         *)
Reindexed == {Top(codeStack)[a] : a \in Address} \ {Absent}

(* getCode finds a hash in the index, among the codes of this execution, or   *)
(* after building the index again, unless that was tried already.            *)
Hit(c) == c = EmptyCode \/ c \in byCodeHash \/ c \in pendingCode

Finds(c) == Hit(c) \/ (c \notin absentCodeHashes /\ c \in Reindexed)

GetCode(c) ==
  IF Hit(c) \/ c \in absentCodeHashes
  THEN UNCHANGED storeVars
  ELSE /\ byCodeHash' = Reindexed
       /\ absentCodeHashes' = absentCodeHashes \cup ({c} \ Reindexed)
       /\ UNCHANGED pendingCode

(* beginExecution.                                                          *)
BeginExecution ==
  /\ absentCodeHashes' = {}
  /\ pendingCode' = {}
  /\ UNCHANGED byCodeHash

-----------------------------------------------------------------------------
(* What a transaction may change of an account, in revm's words.             *)

NoSlots == [s \in Slot |-> Absent]

SlotChanges == [Slot -> SlotContent \cup {Absent}]

Untouched ==
  [kind |-> "untouched", fields |-> ZeroFields, code |-> EmptyCode, loaded |-> FALSE,
   slots |-> NoSlots]

Exists(a) == Top(accountStack)[a] # Absent

HashOf(a) == IF Exists(a) THEN Top(accountStack)[a].codeHash ELSE EmptyCode

(* Touched accounts keep their code, which revm loaded or did not; created    *)
(* ones had none; removed ones may have come to life in this transaction.     *)
ChangesOf(a) ==
  {Untouched}
  \cup [kind : {"touched"}, fields : Fields, code : {HashOf(a)}, loaded : BOOLEAN,
        slots : IF HashOf(a) = EmptyCode THEN {NoSlots} ELSE SlotChanges]
  \cup (IF HashOf(a) # EmptyCode THEN {}
        ELSE [kind : {"created"}, fields : Fields, code : Code, loaded : {TRUE},
              slots : SlotChanges])
  \cup [kind : {"removed"}, fields : {ZeroFields}, code : {EmptyCode}, loaded : {FALSE},
        slots : {NoSlots}]

(* What the callbacks of an account begin with, and what follows a clear.     *)
FirstCallback(change) == IF change.kind = "touched" THEN "code" ELSE "clear"

AfterClear(change) == IF change.kind = "removed" THEN "remove" ELSE "code"

AccountIn(change) == [fields |-> change.fields, codeHash |-> change.code]

SlotsIn(change) == {s \in Slot : change.slots[s] # Absent}

(* What a commit must leave of a state.                                     *)
Effect(state, changes) ==
  [accounts |-> [a \in Address |->
      CASE changes[a].kind = "untouched" -> state.accounts[a]
        [] changes[a].kind = "removed"   -> Absent
        [] OTHER -> AccountIn(changes[a])],
   storage |-> [a \in Address |-> [s \in Slot |->
      IF changes[a].slots[s] # Absent THEN changes[a].slots[s]
      ELSE IF changes[a].kind \in {"removed", "created"} THEN Absent
      ELSE state.storage[a][s]]]]

-----------------------------------------------------------------------------
(* FAULTY: an account that had code is taken to have it already.             *)
AttachedToNew(a, acct, codes) ==
  IF acct.codeHash \in pendingCode /\ codes[Depth][a] = Absent
  THEN [codes EXCEPT ![Depth][a] = acct.codeHash] ELSE codes

(* The code map when setAccount has attached the code the account names.     *)
Attached(a, acct, codes) ==
  IF acct.codeHash \in pendingCode THEN [codes EXCEPT ![Depth][a] = acct.codeHash]
  ELSE codes

SetAccount(a, acct) ==
  LET recorded == RecordAccountPrior(changeLevels, accountStack, a)
  IN  /\ accountStack' = [accountStack EXCEPT ![Depth][a] = acct]
      /\ codeStack' = Attached(a, acct, codeStack)
      /\ changeLevels' = IF acct.codeHash \in pendingCode
                         THEN RecordCodePrior(recorded, a) ELSE recorded
      /\ UNCHANGED <<storageOverlays, changeSetsSuspended, storeVars>>

SetCode(c) ==
  /\ pendingCode' = pendingCode \cup {c}
  /\ absentCodeHashes' = absentCodeHashes \ {c}
  /\ byCodeHash' = byCodeHash \cup {c}
  /\ UNCHANGED vars

(* FAULTY: a removal clears nothing and a creation neither.                  *)
NothingCleared(a) == UNCHANGED vars

ClearStorage(a) == ClearStorageAt(a)

-----------------------------------------------------------------------------
(* Executions. *)

(* The engine's call and transact begin; transact runs on committed state.    *)
Call ==
  /\ execution = Idle
  /\ BeginExecution
  /\ execution' = [phase |-> "run", commits |-> FALSE]
  /\ UNCHANGED vars

Transact ==
  /\ execution = Idle
  /\ Depth = 1
  /\ BeginExecution
  /\ execution' = [phase |-> "run", commits |-> TRUE]
  /\ UNCHANGED vars

(* An opcode that needs the code of an account.                              *)
LoadCode(a) ==
  /\ execution.phase = "run"
  /\ Exists(a)
  /\ GetCode(HashOf(a))
  /\ UNCHANGED <<vars, execution>>

(* A call, and a transaction that is refused, commits nothing.               *)
EndWithoutCommit ==
  /\ execution.phase = "run"
  /\ execution' = Idle
  /\ UNCHANGED <<vars, storeVars>>

(* The changes of the transaction, ...                                       *)
BeginCommit ==
  /\ execution.phase = "run"
  /\ execution.commits
  /\ \E changes \in {f \in [Address -> UNION {ChangesOf(a) : a \in Address}] :
                       \A a \in Address : f[a] \in ChangesOf(a)} :
       execution' =
         [phase |-> "commit", changes |-> changes, before |-> LevelState(1),
          left |-> {a \in Address : changes[a].kind # "untouched"}, at |-> Absent,
          callback |-> "next", slots |-> {}]
  /\ UNCHANGED <<vars, storeVars>>

Change == execution.changes[execution.at]

Calls(callback) == execution.phase = "commit" /\ execution.callback = callback

ThenCalls(callback) == execution' = [execution EXCEPT !.callback = callback]

ThenNext == execution' = [execution EXCEPT !.callback = "next", !.at = Absent]

(* ... account by account in any order, ...                                  *)
CommitAccount(a) ==
  /\ Calls("next")
  /\ a \in execution.left
  /\ LET change == execution.changes[a]
     IN  execution' = [execution EXCEPT !.left = @ \ {a}, !.at = a,
                         !.callback = FirstCallback(change), !.slots = SlotsIn(change)]
  /\ UNCHANGED <<vars, storeVars>>

(* ... a callback at a time: its storage cleared, its code handed over, the   *)
(* account, its slots; or nothing left of it.                                *)
CommitClear ==
  /\ Calls("clear")
  /\ ClearStorage(execution.at)
  /\ ThenCalls(AfterClear(Change))
  /\ UNCHANGED storeVars

CommitCode ==
  /\ Calls("code")
  /\ IF Change.loaded /\ Change.code # EmptyCode THEN SetCode(Change.code)
     ELSE UNCHANGED <<vars, storeVars>>
  /\ ThenCalls("account")

CommitSetAccount ==
  /\ Calls("account")
  /\ SetAccount(execution.at, AccountIn(Change))
  /\ ThenCalls("slots")

CommitSlot(s) ==
  /\ Calls("slots")
  /\ s \in execution.slots
  /\ SetStorageAt(execution.at, s, Change.slots[s])
  /\ execution' = [execution EXCEPT !.slots = @ \ {s}]
  /\ UNCHANGED storeVars

CommitSlotsDone ==
  /\ Calls("slots")
  /\ execution.slots = {}
  /\ ThenNext
  /\ UNCHANGED <<vars, storeVars>>

CommitRemove ==
  /\ Calls("remove")
  /\ SetAccountAt(execution.at, Absent)
  /\ ThenNext
  /\ UNCHANGED storeVars

Committed == Calls("next") /\ execution.left = {}

(* The block of the transaction takes the record.                            *)
EndCommit ==
  /\ Committed
  /\ execution' = Idle
  /\ TakeChangeSet
  /\ UNCHANGED storeVars

(* Between executions: a cheat, and the entries of a pinned or overridden     *)
(* read, in a level of its own around the call (module HistoricalCall).       *)
SetCodeCheat(a) ==
  /\ execution = Idle
  /\ \E c \in Code : PutCode(a, c)
  /\ UNCHANGED <<storeVars, execution>>

OpenEntries ==
  /\ execution = Idle
  /\ Depth = 1
  /\ Checkpoint
  /\ UNCHANGED <<storeVars, execution>>

CloseEntries ==
  /\ execution = Idle
  /\ Depth > 1
  /\ Revert
  /\ UNCHANGED <<storeVars, execution>>

StoreInit ==
  /\ Init
  /\ byCodeHash = {}
  /\ absentCodeHashes = {}
  /\ pendingCode = {}
  /\ execution = Idle

StoreNext ==
  \/ Call
  \/ Transact
  \/ OpenEntries
  \/ CloseEntries
  \/ \E a \in Address : SetCodeCheat(a)
  \/ /\ execution # Idle
     /\ \/ \E a \in Address : LoadCode(a) \/ CommitAccount(a)
        \/ EndWithoutCommit
        \/ BeginCommit
        \/ CommitClear
        \/ CommitCode
        \/ CommitSetAccount
        \/ \E s \in Slot : CommitSlot(s)
        \/ CommitSlotsDone
        \/ CommitRemove
        \/ EndCommit

StoreSpec == StoreInit /\ [][StoreNext]_allVars

-----------------------------------------------------------------------------
(* The kinds of the variables.                                               *)
StoreTypeOK ==
  /\ TypeOK
  /\ {byCodeHash, absentCodeHashes, pendingCode} \subseteq SUBSET Code
  /\ execution.phase \in {"idle", "run", "commit"}

(* Whenever revm runs it finds the code of every account it can meet,         *)
(* whatever executions, cheats, entries and reverts came before: "an invisible *)
(* contract runs as EMPTY code and returns `success`".                       *)
CodeFound ==
  execution.phase = "run" => \A a \in Address : Exists(a) => Finds(HashOf(a))

(* The node keeps, under every account's own address, the code its hash       *)
(* names, also where a commit handed one code over for several accounts.      *)
CodeOfEveryAccount ==
  /\ StoreTypeOK
  /\ execution.phase # "commit" =>
       \A a \in Address :
         HashOf(a) # EmptyCode => Top(codeStack)[a] = HashOf(a)

(* A commit leaves what the transaction changed and nothing else, in          *)
(* whichever order its accounts come: no storage of an earlier life, and      *)
(* none after a removal.                                                    *)
CommitExact ==
  Committed =>
    LET after == Effect(execution.before, execution.changes)
    IN  /\ LevelState(1).accounts = after.accounts
        /\ LevelState(1).storage = after.storage
=============================================================================
