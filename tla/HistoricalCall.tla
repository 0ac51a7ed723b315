---------------------------- MODULE HistoricalCall ----------------------------
(***************************************************************************)
(* eth_call and eth_estimateGas at a block below the head, and with state    *)
(* overrides (src/packages/webevm/src/node.ts): what changed since the block *)
(* is written back, as state entries, into a checkpoint the request opens on *)
(* the state manager of module OverlayState; the overrides go on top; the    *)
(* engine runs, once or many times; the checkpoint is reverted, whatever     *)
(* happened.                                                                *)
(*                                                                         *)
(* A request is serialised with everything else (module NodeService), so no  *)
(* other step happens while one is in progress.  Blocks are numbered from 0  *)
(* without gaps and none is evicted (module StateHistory has the window).    *)
(*                                                                         *)
(* Definitions marked FAULTY are not part of the model: each is a plausible *)
(* mistake in the definition after it, kept to show that the properties     *)
(* notice the mistake.                                                      *)
(***************************************************************************)
EXTENDS OverlayState, FiniteSetsExt

CONSTANTS
  Override,   \* the state overrides callers pass, as entries, and NoOverride
  NoOverride,
  Genesis,    \* states a chain may start from (initialBalances, initialState)
  BlockLimit  \* bound on the number of the head

VARIABLES
  sealed,  \* block -> what its mining recorded
  past,    \* history variable: <<state>> the chain's blocks ended in, from 0
  call     \* the request in progress

callVars == <<vars, sealed, past, call>>

(* A StateEntry, Absent fields saying nothing; `absent` is what is left to do    *)
(* about an account that is not there: empty its code, then delete it.        *)
Stated == [account : Account \cup {Absent}, code : Code \cup {Absent},
           fields : Fields \cup {Absent}, clearStorage : BOOLEAN,
           slots : [Slot -> SlotContent \cup {Absent}],
           absent : {"no", "empty", "delete"}]

ASSUME OverrideAssumption ==
  /\ Override \ {NoOverride} \subseteq [Address -> Stated \cup {Absent}]
  /\ \A o \in Override \ {NoOverride} : \A a \in Address :
       o[a] # Absent => o[a].absent = "no" /\ o[a].account = Absent
  /\ Genesis \subseteq [accounts : AccountMap, code : CodeMap,
                         storage : [Address -> [Slot -> SlotContent \cup {Absent}]]]
  /\ BlockLimit \in Nat

HeadNumber == Len(sealed)

NoCall == [phase |-> "idle"]

-----------------------------------------------------------------------------
(* What a request writes. *)

(* FAULTY: the latest record wins.                                          *)
Latest(priors) ==
  LET naming == {i \in DOMAIN priors : priors[i] # NotRecorded}
  IN  IF naming = {} THEN NotRecorded ELSE priors[Max(naming)]

(* `if (!accounts.has(key))`: of what the records in their order say of a key,  *)
(* the first to name it.                                                    *)
Earliest(priors) ==
  LET naming == {i \in DOMAIN priors : priors[i] # NotRecorded}
  IN  IF naming = {} THEN NotRecorded ELSE priors[Min(naming)]

(* `take`, over these of the blocks' records and the open one.                *)
UnionOf(numbers) ==
  LET records == Append(sealed, changeLevels[1])
  IN  [accounts |-> [a \in Address |->
         Earliest([i \in numbers |-> records[i].accounts[a]])],
       code     |-> [a \in Address |-> Earliest([i \in numbers |-> records[i].code[a]])],
       storage  |-> [a \in Address |-> [s \in Slot |->
         Earliest([i \in numbers |-> records[i].storage[a][s]])]],
       storageCleared |-> UNION {records[i].storageCleared : i \in numbers}]

(* FAULTY: the writes since the head was mined are left out.                 *)
UnionOfSealed(k) == UnionOf((k + 1)..HeadNumber)

(* historicalEntries: what the blocks after k and the open record recorded.    *)
UnionAfter(k) == UnionOf((k + 1)..(HeadNumber + 1))

(* The slots of an entry: one that did not exist at k is written empty.      *)
SlotsOf(recorded) ==
  [s \in Slot |-> IF recorded[s] = NotRecorded THEN Absent
                  ELSE IF recorded[s] = Absent THEN EmptyValue ELSE recorded[s]]

(* historicalEntries: the entry of an address.                               *)
HistoricalEntry(union, a) ==
  [account      |-> IF union.accounts[a] = NotRecorded THEN Absent ELSE union.accounts[a],
   absent       |-> IF union.accounts[a] = Absent THEN "empty" ELSE "no",
   code         |-> IF union.code[a] = NotRecorded THEN Absent
                    ELSE IF union.code[a] = Absent THEN EmptyCode ELSE union.code[a],
   fields       |-> Absent,
   clearStorage |-> a \in union.storageCleared,
   slots        |-> SlotsOf(union.storage[a])]

Named(union) ==
  {a \in Address : \/ union.accounts[a] # NotRecorded \/ union.code[a] # NotRecorded
                   \/ a \in union.storageCleared
                   \/ \E s \in Slot : union.storage[a][s] # NotRecorded}

NothingStated ==
  [account |-> Absent, code |-> Absent, fields |-> Absent, clearStorage |-> FALSE,
   slots |-> NothingWritten, absent |-> "no"]

(* The addresses with an entry: of block k's state, none at the head, and of    *)
(* the overrides.                                                           *)
HistoricalAt(k, union) == IF k = HeadNumber THEN {} ELSE Named(union)

Overrides(o) == {a \in Address : o # NoOverride /\ o[a] # Absent}

-----------------------------------------------------------------------------
(* A request. *)

(* historicalBlock has let k through; pureRead suspends recording.           *)
BeginCall(k, o) ==
  LET union == UnionAfter(k)
  IN  /\ call = NoCall
      /\ BeginPureRead
      /\ call' = [phase |-> "open", block |-> k, override |-> o, union |-> union,
                  historical |-> HistoricalAt(k, union), overridden |-> Overrides(o),
                  level |-> HistoricalAt(k, union) \cup Overrides(o) # {},
                  at |-> Absent, entry |-> NothingStated,
                  before |-> <<LevelState(1), changeLevels[1]>>]
      /\ UNCHANGED <<sealed, past>>

(* withStateEntries opens a level if there is an entry to write.             *)
OpenLevel ==
  /\ call.phase = "open"
  /\ IF call.level THEN Checkpoint ELSE UNCHANGED vars
  /\ call' = [call EXCEPT !.phase = "write"]
  /\ UNCHANGED <<sealed, past>>

(* The next entry: those of the block, in some order, then the overrides.     *)
TakeEntry ==
  /\ call.phase = "write"
  /\ call.entry = NothingStated
  /\ \/ \E a \in call.historical :
          call' = [call EXCEPT !.historical = @ \ {a}, !.at = a,
                               !.entry = HistoricalEntry(call.union, a)]
     \/ /\ call.historical = {}
        /\ \E a \in call.overridden :
             call' = [call EXCEPT !.overridden = @ \ {a}, !.at = a,
                                  !.entry = call.override[a]]
  /\ UNCHANGED <<vars, sealed, past>>

-----------------------------------------------------------------------------
(* applyStateEntry: the writes of an entry, in their order; what is written     *)
(* is no longer stated.                                                     *)

WriteCode ==
  /\ call.phase = "write"
  /\ call.entry.code # Absent
  /\ PutCode(call.at, call.entry.code)
  /\ call' = [call EXCEPT !.entry.code = Absent]
  /\ UNCHANGED <<sealed, past>>

WriteAccount ==
  /\ call.phase = "write"
  /\ call.entry.code = Absent /\ call.entry.account # Absent
  /\ SetAccountAt(call.at, call.entry.account)
  /\ call' = [call EXCEPT !.entry.account = Absent]
  /\ UNCHANGED <<sealed, past>>

AccountDone == call.entry.code = Absent /\ call.entry.account = Absent

(* The balance and the nonce.                                                *)
WriteFields ==
  /\ call.phase = "write"
  /\ AccountDone /\ call.entry.fields # Absent
  /\ ModifyAccountFields(call.at, call.entry.fields)
  /\ call' = [call EXCEPT !.entry.fields = Absent]
  /\ UNCHANGED <<sealed, past>>

FieldsDone == AccountDone /\ call.entry.fields = Absent

WriteClear ==
  /\ call.phase = "write"
  /\ FieldsDone /\ call.entry.clearStorage
  /\ ClearStorageAt(call.at)
  /\ call' = [call EXCEPT !.entry.clearStorage = FALSE]
  /\ UNCHANGED <<sealed, past>>

ClearDone == FieldsDone /\ ~ call.entry.clearStorage

WriteSlot(s) ==
  /\ call.phase = "write"
  /\ ClearDone /\ call.entry.slots[s] # Absent
  /\ SetStorageAt(call.at, s, call.entry.slots[s])
  /\ call' = [call EXCEPT !.entry.slots[s] = Absent]
  /\ UNCHANGED <<sealed, past>>

SlotsDone == ClearDone /\ call.entry.slots = NothingWritten

EmptyAbsent ==
  /\ call.phase = "write"
  /\ SlotsDone /\ call.entry.absent = "empty"
  /\ PutCode(call.at, EmptyCode)
  /\ call' = [call EXCEPT !.entry.absent = "delete"]
  /\ UNCHANGED <<sealed, past>>

DeleteAbsent ==
  /\ call.phase = "write"
  /\ SlotsDone /\ call.entry.absent = "delete"
  /\ DeleteAccount(call.at)
  /\ call' = [call EXCEPT !.entry.absent = "no"]
  /\ UNCHANGED <<sealed, past>>

WriteEntry ==
  \/ WriteCode \/ WriteAccount \/ WriteFields \/ WriteClear
  \/ \E s \in Slot : WriteSlot(s)
  \/ EmptyAbsent \/ DeleteAbsent

-----------------------------------------------------------------------------
(* The read. *)

Ready ==
  /\ call.phase = "write"
  /\ call.entry = NothingStated /\ call.historical = {} /\ call.overridden = {}
  /\ call' = [call EXCEPT !.phase = "read"]
  /\ UNCHANGED <<vars, sealed, past>>

(* The default engine's call: a level of its own, what the code run writes,  *)
(* and its revert; an estimate runs it again and again.                     *)
BeginRun ==
  /\ call.phase = "read"
  /\ Checkpoint
  /\ call' = [call EXCEPT !.phase = "run"]
  /\ UNCHANGED <<sealed, past>>

RunWrites ==
  /\ call.phase = "run"
  /\ \E a \in Address :
       \/ \E f \in Fields : ModifyAccountFields(a, f)
       \/ \E s \in Slot, v \in SlotContent : SetStorageAt(a, s, v)
       \/ DeleteAccount(a)
  /\ call' = [call EXCEPT !.phase = "ran"]
  /\ UNCHANGED <<sealed, past>>

EndRun ==
  /\ call.phase \in {"run", "ran"}
  /\ Revert
  /\ call' = [call EXCEPT !.phase = "read"]
  /\ UNCHANGED <<sealed, past>>

(* FAULTY: the level is reverted when the read returns, not when it throws.  *)
CloseLevelOnSuccess(threw) == IF call.level /\ ~ threw THEN Revert ELSE UNCHANGED vars

(* withStateEntries' `finally`.                                             *)
CloseLevel(threw) == IF call.level THEN Revert ELSE UNCHANGED vars

EndRead ==
  /\ call.phase = "read"
  /\ \E threw \in BOOLEAN : CloseLevel(threw)
  /\ call' = [call EXCEPT !.phase = "close"]
  /\ UNCHANGED <<sealed, past>>

EndCall ==
  /\ call.phase = "close"
  /\ changeSetsSuspended' = changeSetsSuspended - 1
  /\ UNCHANGED <<accountStack, codeStack, storageOverlays, changeLevels>>
  /\ call' = NoCall
  /\ UNCHANGED <<sealed, past>>

-----------------------------------------------------------------------------
(* Between requests: what transactions and cheats leave at the bottom, and   *)
(* the sealing of a block.                                                  *)
WriteBottom ==
  /\ call = NoCall
  /\ \E a \in Address :
       \/ \E f \in Fields : ModifyAccountFields(a, f)
       \/ \E c \in Code : PutCode(a, c)
       \/ \E s \in Slot, v \in SlotContent : SetStorageAt(a, s, v)
       \/ ClearStorageAt(a)
       \/ DeleteAccount(a)
  /\ UNCHANGED <<sealed, past, call>>

SealBlock ==
  /\ call = NoCall
  /\ HeadNumber < BlockLimit
  /\ TakeChangeSet
  /\ sealed' = Append(sealed, changeLevels[1])
  /\ past' = Append(past, LevelState(1))
  /\ UNCHANGED call

CallInit ==
  \E genesis \in Genesis :
  /\ accountStack = <<genesis.accounts>>
  /\ codeStack = <<genesis.code>>
  /\ storageOverlays = <<[written |-> genesis.storage, cleared |-> {}]>>
  /\ changeLevels = <<EmptyChangeSet>>
  /\ changeSetsSuspended = 0
  /\ sealed = <<>>
  /\ past = <<genesis>>
  /\ call = NoCall

CallNext ==
  \/ WriteBottom
  \/ SealBlock
  \/ \E k \in 0..HeadNumber, o \in Override : BeginCall(k, o)
  \/ /\ call # NoCall
     /\ \/ OpenLevel \/ TakeEntry \/ WriteEntry \/ Ready
        \/ BeginRun \/ RunWrites \/ EndRun
        \/ EndRead \/ EndCall

CallSpec == CallInit /\ [][CallNext]_callVars

-----------------------------------------------------------------------------
(* Between requests there is one level, nothing is suspended, and every       *)
(* block has its record.                                                    *)
CallTypeOK ==
  /\ TypeOK
  /\ sealed \in Seq(ChangeSet)
  /\ Len(past) = HeadNumber + 1
  /\ call = NoCall => Depth = 1 /\ changeSetsSuspended = 0

(* The state of block k: as it ended, or, at the head, as it is now.          *)
StateAt(k) == IF k = HeadNumber THEN call.before[1] ELSE past[k + 1]

(* What a read makes of a level: a slot that is empty and one that was never  *)
(* written are the same.                                                    *)
Word(v) == IF v = Absent THEN EmptyValue ELSE v

Bytes(c) == IF c = Absent THEN EmptyCode ELSE c

(* A state with geth's overrides applied, field by field.                     *)
Overridden(state, o) ==
  LET says(a) == o # NoOverride /\ o[a] # Absent
      base(a) == IF state.accounts[a] = Absent THEN NewAccount ELSE state.accounts[a]
      account(a) ==
        [fields   |-> IF o[a].fields = Absent THEN base(a).fields ELSE o[a].fields,
         codeHash |-> IF o[a].code = Absent THEN base(a).codeHash ELSE o[a].code]
      slot(a, s) ==
        IF o[a].slots[s] # Absent THEN o[a].slots[s]
        ELSE IF o[a].clearStorage THEN EmptyValue ELSE Word(state.storage[a][s])
  IN  [accounts |-> [a \in Address |->
          IF says(a) /\ (o[a].fields # Absent \/ o[a].code # Absent)
          THEN account(a) ELSE state.accounts[a]],
       code     |-> [a \in Address |->
          IF says(a) /\ o[a].code # Absent THEN o[a].code ELSE Bytes(state.code[a])],
       storage  |-> [a \in Address |-> [s \in Slot |->
          IF says(a) THEN slot(a, s) ELSE Word(state.storage[a][s])]]]

Expected == Overridden(StateAt(call.block), call.override)

(* Whenever the engine is about to run, and again before every probe of an    *)
(* estimate, what it would read of every account, and of the storage and code *)
(* of every account the block had, is the state of the block with the          *)
(* overrides on top: whatever was written, cleared, deleted and mined since.  *)
CallReadsPast ==
  call.phase = "read" =>
    LET view == LevelState(Depth)
    IN  /\ view.accounts = Expected.accounts
        /\ \A a \in Address :
             StateAt(call.block).accounts[a] # Absent =>
               /\ Bytes(view.code[a]) = Expected.code[a]
               /\ \A s \in Slot : Word(view.storage[a][s]) = Expected.storage[a][s]

(* When a request is over, returned or thrown, state and open record are what *)
(* they were before it ("leave no trace").                                   *)
NoTrace ==
  /\ CallTypeOK
  /\ call.phase = "close" =>
       /\ Depth = 1
       /\ <<LevelState(1), changeLevels[1]>> = call.before
=============================================================================
