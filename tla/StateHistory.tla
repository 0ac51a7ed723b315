----------------------------- MODULE StateHistory -----------------------------
(***************************************************************************)
(* The bounded state history of a webevm node (NodeOptions.stateHistory):  *)
(* an undo log over the one live state, kept by executeAndMine, consulted   *)
(* by the point reads pinned to a block, written to a dump and restored    *)
(* from one (src/packages/webevm/src/node.ts).                             *)
(*                                                                         *)
(*   - every write since the last mined block is in the OPEN record, which *)
(*     keeps each key's prior value; module OverlayState shows that the    *)
(*     state manager's record is exactly that;                             *)
(*   - mining SEALS the open record under the block's number and evicts    *)
(*     what serves no block of the window;                                 *)
(*   - a read at block k takes the first sealed record after k that names  *)
(*     the key, then the open record, then the live value.                 *)
(*                                                                         *)
(* A key stands for an account, a code or a slot: every operator here      *)
(* works key by key.  The node's public calls are serialised, so each is   *)
(* one action; the writes of the transactions of a batch are separate      *)
(* steps before the block is stored, which leaves room for a batch that    *)
(* throws part way.  CreateNode is a crash or a close followed by a fresh  *)
(* node that auto-loads what was saved, perhaps with other options.        *)
(*                                                                         *)
(* Definitions marked FAULTY are not part of the model: each is a plausible *)
(* mistake in the definition after it, kept to show that the properties     *)
(* notice the mistake.                                                      *)
(***************************************************************************)
EXTENDS Integers, Sequences

CONSTANTS
  Key,            \* accounts, codes and storage slots
  Value,          \* what a key may hold
  Absent,         \* no entry (`undefined`, or `null` in a dump)
  NotRecorded,    \* the record does not name the key
  Genesis,        \* the state of a fresh node (initialBalances, initialState)
  Windows,        \* values of stateHistory.blocks; 0 stands for no option
  NumberOptions,  \* values of blockEnv.number; NoNumber stands for no option
  NoNumber,
  NoHistory,      \* a dump written without stateHistory
  NoDump,         \* nothing was saved yet
  MaxNumber       \* bound on block numbers

Content     == Value \cup {Absent}
State       == [Key -> Content]
Changes     == [Key -> Content \cup {NotRecorded}]
BlockNumber == 0..MaxNumber

(* A sealed entry of the undo log.                                          *)
Record == [number : BlockNumber, changes : Changes]

ASSUME HistoryAssumption ==
  /\ NotRecorded \notin Content
  /\ NoHistory \notin Seq(Record)
  /\ Genesis \in State
  /\ Windows \subseteq Nat
  /\ NumberOptions \subseteq (Nat \ {0}) \cup {NoNumber}
  /\ NoNumber \notin Nat
  /\ MaxNumber \in Nat

VARIABLES
  live,          \* the committed state
  openRecord,    \* priors of the keys written since the last mined block
  sealed,        \* the undo log: records [number, changes], oldest first
  latestNumber,  \* the head
  historyFloor,  \* the oldest block the log can reconstruct
  storedBlocks,  \* numbers with a block in blockStore
  window,        \* stateHistory.blocks of this node, 0 without the option
  numberOption,  \* blockEnv.number of this node, or NoNumber
  saved,         \* the last dump written, or NoDump
  past           \* history variable: the state each stored block ended in

vars == <<live, openRecord, sealed, latestNumber, historyFloor, storedBlocks,
          window, numberOption, saved, past>>

NoChanges == [k \in Key |-> NotRecorded]

KeepOlder(older, newer) == IF older = NotRecorded THEN newer ELSE older

(* FAULTY: the newer entry wins.                                            *)
MergeNewerWins(older, newer) == [k \in Key |-> KeepOlder(newer[k], older[k])]

(* mergeChangeSetOlderWins and mergeSerializedOlderWins.                    *)
MergeOlderWins(older, newer) == [k \in Key |-> KeepOlder(older[k], newer[k])]

Least(S) == CHOOSE i \in S : \A j \in S : i <= j

Larger(x, y) == IF x < y THEN y ELSE x

-----------------------------------------------------------------------------
(* Reads at a block.                                                        *)

(* oldestServableBlock.                                                     *)
OldestServable ==
  IF window = 0 THEN latestNumber
  ELSE Larger(historyFloor, Larger(latestNumber - window, 0))

(* The blocks below the head that historicalBlock lets a read through to.   *)
Served ==
  {n \in storedBlocks : OldestServable <= n /\ n < latestNumber}

(* The records of blocks after n that name the key.                         *)
Naming(records, n, k) ==
  {i \in DOMAIN records : /\ records[i].number > n
                          /\ records[i].changes[k] # NotRecorded}

(* historicalValue, for a log, an open record and a live state.             *)
ValueAt(records, open, state, n, k) ==
  LET naming == Naming(records, n, k)
  IN  IF naming # {} THEN records[Least(naming)].changes[k]
      ELSE KeepOlder(open[k], state[k])

HistoricalValue(n, k) == ValueAt(sealed, openRecord, live, n, k)

-----------------------------------------------------------------------------
(* Sealing and evicting.                                                    *)

Seal(number) ==
  LET n == Len(sealed)
  IN  IF n > 0 /\ sealed[n].number = number
      THEN [sealed EXCEPT ![n].changes = MergeOlderWins(@, openRecord)]
      ELSE Append(sealed, [number |-> number, changes |-> openRecord])

(* FAULTY: the record of the oldest servable block stays.                   *)
EvictOneLess(records, oldestKept) ==
  LET kept == {i \in DOMAIN records : records[i].number >= oldestKept}
  IN  IF kept = {} THEN <<>> ELSE SubSeq(records, Least(kept), Len(records))

(* sealBlock drops the leading records that serve no block of the window.   *)
Evict(records, oldestKept) ==
  LET kept == {i \in DOMAIN records : records[i].number > oldestKept}
  IN  IF kept = {} THEN <<>> ELSE SubSeq(records, Least(kept), Len(records))

-----------------------------------------------------------------------------
(* Dumping and restoring the log.                                           *)

(* dumpHistory: the open record is folded into the head's record.           *)
DumpHistory ==
  LET n == Len(sealed)
  IN  IF window = 0 THEN NoHistory
      ELSE IF n > 0 /\ sealed[n].number = latestNumber
           THEN [sealed EXCEPT ![n].changes = MergeOlderWins(@, openRecord)]
           ELSE sealed

(* FAULTY: a floor one block above the oldest record kept.                  *)
FloorAtOldestRecord(kept, head) ==
  IF kept = <<>> THEN head ELSE kept[1].number

(* The floor loadHistory leaves: the block before the oldest record kept.   *)
RestoredFloor(kept, head) ==
  IF kept = <<>> THEN head ELSE kept[1].number - 1

(* The records loadHistory keeps: the contiguous run that ends at the head, *)
(* within the loading node's window.                                        *)
RestoredRecords(history, head, w) ==
  LET n == Len(history)
      inRun(i) == \A j \in i..n : /\ history[j].number = head - (n - j)
                                  /\ history[j].number > head - w
      run == {i \in 1..n : inRun(i)}
  IN  IF run = {} THEN <<>> ELSE SubSeq(history, Least(run), n)

-----------------------------------------------------------------------------
(* FAULTY: recording goes on without stateHistory.                          *)
RecordedAlways(k) == [openRecord EXCEPT ![k] = KeepOlder(@, live[k])]

Recorded(k) ==
  IF window = 0 THEN openRecord
  ELSE [openRecord EXCEPT ![k] = KeepOlder(@, live[k])]

(* A write outside any block: an evm_set* cheat, or a transaction of the    *)
(* batch being mined, whether or not its block is stored in the end.        *)
Write(k, v) ==
  /\ live' = [live EXCEPT ![k] = v]
  /\ openRecord' = Recorded(k)
  /\ UNCHANGED <<sealed, latestNumber, historyFloor, storedBlocks, window,
                 numberOption, saved, past>>

NextNumber ==
  IF numberOption = NoNumber THEN latestNumber + 1 ELSE numberOption

(* executeAndMine after its last transaction: storeBlock, takeChangeSet,    *)
(* sealBlock.                                                               *)
MineBlock ==
  LET number == NextNumber
  IN  /\ number <= MaxNumber
      /\ latestNumber' = number
      /\ storedBlocks' = storedBlocks \cup {number}
      /\ past' = [past EXCEPT ![number] = live]
      /\ openRecord' = NoChanges
      /\ sealed' = IF window = 0 THEN sealed
                   ELSE Evict(Seal(number), number - window)
      /\ UNCHANGED <<live, historyFloor, window, numberOption, saved>>

(* dumpState, and persistIfNeeded, which saves one.  The last three fields  *)
(* are for the properties only.                                             *)
DumpState ==
  /\ saved' = [state |-> live, blocks |-> storedBlocks \cap 0..latestNumber,
               latest |-> latestNumber, history |-> DumpHistory,
               past |-> past, served |-> Served, window |-> window]
  /\ UNCHANGED <<live, openRecord, sealed, latestNumber, historyFloor,
                 storedBlocks, window, numberOption, past>>

(* loadState into a node whose state is `base` and whose window is w.  The  *)
(* keys of the dump are written over the state.                             *)
LoadOnto(base, w) ==
  LET records == IF w = 0 \/ saved.history = NoHistory THEN <<>>
                 ELSE RestoredRecords(saved.history, saved.latest, w)
  IN  /\ live' = [k \in Key |-> IF saved.state[k] = Absent THEN base[k]
                                ELSE saved.state[k]]
      /\ latestNumber' = saved.latest
      /\ storedBlocks' = saved.blocks
      /\ openRecord' = NoChanges
      /\ sealed' = records
      /\ historyFloor' = RestoredFloor(records, saved.latest)
      /\ past' = [saved.past EXCEPT ![saved.latest] = saved.state]
      /\ UNCHANGED saved

LoadState ==
  /\ saved # NoDump
  /\ LoadOnto(live, window)
  /\ UNCHANGED <<window, numberOption>>

(* createNode with persistence, the node before it gone: the genesis state, *)
(* then the saved dump.                                                     *)
CreateNode(w, number) ==
  /\ saved # NoDump
  /\ LoadOnto(Genesis, w)
  /\ window' = w
  /\ numberOption' = number

Init ==
  /\ live = Genesis
  /\ openRecord = NoChanges
  /\ sealed = <<>>
  /\ latestNumber = 0
  /\ historyFloor = 0
  /\ storedBlocks = {0}
  /\ window \in Windows
  /\ numberOption \in NumberOptions
  /\ saved = NoDump
  /\ past = [n \in BlockNumber |-> Genesis]

(* What the code leaves to whoever runs the node.  Blocks are mined at or   *)
(* above the head, and above where the history starts ...                   *)
MinesForward == NextNumber >= latestNumber /\ NextNumber > historyFloor

(* ... and a dump is loaded over a state with no key the dump lacks.        *)
CoveredByDump(base) ==
  saved # NoDump => \A k \in Key : saved.state[k] = Absent => base[k] = Absent

CarefulNext ==
  \/ \E k \in Key, v \in Content : Write(k, v)
  \/ MinesForward /\ MineBlock
  \/ DumpState
  \/ CoveredByDump(live) /\ LoadState
  \/ \E w \in Windows, number \in NumberOptions :
       CoveredByDump(Genesis) /\ CreateNode(w, number)

CarefulSpec == Init /\ [][CarefulNext]_vars

-----------------------------------------------------------------------------
(* Properties. *)

Dump ==
  [state : State, blocks : SUBSET BlockNumber, latest : BlockNumber,
   history : Seq(Record) \cup {NoHistory}, past : [BlockNumber -> State],
   served : SUBSET BlockNumber, window : Nat]

(* The type of every variable; the head is stored, and a node without       *)
(* stateHistory keeps no record at all.                                     *)
TypeOK ==
  /\ live \in State
  /\ openRecord \in Changes
  /\ sealed \in Seq(Record)
  /\ latestNumber \in storedBlocks
  /\ storedBlocks \subseteq BlockNumber
  /\ historyFloor \in BlockNumber
  /\ window \in Windows
  /\ numberOption \in NumberOptions
  /\ saved \in Dump \cup {NoDump}
  /\ past \in [BlockNumber -> State]
  /\ window = 0 => openRecord = NoChanges /\ sealed = <<>>

(* A read pinned to any block the gate lets through is answered exactly as  *)
(* when that block was the head, whatever was written, mined under the same *)
(* number, evicted, dumped and reloaded since (stateHistory's promise).     *)
ServedReadsExact ==
  \A n \in Served : \A k \in Key : HistoricalValue(n, k) = past[n][k]

(* The log holds at most one record for each block of the window, in the    *)
(* order of their numbers, none above the head: "the node holds exactly N". *)
LogBounded ==
  /\ TypeOK
  /\ Len(sealed) <= window
  /\ \A i \in DOMAIN sealed :
       latestNumber - window < sealed[i].number /\ sealed[i].number <= latestNumber
  /\ \A i, j \in DOMAIN sealed : i < j => sealed[i].number < sealed[j].number

(* A reload serves every block the node served when it was dumped, unless   *)
(* the numbering jumped or the new window is smaller ("IndexedDB            *)
(* persistence keeps the window across a reload").                          *)
ReloadKeepsWindow ==
  [][(\E w \in Windows, number \in NumberOptions : CreateNode(w, number))
       => ((saved.blocks = 0..saved.latest /\ window' >= saved.window) => saved.served \subseteq Served')]_vars
=============================================================================
