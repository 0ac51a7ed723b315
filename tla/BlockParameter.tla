---------------------------- MODULE BlockParameter ----------------------------
(***************************************************************************)
(* Which block a request is about (src/packages/webevm/src/node.ts).  Reads  *)
(* of state (balance, nonce, code, slot, call, estimate) take their block     *)
(* parameter through historicalBlock: a tag, a number, a hash, or the         *)
(* EIP-1898 object; the head, a block of the stateHistory window, or a        *)
(* refusal.  Reads of blocks, logs and fees take theirs through              *)
(* resolveBlockTag or the hash index.  A client that pins a pair of reads to  *)
(* one block relies on the two agreeing.                                     *)
(*                                                                         *)
(* The chain and its indexes are module BlockIndex; this module adds where    *)
(* the undo log starts.                                                     *)
(*                                                                         *)
(* Definitions marked FAULTY are not part of the model.                      *)
(***************************************************************************)
EXTENDS BlockIndex

CONSTANT Window   \* stateHistory.blocks; 0 when the option is absent

ASSUME WindowAssumption == Window \in Nat

VARIABLES
  historyFloor,   \* the oldest block the undo log can reconstruct
  dumpedFloor     \* the same of the history the last dump carries, or NoHistory

paramVars == <<indexVars, historyFloor, dumpedFloor>>

NoHistory == -1

-----------------------------------------------------------------------------
(* Block parameters, as parsed: what of a tag, a number and a hash is there,  *)
(* bare or in an object.  The absent parameter is a tag.                      *)

HeadTags == {"absent", "latest", "pending", "safe", "finalized"}

Bare   == [object |-> FALSE, tag |-> "", number |-> -1, hash |-> <<>>]
Object == [Bare EXCEPT !.object = TRUE]

ByTag(t)    == [Bare EXCEPT !.tag = t]
ByNumber(n) == [Bare EXCEPT !.number = n]
ByHash(h)   == [Bare EXCEPT !.hash = h]

(* Every way to name block n with hash h.                                    *)
NamesOf(n, h) ==
  {ByNumber(n), ByHash(h), [Object EXCEPT !.number = n], [Object EXCEPT !.hash = h]}

(* Hashes a client may have been told: of stored blocks, and of receipts.     *)
ToldHashes == DOMAIN blockByHash \cup {receipts[tx].blockHash : tx \in DOMAIN receipts}

Parameters ==
  LET tags    == HeadTags \cup {"earliest"}
      numbers == 0..(BlockLimit + 2)
  IN  {ByTag(t) : t \in tags} \cup {[Object EXCEPT !.tag = t] : t \in tags}
      \cup {ByNumber(n) : n \in numbers} \cup {[Object EXCEPT !.number = n] : n \in numbers}
      \cup {ByHash(h) : h \in ToldHashes} \cup {[Object EXCEPT !.hash = h] : h \in ToldHashes}
      \cup {[Object EXCEPT !.number = 0, !.hash = h] : h \in ToldHashes}
      \cup {Bare, Object}

-----------------------------------------------------------------------------
(* Answers: a block number, or an error code.                               *)

Block(n)   == [code |-> 0, number |-> n]
Refuse(e)  == [code |-> e, number |-> -1]
Invalid    == Refuse(-32602)
NotFound   == Refuse(-32000)
Historical == Refuse(-32001)  \* told apart by its message; the code is -32000

Accepts(answer) == answer.code = 0

(* resolveBlockTag: a tag or a number, the head above the head left to the    *)
(* caller.                                                                  *)
ResolveBlockTag(p) ==
  IF p.object \/ p.hash # <<>> THEN Invalid
  ELSE CASE p.tag \in HeadTags           -> Block(latestNumber)
         [] p.tag = "earliest"           -> Block(0)
         [] p.tag = "" /\ p.number >= 0  -> Block(p.number)
         [] OTHER                        -> Invalid

(* FAULTY: a hash no block has is taken for the head.                        *)
PinnedOrHead(p) ==
  IF p.hash # <<>>
  THEN IF p.number >= 0 THEN Invalid
       ELSE IF p.hash \in DOMAIN blockByHash THEN Block(blockByHash[p.hash])
       ELSE Block(latestNumber)
  ELSE CASE p.tag \in HeadTags -> Block(latestNumber)
         [] p.tag = "earliest" -> Block(0)
         [] p.tag = ""         -> IF p.number < 0 THEN Invalid
                                  ELSE IF p.number > latestNumber THEN NotFound
                                  ELSE Block(p.number)

(* pinnedBlockNumber.                                                       *)
PinnedBlockNumber(p) ==
  IF p.hash # <<>>
  THEN IF p.number >= 0 THEN Invalid
       ELSE IF p.hash \in DOMAIN blockByHash THEN Block(blockByHash[p.hash])
       ELSE NotFound
  ELSE CASE p.tag \in HeadTags -> Block(latestNumber)
         [] p.tag = "earliest" -> Block(0)
         [] p.tag = ""         -> IF p.number < 0 THEN Invalid
                                  ELSE IF p.number > latestNumber THEN NotFound
                                  ELSE Block(p.number)

(* FAULTY: one block fewer.                                                 *)
OldestServableLate ==
  IF Window = 0 THEN latestNumber
  ELSE Max({historyFloor, latestNumber - Window + 1, 0})

OldestServableBlock ==
  IF Window = 0 THEN latestNumber
  ELSE Max({historyFloor, latestNumber - Window, 0})

(* historicalBlock, with the head's number where the code answers undefined.  *)
HistoricalBlock(p) ==
  LET pinned == PinnedBlockNumber(p)
  IN  IF ~ Accepts(pinned) \/ pinned.number = latestNumber THEN pinned
      ELSE IF pinned.number < OldestServableBlock THEN Historical
      ELSE IF pinned.number \notin DOMAIN blockStore THEN NotFound
      ELSE pinned

(* eth_getBlockByNumber, or no block.                                        *)
GetBlockByNumber(p) ==
  LET n == ResolveBlockTag(p).number
  IN  IF n \in DOMAIN blockStore THEN {BlockToRpc(blockStore[n])} ELSE {}

(* eth_getLogs from and to the same parameter, or of one block hash.          *)
LogsAt(p) ==
  IF p.hash # <<>> THEN GetLogsByHash(p.hash)
  ELSE GetLogs(ResolveBlockTag(p).number, ResolveBlockTag(p).number)

-----------------------------------------------------------------------------
(* The floor of the undo log, beside the actions of the chain.               *)

KeepFloor == UNCHANGED <<historyFloor, dumpedFloor>>

(* FAULTY: the window is not clipped at the start of the log.                *)
DumpHistoryUnclipped ==
  /\ dumpedFloor' = IF Window = 0 THEN NoHistory ELSE latestNumber - Window
  /\ UNCHANGED historyFloor

(* A dump of a node with a window carries the records it holds.              *)
DumpHistory ==
  /\ dumpedFloor' = IF Window = 0 THEN NoHistory ELSE OldestServableBlock
  /\ UNCHANGED historyFloor

(* A dump from a node that keeps no history.                                 *)
DumpWithout == dumpedFloor' = NoHistory /\ UNCHANGED historyFloor

(* loadState ends with loadHistory when the dump has one.                    *)
LoadHistory ==
  /\ historyFloor' = IF Window = 0 \/ dumpedFloor = NoHistory THEN latestNumber'
                     ELSE Max({dumpedFloor, latestNumber' - Window})
  /\ UNCHANGED dumpedFloor

ParamInit == IndexInit /\ historyFloor = 0 /\ dumpedFloor = NoHistory

ParamNext ==
  \/ \E batch \in Batches, time \in Time :
       /\ Len(parentHash) <= BlockLimit
       /\ Mine(batch, time) \/ TornBatch(batch, time)
       /\ KeepFloor
  \/ \E blooms \in BOOLEAN : TakeDump(blooms) /\ (DumpHistory \/ DumpWithout)
  \/ Reload /\ LoadHistory
  \/ \E fee \in BaseFee : CreateNode(fee) /\ LoadHistory

ParamSpec == ParamInit /\ [][ParamNext]_paramVars

-----------------------------------------------------------------------------
(* The log starts at or below the head.                                      *)
ParamTypeOK ==
  /\ historyFloor \in 0..latestNumber
  /\ dumpedFloor \in {NoHistory} \cup 0..BlockLimit

(* Whatever the spelling, the requests that accept a parameter are about the   *)
(* same block: a state read, eth_getBlockByNumber or ByHash and eth_getLogs.   *)
(* The hash a parameter gives is that block's own, so a hash of a receipt      *)
(* whose block was never stored pins nothing, and every other name of the     *)
(* block is answered alike.  ("A client that pins a PAIR of reads to one       *)
(* block so they describe the same moment".)                                 *)
PinsAgree ==
  /\ ParamTypeOK
  /\ \A p \in Parameters :
       LET answer == HistoricalBlock(p)
           n      == answer.number
           h      == GetBlockHash(n)
       IN  Accepts(answer) =>
             /\ n \in DOMAIN blockStore
             /\ p.hash # <<>> => p.hash = h
             /\ \A q \in NamesOf(n, h) : HistoricalBlock(q) = answer
             /\ BlockByHash(h).number = n
             /\ ~ p.object => \A k \in 1..Len(LogsAt(p)) : LogsAt(p)[k].blockHash = h
             /\ Accepts(ResolveBlockTag(p)) => GetBlockByNumber(p) = {BlockByHash(h)}

(* A step that only adds to the chain: any but a load.                       *)
ChainGrows ==
  /\ historyFloor' = historyFloor
  /\ \/ blockStore' = blockStore
     \/ blockStore'[latestNumber'].header.parentHash = parentHash

(* What a number or a hash pins never moves while the chain grows: a block     *)
(* that was read stays readable until it leaves the window, is refused as      *)
(* history from then on, and no refusal turns into an answer from another      *)
(* block.                                                                   *)
PinsStay ==
  [][ ChainGrows =>
      \A p \in Parameters :
        p.tag = "" =>
          LET before == HistoricalBlock(p)
              after  == HistoricalBlock(p)'
              kept   == \/ before.number = latestNumber'
                        \/ before.number >= Max({historyFloor, latestNumber' - Window})
          IN  /\ Accepts(before) => after = IF kept THEN before ELSE Historical
              /\ before \in {Historical, Invalid} => after = before ]_paramVars
=============================================================================
