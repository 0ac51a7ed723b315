------------------------------ MODULE BlockIndex ------------------------------
(***************************************************************************)
(* What a node answers about its chain (src/packages/webevm/src/node.ts):    *)
(* blocks by number and by hash, receipts, logs by range and by block, the   *)
(* fee history; how mining fills those indexes, what a dump keeps of them    *)
(* and how loadState rebuilds them.  The next-state relation is that of        *)
(* BlockParameter, which adds the stateHistory window.                      *)
(*                                                                         *)
(* A hash is modelled by the content it hashes.  A header commits to no      *)
(* transaction (its transaction root is a placeholder), so neither does it.  *)
(*                                                                         *)
(* Definitions marked FAULTY are not part of the model: each is a plausible *)
(* mistake in the definition after it, kept to show that the properties     *)
(* notice the mistake.                                                      *)
(***************************************************************************)
EXTENDS Integers, Sequences, SequencesExt, FiniteSets, FiniteSetsExt

CONSTANTS
  Tx,           \* transactions, each accepted once (module TxPool)
  LogsOf,       \* how many logs each emits
  GasOf,        \* how much gas each uses
  BaseFee,      \* the base fees a node may be created with
  Time,         \* what the wall clock may read
  FeeWindow,    \* the cap on a fee history (1024)
  BatchLimit,   \* bound on the transactions of a block
  BlockLimit    \* bound on the blocks of a chain

ASSUME IndexAssumption ==
  /\ LogsOf \in [Tx -> Nat] /\ GasOf \in [Tx -> Nat]
  /\ BaseFee \subseteq Nat /\ BaseFee # {} /\ Time \subseteq Nat /\ Time # {}
  /\ {FeeWindow, BatchLimit, BlockLimit} \subseteq Nat

VARIABLES
  baseFeePerGas,  \* the node's option
  blockStore,     \* number -> [block, header]
  blockByHash,    \* hash -> number
  receipts,       \* transaction -> receipt
  allLogs,        \* the flat log index
  latestNumber,
  parentHash,     \* of the next block
  dump            \* the last dump taken

indexVars == <<baseFeePerGas, blockStore, blockByHash, receipts, allLogs,
               latestNumber, parentHash, dump>>

-----------------------------------------------------------------------------
(* What a counter has after these were added to it, one by one.               *)
Total(s) ==
  LET sum[i \in 0..Len(s)] == IF i = 0 THEN 0 ELSE sum[i - 1] + s[i]
  IN  sum[Len(s)]

(* map.set(key, value).                                                      *)
Put(map, key, value) ==
  [x \in DOMAIN map \cup {key} |-> IF x = key THEN value ELSE map[x]]

(* What is in the one map, and of the rest what is in the other.               *)
Over(new, old) ==
  [x \in DOMAIN new \cup DOMAIN old |-> IF x \in DOMAIN new THEN new[x] ELSE old[x]]

(* The hash of a block object.                                              *)
HashOf(block) == Append(block.parentHash, <<block.number, block.timestamp, block.baseFee>>)

(* The bloom of some transactions: the contracts their receipts have logs of  *)
(* (a transaction stands for the contract it has emit them).                 *)
BloomOfReceipts(found, txs) == {tx \in Range(txs) \cap DOMAIN found : found[tx].logs # <<>>}

(* What storeBlock keeps of a block: the object and the record a dump has.    *)
StoredBlock(block, txs, found) ==
  [block  |-> block,
   header |-> [number |-> block.number, hash |-> HashOf(block),
               parentHash |-> block.parentHash, timestamp |-> block.timestamp,
               baseFee |-> block.baseFee, bloom |-> BloomOfReceipts(found, txs),
               transactions |-> txs]]

(* FAULTY: counted from the last log rather than the next.                   *)
FirstLogOffByOne(batch, i) == Total([j \in 1..(i - 1) |-> LogsOf[batch[j]]]) - 1

(* blockLogs.length when transaction i of the batch has run.                 *)
FirstLog(batch, i) == Total([j \in 1..(i - 1) |-> LogsOf[batch[j]]])

LogOf(batch, i, k, number, hash) ==
  [tx |-> batch[i], blockNumber |-> number, blockHash |-> hash,
   transactionIndex |-> i - 1, logIndex |-> FirstLog(batch, i) + k - 1]

ReceiptOf(batch, i, number, hash) ==
  [blockNumber |-> number, blockHash |-> hash, transactionIndex |-> i - 1,
   gasUsed |-> GasOf[batch[i]],
   cumulativeGasUsed |-> Total([j \in 1..i |-> GasOf[batch[j]]]),
   logs |-> [k \in 1..LogsOf[batch[i]] |-> LogOf(batch, i, k, number, hash)]]

ReceiptsOf(batch, number, hash) ==
  [tx \in Range(batch) |->
     ReceiptOf(batch, CHOOSE i \in 1..Len(batch) : batch[i] = tx, number, hash)]

(* The logs of some transactions, as their receipts have them.               *)
LogsIn(found, txs) == FlattenSeq([i \in 1..Len(txs) |-> found[txs[i]].logs])

-----------------------------------------------------------------------------
(* Mining. *)

(* Without a blockEnv.number, which would fix it.                             *)
NextNumber == latestNumber + 1

NextBlock(time) ==
  [number |-> NextNumber, parentHash |-> parentHash, timestamp |-> time,
   baseFee |-> baseFeePerGas]

(* storeBlock, with the block's place in the indexes.                        *)
StoreBlock(block, txs) ==
  /\ blockStore' = Put(blockStore, block.number, StoredBlock(block, txs, receipts'))
  /\ blockByHash' = Put(blockByHash, HashOf(block), block.number)
  /\ latestNumber' = block.number
  /\ parentHash' = HashOf(block)

(* executeAndMine, when every transaction runs.                              *)
Mine(batch, time) ==
  LET block == NextBlock(time)
      found == ReceiptsOf(batch, block.number, HashOf(block))
  IN  /\ receipts' = Over(found, receipts)
      /\ allLogs' = allLogs \o LogsIn(found, batch)
      /\ StoreBlock(block, batch)
      /\ UNCHANGED <<baseFeePerGas, dump>>

(* executeAndMine, when a transaction after these is refused: their receipts *)
(* are recorded, and no block is.                                           *)
TornBatch(batch, time) ==
  LET block == NextBlock(time)
  IN  /\ batch # <<>>
      /\ receipts' = Over(ReceiptsOf(batch, block.number, HashOf(block)), receipts)
      /\ UNCHANGED <<baseFeePerGas, blockStore, blockByHash, allLogs, latestNumber,
                     parentHash, dump>>

Batches ==
  UNION {{s \in [1..n -> Tx \ DOMAIN receipts] : IsInjective(s)} : n \in 0..BatchLimit}

-----------------------------------------------------------------------------
(* Dumping and loading. *)

(* FAULTY: the blocks that ran something.                                   *)
BlocksWithTransactions ==
  {n \in 0..latestNumber : n \in DOMAIN blockStore
                           /\ (n = 0 \/ blockStore[n].header.transactions # <<>>)}

(* The numbers dumpState visits and finds.                                  *)
DumpedNumbers == {n \in 0..latestNumber : n \in DOMAIN blockStore}

(* In the order it visits them: the i-th has i - 1 before it.                *)
Ascending(numbers) ==
  [i \in 1..Cardinality(numbers) |->
     CHOOSE n \in numbers : Cardinality({m \in numbers : m < n}) = i - 1]

(* A dump written before headers had a bloom has none.                      *)
DumpState(blooms) ==
  [blocks   |-> LET ns == Ascending(DumpedNumbers)
                IN  [i \in 1..Len(ns) |->
                       IF blooms THEN blockStore[ns[i]].header
                       ELSE [blockStore[ns[i]].header EXCEPT !.bloom = {}]],
   blooms   |-> blooms,
   receipts |-> receipts]

TakeDump(blooms) ==
  /\ dump' = DumpState(blooms)
  /\ UNCHANGED <<baseFeePerGas, blockStore, blockByHash, receipts, allLogs,
                 latestNumber, parentHash>>

(* FAULTY: the header the node would build now.                             *)
RebuiltWithOption(header) ==
  [number |-> header.number, parentHash |-> header.parentHash,
   timestamp |-> header.timestamp, baseFee |-> baseFeePerGas]

(* The block object loadState rebuilds, field by field.                      *)
Rebuilt(header) ==
  [number |-> header.number, parentHash |-> header.parentHash,
   timestamp |-> header.timestamp, baseFee |-> header.baseFee]

(* FAULTY: the bloom of an old dump stays empty.                             *)
HeaderAsDumped(header) == header

(* The header loadState keeps: as dumped, or with its bloom rebuilt.          *)
LoadedHeader(header) ==
  IF dump.blooms THEN header
  ELSE [header EXCEPT !.bloom = BloomOfReceipts(dump.receipts, header.transactions)]

RebuiltLogs(headers) ==
  FlattenSeq([i \in 1..Len(headers) |-> LogsIn(dump.receipts, headers[i].transactions)])

(* loadState's half of the index: everything is cleared and rebuilt from the *)
(* dump.                                                                    *)
LoadState ==
  LET headers == dump.blocks
      AtNumber(n) == CHOOSE i \in 1..Len(headers) : headers[i].number = n
  IN  /\ headers # <<>>
      /\ receipts' = dump.receipts
      /\ blockStore' = [n \in {headers[i].number : i \in 1..Len(headers)} |->
                          [block |-> Rebuilt(headers[AtNumber(n)]),
                           header |-> LoadedHeader(headers[AtNumber(n)])]]
      /\ blockByHash' = [h \in {headers[i].hash : i \in 1..Len(headers)} |->
                           headers[CHOOSE i \in 1..Len(headers) : headers[i].hash = h].number]
      /\ allLogs' = RebuiltLogs(headers)
      /\ latestNumber' = Last(headers).number
      /\ parentHash' = HashOf(Rebuilt(Last(headers)))
      /\ UNCHANGED dump

(* loadState on a running node, and in the construction of another one with  *)
(* another base fee.                                                        *)
Reload == LoadState /\ UNCHANGED baseFeePerGas

CreateNode(fee) == LoadState /\ baseFeePerGas' = fee

-----------------------------------------------------------------------------
Genesis(fee, time) ==
  [number |-> 0, parentHash |-> <<>>, timestamp |-> time, baseFee |-> fee]

IndexInit ==
  \E fee \in BaseFee, time \in Time :
    LET genesis == Genesis(fee, time)
    IN  /\ baseFeePerGas = fee
        /\ blockStore = [n \in {0} |-> StoredBlock(genesis, <<>>, <<>>)]
        /\ blockByHash = [h \in {HashOf(genesis)} |-> 0]
        /\ receipts = <<>>
        /\ allLogs = <<>>
        /\ latestNumber = 0
        /\ parentHash = HashOf(genesis)
        /\ dump = [blocks |-> <<>>, blooms |-> TRUE, receipts |-> <<>>]

-----------------------------------------------------------------------------
(* What the node answers. *)

InRange(log, from, to) == from <= log.blockNumber /\ log.blockNumber <= to

(* eth_getLogs over a range, and of the block with a hash (EIP-234).          *)
GetLogs(from, to) ==
  FlattenSeq([i \in 1..Len(allLogs) |->
    IF InRange(allLogs[i], from, to) THEN <<allLogs[i]>> ELSE <<>>])

GetLogsByHash(hash) == GetLogs(blockByHash[hash], blockByHash[hash])

(* logToRpc refuses a log whose block the node lacks.                        *)
Refuses(log) == log.blockNumber \notin DOMAIN blockStore

(* A log as served: with the timestamp of the block its number names.         *)
LogToRpc(log) ==
  Put(log, "blockTimestamp", blockStore[log.blockNumber].header.timestamp)

(* A block is served from its header alone, never from the block object.      *)
BlockToRpc(sb) == sb.header

(* eth_getBlockByHash.                                                      *)
BlockByHash(hash) == BlockToRpc(blockStore[blockByHash[hash]])

(* The hash the supplied engine and mockBlockchain give for BLOCKHASH.        *)
GetBlockHash(n) == blockStore[n].header.hash

MockBlockHash(n) ==
  HashOf(blockStore[IF n \in DOMAIN blockStore THEN n ELSE latestNumber].block)

(* FAULTY: the fee of the block after the head is the head's.                *)
FeeOfHead(n) ==
  blockStore[IF n \in DOMAIN blockStore THEN n ELSE latestNumber].header.baseFee

(* eth_feeHistory: one fee per block of the window and one for the block      *)
(* after it, and the gas each used.                                         *)
NextBaseFee(n) ==
  IF n \in DOMAIN blockStore THEN blockStore[n].header.baseFee ELSE baseFeePerGas

GasUsed(n) ==
  LET txs == blockStore[n].header.transactions
  IN  Total([i \in 1..Len(txs) |-> receipts[txs[i]].gasUsed])

FeeHistory(requested, newest) ==
  LET count == Min({requested, FeeWindow, newest + 1})
      oldest == newest - count + 1
  IN  [oldest |-> oldest,
       fees   |-> IF count = 0 THEN <<>>
                  ELSE [i \in 1..(count + 1) |-> NextBaseFee(oldest + i - 1)],
       used   |-> [i \in 1..count |-> GasUsed(oldest + i - 1)]]

-----------------------------------------------------------------------------
Log ==
  [tx : Tx, blockNumber : Nat, blockHash : Seq(Nat \X Nat \X Nat),
   transactionIndex : Nat, logIndex : Nat]

(* The kinds of the variables; the head is a stored block.                    *)
IndexTypeOK ==
  /\ baseFeePerGas \in BaseFee
  /\ latestNumber \in DOMAIN blockStore
  /\ DOMAIN blockStore \subseteq Nat
  /\ DOMAIN receipts \subseteq Tx
  /\ \A tx \in DOMAIN receipts : receipts[tx].logs \in Seq(Log)
  /\ allLogs \in Seq(Log)

(* Block numbers, hashes and parents agree: every number up to the head has   *)
(* one block, its hash leads back to it, hashes its content as rebuilt, and   *)
(* BLOCKHASH of either engine gives each block the parent its header names.   *)
(* The next block's parent is the head ("a reloaded chain names a parent no   *)
(* lookup resolves" otherwise), across reloads under other options.          *)
ChainLinked ==
  /\ DOMAIN blockStore = 0..latestNumber
  /\ parentHash = GetBlockHash(latestNumber)
  /\ \A n \in 0..latestNumber :
       LET sb == blockStore[n]
       IN  /\ sb.header.number = n
           /\ sb.header.hash = HashOf(sb.block)
           /\ sb.header.hash \in DOMAIN blockByHash
           /\ BlockByHash(sb.header.hash) = sb.header
           /\ n > 0 => /\ sb.header.parentHash = GetBlockHash(n - 1)
                       /\ sb.header.parentHash = MockBlockHash(n - 1)

(* eth_getLogs over any range gives exactly the logs the receipts of those    *)
(* blocks hold, block by block in the order they ran, each naming the block   *)
(* that has it, numbered through the block and served with its timestamp;     *)
(* and a client that tests the bloom of a block's header before it asks for   *)
(* the block's logs misses none, whatever dump the header came from.          *)
LogsAreReceipts ==
  \A from \in 0..latestNumber, to \in 0..latestNumber :
    /\ GetLogs(from, to) =
         FlattenSeq([i \in 1..(to - from + 1) |->
           LogsIn(receipts, blockStore[from + i - 1].header.transactions)])
    /\ from = to =>
         \A k \in 1..Len(GetLogs(from, to)) :
           LET log == GetLogs(from, to)[k]
           IN  /\ log.logIndex = k - 1
               /\ log.blockHash = GetBlockHash(from)
               /\ blockStore[from].header.transactions[log.transactionIndex + 1] = log.tx
               /\ GetLogsByHash(log.blockHash) = GetLogs(from, to)
               /\ LogToRpc(log).blockTimestamp = BlockByHash(log.blockHash).timestamp
               /\ log.tx \in BlockByHash(log.blockHash).bloom

(* The chain and its indexes tell one story.                                *)
ChainConsistent == IndexTypeOK /\ ChainLinked /\ LogsAreReceipts

(* What the fee history said of a block before it was mined, or of one long    *)
(* mined, is what that block has: every window, up to a block mined on the    *)
(* head the client saw.  The gas of each block is what its last receipt       *)
(* has accumulated.                                                         *)
FeesForetold ==
  [][ blockStore'[latestNumber'].header.parentHash = parentHash =>
      \A newest \in 0..latestNumber, requested \in 0..(BlockLimit + 1) :
        LET told == FeeHistory(requested, newest)
            n(i) == told.oldest + i - 1
        IN  /\ \A i \in 1..Len(told.fees) :
                 told.fees[i] = blockStore'[n(i)].header.baseFee
            /\ \A i \in 1..Len(told.used) :
                 LET txs == blockStore'[n(i)].header.transactions
                 IN  told.used[i] =
                       IF txs = <<>> THEN 0
                       ELSE receipts'[Last(txs)].cumulativeGasUsed ]_indexVars

(* A dump of the present chain, with the blooms or from before, loaded here or  *)
(* in another node under another fee, changes nothing the node answers of its   *)
(* chain, torn receipts and the order of the logs included.                   *)
ReloadKeepsReads ==
  [][ LoadState /\ dump \in {DumpState(TRUE), DumpState(FALSE)} =>
        UNCHANGED <<blockStore, blockByHash, receipts, allLogs, latestNumber,
                    parentHash>> ]_indexVars
=============================================================================
