# A TLA+ model of webevm

webevm is an execution-only Ethereum node that runs in a page: an EIP-1193
provider over a flat, in-memory world state, with no trie by default, no
mempool and no network. This directory models where state, ordering and failure
meet in it, checks the models with TLC on small instances, and proves the
central results with TLAPS. Paths below are relative to the repository;
file names without a directory are in `packages/webevm/src/`.

## The system

| Component | State | Operations | Interacts with |
|---|---|---|---|
| Overlay state manager (`state-manager.ts`) | stacks of account maps, code maps and storage overlays, one frame per checkpoint | put/get/delete account, put code, put/clear storage, checkpoint, commit, revert | every engine and every RPC read or cheat works on the one instance |
| Change set (`state-manager.ts`) | one record of prior values per level | record a prior at each write, merge on commit, drop on revert, take, suspend for a pure read | written by the state manager, taken by mining, peeked by reads, dumps and the derived trie |
| Bounded state history (`node.ts`) | `sealed`, `historyFloor`, the open record | seal, evict, read at a block, dump, restore | change set, block numbering, dump/load |
| Request queue, mining, timer (`node.ts`) | a promise chain, `pending`, `minePending` | queue a job, run it, answer; submit, mine; fire, clear | every public entry point, engine, history, persistence |
| Historical and overridden reads (`node.ts`, `withStateEntries`) | a level of its own | enter, apply entries, run, revert | state manager, history, engine |
| Block parameter (`node.ts`, `historicalBlock`, `resolveBlockTag`) | none of its own | resolve a tag, number, hash or object | index, history |
| Block, receipt and log index (`node.ts`) | `blockStore`, `blockByHash`, `transactions`, `receipts`, `allLogs` | store, look up, rebuild on load | mining, dump/load |
| Dump and load (`node.ts`) | a dump | write, overlay on a state | state manager, code map, history, index |
| Gas estimation (`node.ts`) | bounds of a search | probe, bracket, bisect | engine, intrinsic gas |
| Transaction filling, fees (`node.ts`) | none of its own | fill fields, fee history, gas price | estimate, pool, index |
| Sender recovery and the pool (`sender-recovery.ts`, `node.ts`) | `pending` | recover or believe a sender, refuse, queue, tell a nonce | engine, mining |
| Intrinsic gas (`intrinsic-gas.ts`) | none | a formula | estimate, revm engine, submit |
| Default engine (`engine.ts`) | none of its own | call, transact | state manager |
| revm engine (`revm.ts`) | its binding | create, connect, bind, call, transact | createNode, revm-wasm |
| revm state store (`revm-state-store.ts`) | code by hash, hashes found absent | the callbacks of revm-wasm | state manager |
| Derived trie (`derived-trie.ts`) | a Merkle-Patricia trie | build, apply an open record | state manager, change set |
| Storage keys (`storage-keys.ts`) | none | pack, pad, unpack | state manager, store, dump |
| Persistence adapters (`persistence.ts`) | a connection, one record | load, save | createNode, request queue |
| Worker host and client (`worker-*.ts`) | subscriptions, a disposed flag | create, forward calls and callbacks, serve a port, dispose | the node, comlink |

What is hard about it:

- **One checkpoint stack without owners.** `commit` and `revert` act on whatever
  level is on top. Two interleaved executions would lose or tear state, so every
  public call is queued on one promise chain (`docs/adr/0012-...md`).
- **The newer value wins in the state, the older prior in the record.** A commit
  merges a level's overlay and its change set in opposite directions, and clears
  and tombstones have to fit into both.
- **Reads in the past are reconstructed** from sealed records, an open one and
  the live state, key by key (point reads) or all at once as an override
  (calls). Replaced blocks, torn batches, cheats, eviction and reloads all have to
  leave the answer alone.
- **Derived data.** The code index, the trie, the hash index and the log list are
  functions of other state that are kept or rebuilt, never checked.
- **Two engines for one seam**, with different validation, accounting and order of writes.
- **A crash may come at any await**, and a fresh node starts from the last save,
  which IndexedDB may complete, fail or abort.
- **Failures halfway**: a batch whose third transaction is refused, a callback
  that throws after the block is stored, an override that throws half written,
  a construction that fails after it took its engine.
- **Two threads**: calls, callbacks and a handle cross on ports ordered only each by itself.

`PROJECT.json` lists every hazard with its line and the properties about it.

## The modules

```
CheckpointedState  <== OverlayState --+-- DerivedTrie    (MCDerivedTrie)
                                      +-- HistoricalCall (MCHistoricalCall)
                                      +-- RevmStore
                                      +-- DumpLoad       (MCDumpLoad, with StorageKeys)
AtomicNode         <== NodeService                       (MCNodeService)
StateHistory                                             (MCStateHistory)
BlockIndex ------- BlockParameter                        (MCBlockParameter)
IntrinsicGas ----- GasEstimate --+
                   TxPool -------+-- Sending             (MCSending)
                   FillTransaction
EngineBringUp ---- Engines                               (MCEngines)
EngineSeam -------+
Persistence, WorkerNode

OverlayStateProofs -- DerivedDataProofs   StateHistoryProofs   NodeServiceProofs
StoredDataProofs   SendingProofs   EngineProofs   WorkerNodeProofs
```

`<==` is a refinement, `--` is EXTENDS or INSTANCE. A module that works on the
state manager extends `OverlayState` and adds its own actions to `FlatStep`, so
that its properties hold over every interleaving with the manager's operations.
Modules that are composed name what they define after themselves (`PoolInit`,
`KeyNext`, `indexVars`), the others have plain `Init`, `Next` and `Spec`.

### `CheckpointedState` and `OverlayState`: the state manager

`CheckpointedState` is the promise: a stack of complete world states, pushed by
a checkpoint, and a baseline which is the state when the record was last taken.
`OverlayState` is the code: `accountStack`, `codeStack` and `storageOverlays` are
the three stacks, `changeLevels` the change set. An overlay holds the writes of one
level only, with a tombstone under a cleared account; a storage read walks down
until it meets a write or a tombstone. Every mutating method of
`OverlayStorageStateManager` is an action, the edit of an account object in place
included, and entering and leaving a suspended pure read. A packed key is
an element of `Address` or `Slot` (`StorageKeys` justifies it); an account is
its `Fields` and its code hash, which the code stands for.

- `ImplementsCheckpointedState`: the refinement. The state of each abstract level
  is what a walk from that level reads; the baseline is the live state undone by
  all open records.
- `LevelRecordsUndo`: undoing the record of ANY open level gives the state of
  the level below, which is what makes a later commit's merge right.
- `NoBottomTombstones`: nothing leaves a tombstone in the bottom overlay, which
  nothing would ever remove (`state-manager.ts:884`).

### `DerivedTrie`: the state root

`trie` is what the Merkle-Patricia trie maps; two tries have one root exactly
when they map the same, so the root is the map. `GetStateRoot` builds once and
then applies the open record by rereading the keys it names (`currentStateRoot`);
`MineBlock` takes the record; `Rebuild` is a load. `RootFollowsState`:
at any moment, applying what the open record names turns the trie into the one a build
from scratch gives, so every root given is the state's.

### `StateHistory`: the undo log of `NodeOptions.stateHistory`

A key stands for an account, a code entry or a slot, and `openRecord` for the
change set at the bottom level. `live` is the committed state, `sealed`,
`latestNumber` and `historyFloor` the node's variables of those names, `window`
and `numberOption` the options `stateHistory.blocks` and `blockEnv.number`.
`past` is a history variable: the state each stored block ended in.
`CarefulSpec` is what the code leaves to whoever runs the node: blocks are mined
at or above the head and above where the history starts, and a dump is loaded
over a state with no key the dump lacks. `ServedReadsExact` (any read the gate
lets through is what that block ended in), `LogBounded`, `ReloadKeepsWindow`.

### `HistoricalCall`: calls at a block and with overrides

A request pinned to a past block opens a checkpoint on `OverlayState`, writes the
entries of `historicalEntries` address by address and write by write
(`TakeEntry`, `WriteEntry`), then those of the override, runs the
engine once (call) or many times (estimate), and reverts; the read may throw. `CallReadsPast`: every run sees the state of the block with the
overrides on top. `NoTrace`: the request leaves the stack, the state and the open
record as they were. An address the block had no account for is carved out of
`CallReadsPast`: its leftover storage and code are not part of what the entries
restore (see "Where code and text part").

### `RevmStore`: the code index

The store's reads (`getAccount`, `getCode`, `getStorage`) and its commit callbacks
on `OverlayState`, with the index of codes by hash, the codes of the current
execution and the hashes known absent. A commit goes through the accounts it
changed in any order, and for each of them through revm-wasm's callbacks in theirs, one
write to the manager per step. `CodeFound`: a hash an account
carries is resolved to its code, whatever was cheated, committed or reverted since it
was last indexed. `CodeOfEveryAccount`: the node keeps, under every account's own address,
the code its hash names. `CommitExact`: a commit leaves exactly what it changed,
whatever the order, and every account it did not name as it was.

### `DumpLoad` and `StorageKeys`: dumps of the flat state

`DumpLoad` writes accounts, code and storage as `dumpState` does and overlays them
on a genesis as `loadState` does. `ReloadKeepsAddress`: an address that owns the
code under its name and kept its genesis comes back exactly; `ReloadKeepsRoot`, which
asks it of every address, is violated (run `DumpDestroyed`). `StorageKeys` has the
packing of bytes two by two, the padding of the asynchronous path, the exact width of the
synchronous one, and the unpacking of a dump: `ReadsAgree` says that a value
written on any path is read on every other.

### `AtomicNode` and `NodeService`: the queue, mining, timer and saves

`AtomicNode` is the promise of ADR 0012: each call is served in one step, in
order, against a settled state. `NodeService` is the node, one action for each
stretch of a job between two awaits, with `Crash` between any two of them. The
world state is the nonce of each sender, the datum that decides whether a
transaction may run and the one a lost execution corrupts. The way of mining is an
option drawn at the start, each with clients of its own. The refinement maps a
running job back to the settled state it started from (`before`, a history variable)
with the job still first in line; a save is visible with its job, or in a crash after it.
`ImplementsAtomicNode`; `RepliedIsDurable` (a block that `mine()` returned is saved, and
under auto mining the transaction of every send that was answered); `EveryCallSettles`
and `IntervalMiningGoesOn` (liveness).

### `Persistence`: what decides whether a save lands

The IndexedDB connection as one promise, the transactions and the ways the
browser ends them (completed, failed, aborted as they commit, cut by a reload),
the memory adapter, and chains that share a record. `RepliedSurvives`,
`NeverBehindRecord`, and `QueuedIsServed` (liveness), which excepts a
transaction that aborts as it commits: `save` does not listen for `abort`.

### `BlockIndex` and `BlockParameter`: the chain that is told

Blocks by number and hash, receipts, logs and fees; what mining, a torn batch, a
dump and a reload do to them. A hash is the content it hashes; a loop over blocks
or logs is a sequence flattened, a running count a recursive function (`Total`). `ChainLinked`,
`LogsAreReceipts` (both in `ChainConsistent`), `ReloadKeepsReads`, `FeesForetold` (the extra fee at the end
of a fee history is the next block's). `BlockParameter` adds the window and both
resolvers: `PinsAgree` (a number, a hash, an object name the same block in both
kinds of read), `PinsStay` (a pin is never about another block later).

### `IntrinsicGas`, `GasEstimate`, `TxPool`, `FillTransaction`, `Sending`: sending

`GasEstimate` runs the search against every contract behaviour a table can have,
monotone or not, on both engines: `WindowBrackets`, `AnswerExact` (the least limit, at
no more than the promised runs), and `RecommendedLimitMines`, which goes through the send. `TxPool`
goes from a raw transaction, with what it must cover and what it then costs, to its
block: `SenderAuthentic`, `NoReplay`,
`PendingNonceRuns` (who always sends the nonce told is not refused for it).
`FillTransaction`: `FilledRuns`, what is filled in, signed and sent fails for
nothing but the money. `Sending` puts the three side by side.

### `EngineSeam`, `EngineBringUp`, `Engines`: the two engines

`EngineSeam` puts each request to both wrappers, each on a ledger of its own:
`EnginesAgree` (one answer, one state), `LedgersAsAnswered` (a sender pays what the
receipt says, a read moves nothing). `EngineBringUp` interleaves `createNode` calls:
`EnginesInOrder` is that a node has its engine to itself, that a bad option costs no
engine, and that a fork is run only if the node computes its gas right. `Engines`
lets the second lead to the first: two nodes come up, then their engines are compared.

### `WorkerNode`: a node in a Worker

Creation with every kind of `createEngine`, refused or rejected in the worker, requests,
subscriptions, a served port and disposal over channels ordered only each by itself.
`from` and `until` (history variables) are the head when the node took a subscription and
when it let it go: `HeadsAllHeard` is that the subscriber is told exactly the blocks between
the two, that a confirmed one is held until it unsubscribes or the node is disposed of, and
that an unsubscribe is taken by the node or on its way to it. `ErrorsArriveWhole`
(codes survive the crossing); `CreationSettles` and `AcceptedSettles` (liveness).

### Type invariants

Each module has a `TypeOK` (`TrieTypeOK`, `CallTypeOK`, `StoreTypeOK`, `DumpTypeOK`,
`IndexTypeOK`, `ParamTypeOK`, `KeyTypeOK`, `PoolTypeOK` where it extends or joins another's). The
runs check it as the first conjunct of one of the module's properties. Those of `OverlayState`,
`StateHistory`, `GasEstimate` and `StorageKeys` are theorems as well; the others are proved
inside the properties they are conjuncts of, or in the invariants of their proof modules.

### Definitions marked FAULTY

Each is a plausible mistake in the definition after it. They are not used by any
specification; substituting one for its neighbour breaks a property, as
`PROJECT.json` lists under "mutants".

## The runs

| Run | Instance | Shows |
|---|---|---|
| `FlatState` | 1 address, 1 slot, 2 codes, 2 levels; a root between blocks only while nothing has code (`asked`), at block ends always | the manager is a stack of complete states, its records undo, the root is that of the whole state |
| `HistoricalCall` | 1 address, 1 slot, 2 fields, 3 levels, an override of each kind, an empty genesis or a contract; 1 block in full, 2 blocks with plain accounts and no override (`LongChainsPlain`) | calls see the past and leave no trace |
| `StoreShared` | 2 addresses, 2 codes, 1 slot, 2 levels | the code index, every order of a commit |
| `DumpReload` | 1 address, genesis or none; keys of 2 bytes written with 0 to 3 | reloads, and every spelling of a key |
| `DumpDestroyed` | the same state | VIOLATION of `ReloadKeepsRoot` |
| `HistoryReload` | 1 key, windows 0, 1, 2, a fixed or free number, numbers to 4 | reads in the past, log size, reload |
| `NodeService` | auto: 1 sender, 4 calls; manual: 2 senders, 5 calls; interval: 3 calls and the timer; persistence | atomicity, durability, liveness |
| `Persistence` | 3 requests, 2 mine, 2 chains, both adapters, 3 lives | what a crash leaves, every request answered |
| `BlockIndex` | 2 transactions (0 and 2 logs), batches to 2, 3 blocks, window 2, base fees 7 and 8 | indexes, reloads, pins |
| `Sending` | a block of 10 gas, every set of sufficient limits; 2 accounts, all kinds of signatures; fees 1 and 3 | estimate, pool, filled fields |
| `Engines` | 2 constructions; then 2 people, 2 contracts, 2 transactions | bring-up, then one behaviour of two engines |
| `WorkerCrossing` | 1 subscription, 2 requests, a served port, 2 blocks | the port crossings |

Three runs combine modules. In `Sending` and `DumpReload` the parts share no
state, so a behaviour moves one of them and leaves the others as they began;
nothing is lost by not interleaving them. In `Engines` they follow one another:
the engines are put to work only after two nodes of one chain came up on them.

Why the bounds are enough to meet the interesting cases. State manager: a merge
involves two adjacent levels and the walk below them, and a third level is in
`HistoricalCall`; the theorems below are for every depth. History: every operator works
key by key, so one key loses nothing, and the theorems are for every set of keys, of
windows and of numbers; numbers up to 4 exceed the largest window
by two, so records are evicted, and a fixed number 3 is reached by replacement,
by a jump and after a reload. Service: the calls of a run can queue in any order,
the nonces are such that some order makes each of them refused, and a crash can hit each
step; the refinement is proved for any senders, calls and bounds. Store: two accounts are the fewest
that can share a code, and a commit of any number of them is proved. Index: three blocks and a window of two put one block
below the window; the theorems are for every chain, batch and window. Estimate:
ten units leave room for a bracket, two probes over it and the bisection's end, and
the proofs are for every price. Persistence: three lives let a node start
from what another chain overwrote. `MaxDepth`, `MaxNumber`, `MaxLives`,
`MaxHeads`, `MaxTransactions`, `BlockLimit`, `BatchLimit`, `QueueLimit`,
`NonceLimit`, `MaxQueue`, `MaxNonce` and `MaxFilled` are the bounds in guards (the
code has none of them); `Nonces` bounds what calls and cheats write.

`CHECK_DEADLOCK FALSE` is in the runs whose behaviours end: chains at their
bound, transactions all sent, a worker or a node disposed of.

**Fairness.** `NodeService`: weak fairness of a job's next step and of the timer.
The event loop runs every continuation whose promise has settled; that
the engine's and the save hook's promises settle is assumed (a hook that awaits
its own node never does: `types.ts:44`). `setInterval` keeps firing until it is
cleared. `WorkerNode`: every message on a port is delivered and every job ends.
`Persistence`: the database is opened or refuses, a transaction completes or fails, a
load ends, a job goes on. No fairness of clients, failures, closings or crashes.

## Where code and text part

The run `DumpDestroyed` is the one told under "findings": a destroyed account's
code stays in the code map, is dumped, and `putCode` makes it an account again on
reload, so the root changes. The others were met while modelling; each is an
assumption of a specification or an exception in a property, named there:

- `loadState` overlays the dump on the live state, where its doc says it "replaces
  current state" (`CoveredByDump`).
- `loadHistory` takes the block before the oldest record for the floor, which is
  wrong if that record's block replaced a head loaded without history (`MinesForward`).
- Only `mine()`, and a send under auto mining, save before they reply: a sync send under manual
  or interval mining, and every block the timer mines, is not saved (`RepliedIsDurable`).
- Under a fixed `blockEnv.number` the hash of a replaced block resolves to the
  block in its place; the index is modelled without that option.
- A torn batch leaves receipts of a block that does not exist (`TornBatch`).
- A call at a block misses the storage and code of an address without an account then.
- The pending nonce counts a sender's queue as a set, mining goes through it in
  order: a client that sends a later nonce first is refused when mined (`told`).
- A fill whose tip is above the given price throws (`FillTransaction`, `last`).
- A transaction aborted as it commits leaves its save, and the queue, waiting (`Aborts`).
- An unsubscribe issued before the host confirmed does nothing, and the subscriber goes on
  hearing (`Unsubscribe`); disposing of a worker drops what its node had queued.
- An engine given to a second node has its chain id set before `bind` refuses it, and a
  failed construction keeps the engine it took.

## What is proved

For every value of the constants, from the named assumptions: every property the
passing runs check except the five of liveness. `DerivedDataProofs` holds the proofs of the four
modules built on the state manager (`DerivedTrie`, `RevmStore`, `DumpLoad`, `HistoricalCall`),
`StoredDataProofs` those of `Persistence`, `StorageKeys`, `BlockIndex` and `BlockParameter`.

| Theorem | Module | Statement | From |
|---|---|---|---|
| `TypeCorrect` | `OverlayStateProofs` | `Spec => []TypeOK` | `OverlayAssumption` |
| `BottomTombstonesPruned` | `OverlayStateProofs` | `Spec => []NoBottomTombstones` | |
| `RecordsExact` | `OverlayStateProofs` | `Spec => []LevelRecordsUndo` | |
| `OverlayRefinesCheckpointed` | `OverlayStateProofs` | `Spec => ImplementsCheckpointedState` | |
| `RootAlwaysFollows` | `DerivedDataProofs` | `TrieSpec => []RootFollowsState` | |
| `CodeAlwaysFound` | `DerivedDataProofs` | `StoreSpec => []CodeFound` | |
| `EveryAccountKeepsCode` | `DerivedDataProofs` | `StoreSpec => []CodeOfEveryAccount` | |
| `CommitsExact` | `DerivedDataProofs` | `StoreSpec => []CommitExact` | |
| `CallsReadPast` | `DerivedDataProofs` | `CallSpec => []CallReadsPast` | also `OverrideAssumption` |
| `CallsLeaveNoTrace` | `DerivedDataProofs` | `CallSpec => []NoTrace` | also `OverrideAssumption` |
| `ReloadsKeepAddresses` | `DerivedDataProofs` | `DumpSpec => ReloadKeepsAddress` | |
| `HistoryTypeCorrect` | `StateHistoryProofs` | `CarefulSpec => []TypeOK` | `HistoryAssumption` |
| `PastReadsExact` | `StateHistoryProofs` | `CarefulSpec => []ServedReadsExact` | |
| `LogAlwaysBounded` | `StateHistoryProofs` | `CarefulSpec => []LogBounded` | |
| `ReloadsKeepWindow` | `StateHistoryProofs` | `CarefulSpec => ReloadKeepsWindow` | |
| `ServiceIsAtomic` | `NodeServiceProofs` | `Spec => ImplementsAtomicNode` | `ServiceAssumption` |
| `RepliesDurable` | `NodeServiceProofs` | `Spec => []RepliedIsDurable` | also `Persistent` |
| `RepliesSurvive` | `StoredDataProofs` | `Spec => []RepliedSurvives` | `PersistenceAssumption` |
| `NodesNeverBehind` | `StoredDataProofs` | `Spec => []NeverBehindRecord` | |
| `PackingInjective` | `StoredDataProofs` | for keys `k`, `l`: `Packed(k) = Packed(l)` only if `k = l` | `KeyAssumption` |
| `KeysWellFormed` | `StoredDataProofs` | `KeySpec => []KeyTypeOK` | |
| `KeysAgreed` | `StoredDataProofs` | `KeySpec => []ReadsAgree` | |
| `ChainAlwaysConsistent` | `StoredDataProofs` | `ParamSpec => []ChainConsistent` | `IndexAssumption`, `WindowAssumption` |
| `ReloadsKeepReads` | `StoredDataProofs` | `ParamSpec => ReloadKeepsReads` | |
| `FeesAreForetold` | `StoredDataProofs` | `ParamSpec => FeesForetold` | |
| `PinsAlwaysAgree` | `StoredDataProofs` | `ParamSpec => []PinsAgree` | |
| `PinsStayPut` | `StoredDataProofs` | `ParamSpec => PinsStay` | |
| `EstimateTypeCorrect` | `SendingProofs` | `Spec => []TypeOK` | `PriceAssumption`, `EstimateAssumption` |
| `WindowAlwaysBrackets` | `SendingProofs` | `Spec => []WindowBrackets` | |
| `RecommendationsMine` | `SendingProofs` | `Spec => []RecommendedLimitMines` | |
| `AnswersExact` | `SendingProofs` | `Spec => []AnswerExact` | |
| `NothingRunsTwice` | `SendingProofs` | `PoolSpec => []NoReplay` | `PoolAssumption` |
| `SendersAreAuthentic` | `SendingProofs` | `PoolSpec => []SenderAuthentic` | |
| `NoncesToldRun` | `SendingProofs` | `PoolSpec => []PendingNonceRuns` | |
| `FilledTransactionsRun` | `SendingProofs` | `F!Spec => []FilledRuns` | `FillAssumption` |
| `EnginesAlwaysAgree` | `EngineProofs` | `Spec => []EnginesAgree` | `SeamAssumption` |
| `AnswersSayWhatMoved` | `EngineProofs` | `Spec => LedgersAsAnswered` | |
| `EnginesGoInOrder` | `EngineProofs` | `B!Spec => []EnginesInOrder` | `BringUpAssumption` |
| `HeadsReachSubscribers` | `WorkerNodeProofs` | `Spec => []HeadsAllHeard` | `WorkerAssumption`, `NoneAssumption` |
| `ErrorsCrossWhole` | `WorkerNodeProofs` | `Spec => []ErrorsArriveWhole` | |

The arguments. *State manager*: `TypeOK` and `NoBottomTombstones` are inductive as
stated, once the walk of a read is characterised: `OverlayStateProofs` shows that
the greatest level where a walk stops exists, and how it moves when a level is
pushed, popped or merged. `LevelRecordsUndo` needs both, and one fact for each
operation: a write records the prior only if the level has none, a clear records
exactly the slots it hides, a merge keeps the older prior. The refinement
follows: a step changes the state read at one level only, pushes or pops one,
and leaves the baseline alone because the records still undo to it.

*Trie*: `RootFollowsState` is not inductive, because it speaks of what the open record
names and a revert takes names away. `TrieInv` has instead that what the open record
does not name is in the tries as it is in the state, that the records of the levels
above undo exactly (`LevelRecordsUndo`, so a revert goes back to a state whose names
suffice), and that a cleared slot no record names was empty. A write only adds
names, a merge keeps those of both levels, and taking the record comes after applying it.

*Store*: between executions every level keeps an account's code under its address
(`LevelsSynced`), which no single callback preserves: the code map is written before
the account. `CommitInv` therefore says, for the account at hand, what each
of its callbacks finds (`AtHand`), and for the others that they are as found or
done (`Others`); a callback for one account leaves those of the others
alone, which is why the order does not matter. `AbsentIsAbsent`, no live code is in
the list of absent hashes while a transaction runs, gives `CodeFound`.

*Dump*: `ReloadKeepsAddress` compares the state after a load with a state that may be long
gone. `DumpInv` says that the dump is the state it was taken of, and that a code the
genesis has under an address is in the state for good, or another in its place (`CodeStays`: no
operation takes a code away). So where the dump names no code, neither did the genesis it is
laid over, and what is left is the order of the writes of `loadState` for one address.

*Past reads*: that the entries give the block back needs three facts of the records,
which `RecordsLinked` states and every write and every block keeps: each record undoes
the state its block ended in to the one before, it names no code without the account
(an entry with a code alone would create one), and a slot of an account it cleared but
does not name was empty. Of a chain of such records the earliest to name a key has its
value before all of them (`EarliestExact`, by the least counterexample in place of an
induction). What an entry says is a function of what an address holds (`After`); while
the entries are written, what is held and what is still to be said come to the same
(`EntriesEnd`), one lemma for each write of `applyStateEntry`. The state and the record
at the bottom are those the request began with (`before` in `Open`): a level above them records
nothing while recording is suspended, and is dropped whatever happened.

*History*: `IInv` adds to `ServedReadsExact` that the log's numbers increase to the
head and lie above the floor (`LogShape`), that the open record undoes the live state
to what the head ended in (`HeadExact`), and the same of a saved log over its saved
state (`SavedExact`). A read at `n` takes the first record after `n` that has the key;
sealing appends what `HeadExact` makes right, evicting drops only records
that no served read reaches. `CoverInv` adds that the log is without a gap while no
number was skipped, which is what a reload must have for its window. The theorems are of
`CarefulSpec`; the section on `StateHistory` above names what it excludes.

*Service*: `ServiceInv` says for each step what the running job has done to the
settled state `before`: nothing yet, the first `done` transactions of its batch,
all of it, or all and told (`StepInv`), and that the timer has one block asked for at a time
(`TimerInv`). A crash or an end is then the one abstract step of the job, everything
else a stutter. `RepliedIsDurable` follows for a node with persistence: the save comes
before the reply of the jobs that save (`Saves`), which are those the property speaks of.

*Persistence*: `PersistInv` adds to the two properties what a job about to save or
end knows (`Working`): its block is in the chain, or in the record.

*Estimate*: `RecommendedLimitMines` is not inductive; `SearchInv` adds what
each stage of the search has established of its bounds (`Stage`) to the type and the
bracket: the lower end failed or is below what is charged before any code runs, the
upper end was run and worked. `ExactInv` adds the count of runs at each stage and that
an answer is the least limit when success is monotone; the last step goes from
"fails below, works here" to "fails everywhere below" by the least counterexample.

*Pool*: `PoolInv` adds to `NoReplay` and `SenderAuthentic` that auto mining leaves no queue, and
that as long as every sender used the nonce it was told (`told`), the queued nonces of each
are the account's and those after it without a gap (`InSequence`). That makes the count in
the pending nonce, taken of a set, the next nonce of a sequence, and a transaction at the
head of the queue the account's next. *Filling*: `FillInv` has that a tip is never above
its fee cap and that fees which were said to suit the blocks do (`Suited`), and the same
sequence of nonces for one account (`InARow`).

*Keys*: a packed key determines each of its
bytes, by the division of a code unit, so equal keys come from equal slots;
the invariant says every key held is the packing of a full slot.

*Chain*: no property of the index is inductive, for each relates some of the indexes only.
`ChainInv` has one witness for all: there is a sequence of headers, linked parent to
child, of which `blockStore`, `blockByHash`, `allLogs`, the head and the next parent are
functions (`Indexed`), the last dump is of such a chain too, no longer than the node's
(`DumpFits`), and the log of the past starts at or below the head. A hash is
one longer than its parent, so numbers and hashes match one to one, and a step that
adds a block on the parent the node would build on can only be mining. A log's number is
the count of those before it in its block: proved along the batch for `Total`, along the chain for
the flattened sequences, each by the least index at which it would fail (`LeastOf`). A
load gives the indexes of the dumped chain whatever was there before; of a present dump
that is the chain itself. Of a parameter only the block it pins matters
(`AcceptedAnswer`, `NamesPin`), and a chain that grows keeps every hash it knows
(`GrowthKeeps`), while the window only slides forward (`WindowSlides`).

*Engines*: `EnginesAgree` is inductive as stated: engine by engine and request by
request, the two wrappers' checks, budgets and charges come to the same answer and ledger,
given that people, contracts and the coinbase are different accounts (in `SeamAssumption`).
*Bring-up*: `BringUpInv` says that a construction past its checks has good options
(`Past`), that an engine that runs for a node is bound to it and has its fork (`Running`,
`Owned`), and that whoever an engine is bound to has been called, so that a construction
that begins finds no engine bound to its node already.

*Worker*: neither property is inductive, for both look only at the far end of the
ports. `WorkerInv` follows a request over them: it is on one port, then queued, then
over, each once (`RequestsOnce`), so that an answer under way or received says how the
request ended (`AnswersTrue`). A subscription is taken once and confirmed only then
(`SubscribedOnce`), the node lets go of it only at the client's word (`HeldWhileOn`), and
what its callback heard and what is under way on its own port are together the blocks mined
while the node held it (`HeadsExact`). That no unsubscribe is lost (`ReleasesTake`) is a second
invariant over this one.

What only TLC checks: liveness under fairness and anything with `ENABLED`, which
TLAPS does not handle (`EveryCallSettles`, `IntervalMiningGoesOn`, `QueuedIsServed`,
`CreationSettles`, `AcceptedSettles`), and the violation in `DumpDestroyed`. The compositions
`Sending`, `Engines` and MCDumpLoad are checked as a whole and proved part by part: a
theorem is of the part's own specification.
The induction theorems of the library take an operator, which the provers cannot instantiate.
Where the code loops the modules use a recursive function, a flattened sequence, a
`CHOOSE` of a least index or a step for each turn, and the proofs replace the induction by the
least index, from the well-foundedness of the numbers, at which the claim would fail.

## Assumed and not modelled

External, modelled from how the code uses them: @ethereumjs/evm and revm-wasm
(contracts are behaviours: what they need, how they end), comlink and message ports, IndexedDB,
the event loop, signatures (good, malleable, malformed), RLP and keccak (a hash is its content),
the trie's structure. `EngineSeam` leaves out a creation that fails (its created address is
@ethereumjs/vm's affair) and block environment fields other than the fees.
`Persistence` has one node at a time on a record, as `node.ts` demands above `dispose`.
`EngineBringUp` lets the fork be any, where the build pins Cancun. `BlockIndex` has
no fixed `blockEnv.number` and one timestamp step.

Not modelled on purpose: the text of errors, log blooms' bits, the original-storage
cache of the manager beyond its effect on gas in `EngineSeam`, `enableChangeSets` after
a first write and `shallowCopy` (the node uses neither), the benchmarks and scripts.

## What could be added

1. A `blockEnv.number` that is fixed, in `BlockIndex`: a replaced block keeps its old hash in
   `blockByHash`, so `ChainLinked` has to be stated for the hash of the present block only.
2. The creation of contracts in `EngineSeam` when it fails, and the block environment's
   fields other than the fees.
3. A save hook that awaits a call into its own node, which `types.ts:44` forbids and no
   module exhibits.
