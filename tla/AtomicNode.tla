------------------------------ MODULE AtomicNode ------------------------------
(***************************************************************************)
(* What a webevm node promises its callers (docs/adr/0012): requests are   *)
(* served one at a time, in the order they were made, each against a       *)
(* settled state and as if in ONE step; a timer may ask for a block like   *)
(* any caller; after a crash the node is what was last saved.  Nothing of  *)
(* checkpoints, awaits or half executed batches can be seen.  Module       *)
(* NodeService is the step by step node that implements this.              *)
(***************************************************************************)
EXTENDS Integers, Sequences, FiniteSets

CONSTANTS
  Request,       \* the calls clients make, each once
  Asks,          \* request -> [kind, tx]
  Sender,        \* accounts that send transactions
  Mining,        \* what miningConfig.type may be
  Clients,       \* mining type -> the requests clients of such a node make
  Persistent,    \* the persistence option is given
  Tick,          \* the interval timer's own job
  None           \* no answer yet

VARIABLES
  mining,        \* the option miningConfig.type
  world,         \* the committed state: the nonce of every sender
  pool,          \* submitted transactions awaiting a block
  chain,         \* the transactions of the stored blocks
  receipts,      \* the transactions that have a receipt
  durable,       \* what was last saved
  waiting,       \* jobs not yet served, the next one first
  answers        \* request -> its answer, or None

vars == <<mining, world, pool, chain, receipts, durable, waiting, answers>>

AutoMining     == mining = "auto"
IntervalMining == mining = "interval"

Job == Request \cup {Tick}

(* The state after the first n transactions of a batch ... *)
After(w, batch, n) ==
  [s \in Sender |->
     w[s] + Cardinality({i \in 1..n : batch[i].sender = s})]

(* ... each of which bears the nonce its sender has when its turn comes. *)
Valid(w, batch, n) ==
  \A i \in 1..n : batch[i].nonce = After(w, batch, i - 1)[batch[i].sender]

Txs(batch, n) == {batch[i] : i \in 1..n}

Image(w, c, r) == [world |-> w, chain |-> c, receipts |-> r]

Kind(j) == IF j = Tick THEN "tick" ELSE Asks[j].kind

(* The jobs after which the node saves. *)
Saves(j) ==
  Persistent /\ (Kind(j) = "mine" \/ (AutoMining /\ Kind(j) \in {"send", "sync"}))

Answer(j, a) ==
  answers' = IF j = Tick THEN answers ELSE [answers EXCEPT ![j] = a]

(* A send is told a hash, a sync of its own transaction, a mine of the block. *)
Reply(j, batch) ==
  CASE Kind(j) = "send" -> <<"hash">>
    [] Kind(j) = "sync" -> <<"mined", {Asks[j].tx}>>
    [] OTHER -> <<"mined", Txs(batch, Len(batch))>>

(* The whole batch becomes a block; the answer is lost to a newHeads        *)
(* callback that throws, or to a save that fails. *)
MinesBlock(j, batch) ==
  /\ Valid(world, batch, Len(batch))
  /\ world' = After(world, batch, Len(batch))
  /\ chain' = chain \cup Txs(batch, Len(batch))
  /\ receipts' = receipts \cup Txs(batch, Len(batch))
  /\ \/ /\ Answer(j, Reply(j, batch))
        /\ durable' = IF Saves(j) THEN Image(world', chain', receipts') ELSE durable
     \/ /\ Answer(j, <<"failed">>)
        /\ UNCHANGED durable

(* A transaction of the batch is refused, or the engine fails on it: the    *)
(* block is not stored, the transactions before it stay executed, the ones  *)
(* after it are gone. *)
BatchStops(j, batch) ==
  \E n \in 0..(Len(batch) - 1) :
    /\ Valid(world, batch, n)
    /\ world' = After(world, batch, n)
    /\ receipts' = receipts \cup Txs(batch, n)
    /\ \/ ~ Valid(world, batch, n + 1) /\ Answer(j, <<"refused">>)
       \/ Valid(world, batch, n + 1) /\ Answer(j, <<"failed">>)
    /\ UNCHANGED <<chain, durable>>

Mines(j, batch) == MinesBlock(j, batch) \/ BatchStops(j, batch)

ServeSend(j) ==
  /\ Kind(j) \in {"send", "sync"}
  /\ IF AutoMining
     THEN Mines(j, <<Asks[j].tx>>) /\ UNCHANGED pool
     ELSE IF Kind(j) = "sync"
     THEN Mines(j, Append(pool, Asks[j].tx)) /\ pool' = <<>>
     ELSE /\ pool' = Append(pool, Asks[j].tx)
          /\ Answer(j, <<"hash">>)
          /\ UNCHANGED <<world, chain, receipts, durable>>

ServeMine(j) ==
  /\ Kind(j) \in {"mine", "tick"}
  /\ Mines(j, pool)
  /\ pool' = <<>>

ServeRead(j) ==
  /\ Kind(j) \in {"read", "call"}
  /\ Answer(j, <<"state", world>>)
  /\ UNCHANGED <<world, pool, chain, receipts, durable>>

ServeCheat(j) ==
  /\ Kind(j) = "cheat"
  /\ world' = [world EXCEPT ![Asks[j].tx.sender] = Asks[j].tx.nonce]
  /\ Answer(j, <<"done">>)
  /\ UNCHANGED <<pool, chain, receipts, durable>>

Serve ==
  /\ waiting # <<>>
  /\ waiting' = Tail(waiting)
  /\ UNCHANGED mining
  /\ \/ ServeSend(Head(waiting))
     \/ ServeMine(Head(waiting))
     \/ ServeRead(Head(waiting))
     \/ ServeCheat(Head(waiting))

Waits(j) == \E i \in 1..Len(waiting) : waiting[i] = j

Submit(r) ==
  /\ r \in Clients[mining]
  /\ answers[r] = None
  /\ ~ Waits(r)
  /\ waiting' = Append(waiting, r)
  /\ UNCHANGED <<mining, world, pool, chain, receipts, durable, answers>>

(* At most the tick being served and one more. *)
TimerFires ==
  /\ IntervalMining
  /\ ~ \E i \in 2..Len(waiting) : waiting[i] = Tick
  /\ waiting' = Append(waiting, Tick)
  /\ UNCHANGED <<mining, world, pool, chain, receipts, durable, answers>>

(* A crash, and a fresh node created from `image`. *)
RestartFrom(image) ==
  /\ UNCHANGED mining
  /\ world' = image.world
  /\ chain' = image.chain
  /\ receipts' = image.receipts
  /\ durable' = image
  /\ pool' = <<>>
  /\ waiting' = <<>>
  /\ answers' = [r \in Request |-> IF Waits(r) THEN <<"lost">> ELSE answers[r]]

Crash == RestartFrom(durable)

(* The crash comes after the save of the job being served has landed and    *)
(* before its caller hears of it. *)
CrashAfterSave ==
  LET j == Head(waiting)
      batch == IF Kind(j) = "mine" THEN pool ELSE <<Asks[j].tx>>
      n == Len(batch)
  IN  /\ waiting # <<>>
      /\ Saves(j)
      /\ Valid(world, batch, n)
      /\ RestartFrom(Image(After(world, batch, n), chain \cup Txs(batch, n),
                           receipts \cup Txs(batch, n)))

Init ==
  /\ mining \in Mining
  /\ world = [s \in Sender |-> 0]
  /\ pool = <<>>
  /\ chain = {}
  /\ receipts = {}
  /\ durable = Image(world, chain, receipts)
  /\ waiting = <<>>
  /\ answers = [r \in Request |-> None]

Next ==
  \/ \E r \in Request : Submit(r)
  \/ TimerFires
  \/ Serve
  \/ Crash
  \/ CrashAfterSave

Spec == Init /\ [][Next]_vars
=============================================================================
