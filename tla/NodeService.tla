----------------------------- MODULE NodeService -----------------------------
(***************************************************************************)
(* The webevm node between its public calls and its state manager          *)
(* (src/packages/webevm/src/node.ts): the promise chain every call queues  *)
(* on (`serialise`), the jobs that run on it one await at a time, the      *)
(* interval timer, persistence, and a crash at any moment.                 *)
(*                                                                         *)
(* One action is one stretch of a job between two awaits, so requests,     *)
(* ticks and a crash come between any two of them.  Executions open levels *)
(* on the ONE checkpoint stack, which knows nothing of their owner.        *)
(*                                                                         *)
(* The world state is the nonce of each sender: what decides whether a      *)
(* transaction may run, and what a lost or torn execution would corrupt.   *)
(* A stored block is known by its transactions; an empty one changes        *)
(* nothing here.  The checks of a transaction on its own (gas limit,       *)
(* intrinsic gas) precede everything and are left out.                     *)
(*                                                                         *)
(* Definitions marked FAULTY are not part of the model: each is a plausible *)
(* mistake in the definition after it, kept to show that the properties     *)
(* notice the mistake.                                                      *)
(***************************************************************************)
EXTENDS Integers, Sequences, FiniteSets

CONSTANTS
  Request,        \* the calls clients make, each once
  Asks,           \* request -> [kind, tx]
  Sender,         \* accounts that send transactions
  Nonce,          \* nonces, an initial segment of the naturals
  Mining,         \* what miningConfig.type may be
  Clients,        \* mining type -> the requests clients of such a node make
  Persistent,     \* the persistence option is given
  Tick,           \* the interval timer's own job
  Idle,           \* no job runs
  None            \* no answer yet

Kinds == {"send", "sync", "mine", "call", "read", "cheat"}
Tx    == [sender : Sender, nonce : Nonce]
Job   == Request \cup {Tick}

ASSUME ServiceAssumption ==
  /\ Asks \in [Request -> [kind : Kinds, tx : Tx]]
  /\ Tick \notin Request
  /\ Idle \notin Job
  /\ Mining \subseteq {"auto", "manual", "interval"}
  /\ Clients \in [Mining -> SUBSET Request]
  /\ Nonce \subseteq Nat

VARIABLES
  mining,       \* the option miningConfig.type
  levels,       \* the checkpoint stack: complete states, the committed one first
  pending,      \* transactions awaiting a block (manual and interval mining)
  chain,        \* the transactions of the blocks in blockStore
  receipts,     \* the transactions with a receipt
  saved,        \* the dump the persistence hook holds (at first: genesis)
  queue,        \* jobs on the promise chain, not yet started
  job,          \* the job that runs, or Idle
  step,         \* where it is
  batch,        \* the transactions it mines
  done,         \* how many of them have run
  heard,        \* what it will answer
  answers,      \* request -> its answer, or None
  minePending,  \* the timer's flag
  timerArmed,   \* the interval timer runs
  before        \* history variable: the settled state when the job started

node  == <<levels, pending, chain, receipts>>
work  == <<job, step, batch, done, heard, before>>
timer == <<mining, minePending, timerArmed>>
vars  == <<node, saved, queue, work, answers, timer>>

AutoMining     == mining = "auto"
IntervalMining == mining = "interval"

Top == levels[Len(levels)]

Kind(j) == IF j = Tick THEN "tick" ELSE Asks[j].kind

Settled == [world |-> levels[1], pool |-> pending, chain |-> chain,
            receipts |-> receipts, saved |-> saved]

Dump == [world |-> Top, chain |-> chain, receipts |-> receipts]

NoBatch == <<>>

-----------------------------------------------------------------------------
(* The promise chain. *)

Waits(j) == \E i \in 1..Len(queue) : queue[i] = j

(* A client calls; serialise appends the job to the chain.                  *)
Submit(r) ==
  /\ r \in Clients[mining]
  /\ answers[r] = None
  /\ ~ Waits(r)
  /\ job # r
  /\ queue' = Append(queue, r)
  /\ UNCHANGED <<node, saved, work, answers, timer>>

(* FAULTY: ticks pile up behind a slow job.                                 *)
TickWanted == TRUE

(* The timer asks for a block unless a tick is already waiting.             *)
TickAllowed == ~ minePending

TimerFires ==
  /\ timerArmed
  /\ TickAllowed
  /\ minePending' = TRUE
  /\ queue' = Append(queue, Tick)
  /\ UNCHANGED <<node, saved, work, answers, mining, timerArmed>>

(* FAULTY: the flag is cleared only when a mine succeeds.                   *)
FlagAtStart(j) == minePending

(* The flag is cleared as the tick's job starts.                            *)
FlagWhenStarted(j) == IF j = Tick THEN FALSE ELSE minePending

FirstStep(j) ==
  CASE Kind(j) \in {"send", "sync"} -> "submit"
    [] Kind(j) \in {"mine", "tick"} -> "take"
    [] Kind(j) = "read" -> "read"
    [] Kind(j) = "call" -> "enter"
    [] Kind(j) = "cheat" -> "cheat"

(* `tail.then(job)`: a job starts when every job before it has ended.       *)
Start ==
  LET j == Head(queue)
  IN  /\ queue # <<>>
      /\ job = Idle
      /\ queue' = Tail(queue)
      /\ job' = j
      /\ step' = FirstStep(j)
      /\ batch' = NoBatch
      /\ done' = 0
      /\ heard' = None
      /\ before' = Settled
      /\ minePending' = FlagWhenStarted(j)
      /\ UNCHANGED <<node, saved, answers, mining, timerArmed>>

At(s) == job # Idle /\ step = s

Goto(s) ==
  /\ step' = s
  /\ UNCHANGED <<saved, queue, job, before, answers, timer>>

(* The job is about to reply, or to reject.                                 *)
GotoEnd(answer) ==
  /\ heard' = answer
  /\ Goto("end")

(* FAULTY: a rejection poisons the chain.                                   *)
FreesChainIfFulfilled(answer) == answer \notin {<<"refused">>, <<"failed">>}

(* `tail = run.then(swallow, swallow)`.                                     *)
FreesChain(answer) == TRUE

(* The job ends, its caller is answered, and the chain moves on.            *)
End ==
  /\ At("end")
  /\ FreesChain(heard)
  /\ job' = Idle
  /\ step' = "none"
  /\ batch' = NoBatch
  /\ done' = 0
  /\ heard' = None
  /\ answers' = IF job = Tick THEN answers ELSE [answers EXCEPT ![job] = heard]
  /\ before' = Settled
  /\ UNCHANGED <<node, saved, queue, timer>>

-----------------------------------------------------------------------------
(* Reads and cheats. *)

(* A point read of the live state: the top level of the stack.              *)
Read ==
  /\ At("read")
  /\ GotoEnd(<<"state", Top>>)
  /\ UNCHANGED <<node, batch, done>>

(* Engine.call: it opens a level ...                                        *)
EnterCall ==
  /\ At("enter")
  /\ levels' = Append(levels, Top)
  /\ Goto("call")
  /\ UNCHANGED <<pending, chain, receipts, batch, done, heard>>

(* ... runs in it, whatever it writes ...                                   *)
RunCall ==
  /\ At("call")
  /\ heard' = <<"state", Top>>
  /\ \E s \in Sender, n \in Nonce :
       levels' = [levels EXCEPT ![Len(levels)][s] = n]
  /\ Goto("leave")
  /\ UNCHANGED <<pending, chain, receipts, batch, done>>

(* FAULTY: the call's level is committed.                                   *)
LevelsAfterCallCommitted ==
  Append(SubSeq(levels, 1, Len(levels) - 2), Top)

(* ... and reverts it, in a `finally`.                                      *)
LevelsAfterCall == SubSeq(levels, 1, Len(levels) - 1)

LeaveCall ==
  /\ At("leave")
  /\ levels' = LevelsAfterCall
  /\ Goto("end")
  /\ UNCHANGED <<pending, chain, receipts, batch, done, heard>>

(* evm_setNonce, for every evm_set* cheat: no block, no save.               *)
Cheat ==
  /\ At("cheat")
  /\ levels' = [levels EXCEPT ![Len(levels)][Asks[job].tx.sender] =
                                 Asks[job].tx.nonce]
  /\ GotoEnd(<<"done">>)
  /\ UNCHANGED <<pending, chain, receipts, batch, done>>

-----------------------------------------------------------------------------
(* Submitting and mining. *)

(* FAULTY: the batch is copied, not taken.                                  *)
PoolCopied == pending

(* What mineBlock leaves in the queue when it takes the batch.              *)
PoolAfterTake == <<>>

(* submit: under auto mining the transaction is a batch of its own; else it *)
(* is queued, and mined with the rest when the caller wants the receipt.    *)
SubmitTx ==
  /\ At("submit")
  /\ done' = 0
  /\ UNCHANGED <<levels, chain, receipts>>
  /\ \/ /\ AutoMining
        /\ batch' = <<Asks[job].tx>>
        /\ Goto("mine")
        /\ UNCHANGED <<pending, heard>>
     \/ /\ ~ AutoMining
        /\ Kind(job) = "sync"
        /\ batch' = Append(pending, Asks[job].tx)
        /\ pending' = PoolAfterTake
        /\ Goto("mine")
        /\ UNCHANGED heard
     \/ /\ ~ AutoMining
        /\ Kind(job) = "send"
        /\ pending' = Append(pending, Asks[job].tx)
        /\ GotoEnd(<<"hash">>)
        /\ UNCHANGED batch

(* mineBlock: the batch leaves the queue before any of it runs.             *)
TakeBatch ==
  /\ At("take")
  /\ batch' = pending
  /\ pending' = PoolAfterTake
  /\ done' = 0
  /\ Goto("mine")
  /\ UNCHANGED <<levels, chain, receipts, heard>>

Next1 == batch[done + 1]

(* refuseIfSenderCannotSend, its nonce rule (the balance rule refuses like   *)
(* an engine failure): the rest of the batch is dropped with it.            *)
RefuseTx ==
  /\ At("mine")
  /\ done < Len(batch)
  /\ Next1.nonce # Top[Next1.sender]
  /\ GotoEnd(<<"refused">>)
  /\ UNCHANGED <<node, batch, done>>

(* engine.transact: runTx opens a level ...                                 *)
EnterTx ==
  /\ At("mine")
  /\ done < Len(batch)
  /\ Next1.nonce = Top[Next1.sender]
  /\ levels' = Append(levels, Top)
  /\ Goto("execute")
  /\ UNCHANGED <<pending, chain, receipts, batch, done, heard>>

(* ... executes in it ...                                                   *)
ExecuteTx ==
  /\ At("execute")
  /\ levels' = [levels EXCEPT ![Len(levels)][Next1.sender] = @ + 1]
  /\ Goto("commit")
  /\ UNCHANGED <<pending, chain, receipts, batch, done, heard>>

(* ... commits; the receipt is recorded at once.                            *)
CommitTx ==
  /\ At("commit")
  /\ levels' = Append(SubSeq(levels, 1, Len(levels) - 2), Top)
  /\ receipts' = receipts \cup {Next1}
  /\ done' = done + 1
  /\ Goto("mine")
  /\ UNCHANGED <<pending, chain, batch, heard>>

(* FAULTY: a failed execution leaves its level behind.                      *)
LevelsAfterFailureKept == levels

LevelsAfterFailure == SubSeq(levels, 1, Len(levels) - 1)

(* The engine throws, wherever it is, and reverts its level.                *)
EngineFails ==
  /\ job # Idle
  /\ step \in {"execute", "commit"}
  /\ levels' = LevelsAfterFailure
  /\ GotoEnd(<<"failed">>)
  /\ UNCHANGED <<pending, chain, receipts, batch, done>>

(* FAULTY: only mine() saves.                                               *)
SavesAfterMineOnly(j) == Persistent /\ Kind(j) = "mine"

(* FAULTY: mine() is not wrapped.                                           *)
SavesAfterRequestsOnly(j) ==
  Persistent /\ AutoMining /\ Kind(j) \in {"send", "sync"}

(* persistingRequest and mineAndPersist.                                    *)
Saves(j) ==
  Persistent /\ (Kind(j) = "mine" \/ (AutoMining /\ Kind(j) \in {"send", "sync"}))

(* A send is answered with a hash, a sync with the receipt of its own        *)
(* transaction, a mine with the block.                                      *)
Reply ==
  CASE Kind(job) = "send" -> <<"hash">>
    [] Kind(job) = "sync" -> <<"mined", {Asks[job].tx}>>
    [] OTHER -> <<"mined", {batch[i] : i \in 1..Len(batch)}>>

(* storeBlock, then the newHeads callbacks; one that throws rejects the     *)
(* request with the block in place.                                         *)
StoreBlock ==
  /\ At("mine")
  /\ done = Len(batch)
  /\ chain' = chain \cup {batch[i] : i \in 1..Len(batch)}
  /\ \/ /\ heard' = Reply
        /\ Goto(IF Saves(job) THEN "save" ELSE "end")
     \/ GotoEnd(<<"failed">>)
  /\ UNCHANGED <<levels, pending, receipts, batch, done>>

(* persistIfNeeded: the hook is awaited; it saves ...                       *)
SaveLands ==
  /\ At("save")
  /\ saved' = Dump
  /\ step' = "end"
  /\ UNCHANGED <<node, queue, job, batch, done, heard, before, answers, timer>>

(* ... or fails, which rejects the request.                                 *)
SaveFails ==
  /\ At("save")
  /\ GotoEnd(<<"failed">>)
  /\ UNCHANGED <<node, batch, done>>

-----------------------------------------------------------------------------
(* dispose: no more ticks; what is queued still runs.                       *)
Dispose ==
  /\ timerArmed
  /\ timerArmed' = FALSE
  /\ UNCHANGED <<node, saved, queue, work, answers, mining, minePending>>

(* The page or the worker goes away, and a new node loads what was saved.   *)
Crash ==
  /\ UNCHANGED <<saved, mining>>
  /\ levels' = <<saved.world>>
  /\ pending' = <<>>
  /\ chain' = saved.chain
  /\ receipts' = saved.receipts
  /\ queue' = <<>>
  /\ job' = Idle
  /\ step' = "none"
  /\ batch' = NoBatch
  /\ done' = 0
  /\ heard' = None
  /\ before' = Settled'
  /\ answers' = [r \in Request |-> IF Waits(r) \/ job = r THEN <<"lost">>
                                   ELSE answers[r]]
  /\ minePending' = FALSE
  /\ timerArmed' = IntervalMining

Init ==
  /\ mining \in Mining
  /\ levels = <<[s \in Sender |-> 0]>>
  /\ pending = <<>>
  /\ chain = {}
  /\ receipts = {}
  /\ saved = Dump
  /\ queue = <<>>
  /\ job = Idle
  /\ step = "none"
  /\ batch = NoBatch
  /\ done = 0
  /\ heard = None
  /\ answers = [r \in Request |-> None]
  /\ minePending = FALSE
  /\ timerArmed = IntervalMining
  /\ before = Settled

JobStep ==
  \/ Start
  \/ Read
  \/ EnterCall \/ RunCall \/ LeaveCall
  \/ Cheat
  \/ SubmitTx
  \/ TakeBatch
  \/ RefuseTx \/ EnterTx \/ ExecuteTx \/ CommitTx \/ EngineFails
  \/ StoreBlock
  \/ SaveLands \/ SaveFails
  \/ End

Next ==
  \/ \E r \in Request : Submit(r)
  \/ JobStep
  \/ TimerFires
  \/ Dispose
  \/ Crash

Spec == Init /\ [][Next]_vars

(* The event loop runs every job to its end (an engine and a save hook that *)
(* settle), and the timer of a live node keeps firing.                      *)
Fairness == WF_vars(JobStep) /\ WF_vars(TimerFires)

FairSpec == Spec /\ Fairness

-----------------------------------------------------------------------------
(* Properties. *)

State == [Sender -> Nonce]

Steps == {"none", "submit", "take", "read", "enter", "call", "leave", "cheat",
          "mine", "execute", "commit", "save", "end"}

(* How deep the checkpoint stack is at each step of a job.                  *)
OpenLevels == IF step \in {"call", "leave", "execute", "commit"} THEN 2 ELSE 1

(* Types; the stack holds exactly the level the running job opened; no job   *)
(* waits twice.                                                             *)
TypeOK ==
  /\ mining \in Mining
  /\ levels \in Seq([Sender -> Nat])
  /\ Len(levels) = OpenLevels
  /\ pending \in Seq(Tx)
  /\ chain \subseteq Tx
  /\ receipts \subseteq Tx
  /\ job \in Job \cup {Idle}
  /\ step \in Steps
  /\ job = Idle <=> step = "none"
  /\ batch \in Seq(Tx)
  /\ done \in 0..Len(batch)
  /\ queue \in Seq(Job)
  /\ \A i, k \in 1..Len(queue) : queue[i] = queue[k] => i = k

(* The node, with all its awaits, queues, failures and crashes, implements  *)
(* the atomic one: each request is served in one step, in order, against a  *)
(* settled state, and nothing half executed is ever answered or saved.      *)
Atomic == INSTANCE AtomicNode WITH
  world    <- IF job = Idle THEN levels[1] ELSE before.world,
  pool     <- IF job = Idle THEN pending ELSE before.pool,
  chain    <- IF job = Idle THEN chain ELSE before.chain,
  receipts <- IF job = Idle THEN receipts ELSE before.receipts,
  durable  <- IF job = Idle THEN saved ELSE before.saved,
  waiting  <- IF job = Idle THEN queue ELSE <<job>> \o queue

ImplementsAtomicNode == Atomic!Spec

(* The transactions an answer to a call says are mined.  The hash of a queued  *)
(* transaction says nothing of a block.                                      *)
Reported(r, answer) ==
  IF answer = None THEN {}
  ELSE IF answer[1] = "mined" THEN answer[2]
  ELSE IF answer[1] = "hash" /\ AutoMining THEN {Asks[r].tx} ELSE {}

(* A block that mine() returned, however the node mines, and under auto mining *)
(* the transaction of every send that was answered, are in the saved state,    *)
(* however soon the node crashes ("a request does not resolve before its state  *)
(* is durable").  A sync under the other two replies without a save, and what   *)
(* the timer mines is not saved (persistingRequest, intervalTimer).           *)
RepliedIsDurable ==
  /\ TypeOK
  /\ \A r \in Request :
       AutoMining \/ Kind(r) = "mine" => Reported(r, answers[r]) \subseteq saved.chain

(* Every call is answered, or lost in a crash: no failure before it in the  *)
(* queue, and no stream of ticks, keeps it waiting for ever.                *)
EveryCallSettles == \A r \in Request : Waits(r) ~> answers[r] # None

(* While the timer stays armed, the node goes on mining on its own, even    *)
(* after a mine that failed.                                                *)
IntervalMiningGoesOn ==
  (<>[]timerArmed /\ <>[][~ Crash]_vars) => []<>(job = Tick)
=============================================================================
