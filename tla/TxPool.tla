-------------------------------- MODULE TxPool --------------------------------
(***************************************************************************)
(* From the bytes of a transaction to its place in a block                  *)
(* (src/packages/webevm/src/node.ts, sender-recovery.ts): who sent it, the   *)
(* refusals at submit, the queue of manual and interval mining, the pending  *)
(* nonce clients are told, and the refusals at mining time, in their order.  *)
(*                                                                         *)
(* The node's requests are serialised and atomic (module NodeService), so    *)
(* each is one action here.                                                 *)
(*                                                                         *)
(* Definitions marked FAULTY are not part of the model: each is a plausible *)
(* mistake in the definition after it, kept to show that the properties     *)
(* notice the mistake.                                                      *)
(***************************************************************************)
EXTENDS Integers, Sequences

CONSTANTS
  Account,      \* addresses with a key, or claimed by a caller
  Raw,          \* the transactions clients hold, as bytes decode
  Nobody,       \* no sender
  Options,      \* [curve, trusted, auto]: the engine brings an ecrecover of its
                \* own; senderMode: 'trusted'; miningConfig.type = 'auto'
  Funds,        \* what every account starts with
  QueueLimit,   \* bound on the length of the queue
  NonceLimit    \* bound on nonces

Signature == {"good", "highS", "badV", "unsigned", "offCurve"}
Gas       == {"fits", "overBlock", "belowIntrinsic"}

(* A transaction: what its sender must be able to cover before it runs, and     *)
(* what running it then costs, refunded gas taken off.                      *)
Transaction ==
  [signer : Account, nonce : Nat, upfront : Nat, cost : Nat,
   signature : Signature, gas : Gas]

ASSUME PoolAssumption ==
  /\ Raw \subseteq Transaction
  /\ \A tx \in Raw : tx.cost <= tx.upfront
  /\ Nobody \notin Account
  /\ Options \subseteq [curve : BOOLEAN, trusted : BOOLEAN, auto : BOOLEAN]
  /\ Funds \in Nat

VARIABLES
  options,   \* of the node
  nonce,     \* of every account
  balance,
  pending,   \* submitted transactions: [tx, sender]
  mined,     \* history variable: what ran, in order
  heard,     \* the last answer
  told       \* history variable: clients sent the nonce they were told, always

poolVars == <<options, nonce, balance, pending, mined, heard, told>>

-----------------------------------------------------------------------------
(* Who sent it. *)

(* The curve of the 0x01 precompile normalises a high s and answers anyway.  *)
Ecrecover(tx) == IF tx.signature = "offCurve" THEN Nobody ELSE tx.signer

(* FAULTY: EIP-2 is left to the curve.                                      *)
RecoverUnchecked(tx) ==
  IF tx.signature \in {"unsigned", "badV"} THEN Nobody ELSE Ecrecover(tx)

(* recoverSender: a missing signature, a high s and a v that is no recovery  *)
(* id are refused before the curve is asked.                                *)
RecoverSender(tx) ==
  IF tx.signature \in {"unsigned", "highS", "badV"} THEN Nobody ELSE Ecrecover(tx)

(* tx.getSenderAddress() of @ethereumjs/tx.                                  *)
GetSenderAddress(tx) == IF tx.signature = "good" THEN tx.signer ELSE Nobody

Recovered(tx) == IF options.curve THEN RecoverSender(tx) ELSE GetSenderAddress(tx)

(* parseTx: recovered, or claimed where the node trusts its callers.        *)
SenderOf(tx, claimed) ==
  IF claimed = Nobody THEN Recovered(tx)
  ELSE IF options.trusted THEN claimed ELSE Nobody

-----------------------------------------------------------------------------
(* The pending nonce. *)

(* Which of the items are this account's, and the nonces they take.          *)
Of(items, s) == {i \in 1..Len(items) : items[i].sender = s}

NoncesOf(items, s) == {items[i].tx.nonce : i \in Of(items, s)}

Queued(s) == NoncesOf(pending, s)

(* pendingNonce: past the contiguous queued ones.                           *)
PendingNonce(s) ==
  CHOOSE n \in nonce[s]..(nonce[s] + Len(pending)) :
    n \notin Queued(s) /\ nonce[s]..(n - 1) \subseteq Queued(s)

-----------------------------------------------------------------------------
(* Mining. *)

World == [nonce |-> nonce, balance |-> balance]

(* FAULTY: a nonce ahead of the account is let through.                     *)
RefusalReplaysOnly(world, item) ==
  CASE item.tx.nonce < world.nonce[item.sender]        -> "nonce too low"
    [] item.tx.upfront > world.balance[item.sender]    -> "insufficient funds"
    [] OTHER                                           -> "none"

(* FAULTY: only the value sent, nothing at all here, must be covered.        *)
RefusalNonceOnly(world, item) ==
  CASE item.tx.nonce < world.nonce[item.sender] -> "nonce too low"
    [] item.tx.nonce > world.nonce[item.sender] -> "nonce too high"
    [] OTHER                                    -> "none"

(* refuseIfSenderCannotSend: the nonce first, then the money.               *)
Refusal(world, item) ==
  IF item.tx.nonce < world.nonce[item.sender] THEN "nonce too low"
  ELSE IF item.tx.nonce > world.nonce[item.sender] THEN "nonce too high"
  ELSE IF item.tx.upfront > world.balance[item.sender] THEN "insufficient funds"
  ELSE "none"

(* What running a transaction leaves: its nonce is used, and its cost, which *)
(* may be less than what had to be covered, is paid.                        *)
After(world, item) ==
  [nonce   |-> [world.nonce EXCEPT ![item.sender] = @ + 1],
   balance |-> [world.balance EXCEPT ![item.sender] = @ - item.tx.cost]]

(* How far a batch gets: the worlds after each transaction that ran, and how *)
(* it ended.  The first refusal drops the rest of the batch.                *)
RunItem(run, item) ==
  IF run.end # "none" THEN run
  ELSE IF Refusal(run.world, item) # "none"
    THEN [run EXCEPT !.end = Refusal(run.world, item)]
    ELSE [run EXCEPT !.world = After(run.world, item), !.ran = Append(@, item)]

RunTo(batch) ==
  LET run[i \in 0..Len(batch)] ==
        IF i = 0 THEN [world |-> World, ran |-> <<>>, end |-> "none"]
                 ELSE RunItem(run[i - 1], batch[i])
  IN  run

RunBatch(batch) == RunTo(batch)[Len(batch)]

(* executeAndMine: what ran has run, whether a block comes of it or not.     *)
Mine(batch) ==
  LET run == RunBatch(batch)
  IN  /\ nonce' = run.world.nonce
      /\ balance' = run.world.balance
      /\ mined' = mined \o run.ran
      /\ heard' = run.end

(* FAULTY: a batch that fails stays queued.                                 *)
QueueKeptOnFailure(batch) ==
  IF RunBatch(batch).end = "none" THEN <<>> ELSE batch

(* mineBlock: the batch leaves the queue, whatever becomes of it.           *)
QueueAfterMine(batch) == <<>>

MineBlock ==
  /\ ~ options.auto
  /\ Mine(pending)
  /\ pending' = QueueAfterMine(pending)
  /\ UNCHANGED told

-----------------------------------------------------------------------------
(* Submitting. *)

Refused(why) ==
  /\ heard' = why
  /\ UNCHANGED <<nonce, balance, pending, mined>>

(* Decoding, or who sent it, is refused.                                    *)
RefuseSender(tx, claimed) ==
  /\ SenderOf(tx, claimed) = Nobody
  /\ Refused("no sender")

(* refuseIfOverBlockGasLimit, refuseIfBelowIntrinsicGas.                    *)
RefuseAlone(tx, claimed) ==
  /\ SenderOf(tx, claimed) # Nobody
  /\ tx.gas # "fits"
  /\ Refused(IF tx.gas = "overBlock" THEN "over block gas limit" ELSE "intrinsic gas too low")

(* eth_sendRawTransaction and its twins: mined at once, queued, or queued    *)
(* and mined with the rest (`sync`).                                        *)
Send(tx, claimed, sync) ==
  LET item == [tx |-> tx, sender |-> SenderOf(tx, claimed)]
  IN  /\ item.sender # Nobody
      /\ tx.gas = "fits"
      /\ \/ /\ options.auto
            /\ Mine(<<item>>)
            /\ UNCHANGED pending
         \/ /\ ~ options.auto
            /\ Len(pending) < QueueLimit
            /\ ~ sync
            /\ pending' = Append(pending, item)
            /\ heard' = "hash"
            /\ UNCHANGED <<nonce, balance, mined>>
         \/ /\ ~ options.auto
            /\ sync
            /\ Mine(Append(pending, item))
            /\ pending' = QueueAfterMine(Append(pending, item))

(* evm_setBalance.                                                          *)
SetBalance(s) ==
  /\ balance' = [balance EXCEPT ![s] = Funds]
  /\ heard' = "done"
  /\ UNCHANGED <<nonce, pending, mined, told>>

PoolInit ==
  /\ options \in Options
  /\ nonce = [s \in Account |-> 0]
  /\ balance = [s \in Account |-> Funds]
  /\ pending = <<>>
  /\ mined = <<>>
  /\ heard = "none"
  /\ told = TRUE

(* The nonce is the one eth_getTransactionCount `pending` and                 *)
(* eth_fillTransaction tell the sender.                                      *)
AsTold(tx, claimed) ==
  SenderOf(tx, claimed) # Nobody => tx.nonce = PendingNonce(SenderOf(tx, claimed))

Call(tx, claimed) ==
  /\ \/ RefuseSender(tx, claimed)
     \/ RefuseAlone(tx, claimed)
     \/ \E sync \in BOOLEAN : Send(tx, claimed, sync)
  /\ told' = (told /\ AsTold(tx, claimed))

Bounded == \A s \in Account : nonce'[s] <= NonceLimit

PoolNext ==
  /\ \/ \E tx \in Raw, claimed \in Account \cup {Nobody} : Call(tx, claimed)
     \/ MineBlock
     \/ \E s \in Account : SetBalance(s)
  /\ Bounded
  /\ UNCHANGED options

PoolSpec == PoolInit /\ [][PoolNext]_poolVars

-----------------------------------------------------------------------------
Item == [tx : Raw, sender : Account]

(* The kinds of the variables.                                              *)
PoolTypeOK ==
  /\ nonce \in [Account -> Nat]
  /\ balance \in [Account -> Nat]
  /\ pending \in Seq(Item)
  /\ mined \in Seq(Item)
  /\ options \in Options /\ told \in BOOLEAN

(* These items take every account's nonces from one to the other: each nonce    *)
(* in between once, and in order.                                            *)
TakesNonces(items, from, to) ==
  \A s \in Account :
    /\ from[s] <= to[s]
    /\ NoncesOf(items, s) = from[s]..(to[s] - 1)
    /\ \A i, j \in Of(items, s) : i < j => items[i].tx.nonce < items[j].tx.nonce

(* No transaction runs twice, and every account's ran in the order of its    *)
(* nonces: through batches that fail part way, resubmissions and queues in   *)
(* any order ("REFUSED rather than mined a second time").                   *)
NoReplay ==
  /\ PoolTypeOK
  /\ TakesNonces(mined, [s \in Account |-> 0], nonce)

(* Where the node recovers senders, what waits or ran was signed by its      *)
(* sender, in the one form of the signature EIP-2 allows, whichever curve    *)
(* was asked.                                                               *)
SenderAuthentic ==
  ~ options.trusted =>
    \A i \in 1..Len(pending \o mined) :
      LET item == (pending \o mined)[i]
      IN  item.sender = item.tx.signer /\ item.tx.signature = "good"

(* The pending nonce is the one "`address` sends with next": where clients     *)
(* always sent the nonce they were told, a transaction with that nonce, mined   *)
(* with the queue, is not refused for its nonce, if the queue before it meets    *)
(* no lack of money.                                                        *)
PendingNonceRuns ==
  told =>
    \A s \in Account :
      LET run  == RunBatch(pending)
          next == [sender |-> s, tx |-> [nonce |-> PendingNonce(s), upfront |-> 0]]
      IN  run.end \notin {"nonce too low", "nonce too high"}
          /\ (run.end = "none" => Refusal(run.world, next) = "none")
=============================================================================
