--------------------------- MODULE FillTransaction ---------------------------
(***************************************************************************)
(* A client that asks the node what a transaction should carry, signs it and   *)
(* sends it (src/packages/webevm/src/node.ts: eth_fillTransaction, eth_gasPrice, *)
(* eth_maxPriorityFeePerGas, and what becomes of the transaction when its block  *)
(* is mined).  What is filled is computed from the node's options and its queue;  *)
(* what it must satisfy comes from the block and the account it runs on.         *)
(*                                                                         *)
(* One account; the gas limit is one unit of gas, found by the search that        *)
(* module GasEstimate has; the queue, the refusals and their order are those of    *)
(* module TxPool, with the price of gas in them.                             *)
(*                                                                         *)
(* Definitions marked FAULTY are not part of the model: each is a plausible *)
(* mistake in the definition after it, kept to show that the properties     *)
(* notice the mistake.                                                      *)
(***************************************************************************)
EXTENDS Integers, Sequences, FiniteSets

CONSTANTS
  Fee,         \* fees per gas, options and requests alike
  Funds,       \* what the account may be given
  MaxQueue,    \* bound on the queue
  MaxNonce,    \* bound on the nonce
  MaxFilled,   \* bound on the transactions clients hold unsent
  Missing      \* a field the request leaves to the node

(* What is asked of the constants.                                          *)
FillAssumption ==
  /\ Fee \subseteq Nat /\ Funds \subseteq Nat
  /\ {MaxQueue, MaxNonce, MaxFilled} \subseteq Nat
  /\ Missing \notin Fee

VARIABLES
  market,   \* the options baseFeePerGas and maxPriorityFeePerGas, and the base
            \* fee of the blocks mined, which blockEnv may set
  nonce,    \* of the account
  balance,
  pending,  \* transactions in the queue
  filled,   \* transactions clients have been given and not sent
  last      \* how the last call ended

vars == <<market, nonce, balance, pending, filled, last>>

Market == [baseFee : Fee, tip : Fee, blockBaseFee : Fee]

Request ==
  [gasPrice : Fee \cup {Missing}, maxFee : Fee \cup {Missing},
   tip : Fee \cup {Missing}]

-----------------------------------------------------------------------------
(* What the node fills in. *)

QueuedNonces == {pending[i].nonce : i \in 1..Len(pending)}

(* FAULTY: the queue is forgotten.                                          *)
AccountNonce == nonce

(* pendingNonce: past the contiguous queued ones.                           *)
PendingNonce ==
  CHOOSE n \in nonce..(nonce + Len(pending)) :
    n \notin QueuedNonces /\ nonce..(n - 1) \subseteq QueuedNonces

Or(field, default) == IF field = Missing THEN default ELSE field

(* Legacy iff the caller gave a gasPrice and neither of the other two.          *)
IsLegacy(request) ==
  request.gasPrice # Missing /\ request.maxFee = Missing /\ request.tip = Missing

(* FAULTY: the tip is taken for the whole price.                             *)
TipAlone(request) == Or(request.maxFee, market.tip)

(* The most the transaction pays per gas, when it is of type 2.                *)
MaxFeeFilled(request) == Or(request.maxFee, market.baseFee + market.tip)

TipFilled(request) == Or(request.tip, market.tip)

(* A legacy transaction offers its price as both.                            *)
FeesFilled(request) ==
  IF IsLegacy(request)
    THEN [maxFee |-> request.gasPrice, tip |-> request.gasPrice]
    ELSE [maxFee |-> MaxFeeFilled(request), tip |-> TipFilled(request)]

(* FAULTY: nothing looks at them together.                                   *)
AnyFees(fees) == TRUE

(* createTx refuses a tip above the most the transaction would pay.             *)
WellFormed(fees) == fees.tip <= fees.maxFee

(* Fees that suit the blocks mined: what the caller gave does, and the market      *)
(* does.                                                                    *)
FeesSuit(request) ==
  /\ request.maxFee # Missing => request.maxFee >= market.blockBaseFee
  /\ IsLegacy(request) => request.gasPrice >= market.blockBaseFee
  /\ market.blockBaseFee <= market.baseFee + market.tip

Fill(request) ==
  LET fees == FeesFilled(request)
  IN  /\ WellFormed(fees)
      /\ filled' = filled \cup
           {[nonce |-> PendingNonce, maxFee |-> fees.maxFee, tip |-> fees.tip,
             suits |-> FeesSuit(request)]}
      /\ last' = "filled"
      /\ UNCHANGED <<market, nonce, balance, pending>>

(* Its error is the library's.                                              *)
FillThrows(request) ==
  /\ ~ WellFormed(FeesFilled(request))
  /\ last' = IF request.maxFee # Missing /\ request.tip # Missing THEN "refused" ELSE "threw"
  /\ UNCHANGED <<market, nonce, balance, pending, filled>>

-----------------------------------------------------------------------------
(* Sending and mining. *)

(* The client signs it and sends it; `fresh` says whether the node would still   *)
(* fill in the same nonce.                                                   *)
Send(tx) ==
  /\ tx \in filled
  /\ Len(pending) < MaxQueue
  /\ filled' = filled \ {tx}
  /\ pending' = Append(pending,
       [nonce |-> tx.nonce, maxFee |-> tx.maxFee, tip |-> tx.tip,
        suits |-> tx.suits, fresh |-> tx.nonce = PendingNonce])
  /\ last' = "sent"
  /\ UNCHANGED <<market, nonce, balance>>

(* FAULTY: the money is asked for at the price that will be charged.            *)
EffectiveCost(tx) ==
  IF tx.maxFee < market.blockBaseFee + tx.tip THEN tx.maxFee
                                              ELSE market.blockBaseFee + tx.tip

(* upfrontCost: the whole gas limit at the most it may pay.                     *)
UpfrontCost(tx) == tx.maxFee

(* refuseIfSenderCannotSend, and after it the engine's own check of the fees and   *)
(* of the money.                                                            *)
Refusal(world, tx) ==
  IF tx.nonce < world.nonce THEN "nonce too low"
  ELSE IF tx.nonce > world.nonce THEN "nonce too high"
  ELSE IF world.balance < UpfrontCost(tx) THEN "insufficient funds"
  ELSE IF tx.maxFee < market.blockBaseFee THEN "fee too low"
  ELSE IF world.balance < tx.maxFee THEN "the engine's own words"
  ELSE "none"

(* The price charged: the block's base fee and the tip, within the most it pays.   *)
EffectiveGasPrice(tx) ==
  LET wanted == market.blockBaseFee + tx.tip
  IN  IF tx.maxFee < wanted THEN tx.maxFee ELSE wanted

RunTx(world, tx) ==
  IF world.end # "none" THEN world
  ELSE IF Refusal(world, tx) # "none" THEN [world EXCEPT !.end = Refusal(world, tx)]
  ELSE [world EXCEPT !.nonce = @ + 1, !.balance = @ - EffectiveGasPrice(tx)]

RunTo ==
  LET run[i \in 0..Len(pending)] ==
        IF i = 0 THEN [nonce |-> nonce, balance |-> balance, end |-> "none"]
                 ELSE RunTx(run[i - 1], pending[i])
  IN  run

RunBatch == RunTo[Len(pending)]

(* The batch leaves the queue, and what ran has run.                         *)
MineBlock ==
  /\ pending # <<>>
  /\ nonce' = RunBatch.nonce
  /\ balance' = RunBatch.balance
  /\ last' = RunBatch.end
  /\ pending' = <<>>
  /\ UNCHANGED <<market, filled>>

(* evm_setBalance.                                                          *)
SetBalance(b) ==
  /\ balance' = b
  /\ UNCHANGED <<market, nonce, pending, filled, last>>

Init ==
  /\ market \in Market
  /\ nonce = 0
  /\ balance \in Funds
  /\ pending = <<>>
  /\ filled = {}
  /\ last = "none"

Next ==
  \/ /\ Cardinality(filled) < MaxFilled
     /\ \E request \in Request : Fill(request) \/ FillThrows(request)
  \/ \E tx \in filled : tx.nonce < MaxNonce /\ Send(tx)
  \/ MineBlock
  \/ \E b \in Funds : SetBalance(b)

Spec == Init /\ [][Next]_vars

-----------------------------------------------------------------------------
(* The kinds of the variables, and that what clients are given can be made into a  *)
(* transaction.                                                             *)
TypeOK ==
  /\ market \in Market
  /\ {nonce, balance} \subseteq Nat
  /\ \A tx \in filled \cup {pending[i] : i \in 1..Len(pending)} :
       tx.nonce \in Nat /\ tx.suits \in BOOLEAN /\ tx.tip <= tx.maxFee
  /\ Len(pending) <= MaxQueue

(* What is filled in, signed and sent runs: a queue of such transactions, each sent  *)
(* while the node still gave the same nonce, fails for nothing but the money, and    *)
(* for that in the node's words, on either engine.                            *)
FilledRuns ==
  /\ TypeOK
  /\ (\A i \in 1..Len(pending) : pending[i].fresh /\ pending[i].suits)
       => RunBatch.end \in {"none", "insufficient funds"}
=============================================================================
