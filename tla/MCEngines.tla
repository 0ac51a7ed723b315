------------------------------- MODULE MCEngines -------------------------------
(* An instance of Engines for TLC: code that returns, that is refunded and      *)
(* creates two contracts, that reverts with a reason, that halts; senders with  *)
(* and without code; both fee families; limits, values and nonces at, under     *)
(* and over what is needed; and a whole engine, an object that is none, and     *)
(* half of one to give to two nodes.                                        *)
EXTENDS Engines, TLC

CONSTANTS
  alice, bob, wallet, counter,
  plain, other,          \* the nodes
  whole, stray, half     \* what they are given as an engine

(* An engine, a module namespace, a reader that cannot transact.             *)
Shapes == whole :> "revm" @@ stray :> "noCall" @@ half :> "noTransact"

OnePair == {[plain |-> plain, other |-> other, chainId |-> 1]}

Funded == [a \in {alice, bob, wallet, counter, Create, Coinbase} |->
             CASE a = alice -> 90 [] a = wallet -> 40 [] OTHER -> 0]

Code(need, refund, ends, children) ==
  [need |-> need, refund |-> refund, ends |-> ends, children |-> children]

Scripts ==
  {Code(1, 0, "return", 0), Code(4, 3, "return", 2), Code(2, 0, "revert", 0),
   Code(2, 0, "halt", 0)}

SomeReads ==
  [from : {alice, bob, wallet}, to : {counter, Create}, script : Scripts,
   gasLimit : {2, BlockGasLimit}, value : {0, 60}]

Legacy(price) == [type |-> "legacy", cap |-> price, tip |-> 0]
Capped(cap, tip) == [type |-> "1559", cap |-> cap, tip |-> tip]

TransactionOf(sender, signer, to, script, gasLimit, value, nonce, fees) ==
  [sender |-> sender, signer |-> signer, to |-> to, script |-> script,
   gasLimit |-> gasLimit, value |-> value, nonce |-> nonce,
   type |-> fees.type, cap |-> fees.cap, tip |-> fees.tip]

Succeeds(tx) == tx.to = Create => tx.script.ends = "return" /\ tx.gasLimit >= 14

(* No creation fails (see EngineSeam); one way for a wallet to be refused.     *)
SomeTransactions ==
  {tx \in {TransactionOf(sender, bob, to, script, gasLimit, value, nonce, fees) :
             sender \in {alice, wallet}, to \in {counter, Create}, script \in Scripts,
             gasLimit \in {4, 7, 14, 31}, value \in {0, 30}, nonce \in {0, 1},
             fees \in {Legacy(0), Legacy(3), Capped(3, 1), Capped(1, 1)}} :
     Succeeds(tx) /\ (tx.sender = wallet => tx.nonce = 0 /\ tx.value = 0 /\ tx.type = "1559")}
=============================================================================
