------------------------------ MODULE MCSending -------------------------------
(* An instance of Sending for TLC.  What does not move begins in one state.      *)
EXTENDS Sending

CONSTANTS a, b

-----------------------------------------------------------------------------
(* The requests estimated, and which amounts of gas are enough for the code,    *)
(* how much is used at most, and whether a failure returns bytes; or a value    *)
(* the caller cannot pay.                                                   *)

Ask(zeros, nonZeros, create, addresses, keys, gas) ==
  [zeros |-> zeros, nonZeros |-> nonZeros, create |-> create,
   addresses |-> addresses, keys |-> keys, gas |-> gas]

SomeAsked ==
  {Ask(0, 0, FALSE, 0, 0, NoGas), Ask(0, 0, FALSE, 1, 2, NoGas),
   Ask(1, 1, TRUE, 1, 0, NoGas), Ask(1, 1, FALSE, 0, 0, 7),
   Ask(0, 0, FALSE, 1, 1, 12), Ask(2, 0, TRUE, 0, 0, 3)}

AnyBehaviour ==
  [works : SUBSET (0..(BlockGasLimit - TxBase)),
   uses : 0..(BlockGasLimit - TxBase), bytes : {FALSE}, rejected : {FALSE}]
  \cup [works : {{}}, uses : 0..3, bytes : BOOLEAN, rejected : BOOLEAN]

AnySucceeds(c, budget) == budget \in c.works

UsesGas(c) == c.uses

HasBytes(c) == c.bytes

IsRejected(c) == c.rejected

-----------------------------------------------------------------------------
(* The transactions clients hold: of two accounts, ones that must cover all one   *)
(* has, and cost that or less; a malleable twin and other signatures nobody made;  *)
(* ones no block could contain.                                             *)

Tx(signer, n, upfront, cost, signature, gas) ==
  [signer |-> signer, nonce |-> n, upfront |-> upfront, cost |-> cost,
   signature |-> signature, gas |-> gas]

SomeRaw ==
  {Tx(a, n, 1, 1, "good", "fits") : n \in 0..2}
  \cup {Tx(a, 1, Funds, paid, "good", "fits") : paid \in {1, Funds}}
  \cup {Tx(a, 0, 1, 1, sig, "fits") :
          sig \in {"good", "highS", "badV", "unsigned", "offCurve"}}
  \cup {Tx(b, 0, 1, 1, "good", gas) : gas \in {"fits", "overBlock", "belowIntrinsic"}}

SomeOptions ==
  {[curve |-> TRUE, trusted |-> FALSE, auto |-> FALSE],
   [curve |-> FALSE, trusted |-> TRUE, auto |-> TRUE]}

-----------------------------------------------------------------------------
SendingInit ==
  /\ part \in {"estimate", "pool", "fill"}
  /\ part # "estimate" =>
       /\ method = "estimate"
       /\ request = Ask(0, 0, FALSE, 0, 0, NoGas)
       /\ engine = "default"
       /\ code = [works |-> {}, uses |-> 0, bytes |-> FALSE, rejected |-> FALSE]
  /\ part # "pool" => options = [curve |-> FALSE, trusted |-> TRUE, auto |-> TRUE]
  /\ part # "fill" =>
       /\ market = [baseFee |-> 1, tip |-> 1, blockBaseFee |-> 1]
       /\ funds = 3
  /\ Init /\ PoolInit /\ F!Init

SendingSpec == SendingInit /\ [][SendingNext]_sendingVars
=============================================================================
