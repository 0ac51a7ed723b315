-------------------------------- MODULE Sending --------------------------------
(* What a client goes through to have a transaction run, together: the gas       *)
(* limit it is told (GasEstimate), the other fields it has filled in              *)
(* (FillTransaction), and the node's refusals and queue (TxPool).  The three     *)
(* share no state, so a behaviour is one of one of them, and leaves the others   *)
(* as they began.                                                           *)
EXTENDS GasEstimate, TxPool, FiniteSets

CONSTANTS Missing, Fee, Balances, MaxQueue, MaxNonce, MaxFilled

VARIABLES
  part,                                             \* which of the three moves
  market, nextNonce, funds, waiting, filled, last          \* FillTransaction's

F == INSTANCE FillTransaction
       WITH Funds <- Balances, nonce <- nextNonce, balance <- funds, pending <- waiting

ASSUME FillingAssumption == F!FillAssumption

filler == <<market, nextNonce, funds, waiting, filled, last>>

sendingVars == <<part, vars, poolVars, filler>>

SendingNext ==
  /\ UNCHANGED part
  /\ \/ part = "estimate" /\ Next   /\ UNCHANGED <<poolVars, filler>>
     \/ part = "pool"     /\ PoolNext /\ UNCHANGED <<vars, filler>>
     \/ part = "fill"     /\ F!Next /\ UNCHANGED <<vars, poolVars>>

-----------------------------------------------------------------------------
(* What is filled in, signed and sent fails for nothing but the money            *)
(* (FillTransaction).                                                       *)
FilledRuns == F!FilledRuns
=============================================================================
