-------------------------- MODULE MCBlockParameter ----------------------------
(* An instance of BlockParameter, and so of BlockIndex, for TLC: transactions   *)
(* with two logs and without.                                               *)
EXTENDS BlockParameter

CONSTANTS transfer, swap

SomeTx == {transfer, swap}

SomeLogs == (transfer :> 0) @@ (swap :> 2)

SomeGas == (transfer :> 1) @@ (swap :> 5)
=============================================================================
