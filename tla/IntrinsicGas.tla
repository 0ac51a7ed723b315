----------------------------- MODULE IntrinsicGas -----------------------------
(***************************************************************************)
(* What a transaction pays before its first opcode                         *)
(* (src/packages/webevm/src/intrinsic-gas.ts), in the three places that     *)
(* must agree on it: the node's estimate, the revm engine's budget, and the *)
(* transaction's own getIntrinsicGas(), which submitting is checked by.     *)
(*                                                                         *)
(* A request is known by how many bytes it carries, whether it creates a    *)
(* contract, how many addresses and keys its access list names, and the     *)
(* `gas` field.  Prices are constants; they are small where the search is    *)
(* explored and the protocol's own in module EngineBringUp.                  *)
(***************************************************************************)
EXTENDS Integers

CONSTANTS
  TxBase,       \* 21000
  ZeroByte,     \* 4
  NonZeroByte,  \* 16
  CreateBase,   \* 32000
  InitWord,     \* 2, per word of initcode (EIP-3860)
  WordSize,     \* 32
  Eip3860,      \* common.isActivatedEIP(3860)
  ListAddress,  \* 2400
  ListKey,      \* 1900
  NoGas         \* the request has no `gas` field

Request ==
  [zeros : Nat, nonZeros : Nat, create : BOOLEAN,
   addresses : Nat, keys : Nat, gas : Nat \cup {NoGas}]

ASSUME PriceAssumption ==
  /\ {TxBase, ZeroByte, NonZeroByte, CreateBase, InitWord, ListAddress, ListKey}
       \subseteq Nat
  /\ WordSize \in Nat \ {0}
  /\ Eip3860 \in BOOLEAN
  /\ NoGas \notin Nat

Words(r) == (r.zeros + r.nonZeros + WordSize - 1) \div WordSize

CreateGas(r) ==
  IF r.create THEN CreateBase + (IF Eip3860 THEN Words(r) * InitWord ELSE 0)
              ELSE 0

(* intrinsicGas: base, calldata, creation.  No access list: the read an      *)
(* engine is asked for carries none.                                        *)
IntrinsicGasOf(r) ==
  TxBase + r.zeros * ZeroByte + r.nonZeros * NonZeroByte + CreateGas(r)

(* accessListGas, which only eth_estimateGas adds.                          *)
AccessListGas(r) == r.addresses * ListAddress + r.keys * ListKey

(* The transaction's own getIntrinsicGas() (@ethereumjs/tx): with its list.  *)
TransactionFloor(r) ==
  IntrinsicGasOf(r) + r.addresses * ListAddress + r.keys * ListKey

(* The same request without its access list, as eth_fillTransaction has it. *)
WithoutList(r) == [r EXCEPT !.addresses = 0, !.keys = 0]
=============================================================================
