----------------------------- MODULE StorageKeys -----------------------------
(***************************************************************************)
(* The node's storage keys (src/packages/webevm/src/storage-keys.ts): bytes     *)
(* packed two by two into code units, written through the asynchronous          *)
(* putStorage with any number of bytes, written and read through the             *)
(* synchronous store with exactly as many as a slot has, taken apart for a        *)
(* dump and put together again by a load.  A read under another key than the      *)
(* write's is no error: it reads zero.                                       *)
(*                                                                         *)
(* An address key is the same with another width.                            *)
(*                                                                         *)
(* Definitions marked FAULTY are not part of the model: each is a plausible *)
(* mistake in the definition after it, kept to show that the properties     *)
(* notice the mistake.                                                      *)
(***************************************************************************)
EXTENDS Integers, Sequences

CONSTANTS
  Byte,      \* bytes, of 0..255
  Half,      \* code units of a key; it has twice as many bytes
  MaxLength, \* bound on the bytes given to putStorage
  Value,     \* what a slot holds
  Zero       \* what one that was never written holds

ASSUME KeyAssumption ==
  /\ Byte \subseteq 0..255
  /\ 0 \in Byte
  /\ Half \in Nat \ {0}
  /\ MaxLength \in Nat
  /\ Zero \in Value

Width == 2 * Half

(* The bytes of a slot.                                                     *)
Key == [1..Width -> Byte]

(* The bytes a caller may give for one: setLengthLeft pads on the left, and       *)
(* keeps the last ones of too many.                                          *)
Given == UNION {[1..n -> Byte] : n \in 0..MaxLength}

VARIABLES
  store, \* packed key -> value: one account's slots
  truth  \* history variable: slot -> the value last written to it

keyVars == <<store, truth>>

SetLengthLeft(bytes) ==
  [i \in 1..Width |->
     LET j == i - Width + Len(bytes) IN IF j \in 1..Len(bytes) THEN bytes[j] ELSE 0]

(* FAULTY: the bytes of a unit in the wrong order when the second is zero.       *)
UnitOfNumber(high, low) == IF low = 0 THEN high ELSE high * 256 + low

(* `(high << 8) | low`.                                                     *)
Unit(high, low) == high * 256 + low

(* packSlotKey, packAddressKey, of exactly the bytes of a key.                 *)
Packed(key) == [i \in 1..Half |-> Unit(key[2 * i - 1], key[2 * i])]

(* FAULTY: any number of bytes is packed as it comes.                          *)
PackAnyLength(bytes) ==
  [i \in 1..((Len(bytes) + 1) \div 2) |->
     Unit(bytes[2 * i - 1], IF 2 * i > Len(bytes) THEN 0 ELSE bytes[2 * i])]

Pack(bytes) ==
  IF Len(bytes) = Width THEN Packed(bytes) ELSE Packed(SetLengthLeft(bytes))

(* FAULTY: the high byte of every unit is dropped.                             *)
LowBytes(packed) ==
  [i \in 1..Width |-> IF i % 2 = 1 THEN 0 ELSE packed[i \div 2] % 256]

(* packedKeyBytes, and unpack, whose hex digits stand for these bytes.           *)
PackedKeyBytes(packed) ==
  [i \in 1..Width |->
     IF i % 2 = 1 THEN packed[(i + 1) \div 2] \div 256 ELSE packed[i \div 2] % 256]

-----------------------------------------------------------------------------
Written(p, v) == [q \in DOMAIN store \cup {p} |-> IF q = p THEN v ELSE store[q]]

(* putStorage, from the default engine, a cheat or a genesis.                  *)
PutStorage(bytes, v) ==
  /\ store' = Written(Pack(bytes), v)
  /\ truth' = [truth EXCEPT ![SetLengthLeft(bytes)] = v]

(* setStorageAt, from revm's commit: its own 32 bytes.                         *)
SetSlotStorage(key, v) ==
  /\ store' = Written(Packed(key), v)
  /\ truth' = [truth EXCEPT ![key] = v]

(* dumpState writes every slot under its bytes; loadState packs them again.       *)
ReloadKeys ==
  /\ store' = [p \in {Pack(PackedKeyBytes(q)) : q \in DOMAIN store} |->
                 store[CHOOSE q \in DOMAIN store : Pack(PackedKeyBytes(q)) = p]]
  /\ UNCHANGED truth

KeyInit ==
  /\ store = [p \in {} |-> Zero]
  /\ truth = [key \in Key |-> Zero]

KeyNext ==
  \/ \E bytes \in Given, v \in Value : PutStorage(bytes, v)
  \/ \E key \in Key, v \in Value : SetSlotStorage(key, v)
  \/ ReloadKeys

KeySpec == KeyInit /\ [][KeyNext]_keyVars

-----------------------------------------------------------------------------
(* The kinds of the variables; every key the store holds is one a slot packs to.   *)
KeyTypeOK ==
  /\ DOMAIN store \subseteq {Packed(key) : key \in Key}
  /\ \A p \in DOMAIN store : store[p] \in Value
  /\ truth \in [Key -> Value]

(* storageAt, which revm reads by and getStorage too.                          *)
StorageAt(key) == IF Packed(key) \in DOMAIN store THEN store[Packed(key)] ELSE Zero

(* "THE DANGEROUS FAILURE IS TWO KEY FORMATS THAT BOTH WORK": whichever way a slot  *)
(* was written last, and through whatever dumps and loads, it reads as what was      *)
(* written, and no other slot does.                                          *)
ReadsAgree == \A key \in Key : StorageAt(key) = truth[key]
=============================================================================
