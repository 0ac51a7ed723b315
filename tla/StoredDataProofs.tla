--------------------------- MODULE StoredDataProofs ----------------------------
(***************************************************************************)
(* What a node stores, for every value of the constants.                    *)
(*                                                                         *)
(* The record (Persistence), for any requests, chains, adapters and number   *)
(* of nodes made, through every crash, failed save and closed database:       *)
(* what a caller was told is mined is in it, and no node stands behind it.    *)
(*                                                                         *)
(* The storage keys (StorageKeys), for every width, set of bytes and length   *)
(* a caller may give: packing is injective on the keys of one width,          *)
(* unpacking undoes it, and so every way of making a key finds what every     *)
(* other wrote.                                                             *)
(*                                                                         *)
(* The chain (BlockIndex, BlockParameter), for any transactions, logs, gas,    *)
(* fees, clocks and windows, and chains of any length: there is always one     *)
(* sequence of headers, linked parent to child, that every index is computed  *)
(* from.  So the indexes agree, a reload of a present dump changes no read,    *)
(* the fee history comes true, and what a parameter pins is the same in        *)
(* every request and stays put.                                             *)
(***************************************************************************)
EXTENDS Persistence, StorageKeys, BlockParameter, FiniteSetTheorems, SequenceTheorems,
        WellFoundedInduction, TLAPS

-----------------------------------------------------------------------------
(* The record. *)

(* A job runs, and requests wait, only in a node that is up; a job that      *)
(* saves has its block in the chain; one that was saved has it in the record. *)
Working ==
  /\ queue \in Seq(Request)
  /\ job # Idle \/ queue # <<>> => node = "up"
  /\ step \in {"save", "saving"} => job \in Mining /\ job \in ToSet(blocks)
  /\ step = "end" /\ job \in Mining =>
       record # None /\ job \in ToSet(record.blocks)

PersistInv == NeverBehindRecord /\ RepliedSurvives /\ Working

-----------------------------------------------------------------------------
(* Prefixes. *)

LEMMA AppendedSet ==
  ASSUME NEW S, NEW s \in Seq(S), NEW e \in S
  PROVE  ToSet(Append(s, e)) = ToSet(s) \cup {e}
<1>1. ASSUME NEW x \in ToSet(Append(s, e)) PROVE x \in ToSet(s) \cup {e}
  BY DEF ToSet
<1>2. e \in ToSet(Append(s, e))
  <2>1. Len(s) + 1 \in DOMAIN Append(s, e) /\ Append(s, e)[Len(s) + 1] = e
    OBVIOUS
  <2>2. QED
    BY <2>1 DEF ToSet
<1>3. ASSUME NEW x \in ToSet(s) PROVE x \in ToSet(Append(s, e))
  <2>1. PICK i \in DOMAIN s : x = s[i]
    BY DEF ToSet
  <2>2. i \in DOMAIN Append(s, e) /\ Append(s, e)[i] = x
    BY <2>1
  <2>3. QED
    BY <2>2 DEF ToSet
<1>4. QED
  BY <1>1, <1>2, <1>3

LEMMA PrefixFacts ==
  ASSUME NEW S, NEW s \in Seq(S), NEW t \in Seq(S)
  PROVE  /\ IsPrefix(s, s)
         /\ IsPrefix(s, t) => ToSet(s) \subseteq ToSet(t)
         /\ \A e \in S : IsPrefix(s, t) => IsPrefix(s, Append(t, e))
<1>1. IsPrefix(s, s)
  BY DEF IsPrefix
<1>2. IsPrefix(s, t) => ToSet(s) \subseteq ToSet(t)
  BY DEF IsPrefix, ToSet
<1>3. \A e \in S : IsPrefix(s, t) => IsPrefix(s, Append(t, e))
  BY DEF IsPrefix
<1>4. QED
  BY <1>1, <1>2, <1>3

-----------------------------------------------------------------------------
(* The steps. *)

LEMMA InitPersist == Init => PersistInv
BY PersistenceAssumption
   DEF Init, PersistInv, NeverBehindRecord, TypeOK, RepliedSurvives, Working,
       Dump, Dumps

(* What replaces the record: the dump of the node that is up, which holds the *)
(* blocks of every request the record of its chain owed.                    *)
LEMMA SavedOwes ==
  ASSUME PersistInv, node = "up", NEW owes,
         owes = IF record # None /\ record.chainId = chainId THEN owed
                                                             ELSE OwedBy(Dump)
  PROVE  /\ Dump # None
         /\ owes \subseteq Mining
         /\ \A r \in owes : r \in ToSet(Dump.blocks)
<1>1. Dump \in Dumps /\ Dump.blocks = blocks /\ owed \subseteq Mining
  BY DEF PersistInv, NeverBehindRecord, TypeOK, Dump
<1>2. Dump # None
  BY <1>1, PersistenceAssumption
<1>3. CASE record # None /\ record.chainId = chainId
  <2>1. IsPrefix(record.blocks, blocks) /\ record \in Dumps
    BY <1>3 DEF PersistInv, NeverBehindRecord, TypeOK
  <2>2. record.blocks \in Seq(Mining) /\ blocks \in Seq(Mining)
    BY <1>1, <2>1 DEF Dumps
  <2>3. ToSet(record.blocks) \subseteq ToSet(blocks)
    BY <2>1, <2>2, PrefixFacts
  <2>4. \A r \in owed : r \in ToSet(record.blocks)
    BY DEF PersistInv, RepliedSurvives
  <2>5. QED
    BY <1>1, <1>2, <1>3, <2>3, <2>4
<1>4. CASE ~ (record # None /\ record.chainId = chainId)
  <2>1. owes = OwedBy(Dump)
    BY <1>4
  <2>2. QED
    BY <1>1, <1>2, <2>1 DEF OwedBy
<1>5. QED
  BY <1>3, <1>4

(* The record becomes the dump while the node stays up.                     *)
LEMMA SavedInv ==
  ASSUME PersistInv, step \in {"save", "saving"},
         record' = Dump,
         owed' = IF record # None /\ record.chainId = chainId THEN owed
                                                             ELSE OwedBy(Dump),
         tx' = None, step' = "end",
         UNCHANGED <<conn, life, blocks, queue, job>>
  PROVE  PersistInv'
<1>1. /\ TypeOK
      /\ node = "up" /\ job # Idle /\ job \in Mining /\ job \in ToSet(blocks)
  BY DEF PersistInv, NeverBehindRecord, TypeOK, Working
<1>2. /\ Dump # None
      /\ owed' \subseteq Mining
      /\ \A r \in owed' : r \in ToSet(Dump.blocks)
  BY <1>1, SavedOwes
<1>3. Dump \in Dumps /\ Dump' = Dump /\ Dump.blocks = blocks
      /\ blocks \in Seq(Mining)
  BY <1>1 DEF TypeOK, Dump, Dumps, life
<1> HIDE DEF Dump
<1>4. TypeOK'
  BY <1>1, <1>2, <1>3 DEF TypeOK, life
<1>5. NeverBehindRecord'
  <2>1. IsPrefix(blocks, blocks)
    BY <1>3, PrefixFacts
  <2>2. QED
    BY <1>3, <1>4, <2>1 DEF NeverBehindRecord
<1>6. RepliedSurvives'
  BY <1>2 DEF RepliedSurvives
<1>7. Working'
  BY <1>1, <1>2, <1>3 DEF PersistInv, Working, life
<1>8. QED
  BY <1>5, <1>6, <1>7 DEF PersistInv

LEMMA CompletesInv ==
  ASSUME PersistInv, Completes
  PROVE  PersistInv'
<1>1. tx = Dump /\ step = "saving" /\ tx.chainId = chainId
  BY DEF Completes, PersistInv, NeverBehindRecord, TypeOK, Dump
<1>2. QED
  BY <1>1, SavedInv DEF Completes

LEMMA SaveInMemoryInv ==
  ASSUME PersistInv, SaveInMemory
  PROVE  PersistInv'
<1>1. tx = None
  BY DEF SaveInMemory, PersistInv, NeverBehindRecord, TypeOK
<1>2. QED
  BY <1>1, SavedInv DEF SaveInMemory

(* A dead page: the record is what it was, or what was being put, or, for    *)
(* the memory adapter, nothing.                                             *)
LEMMA CrashInv ==
  ASSUME PersistInv, Crash
  PROVE  PersistInv'
<1>1. /\ TypeOK /\ RepliedSurvives
      /\ node' = "none" /\ conn' = "unopened" /\ tx' = None /\ blocks' = <<>>
      /\ queue' = <<>> /\ job' = Idle /\ step' = "none"
      /\ UNCHANGED <<adapter, chainId, lives, answers>>
  BY DEF Crash, PersistInv, NeverBehindRecord
<1>2. Dump' \in Dumps
  BY <1>1 DEF TypeOK, Dump, Dumps
<1>3. /\ record' # None => record' \in Dumps
      /\ owed' \subseteq Mining
      /\ \A r \in owed' : record' # None /\ r \in ToSet(record'.blocks)
  <2>1. CASE UNCHANGED <<record, owed>>
    BY <1>1, <2>1 DEF TypeOK, RepliedSurvives
  <2>2. CASE record' = None /\ owed' = {}
    BY <2>2
  <2>3. CASE /\ tx # None
             /\ record' = tx
             /\ owed' = IF record # None /\ record.chainId = tx.chainId
                        THEN owed ELSE OwedBy(tx)
    <3>1. tx = Dump /\ tx.chainId = chainId /\ node = "up" /\ Dump \in Dumps
      BY <2>3 DEF PersistInv, NeverBehindRecord, TypeOK, Working, Dump
    <3>2. /\ owed' \subseteq Mining
          /\ \A r \in owed' : r \in ToSet(Dump.blocks)
      BY <2>3, <3>1, SavedOwes
    <3>3. QED
      BY <2>3, <3>1, <3>2
  <2>4. QED
    BY <2>1, <2>2, <2>3 DEF Crash
<1>4. TypeOK'
  BY <1>1, <1>2, <1>3, PersistenceAssumption DEF TypeOK
<1>5. QED
  BY <1>1, <1>3, <1>4
     DEF PersistInv, NeverBehindRecord, RepliedSurvives, Working

(* Steps that leave the record and the chain of blocks alone.               *)
LEMMA StillInv ==
  ASSUME PersistInv, TypeOK', Working',
         UNCHANGED <<record, chainId, blocks>>, node' = "up" => node = "up",
         owed' = owed
  PROVE  PersistInv'
BY DEF PersistInv, NeverBehindRecord, RepliedSurvives

LEMMA DatabaseInv ==
  ASSUME PersistInv, Opens \/ Closes \/ Fails \/ Aborts
  PROVE  PersistInv'
<1>1. /\ UNCHANGED <<record, life, blocks, queue, job, answers, owed>>
      /\ Dump' = Dump
  BY DEF Opens, Closes, Fails, Aborts, work, Dump, life
<1>2. TypeOK'
  <2>1. CASE Opens \/ Closes
    BY <1>1, <2>1 DEF Opens, Closes, PersistInv, NeverBehindRecord, TypeOK, life,
       work
  <2>2. CASE Fails \/ Aborts
    BY <1>1, <2>2 DEF Fails, Aborts, AfterError, PersistInv, NeverBehindRecord,
       TypeOK, life
  <2>3. QED
    BY <2>1, <2>2
<1>3. Working'
  BY <1>1 DEF Opens, Closes, Fails, Aborts, AfterError, PersistInv, Working, life,
     work
<1>4. QED
  BY <1>1, <1>2, <1>3, StillInv DEF life

LEMMA LifeInv ==
  ASSUME PersistInv,
         \/ \E c \in ChainId, fresh \in BOOLEAN : Create(c, fresh)
         \/ Load \/ LoadFails \/ Dispose
  PROVE  PersistInv'
<1>1. /\ TypeOK
      /\ UNCHANGED <<record, tx, work, owed, adapter>>
  BY DEF Create, Load, LoadFails, Dispose, PersistInv, NeverBehindRecord, database
<1>2. job = Idle /\ queue = <<>> /\ step = "none" /\ tx = None
  BY <1>1 DEF Create, Load, LoadFails, Dispose, PersistInv, Working, TypeOK
<1>3. ASSUME NEW c \in ChainId, NEW fresh \in BOOLEAN, Create(c, fresh)
      PROVE  PersistInv'
  <2>1. Dump' \in Dumps
    BY <1>3 DEF Create, Dump, Dumps
  <2>2. TypeOK'
    BY <1>1, <1>2, <1>3, <2>1 DEF Create, GetDb, TypeOK, work
  <2>3. QED
    BY <1>1, <1>2, <1>3, <2>2
       DEF Create, PersistInv, NeverBehindRecord, RepliedSurvives, Working, work
<1>4. CASE Load
  <2>1. /\ blocks' = Loaded /\ node' = "up" /\ UNCHANGED chainId
        /\ conn' = conn
    BY <1>4 DEF Load, database
  <2>2. Loaded \in Seq(Mining)
    BY <1>1 DEF Loaded, TypeOK, Dumps
  <2>3. Dump' \in Dumps
    BY <1>1, <2>1, <2>2 DEF Dump, Dumps, TypeOK
  <2>4. TypeOK'
    BY <1>1, <1>2, <2>1, <2>3 DEF TypeOK, work
  <2>5. NeverBehindRecord'
    <3>1. IsPrefix(Loaded, Loaded)
      BY <2>2, PrefixFacts
    <3>2. record # None /\ record.chainId = chainId => Loaded = record.blocks
      BY DEF Loaded
    <3>3. QED
      BY <1>1, <2>1, <2>4, <3>1, <3>2 DEF NeverBehindRecord
  <2>6. QED
    BY <1>1, <1>2, <2>1, <2>5
       DEF PersistInv, RepliedSurvives, Working, work
<1>5. CASE LoadFails \/ Dispose
  <2>1. /\ node' \in {"failed", "none"}
        /\ UNCHANGED <<conn, chainId, blocks>>
    BY <1>5 DEF LoadFails, Dispose, database
  <2>2. TypeOK' /\ Working'
    BY <1>1, <1>2, <2>1 DEF TypeOK, PersistInv, Working, Dump, work
  <2>3. QED
    BY <1>1, <2>1, <2>2, StillInv
<1>6. QED
  BY <1>3, <1>4, <1>5

LEMMA RequestInv ==
  ASSUME PersistInv,
         (\E r \in Request : Submit(r)) \/ Start \/ Save
  PROVE  PersistInv'
<1>1. /\ TypeOK /\ Working
      /\ UNCHANGED <<record, conn, life, blocks, answers, owed>>
      /\ Dump' = Dump
  BY DEF Submit, Start, Save, PersistInv, NeverBehindRecord, database, Dump, life
<1>2. TypeOK'
  <2>1. CASE \E r \in Request : Submit(r)
    BY <1>1, <2>1 DEF Submit, TypeOK, database, life
  <2>2. CASE Start
    <3>1. tx = None /\ tx' = None /\ step' = "execute"
      BY <1>1, <2>2 DEF Start, TypeOK, database
    <3>2. job' \in Request
      BY <1>1, <2>2 DEF Start, Working
    <3>3. QED
      BY <1>1, <3>1, <3>2, PersistenceAssumption DEF TypeOK, life
  <2>3. CASE Save
    BY <1>1, <2>3 DEF Save, AfterPut, TypeOK, Working, life
  <2>4. QED
    BY <2>1, <2>2, <2>3
<1>3. Working'
  <2>1. CASE \E r \in Request : Submit(r)
    BY <1>1, <2>1 DEF Submit, Working, life
  <2>2. CASE Start
    BY <1>1, <2>2 DEF Start, Working, life
  <2>3. CASE Save
    BY <1>1, <2>3 DEF Save, AfterPut, TypeOK, Working, life
  <2>4. QED
    BY <2>1, <2>2, <2>3
<1>4. QED
  BY <1>1, <1>2, <1>3, StillInv DEF life

(* A block is mined: the record stays a beginning of the chain.             *)
LEMMA ExecuteInv ==
  ASSUME PersistInv, Execute
  PROVE  PersistInv'
<1>1. /\ TypeOK /\ Working /\ tx = None /\ job \in Request
      /\ UNCHANGED <<database, life, queue, job, answers, owed>>
  BY DEF Execute, PersistInv, NeverBehindRecord, TypeOK
<1>2. CASE /\ job \in Mining
           /\ blocks' = Append(blocks, job)
           /\ step' = "save"
  <2>1. blocks \in Seq(Mining) /\ blocks' \in Seq(Mining) /\ chainId \in ChainId
    BY <1>1, <1>2 DEF TypeOK, Dump, Dumps
  <2>2. job \in ToSet(blocks')
    BY <1>2, <2>1, AppendedSet
  <2>3. Dump' \in Dumps
    BY <1>1, <2>1 DEF Dump, Dumps, life
  <2>4. TypeOK'
    BY <1>1, <1>2, <2>3, PersistenceAssumption DEF TypeOK, database, life
  <2>5. NeverBehindRecord'
    <3>1. record # None => record.blocks \in Seq(Mining)
      BY <1>1 DEF TypeOK, Dumps
    <3>2. QED
      BY <1>1, <1>2, <2>1, <2>4, <3>1, PrefixFacts
         DEF PersistInv, NeverBehindRecord, database, life
  <2>6. QED
    BY <1>1, <1>2, <2>2, <2>5
       DEF PersistInv, RepliedSurvives, Working, database, life
<1>3. CASE /\ UNCHANGED blocks
           /\ \/ job \notin Mining /\ step' = "end"
              \/ step' = "refused"
  <2>1. Dump' = Dump
    BY <1>1, <1>3 DEF Dump, life
  <2>2. TypeOK' /\ Working'
    BY <1>1, <1>3, <2>1, PersistenceAssumption
       DEF TypeOK, Working, database, life
  <2>3. QED
    BY <1>1, <1>3, <2>2, StillInv DEF database, life
<1>4. QED
  BY <1>2, <1>3 DEF Execute

(* A caller is told, and what it is told done the record holds.             *)
LEMMA EndInv ==
  ASSUME PersistInv, End
  PROVE  PersistInv'
<1>1. /\ TypeOK /\ Working /\ tx = None
      /\ UNCHANGED <<database, life, blocks, queue>>
      /\ job' = Idle /\ step' = "none"
      /\ owed' = IF step = "end" /\ job \in Mining THEN owed \cup {job} ELSE owed
  BY DEF End, PersistInv, NeverBehindRecord, TypeOK
<1>2. TypeOK' /\ Working' /\ Dump' = Dump
  BY <1>1 DEF TypeOK, Working, Dump, database, life
<1>3. \A r \in owed' : record # None /\ r \in ToSet(record.blocks)
  BY <1>1 DEF PersistInv, RepliedSurvives, Working
<1>4. QED
  BY <1>1, <1>2, <1>3
     DEF PersistInv, NeverBehindRecord, RepliedSurvives, database, life

LEMMA NextPersist == PersistInv /\ [Next]_vars => PersistInv'
<1> SUFFICES ASSUME PersistInv, [Next]_vars PROVE PersistInv'
  OBVIOUS
<1>1. CASE UNCHANGED vars
  BY <1>1 DEF vars, database, life, work, PersistInv, NeverBehindRecord, TypeOK,
     RepliedSurvives, Working, Dump
<1>2. QED
  BY <1>1, CompletesInv, SaveInMemoryInv, CrashInv, DatabaseInv, LifeInv,
     RequestInv, ExecuteInv, EndInv DEF Next, Environment, Settling

-----------------------------------------------------------------------------
LEMMA PersistHolds == Spec => []PersistInv
<1>1. QED
  BY InitPersist, NextPersist, PTL DEF Spec

(* "A request does not resolve before its state is durable": what a caller    *)
(* was told is done is in the record, after any crash, until another chain   *)
(* takes the record (persistIfNeeded of node.ts, save of persistence.ts).    *)
THEOREM RepliesSurvive == Spec => []RepliedSurvives
<1>1. PersistInv => RepliedSurvives
  BY DEF PersistInv
<1>2. QED
  BY <1>1, PersistHolds, PTL

(* What a node has mined begins with what the record of its chain holds, so  *)
(* the next save takes nothing away (createNode's load, and save).           *)
THEOREM NodesNeverBehind == Spec => []NeverBehindRecord
<1>1. PersistInv => NeverBehindRecord
  BY DEF PersistInv
<1>2. QED
  BY <1>1, PersistHolds, PTL

-----------------------------------------------------------------------------
(* The storage keys. *)

USE KeyAssumption

(* The two bytes of a code unit are the quotient and the remainder.         *)
LEMMA UnitSplits ==
  ASSUME NEW high \in 0..255, NEW low \in 0..255
  PROVE  /\ Unit(high, low) \div 256 = high
         /\ Unit(high, low) % 256 = low
  BY DEF Unit

(* Every byte of a key is one half of one unit.                             *)
LEMMA Halves ==
  ASSUME NEW i \in 1..Width
  PROVE  /\ i % 2 = 1 => /\ (i + 1) \div 2 \in 1..Half
                         /\ 2 * ((i + 1) \div 2) - 1 = i
                         /\ 2 * ((i + 1) \div 2) \in 1..Width
         /\ i % 2 # 1 => /\ i \div 2 \in 1..Half
                         /\ 2 * (i \div 2) = i
                         /\ 2 * (i \div 2) - 1 \in 1..Width
  BY DEF Width

LEMMA KeyBytes ==
  ASSUME NEW key \in Key, NEW i \in 1..Width
  PROVE  key[i] \in Byte /\ key[i] \in 0..255
  BY DEF Key

LEMMA UnitsOfKey ==
  ASSUME NEW key \in Key, NEW j \in 1..Half
  PROVE  Packed(key)[j] = Unit(key[2 * j - 1], key[2 * j])
  BY DEF Packed

(* packedKeyBytes and unpack undo the packing.                              *)
LEMMA UnpackUndoes ==
  ASSUME NEW key \in Key
  PROVE  PackedKeyBytes(Packed(key)) = key
<1>1. ASSUME NEW i \in 1..Width
      PROVE  PackedKeyBytes(Packed(key))[i] = key[i]
  <2>1. PackedKeyBytes(Packed(key))[i] =
          IF i % 2 = 1 THEN Packed(key)[(i + 1) \div 2] \div 256
                       ELSE Packed(key)[i \div 2] % 256
    BY DEF PackedKeyBytes
  <2>2. CASE i % 2 = 1
    <3> DEFINE j == (i + 1) \div 2
    <3>1. j \in 1..Half /\ 2 * j - 1 = i /\ 2 * j \in 1..Width
      BY <2>2, Halves
    <3> HIDE DEF j
    <3>2. Packed(key)[j] = Unit(key[i], key[2 * j])
      BY <3>1, UnitsOfKey
    <3>3. Unit(key[i], key[2 * j]) \div 256 = key[i]
      <4>1. key[i] \in 0..255 /\ key[2 * j] \in 0..255
        BY <3>1, KeyBytes
      <4>2. PICK h \in 0..255, l \in 0..255 : h = key[i] /\ l = key[2 * j]
        BY <4>1
      <4>3. Unit(h, l) \div 256 = h
        BY UnitSplits
      <4>4. QED
        BY <4>2, <4>3
    <3>4. QED
      BY <2>1, <2>2, <3>2, <3>3 DEF j
  <2>3. CASE i % 2 # 1
    <3> DEFINE j == i \div 2
    <3>1. j \in 1..Half /\ 2 * j = i /\ 2 * j - 1 \in 1..Width
      BY <2>3, Halves
    <3> HIDE DEF j
    <3>2. Packed(key)[j] = Unit(key[2 * j - 1], key[i])
      BY <3>1, UnitsOfKey
    <3>3. Unit(key[2 * j - 1], key[i]) % 256 = key[i]
      <4>1. key[2 * j - 1] \in 0..255 /\ key[i] \in 0..255
        BY <3>1, KeyBytes
      <4>2. PICK h \in 0..255, l \in 0..255 : h = key[2 * j - 1] /\ l = key[i]
        BY <4>1
      <4>3. Unit(h, l) % 256 = l
        BY UnitSplits
      <4>4. QED
        BY <4>2, <4>3
    <3>4. QED
      BY <2>1, <2>3, <3>2, <3>3 DEF j
  <2>4. QED
    BY <2>2, <2>3
<1>2. PackedKeyBytes(Packed(key)) = [i \in 1..Width |-> PackedKeyBytes(Packed(key))[i]]
  BY DEF PackedKeyBytes
<1>3. key = [i \in 1..Width |-> key[i]]
  BY DEF Key
<1>4. QED
  BY <1>1, <1>2, <1>3

(* Two slots never share a storage key.                                     *)
THEOREM PackingInjective ==
  ASSUME NEW k \in Key, NEW l \in Key, Packed(k) = Packed(l)
  PROVE  k = l
  BY UnpackUndoes

(* Whatever a caller gives is padded to a key, and packed as that key.      *)
LEMMA GivenPads ==
  ASSUME NEW bytes \in Given
  PROVE  SetLengthLeft(bytes) \in Key
<1>1. PICK n \in 0..MaxLength : bytes \in [1..n -> Byte]
  BY DEF Given
<1>2. Len(bytes) = n
  BY <1>1
<1>3. ASSUME NEW i \in 1..Width
      PROVE  (IF i - Width + Len(bytes) \in 1..Len(bytes)
              THEN bytes[i - Width + Len(bytes)] ELSE 0) \in Byte
  BY <1>1, <1>2
<1>4. QED
  BY <1>3 DEF SetLengthLeft, Key

LEMMA KeyLength ==
  ASSUME NEW bytes, DOMAIN bytes = 1..Width, bytes \in [1..Width -> Byte]
  PROVE  Len(bytes) = Width
  BY DEF Width

LEMMA FullIsItself ==
  ASSUME NEW bytes \in Key
  PROVE  SetLengthLeft(bytes) = bytes
<1>1. Len(bytes) = Width
  BY KeyLength DEF Key
<1>2. \A i \in 1..Width : i - Width + Len(bytes) = i /\ i \in 1..Len(bytes)
  BY <1>1 DEF Width
<1>3. QED
  BY <1>1, <1>2 DEF SetLengthLeft, Key

LEMMA PackOfGiven ==
  ASSUME NEW bytes \in Given
  PROVE  Pack(bytes) = Packed(SetLengthLeft(bytes))
<1>1. CASE Len(bytes) = Width
  <2>1. PICK n \in 0..MaxLength : bytes \in [1..n -> Byte]
    BY DEF Given
  <2>2. n = Width
    BY <1>1, <2>1
  <2>3. bytes \in Key
    BY <2>1, <2>2 DEF Key
  <2>4. QED
    BY <1>1, <2>3, FullIsItself DEF Pack
<1>2. CASE Len(bytes) # Width
  BY <1>2 DEF Pack
<1>3. QED
  BY <1>1, <1>2

LEMMA PackOfKey ==
  ASSUME NEW key \in Key
  PROVE  Pack(key) = Packed(key)
  BY FullIsItself DEF Pack

LEMMA RepackIsItself ==
  ASSUME NEW q, q \in {Packed(key) : key \in Key}
  PROVE  Pack(PackedKeyBytes(q)) = q
<1>1. PICK key \in Key : q = Packed(key)
  OBVIOUS
<1>2. QED
  BY <1>1, UnpackUndoes, PackOfKey

-----------------------------------------------------------------------------
KeyInv == KeyTypeOK /\ ReadsAgree

LEMMA InitHolds == KeyInit => KeyInv
  BY DEF KeyInit, KeyInv, KeyTypeOK, ReadsAgree, StorageAt

(* One write, under the key of its slot.                                    *)
LEMMA WriteKeeps ==
  ASSUME KeyInv, NEW key \in Key, NEW v \in Value,
         store' = Written(Packed(key), v),
         truth' = [truth EXCEPT ![key] = v]
  PROVE  KeyInv'
<1>1. KeyTypeOK'
  BY DEF KeyInv, KeyTypeOK, Written
<1>2. ASSUME NEW k \in Key PROVE StorageAt(k)' = truth'[k]
  <2>1. truth \in [Key -> Value]
    BY DEF KeyInv, KeyTypeOK
  <2>2. StorageAt(k) = truth[k]
    BY DEF KeyInv, ReadsAgree
  <2>3. CASE k = key
    BY <2>1, <2>3 DEF StorageAt, Written
  <2>4. CASE k # key
    <3>1. Packed(k) # Packed(key)
      BY <2>4, PackingInjective
    <3>2. QED
      BY <2>1, <2>2, <2>4, <3>1 DEF StorageAt, Written
  <2>5. QED
    BY <2>3, <2>4
<1>3. QED
  BY <1>1, <1>2 DEF KeyInv, ReadsAgree

(* A dump and a load give the store itself back.                            *)
LEMMA ReloadKeeps ==
  ASSUME KeyInv, ReloadKeys
  PROVE  KeyInv'
<1>1. \A q \in DOMAIN store : Pack(PackedKeyBytes(q)) = q
  BY RepackIsItself DEF KeyInv, KeyTypeOK
<1>2. {Pack(PackedKeyBytes(q)) : q \in DOMAIN store} = DOMAIN store
  BY <1>1
<1>3. \A p \in DOMAIN store :
        (CHOOSE q \in DOMAIN store : Pack(PackedKeyBytes(q)) = p) = p
  BY <1>1
<1>4. /\ DOMAIN store' = DOMAIN store
      /\ \A p \in DOMAIN store : store'[p] = store[p]
      /\ truth' = truth
  BY <1>2, <1>3 DEF ReloadKeys
<1>5. KeyTypeOK'
  BY <1>4 DEF KeyInv, KeyTypeOK
<1>6. ReadsAgree'
  BY <1>4 DEF KeyInv, ReadsAgree, StorageAt
<1>7. QED
  BY <1>5, <1>6 DEF KeyInv

LEMMA NextKeeps == KeyInv /\ [KeyNext]_keyVars => KeyInv'
<1> SUFFICES ASSUME KeyInv, [KeyNext]_keyVars PROVE KeyInv'
  OBVIOUS
<1>1. ASSUME NEW bytes \in Given, NEW v \in Value, PutStorage(bytes, v)
      PROVE  KeyInv'
  BY <1>1, GivenPads, PackOfGiven, WriteKeeps DEF PutStorage
<1>2. ASSUME NEW key \in Key, NEW v \in Value, SetSlotStorage(key, v)
      PROVE  KeyInv'
  BY <1>2, WriteKeeps DEF SetSlotStorage
<1>3. CASE ReloadKeys
  BY <1>3, ReloadKeeps
<1>4. CASE UNCHANGED keyVars
  BY <1>4 DEF keyVars, KeyInv, KeyTypeOK, ReadsAgree, StorageAt
<1>5. QED
  BY <1>1, <1>2, <1>3, <1>4 DEF KeyNext

(* Every storage key the node holds is one a slot of the full width packs to. *)
THEOREM KeysWellFormed == KeySpec => []KeyTypeOK
<1>1. KeyInv => KeyTypeOK
  BY DEF KeyInv
<1>2. QED
  BY InitHolds, NextKeeps, <1>1, PTL DEF KeySpec

(* A slot reads as what was last written to it, by whichever side wrote it.  *)
THEOREM KeysAgreed == KeySpec => []ReadsAgree
<1>1. KeyInv => ReadsAgree
  BY DEF KeyInv
<1>2. QED
  BY InitHolds, NextKeeps, <1>1, PTL DEF KeySpec

-----------------------------------------------------------------------------
(* Induction along a sequence, and the two things that are computed along one:   *)
(* a sequence of sequences flattened, and a total.                            *)

LEMMA LeastOf ==
  ASSUME NEW S \in SUBSET Nat, S # {}
  PROVE  \E m \in S : \A k \in S : m <= k
<1> DEFINE R == {e \in Nat \X Nat : e[1] < e[2]}
<1>1. IsWellFoundedOn(R, Nat)
  BY NatLessThanWellFounded DEF OpToRel
<1>2. PICK m \in S : \A k \in S : ~ (<<k, m>> \in R)
  <2> HIDE DEF R
  <2>1. QED
    BY <1>1, WFMin
<1>3. \A k \in S : m <= k
  <2>1. ASSUME NEW k \in S PROVE m <= k
    <3>1. k \in Nat /\ m \in Nat
      OBVIOUS
    <3>2. k < m => <<k, m>> \in R
      BY <3>1
    <3>3. ~ (<<k, m>> \in R)
      BY <1>2
    <3>4. QED
      BY <3>1, <3>2, <3>3
  <2>2. QED
    BY <2>1
<1>4. QED
  BY <1>3

LEMMA AlongAll ==
  ASSUME NEW n \in Nat, NEW P, 0 \in P,
         \A i \in 1..n : (i - 1) \in P => i \in P
  PROVE  \A i \in 0..n : i \in P
<1>1. SUFFICES ASSUME NEW i \in 0..n, i \notin P PROVE FALSE
  OBVIOUS
<1> DEFINE S == {k \in 0..n : k \notin P}
<1>2. PICK m \in S : \A k \in S : m <= k
  <2>1. S \in SUBSET Nat /\ S # {}
    BY <1>1
  <2> HIDE DEF S
  <2>2. QED
    BY <2>1, LeastOf
<1>3. /\ m \in 0..n /\ m \notin P
      /\ m # 0
  BY <1>2
<1>4. /\ m \in 1..n
      /\ (m - 1) \in 0..n
      /\ ~ (m <= m - 1)
  BY <1>3
<1>5. (m - 1) \in P
  BY <1>2, <1>4
<1>6. QED
  BY <1>3, <1>4, <1>5

(* What FlattenSeq computes, part by part.                                    *)
FlattenedTo(ss, f, n) ==
  f = [i \in 1..n |-> IF i = 1 THEN ss[i] ELSE f[i - 1] \o ss[i]]

LEMMA FlattenUnfolds ==
  ASSUME NEW S, NEW ss \in Seq(Seq(S)), Len(ss) # 0
  PROVE  \E f : FlattenedTo(ss, f, Len(ss)) /\ FlattenSeq(ss) = f[Len(ss)]
<1> DEFINE P == {n \in 0..Len(ss) : n = 0 \/ \E f : FlattenedTo(ss, f, n)}
<1>1. Len(ss) \in Nat /\ 0 \in P
  OBVIOUS
<1>2. ASSUME NEW n \in 1..Len(ss), (n - 1) \in P PROVE n \in P
  <2>1. CASE n = 1
    <3> DEFINE f == [i \in 1..1 |-> ss[1]]
    <3>1. f = [i \in 1..1 |-> IF i = 1 THEN ss[i] ELSE f[i - 1] \o ss[i]]
      OBVIOUS
    <3>2. FlattenedTo(ss, f, 1)
      <4> HIDE DEF f
      <4>1. QED
        BY <3>1 DEF FlattenedTo
    <3> HIDE DEF f
    <3>3. QED
      BY <2>1, <3>2
  <2>2. CASE n # 1
    <3>1. n - 1 # 0 /\ n - 1 \in 1..Len(ss) /\ n \in Nat
      BY <2>2
    <3>2. PICK f : FlattenedTo(ss, f, n - 1)
      BY <1>2, <3>1
    <3> DEFINE g == [i \in 1..n |-> IF i = n THEN f[n - 1] \o ss[n] ELSE f[i]]
    <3>3. ASSUME NEW i \in 1..n
          PROVE  g[i] = IF i = 1 THEN ss[i] ELSE g[i - 1] \o ss[i]
      <4>1. CASE i = n
        <5>1. i - 1 \in 1..n /\ i - 1 # n /\ i # 1
          BY <3>1, <4>1
        <5>2. g[i] = f[i - 1] \o ss[i] /\ g[i - 1] = f[i - 1]
          BY <4>1, <5>1
        <5>3. QED
          BY <5>1, <5>2
      <4>2. CASE i # n
        <5>1. i \in 1..(n - 1) /\ g[i] = f[i]
          BY <4>2
        <5>2. f[i] = IF i = 1 THEN ss[i] ELSE f[i - 1] \o ss[i]
          BY <3>2, <5>1 DEF FlattenedTo
        <5>3. i # 1 => g[i - 1] = f[i - 1]
          BY <5>1
        <5>4. QED
          BY <5>1, <5>2, <5>3
      <4>3. QED
        BY <4>1, <4>2
    <3>4. g = [i \in 1..n |-> g[i]]
      OBVIOUS
    <3>5. FlattenedTo(ss, g, n)
      <4> HIDE DEF g
      <4>1. QED
        BY <3>3, <3>4 DEF FlattenedTo
    <3> HIDE DEF g
    <3>6. QED
      BY <3>5
  <2>3. QED
    BY <2>1, <2>2
<1>3. \A n \in 0..Len(ss) : n \in P
  <2> HIDE DEF P
  <2>1. QED
    BY <1>1, <1>2, AlongAll
<1>4. \E f : FlattenedTo(ss, f, Len(ss))
  BY <1>1, <1>3
<1>5. FlattenSeq(ss) = (CHOOSE f : FlattenedTo(ss, f, Len(ss)))[Len(ss)]
  BY DEF FlattenSeq, FlattenedTo
<1>6. QED
  BY <1>4, <1>5

LEMMA FlattenNone == FlattenSeq(<<>>) = <<>>
BY DEF FlattenSeq

(* One more sequence is flattened after the others.                            *)
LEMMA FlattenMore ==
  ASSUME NEW S, NEW ss \in Seq(Seq(S)), NEW s \in Seq(S)
  PROVE  FlattenSeq(Append(ss, s)) = FlattenSeq(ss) \o s
<1> DEFINE tt == Append(ss, s)
<1>1. /\ tt \in Seq(Seq(S)) /\ Len(tt) = Len(ss) + 1 /\ Len(ss) \in Nat /\ Len(tt) # 0
      /\ tt[Len(ss) + 1] = s /\ \A i \in 1..Len(ss) : tt[i] = ss[i]
  OBVIOUS
<1> HIDE DEF tt
<1>2. PICK g : FlattenedTo(tt, g, Len(tt)) /\ FlattenSeq(tt) = g[Len(tt)]
  BY <1>1, FlattenUnfolds
<1>3. CASE Len(ss) = 0
  <2>1. ss = <<>> /\ FlattenSeq(ss) = <<>>
    BY <1>3, FlattenNone
  <2>2. g[1] = s
    BY <1>1, <1>2, <1>3 DEF FlattenedTo
  <2>3. <<>> \o s = s
    OBVIOUS
  <2>4. QED
    BY <1>1, <1>2, <1>3, <2>1, <2>2, <2>3 DEF tt
<1>4. CASE Len(ss) # 0
  <2>1. PICK f : FlattenedTo(ss, f, Len(ss)) /\ FlattenSeq(ss) = f[Len(ss)]
    BY <1>4, FlattenUnfolds
  <2> DEFINE P == {n \in 0..Len(ss) : n = 0 \/ f[n] = g[n]}
  <2>2. 0 \in P
    BY <1>1
  <2>3. ASSUME NEW n \in 1..Len(ss), (n - 1) \in P PROVE n \in P
    <3>1. n \in 1..Len(tt)
      BY <1>1
    <3>2. f[n] = IF n = 1 THEN ss[n] ELSE f[n - 1] \o ss[n]
      BY <2>1 DEF FlattenedTo
    <3>3. g[n] = IF n = 1 THEN tt[n] ELSE g[n - 1] \o tt[n]
      BY <1>2, <3>1 DEF FlattenedTo
    <3>4. /\ f[n] = IF n = 1 THEN ss[n] ELSE f[n - 1] \o ss[n]
          /\ g[n] = IF n = 1 THEN tt[n] ELSE g[n - 1] \o tt[n]
      BY <3>2, <3>3
    <3>5. n = 1 \/ f[n - 1] = g[n - 1]
      BY <2>3
    <3>6. tt[n] = ss[n]
      BY <1>1
    <3>7. QED
      BY <3>4, <3>5, <3>6
  <2>4. \A n \in 0..Len(ss) : n \in P
    <3> HIDE DEF P
    <3>1. QED
      BY <1>1, <2>2, <2>3, AlongAll
  <2>5. f[Len(ss)] = g[Len(ss)]
    BY <1>1, <1>4, <2>4
  <2>6. g[Len(ss) + 1] = g[(Len(ss) + 1) - 1] \o tt[Len(ss) + 1]
    <3>1. Len(ss) + 1 \in 1..Len(tt) /\ Len(ss) + 1 # 1
      BY <1>1, <1>4
    <3>2. QED
      BY <1>2, <3>1 DEF FlattenedTo
  <2>7. (Len(ss) + 1) - 1 = Len(ss)
    BY <1>1
  <2>8. QED
    BY <1>1, <1>2, <2>1, <2>5, <2>6, <2>7 DEF tt
<1>5. QED
  BY <1>3, <1>4

(* A sequence is built from its beginnings.                                   *)
LEMMA BuiltFromBeginnings ==
  ASSUME NEW S, NEW n \in Nat, NEW g \in [1..(n + 1) -> S]
  PROVE  /\ [i \in 1..n |-> g[i]] \in Seq(S)
         /\ g[n + 1] \in S
         /\ g = Append([i \in 1..n |-> g[i]], g[n + 1])
  OBVIOUS

(* Flattening the first n + 1 of a family, from flattening the first n.           *)
LEMMA FlattenNext ==
  ASSUME NEW S, NEW n \in Nat, NEW g \in [1..(n + 1) -> Seq(S)]
  PROVE  FlattenSeq(g) = FlattenSeq([i \in 1..n |-> g[i]]) \o g[n + 1]
<1> DEFINE h == [i \in 1..n |-> g[i]]
<1>1. h \in Seq(Seq(S)) /\ g[n + 1] \in Seq(S) /\ g = Append(h, g[n + 1])
  BY BuiltFromBeginnings
<1> HIDE DEF h
<1>2. FlattenSeq(Append(h, g[n + 1])) = FlattenSeq(h) \o g[n + 1]
  BY <1>1, FlattenMore
<1>3. FlattenSeq(g) = FlattenSeq(h) \o g[n + 1]
  BY <1>1, <1>2
<1>4. QED
  BY <1>3 DEF h

LEMMA FlattenType ==
  ASSUME NEW S, NEW n \in Nat, NEW g \in [1..n -> Seq(S)]
  PROVE  FlattenSeq(g) \in Seq(S)
<1> DEFINE P == {k \in 0..n : FlattenSeq([i \in 1..k |-> g[i]]) \in Seq(S)}
<1>1. 0 \in P
  <2>1. [i \in 1..0 |-> g[i]] = <<>>
    OBVIOUS
  <2>2. FlattenSeq([i \in 1..0 |-> g[i]]) = <<>>
    BY <2>1, FlattenNone
  <2>3. <<>> \in Seq(S) /\ 0 \in 0..n
    OBVIOUS
  <2>4. FlattenSeq([i \in 1..0 |-> g[i]]) \in Seq(S)
    BY <2>2, <2>3
  <2>5. QED
    BY <2>3, <2>4
<1>2. ASSUME NEW k \in 1..n, (k - 1) \in P PROVE k \in P
  <2>1. PICK j \in Nat : j = k - 1 /\ k = j + 1
    OBVIOUS
  <2> DEFINE h == [i \in 1..(j + 1) |-> g[i]]
  <2>2. /\ h \in [1..(j + 1) -> Seq(S)]
        /\ [i \in 1..j |-> h[i]] = [i \in 1..j |-> g[i]]
        /\ h[j + 1] \in Seq(S)
    BY <2>1
  <2>3. FlattenSeq([i \in 1..j |-> g[i]]) \in Seq(S)
    BY <1>2, <2>1
  <2>4. FlattenSeq(h) = FlattenSeq([i \in 1..j |-> h[i]]) \o h[j + 1]
    <3> HIDE DEF h
    <3>1. QED
      BY <2>2, FlattenNext
  <2>5. FlattenSeq(h) \in Seq(S)
    <3>1. PICK x \in Seq(S) : x = FlattenSeq([i \in 1..j |-> h[i]])
      BY <2>2, <2>3
    <3>2. PICK y \in Seq(S) : y = h[j + 1]
      BY <2>2
    <3>3. x \o y \in Seq(S)
      OBVIOUS
    <3>4. FlattenSeq(h) = x \o y
      BY <2>4, <3>1, <3>2
    <3> HIDE DEF h
    <3>5. QED
      BY <3>3, <3>4
  <2>6. QED
    BY <2>1, <2>5
<1>3. \A k \in 0..n : k \in P
  <2> HIDE DEF P
  <2>1. QED
    BY <1>1, <1>2, AlongAll
<1>4. [i \in 1..n |-> g[i]] = g
  OBVIOUS
<1>5. FlattenSeq([i \in 1..n |-> g[i]]) \in Seq(S)
  BY <1>3
<1>6. QED
  BY <1>4, <1>5

(* What Total computes, number by number.                                     *)
SummedTo(s, f, n) ==
  f = [i \in 0..n |-> IF i = 0 THEN 0 ELSE f[i - 1] + s[i]]

LEMMA TotalUnfolds ==
  ASSUME NEW s \in Seq(Nat)
  PROVE  \E f : SummedTo(s, f, Len(s)) /\ Total(s) = f[Len(s)]
<1> DEFINE P == {n \in 0..Len(s) : \E f : SummedTo(s, f, n)}
<1>1. Len(s) \in Nat
  OBVIOUS
<1>2. 0 \in P
  <2> DEFINE f == [i \in 0..0 |-> 0]
  <2>1. f = [i \in 0..0 |-> IF i = 0 THEN 0 ELSE f[i - 1] + s[i]]
    OBVIOUS
  <2>2. SummedTo(s, f, 0)
    <3> HIDE DEF f
    <3>1. QED
      BY <2>1 DEF SummedTo
  <2> HIDE DEF f
  <2>3. QED
    BY <1>1, <2>2
<1>3. ASSUME NEW n \in 1..Len(s), (n - 1) \in P PROVE n \in P
  <2>1. PICK f : SummedTo(s, f, n - 1)
    BY <1>3
  <2> DEFINE g == [i \in 0..n |-> IF i = n THEN f[n - 1] + s[n] ELSE f[i]]
  <2>2. ASSUME NEW i \in 0..n
        PROVE  g[i] = IF i = 0 THEN 0 ELSE g[i - 1] + s[i]
    <3>1. CASE i = n
      <4>1. i - 1 \in 0..n /\ i - 1 # n /\ i # 0
        BY <3>1
      <4>2. g[i] = f[i - 1] + s[i] /\ g[i - 1] = f[i - 1]
        BY <3>1, <4>1
      <4>3. QED
        BY <4>1, <4>2
    <3>2. CASE i # n
      <4>1. i \in 0..(n - 1) /\ g[i] = f[i]
        BY <3>2
      <4>2. f[i] = IF i = 0 THEN 0 ELSE f[i - 1] + s[i]
        BY <2>1, <4>1 DEF SummedTo
      <4>3. i # 0 => g[i - 1] = f[i - 1]
        BY <4>1
      <4>4. QED
        BY <4>1, <4>2, <4>3
    <3>3. QED
      BY <3>1, <3>2
  <2>3. g = [i \in 0..n |-> g[i]]
    OBVIOUS
  <2>4. SummedTo(s, g, n)
    <3> HIDE DEF g
    <3>1. QED
      BY <2>2, <2>3 DEF SummedTo
  <2> HIDE DEF g
  <2>5. QED
    BY <2>4
<1>4. \A n \in 0..Len(s) : n \in P
  <2> HIDE DEF P
  <2>1. QED
    BY <1>1, <1>2, <1>3, AlongAll
<1>5. \E f : SummedTo(s, f, Len(s))
  BY <1>1, <1>4
<1>6. Total(s) = (CHOOSE f : SummedTo(s, f, Len(s)))[Len(s)]
  BY DEF Total, SummedTo
<1>7. QED
  BY <1>5, <1>6

LEMMA TotalNone == Total(<<>>) = 0
<1>1. <<>> \in Seq(Nat) /\ Len(<<>>) = 0
  OBVIOUS
<1>2. PICK f : SummedTo(<<>>, f, 0) /\ Total(<<>>) = f[0]
  BY <1>1, TotalUnfolds
<1>3. f[0] = 0
  BY <1>2 DEF SummedTo
<1>4. QED
  BY <1>2, <1>3

(* One more number is added to the total of the others.                          *)
LEMMA TotalNext ==
  ASSUME NEW n \in Nat, NEW s \in [1..(n + 1) -> Nat]
  PROVE  Total(s) = Total([i \in 1..n |-> s[i]]) + s[n + 1]
<1> DEFINE h == [i \in 1..n |-> s[i]]
<1>1. /\ s \in Seq(Nat) /\ Len(s) = n + 1 /\ h \in Seq(Nat) /\ Len(h) = n
      /\ \A i \in 1..n : h[i] = s[i]
  OBVIOUS
<1> HIDE DEF h
<1>2. PICK f : SummedTo(h, f, n) /\ Total(h) = f[n]
  BY <1>1, TotalUnfolds
<1>3. PICK g : SummedTo(s, g, n + 1) /\ Total(s) = g[n + 1]
  BY <1>1, TotalUnfolds
<1> DEFINE P == {k \in 0..n : f[k] = g[k]}
<1>4. 0 \in P
  BY <1>2, <1>3 DEF SummedTo
<1>5. ASSUME NEW k \in 1..n, (k - 1) \in P PROVE k \in P
  <2>1. f[k] = f[k - 1] + h[k]
    BY <1>2 DEF SummedTo
  <2>2. g[k] = g[k - 1] + s[k]
    <3>1. k \in 0..(n + 1) /\ k # 0
      OBVIOUS
    <3>2. QED
      BY <1>3, <3>1 DEF SummedTo
  <2>3. f[k - 1] = g[k - 1] /\ h[k] = s[k]
    BY <1>1, <1>5
  <2>4. QED
    BY <2>1, <2>2, <2>3
<1>6. \A k \in 0..n : k \in P
  <2> HIDE DEF P
  <2>1. QED
    BY <1>4, <1>5, AlongAll
<1>7. f[n] = g[n]
  BY <1>6
<1>8. g[n + 1] = g[(n + 1) - 1] + s[n + 1]
  BY <1>3 DEF SummedTo
<1>9. (n + 1) - 1 = n
  OBVIOUS
<1>10. QED
  BY <1>2, <1>3, <1>7, <1>8, <1>9 DEF h

LEMMA TotalType ==
  ASSUME NEW n \in Nat, NEW s \in [1..n -> Nat]
  PROVE  Total(s) \in Nat
<1>1. s \in Seq(Nat) /\ Len(s) = n
  OBVIOUS
<1>2. PICK f : SummedTo(s, f, n) /\ Total(s) = f[n]
  BY <1>1, TotalUnfolds
<1> DEFINE P == {k \in 0..n : f[k] \in Nat}
<1>3. 0 \in P
  BY <1>2 DEF SummedTo
<1>4. ASSUME NEW k \in 1..n, (k - 1) \in P PROVE k \in P
  <2>1. f[k] = f[k - 1] + s[k]
    BY <1>2 DEF SummedTo
  <2>2. QED
    BY <1>4, <2>1
<1>5. \A k \in 0..n : k \in P
  <2> HIDE DEF P
  <2>1. QED
    BY <1>3, <1>4, AlongAll
<1>6. QED
  BY <1>2, <1>5

(* Induction over sequences, from the empty one, an element at a time.            *)
LEMMA AlongSequences ==
  ASSUME NEW S, NEW P, <<>> \in P,
         \A s \in Seq(S), e \in S : s \in P => Append(s, e) \in P
  PROVE  \A s \in Seq(S) : s \in P
<1>1. SUFFICES ASSUME NEW t \in Seq(S) PROVE t \in P
  OBVIOUS
<1> DEFINE Q == {k \in 0..Len(t) : [i \in 1..k |-> t[i]] \in P}
<1>2. Len(t) \in Nat /\ [i \in 1..Len(t) |-> t[i]] = t /\ [i \in 1..0 |-> t[i]] = <<>>
  OBVIOUS
<1>3. 0 \in Q
  BY <1>2
<1>4. ASSUME NEW k \in 1..Len(t), (k - 1) \in Q PROVE k \in Q
  <2>1. PICK j \in Nat : k = j + 1 /\ k - 1 = j
    OBVIOUS
  <2>2. PICK s \in Seq(S) : s = [i \in 1..j |-> t[i]]
    <3>1. \A i \in 1..j : t[i] \in S
      BY <2>1
    <3>2. [i \in 1..j |-> t[i]] \in Seq(S)
      BY <3>1
    <3>3. QED
      BY <3>2
  <2>3. [i \in 1..k |-> t[i]] = Append(s, t[k]) /\ t[k] \in S
    BY <2>1, <2>2
  <2>4. s \in P
    BY <1>4, <2>1, <2>2
  <2>5. Append(s, t[k]) \in P
    BY <2>3, <2>4
  <2>6. [i \in 1..k |-> t[i]] \in P
    <3> HIDE DEF Q
    <3>1. QED
      BY <2>3, <2>5
  <2>7. QED
    BY <2>6
<1>5. \A k \in 0..Len(t) : k \in Q
  <2> HIDE DEF Q
  <2>1. QED
    BY <1>2, <1>3, <1>4, AlongAll
<1>6. Len(t) \in Q
  BY <1>2, <1>5
<1>7. QED
  BY <1>2, <1>6

LEMMA ThenOneMore ==
  ASSUME NEW S, NEW s \in Seq(S), NEW t \in Seq(S), NEW e \in S
  PROVE  /\ s \o t \in Seq(S) /\ Append(s, e) \in Seq(S) /\ Append(s, e) = s \o <<e>>
         /\ s \o Append(t, e) = Append(s \o t, e)
         /\ s \o <<>> = s /\ <<>> \o s = s
BY ConcatProperties, AppendProperties, ElementOfSeq, SeqDef

-----------------------------------------------------------------------------
(* The logs of a range of blocks. *)

(* What GetLogs keeps of some logs.                                          *)
Selected(logs, from, to) ==
  FlattenSeq([i \in 1..Len(logs) |->
    IF InRange(logs[i], from, to) THEN <<logs[i]>> ELSE <<>>])

LEMMA SelectedOfNone ==
  ASSUME NEW from, NEW to
  PROVE  Selected(<<>>, from, to) = <<>>
<1>1. [i \in 1..Len(<<>>) |-> IF InRange(<<>>[i], from, to) THEN <<<<>>[i]>> ELSE <<>>] = <<>>
  OBVIOUS
<1>2. QED
  BY <1>1, FlattenNone DEF Selected

LEMMA SelectedMore ==
  ASSUME NEW S, NEW logs \in Seq(S), NEW e \in S, NEW from, NEW to
  PROVE  /\ InRange(e, from, to) =>
              Selected(Append(logs, e), from, to) = Selected(logs, from, to) \o <<e>>
         /\ ~ InRange(e, from, to) =>
              Selected(Append(logs, e), from, to) = Selected(logs, from, to) \o <<>>
<1> DEFINE Kept(log) == IF InRange(log, from, to) THEN <<log>> ELSE <<>>
           ss == [i \in 1..Len(logs) |-> Kept(logs[i])]
           longer == Append(logs, e)
<1>1. \A log \in S : Kept(log) \in Seq(S)
  OBVIOUS
<1>2. /\ longer \in Seq(S) /\ Len(longer) = Len(logs) + 1 /\ Len(logs) \in Nat
      /\ longer[Len(logs) + 1] = e /\ \A i \in 1..Len(logs) : longer[i] = logs[i] /\ logs[i] \in S
  OBVIOUS
<1>3. ss \in Seq(Seq(S)) /\ Kept(e) \in Seq(S) /\ Len(ss) = Len(logs)
  <2> HIDE DEF Kept
  <2>1. QED
    BY <1>1, <1>2
<1>4. [i \in 1..Len(longer) |-> Kept(longer[i])] = Append(ss, Kept(e))
  <2> HIDE DEF Kept, longer
  <2>1. QED
    BY <1>1, <1>2
<1>5. FlattenSeq(Append(ss, Kept(e))) = FlattenSeq(ss) \o Kept(e)
  <2> HIDE DEF ss, Kept
  <2>1. QED
    BY <1>3, FlattenMore
<1>6. Selected(longer, from, to) = Selected(logs, from, to) \o Kept(e)
  <2>1. Selected(longer, from, to) = FlattenSeq([i \in 1..Len(longer) |-> Kept(longer[i])])
    BY DEF Selected
  <2>2. Selected(logs, from, to) = FlattenSeq(ss)
    BY DEF Selected
  <2> HIDE DEF ss, Kept, longer
  <2>3. QED
    BY <1>4, <1>5, <2>1, <2>2
<1>7. QED
  BY <1>6

LEMMA SelectedType ==
  ASSUME NEW S, NEW logs \in Seq(S), NEW from, NEW to
  PROVE  Selected(logs, from, to) \in Seq(S)
<1> DEFINE g == [i \in 1..Len(logs) |->
                   IF InRange(logs[i], from, to) THEN <<logs[i]>> ELSE <<>>]
<1>1. Len(logs) \in Nat /\ \A i \in 1..Len(logs) : logs[i] \in S
  OBVIOUS
<1>2. \A log \in S : <<log>> \in Seq(S)
  OBVIOUS
<1>3. <<>> \in Seq(S)
  OBVIOUS
<1>4. g \in [1..Len(logs) -> Seq(S)]
  BY <1>1, <1>2, <1>3
<1>5. FlattenSeq(g) \in Seq(S)
  <2> HIDE DEF g
  <2>1. QED
    BY <1>1, <1>4, FlattenType
<1>6. QED
  BY <1>5 DEF Selected

AllInRange(logs, from, to) == \A k \in 1..Len(logs) : InRange(logs[k], from, to)

(* Logs that are all in the range are all kept.                                 *)
LEMMA SelectedWithAll ==
  ASSUME NEW S, NEW s \in Seq(S), NEW t \in Seq(S), NEW from, NEW to,
         AllInRange(t, from, to)
  PROVE  Selected(s \o t, from, to) = Selected(s, from, to) \o t
<1>1. \A k \in 1..Len(t) : InRange(t[k], from, to)
  BY DEF AllInRange
<1>2. PICK x \in Seq(S) : x = Selected(s, from, to)
  BY SelectedType
<1> DEFINE P == {u \in Seq(S) : (\A k \in 1..Len(u) : InRange(u[k], from, to)) =>
                                  Selected(s \o u, from, to) = x \o u}
<1>3. <<>> \in P
  <2>1. <<>> \in Seq(S) /\ s \o <<>> = s /\ x \o <<>> = x
    OBVIOUS
  <2>2. QED
    BY <1>2, <2>1
<1>4. ASSUME NEW u \in Seq(S), NEW e \in S, u \in P PROVE Append(u, e) \in P
  <2>1. SUFFICES ASSUME \A k \in 1..Len(Append(u, e)) : InRange(Append(u, e)[k], from, to)
                 PROVE  Selected(s \o Append(u, e), from, to) = x \o Append(u, e)
    BY ThenOneMore
  <2>2. InRange(e, from, to) /\ \A k \in 1..Len(u) : InRange(u[k], from, to)
    <3>1. /\ Len(u) + 1 \in 1..Len(Append(u, e)) /\ Append(u, e)[Len(u) + 1] = e
          /\ \A k \in 1..Len(u) : k \in 1..Len(Append(u, e)) /\ Append(u, e)[k] = u[k]
      OBVIOUS
    <3>2. InRange(Append(u, e)[Len(u) + 1], from, to)
      BY <2>1, <3>1
    <3>3. \A k \in 1..Len(u) : InRange(Append(u, e)[k], from, to)
      BY <2>1, <3>1
    <3>4. QED
      BY <3>1, <3>2, <3>3
  <2>3. Selected(s \o u, from, to) = x \o u
    BY <1>4, <2>2
  <2>4. PICK v \in Seq(S) : v = s \o u
    BY ThenOneMore
  <2>5. Selected(Append(v, e), from, to) = Selected(v, from, to) \o <<e>>
    BY <2>2, SelectedMore
  <2>6. s \o Append(u, e) = Append(v, e)
    BY <2>4, ThenOneMore
  <2>7. (x \o u) \o <<e>> = x \o Append(u, e)
    <3>1. PICK w \in Seq(S) : w = x \o u
      BY ThenOneMore
    <3>2. x \o Append(u, e) = Append(w, e)
      BY <3>1, ThenOneMore
    <3>3. Append(w, e) = w \o <<e>>
      BY ThenOneMore
    <3>4. QED
      BY <3>1, <3>2, <3>3
  <2>8. QED
    BY <2>3, <2>4, <2>5, <2>6, <2>7
<1>5. \A u \in Seq(S) : u \in P
  <2> HIDE DEF P
  <2>1. QED
    BY <1>3, <1>4, AlongSequences
<1>6. t \in P
  BY <1>5
<1>7. QED
  BY <1>1, <1>2, <1>6

(* Logs that are all outside the range are all left.                             *)
LEMMA SelectedWithNone ==
  ASSUME NEW S, NEW s \in Seq(S), NEW t \in Seq(S), NEW from, NEW to,
         \A k \in 1..Len(t) : ~ InRange(t[k], from, to)
  PROVE  Selected(s \o t, from, to) = Selected(s, from, to)
<1>1. PICK x \in Seq(S) : x = Selected(s, from, to)
  BY SelectedType
<1> DEFINE P == {u \in Seq(S) : (\A k \in 1..Len(u) : ~ InRange(u[k], from, to)) =>
                                  Selected(s \o u, from, to) = x}
<1>2. <<>> \in P
  <2>1. <<>> \in Seq(S) /\ s \o <<>> = s
    OBVIOUS
  <2>2. QED
    BY <1>1, <2>1
<1>3. ASSUME NEW u \in Seq(S), NEW e \in S, u \in P PROVE Append(u, e) \in P
  <2>1. SUFFICES ASSUME \A k \in 1..Len(Append(u, e)) : ~ InRange(Append(u, e)[k], from, to)
                 PROVE  Selected(s \o Append(u, e), from, to) = x
    BY ThenOneMore
  <2>2. ~ InRange(e, from, to) /\ \A k \in 1..Len(u) : ~ InRange(u[k], from, to)
    <3>1. /\ Len(u) + 1 \in 1..Len(Append(u, e)) /\ Append(u, e)[Len(u) + 1] = e
          /\ \A k \in 1..Len(u) : k \in 1..Len(Append(u, e)) /\ Append(u, e)[k] = u[k]
      OBVIOUS
    <3>2. ~ InRange(Append(u, e)[Len(u) + 1], from, to)
      BY <2>1, <3>1
    <3>3. \A k \in 1..Len(u) : ~ InRange(Append(u, e)[k], from, to)
      BY <2>1, <3>1
    <3>4. QED
      BY <3>1, <3>2, <3>3
  <2>3. Selected(s \o u, from, to) = x
    BY <1>3, <2>2
  <2>4. PICK v \in Seq(S) : v = s \o u
    BY ThenOneMore
  <2>5. Selected(Append(v, e), from, to) = Selected(v, from, to) \o <<>>
    <3>1. /\ InRange(e, from, to) =>
               Selected(Append(v, e), from, to) = Selected(v, from, to) \o <<e>>
          /\ ~ InRange(e, from, to) =>
               Selected(Append(v, e), from, to) = Selected(v, from, to) \o <<>>
      BY ONLY SelectedMore
    <3> HIDE DEF P
    <3>2. QED
      BY <2>2, <3>1
  <2>6. s \o Append(u, e) = Append(v, e)
    BY <2>4, ThenOneMore
  <2>7. x \o <<>> = x
    OBVIOUS
  <2>8. QED
    BY <2>3, <2>4, <2>5, <2>6, <2>7
<1>4. \A u \in Seq(S) : u \in P
  <2> HIDE DEF P
  <2>1. QED
    BY <1>2, <1>3, AlongSequences
<1>5. t \in P
  BY <1>4
<1>6. QED
  BY <1>1, <1>5

(* What flattening a beginning of a family adds to flattening a shorter one.      *)
LEMMA FlattenAlong ==
  ASSUME NEW S, NEW n \in Nat, NEW F \in [1..n -> Seq(S)], NEW j \in Nat, j + 1 \in 1..n
  PROVE  /\ FlattenSeq([i \in 1..(j + 1) |-> F[i]]) =
              FlattenSeq([i \in 1..j |-> F[i]]) \o F[j + 1]
         /\ FlattenSeq([i \in 1..j |-> F[i]]) \in Seq(S)
         /\ F[j + 1] \in Seq(S)
<1> DEFINE g == [i \in 1..(j + 1) |-> F[i]]
           h == [i \in 1..j |-> F[i]]
<1>1. \A i \in 1..(j + 1) : i \in 1..n
  OBVIOUS
<1>2. g \in [1..(j + 1) -> Seq(S)] /\ g[j + 1] = F[j + 1]
  BY <1>1
<1>3. [i \in 1..j |-> g[i]] = h /\ h \in [1..j -> Seq(S)]
  <2>1. \A i \in 1..j : i \in 1..(j + 1) /\ i \in 1..n
    BY <1>1
  <2>2. QED
    BY <2>1
<1>4. F[j + 1] \in Seq(S)
  OBVIOUS
<1> HIDE DEF g, h
<1>5. FlattenSeq(g) = FlattenSeq([i \in 1..j |-> g[i]]) \o g[j + 1]
  BY <1>2, FlattenNext
<1>6. FlattenSeq(h) \in Seq(S)
  BY <1>3, FlattenType
<1>7. QED
  BY <1>2, <1>3, <1>4, <1>5, <1>6 DEF g, h

(* The logs of a range of blocks, picked out of the logs of all of them, are the  *)
(* logs of the blocks of the range.                                           *)
Spliced(F, from, to) ==
  Selected(FlattenSeq(F), from, to) = FlattenSeq([i \in 1..(to - from + 1) |-> F[from + i]])

LEMMA BlocksSelected ==
  ASSUME NEW S, NEW n \in Nat, NEW F \in [1..n -> Seq(S)],
         \A i \in 1..n : \A k \in 1..Len(F[i]) : F[i][k].blockNumber = i - 1,
         NEW from \in 0..(n - 1), NEW to \in 0..(n - 1)
  PROVE  Spliced(F, from, to)
<1> DEFINE All(m) == FlattenSeq([i \in 1..m |-> F[i]])
           G(k) == FlattenSeq([i \in 1..k |-> F[from + i]])
           kept(m) == IF to < from \/ m <= from THEN 0
                      ELSE IF m <= to + 1 THEN m - from ELSE to + 1 - from
           P == {m \in 0..n : Selected(All(m), from, to) = G(kept(m))}
<1>1. 0 \in P
  <2>1. [i \in 1..0 |-> F[i]] = <<>> /\ [i \in 1..0 |-> F[from + i]] = <<>>
    OBVIOUS
  <2>2. All(0) = <<>> /\ G(0) = <<>> /\ kept(0) = 0
    BY <2>1, FlattenNone
  <2>3. Selected(All(0), from, to) = G(kept(0))
    BY <2>2, SelectedOfNone
  <2>4. QED
    BY <2>3
<1>2. ASSUME NEW m \in 1..n, (m - 1) \in P PROVE m \in P
  <2>1. PICK j \in Nat : m = j + 1 /\ m - 1 = j /\ j + 1 \in 1..n
    OBVIOUS
  <2>2. /\ All(m) = All(j) \o F[m] /\ All(j) \in Seq(S) /\ F[m] \in Seq(S)
    <3>1. /\ FlattenSeq([i \in 1..(j + 1) |-> F[i]]) =
               FlattenSeq([i \in 1..j |-> F[i]]) \o F[j + 1]
          /\ FlattenSeq([i \in 1..j |-> F[i]]) \in Seq(S)
          /\ F[j + 1] \in Seq(S)
      <4> HIDE DEF All, G, kept, P
      <4>1. QED
        BY <2>1, FlattenAlong
    <3>2. QED
      BY <2>1, <3>1
  <2>3. Selected(All(j), from, to) = G(kept(j))
    BY <1>2, <2>1
  <2>4. PICK s \in Seq(S) : s = All(j)
    BY <2>2
  <2>5. PICK t \in Seq(S) : t = F[m]
    BY <2>2
  <2>6. \A k \in 1..Len(t) : t[k].blockNumber = j
    BY <2>1, <2>5
  <2>7. CASE ~ (from <= j /\ j <= to)
    <3>1. kept(m) = kept(j)
      BY <2>1, <2>7
    <3>2. \A k \in 1..Len(t) : ~ InRange(t[k], from, to)
      BY <2>6, <2>7 DEF InRange
    <3>3. Selected(s \o t, from, to) = Selected(s, from, to)
      BY ONLY <3>2, SelectedWithNone
    <3>4. Selected(All(m), from, to) = G(kept(m))
      <4> HIDE DEF All, G, kept
      <4>1. QED
        BY <2>2, <2>3, <2>4, <2>5, <3>1, <3>3
    <3>5. QED
      BY <3>4
  <2>8. CASE from <= j /\ j <= to
    <3>1. PICK c \in Nat : c = j - from
      BY <2>8
    <3>2. kept(j) = c /\ kept(m) = c + 1 /\ from + (c + 1) = m
      BY <2>1, <2>8, <3>1
    <3>3. AllInRange(t, from, to)
      BY <2>6, <2>8 DEF InRange, AllInRange
    <3>4. Selected(s \o t, from, to) = Selected(s, from, to) \o t
      <4> HIDE DEF All, G, kept, P
      <4>1. QED
        BY ONLY <3>3, SelectedWithAll
    <3>5. G(c + 1) = G(c) \o F[from + (c + 1)]
      <4> DEFINE H == [i \in 1..(c + 1) |-> F[from + i]]
      <4>1. \A i \in 1..(c + 1) : from + i \in 1..n
        BY <2>1, <3>2
      <4>2. H \in [1..(c + 1) -> Seq(S)]
        BY <4>1
      <4>3. /\ [i \in 1..c |-> H[i]] = [i \in 1..c |-> F[from + i]]
            /\ H[c + 1] = F[from + (c + 1)]
        OBVIOUS
      <4>4. FlattenSeq(H) = FlattenSeq([i \in 1..c |-> H[i]]) \o H[c + 1]
        <5> HIDE DEF H, G, All, kept, P
        <5>1. QED
          BY <4>2, FlattenNext
      <4>5. QED
        BY <4>3, <4>4
    <3>6. Selected(All(m), from, to) = G(kept(m))
      <4> HIDE DEF All, G, kept
      <4>1. QED
        BY <2>2, <2>3, <2>4, <2>5, <3>2, <3>4, <3>5
    <3>7. QED
      BY <3>6
  <2>9. QED
    BY <2>7, <2>8
<1>3. \A m \in 0..n : m \in P
  <2> HIDE DEF P
  <2>1. QED
    BY <1>1, <1>2, AlongAll
<1>4. Selected(All(n), from, to) = G(kept(n))
  <2>1. n \in P
    <3> HIDE DEF P
    <3>1. n \in 0..n
      OBVIOUS
    <3>2. QED
      BY <1>3, <3>1
  <2>2. QED
    BY <2>1
<1>5. All(n) = FlattenSeq(F)
  <2>1. [i \in 1..n |-> F[i]] = F
    OBVIOUS
  <2>2. QED
    BY <2>1
<1>6. G(kept(n)) = G(to - from + 1)
  <2>1. CASE from <= to
    <3>1. kept(n) = to - from + 1
      BY <2>1
    <3>2. QED
      BY <3>1
  <2>2. CASE to < from
    <3>1. kept(n) = 0
      BY <2>2
    <3>2. [i \in 1..0 |-> F[from + i]] = [i \in 1..(to - from + 1) |-> F[from + i]]
      BY <2>2
    <3>3. G(0) = G(to - from + 1)
      BY <3>2
    <3>4. QED
      BY <3>1, <3>3
  <2>3. QED
    BY <2>1, <2>2
<1>7. QED
  BY <1>4, <1>5, <1>6 DEF Spliced

-----------------------------------------------------------------------------
(* The logs of a batch. *)

Hash == Seq(Nat \X Nat \X Nat)

LEMMA TablesTyped ==
  ASSUME NEW txs \in Seq(Tx)
  PROVE  \A i \in 1..Len(txs) : txs[i] \in Tx /\ LogsOf[txs[i]] \in Nat /\ GasOf[txs[i]] \in Nat
BY IndexAssumption

LEMMA FirstLogs ==
  ASSUME NEW txs \in Seq(Tx)
  PROVE  /\ FirstLog(txs, 1) = 0
         /\ \A j \in 0..Len(txs) : FirstLog(txs, j + 1) \in Nat
         /\ \A j \in 0..(Len(txs) - 1) :
              FirstLog(txs, (j + 1) + 1) = FirstLog(txs, j + 1) + LogsOf[txs[j + 1]]
<1> DEFINE Until(j) == [i \in 1..j |-> LogsOf[txs[i]]]
<1>1. \A j \in Int : FirstLog(txs, j + 1) = Total(Until(j))
  <2>1. ASSUME NEW j \in Int PROVE FirstLog(txs, j + 1) = Total(Until(j))
    <3>1. (j + 1) - 1 = j
      OBVIOUS
    <3>2. QED
      BY <3>1 DEF FirstLog
  <2>2. QED
    BY <2>1
<1>2. Len(txs) \in Nat /\ \A i \in 1..Len(txs) : LogsOf[txs[i]] \in Nat
  BY TablesTyped
<1>3. FirstLog(txs, 1) = 0
  <2>1. Until(0) = <<>>
    OBVIOUS
  <2>2. FirstLog(txs, 0 + 1) = Total(Until(0))
    <3> HIDE DEF Until
    <3>1. QED
      BY <1>1
  <2>3. 0 + 1 = 1
    OBVIOUS
  <2> HIDE DEF Until
  <2>4. QED
    BY <2>1, <2>2, <2>3, TotalNone
<1>4. ASSUME NEW j \in 0..Len(txs) PROVE FirstLog(txs, j + 1) \in Nat
  <2>1. j \in Nat /\ j \in Int /\ \A i \in 1..j : i \in 1..Len(txs)
    BY <1>2
  <2>2. Until(j) \in [1..j -> Nat]
    BY <1>2, <2>1
  <2>3. Total(Until(j)) \in Nat
    <3> HIDE DEF Until
    <3>1. QED
      BY <2>1, <2>2, TotalType
  <2>4. QED
    BY <1>1, <2>1, <2>3
<1>5. ASSUME NEW j \in 0..(Len(txs) - 1)
      PROVE  FirstLog(txs, (j + 1) + 1) = FirstLog(txs, j + 1) + LogsOf[txs[j + 1]]
  <2>1. /\ j \in Nat /\ j \in Int /\ j + 1 \in Int
        /\ \A i \in 1..(j + 1) : i \in 1..Len(txs)
    BY <1>2
  <2>2. Until(j + 1) \in [1..(j + 1) -> Nat] /\ Until(j + 1)[j + 1] = LogsOf[txs[j + 1]]
    BY <1>2, <2>1
  <2>3. [i \in 1..j |-> Until(j + 1)[i]] = Until(j)
    BY <2>1
  <2>4. Total(Until(j + 1)) = Total([i \in 1..j |-> Until(j + 1)[i]]) + Until(j + 1)[j + 1]
    <3> HIDE DEF Until
    <3>1. QED
      BY <2>1, <2>2, TotalNext
  <2>5. Total(Until(j + 1)) = Total(Until(j)) + LogsOf[txs[j + 1]]
    <3> HIDE DEF Until
    <3>1. QED
      BY <2>2, <2>3, <2>4
  <2>6. FirstLog(txs, (j + 1) + 1) = Total(Until(j + 1)) /\ FirstLog(txs, j + 1) = Total(Until(j))
    <3> HIDE DEF Until
    <3>1. QED
      BY <1>1, <2>1
  <2>7. QED
    BY <2>5, <2>6
<1>6. QED
  BY <1>3, <1>4, <1>5

(* A log is the k-th of a block, and of one of its transactions.                *)
Placed(log, k, txs, number, hash) ==
  /\ log.logIndex = k - 1 /\ log.blockNumber = number /\ log.blockHash = hash
  /\ log.transactionIndex + 1 \in 1..Len(txs)
  /\ txs[log.transactionIndex + 1] = log.tx
  /\ LogsOf[log.tx] # 0

LEMMA ReceiptLogs ==
  ASSUME NEW txs \in Seq(Tx), NEW i \in 1..Len(txs), NEW number \in Nat, NEW hash \in Hash
  PROVE  LET logs == ReceiptOf(txs, i, number, hash).logs
         IN  /\ logs \in Seq(Log) /\ Len(logs) = LogsOf[txs[i]]
             /\ LogsOf[txs[i]] \in Nat
             /\ \A k \in 1..Len(logs) : Placed(logs[k], FirstLog(txs, i) + k, txs, number, hash)
<1> DEFINE L(k) == LogOf(txs, i, k, number, hash)
           logs == [k \in 1..LogsOf[txs[i]] |-> L(k)]
<1>1. ReceiptOf(txs, i, number, hash).logs = logs
  BY DEF ReceiptOf
<1>2. txs[i] \in Tx /\ LogsOf[txs[i]] \in Nat
  BY TablesTyped
<1>3. FirstLog(txs, i) \in Nat
  <2>1. i - 1 \in 0..Len(txs) /\ (i - 1) + 1 = i
    OBVIOUS
  <2>2. QED
    BY <2>1, FirstLogs
<1>4. ASSUME NEW k \in 1..LogsOf[txs[i]]
      PROVE  L(k) \in Log /\ Placed(L(k), FirstLog(txs, i) + k, txs, number, hash)
  <2>1. /\ i - 1 \in Nat /\ (i - 1) + 1 = i /\ FirstLog(txs, i) + k - 1 \in Nat
        /\ FirstLog(txs, i) + k - 1 = (FirstLog(txs, i) + k) - 1 /\ LogsOf[txs[i]] # 0
    BY <1>2, <1>3
  <2>2. L(k) \in Log
    BY <1>2, <2>1 DEF Log, LogOf, Hash
  <2>3. Placed(L(k), FirstLog(txs, i) + k, txs, number, hash)
    BY <2>1 DEF Placed, LogOf
  <2>4. QED
    BY <2>2, <2>3
<1>5. logs \in Seq(Log) /\ Len(logs) = LogsOf[txs[i]]
  <2> HIDE DEF L
  <2>1. QED
    BY <1>2, <1>4
<1>6. \A k \in 1..Len(logs) : Placed(logs[k], FirstLog(txs, i) + k, txs, number, hash)
  <2>1. \A k \in 1..Len(logs) : logs[k] = L(k) /\ k \in 1..LogsOf[txs[i]]
    BY <1>5
  <2> HIDE DEF L, logs
  <2>2. QED
    BY <1>4, <2>1
<1> HIDE DEF L, logs
<1>7. QED
  BY <1>1, <1>2, <1>5, <1>6

(* The receipts have what each transaction of a batch did.                      *)
ReceiptsHold(found, txs, number, hash) ==
  \A j \in 1..Len(txs) : txs[j] \in DOMAIN found /\ found[txs[j]] = ReceiptOf(txs, j, number, hash)

(* The logs of a batch are numbered through the block.                          *)
LEMMA BatchLogs ==
  ASSUME NEW txs \in Seq(Tx), NEW found, NEW number \in Nat, NEW hash \in Hash,
         ReceiptsHold(found, txs, number, hash)
  PROVE  /\ LogsIn(found, txs) \in Seq(Log)
         /\ \A k \in 1..Len(LogsIn(found, txs)) :
              Placed(LogsIn(found, txs)[k], k, txs, number, hash)
<1> DEFINE n == Len(txs)
           F == [i \in 1..n |-> found[txs[i]].logs]
           Up(m) == FlattenSeq([i \in 1..m |-> F[i]])
           P == {m \in 0..n : /\ Up(m) \in Seq(Log) /\ Len(Up(m)) = FirstLog(txs, m + 1)
                              /\ \A k \in 1..Len(Up(m)) :
                                   Placed(Up(m)[k], k, txs, number, hash)}
<1>1. ASSUME NEW i \in 1..n
      PROVE  /\ F[i] \in Seq(Log) /\ Len(F[i]) = LogsOf[txs[i]]
             /\ LogsOf[txs[i]] \in Nat
             /\ \A k \in 1..Len(F[i]) :
                  Placed(F[i][k], FirstLog(txs, i) + k, txs, number, hash)
  <2>1. F[i] = ReceiptOf(txs, i, number, hash).logs
    BY DEF ReceiptsHold
  <2> HIDE DEF F
  <2>2. QED
    BY <2>1, ReceiptLogs
<1>2. n \in Nat /\ F \in [1..n -> Seq(Log)]
  <2>1. \A i \in 1..n : F[i] \in Seq(Log)
    BY <1>1
  <2>2. QED
    BY <2>1
<1>3. 0 \in P
  <2>1. [i \in 1..0 |-> F[i]] = <<>>
    OBVIOUS
  <2>2. Up(0) = <<>>
    BY <2>1, FlattenNone
  <2>3. <<>> \in Seq(Log) /\ Len(<<>>) = 0 /\ 0 + 1 = 1 /\ 0 \in 0..n
    BY <1>2
  <2>4. \A k \in 1..Len(<<>>) : Placed(Up(0)[k], k, txs, number, hash)
    BY <2>3
  <2>5. /\ Up(0) \in Seq(Log) /\ Len(Up(0)) = FirstLog(txs, 0 + 1)
        /\ \A k \in 1..Len(Up(0)) : Placed(Up(0)[k], k, txs, number, hash)
    <3> HIDE DEF F, Up, P
    <3>1. FirstLog(txs, 1) = 0
      BY FirstLogs
    <3>2. QED
      BY <2>2, <2>3, <2>4, <3>1
  <2> HIDE DEF F, Up
  <2>6. QED
    BY <2>3, <2>5
<1>4. ASSUME NEW m \in 1..n, (m - 1) \in P PROVE m \in P
  <2>1. PICK j \in Nat : m = j + 1 /\ m - 1 = j /\ j \in 0..(n - 1)
    BY <1>2
  <2>2. /\ FlattenSeq([i \in 1..(j + 1) |-> F[i]]) =
             FlattenSeq([i \in 1..j |-> F[i]]) \o F[j + 1]
        /\ FlattenSeq([i \in 1..j |-> F[i]]) \in Seq(Log)
        /\ F[j + 1] \in Seq(Log)
    <3> HIDE DEF F, Up, P, n
    <3>1. QED
      BY <1>2, <2>1, FlattenAlong
  <2>3. PICK s \in Seq(Log) : s = Up(j)
    BY <2>2
  <2>4. PICK r \in Seq(Log) : r = F[m]
    BY <2>1, <2>2
  <2>5. Up(m) = s \o r
    BY <2>1, <2>2, <2>3, <2>4
  <2>6. /\ Len(s) = FirstLog(txs, m) /\ \A k \in 1..Len(s) : Placed(s[k], k, txs, number, hash)
    <3>1. /\ Len(Up(j)) = FirstLog(txs, j + 1)
          /\ \A k \in 1..Len(Up(j)) : Placed(Up(j)[k], k, txs, number, hash)
      BY <1>4, <2>1
    <3> HIDE DEF Up, P
    <3>2. QED
      BY <2>1, <2>3, <3>1
  <2>7. /\ Len(r) = LogsOf[txs[m]] /\ Len(r) \in Nat
        /\ \A k \in 1..Len(r) : Placed(r[k], FirstLog(txs, m) + k, txs, number, hash)
    <3> HIDE DEF F, Up, P
    <3>1. QED
      BY <1>1, <2>4
  <2>8. FirstLog(txs, m + 1) = FirstLog(txs, m) + LogsOf[txs[m]]
    BY <2>1, FirstLogs
  <2>9. s \o r \in Seq(Log) /\ Len(s \o r) = Len(s) + Len(r)
    OBVIOUS
  <2>10. ASSUME NEW k \in 1..(Len(s) + Len(r))
         PROVE  Placed((s \o r)[k], k, txs, number, hash)
    <3>1. CASE k <= Len(s)
      <4>1. k \in 1..Len(s) /\ (s \o r)[k] = s[k]
        BY <3>1
      <4>2. QED
        BY <2>6, <4>1
    <3>2. CASE k > Len(s)
      <4>1. PICK i \in 1..Len(r) : k = Len(s) + i
        <5>1. k - Len(s) \in 1..Len(r) /\ k = Len(s) + (k - Len(s))
          BY <3>2
        <5>2. QED
          BY <5>1
      <4>2. (s \o r)[Len(s) + i] = r[i]
        OBVIOUS
      <4>3. Placed(r[i], FirstLog(txs, m) + i, txs, number, hash)
        BY <2>7
      <4> HIDE DEF F, Up, P
      <4>4. QED
        BY <2>6, <4>1, <4>2, <4>3
    <3>3. QED
      BY <3>1, <3>2
  <2>11. /\ Up(m) \in Seq(Log) /\ Len(Up(m)) = FirstLog(txs, m + 1)
         /\ \A k \in 1..Len(Up(m)) : Placed(Up(m)[k], k, txs, number, hash)
    <3> HIDE DEF F, Up, P
    <3>1. QED
      BY <2>5, <2>6, <2>7, <2>8, <2>9, <2>10
  <2>12. m \in 0..n
    BY <1>2
  <2> HIDE DEF F, Up
  <2>13. QED
    BY <2>11, <2>12
<1>5. \A m \in 0..n : m \in P
  <2> HIDE DEF P
  <2>1. QED
    BY <1>2, <1>3, <1>4, AlongAll
<1>6. n \in P
  <2> HIDE DEF P
  <2>1. n \in 0..n
    BY <1>2
  <2>2. QED
    BY <1>5, <2>1
<1>7. Up(n) = LogsIn(found, txs)
  <2>1. [i \in 1..n |-> F[i]] = F
    OBVIOUS
  <2>2. QED
    BY <2>1 DEF LogsIn
<1>8. Up(n) \in Seq(Log) /\ \A k \in 1..Len(Up(n)) : Placed(Up(n)[k], k, txs, number, hash)
  BY <1>6
<1> HIDE DEF Up, P, F
<1>9. QED
  BY <1>7, <1>8

-----------------------------------------------------------------------------
(* A chain, as the sequence of its headers. *)

Header ==
  [number : Nat, hash : Hash, parentHash : Hash, timestamp : Nat, baseFee : Nat,
   bloom : SUBSET Tx, transactions : Seq(Tx)]

(* A header is that of the block with a number, after a parent, that ran what    *)
(* the receipts say.                                                        *)
IsBlock(h, number, parent, found) ==
  /\ h \in Header
  /\ h.number = number /\ h.parentHash = parent
  /\ h.hash = HashOf(Rebuilt(h)) /\ Len(h.hash) = number + 1
  /\ ReceiptsHold(found, h.transactions, number, h.hash)
  /\ h.bloom = BloomOfReceipts(found, h.transactions)

ParentOf(hs, i) == IF i = 1 THEN <<>> ELSE hs[i - 1].hash

Linked(hs, found) ==
  /\ hs \in Seq(Header) /\ Len(hs) # 0
  /\ \A i \in 1..Len(hs) : IsBlock(hs[i], i - 1, ParentOf(hs, i), found)

LogsOfBlocks(hs, found) ==
  FlattenSeq([i \in 1..Len(hs) |-> LogsIn(found, hs[i].transactions)])

ReceiptsTyped(found) ==
  DOMAIN found \subseteq Tx /\ \A t \in DOMAIN found : found[t].logs \in Seq(Log)

(* The indexes of a node are those of a chain.                                 *)
Indexed(hs) ==
  /\ Linked(hs, receipts)
  /\ blockStore = [n \in 0..(Len(hs) - 1) |->
                     [block |-> Rebuilt(hs[n + 1]), header |-> hs[n + 1]]]
  /\ blockByHash = [h \in {hs[i].hash : i \in 1..Len(hs)} |-> Len(h) - 1]
  /\ latestNumber = Len(hs) - 1
  /\ parentHash = hs[Len(hs)].hash
  /\ allLogs = LogsOfBlocks(hs, receipts)

(* What a chain is like at each number.                                        *)
LinkedAs(hs, found) ==
  /\ Len(hs) \in Nat \ {0}
  /\ \A i \in 1..Len(hs) :
       /\ hs[i] \in Header /\ hs[i].number = i - 1
       /\ hs[i].hash \in Hash /\ Len(hs[i].hash) = i
       /\ hs[i].transactions \in Seq(Tx)
       /\ hs[i].hash = HashOf(Rebuilt(hs[i]))
       /\ hs[i].parentHash = ParentOf(hs, i)
       /\ ReceiptsHold(found, hs[i].transactions, i - 1, hs[i].hash)
       /\ hs[i].bloom = BloomOfReceipts(found, hs[i].transactions)

LEMMA LinkedFacts ==
  ASSUME NEW hs, NEW found, Linked(hs, found)
  PROVE  LinkedAs(hs, found)
<1>1. hs \in Seq(Header) /\ Len(hs) \in Nat \ {0}
  BY DEF Linked
<1>2. ASSUME NEW i \in 1..Len(hs)
      PROVE  /\ hs[i] \in Header /\ hs[i].number = i - 1
             /\ hs[i].hash \in Hash /\ Len(hs[i].hash) = i
             /\ hs[i].transactions \in Seq(Tx)
             /\ hs[i].hash = HashOf(Rebuilt(hs[i]))
             /\ hs[i].parentHash = ParentOf(hs, i)
             /\ ReceiptsHold(found, hs[i].transactions, i - 1, hs[i].hash)
             /\ hs[i].bloom = BloomOfReceipts(found, hs[i].transactions)
  <2>1. IsBlock(hs[i], i - 1, ParentOf(hs, i), found)
    BY DEF Linked
  <2>2. (i - 1) + 1 = i
    OBVIOUS
  <2>3. hs[i] \in Header
    BY <2>1 DEF IsBlock
  <2>4. hs[i].hash \in Hash /\ hs[i].transactions \in Seq(Tx)
    BY <2>3 DEF Header
  <2>5. QED
    BY <2>1, <2>2, <2>3, <2>4 DEF IsBlock
<1>3. QED
  BY <1>1, <1>2 DEF LinkedAs

(* The logs of each block of a chain are its own.                              *)
LEMMA ChainLogs ==
  ASSUME NEW hs, NEW found, Linked(hs, found)
  PROVE  /\ [i \in 1..Len(hs) |-> LogsIn(found, hs[i].transactions)]
              \in [1..Len(hs) -> Seq(Log)]
         /\ \A i \in 1..Len(hs) :
              /\ LogsIn(found, hs[i].transactions) \in Seq(Log)
              /\ \A k \in 1..Len(LogsIn(found, hs[i].transactions)) :
                   Placed(LogsIn(found, hs[i].transactions)[k], k, hs[i].transactions,
                          i - 1, hs[i].hash)
         /\ LogsOfBlocks(hs, found) \in Seq(Log)
<1> DEFINE L(i) == LogsIn(found, hs[i].transactions)
<1>1. LinkedAs(hs, found)
  BY LinkedFacts
<1>2. Len(hs) \in Nat
  BY <1>1 DEF LinkedAs
<1>3. ASSUME NEW i \in 1..Len(hs)
      PROVE  /\ L(i) \in Seq(Log)
             /\ \A k \in 1..Len(L(i)) : Placed(L(i)[k], k, hs[i].transactions, i - 1, hs[i].hash)
  <2>1. PICK txs \in Seq(Tx) : txs = hs[i].transactions
    BY <1>1 DEF LinkedAs
  <2>2. PICK hash \in Hash : hash = hs[i].hash
    BY <1>1 DEF LinkedAs
  <2>3. PICK number \in Nat : number = i - 1
    BY <1>2
  <2>4. ReceiptsHold(found, txs, number, hash)
    BY <2>1, <2>2, <2>3, <1>1 DEF LinkedAs
  <2>5. /\ LogsIn(found, txs) \in Seq(Log)
        /\ \A k \in 1..Len(LogsIn(found, txs)) :
             Placed(LogsIn(found, txs)[k], k, txs, number, hash)
    BY <2>4, BatchLogs
  <2>6. QED
    BY <2>1, <2>2, <2>3, <2>5
<1>4. [i \in 1..Len(hs) |-> L(i)] \in [1..Len(hs) -> Seq(Log)]
  <2>1. \A i \in 1..Len(hs) : L(i) \in Seq(Log)
    BY <1>3
  <2> HIDE DEF L
  <2>2. QED
    BY <2>1
<1>5. LogsOfBlocks(hs, found) \in Seq(Log)
  <2>1. PICK F \in [1..Len(hs) -> Seq(Log)] : F = [i \in 1..Len(hs) |-> L(i)]
    BY <1>4
  <2>2. FlattenSeq(F) \in Seq(Log)
    BY <1>2, FlattenType
  <2>3. QED
    BY <2>1, <2>2 DEF LogsOfBlocks
<1>6. QED
  BY <1>3, <1>4, <1>5

(* What the indexes are, once more, by number and by hash.                        *)
IndexedAs(hs) ==
  /\ Linked(hs, receipts)
  /\ latestNumber \in Nat /\ Len(hs) = latestNumber + 1
  /\ DOMAIN blockStore = 0..latestNumber
  /\ \A n \in 0..latestNumber :
       /\ n + 1 \in 1..Len(hs) /\ blockStore[n].header = hs[n + 1]
       /\ blockStore[n].block = Rebuilt(hs[n + 1])
  /\ DOMAIN blockByHash = {hs[i].hash : i \in 1..Len(hs)}
  /\ \A i \in 1..Len(hs) :
       hs[i].hash \in DOMAIN blockByHash /\ blockByHash[hs[i].hash] = i - 1
  /\ parentHash = hs[latestNumber + 1].hash
  /\ allLogs = LogsOfBlocks(hs, receipts)

LEMMA IndexedFacts ==
  ASSUME NEW hs, Indexed(hs)
  PROVE  IndexedAs(hs)
<1>1. Linked(hs, receipts) /\ latestNumber = Len(hs) - 1 /\ allLogs = LogsOfBlocks(hs, receipts)
      /\ parentHash = hs[Len(hs)].hash
  BY DEF Indexed
<1>2. LinkedAs(hs, receipts)
  BY <1>1, LinkedFacts
<1>3. Len(hs) \in Nat \ {0} /\ \A i \in 1..Len(hs) : Len(hs[i].hash) = i
  BY <1>2 DEF LinkedAs
<1>4. latestNumber \in Nat /\ Len(hs) = latestNumber + 1
  BY <1>1, <1>3
<1>5. blockStore = [n \in 0..latestNumber |->
                      [block |-> Rebuilt(hs[n + 1]), header |-> hs[n + 1]]]
  BY <1>1 DEF Indexed
<1>6. DOMAIN blockStore = 0..latestNumber
  BY <1>5
<1>7. ASSUME NEW n \in 0..latestNumber
      PROVE  /\ n + 1 \in 1..Len(hs) /\ blockStore[n].header = hs[n + 1]
             /\ blockStore[n].block = Rebuilt(hs[n + 1])
  BY <1>4, <1>5
<1>8. blockByHash = [h \in {hs[i].hash : i \in 1..Len(hs)} |-> Len(h) - 1]
  BY DEF Indexed
<1>9. DOMAIN blockByHash = {hs[i].hash : i \in 1..Len(hs)}
  BY <1>8
<1>10. ASSUME NEW i \in 1..Len(hs)
       PROVE  hs[i].hash \in DOMAIN blockByHash /\ blockByHash[hs[i].hash] = i - 1
  <2>1. hs[i].hash \in {hs[j].hash : j \in 1..Len(hs)} /\ Len(hs[i].hash) = i
    BY <1>3
  <2>2. QED
    BY <1>8, <2>1
<1>11. QED
  BY <1>1, <1>4, <1>6, <1>7, <1>9, <1>10 DEF IndexedAs

LEMMA IndexFacts ==
  ASSUME NEW hs, Indexed(hs)
  PROVE  IndexedAs(hs) /\ LinkedAs(hs, receipts)
<1>1. Linked(hs, receipts)
  BY DEF Indexed
<1>2. LinkedAs(hs, receipts)
  BY <1>1, LinkedFacts
<1>3. IndexedAs(hs)
  BY IndexedFacts
<1>4. QED
  BY <1>2, <1>3

LEMMA FlattenOne ==
  ASSUME NEW S, NEW s \in Seq(S), NEW g \in [1..1 -> Seq(S)], g[1] = s
  PROVE  FlattenSeq(g) = s
<1>1. g \in [1..(0 + 1) -> Seq(S)] /\ g[0 + 1] = s /\ [i \in 1..0 |-> g[i]] = <<>>
  OBVIOUS
<1>2. FlattenSeq(g) = FlattenSeq([i \in 1..0 |-> g[i]]) \o g[0 + 1]
  BY <1>1, FlattenNext
<1>3. <<>> \o s = s
  OBVIOUS
<1>4. QED
  BY <1>1, <1>2, <1>3, FlattenNone

(* What the indexes answer of a chain: its blocks ...                           *)
LEMMA IndexedLinked ==
  ASSUME NEW hs, Indexed(hs)
  PROVE  ChainLinked
<1>1. IndexedAs(hs) /\ LinkedAs(hs, receipts)
  BY IndexFacts
<1>2. parentHash = GetBlockHash(latestNumber) /\ DOMAIN blockStore = 0..latestNumber
  <2>1. latestNumber \in 0..latestNumber
    BY <1>1 DEF IndexedAs
  <2>2. QED
    BY <2>1, <1>1 DEF IndexedAs, GetBlockHash
<1>3. ASSUME NEW n \in 0..latestNumber
      PROVE  LET sb == blockStore[n]
             IN  /\ sb.header.number = n
                 /\ sb.header.hash = HashOf(sb.block)
                 /\ sb.header.hash \in DOMAIN blockByHash
                 /\ BlockByHash(sb.header.hash) = sb.header
                 /\ n > 0 => /\ sb.header.parentHash = GetBlockHash(n - 1)
                             /\ sb.header.parentHash = MockBlockHash(n - 1)
  <2>1. PICK i \in 1..Len(hs) : i = n + 1
    BY <1>1 DEF IndexedAs
  <2>2. /\ blockStore[n].header = hs[i] /\ blockStore[n].block = Rebuilt(hs[i])
        /\ hs[i].hash \in DOMAIN blockByHash /\ blockByHash[hs[i].hash] = n
    <3>1. i - 1 = n
      BY <2>1
    <3>2. blockStore[n].header = hs[i] /\ blockStore[n].block = Rebuilt(hs[i])
      BY <2>1, <1>1 DEF IndexedAs
    <3>3. hs[i].hash \in DOMAIN blockByHash /\ blockByHash[hs[i].hash] = i - 1
      BY <1>1 DEF IndexedAs
    <3>4. QED
      BY <3>1, <3>2, <3>3
  <2>3. hs[i].number = n /\ hs[i].hash = HashOf(Rebuilt(hs[i])) /\ hs[i].parentHash = ParentOf(hs, i)
    BY <2>1, <1>1 DEF IndexedAs, LinkedAs
  <2>4. BlockByHash(hs[i].hash) = hs[i]
    BY <2>2 DEF BlockByHash, BlockToRpc
  <2>5. ASSUME n > 0
        PROVE  hs[i].parentHash = GetBlockHash(n - 1) /\ hs[i].parentHash = MockBlockHash(n - 1)
    <3>1. PICK m \in 0..latestNumber : m = n - 1 /\ m + 1 = i - 1 /\ i # 1
      BY <2>1, <2>5, <1>1 DEF IndexedAs
    <3>2. /\ hs[i].parentHash = hs[m + 1].hash
          /\ blockStore[m].header = hs[m + 1] /\ blockStore[m].block = Rebuilt(hs[m + 1])
          /\ m \in DOMAIN blockStore
      BY <2>3, <3>1, <1>1 DEF IndexedAs, ParentOf
    <3>3. hs[m + 1].hash = HashOf(Rebuilt(hs[m + 1]))
      BY <3>1, <1>1 DEF IndexedAs, LinkedAs
    <3>4. QED
      BY <3>1, <3>2, <3>3 DEF GetBlockHash, MockBlockHash
  <2>6. QED
    BY <2>2, <2>3, <2>4, <2>5
<1>4. QED
  BY <1>2, <1>3 DEF ChainLinked

(* ... and its logs.                                                        *)
LEMMA IndexedLogs ==
  ASSUME NEW hs, Indexed(hs)
  PROVE  /\ \A from \in 0..latestNumber, to \in 0..latestNumber :
              GetLogs(from, to) =
                FlattenSeq([i \in 1..(to - from + 1) |->
                  LogsIn(receipts, blockStore[from + i - 1].header.transactions)])
         /\ \A n \in 0..latestNumber :
              /\ GetLogs(n, n) \in Seq(Log)
              /\ \A k \in 1..Len(GetLogs(n, n)) :
                   Placed(GetLogs(n, n)[k], k, hs[n + 1].transactions, n, hs[n + 1].hash)
<1>1. IndexedAs(hs) /\ LinkedAs(hs, receipts)
  BY IndexFacts
<1> DEFINE F == [i \in 1..Len(hs) |-> LogsIn(receipts, hs[i].transactions)]
<1>2. Len(hs) \in Nat /\ Linked(hs, receipts) /\ Len(hs) = latestNumber + 1
      /\ Len(hs) - 1 = latestNumber /\ allLogs = FlattenSeq(F)
  BY <1>1 DEF IndexedAs, LogsOfBlocks
<1>3. /\ F \in [1..Len(hs) -> Seq(Log)]
      /\ \A i \in 1..Len(hs) : \A k \in 1..Len(F[i]) :
           Placed(F[i][k], k, hs[i].transactions, i - 1, hs[i].hash)
  BY <1>2, ChainLogs
<1>4. \A i \in 1..Len(hs) : \A k \in 1..Len(F[i]) : F[i][k].blockNumber = i - 1
  <2> HIDE DEF F
  <2>1. QED
    BY <1>3 DEF Placed
<1>5. ASSUME NEW from \in 0..latestNumber, NEW to \in 0..latestNumber
      PROVE  GetLogs(from, to) = FlattenSeq([i \in 1..(to - from + 1) |-> F[from + i]])
  <2>1. GetLogs(from, to) = Selected(FlattenSeq(F), from, to)
    BY <1>2 DEF GetLogs, Selected
  <2>2. from \in 0..(Len(hs) - 1) /\ to \in 0..(Len(hs) - 1)
    BY <1>2
  <2>3. Selected(FlattenSeq(F), from, to) =
          FlattenSeq([i \in 1..(to - from + 1) |-> F[from + i]])
    <3> HIDE DEF F
    <3>1. Spliced(F, from, to)
      BY <1>2, <1>3, <1>4, <2>2, BlocksSelected
    <3>2. QED
      BY <3>1 DEF Spliced
  <2>4. QED
    BY <2>1, <2>3
<1>6. ASSUME NEW from \in 0..latestNumber, NEW to \in 0..latestNumber
      PROVE  GetLogs(from, to) =
               FlattenSeq([i \in 1..(to - from + 1) |->
                 LogsIn(receipts, blockStore[from + i - 1].header.transactions)])
  <2>1. ASSUME NEW i \in 1..(to - from + 1)
        PROVE  F[from + i] = LogsIn(receipts, blockStore[from + i - 1].header.transactions)
    <3>1. PICK n \in 0..latestNumber : n = from + i - 1 /\ n + 1 = from + i
      BY <1>2
    <3>2. blockStore[n].header = hs[n + 1] /\ n + 1 \in 1..Len(hs)
      BY <1>1 DEF IndexedAs
    <3>3. QED
      BY <3>1, <3>2
  <2>2. [i \in 1..(to - from + 1) |-> F[from + i]] =
          [i \in 1..(to - from + 1) |->
             LogsIn(receipts, blockStore[from + i - 1].header.transactions)]
    <3> HIDE DEF F
    <3>1. QED
      BY <2>1
  <2>3. QED
    BY <1>5, <2>2
<1>7. ASSUME NEW n \in 0..latestNumber
      PROVE  /\ GetLogs(n, n) \in Seq(Log)
             /\ \A k \in 1..Len(GetLogs(n, n)) :
                  Placed(GetLogs(n, n)[k], k, hs[n + 1].transactions, n, hs[n + 1].hash)
  <2>1. PICK j \in 1..Len(hs) : j = n + 1 /\ j - 1 = n
    BY <1>2
  <2>2. F[j] \in Seq(Log)
    BY <1>3
  <2> DEFINE g == [i \in 1..1 |-> F[n + i]]
  <2>3. g \in [1..1 -> Seq(Log)] /\ g[1] = F[j]
    BY <2>1, <2>2
  <2>4. n - n + 1 = 1
    OBVIOUS
  <2>5. GetLogs(n, n) = FlattenSeq(g)
    BY <1>5, <2>4
  <2>6. FlattenSeq(g) = F[j]
    <3> HIDE DEF F, g
    <3>1. QED
      BY <2>2, <2>3, FlattenOne
  <2> HIDE DEF F, g
  <2>7. QED
    BY <1>3, <2>1, <2>2, <2>5, <2>6
<1>8. QED
  BY <1>6, <1>7

LEMMA IndexedConsistent ==
  ASSUME NEW hs, Indexed(hs), ReceiptsTyped(receipts), baseFeePerGas \in BaseFee
  PROVE  ChainConsistent
<1>1. IndexedAs(hs) /\ LinkedAs(hs, receipts)
  BY IndexFacts
<1>2. IndexTypeOK
  <2>1. latestNumber \in DOMAIN blockStore /\ DOMAIN blockStore \subseteq Nat
    BY <1>1 DEF IndexedAs
  <2>2. allLogs \in Seq(Log)
    BY ChainLogs, <1>1 DEF IndexedAs
  <2>3. QED
    BY <2>1, <2>2 DEF IndexTypeOK, ReceiptsTyped
<1>3. ASSUME NEW n \in 0..latestNumber, NEW k \in 1..Len(GetLogs(n, n))
      PROVE  LET log == GetLogs(n, n)[k]
             IN  /\ log.logIndex = k - 1
                 /\ log.blockHash = GetBlockHash(n)
                 /\ blockStore[n].header.transactions[log.transactionIndex + 1] = log.tx
                 /\ GetLogsByHash(log.blockHash) = GetLogs(n, n)
                 /\ LogToRpc(log).blockTimestamp = BlockByHash(log.blockHash).timestamp
                 /\ log.tx \in BlockByHash(log.blockHash).bloom
  <2>1. PICK i \in 1..Len(hs) : i = n + 1 /\ i - 1 = n
    BY <1>1 DEF IndexedAs
  <2>2. /\ blockStore[n].header = hs[i] /\ hs[i].hash \in DOMAIN blockByHash
        /\ blockByHash[hs[i].hash] = n
    BY <2>1, <1>1 DEF IndexedAs
  <2>3. GetLogs(n, n) \in Seq(Log)
    BY IndexedLogs
  <2>4. PICK log \in Log : log = GetLogs(n, n)[k]
    <3>1. PICK logs \in Seq(Log) : logs = GetLogs(n, n)
      BY <2>3
    <3>2. logs[k] \in Log
      BY <3>1
    <3>3. QED
      BY <3>1, <3>2
  <2>5. Placed(log, k, hs[i].transactions, n, hs[i].hash)
    BY <2>1, <2>4, IndexedLogs
  <2>6. /\ log.logIndex = k - 1 /\ log.blockNumber = n /\ log.blockHash = hs[i].hash
        /\ log.transactionIndex + 1 \in 1..Len(hs[i].transactions)
        /\ hs[i].transactions[log.transactionIndex + 1] = log.tx
        /\ LogsOf[log.tx] # 0
    BY <2>5 DEF Placed
  <2>7. GetLogsByHash(log.blockHash) = GetLogs(n, n) /\ BlockByHash(log.blockHash) = hs[i]
    BY <2>2, <2>6 DEF GetLogsByHash, BlockByHash, BlockToRpc
  <2>8. LogToRpc(log).blockTimestamp = hs[i].timestamp
    <3>1. LogToRpc(log) = Put(log, "blockTimestamp", hs[i].timestamp)
      BY <2>2, <2>6 DEF LogToRpc
    <3>2. Put(log, "blockTimestamp", hs[i].timestamp)["blockTimestamp"] = hs[i].timestamp
      BY DEF Put
    <3>3. QED
      BY <3>1, <3>2
  <2>9. log.tx \in hs[i].bloom
    <3>1. PICK txs \in Seq(Tx) : txs = hs[i].transactions
      BY <1>1 DEF IndexedAs, LinkedAs
    <3>2. PICK j \in 1..Len(txs) : txs[j] = log.tx
      BY <2>6, <3>1
    <3>3. PICK hash \in Hash : hash = hs[i].hash
      BY <1>1 DEF IndexedAs, LinkedAs
    <3>4. /\ txs[j] \in DOMAIN receipts
          /\ receipts[txs[j]] = ReceiptOf(txs, j, n, hash)
      <4>1. ReceiptsHold(receipts, txs, n, hash)
        BY <2>1, <3>1, <3>3, <1>1 DEF IndexedAs, LinkedAs
      <4>2. QED
        BY <4>1 DEF ReceiptsHold
    <3>5. n \in Nat
      BY <1>1 DEF IndexedAs
    <3>6. receipts[log.tx].logs # <<>>
      <4>1. Len(ReceiptOf(txs, j, n, hash).logs) = LogsOf[txs[j]]
        BY <3>5, ReceiptLogs
      <4>2. Len(<<>>) = 0
        OBVIOUS
      <4>3. QED
        BY <2>6, <3>2, <3>4, <4>1, <4>2
    <3>7. log.tx \in Range(txs)
      <4>1. DOMAIN txs = 1..Len(txs)
        OBVIOUS
      <4>2. QED
        BY <3>2, <4>1 DEF Range
    <3>8. hs[i].bloom = BloomOfReceipts(receipts, txs)
      BY <3>1, <1>1 DEF IndexedAs, LinkedAs
    <3>9. QED
      BY <3>2, <3>4, <3>6, <3>7, <3>8 DEF BloomOfReceipts
  <2>10. log.blockHash = GetBlockHash(n)
    BY <2>2, <2>6 DEF GetBlockHash
  <2>11. QED
    BY <2>2, <2>4, <2>6, <2>7, <2>8, <2>9, <2>10
<1>4. LogsAreReceipts
  <2>1. \A from \in 0..latestNumber, to \in 0..latestNumber :
          GetLogs(from, to) =
            FlattenSeq([i \in 1..(to - from + 1) |->
              LogsIn(receipts, blockStore[from + i - 1].header.transactions)])
    BY IndexedLogs
  <2>2. ASSUME NEW from \in 0..latestNumber, NEW to \in 0..latestNumber, from = to,
               NEW k \in 1..Len(GetLogs(from, to))
        PROVE  LET log == GetLogs(from, to)[k]
               IN  /\ log.logIndex = k - 1
                   /\ log.blockHash = GetBlockHash(from)
                   /\ blockStore[from].header.transactions[log.transactionIndex + 1] = log.tx
                   /\ GetLogsByHash(log.blockHash) = GetLogs(from, to)
                   /\ LogToRpc(log).blockTimestamp = BlockByHash(log.blockHash).timestamp
                   /\ log.tx \in BlockByHash(log.blockHash).bloom
    BY <1>3, <2>2
  <2>3. QED
    BY <2>1, <2>2 DEF LogsAreReceipts
<1>5. QED
  BY <1>2, <1>4, IndexedLinked DEF ChainConsistent

-----------------------------------------------------------------------------
(* How the chain grows. *)

(* A map keeps everything another one has.                                     *)
Extends(more, found) == \A t \in DOMAIN found : t \in DOMAIN more /\ more[t] = found[t]

LEMMA ReceiptsExtended ==
  ASSUME NEW txs \in Seq(Tx), NEW found, NEW more, NEW number, NEW hash,
         ReceiptsHold(found, txs, number, hash), Extends(more, found)
  PROVE  /\ ReceiptsHold(more, txs, number, hash)
         /\ BloomOfReceipts(more, txs) = BloomOfReceipts(found, txs)
         /\ LogsIn(more, txs) = LogsIn(found, txs)
<1>1. \A j \in 1..Len(txs) :
        /\ txs[j] \in DOMAIN found /\ txs[j] \in DOMAIN more /\ more[txs[j]] = found[txs[j]]
        /\ found[txs[j]] = ReceiptOf(txs, j, number, hash)
  BY DEF ReceiptsHold, Extends
<1>2. ReceiptsHold(more, txs, number, hash)
  BY <1>1 DEF ReceiptsHold
<1>3. BloomOfReceipts(more, txs) = BloomOfReceipts(found, txs)
  <2>1. \A t \in Range(txs) : t \in DOMAIN found /\ t \in DOMAIN more /\ more[t] = found[t]
    <3>1. DOMAIN txs = 1..Len(txs)
      OBVIOUS
    <3>2. QED
      BY <1>1, <3>1 DEF Range
  <2>2. QED
    BY <2>1 DEF BloomOfReceipts
<1>4. LogsIn(more, txs) = LogsIn(found, txs)
  <2>1. [i \in 1..Len(txs) |-> more[txs[i]].logs] = [i \in 1..Len(txs) |-> found[txs[i]].logs]
    BY <1>1
  <2>2. QED
    BY <2>1 DEF LogsIn
<1>5. QED
  BY <1>2, <1>3, <1>4

LEMMA LinkedExtended ==
  ASSUME NEW hs, NEW found, NEW more, Linked(hs, found), Extends(more, found)
  PROVE  Linked(hs, more) /\ LogsOfBlocks(hs, more) = LogsOfBlocks(hs, found)
<1>1. LinkedAs(hs, found)
  BY LinkedFacts
<1>2. ASSUME NEW i \in 1..Len(hs)
      PROVE  /\ IsBlock(hs[i], i - 1, ParentOf(hs, i), more)
             /\ LogsIn(more, hs[i].transactions) = LogsIn(found, hs[i].transactions)
  <2>1. IsBlock(hs[i], i - 1, ParentOf(hs, i), found)
    BY DEF Linked
  <2>2. PICK txs \in Seq(Tx) : txs = hs[i].transactions
    BY <1>1 DEF LinkedAs
  <2>3. ReceiptsHold(found, txs, i - 1, hs[i].hash)
    BY <2>1, <2>2 DEF IsBlock
  <2>4. /\ ReceiptsHold(more, txs, i - 1, hs[i].hash)
        /\ BloomOfReceipts(more, txs) = BloomOfReceipts(found, txs)
        /\ LogsIn(more, txs) = LogsIn(found, txs)
    BY ONLY <2>3, Extends(more, found), ReceiptsExtended
  <2>5. QED
    BY <2>1, <2>2, <2>4 DEF IsBlock
<1>3. Linked(hs, more)
  BY <1>2 DEF Linked
<1>4. [i \in 1..Len(hs) |-> LogsIn(more, hs[i].transactions)] =
        [i \in 1..Len(hs) |-> LogsIn(found, hs[i].transactions)]
  BY <1>2
<1>5. QED
  BY <1>3, <1>4 DEF LogsOfBlocks

(* What storeBlock keeps of a block is its header.                             *)
LEMMA StoredIsBlock ==
  ASSUME NEW number \in Nat, NEW parent \in Hash, Len(parent) = number,
         NEW time \in Nat, NEW fee \in Nat, NEW txs \in Seq(Tx), NEW found, NEW block,
         block = [number |-> number, parentHash |-> parent, timestamp |-> time, baseFee |-> fee],
         ReceiptsHold(found, txs, number, HashOf(block))
  PROVE  LET sb == StoredBlock(block, txs, found)
         IN  /\ IsBlock(sb.header, number, parent, found)
             /\ sb = [block |-> Rebuilt(sb.header), header |-> sb.header]
             /\ sb.header.hash = HashOf(block) /\ sb.header.baseFee = fee
             /\ sb.header.parentHash = parent /\ sb.header.transactions = txs
             /\ sb.header \in Header
<1>1. HashOf(block) = Append(parent, <<number, time, fee>>)
  BY DEF HashOf
<1>2. HashOf(block) \in Hash /\ Len(HashOf(block)) = number + 1
  <2>1. PICK e \in Nat \X Nat \X Nat : e = <<number, time, fee>>
    OBVIOUS
  <2>2. parent \in Seq(Nat \X Nat \X Nat)
    BY DEF Hash
  <2>3. Append(parent, e) \in Seq(Nat \X Nat \X Nat) /\ Len(Append(parent, e)) = Len(parent) + 1
    BY ONLY <2>2, AppendProperties
  <2>4. QED
    BY <1>1, <2>1, <2>3 DEF Hash
<1>3. BloomOfReceipts(found, txs) \in SUBSET Tx
  <2>1. Range(txs) \subseteq Tx
    BY DEF Range
  <2>2. QED
    BY <2>1 DEF BloomOfReceipts
<1> DEFINE h == StoredBlock(block, txs, found).header
<1>4. h = [number |-> number, hash |-> HashOf(block), parentHash |-> parent,
           timestamp |-> time, baseFee |-> fee, bloom |-> BloomOfReceipts(found, txs),
           transactions |-> txs]
  BY DEF StoredBlock
<1>5. h \in Header
  BY <1>2, <1>3, <1>4 DEF Header
<1>6. Rebuilt(h) = block /\ StoredBlock(block, txs, found).block = block
  BY <1>4 DEF Rebuilt, StoredBlock
<1>7. StoredBlock(block, txs, found) = [block |-> block, header |-> h]
  BY DEF StoredBlock
<1> HIDE DEF h
<1>8. IsBlock(h, number, parent, found)
  BY <1>2, <1>4, <1>5, <1>6 DEF IsBlock
<1>9. QED
  BY <1>4, <1>5, <1>6, <1>7, <1>8 DEF h

(* The receipts of a batch, beside those there were.                            *)
LEMMA BatchReceipts ==
  ASSUME ReceiptsTyped(receipts), NEW batch \in Batches, NEW number \in Nat, NEW hash \in Hash,
         NEW R, R = Over(ReceiptsOf(batch, number, hash), receipts)
  PROVE  /\ batch \in Seq(Tx)
         /\ ReceiptsTyped(R) /\ Extends(R, receipts)
         /\ ReceiptsHold(R, batch, number, hash)
         /\ LogsIn(ReceiptsOf(batch, number, hash), batch) = LogsIn(R, batch)
<1> DEFINE found == ReceiptsOf(batch, number, hash)
<1>1. PICK n \in 0..BatchLimit : batch \in [1..n -> Tx \ DOMAIN receipts] /\ IsInjective(batch)
  BY DEF Batches
<1>2. batch \in Seq(Tx) /\ Len(batch) = n /\ DOMAIN batch = 1..n /\ n \in Nat
  BY <1>1, IndexAssumption
<1>3. DOMAIN found = Range(batch) /\ Range(batch) \subseteq Tx \ DOMAIN receipts
  BY <1>1 DEF ReceiptsOf, Range
<1>4. ASSUME NEW j \in 1..n
      PROVE  batch[j] \in DOMAIN found /\ found[batch[j]] = ReceiptOf(batch, j, number, hash)
  <2>1. batch[j] \in Range(batch)
    BY <1>2 DEF Range
  <2>2. (CHOOSE i \in 1..Len(batch) : batch[i] = batch[j]) = j
    <3>1. \A i \in 1..Len(batch) : batch[i] = batch[j] => i = j
      BY <1>1, <1>2 DEF IsInjective
    <3>2. j \in 1..Len(batch)
      BY <1>2
    <3>3. QED
      BY <3>1, <3>2
  <2>3. QED
    BY <2>1, <2>2 DEF ReceiptsOf
<1>5. ASSUME NEW t \in DOMAIN found PROVE found[t].logs \in Seq(Log)
  <2>1. PICK j \in 1..n : t = batch[j]
    BY <1>2, <1>3 DEF Range
  <2>2. ReceiptOf(batch, j, number, hash).logs \in Seq(Log)
    BY <1>2, ReceiptLogs
  <2> HIDE DEF found
  <2>3. QED
    BY <1>4, <2>1, <2>2
<1> HIDE DEF found
<1>6. /\ DOMAIN R = DOMAIN found \cup DOMAIN receipts
      /\ \A t \in DOMAIN found : R[t] = found[t]
      /\ \A t \in DOMAIN receipts : R[t] = receipts[t]
  BY <1>3 DEF Over, found
<1>7. ReceiptsTyped(R) /\ Extends(R, receipts)
  BY <1>3, <1>5, <1>6 DEF ReceiptsTyped, Extends
<1>8. ReceiptsHold(R, batch, number, hash)
  BY <1>2, <1>4, <1>6 DEF ReceiptsHold
<1>9. [i \in 1..Len(batch) |-> found[batch[i]].logs] = [i \in 1..Len(batch) |-> R[batch[i]].logs]
  BY <1>2, <1>4, <1>6
<1>10. LogsIn(found, batch) = LogsIn(R, batch)
  BY <1>9 DEF LogsIn
<1>11. QED
  BY <1>2, <1>7, <1>8, <1>10 DEF found

(* The next block follows the head.                                            *)
LEMMA NextBlockHash ==
  ASSUME NEW hs, Indexed(hs), baseFeePerGas \in BaseFee, NEW time \in Time
  PROVE  /\ latestNumber \in Nat /\ latestNumber + 1 \in Nat
         /\ NextBlock(time).number = latestNumber + 1
         /\ NextBlock(time) = [number |-> latestNumber + 1, parentHash |-> parentHash,
                               timestamp |-> time, baseFee |-> baseFeePerGas]
         /\ parentHash = hs[Len(hs)].hash
         /\ parentHash \in Hash /\ Len(parentHash) = latestNumber + 1
         /\ HashOf(NextBlock(time)) \in Hash
         /\ Len(HashOf(NextBlock(time))) = latestNumber + 2
         /\ time \in Nat /\ baseFeePerGas \in Nat
<1>1. IndexedAs(hs) /\ LinkedAs(hs, receipts)
  BY IndexFacts
<1>2. latestNumber \in Nat /\ latestNumber + 1 \in Nat /\ Len(hs) = latestNumber + 1
  BY <1>1 DEF IndexedAs
<1>3. /\ parentHash = hs[Len(hs)].hash /\ parentHash \in Hash
      /\ Len(parentHash) = latestNumber + 1
  BY <1>2, <1>1 DEF IndexedAs, LinkedAs
<1>4. NextBlock(time) = [number |-> latestNumber + 1, parentHash |-> parentHash,
                         timestamp |-> time, baseFee |-> baseFeePerGas]
  BY DEF NextBlock, NextNumber
<1>5. time \in Nat /\ baseFeePerGas \in Nat
  BY IndexAssumption
<1>6. HashOf(NextBlock(time)) = Append(parentHash, <<latestNumber + 1, time, baseFeePerGas>>)
  BY <1>4 DEF HashOf
<1>7. HashOf(NextBlock(time)) \in Hash /\ Len(HashOf(NextBlock(time))) = latestNumber + 2
  <2>1. PICK e \in Nat \X Nat \X Nat :
          e = <<latestNumber + 1, time, baseFeePerGas>> /\ HashOf(NextBlock(time)) = Append(parentHash, e)
    <3>1. PICK n \in Nat : n = latestNumber + 1
      BY <1>2
    <3>2. <<n, time, baseFeePerGas>> \in Nat \X Nat \X Nat
      BY <1>5
    <3>3. HashOf(NextBlock(time)) = Append(parentHash, <<n, time, baseFeePerGas>>)
      BY <1>6, <3>1
    <3>4. QED
      BY <3>1, <3>2, <3>3
  <2>2. parentHash \in Seq(Nat \X Nat \X Nat)
    BY <1>3 DEF Hash
  <2>3. /\ Append(parentHash, e) \in Seq(Nat \X Nat \X Nat)
        /\ Len(Append(parentHash, e)) = Len(parentHash) + 1
    BY ONLY <2>2, AppendProperties
  <2>4. Len(parentHash) + 1 = latestNumber + 2
    BY <1>2, <1>3
  <2>5. QED
    BY <2>1, <2>3, <2>4 DEF Hash
<1>8. NextBlock(time).number = latestNumber + 1
  BY <1>4
<1>9. QED
  BY <1>2, <1>3, <1>4, <1>5, <1>7, <1>8

(* Mining adds a block to the chain.                                          *)
LEMMA MineIndexed ==
  ASSUME NEW hs, Indexed(hs), ReceiptsTyped(receipts), baseFeePerGas \in BaseFee,
         NEW batch \in Batches, NEW time \in Time, Mine(batch, time)
  PROVE  \E h \in Header :
           /\ Indexed(Append(hs, h))' /\ h.baseFee = baseFeePerGas
           /\ ReceiptsTyped(receipts') /\ Extends(receipts', receipts)
<1>1. IndexedAs(hs) /\ LinkedAs(hs, receipts)
  BY IndexFacts
<1> DEFINE block == NextBlock(time)
           number == latestNumber + 1
<1>2. number \in Nat /\ Len(hs) = number /\ hs \in Seq(Header) /\ Len(hs) # 0
  BY <1>1 DEF IndexedAs, Linked
<1>3. /\ parentHash = hs[Len(hs)].hash /\ parentHash \in Hash /\ Len(parentHash) = number
      /\ block = [number |-> number, parentHash |-> parentHash, timestamp |-> time,
                  baseFee |-> baseFeePerGas]
      /\ block.number = number
      /\ HashOf(block) \in Hash /\ Len(HashOf(block)) = latestNumber + 2 /\ latestNumber \in Nat
      /\ time \in Nat /\ baseFeePerGas \in Nat
  BY NextBlockHash
<1>4. HashOf(block) \in Hash /\ Len(HashOf(block)) = number + 1
  BY <1>2, <1>3
<1> DEFINE found == ReceiptsOf(batch, number, HashOf(block))
<1>5. /\ receipts' = Over(found, receipts)
      /\ allLogs' = allLogs \o LogsIn(found, batch)
      /\ blockStore' = Put(blockStore, number, StoredBlock(block, batch, receipts'))
      /\ blockByHash' = Put(blockByHash, HashOf(block), number)
      /\ latestNumber' = number /\ parentHash' = HashOf(block)
  BY <1>3 DEF Mine, StoreBlock
<1> HIDE DEF block, number
<1>6. /\ batch \in Seq(Tx)
      /\ ReceiptsTyped(receipts') /\ Extends(receipts', receipts)
      /\ ReceiptsHold(receipts', batch, number, HashOf(block))
      /\ LogsIn(found, batch) = LogsIn(receipts', batch)
  <2>1. PICK R : R = receipts'
    OBVIOUS
  <2>2. PICK hash \in Hash : hash = HashOf(block)
    BY <1>4
  <2>3. R = Over(ReceiptsOf(batch, number, hash), receipts)
    BY <1>5, <2>1, <2>2
  <2>4. /\ batch \in Seq(Tx)
        /\ ReceiptsTyped(R) /\ Extends(R, receipts)
        /\ ReceiptsHold(R, batch, number, hash)
        /\ LogsIn(ReceiptsOf(batch, number, hash), batch) = LogsIn(R, batch)
    <3> HIDE DEF found
    <3>1. QED
      BY <1>2, <2>3, BatchReceipts
  <2>5. QED
    BY <2>1, <2>2, <2>4
<1> HIDE DEF found
<1> DEFINE sb == StoredBlock(block, batch, receipts')
           h == sb.header
           hs2 == Append(hs, h)
<1>7. /\ IsBlock(h, number, parentHash, receipts')
      /\ sb = [block |-> Rebuilt(h), header |-> h]
      /\ h.hash = HashOf(block) /\ h.baseFee = baseFeePerGas
      /\ h.parentHash = parentHash /\ h.transactions = batch
      /\ h \in Header
  <2>1. PICK R : R = receipts'
    OBVIOUS
  <2>2. ReceiptsHold(R, batch, number, HashOf(block)) /\ batch \in Seq(Tx)
    BY <1>6, <2>1
  <2>3. LET s == StoredBlock(block, batch, R)
        IN  /\ IsBlock(s.header, number, parentHash, R)
            /\ s = [block |-> Rebuilt(s.header), header |-> s.header]
            /\ s.header.hash = HashOf(block) /\ s.header.baseFee = baseFeePerGas
            /\ s.header.parentHash = parentHash /\ s.header.transactions = batch
            /\ s.header \in Header
    BY <1>2, <1>3, <2>2, StoredIsBlock
  <2>4. QED
    BY <2>1, <2>3
<1> HIDE DEF sb, h
<1>8. /\ hs2 \in Seq(Header) /\ Len(hs2) = number + 1 /\ hs2[number + 1] = h
      /\ \A i \in 1..number : hs2[i] = hs[i]
  BY <1>2, <1>7
<1>9. Linked(hs, receipts') /\ LogsOfBlocks(hs, receipts') = allLogs
  BY <1>6, <1>1, LinkedExtended DEF IndexedAs
<1> HIDE DEF hs2
<1>10. Linked(hs2, receipts')
  <2>1. ASSUME NEW i \in 1..Len(hs2)
        PROVE  IsBlock(hs2[i], i - 1, ParentOf(hs2, i), receipts')
    <3>1. CASE i = number + 1
      <4>1. i # 1 /\ i - 1 = number /\ number \in 1..number
        BY <1>2, <3>1
      <4>2. ParentOf(hs2, i) = hs[Len(hs)].hash
        BY <1>2, <1>8, <4>1 DEF ParentOf
      <4>3. QED
        BY <1>3, <1>7, <1>8, <3>1, <4>1, <4>2
    <3>2. CASE i # number + 1
      <4>1. i \in 1..number /\ (i # 1 => i - 1 \in 1..number)
        BY <1>2, <1>8, <3>2
      <4>2. hs2[i] = hs[i] /\ ParentOf(hs2, i) = ParentOf(hs, i)
        BY <1>8, <4>1 DEF ParentOf
      <4>3. IsBlock(hs[i], i - 1, ParentOf(hs, i), receipts')
        BY <1>2, <1>9, <4>1 DEF Linked
      <4>4. QED
        BY <4>2, <4>3
    <3>3. QED
      BY <3>1, <3>2
  <2>2. Len(hs2) # 0
    BY <1>2, <1>8
  <2>3. QED
    BY <1>8, <2>1, <2>2 DEF Linked
<1>11. blockStore' = [n \in 0..(Len(hs2) - 1) |->
                        [block |-> Rebuilt(hs2[n + 1]), header |-> hs2[n + 1]]]
  <2>1. blockStore = [n \in 0..(number - 1) |->
                        [block |-> Rebuilt(hs[n + 1]), header |-> hs[n + 1]]]
    BY <1>2 DEF Indexed
  <2>2. DOMAIN blockStore \cup {number} = 0..(Len(hs2) - 1)
    BY <1>2, <1>8, <2>1
  <2>3. blockStore' = [n \in 0..(Len(hs2) - 1) |-> IF n = number THEN sb ELSE blockStore[n]]
    BY <1>5, <2>2 DEF Put, sb
  <2>4. ASSUME NEW n \in 0..(Len(hs2) - 1)
        PROVE  (IF n = number THEN sb ELSE blockStore[n]) =
                 [block |-> Rebuilt(hs2[n + 1]), header |-> hs2[n + 1]]
    <3>1. CASE n = number
      BY <1>7, <1>8, <3>1
    <3>2. CASE n # number
      <4>1. n \in 0..(number - 1) /\ n + 1 \in 1..number
        BY <1>2, <1>8, <3>2
      <4>2. hs2[n + 1] = hs[n + 1]
        BY <1>8, <4>1
      <4>3. QED
        BY <2>1, <3>2, <4>1, <4>2
    <3>3. QED
      BY <3>1, <3>2
  <2>5. QED
    BY <2>3, <2>4
<1>12. blockByHash' = [x \in {hs2[i].hash : i \in 1..Len(hs2)} |-> Len(x) - 1]
  <2>1. blockByHash = [x \in {hs[i].hash : i \in 1..number} |-> Len(x) - 1]
    BY <1>2 DEF Indexed
  <2>2. {hs2[i].hash : i \in 1..Len(hs2)} = {hs[i].hash : i \in 1..number} \cup {HashOf(block)}
    <3>1. \A i \in 1..Len(hs2) : i = number + 1 \/ i \in 1..number
      BY <1>2, <1>8
    <3>2. number + 1 \in 1..Len(hs2) /\ \A i \in 1..number : i \in 1..Len(hs2)
      BY <1>2, <1>8
    <3>3. QED
      BY <1>7, <1>8, <3>1, <3>2
  <2>3. DOMAIN blockByHash \cup {HashOf(block)} = {hs2[i].hash : i \in 1..Len(hs2)}
    BY <2>1, <2>2
  <2>4. blockByHash' = [x \in {hs2[i].hash : i \in 1..Len(hs2)} |->
                          IF x = HashOf(block) THEN number ELSE blockByHash[x]]
    BY <1>5, <2>3 DEF Put
  <2>5. ASSUME NEW x \in {hs2[i].hash : i \in 1..Len(hs2)}
        PROVE  (IF x = HashOf(block) THEN number ELSE blockByHash[x]) = Len(x) - 1
    <3>1. CASE x = HashOf(block)
      BY <1>2, <1>4, <3>1
    <3>2. CASE x # HashOf(block)
      <4>1. x \in {hs[i].hash : i \in 1..number}
        BY <2>2, <3>2
      <4>2. QED
        BY <2>1, <3>2, <4>1
    <3>3. QED
      BY <3>1, <3>2
  <2>6. QED
    BY <2>4, <2>5
<1>13. allLogs' = LogsOfBlocks(hs2, receipts')
  <2> DEFINE g == [i \in 1..(number + 1) |-> LogsIn(receipts', hs2[i].transactions)]
  <2>1. g \in [1..(number + 1) -> Seq(Log)] /\ LogsOfBlocks(hs2, receipts') = FlattenSeq(g)
    <3>1. PICK R : R = receipts'
      OBVIOUS
    <3>2. Linked(hs2, R)
      BY <1>10, <3>1
    <3>3. [i \in 1..Len(hs2) |-> LogsIn(R, hs2[i].transactions)] \in [1..Len(hs2) -> Seq(Log)]
      BY <3>2, ChainLogs
    <3>4. QED
      BY <1>8, <3>1, <3>3 DEF LogsOfBlocks
  <2>2. [i \in 1..number |-> g[i]] = [i \in 1..Len(hs) |-> LogsIn(receipts', hs[i].transactions)]
    <3>1. \A i \in 1..number : g[i] = LogsIn(receipts', hs[i].transactions)
      BY <1>2, <1>8
    <3> HIDE DEF g
    <3>2. QED
      BY <1>2, <3>1
  <2>3. g[number + 1] = LogsIn(receipts', batch)
    BY <1>2, <1>7, <1>8
  <2>4. FlattenSeq(g) = FlattenSeq([i \in 1..number |-> g[i]]) \o g[number + 1]
    <3> HIDE DEF g
    <3>1. QED
      BY <1>2, <2>1, FlattenNext
  <2>5. FlattenSeq([i \in 1..number |-> g[i]]) = allLogs
    BY <1>9, <2>2 DEF LogsOfBlocks
  <2> HIDE DEF g
  <2>6. QED
    BY <1>5, <1>6, <2>1, <2>3, <2>4, <2>5
<1>14. latestNumber' = Len(hs2) - 1 /\ parentHash' = hs2[Len(hs2)].hash
  BY <1>2, <1>5, <1>7, <1>8
<1>15. PICK c \in Header : c = h
  BY <1>7
<1>16. PICK cs : cs = Append(hs, c) /\ cs = hs2
  BY <1>15 DEF hs2
<1>17. Indexed(cs)'
  BY <1>10, <1>11, <1>12, <1>13, <1>14, <1>16 DEF Indexed
<1>18. QED
  BY <1>6, <1>7, <1>15, <1>16, <1>17

-----------------------------------------------------------------------------
(* What a dump keeps of a chain, and what comes back. *)

LEMMA AscendingAll ==
  ASSUME NEW N \in Nat
  PROVE  Ascending(0..N) = [i \in 1..(N + 1) |-> i - 1]
<1>1. Cardinality(0..N) = N + 1
  BY FS_Interval
<1>2. ASSUME NEW n \in 0..N PROVE Cardinality({m \in 0..N : m < n}) = n
  <2>1. {m \in 0..N : m < n} = 0..(n - 1)
    OBVIOUS
  <2>2. n - 1 \in Int /\ (0 > n - 1 => n = 0) /\ (n - 1) - 0 + 1 = n
    OBVIOUS
  <2>3. Cardinality(0..(n - 1)) = n
    BY <2>2, FS_Interval
  <2>4. QED
    BY <2>1, <2>3
<1>3. ASSUME NEW i \in 1..(N + 1)
      PROVE  (CHOOSE n \in 0..N : Cardinality({m \in 0..N : m < n}) = i - 1) = i - 1
  <2>1. i - 1 \in 0..N
    OBVIOUS
  <2>2. \A n \in 0..N : Cardinality({m \in 0..N : m < n}) = i - 1 <=> n = i - 1
    BY <1>2
  <2>3. QED
    BY <2>1, <2>2
<1>4. QED
  BY <1>1, <1>3 DEF Ascending

DumpedAs(d, hs) ==
  /\ Linked(hs, d.receipts) /\ ReceiptsTyped(d.receipts)
  /\ d.blocks = [i \in 1..Len(hs) |-> IF d.blooms THEN hs[i] ELSE [hs[i] EXCEPT !.bloom = {}]]

LEMMA DumpTaken ==
  ASSUME NEW hs, Indexed(hs), ReceiptsTyped(receipts), NEW b \in BOOLEAN
  PROVE  DumpedAs(DumpState(b), hs)
<1>1. IndexedAs(hs) /\ LinkedAs(hs, receipts)
  BY IndexFacts
<1>2. DumpedNumbers = 0..latestNumber /\ latestNumber \in Nat /\ Len(hs) = latestNumber + 1
  BY <1>1 DEF IndexedAs, DumpedNumbers
<1>3. Ascending(DumpedNumbers) = [i \in 1..Len(hs) |-> i - 1]
  BY <1>2, AscendingAll
<1>4. Len(Ascending(DumpedNumbers)) = Len(hs)
  BY <1>2, <1>3
<1>5. ASSUME NEW i \in 1..Len(hs) PROVE blockStore[Ascending(DumpedNumbers)[i]].header = hs[i]
  <2>1. PICK n \in 0..latestNumber : n = i - 1 /\ n + 1 = i
    BY <1>2
  <2>2. Ascending(DumpedNumbers)[i] = n
    BY <1>3, <2>1
  <2>3. blockStore[n].header = hs[n + 1]
    BY <1>1 DEF IndexedAs
  <2>4. QED
    BY <2>1, <2>2, <2>3
<1> DEFINE ns == Ascending(DumpedNumbers)
           listed == [i \in 1..Len(ns) |->
                        IF b THEN blockStore[ns[i]].header
                        ELSE [blockStore[ns[i]].header EXCEPT !.bloom = {}]]
<1>6. listed = [i \in 1..Len(hs) |-> IF b THEN hs[i] ELSE [hs[i] EXCEPT !.bloom = {}]]
  BY <1>4, <1>5
<1>7. /\ DumpState(b).receipts = receipts /\ DumpState(b).blooms = b
      /\ DumpState(b).blocks = listed
  BY DEF DumpState
<1> HIDE DEF listed, ns
<1>8. QED
  BY <1>6, <1>7, <1>1 DEF DumpedAs, IndexedAs

(* Loading a dump of a chain gives the indexes of that chain.                    *)
LEMMA LoadIndexed ==
  ASSUME NEW hs, DumpedAs(dump, hs), LoadState
  PROVE  /\ Indexed(hs)' /\ ReceiptsTyped(receipts') /\ receipts' = dump.receipts
         /\ UNCHANGED dump
<1>1. LinkedAs(hs, dump.receipts)
  BY LinkedFacts DEF DumpedAs
<1> DEFINE headers == dump.blocks
           AtNumber(n) == CHOOSE i \in 1..Len(headers) : headers[i].number = n
           AtHash(h) == CHOOSE i \in 1..Len(headers) : headers[i].hash = h
<1>2. Len(hs) \in Nat /\ Len(hs) # 0
  BY <1>1 DEF LinkedAs
<1>3. headers = [i \in 1..Len(hs) |->
                   IF dump.blooms THEN hs[i] ELSE [hs[i] EXCEPT !.bloom = {}]]
  BY DEF DumpedAs
<1>4. Len(headers) = Len(hs)
  BY <1>2, <1>3
<1>5. /\ receipts' = dump.receipts
      /\ blockStore' = [n \in {headers[i].number : i \in 1..Len(headers)} |->
                          [block |-> Rebuilt(headers[AtNumber(n)]),
                           header |-> LoadedHeader(headers[AtNumber(n)])]]
      /\ blockByHash' = [h \in {headers[i].hash : i \in 1..Len(headers)} |->
                           headers[AtHash(h)].number]
      /\ allLogs' = RebuiltLogs(headers)
      /\ latestNumber' = Last(headers).number
      /\ parentHash' = HashOf(Rebuilt(Last(headers)))
      /\ UNCHANGED dump
  BY DEF LoadState
<1>6. ASSUME NEW i \in 1..Len(hs)
      PROVE  /\ headers[i].number = i - 1 /\ headers[i].hash = hs[i].hash
             /\ headers[i].transactions = hs[i].transactions
             /\ Rebuilt(headers[i]) = Rebuilt(hs[i])
             /\ LoadedHeader(headers[i]) = hs[i]
  <2>1. PICK h \in Header : h = hs[i]
    BY <1>1 DEF LinkedAs
  <2>2. headers[i] = IF dump.blooms THEN h ELSE [h EXCEPT !.bloom = {}]
    BY <1>3, <2>1
  <2>3. h.number = i - 1 /\ h.bloom = BloomOfReceipts(dump.receipts, h.transactions)
    BY <2>1, <1>1 DEF LinkedAs
  <2> HIDE DEF headers
  <2>4. CASE dump.blooms
    <3>1. headers[i] = h
      BY <2>2, <2>4
    <3>2. QED
      BY <2>1, <2>3, <2>4, <3>1 DEF LoadedHeader
  <2>5. CASE ~ dump.blooms
    <3>1. PICK e \in Header : e = [h EXCEPT !.bloom = {}]
      BY DEF Header
    <3>2. headers[i] = e
      BY <2>2, <2>5, <3>1
    <3>3. /\ e.number = h.number /\ e.hash = h.hash /\ e.transactions = h.transactions
          /\ e.parentHash = h.parentHash /\ e.timestamp = h.timestamp /\ e.baseFee = h.baseFee
      BY <3>1 DEF Header
    <3>4. [e EXCEPT !.bloom = h.bloom] = h
      BY <3>1 DEF Header
    <3>5. LoadedHeader(e) = [e EXCEPT !.bloom = BloomOfReceipts(dump.receipts, e.transactions)]
      BY <2>5 DEF LoadedHeader
    <3>6. LoadedHeader(e) = h
      BY <2>3, <3>3, <3>4, <3>5
    <3>7. Rebuilt(e) = Rebuilt(h)
      BY <3>3 DEF Rebuilt
    <3>8. QED
      BY <2>1, <2>3, <3>2, <3>3, <3>6, <3>7
  <2>6. QED
    BY <2>4, <2>5
<1> HIDE DEF headers
<1>7. ASSUME NEW i \in 1..Len(hs) PROVE AtNumber(i - 1) = i /\ AtHash(hs[i].hash) = i
  <2>1. \A j \in 1..Len(headers) : headers[j].number = i - 1 <=> j = i
    BY <1>2, <1>4, <1>6
  <2>2. \A j \in 1..Len(headers) : headers[j].hash = hs[i].hash <=> j = i
    <3>1. \A j \in 1..Len(hs) : hs[j].hash = hs[i].hash => j = i
      BY <1>1 DEF LinkedAs
    <3>2. QED
      BY <1>4, <1>6, <3>1
  <2>3. i \in 1..Len(headers)
    BY <1>4
  <2>4. QED
    BY <2>1, <2>2, <2>3
<1>8. blockStore' = [n \in 0..(Len(hs) - 1) |->
                       [block |-> Rebuilt(hs[n + 1]), header |-> hs[n + 1]]]
  <2>1. {headers[i].number : i \in 1..Len(headers)} = 0..(Len(hs) - 1)
    <3>1. ASSUME NEW n \in 0..(Len(hs) - 1)
          PROVE  \E i \in 1..Len(headers) : headers[i].number = n
      <4>1. PICK i \in 1..Len(hs) : i = n + 1 /\ n = i - 1
        BY <1>2
      <4>2. headers[i].number = n /\ i \in 1..Len(headers)
        BY <1>4, <1>6, <4>1
      <4>3. QED
        BY <4>2
    <3>2. ASSUME NEW i \in 1..Len(headers)
          PROVE  headers[i].number \in 0..(Len(hs) - 1)
      <4>1. i \in 1..Len(hs) /\ i - 1 \in 0..(Len(hs) - 1)
        BY <1>2, <1>4
      <4>2. QED
        BY <1>6, <4>1
    <3>3. QED
      BY <3>1, <3>2
  <2>2. ASSUME NEW n \in 0..(Len(hs) - 1)
        PROVE  /\ Rebuilt(headers[AtNumber(n)]) = Rebuilt(hs[n + 1])
               /\ LoadedHeader(headers[AtNumber(n)]) = hs[n + 1]
    <3>1. PICK i \in 1..Len(hs) : i = n + 1 /\ n = i - 1
      BY <1>2
    <3>2. AtNumber(n) = i
      BY <1>7, <3>1
    <3> HIDE DEF AtNumber
    <3>3. QED
      BY <1>6, <3>1, <3>2
  <2> HIDE DEF AtNumber
  <2>3. QED
    BY <1>5, <2>1, <2>2
<1>9. blockByHash' = [h \in {hs[i].hash : i \in 1..Len(hs)} |-> Len(h) - 1]
  <2>1. {headers[i].hash : i \in 1..Len(headers)} = {hs[i].hash : i \in 1..Len(hs)}
    BY <1>4, <1>6
  <2>2. ASSUME NEW h \in {hs[i].hash : i \in 1..Len(hs)}
        PROVE  headers[AtHash(h)].number = Len(h) - 1
    <3>1. PICK i \in 1..Len(hs) : h = hs[i].hash
      OBVIOUS
    <3>2. AtHash(h) = i /\ Len(h) = i
      BY <1>7, <3>1, <1>1 DEF LinkedAs
    <3> HIDE DEF AtHash
    <3>3. QED
      BY <1>6, <3>2
  <2> HIDE DEF AtHash
  <2>3. QED
    BY <1>5, <2>1, <2>2
<1>10. Last(headers) = headers[Len(hs)] /\ Len(hs) \in 1..Len(hs)
  BY <1>2, <1>4 DEF Last
<1>11. latestNumber' = Len(hs) - 1
  BY <1>5, <1>6, <1>10
<1>12. parentHash' = hs[Len(hs)].hash
  <2>1. hs[Len(hs)].hash = HashOf(Rebuilt(hs[Len(hs)]))
    BY <1>10, <1>1 DEF LinkedAs
  <2>2. QED
    BY <1>5, <1>6, <1>10, <2>1
<1>13. allLogs' = LogsOfBlocks(hs, dump.receipts)
  <2>1. [i \in 1..Len(headers) |-> LogsIn(dump.receipts, headers[i].transactions)] =
          [i \in 1..Len(hs) |-> LogsIn(dump.receipts, hs[i].transactions)]
    BY <1>4, <1>6
  <2>2. QED
    BY <1>5, <2>1 DEF RebuiltLogs, LogsOfBlocks
<1>14. Linked(hs, receipts') /\ ReceiptsTyped(receipts')
  BY <1>5 DEF DumpedAs
<1>15. QED
  BY <1>5, <1>8, <1>9, <1>11, <1>12, <1>13, <1>14 DEF Indexed

-----------------------------------------------------------------------------
(* The invariant: there is a chain that the indexes are those of, and one that     *)
(* the last dump is of, no longer than the node's; the log starts at or below      *)
(* the head, and that of the dump at or below the dump's.                       *)

DumpFits(hs) ==
  DumpedAs(dump, hs) /\ Len(hs) <= latestNumber + 1 /\ dumpedFloor <= Len(hs) - 1

ChainInv ==
  /\ baseFeePerGas \in BaseFee /\ ReceiptsTyped(receipts)
  /\ \E hs : Indexed(hs)
  /\ latestNumber <= BlockLimit
  /\ historyFloor \in 0..latestNumber
  /\ dumpedFloor \in Int /\ dumpedFloor >= -1
  /\ \/ dump.blocks = <<>> /\ dumpedFloor = NoHistory
     \/ \E hs : DumpFits(hs)

LEMMA LimitTyped == BlockLimit \in Nat /\ Window \in Nat
BY IndexAssumption, WindowAssumption

LEMMA InitChain == ParamInit => ChainInv
<1>1. SUFFICES ASSUME ParamInit PROVE ChainInv
  OBVIOUS
<1>2. PICK fee \in BaseFee, time \in Time :
        LET genesis == Genesis(fee, time)
        IN  /\ baseFeePerGas = fee
            /\ blockStore = [n \in {0} |-> StoredBlock(genesis, <<>>, <<>>)]
            /\ blockByHash = [h \in {HashOf(genesis)} |-> 0]
            /\ receipts = <<>>
            /\ allLogs = <<>>
            /\ latestNumber = 0
            /\ parentHash = HashOf(genesis)
            /\ dump = [blocks |-> <<>>, blooms |-> TRUE, receipts |-> <<>>]
  BY <1>1 DEF ParamInit, IndexInit
<1> DEFINE block == Genesis(fee, time)
<1>3. block = [number |-> 0, parentHash |-> <<>>, timestamp |-> time, baseFee |-> fee]
  BY DEF Genesis
<1>4. time \in Nat /\ fee \in Nat /\ <<>> \in Hash /\ Len(<<>>) = 0 /\ <<>> \in Seq(Tx)
  BY IndexAssumption DEF Hash
<1>5. ReceiptsHold(<<>>, <<>>, 0, HashOf(block))
  BY DEF ReceiptsHold
<1> HIDE DEF block
<1> DEFINE sb == StoredBlock(block, <<>>, <<>>)
           h == sb.header
<1>6. /\ IsBlock(h, 0, <<>>, <<>>)
      /\ sb = [block |-> Rebuilt(h), header |-> h]
      /\ h.hash = HashOf(block) /\ h.transactions = <<>> /\ h \in Header
  <2>1. PICK parent \in Hash : parent = <<>>
    BY <1>4
  <2>2. PICK txs \in Seq(Tx) : txs = <<>>
    BY <1>4
  <2>3. PICK found : found = <<>>
    OBVIOUS
  <2>4. Len(parent) = 0
    BY <1>4, <2>1
  <2>5. block = [number |-> 0, parentHash |-> parent, timestamp |-> time, baseFee |-> fee]
    BY <1>3, <2>1
  <2>6. ReceiptsHold(found, txs, 0, HashOf(block))
    BY <1>5, <2>2, <2>3
  <2>7. LET s == StoredBlock(block, txs, found)
        IN  /\ IsBlock(s.header, 0, parent, found)
            /\ s = [block |-> Rebuilt(s.header), header |-> s.header]
            /\ s.header.hash = HashOf(block) /\ s.header.baseFee = fee
            /\ s.header.parentHash = parent /\ s.header.transactions = txs
            /\ s.header \in Header
    <3> HIDE DEF sb, h
    <3>1. QED
      BY <1>4, <2>4, <2>5, <2>6, StoredIsBlock
  <2>8. QED
    BY <2>1, <2>2, <2>3, <2>7
<1>7. Len(h.hash) = 1
  BY <1>6 DEF IsBlock
<1> HIDE DEF sb, h
<1>8. PICK hs \in Seq(Header) : Len(hs) = 1 /\ hs[1] = h
  <2>1. <<h>> \in Seq(Header) /\ Len(<<h>>) = 1 /\ <<h>>[1] = h
    BY <1>6
  <2>2. QED
    BY <2>1
<1>9. Linked(hs, receipts)
  BY <1>2, <1>6, <1>8 DEF Linked, ParentOf
<1>10. blockStore = [n \in 0..(Len(hs) - 1) |->
                       [block |-> Rebuilt(hs[n + 1]), header |-> hs[n + 1]]]
  <2>1. 0..(Len(hs) - 1) = {0} /\ 0 + 1 = 1
    BY <1>8
  <2>2. blockStore = [n \in {0} |-> sb]
    BY <1>2 DEF block, sb
  <2>3. QED
    BY <1>6, <1>8, <2>1, <2>2
<1>11. blockByHash = [x \in {hs[i].hash : i \in 1..Len(hs)} |-> Len(x) - 1]
  <2>1. {hs[i].hash : i \in 1..Len(hs)} = {h.hash}
    BY <1>8
  <2>2. blockByHash = [x \in {h.hash} |-> 0]
    BY <1>2, <1>6 DEF block
  <2>3. \A x \in {h.hash} : Len(x) - 1 = 0
    BY <1>7
  <2>4. [x \in {h.hash} |-> 0] = [x \in {h.hash} |-> Len(x) - 1]
    BY <2>3
  <2>5. QED
    BY <2>1, <2>2, <2>4
<1>12. allLogs = LogsOfBlocks(hs, receipts)
  <2>1. LogsIn(receipts, h.transactions) = <<>>
    <3>1. [i \in 1..Len(<<>>) |-> receipts[<<>>[i]].logs] = <<>>
      OBVIOUS
    <3>2. QED
      BY <1>6, <3>1, FlattenNone DEF LogsIn
  <2>2. <<>> \in Seq(Log)
    OBVIOUS
  <2>3. [i \in 1..Len(hs) |-> LogsIn(receipts, hs[i].transactions)] = [i \in 1..1 |-> <<>>]
    BY <1>8, <2>1
  <2>4. PICK g \in [1..1 -> Seq(Log)] : g = [i \in 1..1 |-> <<>>] /\ g[1] = <<>>
    <3>1. PICK e \in Seq(Log) : e = <<>>
      BY <2>2
    <3>2. [i \in 1..1 |-> e] \in [1..1 -> Seq(Log)] /\ [i \in 1..1 |-> e][1] = e
      OBVIOUS
    <3>3. QED
      BY <3>1, <3>2
  <2>5. FlattenSeq(g) = <<>>
    BY <2>2, <2>4, FlattenOne
  <2>6. QED
    BY <1>2, <2>3, <2>4, <2>5 DEF LogsOfBlocks
<1>13. latestNumber = Len(hs) - 1 /\ parentHash = hs[Len(hs)].hash
  BY <1>2, <1>6, <1>8 DEF block
<1>14. Indexed(hs)
  BY <1>9, <1>10, <1>11, <1>12, <1>13 DEF Indexed
<1>15. ReceiptsTyped(receipts)
  BY <1>2 DEF ReceiptsTyped
<1>16. QED
  BY <1>1, <1>2, <1>14, <1>15, LimitTyped DEF ChainInv, ParamInit, NoHistory

LEMMA OldestAtMostHead ==
  ASSUME NEW latest \in Nat, NEW first \in 0..latest, NEW w \in Nat
  PROVE  /\ Max({first, latest - w, 0}) \in 0..latest
         /\ Max({first, latest - w, 0}) >= first /\ Max({first, latest - w, 0}) >= latest - w
         /\ \A m \in Int : Max({first, latest - w, 0}) <= m <=> first <= m /\ latest - w <= m
<1> DEFINE S == {first, latest - w, 0}
<1>1. \E x \in S : \A y \in S : x >= y
  OBVIOUS
<1>2. Max(S) \in S /\ \A y \in S : Max(S) >= y
  BY <1>1 DEF Max
<1>3. QED
  BY <1>2

LEMMA MaxOfTwo ==
  ASSUME NEW a \in Int, NEW b \in Int
  PROVE  Max({a, b}) = IF a >= b THEN a ELSE b
<1>1. \E x \in {a, b} : \A y \in {a, b} : x >= y
  OBVIOUS
<1>2. Max({a, b}) \in {a, b} /\ \A y \in {a, b} : Max({a, b}) >= y
  BY <1>1 DEF Max
<1>3. QED
  BY <1>2

LEMMA NextChain ==
  ASSUME ChainInv, [ParamNext]_paramVars
  PROVE  ChainInv'
<1>1. PICK hs : Indexed(hs)
  BY DEF ChainInv
<1>2. IndexedAs(hs) /\ LinkedAs(hs, receipts)
  BY <1>1, IndexFacts
<1>3. /\ baseFeePerGas \in BaseFee /\ ReceiptsTyped(receipts) /\ latestNumber \in Nat
      /\ latestNumber <= BlockLimit /\ historyFloor \in 0..latestNumber
      /\ dumpedFloor \in Int /\ dumpedFloor >= -1 /\ Len(hs) = latestNumber + 1
      /\ (dump.blocks = <<>> /\ dumpedFloor = NoHistory) \/ \E ds : DumpFits(ds)
  BY <1>2 DEF ChainInv, IndexedAs
<1>4. ASSUME NEW batch \in Batches, NEW time \in Time, Len(parentHash) <= BlockLimit,
             Mine(batch, time), KeepFloor
      PROVE  ChainInv'
  <2>1. PICK h \in Header : Indexed(Append(hs, h))' /\ ReceiptsTyped(receipts')
    BY <1>1, <1>3, <1>4, MineIndexed
  <2>2. latestNumber' = latestNumber + 1 /\ Len(parentHash) = latestNumber + 1
    BY <1>1, <1>3, <1>4, NextBlockHash DEF Mine, StoreBlock
  <2>3. UNCHANGED <<dump, baseFeePerGas, historyFloor, dumpedFloor>>
    BY <1>4 DEF Mine, KeepFloor
  <2>4. ASSUME NEW ds, DumpFits(ds) PROVE DumpFits(ds)'
    <3>1. Len(ds) <= latestNumber' + 1
      <4>1. Len(ds) <= latestNumber + 1 /\ Len(ds) \in Nat
        BY <2>4 DEF DumpFits, DumpedAs, Linked
      <4>2. QED
        BY <1>3, <2>2, <4>1
    <3>2. QED
      BY <2>3, <2>4, <3>1 DEF DumpFits
  <2>5. QED
    <3>1. \E cs : Indexed(cs)'
      BY <2>1
    <3>2. \/ dump'.blocks = <<>> /\ dumpedFloor' = NoHistory
          \/ \E ds : DumpFits(ds)'
      BY <1>3, <2>3, <2>4
    <3>3. /\ latestNumber' <= BlockLimit /\ historyFloor' \in 0..latestNumber'
          /\ dumpedFloor' \in Int /\ dumpedFloor' >= -1
      BY <1>3, <1>4, <2>2, <2>3, LimitTyped
    <3>4. QED
      BY <1>3, <2>1, <2>3, <3>1, <3>2, <3>3 DEF ChainInv
<1>5. ASSUME NEW batch \in Batches, NEW time \in Time, TornBatch(batch, time), KeepFloor
      PROVE  ChainInv'
  <2>1. UNCHANGED <<baseFeePerGas, blockStore, blockByHash, allLogs, latestNumber,
                    parentHash, dump, historyFloor, dumpedFloor>>
    BY <1>5 DEF TornBatch, KeepFloor
  <2>2. PICK R : R = receipts'
    OBVIOUS
  <2>3. ReceiptsTyped(R) /\ Extends(R, receipts)
    <3>1. latestNumber + 1 \in Nat /\ NextBlock(time).number = latestNumber + 1
      BY <1>1, <1>3, NextBlockHash
    <3>2. PICK hash \in Hash : hash = HashOf(NextBlock(time))
      BY <1>1, <1>3, NextBlockHash
    <3>3. R = Over(ReceiptsOf(batch, latestNumber + 1, hash), receipts)
      BY <1>5, <2>2, <3>1, <3>2 DEF TornBatch
    <3>4. PICK number \in Nat : number = latestNumber + 1
      BY <3>1
    <3>5. R = Over(ReceiptsOf(batch, number, hash), receipts)
      BY <3>3, <3>4
    <3>6. QED
      BY <1>3, <3>5, BatchReceipts
  <2>4. Linked(hs, R) /\ LogsOfBlocks(hs, R) = LogsOfBlocks(hs, receipts)
    BY <2>3, <1>2, LinkedExtended DEF IndexedAs
  <2>5. Indexed(hs)'
    BY <1>1, <2>1, <2>2, <2>4 DEF Indexed
  <2>6. ASSUME NEW ds, DumpFits(ds) PROVE DumpFits(ds)'
    BY <2>1, <2>6 DEF DumpFits
  <2>7. QED
    BY <1>3, <2>1, <2>2, <2>3, <2>5, <2>6 DEF ChainInv
<1>6. ASSUME NEW blooms \in BOOLEAN, TakeDump(blooms), DumpHistory \/ DumpWithout
      PROVE  ChainInv'
  <2>1. UNCHANGED <<baseFeePerGas, blockStore, blockByHash, receipts, allLogs,
                    latestNumber, parentHash, historyFloor>>
    BY <1>6 DEF TakeDump, DumpHistory, DumpWithout
  <2>2. Indexed(hs)' /\ dump' = DumpState(blooms)
    BY <1>1, <1>6, <2>1 DEF Indexed, TakeDump
  <2>3. dumpedFloor' \in Int /\ dumpedFloor' >= -1 /\ dumpedFloor' <= latestNumber
    <3>1. OldestServableBlock \in 0..latestNumber
      <4>1. PICK m \in Nat : m = latestNumber
        BY <1>3
      <4>2. PICK first \in 0..m : first = historyFloor
        BY <1>3, <4>1
      <4>3. PICK w \in Nat : w = Window
        BY LimitTyped
      <4>4. Max({first, m - w, 0}) \in 0..m
        BY OldestAtMostHead
      <4>5. QED
        BY <4>1, <4>2, <4>3, <4>4 DEF OldestServableBlock
    <3>2. QED
      BY <1>3, <1>6, <3>1 DEF DumpHistory, DumpWithout, NoHistory
  <2>4. DumpFits(hs)'
    <3>1. DumpedAs(dump', hs)
      BY <1>1, <1>3, <2>2, DumpTaken
    <3>2. Len(hs) <= latestNumber' + 1 /\ dumpedFloor' <= Len(hs) - 1
      BY <1>3, <2>1, <2>3
    <3>3. QED
      BY <3>1, <3>2 DEF DumpFits
  <2>5. QED
    BY <1>3, <2>1, <2>2, <2>3, <2>4 DEF ChainInv
<1>7. ASSUME LoadState, LoadHistory, baseFeePerGas' \in BaseFee PROVE ChainInv'
  <2>1. PICK ds : DumpFits(ds)
    BY <1>3, <1>7 DEF LoadState
  <2>2. /\ Indexed(ds)' /\ ReceiptsTyped(receipts') /\ UNCHANGED dump
        /\ Len(ds) \in Nat \ {0} /\ Len(ds) <= latestNumber + 1 /\ dumpedFloor <= Len(ds) - 1
    <3>1. DumpedAs(dump, ds)
      BY <2>1 DEF DumpFits
    <3>2. Len(ds) \in Nat \ {0}
      BY <3>1 DEF DumpedAs, Linked
    <3>3. QED
      BY <1>7, <2>1, <3>1, <3>2, LoadIndexed DEF DumpFits
  <2>3. latestNumber' = Len(ds) - 1 /\ latestNumber' \in Nat /\ latestNumber' <= latestNumber
    BY <1>3, <2>2 DEF Indexed
  <2>4. historyFloor' \in 0..latestNumber' /\ UNCHANGED dumpedFloor
    <3>1. UNCHANGED dumpedFloor
      BY <1>7 DEF LoadHistory
    <3>2. CASE Window = 0 \/ dumpedFloor = NoHistory
      BY <1>7, <2>3, <3>1, <3>2 DEF LoadHistory
    <3>3. CASE ~ (Window = 0 \/ dumpedFloor = NoHistory)
      <4>1. historyFloor' = Max({dumpedFloor, latestNumber' - Window})
        BY <1>7, <3>3 DEF LoadHistory
      <4>2. PICK a \in Int : a = dumpedFloor
        BY <1>3
      <4>3. latestNumber' \in Int /\ Window \in Int
        BY <2>3, LimitTyped
      <4>4. latestNumber' - Window \in Int
        BY <4>3
      <4>5. PICK b \in Int : b = latestNumber' - Window
        BY <4>4
      <4>6. historyFloor' = IF a >= b THEN a ELSE b
        BY <4>1, <4>2, <4>5, MaxOfTwo
      <4>7. a >= 0
        BY <1>3, <3>3, <4>2 DEF NoHistory
      <4>8. QED
        BY <2>2, <2>3, <3>1, <4>2, <4>5, <4>6, <4>7, LimitTyped
    <3>4. QED
      BY <3>2, <3>3
  <2>5. DumpFits(ds)'
    BY <2>1, <2>2, <2>3, <2>4 DEF DumpFits
  <2>6. latestNumber' <= BlockLimit
    BY <1>3, <2>3, LimitTyped
  <2>7. QED
    BY <1>3, <1>7, <2>2, <2>4, <2>5, <2>6 DEF ChainInv
<1>8. CASE UNCHANGED paramVars
  <2>1. /\ UNCHANGED <<baseFeePerGas, blockStore, blockByHash, receipts, allLogs,
                       latestNumber, parentHash, dump>>
        /\ UNCHANGED <<historyFloor, dumpedFloor>>
    BY <1>8 DEF paramVars, indexVars
  <2>2. Indexed(hs)' /\ \A ds : DumpFits(ds) => DumpFits(ds)'
    BY <1>1, <2>1 DEF Indexed, DumpFits
  <2>3. QED
    BY <1>3, <2>1, <2>2 DEF ChainInv
<1>9. CASE ParamNext
  <2>1. ASSUME Reload /\ LoadHistory PROVE ChainInv'
    BY <1>3, <1>7, <2>1 DEF Reload
  <2>2. ASSUME NEW fee \in BaseFee, CreateNode(fee) /\ LoadHistory PROVE ChainInv'
    BY <1>7, <2>2 DEF CreateNode
  <2>3. QED
    BY <1>4, <1>5, <1>6, <1>9, <2>1, <2>2 DEF ParamNext
<1>10. QED
  BY <1>8, <1>9

(* A step mines a block or leaves the chain no longer than it was.               *)
LEMMA StepCases ==
  ASSUME ChainInv, ParamNext
  PROVE  \/ \E batch \in Batches, time \in Time : Mine(batch, time) /\ KeepFloor
         \/ latestNumber' <= latestNumber
<1>1. latestNumber \in Nat
  BY IndexedFacts DEF ChainInv, IndexedAs
<1>2. ASSUME LoadState PROVE latestNumber' <= latestNumber
  <2>1. PICK ds : DumpFits(ds)
    BY <1>2 DEF LoadState, ChainInv
  <2>2. DumpedAs(dump, ds) /\ Len(ds) <= latestNumber + 1
    BY <2>1 DEF DumpFits
  <2>3. Indexed(ds)' /\ Len(ds) \in Nat
    <3>1. Len(ds) \in Nat
      BY <2>2 DEF DumpedAs, Linked
    <3>2. Indexed(ds)'
      BY <1>2, <2>2, LoadIndexed
    <3>3. QED
      BY <3>1, <3>2
  <2>4. QED
    BY <1>1, <2>2, <2>3 DEF Indexed
<1>3. ASSUME NEW batch \in Batches, NEW time \in Time, TornBatch(batch, time)
      PROVE  latestNumber' <= latestNumber
  BY <1>1, <1>3 DEF TornBatch
<1>4. ASSUME NEW blooms \in BOOLEAN, TakeDump(blooms) PROVE latestNumber' <= latestNumber
  BY <1>1, <1>4 DEF TakeDump
<1>5. QED
  BY <1>2, <1>3, <1>4 DEF ParamNext, Reload, CreateNode

(* The head's parent is shorter than the head, so a chain that is no longer than   *)
(* it was has no block after the head it had.                                  *)
LEMMA NoBlockAfter ==
  ASSUME ChainInv, ChainInv', latestNumber' <= latestNumber
  PROVE  blockStore'[latestNumber'].header.parentHash # parentHash
<1>1. PICK hs : Indexed(hs)
  BY DEF ChainInv
<1>2. PICK cs : Indexed(cs)'
  BY DEF ChainInv
<1>3. Len(parentHash) = latestNumber + 1 /\ latestNumber \in Nat
  <2>1. IndexedAs(hs)
    BY <1>1, IndexedFacts
  <2>2. LinkedAs(hs, receipts)
    BY <2>1, LinkedFacts DEF IndexedAs
  <2>3. latestNumber \in Nat /\ parentHash = hs[latestNumber + 1].hash /\ latestNumber + 1 \in 1..Len(hs)
    BY <2>1 DEF IndexedAs
  <2>4. QED
    BY <2>2, <2>3 DEF LinkedAs
<1>4. /\ Linked(cs, receipts') /\ latestNumber' \in Nat /\ Len(cs) = latestNumber' + 1
      /\ blockStore'[latestNumber'].header = cs[latestNumber' + 1]
  <2>1. Linked(cs, receipts') /\ latestNumber' = Len(cs) - 1 /\ Len(cs) \in Nat \ {0}
    BY <1>2 DEF Indexed, Linked
  <2>2. latestNumber' \in 0..(Len(cs) - 1)
    BY <2>1
  <2>3. blockStore'[latestNumber'] = [block |-> Rebuilt(cs[latestNumber' + 1]),
                                      header |-> cs[latestNumber' + 1]]
    BY <1>2, <2>2 DEF Indexed
  <2>4. QED
    BY <2>1, <2>3
<1>5. Len(blockStore'[latestNumber'].header.parentHash) = latestNumber'
  <2>1. PICK R : R = receipts'
    OBVIOUS
  <2>2. LinkedAs(cs, R)
    BY <1>4, <2>1, LinkedFacts
  <2>3. latestNumber' \in Nat /\ Len(cs) = latestNumber' + 1
    BY <1>4
  <2>4. PICK m \in Nat : m = latestNumber'
    BY <2>3
  <2>5. Len(cs) = m + 1
    BY <2>4, <2>3
  <2>6. PICK i \in 1..Len(cs) : i = m + 1 /\ i = Len(cs)
    BY <2>5
  <2>7. cs[i].parentHash = ParentOf(cs, i)
    BY <2>2 DEF LinkedAs
  <2>8. Len(ParentOf(cs, i)) = i - 1
    <3>1. CASE i = 1
      BY <3>1 DEF ParentOf
    <3>2. CASE i # 1
      <4>1. i - 1 \in 1..Len(cs)
        BY <3>2
      <4>2. Len(cs[i - 1].hash) = i - 1
        BY <2>2, <4>1 DEF LinkedAs
      <4>3. QED
        BY <3>2, <4>2 DEF ParentOf
    <3>3. QED
      BY <3>1, <3>2
  <2>9. QED
    BY <1>4, <2>4, <2>6, <2>7, <2>8
<1>6. latestNumber' # latestNumber + 1
  BY <1>3, <1>4
<1>7. QED
  BY <1>3, <1>5, <1>6

-----------------------------------------------------------------------------
(* The theorems about the chain. *)

LEMMA ChainAlways == ParamSpec => []ChainInv
<1>1. ChainInv /\ [ParamNext]_paramVars => ChainInv'
  BY NextChain
<1>2. QED
  BY <1>1, InitChain, PTL DEF ParamSpec

(* Every number up to the head has one block, whose hash leads back to it; every  *)
(* log query gives exactly the logs of the receipts of its blocks.               *)
THEOREM ChainAlwaysConsistent == ParamSpec => []ChainConsistent
<1>1. ChainInv => ChainConsistent
  BY IndexedConsistent DEF ChainInv
<1>2. QED
  BY <1>1, ChainAlways, PTL

(* Loading a dump of the present chain changes nothing that is read of it.        *)
THEOREM ReloadsKeepReads == ParamSpec => ReloadKeepsReads
<1>1. ASSUME ChainInv, LoadState, dump \in {DumpState(TRUE), DumpState(FALSE)}
      PROVE  UNCHANGED <<blockStore, blockByHash, receipts, allLogs, latestNumber, parentHash>>
  <2>1. PICK hs : Indexed(hs)
    BY <1>1 DEF ChainInv
  <2>2. PICK b \in BOOLEAN : dump = DumpState(b)
    BY <1>1
  <2>3. DumpedAs(dump, hs)
    BY <1>1, <2>1, <2>2, DumpTaken DEF ChainInv
  <2>4. Indexed(hs)' /\ receipts' = dump.receipts
    BY <1>1, <2>3, LoadIndexed
  <2>5. receipts' = receipts
    BY <2>2, <2>4 DEF DumpState
  <2>6. QED
    BY <2>1, <2>4, <2>5 DEF Indexed
<1>2. ChainInv => [LoadState /\ dump \in {DumpState(TRUE), DumpState(FALSE)} =>
        UNCHANGED <<blockStore, blockByHash, receipts, allLogs, latestNumber,
                    parentHash>> ]_indexVars
  BY <1>1
<1>3. QED
  BY <1>2, ChainAlways, PTL DEF ReloadKeepsReads

-----------------------------------------------------------------------------
(* The fee history. *)

(* The gas of a block is what its last receipt has accumulated.                  *)
LEMMA GasHeld ==
  ASSUME NEW txs \in Seq(Tx), NEW found, NEW number, NEW hash,
         ReceiptsHold(found, txs, number, hash)
  PROVE  /\ Total([i \in 1..Len(txs) |-> found[txs[i]].gasUsed]) =
              IF txs = <<>> THEN 0 ELSE found[Last(txs)].cumulativeGasUsed
         /\ txs # <<>> => Last(txs) \in DOMAIN found
<1>1. \A j \in 1..Len(txs) :
        /\ txs[j] \in DOMAIN found
        /\ found[txs[j]].gasUsed = GasOf[txs[j]]
        /\ found[txs[j]].cumulativeGasUsed = Total([i \in 1..j |-> GasOf[txs[i]]])
  <2>1. ASSUME NEW j \in 1..Len(txs)
        PROVE  /\ txs[j] \in DOMAIN found
               /\ found[txs[j]].gasUsed = GasOf[txs[j]]
               /\ found[txs[j]].cumulativeGasUsed = Total([i \in 1..j |-> GasOf[txs[i]]])
    <3>1. txs[j] \in DOMAIN found /\ found[txs[j]] = ReceiptOf(txs, j, number, hash)
      BY DEF ReceiptsHold
    <3>2. /\ ReceiptOf(txs, j, number, hash).gasUsed = GasOf[txs[j]]
          /\ ReceiptOf(txs, j, number, hash).cumulativeGasUsed =
               Total([i \in 1..j |-> GasOf[txs[i]]])
      BY DEF ReceiptOf
    <3>3. QED
      BY <3>1, <3>2
  <2>2. QED
    BY <2>1
<1>2. [i \in 1..Len(txs) |-> found[txs[i]].gasUsed] = [i \in 1..Len(txs) |-> GasOf[txs[i]]]
  BY <1>1
<1>3. CASE txs = <<>>
  <2>1. [i \in 1..Len(txs) |-> found[txs[i]].gasUsed] = <<>>
    BY <1>3
  <2>2. QED
    BY <1>3, <2>1, TotalNone
<1>4. CASE txs # <<>>
  <2>1. Len(txs) \in 1..Len(txs) /\ Last(txs) = txs[Len(txs)]
    BY <1>4 DEF Last
  <2>2. QED
    BY <1>1, <1>2, <1>4, <2>1
<1>5. QED
  BY <1>3, <1>4

LEMMA MinOfThree ==
  ASSUME NEW a \in Int, NEW b \in Int, NEW c \in Int
  PROVE  Min({a, b, c}) \in {a, b, c} /\ \A x \in {a, b, c} : Min({a, b, c}) <= x
<1>1. \E x \in {a, b, c} : \A y \in {a, b, c} : x <= y
  OBVIOUS
<1>2. QED
  BY <1>1 DEF Min

(* What the fee history says of a chain holds of the chain with one more block.   *)
LEMMA FeesHold ==
  ASSUME ChainInv, NEW batch \in Batches, NEW time \in Time, Mine(batch, time),
         NEW newest \in 0..latestNumber, NEW requested \in 0..(BlockLimit + 1)
  PROVE  LET told == FeeHistory(requested, newest)
             n(i) == told.oldest + i - 1
         IN  /\ \A i \in 1..Len(told.fees) :
                  told.fees[i] = blockStore'[n(i)].header.baseFee
             /\ \A i \in 1..Len(told.used) :
                  LET txs == blockStore'[n(i)].header.transactions
                  IN  told.used[i] =
                        IF txs = <<>> THEN 0
                        ELSE receipts'[Last(txs)].cumulativeGasUsed
<1>1. PICK hs : Indexed(hs)
  BY DEF ChainInv
<1>2. IndexedAs(hs)
  BY <1>1, IndexedFacts
<1>3. IndexedAs(hs) /\ LinkedAs(hs, receipts)
  BY <1>2, LinkedFacts DEF IndexedAs
<1>4. PICK h \in Header :
        /\ Indexed(Append(hs, h))' /\ h.baseFee = baseFeePerGas
        /\ Extends(receipts', receipts)
  BY <1>1, MineIndexed DEF ChainInv
<1>5. latestNumber \in Nat /\ Len(hs) = latestNumber + 1 /\ hs \in Seq(Header)
  BY <1>3 DEF IndexedAs, Linked
<1>6. PICK cs : cs = Append(hs, h)
  OBVIOUS
<1>7. /\ Len(cs) = latestNumber + 2 /\ cs[latestNumber + 2] = h
      /\ \A i \in 1..(latestNumber + 1) : cs[i] = hs[i]
  BY <1>5, <1>6
<1>8. \A m \in 0..(latestNumber + 1) : blockStore'[m].header = cs[m + 1]
  <2>1. blockStore' = [m \in 0..(Len(cs) - 1) |->
                         [block |-> Rebuilt(cs[m + 1]), header |-> cs[m + 1]]]
    BY <1>4, <1>6 DEF Indexed
  <2>2. 0..(Len(cs) - 1) = 0..(latestNumber + 1)
    BY <1>5, <1>7
  <2>3. QED
    BY <2>1, <2>2
<1>9. \A m \in 0..latestNumber :
        blockStore'[m].header = hs[m + 1] /\ blockStore[m].header = hs[m + 1]
  <2>1. ASSUME NEW m \in 0..latestNumber
        PROVE  blockStore'[m].header = hs[m + 1] /\ blockStore[m].header = hs[m + 1]
    <3>1. m \in 0..(latestNumber + 1) /\ m + 1 \in 1..(latestNumber + 1)
      BY <1>5
    <3>2. QED
      BY <1>7, <1>8, <3>1, <1>3 DEF IndexedAs
  <2>2. QED
    BY <2>1
<1>10. ASSUME NEW m \in 0..(latestNumber + 1)
       PROVE  NextBaseFee(m) = blockStore'[m].header.baseFee
  <2>1. DOMAIN blockStore = 0..latestNumber
    BY <1>3 DEF IndexedAs
  <2>2. CASE m \in 0..latestNumber
    BY <1>9, <2>1, <2>2 DEF NextBaseFee
  <2>3. CASE m \notin 0..latestNumber
    <3>1. m = latestNumber + 1 /\ m + 1 = latestNumber + 2
      BY <1>5, <2>3
    <3>2. blockStore'[m].header = h
      BY <1>7, <1>8, <3>1
    <3>3. QED
      BY <1>4, <2>1, <2>3, <3>2 DEF NextBaseFee
  <2>4. QED
    BY <2>2, <2>3
<1>11. ASSUME NEW m \in 0..latestNumber
       PROVE  LET txs == blockStore'[m].header.transactions
              IN  GasUsed(m) = IF txs = <<>> THEN 0
                               ELSE receipts'[Last(txs)].cumulativeGasUsed
  <2>1. PICK i \in 1..Len(hs) : i = m + 1
    BY <1>5
  <2>2. PICK txs \in Seq(Tx) : txs = hs[i].transactions
    BY <1>3 DEF LinkedAs
  <2>3. ReceiptsHold(receipts, txs, i - 1, hs[i].hash)
    BY <2>2, <1>3 DEF LinkedAs
  <2>4. /\ Total([j \in 1..Len(txs) |-> receipts[txs[j]].gasUsed]) =
             IF txs = <<>> THEN 0 ELSE receipts[Last(txs)].cumulativeGasUsed
        /\ txs # <<>> => Last(txs) \in DOMAIN receipts
    BY ONLY <2>3, GasHeld
  <2>5. txs # <<>> => receipts'[Last(txs)] = receipts[Last(txs)]
    BY <1>4, <2>4 DEF Extends
  <2>6. blockStore'[m].header = hs[i] /\ blockStore[m].header = hs[i]
    BY <1>9, <2>1
  <2>7. GasUsed(m) = Total([j \in 1..Len(txs) |-> receipts[txs[j]].gasUsed])
    BY <2>2, <2>6 DEF GasUsed
  <2>8. QED
    BY <2>2, <2>4, <2>5, <2>6, <2>7
<1> DEFINE count == Min({requested, FeeWindow, newest + 1})
           oldest == newest - count + 1
           told == FeeHistory(requested, newest)
<1>12. count \in Nat /\ count <= newest + 1
  <2>1. requested \in Nat /\ FeeWindow \in Nat /\ newest + 1 \in Nat /\ newest \in Nat
    BY LimitTyped, IndexAssumption, <1>5
  <2>2. PICK a \in Int : a = requested
    BY <2>1
  <2>3. PICK b \in Int : b = FeeWindow
    BY <2>1
  <2>4. PICK c \in Int : c = newest + 1
    BY <2>1
  <2>5. Min({a, b, c}) \in {a, b, c} /\ \A x \in {a, b, c} : Min({a, b, c}) <= x
    BY MinOfThree
  <2>6. count = Min({a, b, c})
    BY <2>2, <2>3, <2>4
  <2> HIDE DEF count
  <2>7. QED
    BY <2>1, <2>2, <2>3, <2>4, <2>5, <2>6
<1>13. /\ told.oldest = oldest
       /\ told.fees = IF count = 0 THEN <<>>
                      ELSE [i \in 1..(count + 1) |-> NextBaseFee(oldest + i - 1)]
       /\ told.used = [i \in 1..count |-> GasUsed(oldest + i - 1)]
  BY DEF FeeHistory
<1> HIDE DEF count, told
<1>14. oldest \in Nat /\ oldest + count - 1 = newest /\ newest \in Nat
  BY <1>5, <1>12
<1> HIDE DEF oldest
<1>15. ASSUME NEW i \in 1..Len(told.fees)
       PROVE  told.fees[i] = blockStore'[told.oldest + i - 1].header.baseFee
  <2>1. count # 0 /\ i \in 1..(count + 1) /\ told.fees[i] = NextBaseFee(oldest + i - 1)
    <3>1. CASE count = 0
      BY <1>13, <3>1
    <3>2. CASE count # 0
      <4>1. Len(told.fees) = count + 1
        BY <1>12, <1>13, <3>2
      <4>2. QED
        BY <1>13, <3>2, <4>1
    <3>3. QED
      BY <3>1, <3>2
  <2>2. oldest + i - 1 \in 0..(latestNumber + 1)
    BY <1>5, <1>12, <1>14, <2>1
  <2>3. QED
    BY <1>10, <1>13, <2>1, <2>2
<1>16. ASSUME NEW i \in 1..Len(told.used)
       PROVE  LET txs == blockStore'[told.oldest + i - 1].header.transactions
              IN  told.used[i] = IF txs = <<>> THEN 0
                                 ELSE receipts'[Last(txs)].cumulativeGasUsed
  <2>1. i \in 1..count /\ told.used[i] = GasUsed(oldest + i - 1)
    <3>1. Len(told.used) = count
      BY <1>12, <1>13
    <3>2. QED
      BY <1>13, <3>1
  <2>2. oldest + i - 1 \in 0..latestNumber
    BY <1>5, <1>12, <1>14, <2>1
  <2>3. QED
    BY <1>11, <1>13, <2>1, <2>2
<1>17. QED
  BY <1>15, <1>16 DEF told

(* Every fee history told is true of the block that is mined next.               *)
THEOREM FeesAreForetold == ParamSpec => FeesForetold
<1>1. ASSUME ChainInv, ChainInv', ParamNext, blockStore'[latestNumber'].header.parentHash = parentHash,
             NEW newest \in 0..latestNumber, NEW requested \in 0..(BlockLimit + 1)
      PROVE  LET told == FeeHistory(requested, newest)
                 n(i) == told.oldest + i - 1
             IN  /\ \A i \in 1..Len(told.fees) :
                      told.fees[i] = blockStore'[n(i)].header.baseFee
                 /\ \A i \in 1..Len(told.used) :
                      LET txs == blockStore'[n(i)].header.transactions
                      IN  told.used[i] =
                            IF txs = <<>> THEN 0
                            ELSE receipts'[Last(txs)].cumulativeGasUsed
  <2>1. PICK batch \in Batches, time \in Time : Mine(batch, time)
    BY <1>1, StepCases, NoBlockAfter
  <2>2. QED
    BY <1>1, <2>1, FeesHold
<1>2. ChainInv /\ ChainInv' /\ [ParamNext]_paramVars =>
      [ blockStore'[latestNumber'].header.parentHash = parentHash =>
        \A newest \in 0..latestNumber, requested \in 0..(BlockLimit + 1) :
          LET told == FeeHistory(requested, newest)
              n(i) == told.oldest + i - 1
          IN  /\ \A i \in 1..Len(told.fees) :
                   told.fees[i] = blockStore'[n(i)].header.baseFee
              /\ \A i \in 1..Len(told.used) :
                   LET txs == blockStore'[n(i)].header.transactions
                   IN  told.used[i] =
                         IF txs = <<>> THEN 0
                         ELSE receipts'[Last(txs)].cumulativeGasUsed ]_indexVars
  <2>1. UNCHANGED paramVars => UNCHANGED indexVars
    BY DEF paramVars
  <2>2. QED
    BY <1>1, <2>1
<1>3. QED
  BY <1>2, ChainAlways, PTL DEF FeesForetold, ParamSpec

-----------------------------------------------------------------------------
(* Block parameters. *)

LEMMA ParameterKinds ==
  ASSUME ChainInv, NEW p \in Parameters
  PROVE  /\ p.number \in Int /\ p.tag \in HeadTags \cup {"earliest", ""}
         /\ p.tag # "" => p.hash = <<>>
<1> DEFINE tags    == HeadTags \cup {"earliest"}
           numbers == 0..(BlockLimit + 2)
<1>1. numbers \subseteq Int /\ -1 \in Int /\ 0 \in Int
  BY LimitTyped
<1>2. \/ \E t \in tags : p = ByTag(t) \/ p = [Object EXCEPT !.tag = t]
      \/ \E n \in numbers : p = ByNumber(n) \/ p = [Object EXCEPT !.number = n]
      \/ \E h \in ToldHashes : \/ p = ByHash(h) \/ p = [Object EXCEPT !.hash = h]
                               \/ p = [Object EXCEPT !.number = 0, !.hash = h]
      \/ p = Bare \/ p = Object
  BY DEF Parameters
<1>3. CASE \E t \in tags : p = ByTag(t) \/ p = [Object EXCEPT !.tag = t]
  <2>1. PICK t \in tags : p = ByTag(t) \/ p = [Object EXCEPT !.tag = t]
    BY <1>3
  <2>2. p.number = -1 /\ p.tag = t /\ p.hash = <<>>
    <3>1. CASE p = ByTag(t)
      BY <3>1 DEF ByTag, Bare
    <3>2. CASE p = [Object EXCEPT !.tag = t]
      BY <3>2 DEF Object, Bare
    <3>3. QED
      BY <2>1, <3>1, <3>2
  <2>3. p.number \in Int
    BY <1>1, <2>2
  <2>4. QED
    BY <2>2, <2>3
<1>4. CASE \E n \in numbers : p = ByNumber(n) \/ p = [Object EXCEPT !.number = n]
  <2>1. PICK n \in numbers : p = ByNumber(n) \/ p = [Object EXCEPT !.number = n]
    BY <1>4
  <2>2. p.number = n /\ p.tag = ""
    BY <2>1 DEF ByNumber, Object, Bare
  <2>3. p.number \in Int
    BY <1>1, <2>2
  <2>4. QED
    BY <2>2, <2>3
<1>5. CASE \E h \in ToldHashes : \/ p = ByHash(h) \/ p = [Object EXCEPT !.hash = h]
                                \/ p = [Object EXCEPT !.number = 0, !.hash = h]
  <2>1. PICK h \in ToldHashes : \/ p = ByHash(h) \/ p = [Object EXCEPT !.hash = h]
                               \/ p = [Object EXCEPT !.number = 0, !.hash = h]
    BY <1>5
  <2>2. p.tag = "" /\ (p.number = -1 \/ p.number = 0)
    <3>1. CASE p = ByHash(h)
      BY <3>1 DEF ByHash, Bare
    <3>2. CASE p = [Object EXCEPT !.hash = h]
      BY <3>2 DEF Object, Bare
    <3>3. CASE p = [Object EXCEPT !.number = 0, !.hash = h]
      <4>1. PICK o : o = [Object EXCEPT !.number = 0]
        OBVIOUS
      <4>2. p = [o EXCEPT !.hash = h]
        BY <3>3, <4>1
      <4>3. o.tag = "" /\ o.number = 0 /\ {"tag", "number"} \subseteq DOMAIN o
        BY <4>1 DEF Object, Bare
      <4>4. QED
        BY <4>2, <4>3
    <3>4. QED
      BY <2>1, <3>1, <3>2, <3>3
  <2>3. p.number \in Int
    BY <1>1, <2>2
  <2>4. QED
    BY <2>2, <2>3
<1>6. CASE p = Bare \/ p = Object
  <2>1. p.number = -1 /\ p.tag = ""
    <3>1. CASE p = Bare
      BY <3>1 DEF Bare
    <3>2. CASE p = Object
      BY <3>2 DEF Object, Bare
    <3>3. QED
      BY <1>6, <3>1, <3>2
  <2>2. p.number \in Int
    BY <1>1, <2>1
  <2>3. QED
    BY <2>1, <2>2
<1>7. QED
  BY <1>2, <1>3, <1>4, <1>5, <1>6

(* Where the history that is served starts, at any head.                        *)
LEMMA OldestServed ==
  ASSUME ChainInv
  PROVE  \A m \in 0..(latestNumber - 1) :
           m < OldestServableBlock <=>
             Window = 0 \/ m < historyFloor \/ m < latestNumber - Window
<1>1. latestNumber \in Nat /\ historyFloor \in 0..latestNumber /\ Window \in Nat
  BY LimitTyped, IndexedFacts DEF ChainInv, IndexedAs
<1>2. PICK latest \in Nat : latest = latestNumber
  BY <1>1
<1>3. PICK first \in 0..latest : first = historyFloor
  BY <1>1, <1>2
<1>4. PICK w \in Nat : w = Window
  BY <1>1
<1>5. Max({first, latest - w, 0}) \in 0..latest
  BY OldestAtMostHead
<1>6. \A m \in Int : Max({first, latest - w, 0}) <= m <=> first <= m /\ latest - w <= m
  BY OldestAtMostHead
<1>7. CASE Window = 0
  BY <1>1, <1>7 DEF OldestServableBlock
<1>8. CASE Window # 0
  <2>1. OldestServableBlock = Max({first, latest - w, 0})
    BY <1>2, <1>3, <1>4, <1>8 DEF OldestServableBlock
  <2>2. PICK old \in 0..latest : old = Max({first, latest - w, 0})
    BY <1>5
  <2>3. \A m \in 0..(latest - 1) : m < old <=> m < first \/ m < latest - w
    BY <1>6, <2>2
  <2>4. QED
    BY <1>2, <1>3, <1>4, <1>8, <2>1, <2>2, <2>3
<1>9. QED
  BY <1>7, <1>8

(* What an accepted request is about.                                          *)
LEMMA AcceptedAnswer ==
  ASSUME ChainInv, NEW hs, Indexed(hs), NEW p \in Parameters, Accepts(HistoricalBlock(p))
  PROVE  \E n \in 0..latestNumber :
           /\ HistoricalBlock(p) = Block(n) /\ PinnedBlockNumber(p) = Block(n)
           /\ p.hash # <<>> => p.hash = hs[n + 1].hash /\ p.hash \in DOMAIN blockByHash
                               /\ blockByHash[p.hash] = n
           /\ p.hash = <<>> /\ ~ p.object => ResolveBlockTag(p) = Block(n)
           /\ p.hash # <<>> \/ p.object => ResolveBlockTag(p) = Invalid
<1>1. IndexedAs(hs)
  BY IndexedFacts
<1>2. p.tag \in HeadTags \cup {"earliest", ""}
      /\ HeadTags \cap {"earliest", ""} = {} /\ "earliest" # ""
  BY ParameterKinds DEF HeadTags
<1>3. latestNumber \in Nat /\ Len(hs) = latestNumber + 1
  BY <1>1 DEF IndexedAs
<1>4. p.number \in Int
  BY ParameterKinds
<1>5. Accepts(PinnedBlockNumber(p)) /\ HistoricalBlock(p) = PinnedBlockNumber(p)
  BY DEF HistoricalBlock, Accepts, Historical, NotFound, Refuse
<1>6. ~ Accepts(Invalid) /\ ~ Accepts(NotFound)
  BY DEF Accepts, Invalid, NotFound, Refuse
<1>7. CASE p.hash # <<>>
  <2>1. p.number >= 0 => PinnedBlockNumber(p) = Invalid
    BY <1>7 DEF PinnedBlockNumber
  <2>2. ~ (p.number >= 0)
    BY <1>5, <1>6, <2>1
  <2>3. p.hash \notin DOMAIN blockByHash => PinnedBlockNumber(p) = NotFound
    BY <1>7, <2>2 DEF PinnedBlockNumber
  <2>4. p.hash \in DOMAIN blockByHash /\ PinnedBlockNumber(p) = Block(blockByHash[p.hash])
    BY <1>5, <1>6, <1>7, <2>2, <2>3 DEF PinnedBlockNumber
  <2>5. PICK i \in 1..Len(hs) : p.hash = hs[i].hash
    BY <2>4, <1>1 DEF IndexedAs
  <2>6. blockByHash[p.hash] = i - 1
    BY <2>5, <1>1 DEF IndexedAs
  <2>7. PICK n \in 0..latestNumber : n = i - 1 /\ n + 1 = i
    BY <1>3
  <2>8. ResolveBlockTag(p) = Invalid
    BY <1>7 DEF ResolveBlockTag
  <2>9. QED
    BY <1>5, <1>7, <2>4, <2>5, <2>6, <2>7, <2>8
<1>8. CASE p.hash = <<>>
  <2>1. CASE p.tag \in HeadTags
    <3>1. PinnedBlockNumber(p) = Block(latestNumber)
      BY <1>2, <1>8, <2>1 DEF PinnedBlockNumber
    <3>2. ~ p.object => ResolveBlockTag(p) = Block(latestNumber)
      BY <1>2, <1>8, <2>1 DEF ResolveBlockTag
    <3>3. p.object => ResolveBlockTag(p) = Invalid
      BY DEF ResolveBlockTag
    <3>4. latestNumber \in 0..latestNumber
      BY <1>3
    <3>5. QED
      BY <1>5, <1>8, <3>1, <3>2, <3>3, <3>4
  <2>2. CASE p.tag = "earliest"
    <3>1. PinnedBlockNumber(p) = Block(0)
      BY <1>2, <1>8, <2>2 DEF PinnedBlockNumber
    <3>2. ~ p.object => ResolveBlockTag(p) = Block(0)
      BY <1>2, <1>8, <2>2 DEF ResolveBlockTag
    <3>3. p.object => ResolveBlockTag(p) = Invalid
      BY DEF ResolveBlockTag
    <3>4. 0 \in 0..latestNumber
      BY <1>3
    <3>5. QED
      BY <1>5, <1>8, <3>1, <3>2, <3>3, <3>4
  <2>3. CASE p.tag = ""
    <3>1. p.number < 0 => PinnedBlockNumber(p) = Invalid
      BY <1>2, <1>8, <2>3 DEF PinnedBlockNumber
    <3>2. ~ (p.number < 0)
      BY <1>5, <1>6, <3>1
    <3>3. p.number > latestNumber => PinnedBlockNumber(p) = NotFound
      BY <1>2, <1>8, <2>3, <3>2 DEF PinnedBlockNumber
    <3>4. ~ (p.number > latestNumber)
      BY <1>5, <1>6, <3>3
    <3>5. PinnedBlockNumber(p) = Block(p.number)
      BY <1>2, <1>8, <2>3, <3>2, <3>4 DEF PinnedBlockNumber
    <3>6. p.number >= 0 /\ p.number <= latestNumber
      BY <1>3, <1>4, <3>2, <3>4
    <3>7. ~ p.object => ResolveBlockTag(p) = Block(p.number)
      BY <1>2, <1>8, <2>3, <3>6 DEF ResolveBlockTag
    <3>8. p.object => ResolveBlockTag(p) = Invalid
      BY DEF ResolveBlockTag
    <3>9. p.number \in 0..latestNumber
      BY <1>3, <1>4, <3>6
    <3>10. QED
      BY <1>5, <1>8, <3>5, <3>7, <3>8, <3>9
  <2>4. QED
    BY <1>2, <2>1, <2>2, <2>3
<1>9. QED
  BY <1>7, <1>8

(* Every name of a block of the chain pins it.                                  *)
LEMMA NamesPin ==
  ASSUME NEW hs, Indexed(hs), NEW n \in 0..latestNumber, NEW q \in NamesOf(n, hs[n + 1].hash)
  PROVE  PinnedBlockNumber(q) = Block(n)
<1>1. IndexedAs(hs) /\ LinkedAs(hs, receipts)
  BY IndexFacts
<1>2. PICK h : h = hs[n + 1].hash
  OBVIOUS
<1>3. /\ latestNumber \in Nat /\ h \in DOMAIN blockByHash /\ blockByHash[h] = n /\ h # <<>>
      /\ n >= 0 /\ n <= latestNumber
  <2>1. PICK i \in 1..Len(hs) : i = n + 1 /\ i - 1 = n
    BY <1>1 DEF IndexedAs
  <2>2. h = hs[i].hash /\ Len(h) = i /\ h \in DOMAIN blockByHash /\ blockByHash[h] = n
    BY <1>2, <2>1, <1>1 DEF IndexedAs, LinkedAs
  <2>3. Len(<<>>) = 0
    OBVIOUS
  <2>4. h # <<>>
    BY <2>2, <2>3
  <2>5. QED
    BY <2>2, <2>4, <1>1 DEF IndexedAs
<1>4. "" \notin HeadTags /\ "" # "earliest"
  BY DEF HeadTags
<1>5. CASE q \in {ByNumber(n), [Object EXCEPT !.number = n]}
  <2>1. q.hash = <<>> /\ q.tag = "" /\ q.number = n
    BY <1>5 DEF ByNumber, Object, Bare
  <2>2. ~ (n < 0) /\ ~ (n > latestNumber)
    BY <1>3
  <2>3. q.tag \notin HeadTags /\ q.tag # "earliest"
    BY <1>4, <2>1
  <2>4. QED
    BY <2>1, <2>2, <2>3 DEF PinnedBlockNumber
<1>6. CASE q \in {ByHash(h), [Object EXCEPT !.hash = h]}
  <2>1. q.hash = h /\ q.tag = "" /\ q.number = -1
    BY <1>6 DEF ByHash, Object, Bare
  <2>2. ~ (-1 >= 0)
    OBVIOUS
  <2>3. ~ (q.number >= 0)
    BY <2>1, <2>2
  <2>4. q.hash # <<>> /\ q.hash \in DOMAIN blockByHash /\ blockByHash[q.hash] = n
    BY <1>3, <2>1
  <2>5. QED
    BY <2>3, <2>4 DEF PinnedBlockNumber
<1>7. QED
  BY <1>2, <1>5, <1>6 DEF NamesOf

LEMMA InvPinsAgree ==
  ASSUME ChainInv
  PROVE  PinsAgree
<1>1. PICK hs : Indexed(hs)
  BY DEF ChainInv
<1>2. IndexedAs(hs)
  BY <1>1, IndexedFacts
<1>3. IndexedAs(hs) /\ LinkedAs(hs, receipts)
  BY <1>2, LinkedFacts DEF IndexedAs
<1>4. ParamTypeOK
  <2>1. ASSUME NEW ds, DumpFits(ds) PROVE dumpedFloor <= BlockLimit
    <3>1. Len(ds) \in Nat
      BY <2>1 DEF DumpFits, DumpedAs, Linked
    <3>2. QED
      BY <2>1, <3>1, LimitTyped, <1>3 DEF DumpFits, ChainInv, IndexedAs
  <2>2. QED
    BY <2>1, LimitTyped DEF ChainInv, ParamTypeOK, NoHistory
<1>5. ASSUME NEW p \in Parameters, Accepts(HistoricalBlock(p))
      PROVE  LET answer == HistoricalBlock(p)
                 n      == answer.number
                 h      == GetBlockHash(n)
             IN  /\ n \in DOMAIN blockStore
                 /\ p.hash # <<>> => p.hash = h
                 /\ \A q \in NamesOf(n, h) : HistoricalBlock(q) = answer
                 /\ BlockByHash(h).number = n
                 /\ ~ p.object => \A k \in 1..Len(LogsAt(p)) : LogsAt(p)[k].blockHash = h
                 /\ Accepts(ResolveBlockTag(p)) => GetBlockByNumber(p) = {BlockByHash(h)}
  <2>1. PICK n \in 0..latestNumber :
          /\ HistoricalBlock(p) = Block(n) /\ PinnedBlockNumber(p) = Block(n)
          /\ p.hash # <<>> => p.hash = hs[n + 1].hash /\ p.hash \in DOMAIN blockByHash
                              /\ blockByHash[p.hash] = n
          /\ p.hash = <<>> /\ ~ p.object => ResolveBlockTag(p) = Block(n)
          /\ p.hash # <<>> \/ p.object => ResolveBlockTag(p) = Invalid
    BY <1>1, <1>5, AcceptedAnswer
  <2>2. PICK i \in 1..Len(hs) : i = n + 1 /\ i - 1 = n
    BY <1>3 DEF IndexedAs
  <2>3. PICK h : h = hs[i].hash
    OBVIOUS
  <2>4. /\ Block(n).number = n /\ n \in DOMAIN blockStore /\ blockStore[n].header = hs[i]
        /\ GetBlockHash(n) = h
    BY <2>2, <2>3, <1>3 DEF IndexedAs, GetBlockHash, Block
  <2>5. /\ BlockByHash(h) = hs[i] /\ hs[i].number = n
        /\ h \in DOMAIN blockByHash /\ blockByHash[h] = n
    BY <2>2, <2>3, <2>4, <1>3 DEF IndexedAs, LinkedAs, BlockByHash, BlockToRpc
  <2>6. ASSUME NEW q \in NamesOf(n, h) PROVE HistoricalBlock(q) = HistoricalBlock(p)
    <3>1. PinnedBlockNumber(q) = Block(n)
      BY <1>1, <2>2, <2>3, NamesPin
    <3>2. QED
      BY <2>1, <3>1 DEF HistoricalBlock
  <2>7. ASSUME ~ p.object, NEW k \in 1..Len(LogsAt(p)) PROVE LogsAt(p)[k].blockHash = h
    <3>1. LogsAt(p) = GetLogs(n, n)
      BY <2>1, <2>4, <2>7 DEF LogsAt, GetLogsByHash
    <3>2. Placed(GetLogs(n, n)[k], k, hs[n + 1].transactions, n, hs[n + 1].hash)
      BY <1>1, <2>7, <3>1, IndexedLogs
    <3>3. QED
      BY <2>2, <2>3, <3>1, <3>2 DEF Placed
  <2>8. ASSUME Accepts(ResolveBlockTag(p)) PROVE GetBlockByNumber(p) = {BlockByHash(h)}
    <3>1. ~ Accepts(Invalid)
      BY DEF Accepts, Invalid, Refuse
    <3>2. ResolveBlockTag(p) = Block(n)
      BY <2>1, <2>8, <3>1
    <3>3. QED
      BY <2>4, <2>5, <3>2 DEF GetBlockByNumber, BlockToRpc
  <2>9. p.hash # <<>> => p.hash = h
    BY <2>1, <2>2, <2>3
  <2>10. HistoricalBlock(p).number = n
    BY <2>1, <2>4
  <2>11. QED
    BY <2>4, <2>5, <2>6, <2>7, <2>8, <2>9, <2>10
<1>6. QED
  BY <1>4, <1>5 DEF PinsAgree

(* However a block is named, the requests that accept the name are about it.       *)
THEOREM PinsAlwaysAgree == ParamSpec => []PinsAgree
<1>1. ChainInv => PinsAgree
  BY InvPinsAgree
<1>2. QED
  BY <1>1, ChainAlways, PTL
(* How the answer about a block that a request pins depends on the head.          *)
Served(n) ==
  n = latestNumber \/ ~ (Window = 0 \/ n < historyFloor \/ n < latestNumber - Window)

PinsAsServed ==
  \A p, n : n \in 0..latestNumber /\ PinnedBlockNumber(p) = Block(n) =>
    HistoricalBlock(p) = IF Served(n) THEN Block(n) ELSE Historical

LEMMA PinsServed == ChainInv => PinsAsServed
<1>1. SUFFICES ASSUME ChainInv, NEW p, NEW n \in 0..latestNumber,
                      PinnedBlockNumber(p) = Block(n)
               PROVE  HistoricalBlock(p) = IF Served(n) THEN Block(n) ELSE Historical
  BY DEF PinsAsServed
<1>2. latestNumber \in Nat /\ DOMAIN blockStore = 0..latestNumber
  BY <1>1, IndexedFacts DEF ChainInv, IndexedAs
<1>3. Block(n).number = n /\ Accepts(Block(n))
  BY DEF Block, Accepts
<1>4. CASE n = latestNumber
  BY <1>1, <1>3, <1>4 DEF HistoricalBlock, Served
<1>5. CASE n # latestNumber
  <2>1. n \in 0..(latestNumber - 1)
    BY <1>1, <1>2, <1>5
  <2>2. n < OldestServableBlock <=> ~ Served(n)
    BY <1>1, <1>5, <2>1, OldestServed DEF Served
  <2>3. QED
    BY <1>1, <1>2, <1>3, <1>5, <2>2 DEF HistoricalBlock
<1>6. QED
  BY <1>4, <1>5

(* While the chain grows, a hash that is known leads where it did.                *)
LEMMA GrowthKeeps ==
  ASSUME ChainInv, ChainInv', [ParamNext]_paramVars, ChainGrows
  PROVE  /\ latestNumber \in Nat /\ latestNumber' \in Nat /\ latestNumber <= latestNumber'
         /\ historyFloor' = historyFloor /\ historyFloor \in 0..latestNumber
         /\ \A h \in DOMAIN blockByHash :
              /\ h \in DOMAIN blockByHash' /\ blockByHash'[h] = blockByHash[h]
              /\ blockByHash[h] \in 0..latestNumber
<1>1. PICK hs : Indexed(hs)
  BY DEF ChainInv
<1>2. IndexedAs(hs) /\ LinkedAs(hs, receipts)
  BY <1>1, IndexFacts
<1>3. latestNumber \in Nat /\ Len(hs) = latestNumber + 1 /\ historyFloor \in 0..latestNumber
  BY <1>2 DEF IndexedAs, ChainInv
<1>4. \E cs : /\ Indexed(cs)' /\ Len(cs) \in Nat /\ Len(hs) <= Len(cs)
              /\ \A i \in 1..Len(hs) : cs[i] = hs[i]
  <2>1. CASE blockStore' = blockStore
    <3>1. PICK cs : Indexed(cs)'
      BY DEF ChainInv
    <3>2. /\ latestNumber' = Len(cs) - 1 /\ Len(cs) \in Nat \ {0}
          /\ blockStore' = [n \in 0..(Len(cs) - 1) |->
                              [block |-> Rebuilt(cs[n + 1]), header |-> cs[n + 1]]]
      BY <3>1 DEF Indexed, Linked
    <3>3. DOMAIN blockStore = 0..latestNumber
      BY <1>2 DEF IndexedAs
    <3>4. 0..(Len(cs) - 1) = 0..latestNumber
      BY <2>1, <3>2, <3>3
    <3>5. Len(cs) - 1 \in Nat
      BY <3>2
    <3>6. Len(cs) - 1 \in 0..latestNumber /\ latestNumber \in 0..(Len(cs) - 1)
      BY <1>3, <3>4, <3>5
    <3>7. Len(cs) = Len(hs)
      BY <1>3, <3>2, <3>6
    <3>8. ASSUME NEW i \in 1..Len(hs) PROVE cs[i] = hs[i]
      <4>1. PICK n \in 0..latestNumber : n = i - 1 /\ n + 1 = i
        BY <1>3
      <4>2. blockStore[n].header = hs[n + 1]
        BY <4>1, <1>2 DEF IndexedAs
      <4>3. n \in 0..(Len(cs) - 1)
        BY <3>4, <4>1
      <4>4. blockStore'[n].header = cs[n + 1]
        BY <3>2, <4>3
      <4>5. QED
        BY <2>1, <4>1, <4>2, <4>4
    <3>9. QED
      BY <3>1, <3>2, <3>7, <3>8
  <2>2. CASE blockStore' # blockStore
    <3>1. blockStore'[latestNumber'].header.parentHash = parentHash
      BY <2>2 DEF ChainGrows
    <3>2. ParamNext
      BY <2>2 DEF paramVars, indexVars
    <3>3. ~ (latestNumber' <= latestNumber)
      BY <3>1, NoBlockAfter
    <3>4. PICK batch \in Batches, time \in Time : Mine(batch, time)
      BY <3>2, <3>3, StepCases
    <3>5. baseFeePerGas \in BaseFee /\ ReceiptsTyped(receipts)
      BY DEF ChainInv
    <3>6. PICK h \in Header : Indexed(Append(hs, h))'
      BY <1>1, <3>4, <3>5, MineIndexed
    <3>7. hs \in Seq(Header)
      BY <1>1 DEF Indexed, Linked
    <3>8. PICK cs : cs = Append(hs, h)
      OBVIOUS
    <3>9. /\ Len(cs) \in Nat /\ Len(hs) <= Len(cs)
          /\ \A i \in 1..Len(hs) : cs[i] = hs[i]
      BY <3>7, <3>8
    <3>10. Indexed(cs)'
      BY <3>6, <3>8
    <3>11. QED
      BY <3>9, <3>10
  <2>3. QED
    BY <2>1, <2>2
<1>5. PICK cs : /\ Indexed(cs)' /\ Len(cs) \in Nat /\ Len(hs) <= Len(cs)
                /\ \A i \in 1..Len(hs) : cs[i] = hs[i]
  BY <1>4
<1>6. /\ blockByHash' = [h \in {cs[i].hash : i \in 1..Len(cs)} |-> Len(h) - 1]
      /\ latestNumber' = Len(cs) - 1
  BY <1>5 DEF Indexed
<1>7. blockByHash = [h \in {hs[i].hash : i \in 1..Len(hs)} |-> Len(h) - 1]
  BY <1>1 DEF Indexed
<1>8. latestNumber' \in Nat /\ latestNumber <= latestNumber'
  BY <1>3, <1>5, <1>6
<1>9. ASSUME NEW h \in DOMAIN blockByHash
      PROVE  /\ h \in DOMAIN blockByHash' /\ blockByHash'[h] = blockByHash[h]
             /\ blockByHash[h] \in 0..latestNumber
  <2>1. PICK i \in 1..Len(hs) : h = hs[i].hash
    BY <1>7
  <2>2. i \in 1..Len(cs) /\ h = cs[i].hash
    BY <1>3, <1>5, <2>1
  <2>3. h \in {cs[j].hash : j \in 1..Len(cs)}
    BY <2>2
  <2>4. h \in DOMAIN blockByHash' /\ blockByHash'[h] = Len(h) - 1
    BY <1>6, <2>3
  <2>5. blockByHash[h] = Len(h) - 1
    BY <1>7
  <2>6. blockByHash[h] = i - 1
    BY <2>1, <1>2 DEF IndexedAs
  <2>7. i - 1 \in 0..latestNumber
    BY <1>3, <2>1
  <2>8. QED
    BY <2>4, <2>5, <2>6, <2>7
<1>10. QED
  BY <1>3, <1>8, <1>9 DEF ChainGrows

Tagless(p) == p.tag = ""

(* What a number or a hash pins, pinned once the chain has grown.                 *)
LEMMA GrowthPins ==
  ASSUME ChainInv, ChainInv', [ParamNext]_paramVars, ChainGrows,
         NEW p \in Parameters, Tagless(p)
  PROVE  \/ PinnedBlockNumber(p) = Invalid /\ PinnedBlockNumber(p)' = Invalid
         \/ PinnedBlockNumber(p) = NotFound
         \/ \E n \in 0..latestNumber :
              PinnedBlockNumber(p) = Block(n) /\ PinnedBlockNumber(p)' = Block(n)
<1>1. latestNumber \in Nat /\ latestNumber' \in Nat /\ latestNumber <= latestNumber'
  BY GrowthKeeps
<1>2. p.number \in Int
  BY ParameterKinds
<1>3. p.tag = "" /\ "" \notin HeadTags /\ "" # "earliest"
  BY DEF HeadTags, Tagless
<1>4. CASE p.hash # <<>> /\ p.number >= 0
  BY <1>4 DEF PinnedBlockNumber
<1>5. CASE p.hash # <<>> /\ ~ (p.number >= 0)
  <2>1. CASE p.hash \in DOMAIN blockByHash
    <3>1. /\ p.hash \in DOMAIN blockByHash' /\ blockByHash'[p.hash] = blockByHash[p.hash]
          /\ blockByHash[p.hash] \in 0..latestNumber
      BY <2>1, GrowthKeeps
    <3>2. PinnedBlockNumber(p) = Block(blockByHash[p.hash])
      BY <1>5, <2>1 DEF PinnedBlockNumber
    <3>3. PinnedBlockNumber(p)' = Block(blockByHash'[p.hash])
      BY <1>5, <3>1 DEF PinnedBlockNumber, Block
    <3>4. QED
      BY <3>1, <3>2, <3>3
  <2>2. CASE p.hash \notin DOMAIN blockByHash
    BY <1>5, <2>2 DEF PinnedBlockNumber
  <2>3. QED
    BY <2>1, <2>2
<1>6. CASE p.hash = <<>> /\ p.number < 0
  BY <1>3, <1>6 DEF PinnedBlockNumber
<1>7. CASE p.hash = <<>> /\ ~ (p.number < 0) /\ p.number > latestNumber
  BY <1>3, <1>7 DEF PinnedBlockNumber
<1>8. CASE p.hash = <<>> /\ ~ (p.number < 0) /\ ~ (p.number > latestNumber)
  <2>1. ~ (p.number > latestNumber') /\ p.number \in 0..latestNumber
    BY <1>1, <1>2, <1>8
  <2>2. PinnedBlockNumber(p) = Block(p.number)
    BY <1>3, <1>8 DEF PinnedBlockNumber
  <2>3. PinnedBlockNumber(p)' = Block(p.number)
    BY <1>3, <1>8, <2>1 DEF PinnedBlockNumber, Block
  <2>4. QED
    BY <2>1, <2>2, <2>3
<1>9. QED
  BY <1>4, <1>5, <1>6, <1>7, <1>8

(* A block leaves the window for good.                                         *)
Slid(latest, next, first, w, n) ==
  /\ n = next \/ n >= Max({first, next - w})
       <=> n = next \/ ~ (w = 0 \/ n < first \/ n < next - w)
  /\ n = next \/ ~ (w = 0 \/ n < first \/ n < next - w)
       => n = latest \/ ~ (w = 0 \/ n < first \/ n < latest - w)

LEMMA WindowSlides ==
  ASSUME NEW latest \in Nat, NEW next \in Nat, latest <= next,
         NEW first \in 0..latest, NEW w \in Nat, NEW n \in 0..latest
  PROVE  Slid(latest, next, first, w, n)
<1>1. first \in Int /\ next - w \in Int
  OBVIOUS
<1>2. PICK last \in Int : last = next - w
  BY <1>1
<1>3. Max({first, last}) = IF first >= last THEN first ELSE last
  BY <1>1, MaxOfTwo
<1>4. PICK oldest \in Int : oldest = Max({first, last}) /\ oldest = IF first >= last THEN first ELSE last
  BY <1>1, <1>3
<1>5. n = next \/ n >= oldest <=> n = next \/ ~ (w = 0 \/ n < first \/ n < next - w)
  BY <1>2, <1>4
<1>6. n = next \/ ~ (w = 0 \/ n < first \/ n < next - w)
      => n = latest \/ ~ (w = 0 \/ n < first \/ n < latest - w)
  OBVIOUS
<1>7. QED
  BY <1>2, <1>4, <1>5, <1>6 DEF Slid

LEMMA GrowthAnswers ==
  ASSUME ChainInv, ChainInv', [ParamNext]_paramVars, ChainGrows,
         NEW p \in Parameters, Tagless(p)
  PROVE  LET before == HistoricalBlock(p)
             after  == HistoricalBlock(p)'
             kept   == \/ before.number = latestNumber'
                       \/ before.number >= Max({historyFloor, latestNumber' - Window})
         IN  /\ Accepts(before) => after = IF kept THEN before ELSE Historical
             /\ before \in {Historical, Invalid} => after = before
<1>1. /\ latestNumber \in Nat /\ latestNumber' \in Nat /\ latestNumber <= latestNumber'
      /\ historyFloor' = historyFloor /\ historyFloor \in 0..latestNumber /\ Window \in Nat
  BY GrowthKeeps, LimitTyped
<1>2. /\ ~ Accepts(Invalid) /\ ~ Accepts(NotFound) /\ ~ Accepts(Historical)
      /\ NotFound \notin {Historical, Invalid} /\ Invalid # Historical
  BY DEF Accepts, Invalid, NotFound, Historical, Refuse
<1>3. CASE PinnedBlockNumber(p) = Invalid /\ PinnedBlockNumber(p)' = Invalid
  <2>1. HistoricalBlock(p) = Invalid /\ HistoricalBlock(p)' = Invalid
    BY <1>2, <1>3 DEF HistoricalBlock, Accepts, Invalid, Refuse
  <2>2. QED
    BY <1>2, <2>1
<1>4. CASE PinnedBlockNumber(p) = NotFound
  <2>1. HistoricalBlock(p) = NotFound
    BY <1>2, <1>4 DEF HistoricalBlock
  <2>2. QED
    BY <1>2, <2>1
<1>5. ASSUME NEW n \in 0..latestNumber,
             PinnedBlockNumber(p) = Block(n), PinnedBlockNumber(p)' = Block(n)
      PROVE  LET before == HistoricalBlock(p)
                 after  == HistoricalBlock(p)'
                 kept   == \/ before.number = latestNumber'
                           \/ before.number >= Max({historyFloor, latestNumber' - Window})
             IN  /\ Accepts(before) => after = IF kept THEN before ELSE Historical
                 /\ before \in {Historical, Invalid} => after = before
  <2>1. PinsAsServed /\ PinsAsServed'
    <3>1. ChainInv => PinsAsServed
      BY PinsServed
    <3>2. QED
      BY <3>1, PinsServed, PTL
  <2>2. n \in 0..latestNumber'
    BY <1>1
  <2>3. HistoricalBlock(p) = IF Served(n) THEN Block(n) ELSE Historical
    BY <1>5, <2>1 DEF PinsAsServed
  <2>4. HistoricalBlock(p)' = IF Served(n)' THEN Block(n) ELSE Historical
    BY <1>5, <2>1, <2>2 DEF PinsAsServed, Block, Historical, Refuse
  <2>5. PICK latest \in Nat : latest = latestNumber
    BY <1>1
  <2>6. PICK next \in Nat : next = latestNumber' /\ latest <= next
    BY <1>1, <2>5
  <2>7. PICK first \in 0..latest : first = historyFloor /\ first = historyFloor'
    BY <1>1, <2>5
  <2>8. n \in 0..latest /\ Window \in Nat
    BY <1>1, <2>5
  <2>9. Slid(latest, next, first, Window, n)
    BY <2>6, <2>8, WindowSlides
  <2>10. n = latestNumber' \/ n >= Max({historyFloor, latestNumber' - Window}) <=> Served(n)'
    <3>1. n = next \/ n >= Max({first, next - Window})
            <=> n = next \/ ~ (Window = 0 \/ n < first \/ n < next - Window)
      BY <2>9 DEF Slid
    <3>2. QED
      BY <1>1, <2>6, <2>7, <3>1 DEF Served
  <2>11. Served(n)' => Served(n)
    <3>1. n = next \/ ~ (Window = 0 \/ n < first \/ n < next - Window)
            => n = latest \/ ~ (Window = 0 \/ n < first \/ n < latest - Window)
      BY <2>9 DEF Slid
    <3>2. QED
      BY <1>1, <2>5, <2>6, <2>7, <3>1 DEF Served
  <2>12. Block(n).number = n /\ Accepts(Block(n)) /\ Block(n) \notin {Historical, Invalid}
    BY DEF Block, Accepts, Historical, Invalid, Refuse
  <2>13. QED
    BY <1>2, <2>3, <2>4, <2>10, <2>11, <2>12
<1>6. QED
  BY <1>3, <1>4, <1>5, GrowthPins

(* A block that was read stays readable until it leaves the window, is refused as     *)
(* history from then on, and no refusal becomes an answer from another block.        *)
THEOREM PinsStayPut == ParamSpec => PinsStay
<1>1. ChainInv /\ ChainInv' /\ [ParamNext]_paramVars =>
      [ ChainGrows =>
        \A p \in Parameters :
          p.tag = "" =>
            LET before == HistoricalBlock(p)
                after  == HistoricalBlock(p)'
                kept   == \/ before.number = latestNumber'
                          \/ before.number >= Max({historyFloor, latestNumber' - Window})
            IN  /\ Accepts(before) => after = IF kept THEN before ELSE Historical
                /\ before \in {Historical, Invalid} => after = before ]_paramVars
  BY GrowthAnswers DEF Tagless
<1>2. QED
  BY <1>1, ChainAlways, PTL DEF PinsStay, ParamSpec
=============================================================================
