----------------------------- MODULE SendingProofs -----------------------------
(***************************************************************************)
(* What a client's transaction meets on its way into a block, for every      *)
(* value of the constants.                                                  *)
(*                                                                         *)
(* The gas limit (GasEstimate), for every price table, block gas limit,       *)
(* probe budget and behaviour of contracts: what the search returns was       *)
(* executed and worked, lies between what the transaction pays up front and   *)
(* the block gas limit, and is therefore admitted and mined by the same node. *)
(*                                                                         *)
(* The pool (TxPool), for every set of accounts and transactions and every    *)
(* policy of the node: nothing runs twice or out of order, nothing runs for    *)
(* who did not sign it, and a nonce that was told is not refused.             *)
(*                                                                         *)
(* The other fields (FillTransaction): what is filled in, signed and sent      *)
(* fails for nothing but the money.                                         *)
(***************************************************************************)
EXTENDS Sending, FiniteSetTheorems, WellFoundedInduction, TLAPS

-----------------------------------------------------------------------------
(* The pool. *)

(* A set of numbers has a least one.                                        *)
LEMMA LeastExists ==
  ASSUME NEW S \in SUBSET Nat, S # {}
  PROVE  \E m \in S : \A y \in S : m <= y
<1> DEFINE R == {e \in Nat \X Nat : e[1] < e[2]}
<1>1. IsWellFoundedOn(R, Nat)
  BY NatLessThanWellFounded DEF OpToRel
<1>2. PICK m \in S : \A k \in S : ~ (<<k, m>> \in R)
  <2> HIDE DEF R
  <2>1. QED
    BY <1>1, WFMin
<1>3. ASSUME NEW k \in S PROVE m <= k
  <2>1. k \in Nat /\ m \in Nat
    OBVIOUS
  <2>2. k < m => <<k, m>> \in R
    BY <2>1
  <2>3. QED
    BY <1>2, <2>1, <2>2
<1>4. QED
  BY <1>3

(* Induction along a queue, for a set of positions.                         *)
LEMMA ReachesAll ==
  ASSUME NEW n \in Nat, NEW P, 0 \in P,
         \A i \in 1..n : (i - 1) \in P => i \in P
  PROVE  \A i \in 0..n : i \in P
<1>1. SUFFICES ASSUME NEW i \in 0..n, i \notin P PROVE FALSE
  OBVIOUS
<1> DEFINE S == {k \in 0..n : k \notin P}
<1>2. PICK m \in S : \A k \in S : m <= k
  <2>1. S \in SUBSET Nat /\ S # {}
    BY <1>1
  <2> HIDE DEF S
  <2>2. QED
    BY <2>1, LeastExists
<1>3. /\ m \in 0..n /\ m \notin P
      /\ m # 0
  BY <1>2
<1>4. /\ m \in 1..n
      /\ (m - 1) \in 0..n
      /\ ~ (m <= m - 1)
  BY <1>3
<1>5. (m - 1) \in P
  BY <1>2, <1>4
<1>6. QED
  BY <1>3, <1>4, <1>5

-----------------------------------------------------------------------------
(* The batch, item by item. *)

Start == [world |-> World, ran |-> <<>>, end |-> "none"]

LEMMA RunToSteps ==
  ASSUME NEW batch \in Seq(Item)
  PROVE  /\ RunTo(batch)[0] = Start
         /\ \A i \in 1..Len(batch) : RunTo(batch)[i] = RunItem(RunTo(batch)[i - 1], batch[i])
<1> DEFINE Runs(f, n) ==
             f = [i \in 0..n |-> IF i = 0 THEN Start ELSE RunItem(f[i - 1], batch[i])]
           P == {n \in 0..Len(batch) : \E f : Runs(f, n)}
<1>1. Len(batch) \in Nat
  OBVIOUS
<1>2. 0 \in P
  <2> DEFINE f == [i \in 0..0 |-> Start]
  <2>1. Runs(f, 0)
    OBVIOUS
  <2>2. \E g : Runs(g, 0)
    <3> HIDE DEF Runs, f
    <3>1. QED
      BY <2>1
  <2>3. 0 \in 0..Len(batch)
    BY <1>1
  <2> HIDE DEF Runs, f
  <2>4. QED
    BY <2>2, <2>3
<1>3. ASSUME NEW n \in 1..Len(batch), (n - 1) \in P PROVE n \in P
  <2>1. PICK f : Runs(f, n - 1)
    BY <1>3
  <2> DEFINE g == [i \in 0..n |-> IF i = n THEN RunItem(f[n - 1], batch[n]) ELSE f[i]]
  <2>2. ASSUME NEW i \in 0..n
        PROVE  g[i] = IF i = 0 THEN Start ELSE RunItem(g[i - 1], batch[i])
    <3>1. CASE i = n
      <4>1. g[i] = RunItem(f[i - 1], batch[i]) /\ g[i - 1] = f[i - 1] /\ i # 0
        BY <3>1
      <4>2. QED
        BY <4>1
    <3>2. CASE i # n /\ i # 0
      <4>1. i \in 0..(n - 1) /\ (i - 1) \in 0..n /\ i - 1 # n
        BY <3>2
      <4>2. g[i] = f[i] /\ g[i - 1] = f[i - 1]
        BY <3>2, <4>1
      <4>3. f[i] = RunItem(f[i - 1], batch[i])
        BY <2>1, <3>2, <4>1
      <4>4. QED
        BY <3>2, <4>2, <4>3
    <3>3. CASE i # n /\ i = 0
      <4>1. i \in 0..(n - 1)
        BY <3>3
      <4>2. f[i] = Start
        BY <2>1, <3>3, <4>1
      <4>3. QED
        BY <3>3, <4>2
    <3>4. QED
      BY <3>1, <3>2, <3>3
  <2>3. Runs(g, n)
    <3>1. g = [i \in 0..n |-> g[i]]
      OBVIOUS
    <3> HIDE DEF g
    <3>2. QED
      BY <2>2, <3>1
  <2>4. n \in 0..Len(batch)
    OBVIOUS
  <2> HIDE DEF Runs, g
  <2>5. QED
    BY <2>3, <2>4
<1>4. \A i \in 0..Len(batch) : i \in P
  <2> HIDE DEF P
  <2>1. QED
    BY <1>1, <1>2, <1>3, ReachesAll
<1>5. \E f : Runs(f, Len(batch))
  BY <1>1, <1>4
<1>6. RunTo(batch) = CHOOSE f : Runs(f, Len(batch))
  BY DEF RunTo, Start
<1>7. Runs(RunTo(batch), Len(batch))
  <2> HIDE DEF Runs
  <2>1. QED
    BY <1>5, <1>6
<1>8. QED
  BY <1>1, <1>7

-----------------------------------------------------------------------------
(* Items and the nonces they take. *)

LEMMA ItemFields ==
  ASSUME NEW item \in Item
  PROVE  /\ item.sender \in Account /\ item.tx \in Raw
         /\ item.tx.nonce \in Nat /\ item.tx.upfront \in Nat
         /\ item.tx.cost \in 0..item.tx.upfront
<1>1. item.tx \in Raw /\ item.sender \in Account
  BY DEF Item
<1>2. item.tx \in Transaction /\ item.tx.cost <= item.tx.upfront
  BY <1>1, PoolAssumption
<1>3. QED
  BY <1>1, <1>2 DEF Transaction

LEMMA OfAppend ==
  ASSUME NEW items \in Seq(Item), NEW item \in Item, NEW s
  PROVE  /\ Of(Append(items, item), s) =
              Of(items, s) \cup (IF item.sender = s THEN {Len(items) + 1} ELSE {})
         /\ NoncesOf(Append(items, item), s) =
              NoncesOf(items, s) \cup (IF item.sender = s THEN {item.tx.nonce} ELSE {})
<1> DEFINE longer == Append(items, item)
<1>1. /\ Len(longer) = Len(items) + 1
      /\ \A i \in 1..Len(items) : longer[i] = items[i]
      /\ longer[Len(items) + 1] = item
      /\ Len(items) \in Nat
  OBVIOUS
<1> HIDE DEF longer
<1>2. Of(longer, s) = Of(items, s) \cup (IF item.sender = s THEN {Len(items) + 1} ELSE {})
  <2>1. ASSUME NEW i PROVE i \in 1..Len(longer) <=> i \in 1..Len(items) \/ i = Len(items) + 1
    BY <1>1
  <2>2. QED
    BY <1>1, <2>1 DEF Of
<1>3. \A i \in Of(items, s) : longer[i] = items[i]
  BY <1>1 DEF Of
<1>4. NoncesOf(longer, s) =
        NoncesOf(items, s) \cup (IF item.sender = s THEN {item.tx.nonce} ELSE {})
  BY <1>1, <1>2, <1>3 DEF NoncesOf
<1>5. QED
  BY <1>2, <1>4 DEF longer

LEMMA OfIsNat ==
  ASSUME NEW items \in Seq(Item), NEW s
  PROVE  /\ \A i \in Of(items, s) : /\ i \in 1..Len(items) /\ i \in Nat
                                    /\ items[i] \in Item /\ items[i].sender = s
                                    /\ items[i].tx.nonce \in Nat
                                    /\ items[i].tx.nonce \in NoncesOf(items, s)
         /\ \A n \in NoncesOf(items, s) :
              \E i \in Of(items, s) : n = items[i].tx.nonce
<1>1. ASSUME NEW i \in Of(items, s)
      PROVE  /\ i \in 1..Len(items) /\ i \in Nat
             /\ items[i] \in Item /\ items[i].sender = s
             /\ items[i].tx.nonce \in NoncesOf(items, s)
  BY <1>1 DEF Of, NoncesOf
<1>2. ASSUME NEW i \in Of(items, s) PROVE items[i].tx.nonce \in Nat
  BY <1>1, ItemFields
<1>3. \A n \in NoncesOf(items, s) : \E i \in Of(items, s) : n = items[i].tx.nonce
  BY DEF NoncesOf
<1>4. QED
  BY <1>1, <1>2, <1>3

LEMMA TakesNothing ==
  ASSUME NEW at \in [Account -> Nat]
  PROVE  TakesNonces(<<>>, at, at)
<1>1. \A s : Of(<<>>, s) = {} /\ NoncesOf(<<>>, s) = {}
  BY DEF Of, NoncesOf
<1>2. \A s \in Account : at[s] <= at[s] /\ at[s]..(at[s] - 1) = {}
  OBVIOUS
<1>3. QED
  BY <1>1, <1>2 DEF TakesNonces

(* One item with the nonce that is next.                                    *)
LEMMA TakesOneMore ==
  ASSUME NEW items \in Seq(Item), NEW item \in Item,
         NEW from \in [Account -> Nat], NEW to \in [Account -> Nat],
         TakesNonces(items, from, to),
         item.tx.nonce = to[item.sender]
  PROVE  TakesNonces(Append(items, item), from, [to EXCEPT ![item.sender] = @ + 1])
<1> DEFINE longer == Append(items, item)
           after  == [to EXCEPT ![item.sender] = @ + 1]
<1>1. SUFFICES ASSUME NEW s \in Account
      PROVE  /\ from[s] <= after[s]
             /\ NoncesOf(longer, s) = from[s]..(after[s] - 1)
             /\ \A i, j \in Of(longer, s) : i < j => longer[i].tx.nonce < longer[j].tx.nonce
  BY DEF TakesNonces
<1>2. /\ from[s] \in Nat /\ to[s] \in Nat /\ from[s] <= to[s]
      /\ NoncesOf(items, s) = from[s]..(to[s] - 1)
      /\ \A i, j \in Of(items, s) : i < j => items[i].tx.nonce < items[j].tx.nonce
  BY DEF TakesNonces
<1>3. \A i \in 1..Len(items) : longer[i] = items[i]
  OBVIOUS
<1>4. longer[Len(items) + 1] = item /\ Len(items) \in Nat
  OBVIOUS
<1>5. /\ Of(longer, s) = Of(items, s) \cup (IF item.sender = s THEN {Len(items) + 1} ELSE {})
      /\ NoncesOf(longer, s) = NoncesOf(items, s) \cup (IF item.sender = s THEN {item.tx.nonce} ELSE {})
  BY OfAppend
<1>6. CASE item.sender # s
  <2>1. after[s] = to[s]
    BY <1>6
  <2>2. Of(longer, s) = Of(items, s) /\ NoncesOf(longer, s) = NoncesOf(items, s)
    BY <1>5, <1>6
  <2>3. \A i \in Of(items, s) : longer[i] = items[i]
    BY <1>3, OfIsNat
  <2> HIDE DEF longer, after
  <2>4. QED
    BY <1>2, <2>1, <2>2, <2>3
<1>7. CASE item.sender = s
  <2>1. after[s] = to[s] + 1 /\ item.tx.nonce = to[s]
    BY <1>7
  <2>2. /\ Of(longer, s) = Of(items, s) \cup {Len(items) + 1}
        /\ NoncesOf(longer, s) = from[s]..(to[s] - 1) \cup {to[s]}
    BY <1>2, <1>5, <1>7, <2>1
  <2>3. \A i \in Of(items, s) : /\ longer[i] = items[i] /\ i < Len(items) + 1
                                /\ i \in Nat
                                /\ items[i].tx.nonce \in from[s]..(to[s] - 1)
    BY <1>2, <1>3, <1>4, OfIsNat
  <2>4. from[s]..(to[s] - 1) \cup {to[s]} = from[s]..(after[s] - 1)
    BY <1>2, <2>1
  <2> HIDE DEF longer, after
  <2>5. ASSUME NEW i \in Of(longer, s), NEW j \in Of(longer, s), i < j
        PROVE  longer[i].tx.nonce < longer[j].tx.nonce
    <3>1. i \in Of(items, s)
      BY <1>4, <2>2, <2>3, <2>5
    <3>2. CASE j \in Of(items, s)
      BY <1>2, <2>3, <2>5, <3>1, <3>2
    <3>3. CASE j = Len(items) + 1
      <4>1. longer[j].tx.nonce = to[s]
        BY <1>4, <2>1, <3>3
      <4>2. longer[i].tx.nonce \in from[s]..(to[s] - 1)
        BY <2>3, <3>1
      <4>3. QED
        BY <1>2, <4>1, <4>2
    <3>4. QED
      BY <2>2, <3>2, <3>3
  <2>6. QED
    BY <1>2, <2>1, <2>2, <2>4, <2>5
<1>8. QED
  BY <1>6, <1>7

(* One list of items after the other.                                       *)
LEMMA TakesBoth ==
  ASSUME NEW x \in Seq(Item), NEW y \in Seq(Item),
         NEW from \in [Account -> Nat], NEW mid \in [Account -> Nat],
         NEW to \in [Account -> Nat],
         TakesNonces(x, from, mid), TakesNonces(y, mid, to)
  PROVE  TakesNonces(x \o y, from, to)
<1> DEFINE xy == x \o y
<1>1. /\ Len(xy) = Len(x) + Len(y) /\ xy \in Seq(Item)
      /\ \A i \in 1..Len(xy) : xy[i] = IF i <= Len(x) THEN x[i] ELSE y[i - Len(x)]
      /\ Len(x) \in Nat /\ Len(y) \in Nat
  OBVIOUS
<1> HIDE DEF xy
<1>2. ASSUME NEW s \in Account
      PROVE  /\ from[s] <= to[s]
             /\ NoncesOf(xy, s) = from[s]..(to[s] - 1)
             /\ \A i, j \in Of(xy, s) : i < j => xy[i].tx.nonce < xy[j].tx.nonce
  <2>1. /\ from[s] \in Nat /\ mid[s] \in Nat /\ to[s] \in Nat
        /\ from[s] <= mid[s] /\ mid[s] <= to[s]
        /\ NoncesOf(x, s) = from[s]..(mid[s] - 1)
        /\ NoncesOf(y, s) = mid[s]..(to[s] - 1)
        /\ \A i, j \in Of(x, s) : i < j => x[i].tx.nonce < x[j].tx.nonce
        /\ \A i, j \in Of(y, s) : i < j => y[i].tx.nonce < y[j].tx.nonce
    BY DEF TakesNonces
  <2>2. ASSUME NEW i \in Of(xy, s)
        PROVE  /\ i \in Nat
               /\ \/ /\ i <= Len(x) /\ i \in Of(x, s) /\ xy[i] = x[i]
                     /\ xy[i].tx.nonce \in from[s]..(mid[s] - 1)
                  \/ /\ i > Len(x) /\ (i - Len(x)) \in Of(y, s) /\ xy[i] = y[i - Len(x)]
                     /\ xy[i].tx.nonce \in mid[s]..(to[s] - 1)
    <3>1. i \in 1..Len(xy) /\ xy[i].sender = s
      BY <1>1, OfIsNat
    <3>2. CASE i <= Len(x)
      <4>1. xy[i] = x[i] /\ i \in 1..Len(x)
        BY <1>1, <3>1, <3>2
      <4>2. i \in Of(x, s)
        BY <3>1, <4>1 DEF Of
      <4>3. x[i].tx.nonce \in NoncesOf(x, s)
        BY <4>2, OfIsNat
      <4>4. QED
        BY <2>1, <3>1, <3>2, <4>1, <4>2, <4>3
    <3>3. CASE ~ (i <= Len(x))
      <4>1. xy[i] = y[i - Len(x)] /\ (i - Len(x)) \in 1..Len(y) /\ i > Len(x)
        BY <1>1, <3>1, <3>3
      <4>2. (i - Len(x)) \in Of(y, s)
        BY <3>1, <4>1 DEF Of
      <4>3. y[i - Len(x)].tx.nonce \in NoncesOf(y, s)
        BY <4>2, OfIsNat
      <4>4. QED
        BY <2>1, <3>1, <4>1, <4>2, <4>3
    <3>4. QED
      BY <3>2, <3>3
  <2>3. ASSUME NEW i \in Of(x, s) PROVE i \in Of(xy, s) /\ xy[i] = x[i]
    <3>1. i \in 1..Len(x) /\ x[i].sender = s
      BY OfIsNat
    <3>2. i \in 1..Len(xy) /\ xy[i] = x[i]
      BY <1>1, <3>1
    <3>3. QED
      BY <3>1, <3>2 DEF Of
  <2>4. ASSUME NEW i \in Of(y, s)
        PROVE  (i + Len(x)) \in Of(xy, s) /\ xy[i + Len(x)] = y[i]
    <3>1. i \in 1..Len(y) /\ y[i].sender = s
      BY OfIsNat
    <3>2. /\ (i + Len(x)) \in 1..Len(xy) /\ ~ (i + Len(x) <= Len(x))
          /\ (i + Len(x)) - Len(x) = i
      BY <1>1, <3>1
    <3>3. xy[i + Len(x)] = y[i]
      BY <1>1, <3>2
    <3>4. QED
      BY <3>1, <3>2, <3>3 DEF Of
  <2>5. NoncesOf(xy, s) = NoncesOf(x, s) \cup NoncesOf(y, s)
    <3>1. /\ \A i \in Of(x, s) : x[i].tx.nonce \in NoncesOf(x, s)
          /\ \A n \in NoncesOf(x, s) : \E i \in Of(x, s) : n = x[i].tx.nonce
      BY OfIsNat
    <3>2. /\ \A i \in Of(y, s) : y[i].tx.nonce \in NoncesOf(y, s)
          /\ \A n \in NoncesOf(y, s) : \E i \in Of(y, s) : n = y[i].tx.nonce
      BY OfIsNat
    <3>3. /\ \A i \in Of(xy, s) : xy[i].tx.nonce \in NoncesOf(xy, s)
          /\ \A n \in NoncesOf(xy, s) : \E i \in Of(xy, s) : n = xy[i].tx.nonce
      BY <1>1, OfIsNat
    <3>4. ASSUME NEW n \in NoncesOf(xy, s) PROVE n \in NoncesOf(x, s) \cup NoncesOf(y, s)
      BY <2>1, <2>2, <3>3
    <3>5. ASSUME NEW n \in NoncesOf(x, s) PROVE n \in NoncesOf(xy, s)
      <4>1. PICK i \in Of(x, s) : n = x[i].tx.nonce
        BY <3>1
      <4>2. i \in Of(xy, s) /\ xy[i] = x[i]
        BY <2>3
      <4>3. QED
        BY <3>3, <4>1, <4>2
    <3>6. ASSUME NEW n \in NoncesOf(y, s) PROVE n \in NoncesOf(xy, s)
      <4>1. PICK i \in Of(y, s) : n = y[i].tx.nonce
        BY <3>2
      <4>2. (i + Len(x)) \in Of(xy, s) /\ xy[i + Len(x)] = y[i]
        BY <2>4
      <4>3. QED
        BY <3>3, <4>1, <4>2
    <3>7. NoncesOf(xy, s) \subseteq NoncesOf(x, s) \cup NoncesOf(y, s)
      BY <3>4
    <3>8. NoncesOf(x, s) \subseteq NoncesOf(xy, s) /\ NoncesOf(y, s) \subseteq NoncesOf(xy, s)
      BY <3>5, <3>6
    <3>9. QED
      BY <3>7, <3>8
  <2>6. from[s]..(mid[s] - 1) \cup mid[s]..(to[s] - 1) = from[s]..(to[s] - 1)
    BY <2>1
  <2>7. ASSUME NEW i \in Of(xy, s), NEW j \in Of(xy, s), i < j
        PROVE  xy[i].tx.nonce < xy[j].tx.nonce
    <3>1. i \in Nat /\ j \in Nat
      BY <2>2
    <3>2. CASE j <= Len(x)
      <4>1. i <= Len(x)
        BY <1>1, <2>7, <3>1, <3>2
      <4>2. /\ i \in Of(x, s) /\ j \in Of(x, s) /\ xy[i] = x[i] /\ xy[j] = x[j]
        BY <1>1, <2>2, <3>1, <3>2, <4>1
      <4>3. QED
        BY <2>1, <2>7, <4>2
    <3>3. CASE i > Len(x)
      <4>1. j > Len(x) /\ i - Len(x) < j - Len(x)
        BY <1>1, <2>7, <3>1, <3>3
      <4>2. /\ (i - Len(x)) \in Of(y, s) /\ (j - Len(x)) \in Of(y, s)
            /\ xy[i] = y[i - Len(x)] /\ xy[j] = y[j - Len(x)]
        BY <1>1, <2>2, <3>1, <3>3, <4>1
      <4>3. QED
        BY <2>1, <4>1, <4>2
    <3>4. CASE i <= Len(x) /\ j > Len(x)
      <4>1. /\ xy[i].tx.nonce \in from[s]..(mid[s] - 1)
            /\ xy[j].tx.nonce \in mid[s]..(to[s] - 1)
        BY <1>1, <2>2, <3>1, <3>4
      <4>2. QED
        BY <2>1, <4>1
    <3>5. QED
      BY <1>1, <3>1, <3>2, <3>3, <3>4
  <2>8. QED
    BY <2>1, <2>5, <2>6, <2>7
<1>3. QED
  BY <1>2 DEF TakesNonces, xy

-----------------------------------------------------------------------------
(* A run, item by item. *)

RunEnds == {"none", "nonce too low", "nonce too high", "insufficient funds"}

Run == [world : [nonce : [Account -> Nat], balance : [Account -> Nat]],
        ran : Seq(Item), end : RunEnds]

LEMMA RunItemCases ==
  ASSUME NEW run \in Run, NEW item \in Item
  PROVE  /\ RunItem(run, item) \in Run
         /\ \/ run.end # "none" /\ RunItem(run, item) = run
            \/ /\ run.end = "none" /\ Refusal(run.world, item) # "none"
               /\ RunItem(run, item).end = Refusal(run.world, item)
               /\ RunItem(run, item).world = run.world
               /\ RunItem(run, item).ran = run.ran
            \/ /\ run.end = "none" /\ Refusal(run.world, item) = "none"
               /\ item.tx.nonce = run.world.nonce[item.sender]
               /\ RunItem(run, item).end = "none"
               /\ RunItem(run, item).world.nonce =
                    [run.world.nonce EXCEPT ![item.sender] = @ + 1]
               /\ RunItem(run, item).ran = Append(run.ran, item)
<1> DEFINE world == run.world
<1>1. /\ world \in [nonce : [Account -> Nat], balance : [Account -> Nat]]
      /\ run.ran \in Seq(Item) /\ run.end \in RunEnds
      /\ run = [world |-> world, ran |-> run.ran, end |-> run.end]
  BY DEF Run
<1>2. /\ world.nonce \in [Account -> Nat] /\ world.balance \in [Account -> Nat]
  BY <1>1
<1>3. /\ item.sender \in Account /\ item.tx.nonce \in Nat /\ item.tx.upfront \in Nat
      /\ item.tx.cost \in 0..item.tx.upfront
  BY ItemFields
<1>4. /\ world.nonce[item.sender] \in Nat /\ world.balance[item.sender] \in Nat
  BY <1>2, <1>3
<1>5. Refusal(world, item) \in RunEnds
  BY DEF Refusal, RunEnds
<1>6. CASE run.end # "none"
  BY <1>6 DEF RunItem
<1>7. CASE run.end = "none" /\ Refusal(world, item) # "none"
  <2>1. RunItem(run, item) = [run EXCEPT !.end = Refusal(world, item)]
    BY <1>7 DEF RunItem
  <2>2. RunItem(run, item) = [world |-> world, ran |-> run.ran, end |-> Refusal(world, item)]
    BY <1>1, <2>1
  <2> HIDE DEF world
  <2>3. QED
    BY <1>1, <1>5, <1>7, <2>2 DEF Run, world
<1>8. CASE run.end = "none" /\ Refusal(world, item) = "none"
  <2>1. /\ item.tx.nonce = world.nonce[item.sender]
        /\ item.tx.upfront <= world.balance[item.sender]
    BY <1>3, <1>4, <1>8 DEF Refusal
  <2>2. RunItem(run, item) =
          [run EXCEPT !.world = After(world, item), !.ran = Append(run.ran, item)]
    BY <1>8 DEF RunItem
  <2>3. RunItem(run, item) =
          [world |-> After(world, item), ran |-> Append(run.ran, item), end |-> run.end]
    BY <1>1, <2>2
  <2>4. /\ After(world, item).nonce = [world.nonce EXCEPT ![item.sender] = @ + 1]
        /\ After(world, item).balance = [world.balance EXCEPT ![item.sender] = @ - item.tx.cost]
        /\ After(world, item) \in [nonce : [Account -> Nat], balance : [Account -> Nat]]
    <3>1. [world.nonce EXCEPT ![item.sender] = @ + 1] \in [Account -> Nat]
      BY <1>2, <1>3, <1>4
    <3>2. world.balance[item.sender] - item.tx.cost \in Nat
      BY <1>3, <1>4, <2>1
    <3>3. [world.balance EXCEPT ![item.sender] = @ - item.tx.cost] \in [Account -> Nat]
      BY <1>2, <1>3, <3>2
    <3>4. QED
      BY <3>1, <3>3 DEF After
  <2>5. Append(run.ran, item) \in Seq(Item)
    BY <1>1
  <2> HIDE DEF world
  <2>6. RunItem(run, item) \in Run
    BY <1>1, <2>3, <2>4, <2>5 DEF Run
  <2>7. QED
    BY <1>8, <2>1, <2>3, <2>4, <2>6 DEF world
<1> HIDE DEF world
<1>9. (run.end # "none") \/ (run.end = "none" /\ Refusal(world, item) # "none")
      \/ (run.end = "none" /\ Refusal(world, item) = "none")
  OBVIOUS
<1>10. QED
  BY ONLY <1>6, <1>7, <1>8, <1>9 DEF world

(* What any batch leaves: what ran came from it, and took the nonces the       *)
(* accounts moved by.                                                       *)
RanFrom(batch, run) ==
  /\ run \in Run
  /\ TakesNonces(run.ran, nonce, run.world.nonce)
  /\ \A k \in 1..Len(run.ran) : \E j \in 1..Len(batch) : run.ran[k] = batch[j]

LEMMA BatchRan ==
  ASSUME PoolTypeOK, NEW batch \in Seq(Item)
  PROVE  \A i \in 0..Len(batch) : RanFrom(batch, RunTo(batch)[i])
<1> DEFINE P == {i \in 0..Len(batch) : RanFrom(batch, RunTo(batch)[i])}
<1>1. Len(batch) \in Nat
  OBVIOUS
<1>2. 0 \in P
  <2>1. nonce \in [Account -> Nat] /\ balance \in [Account -> Nat]
    BY DEF PoolTypeOK
  <2>2. Start \in Run
    BY <2>1 DEF Start, World, Run, RunEnds
  <2>3. Start.ran = <<>> /\ Start.world.nonce = nonce
    BY DEF Start, World
  <2>4. RanFrom(batch, Start)
    BY <2>1, <2>2, <2>3, TakesNothing DEF RanFrom
  <2>5. RunTo(batch)[0] = Start /\ 0 \in 0..Len(batch)
    BY <1>1, RunToSteps
  <2>6. QED
    BY <2>4, <2>5
<1>3. ASSUME NEW i \in 1..Len(batch), (i - 1) \in P PROVE i \in P
  <2>1. PICK run : run = RunTo(batch)[i - 1]
    OBVIOUS
  <2>2. PICK next : next = RunTo(batch)[i]
    OBVIOUS
  <2>3. RanFrom(batch, run)
    BY <1>3, <2>1
  <2>4. batch[i] \in Item /\ i \in 0..Len(batch)
    BY <1>1
  <2>5. next = RunItem(run, batch[i])
    BY <2>1, <2>2, RunToSteps
  <2>6. run \in Run
    BY <2>3 DEF RanFrom
  <2>7. RanFrom(batch, next)
    <3>1. CASE next.ran = run.ran /\ next.world.nonce = run.world.nonce /\ next \in Run
      BY <2>3, <3>1 DEF RanFrom
    <3>2. CASE /\ next.ran = Append(run.ran, batch[i]) /\ next \in Run
               /\ batch[i].tx.nonce = run.world.nonce[batch[i].sender]
               /\ next.world.nonce = [run.world.nonce EXCEPT ![batch[i].sender] = @ + 1]
      <4>1. /\ run.ran \in Seq(Item) /\ run.world.nonce \in [Account -> Nat]
            /\ nonce \in [Account -> Nat]
        BY <2>6 DEF Run, PoolTypeOK
      <4>2. TakesNonces(run.ran, nonce, run.world.nonce)
        BY <2>3 DEF RanFrom
      <4>3. TakesNonces(next.ran, nonce, next.world.nonce)
        <5>1. PICK items, to : items = run.ran /\ to = run.world.nonce
          OBVIOUS
        <5>2. /\ items \in Seq(Item) /\ to \in [Account -> Nat] /\ nonce \in [Account -> Nat]
              /\ TakesNonces(items, nonce, to) /\ batch[i] \in Item
              /\ batch[i].tx.nonce = to[batch[i].sender]
          BY <2>4, <3>2, <4>1, <4>2, <5>1
        <5>3. TakesNonces(Append(items, batch[i]), nonce, [to EXCEPT ![batch[i].sender] = @ + 1])
          BY ONLY <5>2, TakesOneMore
        <5>4. QED
          BY <3>2, <5>1, <5>3
      <4>4. ASSUME NEW k \in 1..Len(next.ran)
            PROVE  \E j \in 1..Len(batch) : next.ran[k] = batch[j]
        <5>1. CASE k = Len(run.ran) + 1
          <6>1. next.ran[k] = batch[i]
            BY <3>2, <4>1, <5>1
          <6>2. QED
            BY <6>1
        <5>2. CASE k # Len(run.ran) + 1
          <6>1. k \in 1..Len(run.ran) /\ next.ran[k] = run.ran[k]
            BY <3>2, <4>1, <5>2
          <6>2. QED
            BY <2>3, <6>1 DEF RanFrom
        <5>3. QED
          BY <5>1, <5>2
      <4>5. QED
        BY <3>2, <4>3, <4>4 DEF RanFrom
    <3>3. next = run \/ (next.ran = run.ran /\ next.world = run.world /\ next \in Run)
          \/ (/\ next.ran = Append(run.ran, batch[i]) /\ next \in Run
              /\ batch[i].tx.nonce = run.world.nonce[batch[i].sender]
              /\ next.world.nonce = [run.world.nonce EXCEPT ![batch[i].sender] = @ + 1])
      BY ONLY <2>4, <2>5, <2>6, RunItemCases
    <3>4. QED
      BY <2>6, <3>1, <3>2, <3>3
  <2>8. QED
    BY <2>2, <2>4, <2>7
<1>4. \A i \in 0..Len(batch) : i \in P
  <2> HIDE DEF P
  <2>1. QED
    BY <1>1, <1>2, <1>3, ReachesAll
<1>5. QED
  BY <1>4

-----------------------------------------------------------------------------
(* Queues whose clients sent what they were told. *)

UpTo(items, s, k) == {items[j].tx.nonce : j \in {i \in Of(items, s) : i <= k}}

(* Each nonce follows those its sender has queued before it.                 *)
InSequence(items) ==
  \A i \in 1..Len(items) :
    LET s == items[i].sender
    IN  /\ nonce[s] <= items[i].tx.nonce
        /\ items[i].tx.nonce < nonce[s] + i
        /\ UpTo(items, s, i - 1) = nonce[s]..(items[i].tx.nonce - 1)

LEMMA UpToNone ==
  ASSUME NEW items \in Seq(Item), NEW s
  PROVE  UpTo(items, s, 0) = {}
<1>1. Len(items) \in Nat /\ Of(items, s) \subseteq 1..Len(items)
  BY DEF Of
<1>2. QED
  BY <1>1 DEF UpTo

LEMMA UpToNext ==
  ASSUME NEW items \in Seq(Item), NEW s, NEW k \in 1..Len(items)
  PROVE  UpTo(items, s, k) =
           UpTo(items, s, k - 1)
             \cup (IF items[k].sender = s THEN {items[k].tx.nonce} ELSE {})
<1>1. Len(items) \in Nat /\ Of(items, s) \subseteq 1..Len(items)
  BY DEF Of
<1>2. \A i \in Of(items, s) : i <= k <=> i <= k - 1 \/ i = k
  BY <1>1
<1>3. k \in Of(items, s) <=> items[k].sender = s
  BY DEF Of
<1>4. QED
  BY <1>1, <1>2, <1>3 DEF UpTo

LEMMA UpToAll ==
  ASSUME NEW items \in Seq(Item), NEW s
  PROVE  UpTo(items, s, Len(items)) = NoncesOf(items, s)
<1>1. Len(items) \in Nat /\ Of(items, s) \subseteq 1..Len(items)
  BY DEF Of
<1>2. \A i \in Of(items, s) : i <= Len(items)
  BY <1>1
<1>3. QED
  BY <1>2 DEF UpTo, NoncesOf

LEMMA QueuedInARow ==
  ASSUME nonce \in [Account -> Nat], NEW items \in Seq(Item), InSequence(items),
         NEW s \in Account
  PROVE  \E m \in Nat : /\ nonce[s] <= m /\ m <= nonce[s] + Len(items)
                         /\ NoncesOf(items, s) = nonce[s]..(m - 1)
<1> DEFINE P == {k \in 0..Len(items) :
                   \E m \in Nat : /\ nonce[s] <= m /\ m <= nonce[s] + k
                                  /\ UpTo(items, s, k) = nonce[s]..(m - 1)}
<1>1. Len(items) \in Nat /\ nonce[s] \in Nat
  OBVIOUS
<1>2. 0 \in P
  <2>1. UpTo(items, s, 0) = nonce[s]..(nonce[s] - 1)
    <3>1. UpTo(items, s, 0) = {}
      BY UpToNone
    <3>2. nonce[s]..(nonce[s] - 1) = {}
      BY <1>1
    <3>3. QED
      BY <3>1, <3>2
  <2>2. QED
    BY <1>1, <2>1
<1>3. ASSUME NEW k \in 1..Len(items), (k - 1) \in P PROVE k \in P
  <2>1. PICK m \in Nat : /\ nonce[s] <= m /\ m <= nonce[s] + (k - 1)
                         /\ UpTo(items, s, k - 1) = nonce[s]..(m - 1)
    BY <1>3
  <2>2. UpTo(items, s, k) =
          UpTo(items, s, k - 1)
            \cup (IF items[k].sender = s THEN {items[k].tx.nonce} ELSE {})
    BY UpToNext
  <2>3. CASE items[k].sender # s
    <3>1. UpTo(items, s, k) = nonce[s]..(m - 1)
      BY <2>1, <2>2, <2>3
    <3>2. QED
      BY <1>1, <2>1, <3>1
  <2>4. CASE items[k].sender = s
    <3>1. items[k].tx.nonce \in Nat
      BY ItemFields
    <3>2. PICK n \in Nat : n = items[k].tx.nonce
      BY <3>1
    <3>3. /\ nonce[s] <= n /\ n < nonce[s] + k
          /\ UpTo(items, s, k - 1) = nonce[s]..(n - 1)
      BY <2>4, <3>2 DEF InSequence
    <3>4. nonce[s]..(n - 1) \cup {n} = nonce[s]..((n + 1) - 1)
      BY <1>1, <3>3
    <3>5. UpTo(items, s, k) = nonce[s]..((n + 1) - 1)
      BY <2>2, <2>4, <3>2, <3>3, <3>4
    <3>6. n + 1 \in Nat /\ nonce[s] <= n + 1 /\ n + 1 <= nonce[s] + k /\ k \in 0..Len(items)
      BY <1>1, <3>3
    <3>7. QED
      BY <3>5, <3>6
  <2>5. QED
    BY <2>3, <2>4
<1>4. \A k \in 0..Len(items) : k \in P
  <2> HIDE DEF P
  <2>1. QED
    BY <1>1, <1>2, <1>3, ReachesAll
<1>5. Len(items) \in P
  BY <1>1, <1>4
<1>6. QED
  BY <1>5, UpToAll

LEMMA PendingNonceIsNext ==
  ASSUME PoolTypeOK, InSequence(pending), NEW s \in Account
  PROVE  /\ PendingNonce(s) \in Nat
         /\ nonce[s] <= PendingNonce(s) /\ PendingNonce(s) <= nonce[s] + Len(pending)
         /\ Queued(s) = nonce[s]..(PendingNonce(s) - 1)
<1>1. nonce \in [Account -> Nat] /\ pending \in Seq(Item)
  BY DEF PoolTypeOK
<1>2. nonce[s] \in Nat /\ Len(pending) \in Nat
  BY <1>1
<1>3. PICK m \in Nat : /\ nonce[s] <= m /\ m <= nonce[s] + Len(pending)
                       /\ Queued(s) = nonce[s]..(m - 1)
  BY <1>1, QueuedInARow DEF Queued
<1>4. ASSUME NEW n \in nonce[s]..(nonce[s] + Len(pending))
      PROVE  (n \notin Queued(s) /\ nonce[s]..(n - 1) \subseteq Queued(s)) <=> n = m
  <2>1. CASE n < m
    <3>1. n \in Queued(s)
      BY <1>2, <1>3, <2>1
    <3>2. n # m
      BY <1>2, <2>1
    <3>3. QED
      BY <3>1, <3>2
  <2>2. CASE n > m
    <3>1. m \in nonce[s]..(n - 1) /\ m \notin Queued(s)
      BY <1>2, <1>3, <2>2
    <3>2. n # m
      BY <1>2, <2>2
    <3>3. QED
      BY <3>1, <3>2
  <2>3. CASE n = m
    <3>1. m \notin Queued(s)
      BY <1>2, <1>3
    <3>2. QED
      BY <1>3, <2>3, <3>1
  <2>4. QED
    BY <1>2, <2>1, <2>2, <2>3
<1>5. m \in nonce[s]..(nonce[s] + Len(pending))
  BY <1>2, <1>3
<1>6. PendingNonce(s) = m
  BY <1>4, <1>5 DEF PendingNonce
<1>7. QED
  BY <1>3, <1>6

LEMMA SentAsTold ==
  ASSUME PoolTypeOK, InSequence(pending), NEW item \in Item,
         item.tx.nonce = PendingNonce(item.sender)
  PROVE  InSequence(Append(pending, item))
<1>1. nonce \in [Account -> Nat] /\ pending \in Seq(Item)
  BY DEF PoolTypeOK
<1>2. PICK longer : longer = Append(pending, item)
  OBVIOUS
<1>3. /\ longer \in Seq(Item) /\ Len(longer) = Len(pending) + 1 /\ Len(pending) \in Nat
      /\ \A i \in 1..Len(pending) : longer[i] = pending[i]
      /\ longer[Len(pending) + 1] = item
  BY <1>1, <1>2
<1>4. ASSUME NEW s, NEW k \in 0..Len(pending)
      PROVE  UpTo(longer, s, k) = UpTo(pending, s, k)
  <2>1. {i \in Of(longer, s) : i <= k} = {i \in Of(pending, s) : i <= k}
    BY <1>3 DEF Of
  <2>2. \A i \in Of(pending, s) : longer[i] = pending[i]
    BY <1>3 DEF Of
  <2>3. QED
    BY <2>1, <2>2 DEF UpTo
<1>5. SUFFICES ASSUME NEW i \in 1..Len(longer)
      PROVE  /\ nonce[longer[i].sender] <= longer[i].tx.nonce
             /\ longer[i].tx.nonce < nonce[longer[i].sender] + i
             /\ UpTo(longer, longer[i].sender, i - 1) =
                  nonce[longer[i].sender]..(longer[i].tx.nonce - 1)
  BY <1>2 DEF InSequence
<1>6. CASE i \in 1..Len(pending)
  <2>1. longer[i] = pending[i] /\ (i - 1) \in 0..Len(pending)
    BY <1>3, <1>6
  <2>2. UpTo(longer, pending[i].sender, i - 1) = UpTo(pending, pending[i].sender, i - 1)
    BY <1>4, <2>1
  <2>3. QED
    BY <1>6, <2>1, <2>2 DEF InSequence
<1>7. CASE i = Len(pending) + 1
  <2>1. longer[i] = item /\ i - 1 = Len(pending)
    BY <1>3, <1>7
  <2>2. PICK s \in Account : s = item.sender
    BY ItemFields
  <2>3. UpTo(longer, s, i - 1) = Queued(s)
    BY <1>1, <1>3, <1>4, <2>1, UpToAll DEF Queued
  <2>4. /\ PendingNonce(s) \in Nat
        /\ nonce[s] <= PendingNonce(s) /\ PendingNonce(s) <= nonce[s] + Len(pending)
        /\ Queued(s) = nonce[s]..(PendingNonce(s) - 1)
    BY PendingNonceIsNext
  <2>5. nonce[s] \in Nat
    BY <1>1
  <2>6. QED
    BY <1>3, <1>7, <2>1, <2>2, <2>3, <2>4, <2>5
<1>8. QED
  BY <1>3, <1>6, <1>7

(* Such a queue meets no nonce error: as far as it ran, every account is at     *)
(* the nonce after those queued for it.                                      *)
InStep(batch, run, i) ==
  /\ run.end \in {"none", "insufficient funds"}
  /\ run.end = "none" =>
       \A s \in Account : /\ nonce[s] <= run.world.nonce[s]
                          /\ UpTo(batch, s, i) = nonce[s]..(run.world.nonce[s] - 1)

LEMMA SequenceRuns ==
  ASSUME PoolTypeOK, NEW batch \in Seq(Item), InSequence(batch)
  PROVE  \A i \in 0..Len(batch) : InStep(batch, RunTo(batch)[i], i)
<1> DEFINE P == {i \in 0..Len(batch) : InStep(batch, RunTo(batch)[i], i)}
<1>1. Len(batch) \in Nat /\ nonce \in [Account -> Nat]
  BY DEF PoolTypeOK
<1>2. 0 \in P
  <2>1. Start.end = "none" /\ Start.world.nonce = nonce
    BY DEF Start, World
  <2>2. ASSUME NEW s \in Account
        PROVE  nonce[s] <= nonce[s] /\ UpTo(batch, s, 0) = nonce[s]..(nonce[s] - 1)
    <3>1. nonce[s] \in Nat
      BY <1>1
    <3>2. UpTo(batch, s, 0) = {}
      BY UpToNone
    <3>3. nonce[s]..(nonce[s] - 1) = {} /\ nonce[s] <= nonce[s]
      BY <3>1
    <3>4. QED
      BY <3>2, <3>3
  <2>3. InStep(batch, Start, 0)
    BY ONLY <2>1, <2>2 DEF InStep
  <2>4. RunTo(batch)[0] = Start /\ 0 \in 0..Len(batch)
    BY <1>1, RunToSteps
  <2>5. QED
    BY <2>3, <2>4
<1>3. ASSUME NEW i \in 1..Len(batch), (i - 1) \in P PROVE i \in P
  <2>1. PICK run, next, item :
          run = RunTo(batch)[i - 1] /\ next = RunTo(batch)[i] /\ item = batch[i]
    OBVIOUS
  <2>2. /\ InStep(batch, run, i - 1) /\ item \in Item /\ i \in 0..Len(batch)
        /\ (i - 1) \in 0..Len(batch)
    BY <1>1, <1>3, <2>1
  <2>3. next = RunItem(run, item)
    BY <2>1, RunToSteps
  <2>4. run \in Run
    BY <2>1, <2>2, BatchRan DEF RanFrom
  <2>5. PICK s \in Account : s = item.sender
    BY <2>2, ItemFields
  <2>6. PICK n \in Nat : n = item.tx.nonce
    BY <2>2, ItemFields
  <2>7. /\ nonce[s] <= n /\ UpTo(batch, s, i - 1) = nonce[s]..(n - 1)
    BY <2>1, <2>5, <2>6 DEF InSequence
  <2>8. run.world.nonce \in [Account -> Nat]
    BY <2>4 DEF Run
  <2>9. run.end = "none" => n = run.world.nonce[s]
    <3>1. SUFFICES ASSUME run.end = "none" PROVE n = run.world.nonce[s]
      OBVIOUS
    <3>2. PICK w \in Nat : w = run.world.nonce[s]
      BY <2>8
    <3>3. nonce[s] <= w /\ nonce[s]..(n - 1) = nonce[s]..(w - 1) /\ nonce[s] \in Nat
      BY <1>1, <2>2, <2>7, <3>1, <3>2 DEF InStep
    <3>4. ~ (n < w)
      <4>1. n < w => n \in nonce[s]..(w - 1) /\ n \notin nonce[s]..(n - 1)
        BY <2>7, <3>3
      <4>2. QED
        BY <3>3, <4>1
    <3>5. ~ (w < n)
      <4>1. w < n => w \in nonce[s]..(n - 1) /\ w \notin nonce[s]..(w - 1)
        BY <2>7, <3>3
      <4>2. QED
        BY <3>3, <4>1
    <3>6. QED
      BY <3>2, <3>4, <3>5
  <2>10. run.end = "none" => Refusal(run.world, item) \in {"none", "insufficient funds"}
    BY <2>5, <2>6, <2>8, <2>9 DEF Refusal
  <2>11. ASSUME next.end = "none",
                next.world.nonce = [run.world.nonce EXCEPT ![item.sender] = @ + 1],
                run.end = "none", NEW t \in Account
         PROVE  /\ nonce[t] <= next.world.nonce[t]
                /\ UpTo(batch, t, i) = nonce[t]..(next.world.nonce[t] - 1)
    <3>1. PICK w \in Nat : w = run.world.nonce[t]
      BY <2>8
    <3>2. /\ nonce[t] \in Nat /\ nonce[t] <= w
          /\ UpTo(batch, t, i - 1) = nonce[t]..(w - 1)
      BY <1>1, <2>2, <2>11, <3>1 DEF InStep
    <3>3. UpTo(batch, t, i) =
            UpTo(batch, t, i - 1) \cup (IF item.sender = t THEN {item.tx.nonce} ELSE {})
      BY <2>1, UpToNext
    <3>4. CASE t # s
      <4>1. next.world.nonce[t] = w
        BY <2>5, <2>8, <2>11, <3>1, <3>4
      <4>2. QED
        BY <2>5, <3>2, <3>3, <3>4, <4>1
    <3>5. CASE t = s
      <4>1. next.world.nonce[t] = w + 1
        BY <2>5, <2>8, <2>11, <3>1, <3>5
      <4>2. w = n
        BY <2>9, <2>11, <3>1, <3>5
      <4>3. nonce[t]..(w - 1) \cup {w} = nonce[t]..((w + 1) - 1)
        BY <3>2
      <4>4. UpTo(batch, t, i) = nonce[t]..((w + 1) - 1)
        BY <2>5, <2>6, <3>2, <3>3, <3>5, <4>2, <4>3
      <4>5. QED
        BY <3>2, <4>1, <4>4
    <3>6. QED
      BY <3>4, <3>5
  <2>12. InStep(batch, next, i)
    <3>1. \/ run.end # "none" /\ next = run
          \/ /\ run.end = "none" /\ Refusal(run.world, item) # "none"
             /\ next.end = Refusal(run.world, item)
          \/ /\ run.end = "none" /\ next.end = "none"
             /\ next.world.nonce = [run.world.nonce EXCEPT ![item.sender] = @ + 1]
      BY ONLY <2>2, <2>3, <2>4, RunItemCases
    <3>2. CASE run.end # "none" /\ next = run
      BY <2>2, <3>2 DEF InStep
    <3>3. CASE /\ run.end = "none" /\ Refusal(run.world, item) # "none"
               /\ next.end = Refusal(run.world, item)
      BY <2>10, <3>3 DEF InStep
    <3>4. CASE /\ run.end = "none" /\ next.end = "none"
               /\ next.world.nonce = [run.world.nonce EXCEPT ![item.sender] = @ + 1]
      BY <2>11, <3>4 DEF InStep
    <3>5. QED
      BY <3>1, <3>2, <3>3, <3>4
  <2>13. QED
    BY <2>1, <2>2, <2>12
<1>4. \A i \in 0..Len(batch) : i \in P
  <2> HIDE DEF P
  <2>1. QED
    BY <1>1, <1>2, <1>3, ReachesAll
<1>5. QED
  BY <1>4

-----------------------------------------------------------------------------
(* What every state has. *)

PoolInv ==
  /\ NoReplay
  /\ SenderAuthentic
  /\ options.auto => pending = <<>>
  /\ told => InSequence(pending)

Authentic(item) == item.sender = item.tx.signer /\ item.tx.signature = "good"

AllAuthentic ==
  ~ options.trusted =>
    /\ \A i \in 1..Len(pending) : Authentic(pending[i])
    /\ \A i \in 1..Len(mined) : Authentic(mined[i])

LEMMA AuthenticIs == PoolTypeOK => (SenderAuthentic <=> AllAuthentic)
<1> SUFFICES ASSUME PoolTypeOK PROVE SenderAuthentic <=> AllAuthentic
  OBVIOUS
<1>0. pending \in Seq(Item) /\ mined \in Seq(Item)
  BY DEF PoolTypeOK
<1>1. PICK both : both = pending \o mined
  OBVIOUS
<1>2. /\ Len(both) = Len(pending) + Len(mined)
      /\ \A i \in 1..Len(both) :
           both[i] = IF i <= Len(pending) THEN pending[i] ELSE mined[i - Len(pending)]
      /\ Len(pending) \in Nat /\ Len(mined) \in Nat
  BY <1>0, <1>1
<1>3. SenderAuthentic <=> (~ options.trusted => \A i \in 1..Len(both) : Authentic(both[i]))
  BY <1>1 DEF SenderAuthentic, Authentic
<1>4. (\A i \in 1..Len(both) : Authentic(both[i])) <=>
        /\ \A i \in 1..Len(pending) : Authentic(pending[i])
        /\ \A i \in 1..Len(mined) : Authentic(mined[i])
  <2>1. ASSUME \A i \in 1..Len(both) : Authentic(both[i])
        PROVE  /\ \A i \in 1..Len(pending) : Authentic(pending[i])
               /\ \A i \in 1..Len(mined) : Authentic(mined[i])
    <3>1. ASSUME NEW i \in 1..Len(pending) PROVE Authentic(pending[i])
      <4>1. i \in 1..Len(both) /\ both[i] = pending[i]
        BY <1>2
      <4>2. QED
        BY <2>1, <4>1
    <3>2. ASSUME NEW i \in 1..Len(mined) PROVE Authentic(mined[i])
      <4>1. /\ (i + Len(pending)) \in 1..Len(both) /\ ~ (i + Len(pending) <= Len(pending))
            /\ (i + Len(pending)) - Len(pending) = i
        BY <1>2
      <4>2. both[i + Len(pending)] = mined[i]
        BY <1>2, <4>1
      <4>3. QED
        BY <2>1, <4>1, <4>2
    <3>3. QED
      BY <3>1, <3>2
  <2>2. ASSUME \A i \in 1..Len(pending) : Authentic(pending[i]),
               \A i \in 1..Len(mined) : Authentic(mined[i]),
               NEW i \in 1..Len(both)
        PROVE  Authentic(both[i])
    <3>1. CASE i <= Len(pending)
      <4>1. i \in 1..Len(pending) /\ both[i] = pending[i]
        BY <1>2, <3>1
      <4>2. QED
        BY <2>2, <4>1
    <3>2. CASE ~ (i <= Len(pending))
      <4>1. (i - Len(pending)) \in 1..Len(mined) /\ both[i] = mined[i - Len(pending)]
        BY <1>2, <3>2
      <4>2. QED
        BY <2>2, <4>1
    <3>3. QED
      BY <3>1, <3>2
  <2>3. QED
    BY <2>1, <2>2
<1>5. QED
  BY <1>3, <1>4 DEF AllAuthentic

(* A sender the node found itself signed, in the form it accepts.             *)
LEMMA SenderFound ==
  ASSUME options \in Options, NEW tx \in Raw, NEW claimed \in Account \cup {Nobody},
         SenderOf(tx, claimed) # Nobody
  PROVE  /\ SenderOf(tx, claimed) \in Account
         /\ ~ options.trusted =>
              SenderOf(tx, claimed) = tx.signer /\ tx.signature = "good"
<1>1. tx \in Transaction
  BY PoolAssumption
<1>2. tx.signer \in Account /\ tx.signature \in Signature
  BY <1>1 DEF Transaction
<1>3. Recovered(tx) # Nobody => Recovered(tx) = tx.signer /\ tx.signature = "good"
  BY <1>2 DEF Recovered, RecoverSender, GetSenderAddress, Ecrecover, Signature
<1>4. CASE claimed = Nobody
  BY <1>2, <1>3, <1>4 DEF SenderOf
<1>5. CASE claimed # Nobody
  <2>1. SenderOf(tx, claimed) = IF options.trusted THEN claimed ELSE Nobody
    BY <1>5 DEF SenderOf
  <2>2. options.trusted /\ SenderOf(tx, claimed) = claimed
    BY <2>1
  <2>3. QED
    BY <1>5, <2>2
<1>6. QED
  BY <1>4, <1>5

(* Mining a batch keeps what is known of the items that ran.                 *)
LEMMA MineKeeps ==
  ASSUME PoolTypeOK, PoolInv, NEW batch \in Seq(Item), Mine(batch),
         ~ options.trusted => \A i \in 1..Len(batch) : Authentic(batch[i])
  PROVE  /\ nonce' \in [Account -> Nat] /\ balance' \in [Account -> Nat]
         /\ mined' \in Seq(Item)
         /\ TakesNonces(mined', [s \in Account |-> 0], nonce')
         /\ ~ options.trusted => \A i \in 1..Len(mined') : Authentic(mined'[i])
<1>1. PICK run : run = RunBatch(batch)
  OBVIOUS
<1>2. RanFrom(batch, run)
  <2>1. Len(batch) \in 0..Len(batch)
    OBVIOUS
  <2>2. QED
    BY <1>1, <2>1, BatchRan DEF RunBatch
<1>3. /\ run.world.nonce \in [Account -> Nat] /\ run.world.balance \in [Account -> Nat]
      /\ run.ran \in Seq(Item)
  BY <1>2 DEF RanFrom, Run
<1>4. /\ nonce' = run.world.nonce /\ balance' = run.world.balance
      /\ mined' = mined \o run.ran
  BY <1>1 DEF Mine
<1>5. mined \in Seq(Item) /\ nonce \in [Account -> Nat]
  BY DEF PoolTypeOK
<1>6. TakesNonces(mined, [s \in Account |-> 0], nonce)
  BY DEF PoolInv, NoReplay
<1>7. TakesNonces(run.ran, nonce, run.world.nonce)
  BY <1>2 DEF RanFrom
<1>8. TakesNonces(mined', [s \in Account |-> 0], nonce')
  <2>1. PICK y, to, from : y = run.ran /\ to = run.world.nonce /\ from = [s \in Account |-> 0]
    OBVIOUS
  <2>2. /\ mined \in Seq(Item) /\ y \in Seq(Item) /\ from \in [Account -> Nat]
        /\ nonce \in [Account -> Nat] /\ to \in [Account -> Nat]
        /\ TakesNonces(mined, from, nonce) /\ TakesNonces(y, nonce, to)
    BY <1>3, <1>5, <1>6, <1>7, <2>1
  <2>3. TakesNonces(mined \o y, from, to)
    BY ONLY <2>2, TakesBoth
  <2>4. QED
    BY <1>4, <2>1, <2>3
<1>9. ASSUME ~ options.trusted, NEW i \in 1..Len(mined') PROVE Authentic(mined'[i])
  <2>1. \A k \in 1..Len(mined) : Authentic(mined[k])
    BY <1>5, <1>9, AuthenticIs DEF PoolInv, AllAuthentic
  <2>2. \A k \in 1..Len(run.ran) : Authentic(run.ran[k])
    BY <1>2, <1>9 DEF RanFrom
  <2>3. PICK y : y = run.ran
    OBVIOUS
  <2>4. /\ Len(mined') = Len(mined) + Len(y) /\ Len(mined) \in Nat /\ Len(y) \in Nat
        /\ mined'[i] = IF i <= Len(mined) THEN mined[i] ELSE y[i - Len(mined)]
    BY <1>3, <1>4, <1>5, <2>3
  <2>5. CASE i <= Len(mined)
    BY <2>1, <2>4, <2>5
  <2>6. CASE ~ (i <= Len(mined))
    <3>1. (i - Len(mined)) \in 1..Len(y) /\ mined'[i] = y[i - Len(mined)]
      BY <2>4, <2>6
    <3>2. QED
      BY <2>2, <2>3, <3>1
  <2>7. QED
    BY <2>5, <2>6
<1>10. QED
  BY <1>3, <1>4, <1>5, <1>8, <1>9

(* The parts of the invariant, put together after a step.                    *)
LEMMA PoolInvAfter ==
  ASSUME PoolTypeOK', AllAuthentic',
         TakesNonces(mined', [s \in Account |-> 0], nonce'),
         options'.auto => pending' = <<>>,
         told' => InSequence(pending)'
  PROVE  PoolInv'
<1>1. (PoolTypeOK => (SenderAuthentic <=> AllAuthentic))'
  BY AuthenticIs, PTL
<1>2. SenderAuthentic'
  BY <1>1
<1>3. NoReplay'
  BY DEF NoReplay, TakesNonces, NoncesOf, Of
<1>4. QED
  BY <1>2, <1>3 DEF PoolInv

(* An empty queue is in sequence whatever the nonces are.                    *)
LEMMA EmptyInSequence == pending = <<>> => InSequence(pending)
  BY DEF InSequence

LEMMA SameInSequence ==
  ASSUME InSequence(pending), nonce' = nonce, pending' = pending
  PROVE  InSequence(pending)'
  BY DEF InSequence, UpTo, Of

(* A step that mines a batch and leaves the queue empty.                     *)
LEMMA MiningStep ==
  ASSUME PoolInv, NEW batch \in Seq(Item), Mine(batch),
         ~ options.trusted => \A i \in 1..Len(batch) : Authentic(batch[i]),
         pending' = <<>>, options' = options, told' \in BOOLEAN
  PROVE  PoolInv'
<1>1. PoolTypeOK
  BY DEF PoolInv, NoReplay
<1>2. /\ nonce' \in [Account -> Nat] /\ balance' \in [Account -> Nat]
      /\ mined' \in Seq(Item)
      /\ TakesNonces(mined', [s \in Account |-> 0], nonce')
      /\ ~ options.trusted => \A i \in 1..Len(mined') : Authentic(mined'[i])
  BY <1>1, MineKeeps
<1>3. PoolTypeOK'
  BY <1>1, <1>2 DEF PoolTypeOK
<1>4. \A i \in 1..Len(pending') : Authentic(pending'[i])
  OBVIOUS
<1>5. AllAuthentic'
  BY <1>2, <1>4 DEF AllAuthentic, Authentic
<1>6. InSequence(pending)'
  BY DEF InSequence
<1>7. QED
  BY <1>2, <1>3, <1>5, <1>6, PoolInvAfter

(* A step that moves neither the queue nor what ran.                         *)
LEMMA QuietStep ==
  ASSUME PoolInv, UNCHANGED <<options, nonce, pending, mined>>,
         balance' \in [Account -> Nat], told' \in BOOLEAN, told' => told
  PROVE  PoolInv'
<1>1. PoolTypeOK /\ TakesNonces(mined, [s \in Account |-> 0], nonce)
  BY DEF PoolInv, NoReplay
<1>2. PoolTypeOK'
  BY <1>1 DEF PoolTypeOK
<1>3. AllAuthentic
  BY <1>1, AuthenticIs DEF PoolInv
<1>4. AllAuthentic'
  BY <1>3 DEF AllAuthentic, Authentic
<1>5. told' => InSequence(pending)'
  BY SameInSequence DEF PoolInv
<1>6. QED
  BY <1>1, <1>2, <1>4, <1>5, PoolInvAfter DEF PoolInv

LEMMA PoolInitially == PoolInit => PoolInv
<1> SUFFICES ASSUME PoolInit PROVE PoolInv
  OBVIOUS
<1>1. PoolTypeOK
  BY PoolAssumption DEF PoolInit, PoolTypeOK
<1>2. AllAuthentic
  BY DEF PoolInit, AllAuthentic
<1>3. TakesNonces(mined, [s \in Account |-> 0], nonce)
  <2>1. mined = <<>> /\ nonce = [s \in Account |-> 0] /\ nonce \in [Account -> Nat]
    BY DEF PoolInit
  <2>2. QED
    BY <2>1, TakesNothing
<1>4. InSequence(pending)
  BY EmptyInSequence DEF PoolInit
<1>5. QED
  BY <1>1, <1>2, <1>3, <1>4, AuthenticIs DEF PoolInv, NoReplay, PoolInit

LEMMA PoolStep == PoolInv /\ [PoolNext]_poolVars => PoolInv'
<1> SUFFICES ASSUME PoolInv, [PoolNext]_poolVars PROVE PoolInv'
  OBVIOUS
<1>1. PoolTypeOK /\ AllAuthentic
  BY AuthenticIs DEF PoolInv, NoReplay
<1>2. /\ nonce \in [Account -> Nat] /\ balance \in [Account -> Nat]
      /\ pending \in Seq(Item) /\ mined \in Seq(Item)
      /\ options \in Options /\ told \in BOOLEAN
  BY <1>1 DEF PoolTypeOK
<1>3. CASE UNCHANGED poolVars
  BY <1>2, <1>3, QuietStep DEF poolVars
<1>4. ASSUME options' = options, MineBlock PROVE PoolInv'
  <2>1. /\ Mine(pending) /\ pending' = <<>> /\ told' = told
    BY <1>4 DEF MineBlock, QueueAfterMine
  <2>2. ~ options.trusted => \A i \in 1..Len(pending) : Authentic(pending[i])
    BY <1>1 DEF AllAuthentic
  <2>3. QED
    BY <1>2, <1>4, <2>1, <2>2, MiningStep
<1>5. ASSUME options' = options, NEW s \in Account, SetBalance(s) PROVE PoolInv'
  <2>1. UNCHANGED <<options, nonce, pending, mined, told>>
    BY <1>5 DEF SetBalance
  <2>2. balance' \in [Account -> Nat]
    BY <1>2, <1>5, PoolAssumption DEF SetBalance
  <2>3. QED
    BY <1>2, <2>1, <2>2, QuietStep
<1>6. ASSUME options' = options, NEW tx \in Raw, NEW claimed \in Account \cup {Nobody},
             Call(tx, claimed)
      PROVE  PoolInv'
  <2>1. told' \in BOOLEAN /\ (told' => told /\ AsTold(tx, claimed))
    BY <1>2, <1>6 DEF Call
  <2>2. CASE RefuseSender(tx, claimed) \/ RefuseAlone(tx, claimed)
    <3>1. UNCHANGED <<options, nonce, balance, pending, mined>>
      BY <1>6, <2>2 DEF RefuseSender, RefuseAlone, Refused
    <3>2. QED
      BY <1>2, <2>1, <3>1, QuietStep
  <2>3. ASSUME NEW sync \in BOOLEAN, Send(tx, claimed, sync) PROVE PoolInv'
    <3>1. PICK item : item = [tx |-> tx, sender |-> SenderOf(tx, claimed)]
      OBVIOUS
    <3>2. /\ item.sender # Nobody
          /\ \/ options.auto /\ Mine(<<item>>) /\ pending' = pending
             \/ /\ ~ options.auto /\ pending' = Append(pending, item)
                /\ UNCHANGED <<nonce, balance, mined>>
             \/ /\ ~ options.auto /\ Mine(Append(pending, item)) /\ pending' = <<>>
      BY <2>3, <3>1 DEF Send, QueueAfterMine
    <3>3. SenderOf(tx, claimed) # Nobody
      BY <3>1, <3>2
    <3>4. /\ item \in Item
          /\ ~ options.trusted => Authentic(item)
      BY <1>2, <3>1, <3>3, SenderFound DEF Item, Authentic
    <3>5. CASE options.auto /\ Mine(<<item>>) /\ pending' = pending
      <4>1. pending' = <<>>
        BY <3>5 DEF PoolInv
      <4>2. PICK batch : batch = <<item>>
        OBVIOUS
      <4>3. batch \in Seq(Item) /\ Mine(batch)
        BY <3>4, <3>5, <4>2
      <4>4. ~ options.trusted => \A i \in 1..Len(batch) : Authentic(batch[i])
        BY <3>4, <4>2
      <4>5. QED
        BY <1>6, <2>1, <4>1, <4>3, <4>4, MiningStep
    <3>6. PICK longer : longer = Append(pending, item)
      OBVIOUS
    <3>7. /\ longer \in Seq(Item)
          /\ ~ options.trusted => \A i \in 1..Len(longer) : Authentic(longer[i])
      <4>1. longer \in Seq(Item)
        BY <1>2, <3>4, <3>6
      <4>2. ASSUME ~ options.trusted, NEW i \in 1..Len(longer) PROVE Authentic(longer[i])
        <5>1. /\ i \in 1..Len(pending) /\ longer[i] = pending[i]
              \/ longer[i] = item
          BY <1>2, <3>4, <3>6
        <5>2. QED
          BY <1>1, <3>4, <4>2, <5>1 DEF AllAuthentic
      <4>3. QED
        BY <4>1, <4>2
    <3>8. CASE ~ options.auto /\ Mine(Append(pending, item)) /\ pending' = <<>>
      <4>1. Mine(longer)
        BY <3>6, <3>8
      <4>2. QED
        BY <1>6, <2>1, <3>7, <3>8, <4>1, MiningStep
    <3>9. CASE /\ ~ options.auto /\ pending' = Append(pending, item)
               /\ UNCHANGED <<nonce, balance, mined>>
      <4>1. PoolTypeOK'
        BY <1>2, <1>6, <2>1, <3>6, <3>7, <3>9 DEF PoolTypeOK
      <4>2. AllAuthentic'
        BY <1>1, <1>6, <3>6, <3>7, <3>9 DEF AllAuthentic, Authentic
      <4>3. TakesNonces(mined', [s \in Account |-> 0], nonce')
        BY <3>9 DEF PoolInv, NoReplay
      <4>4. told' => InSequence(pending)'
        <5>1. SUFFICES ASSUME told' PROVE InSequence(pending)'
          OBVIOUS
        <5>2. InSequence(pending)
          BY <2>1, <5>1 DEF PoolInv
        <5>3. item.tx.nonce = PendingNonce(item.sender)
          BY <2>1, <3>1, <3>3, <5>1 DEF AsTold
        <5>4. InSequence(Append(pending, item))
          BY <1>1, <3>4, <5>2, <5>3, SentAsTold
        <5>5. QED
          BY <3>9, <5>4 DEF InSequence, UpTo, Of
      <4>5. QED
        BY <1>6, <3>9, <4>1, <4>2, <4>3, <4>4, PoolInvAfter
    <3>10. QED
      BY <3>2, <3>5, <3>8, <3>9
  <2>4. QED
    BY <1>6, <2>2, <2>3 DEF Call
<1>7. QED
  BY <1>3, <1>4, <1>5, <1>6 DEF PoolNext

THEOREM PoolInvHolds == PoolSpec => []PoolInv
<1>1. QED
  BY PoolInitially, PoolStep, PTL DEF PoolSpec

(* For every set of accounts and transactions, signed well or badly, and      *)
(* every policy of the node: no transaction runs twice or out of order.       *)
THEOREM NothingRunsTwice == PoolSpec => []NoReplay
<1>1. PoolInv => NoReplay
  BY DEF PoolInv
<1>2. QED
  BY <1>1, PoolInvHolds, PTL

(* ... what waits or ran was signed by its sender, in the form EIP-2 allows,   *)
(* wherever the node recovers senders.                                      *)
THEOREM SendersAreAuthentic == PoolSpec => []SenderAuthentic
<1>1. PoolInv => SenderAuthentic
  BY DEF PoolInv
<1>2. QED
  BY <1>1, PoolInvHolds, PTL

(* ... and a client that always sent the nonce it was told is refused for no   *)
(* nonce, however long the queue.                                            *)
THEOREM NoncesToldRun == PoolSpec => []PendingNonceRuns
<1>1. PoolInv => PendingNonceRuns
  <2>1. SUFFICES ASSUME PoolInv, told, NEW s \in Account
        PROVE  LET run  == RunBatch(pending)
                   next == [sender |-> s, tx |-> [nonce |-> PendingNonce(s), upfront |-> 0]]
               IN  run.end \notin {"nonce too low", "nonce too high"}
                   /\ (run.end = "none" => Refusal(run.world, next) = "none")
    BY DEF PendingNonceRuns
  <2>2. PoolTypeOK /\ InSequence(pending) /\ pending \in Seq(Item)
    BY <2>1 DEF PoolInv, NoReplay, PoolTypeOK
  <2>3. PICK run : run = RunBatch(pending)
    OBVIOUS
  <2>4. PICK next : next = [sender |-> s, tx |-> [nonce |-> PendingNonce(s), upfront |-> 0]]
    OBVIOUS
  <2>5. Len(pending) \in 0..Len(pending)
    BY <2>2
  <2>6. InStep(pending, run, Len(pending)) /\ run \in Run
    BY <2>2, <2>3, <2>5, SequenceRuns, BatchRan DEF RunBatch, RanFrom
  <2>7. ASSUME run.end = "none" PROVE Refusal(run.world, next) = "none"
    <3>1. /\ run.world.nonce \in [Account -> Nat] /\ run.world.balance \in [Account -> Nat]
      BY <2>6 DEF Run
    <3>2. PICK n \in Nat : n = PendingNonce(s)
      BY <2>1, <2>2, PendingNonceIsNext
    <3>3. PICK w \in Nat : w = run.world.nonce[s]
      BY <3>1
    <3>4. /\ nonce[s] <= n /\ Queued(s) = nonce[s]..(n - 1) /\ nonce[s] \in Nat
      BY <2>1, <2>2, <3>2, PendingNonceIsNext DEF PoolTypeOK
    <3>5. /\ nonce[s] <= w /\ Queued(s) = nonce[s]..(w - 1)
      BY <2>2, <2>6, <2>7, <3>3, UpToAll DEF InStep, Queued
    <3>6. ~ (n < w) /\ ~ (w < n)
      <4>1. n < w => n \in nonce[s]..(w - 1) /\ n \notin nonce[s]..(n - 1)
        BY <3>4
      <4>2. w < n => w \in nonce[s]..(n - 1) /\ w \notin nonce[s]..(w - 1)
        BY <3>4, <3>5
      <4>3. QED
        BY <3>4, <3>5, <4>1, <4>2
    <3>7. n = w
      BY <3>6
    <3>8. /\ next.sender = s /\ next.tx.nonce = n /\ next.tx.upfront = 0
      BY <2>4, <3>2
    <3>9. run.world.balance[s] \in Nat
      BY <3>1
    <3>10. QED
      BY <3>3, <3>7, <3>8, <3>9 DEF Refusal
  <2>8. QED
    BY <2>3, <2>4, <2>6, <2>7 DEF InStep
<1>2. QED
  BY <1>1, PoolInvHolds, PTL

-----------------------------------------------------------------------------
(* The other fields. *)

-----------------------------------------------------------------------------
(* What is filled in. *)

Filled == [nonce : Nat, maxFee : Nat, tip : Nat, suits : BOOLEAN]

Waiting == [nonce : Nat, maxFee : Nat, tip : Nat, suits : BOOLEAN, fresh : BOOLEAN]

(* Fees that were said to suit the blocks do.                               *)
Suited(tx) == tx.suits => market.blockBaseFee <= tx.maxFee

(* Where every transaction was sent with the nonce still given, the queue       *)
(* takes the account's nonces one after the other.                           *)
InARow ==
  (\A i \in 1..Len(waiting) : waiting[i].fresh) =>
    \A i \in 1..Len(waiting) : waiting[i].nonce = nextNonce + (i - 1)

FillInv ==
  /\ market \in [baseFee : Fee, tip : Fee, blockBaseFee : Fee]
  /\ nextNonce \in Nat /\ funds \in Nat
  /\ filled \subseteq Filled
  /\ \A tx \in filled : tx.tip <= tx.maxFee /\ Suited(tx)
  /\ waiting \in Seq(Waiting) /\ Len(waiting) <= MaxQueue
  /\ \A i \in 1..Len(waiting) : waiting[i].tip <= waiting[i].maxFee /\ Suited(waiting[i])
  /\ InARow

LEMMA FillTyped == FillInv => F!TypeOK
<1> SUFFICES ASSUME FillInv PROVE F!TypeOK
  OBVIOUS
<1>1. ASSUME NEW tx \in filled
      PROVE  tx.nonce \in Nat /\ tx.suits \in BOOLEAN /\ tx.tip <= tx.maxFee
  <2>1. tx \in Filled /\ tx.tip <= tx.maxFee
    BY DEF FillInv
  <2>2. QED
    BY <2>1 DEF Filled
<1>2. ASSUME NEW i \in 1..Len(waiting)
      PROVE  /\ waiting[i].nonce \in Nat /\ waiting[i].suits \in BOOLEAN
             /\ waiting[i].tip <= waiting[i].maxFee
  <2>1. waiting[i] \in Waiting /\ waiting[i].tip <= waiting[i].maxFee
    BY DEF FillInv
  <2>2. QED
    BY <2>1 DEF Waiting
<1>3. QED
  BY <1>1, <1>2 DEF FillInv, F!TypeOK, F!Market

(* There is a pending nonce: the queue cannot hold every one of the next        *)
(* Len + 1.                                                                 *)
LEMMA FillNonceExists ==
  ASSUME nextNonce \in Nat, waiting \in Seq(Waiting)
  PROVE  /\ F!PendingNonce \in nextNonce..(nextNonce + Len(waiting))
         /\ F!PendingNonce \notin F!QueuedNonces
         /\ nextNonce..(F!PendingNonce - 1) \subseteq F!QueuedNonces
<1>1. PICK len \in Nat : len = Len(waiting)
  OBVIOUS
<1>2. PICK Q : Q = F!QueuedNonces
  OBVIOUS
<1>3. Q = {waiting[i].nonce : i \in 1..len}
  BY <1>1, <1>2 DEF F!QueuedNonces
<1>4. IsFiniteSet(Q) /\ Cardinality(Q) \in Nat /\ Cardinality(Q) <= len
  <2>1. PICK f : f = [i \in 1..len |-> waiting[i].nonce]
    OBVIOUS
  <2>2. f \in Surjection(1..len, Q)
    <3>1. f \in [1..len -> Q]
      BY <1>3, <2>1
    <3>2. \A n \in Q : \E i \in 1..len : f[i] = n
      BY <1>3, <2>1
    <3>3. QED
      BY <3>1, <3>2 DEF Surjection
  <2>3. IsFiniteSet(1..len) /\ Cardinality(1..len) = len
    BY FS_Interval
  <2>4. IsFiniteSet(Q) /\ Cardinality(Q) <= Cardinality(1..len)
    BY ONLY <2>2, <2>3, FS_Surjection
  <2>5. QED
    BY <2>3, <2>4, FS_CardinalityType
<1>5. \E n \in nextNonce..(nextNonce + len) : n \notin Q
  <2>1. PICK hi \in Nat : hi = nextNonce + len
    OBVIOUS
  <2>2. IsFiniteSet(nextNonce..hi) /\ Cardinality(nextNonce..hi) = len + 1
    BY <2>1, FS_Interval
  <2>3. SUFFICES ASSUME nextNonce..hi \subseteq Q PROVE FALSE
    BY <2>1
  <2>4. Cardinality(nextNonce..hi) <= Cardinality(Q)
    BY <1>4, <2>3, FS_Subset
  <2>5. QED
    BY <1>4, <2>2, <2>4
<1> DEFINE S == {n \in nextNonce..(nextNonce + len) : n \notin Q}
<1>6. PICK m \in S : \A y \in S : m <= y
  <2>1. S \in SUBSET Nat /\ S # {}
    BY <1>5
  <2> HIDE DEF S
  <2>2. QED
    BY <2>1, LeastExists
<1>7. ASSUME NEW y \in nextNonce..(m - 1) PROVE y \in Q
  <2>1. y \in nextNonce..(nextNonce + len) /\ ~ (m <= y)
    BY <1>6
  <2>2. QED
    BY <1>6, <2>1
<1>8. \E n \in nextNonce..(nextNonce + Len(waiting)) :
        n \notin F!QueuedNonces /\ nextNonce..(n - 1) \subseteq F!QueuedNonces
  BY <1>1, <1>2, <1>6, <1>7
<1>9. QED
  BY <1>8 DEF F!PendingNonce

LEMMA FillNonceNext ==
  ASSUME nextNonce \in Nat, waiting \in Seq(Waiting),
         \A i \in 1..Len(waiting) : waiting[i].nonce = nextNonce + (i - 1)
  PROVE  F!PendingNonce = nextNonce + Len(waiting)
<1>1. PICK len \in Nat : len = Len(waiting)
  OBVIOUS
<1>2. PICK n : n = F!PendingNonce
  OBVIOUS
<1>3. n \in nextNonce..(nextNonce + len) /\ n \notin F!QueuedNonces
  BY <1>1, <1>2, FillNonceExists
<1>4. ASSUME n < nextNonce + len PROVE FALSE
  <2>1. ((n - nextNonce) + 1) \in 1..len
    BY <1>3, <1>4
  <2>2. waiting[(n - nextNonce) + 1].nonce = n
    BY <1>1, <1>3, <2>1
  <2>3. n \in F!QueuedNonces
    BY <1>1, <2>1, <2>2 DEF F!QueuedNonces
  <2>4. QED
    BY <1>3, <2>3
<1>5. QED
  BY <1>1, <1>2, <1>3, <1>4

-----------------------------------------------------------------------------
(* The queue, transaction by transaction. *)

FillEnds == {"none", "nonce too low", "nonce too high", "insufficient funds",
             "fee too low", "the engine's own words"}

FillWorld == [nonce : Nat, balance : Nat, end : FillEnds]

FillStart == [nonce |-> nextNonce, balance |-> funds, end |-> "none"]

LEMMA FillRunSteps ==
  ASSUME waiting \in Seq(Waiting)
  PROVE  /\ F!RunTo[0] = FillStart
         /\ \A i \in 1..Len(waiting) : F!RunTo[i] = F!RunTx(F!RunTo[i - 1], waiting[i])
<1> DEFINE Runs(f, n) ==
             f = [i \in 0..n |-> IF i = 0 THEN FillStart ELSE F!RunTx(f[i - 1], waiting[i])]
           P == {n \in 0..Len(waiting) : \E f : Runs(f, n)}
<1>1. Len(waiting) \in Nat
  OBVIOUS
<1>2. 0 \in P
  <2> DEFINE f == [i \in 0..0 |-> FillStart]
  <2>1. Runs(f, 0)
    OBVIOUS
  <2>2. \E g : Runs(g, 0)
    <3> HIDE DEF Runs, f
    <3>1. QED
      BY <2>1
  <2>3. 0 \in 0..Len(waiting)
    BY <1>1
  <2> HIDE DEF Runs, f
  <2>4. QED
    BY <2>2, <2>3
<1>3. ASSUME NEW n \in 1..Len(waiting), (n - 1) \in P PROVE n \in P
  <2>1. PICK f : Runs(f, n - 1)
    BY <1>3
  <2> DEFINE g == [i \in 0..n |-> IF i = n THEN F!RunTx(f[n - 1], waiting[n]) ELSE f[i]]
  <2>2. ASSUME NEW i \in 0..n
        PROVE  g[i] = IF i = 0 THEN FillStart ELSE F!RunTx(g[i - 1], waiting[i])
    <3>1. CASE i = n
      <4>1. g[i] = F!RunTx(f[i - 1], waiting[i]) /\ g[i - 1] = f[i - 1] /\ i # 0
        BY <3>1
      <4>2. QED
        BY <4>1
    <3>2. CASE i # n /\ i # 0
      <4>1. i \in 0..(n - 1) /\ (i - 1) \in 0..n /\ i - 1 # n
        BY <3>2
      <4>2. g[i] = f[i] /\ g[i - 1] = f[i - 1]
        BY <3>2, <4>1
      <4>3. f[i] = F!RunTx(f[i - 1], waiting[i])
        BY <2>1, <3>2, <4>1
      <4>4. QED
        BY <3>2, <4>2, <4>3
    <3>3. CASE i # n /\ i = 0
      <4>1. i \in 0..(n - 1)
        BY <3>3
      <4>2. f[i] = FillStart
        BY <2>1, <3>3, <4>1
      <4>3. QED
        BY <3>3, <4>2
    <3>4. QED
      BY <3>1, <3>2, <3>3
  <2>3. Runs(g, n)
    <3>1. g = [i \in 0..n |-> g[i]]
      OBVIOUS
    <3> HIDE DEF g
    <3>2. QED
      BY <2>2, <3>1
  <2>4. n \in 0..Len(waiting)
    OBVIOUS
  <2> HIDE DEF Runs, g
  <2>5. QED
    BY <2>3, <2>4
<1>4. \A i \in 0..Len(waiting) : i \in P
  <2> HIDE DEF P
  <2>1. QED
    BY <1>1, <1>2, <1>3, ReachesAll
<1>5. \E f : Runs(f, Len(waiting))
  BY <1>1, <1>4
<1>6. F!RunTo = CHOOSE f : Runs(f, Len(waiting))
  BY DEF F!RunTo, FillStart
<1>7. Runs(F!RunTo, Len(waiting))
  <2> HIDE DEF Runs
  <2>1. QED
    BY <1>5, <1>6
<1>8. QED
  BY <1>1, <1>7

LEMMA RunTxCases ==
  ASSUME F!FillAssumption, FillInv, NEW world \in FillWorld, NEW tx \in Waiting
  PROVE  /\ F!RunTx(world, tx) \in FillWorld
         /\ \/ world.end # "none" /\ F!RunTx(world, tx) = world
            \/ /\ world.end = "none" /\ F!Refusal(world, tx) # "none"
               /\ F!RunTx(world, tx).end = F!Refusal(world, tx)
            \/ /\ world.end = "none" /\ F!RunTx(world, tx).end = "none"
               /\ F!RunTx(world, tx).nonce = world.nonce + 1
<1>1. /\ world.nonce \in Nat /\ world.balance \in Nat /\ world.end \in FillEnds
      /\ world = [nonce |-> world.nonce, balance |-> world.balance, end |-> world.end]
  BY DEF FillWorld
<1>2. /\ tx.nonce \in Nat /\ tx.maxFee \in Nat /\ tx.tip \in Nat
  BY DEF Waiting
<1>3. market.blockBaseFee \in Nat
  BY DEF FillInv, F!FillAssumption
<1>4. F!Refusal(world, tx) \in FillEnds
  BY DEF F!Refusal, FillEnds
<1>5. CASE world.end # "none"
  BY <1>5 DEF F!RunTx
<1>6. CASE world.end = "none" /\ F!Refusal(world, tx) # "none"
  <2>1. F!RunTx(world, tx) = [world EXCEPT !.end = F!Refusal(world, tx)]
    BY <1>6 DEF F!RunTx
  <2>2. F!RunTx(world, tx) =
          [nonce |-> world.nonce, balance |-> world.balance, end |-> F!Refusal(world, tx)]
    BY <1>1, <2>1
  <2>3. QED
    BY <1>1, <1>4, <1>6, <2>2 DEF FillWorld
<1>7. CASE world.end = "none" /\ F!Refusal(world, tx) = "none"
  <2>1. tx.maxFee <= world.balance
    BY <1>1, <1>2, <1>3, <1>7 DEF F!Refusal, F!UpfrontCost
  <2>2. F!EffectiveGasPrice(tx) \in Nat /\ F!EffectiveGasPrice(tx) <= tx.maxFee
    BY <1>2, <1>3 DEF F!EffectiveGasPrice
  <2>3. world.balance - F!EffectiveGasPrice(tx) \in Nat
    BY <1>1, <1>2, <2>1, <2>2
  <2>4. F!RunTx(world, tx) =
          [world EXCEPT !.nonce = @ + 1, !.balance = @ - F!EffectiveGasPrice(tx)]
    BY <1>7 DEF F!RunTx
  <2>5. F!RunTx(world, tx) =
          [nonce |-> world.nonce + 1, balance |-> world.balance - F!EffectiveGasPrice(tx),
           end |-> world.end]
    BY <1>1, <2>4
  <2>6. QED
    BY <1>1, <1>7, <2>3, <2>5 DEF FillWorld
<1>8. QED
  BY <1>5, <1>6, <1>7

LEMMA FillRunTyped ==
  ASSUME F!FillAssumption, FillInv
  PROVE  \A i \in 0..Len(waiting) : F!RunTo[i] \in FillWorld
<1> DEFINE P == {i \in 0..Len(waiting) : F!RunTo[i] \in FillWorld}
<1>1. Len(waiting) \in Nat /\ waiting \in Seq(Waiting)
  BY DEF FillInv
<1>2. 0 \in P
  <2>1. FillStart \in FillWorld
    BY DEF FillStart, FillWorld, FillEnds, FillInv
  <2>2. F!RunTo[0] = FillStart /\ 0 \in 0..Len(waiting)
    BY <1>1, FillRunSteps
  <2>3. QED
    BY <2>1, <2>2
<1>3. ASSUME NEW i \in 1..Len(waiting), (i - 1) \in P PROVE i \in P
  <2>1. /\ F!RunTo[i - 1] \in FillWorld /\ waiting[i] \in Waiting /\ i \in 0..Len(waiting)
    BY <1>1, <1>3
  <2>2. F!RunTo[i] = F!RunTx(F!RunTo[i - 1], waiting[i])
    BY <1>1, FillRunSteps
  <2>3. QED
    BY <2>1, <2>2, RunTxCases
<1>4. \A i \in 0..Len(waiting) : i \in P
  <2> HIDE DEF P
  <2>1. QED
    BY <1>1, <1>2, <1>3, ReachesAll
<1>5. QED
  BY <1>4

(* As far as it has run, it met no lack of anything but money.                *)
Fine(run, i) ==
  /\ run.end \in {"none", "insufficient funds"}
  /\ run.end = "none" => run.nonce = nextNonce + i

(* What was filled in and sent in time runs, as far as the money goes.        *)
LEMMA FilledRunsHere ==
  ASSUME F!FillAssumption, FillInv,
         \A i \in 1..Len(waiting) : waiting[i].fresh /\ waiting[i].suits
  PROVE  F!RunBatch.end \in {"none", "insufficient funds"}
<1> DEFINE P == {i \in 0..Len(waiting) : Fine(F!RunTo[i], i)}
<1>1. Len(waiting) \in Nat /\ waiting \in Seq(Waiting) /\ nextNonce \in Nat
  BY DEF FillInv
<1>2. 0 \in P
  <2>1. F!RunTo[0] = FillStart /\ 0 \in 0..Len(waiting)
    BY <1>1, FillRunSteps
  <2>2. Fine(FillStart, 0)
    BY <1>1 DEF FillStart, Fine
  <2>3. QED
    BY <2>1, <2>2
<1>3. ASSUME NEW i \in 1..Len(waiting), (i - 1) \in P PROVE i \in P
  <2>1. PICK run, next, tx : run = F!RunTo[i - 1] /\ next = F!RunTo[i] /\ tx = waiting[i]
    OBVIOUS
  <2>2. /\ Fine(run, i - 1) /\ tx \in Waiting /\ i \in 0..Len(waiting)
        /\ (i - 1) \in 0..Len(waiting) /\ run \in FillWorld
    BY <1>1, <1>3, <2>1, FillRunTyped
  <2>3. next = F!RunTx(run, tx)
    BY <1>1, <2>1, FillRunSteps
  <2>4. /\ tx.nonce = nextNonce + (i - 1) /\ market.blockBaseFee <= tx.maxFee
    BY <2>1 DEF FillInv, InARow, Suited
  <2>5. /\ tx.nonce \in Nat /\ tx.maxFee \in Nat /\ market.blockBaseFee \in Nat
        /\ run.nonce \in Nat /\ run.balance \in Nat
    BY <2>2 DEF Waiting, FillWorld, FillInv, F!FillAssumption
  <2>6. run.end = "none" => F!Refusal(run, tx) \in {"none", "insufficient funds"}
    BY <2>2, <2>4, <2>5 DEF Fine, F!Refusal, F!UpfrontCost
  <2> HIDE DEF P
  <2>7. \/ run.end # "none" /\ next = run
        \/ /\ run.end = "none" /\ F!Refusal(run, tx) # "none"
           /\ next.end = F!Refusal(run, tx)
        \/ run.end = "none" /\ next.end = "none" /\ next.nonce = run.nonce + 1
    BY ONLY F!FillAssumption, FillInv, <2>2, <2>3, RunTxCases
  <2>8. Fine(next, i)
    <3>1. CASE run.end # "none" /\ next = run
      BY <2>2, <3>1 DEF Fine
    <3>2. CASE /\ run.end = "none" /\ F!Refusal(run, tx) # "none"
               /\ next.end = F!Refusal(run, tx)
      BY <2>6, <3>2 DEF Fine
    <3>3. CASE run.end = "none" /\ next.end = "none" /\ next.nonce = run.nonce + 1
      <4>1. run.nonce = nextNonce + (i - 1)
        BY <2>2, <3>3 DEF Fine
      <4>2. next.nonce = nextNonce + i
        BY <1>1, <3>3, <4>1
      <4>3. QED
        BY <3>3, <4>2 DEF Fine
    <3>4. QED
      BY <2>7, <3>1, <3>2, <3>3
  <2>9. QED
    BY <2>1, <2>2, <2>8 DEF P
<1>4. \A i \in 0..Len(waiting) : i \in P
  <2> HIDE DEF P
  <2>1. QED
    BY <1>1, <1>2, <1>3, ReachesAll
<1>5. Len(waiting) \in P
  BY <1>1, <1>4
<1>6. QED
  BY <1>5 DEF F!RunBatch, Fine

-----------------------------------------------------------------------------
(* The steps. *)

LEMMA FillInitially == F!FillAssumption /\ F!Init => FillInv
<1> SUFFICES ASSUME F!FillAssumption, F!Init PROVE FillInv
  OBVIOUS
<1>1. /\ market \in [baseFee : Fee, tip : Fee, blockBaseFee : Fee]
      /\ nextNonce = 0 /\ funds \in Nat /\ waiting = <<>> /\ filled = {}
  BY DEF F!Init, F!Market, F!FillAssumption
<1>2. MaxQueue \in Nat
  BY DEF F!FillAssumption
<1>3. QED
  BY <1>1, <1>2 DEF FillInv, InARow

(* Fees: what the caller gave, or the market's.                              *)
LEMMA FeesAre ==
  ASSUME F!FillAssumption, FillInv, NEW wanted \in F!Request,
         F!WellFormed(F!FeesFilled(wanted))
  PROVE  LET fees == F!FeesFilled(wanted)
         IN  /\ fees.maxFee \in Nat /\ fees.tip \in Nat /\ fees.tip <= fees.maxFee
             /\ F!FeesSuit(wanted) => market.blockBaseFee <= fees.maxFee
<1>1. /\ market.baseFee \in Nat /\ market.tip \in Nat /\ market.blockBaseFee \in Nat
  BY DEF FillInv, F!FillAssumption
<1>2. /\ wanted.gasPrice \in Fee \cup {Missing} /\ wanted.maxFee \in Fee \cup {Missing}
      /\ wanted.tip \in Fee \cup {Missing} /\ Fee \subseteq Nat
  BY DEF F!Request, F!FillAssumption
<1>3. CASE F!IsLegacy(wanted)
  <2>1. wanted.gasPrice \in Nat
    BY <1>2, <1>3 DEF F!IsLegacy
  <2>2. F!FeesFilled(wanted) = [maxFee |-> wanted.gasPrice, tip |-> wanted.gasPrice]
    BY <1>3 DEF F!FeesFilled
  <2>3. F!FeesSuit(wanted) => market.blockBaseFee <= wanted.gasPrice
    BY <1>1, <1>3, <2>1 DEF F!FeesSuit
  <2>4. QED
    BY <2>1, <2>2, <2>3
<1>4. CASE ~ F!IsLegacy(wanted)
  <2>1. F!FeesFilled(wanted) =
          [maxFee |-> F!MaxFeeFilled(wanted), tip |-> F!TipFilled(wanted)]
    BY <1>4 DEF F!FeesFilled
  <2>2. F!TipFilled(wanted) \in Nat
    BY <1>1, <1>2 DEF F!TipFilled, F!Or
  <2>3. CASE wanted.maxFee = Missing
    <3>1. F!MaxFeeFilled(wanted) = market.baseFee + market.tip
      BY <2>3 DEF F!MaxFeeFilled, F!Or
    <3>2. F!FeesSuit(wanted) => market.blockBaseFee <= market.baseFee + market.tip
      BY DEF F!FeesSuit
    <3>3. QED
      BY <1>1, <2>1, <2>2, <3>1, <3>2 DEF F!WellFormed
  <2>4. CASE wanted.maxFee # Missing
    <3>1. F!MaxFeeFilled(wanted) = wanted.maxFee /\ wanted.maxFee \in Nat
      BY <1>2, <2>4 DEF F!MaxFeeFilled, F!Or
    <3>2. F!FeesSuit(wanted) => market.blockBaseFee <= wanted.maxFee
      BY <1>1, <2>4, <3>1 DEF F!FeesSuit
    <3>3. QED
      BY <1>1, <2>1, <2>2, <3>1, <3>2 DEF F!WellFormed
  <2>5. QED
    BY <2>3, <2>4
<1>5. QED
  BY <1>3, <1>4

LEMMA FillStep == F!FillAssumption /\ FillInv /\ [F!Next]_(F!vars) => FillInv'
<1> SUFFICES ASSUME F!FillAssumption, FillInv, [F!Next]_(F!vars) PROVE FillInv'
  OBVIOUS
<1>1. /\ nextNonce \in Nat /\ funds \in Nat /\ filled \subseteq Filled
      /\ waiting \in Seq(Waiting) /\ Len(waiting) \in Nat /\ MaxQueue \in Nat
  BY DEF FillInv, F!FillAssumption
<1>2. ASSUME UNCHANGED <<market, nextNonce, waiting, filled>>, funds' \in Nat
      PROVE  FillInv'
  BY <1>2 DEF FillInv, InARow, Suited
<1>3. ASSUME NEW wanted \in F!Request, F!Fill(wanted) PROVE FillInv'
  <2>1. PICK fees : fees = F!FeesFilled(wanted)
    OBVIOUS
  <2>2. PICK n : n = F!PendingNonce
    OBVIOUS
  <2>3. PICK tx : tx = [nonce |-> n, maxFee |-> fees.maxFee, tip |-> fees.tip,
                        suits |-> F!FeesSuit(wanted)]
    OBVIOUS
  <2>4. /\ F!WellFormed(fees) /\ filled' = filled \cup {tx}
        /\ UNCHANGED <<market, nextNonce, funds, waiting>>
    BY <1>3, <2>1, <2>2, <2>3 DEF F!Fill
  <2>5. n \in Nat
    BY <1>1, <2>2, FillNonceExists
  <2>6. /\ fees.maxFee \in Nat /\ fees.tip \in Nat /\ fees.tip <= fees.maxFee
        /\ F!FeesSuit(wanted) => market.blockBaseFee <= fees.maxFee
    BY <2>1, <2>4, FeesAre
  <2>7. F!FeesSuit(wanted) \in BOOLEAN
    BY DEF F!FeesSuit
  <2>8. tx \in Filled /\ tx.tip <= tx.maxFee
    BY <2>3, <2>5, <2>6, <2>7 DEF Filled
  <2>9. Suited(tx)
    BY <2>3, <2>6 DEF Suited
  <2>10. filled' \subseteq Filled /\ \A x \in filled' : x.tip <= x.maxFee /\ Suited(x)'
    BY <2>4, <2>8, <2>9 DEF FillInv, Suited
  <2>11. QED
    BY <2>4, <2>10 DEF FillInv, InARow, Suited
<1>4. ASSUME NEW wanted \in F!Request, F!FillThrows(wanted) PROVE FillInv'
  BY <1>1, <1>2, <1>4 DEF F!FillThrows
<1>5. ASSUME NEW tx \in filled, F!Send(tx) PROVE FillInv'
  <2>1. PICK item : item = [nonce |-> tx.nonce, maxFee |-> tx.maxFee, tip |-> tx.tip,
                            suits |-> tx.suits, fresh |-> tx.nonce = F!PendingNonce]
    OBVIOUS
  <2>2. /\ Len(waiting) < MaxQueue /\ filled' = filled \ {tx}
        /\ waiting' = Append(waiting, item)
        /\ UNCHANGED <<market, nextNonce, funds>>
    BY <1>5, <2>1 DEF F!Send
  <2>3. tx \in Filled /\ tx.tip <= tx.maxFee /\ Suited(tx)
    BY DEF FillInv
  <2>4. item \in Waiting
    BY <2>1, <2>3 DEF Filled, Waiting
  <2>5. item.tip <= item.maxFee /\ Suited(item)
    BY <2>1, <2>3 DEF Suited
  <2>6. PICK len \in Nat : len = Len(waiting)
    BY <1>1
  <2>7. PICK longer : longer = waiting'
    OBVIOUS
  <2>8. /\ longer \in Seq(Waiting) /\ Len(longer) = len + 1
        /\ \A i \in 1..len : longer[i] = waiting[i]
        /\ longer[len + 1] = item
    BY <1>1, <2>2, <2>4, <2>6, <2>7
  <2>9. \A i \in 1..Len(longer) : longer[i].tip <= longer[i].maxFee /\ Suited(longer[i])
    <3>1. ASSUME NEW i \in 1..(len + 1)
          PROVE  longer[i].tip <= longer[i].maxFee /\ Suited(longer[i])
      <4>1. CASE i = len + 1
        BY <2>5, <2>8, <4>1
      <4>2. CASE i # len + 1
        <5>1. i \in 1..len
          BY <4>2
        <5>2. QED
          BY <2>6, <2>8, <5>1 DEF FillInv
      <4>3. QED
        BY <4>1, <4>2
    <3>2. QED
      BY <2>8, <3>1
  <2>10. ASSUME \A i \in 1..(len + 1) : longer[i].fresh, NEW i \in 1..(len + 1)
         PROVE  longer[i].nonce = nextNonce + (i - 1)
    <3>1. \A j \in 1..len : waiting[j].fresh
      BY <2>8, <2>10
    <3>2. \A j \in 1..len : waiting[j].nonce = nextNonce + (j - 1)
      BY <2>6, <3>1 DEF FillInv, InARow
    <3>3. F!PendingNonce = nextNonce + len
      BY <1>1, <2>6, <3>2, FillNonceNext
    <3>4. CASE i = len + 1
      <4>1. longer[i] = item /\ (len + 1) \in 1..(len + 1)
        BY <2>8, <3>4
      <4>2. item.fresh
        BY <2>8, <2>10, <4>1
      <4>3. item.nonce = F!PendingNonce
        BY <2>1, <4>2
      <4>4. QED
        BY <1>1, <3>3, <3>4, <4>1, <4>3
    <3>5. CASE i # len + 1
      <4>1. i \in 1..len
        BY <3>5
      <4>2. QED
        BY <2>8, <3>2, <4>1
    <3>6. QED
      BY <3>4, <3>5
  <2>11. InARow'
    BY <2>2, <2>7, <2>8, <2>10 DEF InARow
  <2>12. filled' \subseteq Filled /\ \A x \in filled' : x.tip <= x.maxFee /\ Suited(x)
    BY <2>2 DEF FillInv
  <2>13. Len(longer) <= MaxQueue
    BY <1>1, <2>2, <2>6, <2>8
  <2>14. QED
    BY <2>2, <2>7, <2>8, <2>9, <2>11, <2>12, <2>13 DEF FillInv, Suited
<1>6. ASSUME F!MineBlock PROVE FillInv'
  <2>1. /\ nextNonce' = F!RunBatch.nonce /\ funds' = F!RunBatch.balance
        /\ waiting' = <<>> /\ UNCHANGED <<market, filled>>
    BY <1>6 DEF F!MineBlock
  <2>2. Len(waiting) \in 0..Len(waiting)
    BY <1>1
  <2>3. F!RunBatch \in FillWorld
    BY <2>2, FillRunTyped DEF F!RunBatch
  <2>4. nextNonce' \in Nat /\ funds' \in Nat
    BY <2>1, <2>3 DEF FillWorld
  <2>5. QED
    BY <1>1, <2>1, <2>4 DEF FillInv, InARow, Suited
<1>7. ASSUME NEW b \in Balances, F!SetBalance(b) PROVE FillInv'
  <2>1. b \in Nat
    BY DEF F!FillAssumption
  <2>2. QED
    BY <1>2, <1>7, <2>1 DEF F!SetBalance
<1>8. CASE UNCHANGED F!vars
  BY <1>1, <1>2, <1>8 DEF F!vars
<1>9. QED
  BY <1>3, <1>4, <1>5, <1>6, <1>7, <1>8 DEF F!Next

(* For all fees, options and requests: what a client has filled in, signs and  *)
(* sends while the node still gives that nonce fails for nothing but the       *)
(* money.  Asked of the constants: fees and funds are amounts, the bounds      *)
(* numbers, and a missing field is no fee.                                   *)
THEOREM FilledTransactionsRun == F!Spec => []FilledRuns
<1>1. F!Init => FillInv
  BY FillInitially, FillingAssumption
<1>2. FillInv /\ [F!Next]_(F!vars) => FillInv'
  BY FillStep, FillingAssumption
<1>3. FillInv => FilledRuns
  BY FillTyped, FilledRunsHere, FillingAssumption DEF FilledRuns, F!FilledRuns
<1> HIDE DEF FillInv
<1>4. QED
  BY <1>1, <1>2, <1>3, PTL DEF F!Spec

-----------------------------------------------------------------------------
(* The gas limit. *)

USE PriceAssumption, EstimateAssumption

LEMMA ProductNat == \A a, b \in Nat : a * b \in Nat
  OBVIOUS

(* What is paid up front is a number, and submit knows the same one.        *)
LEMMA WordsNat ==
  ASSUME NEW r \in Request
  PROVE  Words(r) \in Nat
<1>1. /\ r.zeros \in Nat /\ r.nonZeros \in Nat
  BY DEF Request
<1> DEFINE n == r.zeros + r.nonZeros + WordSize - 1
<1>2. n \in Nat
  BY <1>1
<1>3. ASSUME NEW m \in Nat PROVE m \div WordSize \in Nat
  OBVIOUS
<1>4. n \div WordSize \in Nat
  BY <1>2, <1>3
<1>5. QED
  BY <1>4 DEF Words

LEMMA IntrinsicNat ==
  ASSUME NEW r \in Request
  PROVE  IntrinsicGasOf(r) \in Nat /\ AccessListGas(r) \in Nat
<1>1. /\ {r.zeros, r.nonZeros, r.addresses, r.keys} \subseteq Nat
      /\ r.create \in BOOLEAN
  BY DEF Request
<1>2. /\ r.zeros * ZeroByte \in Nat /\ r.nonZeros * NonZeroByte \in Nat
      /\ r.addresses * ListAddress \in Nat /\ r.keys * ListKey \in Nat
  BY <1>1, ProductNat
<1>3. Words(r) * InitWord \in Nat
  BY WordsNat, ProductNat
<1>4. CreateGas(r) \in Nat
  BY <1>3 DEF CreateGas
<1>5. QED
  BY <1>2, <1>4 DEF IntrinsicGasOf, AccessListGas

(* The tests of the search are about limits between the floor and the cap.  *)
CallOK == request \in Asked /\ code \in Behaviour

LEMMA EstimatedIsRequest ==
  ASSUME CallOK
  PROVE  Estimated \in Request
<1>1. request \in Request
  BY DEF CallOK
<1>2. WithoutList(request) \in Request
  BY <1>1 DEF WithoutList, Request
<1>3. QED
  BY <1>1, <1>2 DEF Estimated

LEMMA OverheadNat ==
  ASSUME CallOK
  PROVE  /\ Overhead \in Nat
         /\ Overhead = TransactionFloor(Estimated)
         /\ IntrinsicGasOf(Estimated) \in Nat
<1> DEFINE r == Estimated
<1>1. r \in Request
  BY EstimatedIsRequest
<1>2. /\ {r.zeros, r.nonZeros, r.addresses, r.keys} \subseteq Nat
  BY <1>1 DEF Request
<1>3. r.addresses * ListAddress \in Nat /\ r.keys * ListKey \in Nat
  BY <1>2, ProductNat
<1>4. IntrinsicGasOf(r) \in Nat /\ AccessListGas(r) \in Nat
  BY <1>1, IntrinsicNat
<1> HIDE DEF r
<1>5. TransactionFloor(r) = IntrinsicGasOf(r) + AccessListGas(r)
  BY <1>3, <1>4 DEF TransactionFloor, AccessListGas
<1>6. QED
  BY <1>4, <1>5 DEF Overhead, r

LEMMA CapNat ==
  ASSUME CallOK
  PROVE  Cap \in Nat /\ Cap <= BlockGasLimit
<1>1. request.gas \in Nat \cup {NoGas}
  BY DEF CallOK, Request
<1>2. QED
  BY <1>1 DEF Cap

(* Whatever the engine, the frame gets the budget and no more is reported.   *)
LEMMA EnginesAgree ==
  ASSUME CallOK, NEW budget \in Nat
  PROVE  FrameGas(budget) = budget /\ ExecutionGasUsed(budget) \in Nat
<1>1. IntrinsicGasOf(Estimated) \in Nat
  BY OverheadNat
<1>2. RevmFrame(budget) = budget
  BY <1>1 DEF RevmFrame, RevmLimit
<1>3. Spends(code, budget) \in Nat
  BY DEF Spends, CallOK
<1>4. RevmSpent(budget) \in Nat
  BY <1>1, <1>2, <1>3 DEF RevmSpent
<1>5. QED
  BY <1>1, <1>2, <1>3, <1>4 DEF FrameGas, ExecutionGasUsed

-----------------------------------------------------------------------------
(* The inductive invariant: what each stage of the search has established.   *)
Proven(limit) == Overhead <= limit /\ limit <= Cap /\ Works(limit)

Stage ==
  /\ pc = "consumed" => Consumed < Cap /\ Overhead <= Consumed /\ Proven(Cap)
  /\ pc = "answered" => Proven(answer)

SearchInv ==
  /\ TypeOK
  /\ Stage
  /\ WindowBrackets
  /\ RecommendedLimitMines

LEMMA InitSearch == Init => SearchInv
  BY DEF Init, SearchInv, TypeOK, Stage, WindowBrackets, RecommendedLimitMines

(* A step of the search leaves the call, and so what every limit comes to.   *)
LEMMA CallRigid ==
  ASSUME UNCHANGED call
  PROVE  /\ Overhead' = Overhead
         /\ Cap' = Cap
         /\ Consumed' = Consumed
         /\ \A limit : Works(limit)' = Works(limit)
  BY DEF call, Overhead, Estimated, Cap, Consumed, Works, ExecutionGasUsed,
         FrameGas, RevmFrame, RevmLimit, RevmSpent

LEMMA NextSearch == SearchInv /\ [Next]_vars => SearchInv'
<1> SUFFICES ASSUME SearchInv, [Next]_vars PROVE SearchInv'
  OBVIOUS
<1>1. CallOK
  BY DEF SearchInv, TypeOK, CallOK
<1>2. Overhead \in Nat /\ Cap \in Nat /\ Cap <= BlockGasLimit
  BY <1>1, OverheadNat, CapNat
<1>3. UNCHANGED call
  BY DEF Next, Search, CapTooLow, TopFails, TopNeedsAll, TopMeasures,
         ConsumptionIsEnough, ConsumptionFails, BracketFails, BracketFound,
         BracketEnds, Bisect, BisectEnds, SendTransaction, Return, Refuse, Goto,
         vars, call
<1>4. /\ Overhead' = Overhead
      /\ Cap' = Cap
      /\ Consumed' = Consumed
      /\ \A limit : Works(limit)' = Works(limit)
  BY <1>3, CallRigid
<1>5. Cap >= Overhead => Consumed \in Nat /\ Consumed >= Overhead
  <2> SUFFICES ASSUME Cap >= Overhead
               PROVE  Consumed \in Nat /\ Consumed >= Overhead
    OBVIOUS
  <2>1. ExecutionGasUsed(Cap - Overhead) \in Nat
    BY <1>1, <1>2, EnginesAgree
  <2>2. QED
    BY <1>2, <2>1 DEF Consumed
<1>6. FirstStep \in Nat \ {0} \/ ~ Cap >= Overhead
  <2>1. ASSUME NEW n \in Nat PROVE n \div Divisor \in Nat
    OBVIOUS
  <2>2. QED
    BY <1>5, <2>1 DEF FirstStep
<1> DEFINE Inv == SearchInv
<1>7. CASE CapTooLow
  BY <1>3, <1>7 DEF SearchInv, TypeOK, Stage, WindowBrackets,
     RecommendedLimitMines, CapTooLow, Refuse, Goto, call, Ends
<1>8. CASE TopFails
  BY <1>3, <1>8 DEF SearchInv, TypeOK, Stage, WindowBrackets,
     RecommendedLimitMines, TopFails, Refuse, Goto, call, Ends
<1>9. CASE TopNeedsAll
  <2>1. Proven(answer)'
    BY <1>2, <1>4, <1>9 DEF TopNeedsAll, Return, Proven
  <2>2. QED
    BY <1>2, <1>3, <1>9, <2>1 DEF SearchInv, TypeOK, Stage, WindowBrackets,
       RecommendedLimitMines, TopNeedsAll, Return, Goto, call, Ends
<1>10. CASE TopMeasures
  <2>1. Consumed' < Cap' /\ Overhead' <= Consumed' /\ Proven(Cap)'
    BY <1>2, <1>4, <1>5, <1>10 DEF TopMeasures, Proven
  <2>2. QED
    BY <1>3, <1>10, <2>1 DEF SearchInv, TypeOK, Stage, WindowBrackets,
       RecommendedLimitMines, TopMeasures, Goto, call, Ends
<1>11. CASE ConsumptionIsEnough
  <2>1. Overhead <= Consumed /\ Consumed < Cap /\ Consumed \in Nat
    BY <1>2, <1>5, <1>11 DEF ConsumptionIsEnough, SearchInv, Stage, Proven
  <2>2. Proven(answer)'
    BY <1>2, <1>4, <1>11, <2>1
       DEF ConsumptionIsEnough, ConsumptionWorks, Return, Proven
  <2>3. QED
    BY <1>3, <1>11, <2>1, <2>2 DEF SearchInv, TypeOK, Stage, WindowBrackets,
       RecommendedLimitMines, ConsumptionIsEnough, Return, Goto, call, Ends
<1>12. CASE ConsumptionFails
  <2>1. /\ Overhead <= Consumed /\ Consumed < Cap /\ Consumed \in Nat
        /\ Proven(Cap)
        /\ FirstStep \in Nat \ {0}
    BY <1>2, <1>5, <1>6, <1>12 DEF ConsumptionFails, SearchInv, Stage, Proven
  <2>2. WindowBrackets'
    BY <1>2, <1>4, <1>12, <2>1
       DEF ConsumptionFails, ConsumptionWorks, WindowBrackets, Proven
  <2>3. QED
    BY <1>2, <1>3, <1>12, <2>1, <2>2 DEF SearchInv, TypeOK, Stage,
       RecommendedLimitMines, ConsumptionFails, Goto, call, Ends
<1>13. CASE BracketFails
  <2>1. low + step \in Nat /\ NextStep \in Nat \ {0} /\ high \in Nat
    BY DEF SearchInv, TypeOK, NextStep
  <2>2. WindowBrackets'
    BY <1>2, <1>4, <1>13, <2>1 DEF BracketFails, Bracketing, WindowBrackets,
       SearchInv, TypeOK, Goto
  <2>3. QED
    BY <1>3, <1>13, <2>1, <2>2 DEF SearchInv, TypeOK, Stage,
       RecommendedLimitMines, BracketFails, Goto, call, Ends
<1>14. CASE BracketFound
  <2>1. low + step \in Nat /\ high \in Nat /\ low < low + step
    BY DEF SearchInv, TypeOK
  <2>2. WindowBrackets'
    BY <1>2, <1>4, <1>14, <2>1 DEF BracketFound, Bracketing, WindowBrackets,
       SearchInv, TypeOK, Goto
  <2>3. QED
    BY <1>3, <1>14, <2>1, <2>2 DEF SearchInv, TypeOK, Stage,
       RecommendedLimitMines, BracketFound, Goto, call, Ends
<1>15. CASE BracketEnds
  BY <1>3, <1>4, <1>15 DEF SearchInv, TypeOK, Stage, WindowBrackets,
     RecommendedLimitMines, BracketEnds, Goto, call, Ends
<1>16. CASE Bisect
  <2>1. /\ Mid \in Nat /\ high \in Nat /\ low \in Nat
        /\ low < Mid /\ Mid < high
    BY <1>16 DEF Bisect, Bisecting, Mid, SearchInv, TypeOK
  <2>2. WindowBrackets'
    BY <1>2, <1>4, <1>16, <2>1 DEF Bisect, WindowBrackets, SearchInv, Goto
  <2>3. QED
    BY <1>3, <1>16, <2>1, <2>2 DEF SearchInv, TypeOK, Stage, Counted,
       RecommendedLimitMines, Bisect, Goto, call, Ends
<1>17. CASE BisectEnds
  <2>1. Proven(answer)'
    BY <1>2, <1>4, <1>17 DEF BisectEnds, Return, ProvenEnd, Proven, SearchInv,
       TypeOK, WindowBrackets
  <2>2. QED
    BY <1>3, <1>17, <2>1 DEF SearchInv, TypeOK, Stage, WindowBrackets, ProvenEnd,
       RecommendedLimitMines, BisectEnds, Return, Goto, call, Ends
<1>18. CASE SendTransaction
  <2>1. Proven(answer) /\ answer \in Nat
    BY <1>18 DEF SendTransaction, SearchInv, Stage, TypeOK
  <2>2. Overhead = TransactionFloor(Estimated)
    BY <1>1, OverheadNat
  <2>3. ~ OverBlockGasLimit(answer) /\ ~ BelowIntrinsicGas(answer)
    BY <1>2, <2>1, <2>2 DEF Proven, OverBlockGasLimit, BelowIntrinsicGas
  <2>4. FrameGas(answer - Overhead) = answer - Overhead
    BY <1>1, <1>2, <2>1, EnginesAgree DEF Proven
  <2>5. MinedOk(answer)
    BY <2>1, <2>2, <2>4 DEF Proven, Works, MinedOk
  <2>6. pc' = "minedOk"
    BY <1>18, <2>3, <2>5 DEF SendTransaction, Goto
  <2>7. QED
    BY <1>3, <1>18, <2>6 DEF SearchInv, TypeOK, Stage, WindowBrackets,
       RecommendedLimitMines, SendTransaction, call, Ends
<1>19. CASE UNCHANGED vars
  BY <1>3, <1>4, <1>19 DEF SearchInv, TypeOK, Stage, WindowBrackets, Proven,
     RecommendedLimitMines, vars, call
<1>20. QED
  BY <1>7, <1>8, <1>9, <1>10, <1>11, <1>12, <1>13, <1>14, <1>15, <1>16, <1>17,
     <1>18, <1>19 DEF Next, Search

(* The search's claims hold throughout, for every behaviour of the code.     *)
THEOREM SearchCorrect == Spec => []SearchInv
<1>1. QED
  BY InitSearch, NextSearch, PTL DEF Spec

(* TypeOK: every variable of the search stays a number of the right kind.    *)
THEOREM EstimateTypeCorrect == Spec => []TypeOK
<1>1. SearchInv => TypeOK
  BY DEF SearchInv
<1>2. QED
  BY <1>1, SearchCorrect, PTL

(* "`low` FAILS and `high` SUCCEEDS at every point".                          *)
THEOREM WindowAlwaysBrackets == Spec => []WindowBrackets
<1>1. SearchInv => WindowBrackets
  BY DEF SearchInv
<1>2. QED
  BY <1>1, SearchCorrect, PTL

(* The limit the node recommends, or fills in, it admits and mines.          *)
THEOREM RecommendationsMine == Spec => []RecommendedLimitMines
<1>1. SearchInv => RecommendedLimitMines
  BY DEF SearchInv
<1>2. QED
  BY <1>1, SearchCorrect, PTL

-----------------------------------------------------------------------------
(* The answer is the least it can be, and what it cost. *)

(* Every probe is an execution, and two more come before the first probe.    *)
Costs ==
  /\ pc = "start" => runs = 0
  /\ pc = "consumed" => runs = 1
  /\ pc \in {"bracket", "bisect"} => runs = probes + 2 /\ probes <= MaxProbes
  /\ pc \in Ends => runs <= MaxProbes + 2

ExactInv == SearchInv /\ Costs /\ AnswerIsLeast

(* A property that passes from each number to the next, up to n, and fails   *)
(* at n, fails at every number from m to n: the greatest number at which it *)
(* held would pass it on.                                                   *)
LEMMA FailsBelow ==
  ASSUME NEW P, NEW m \in Nat, NEW n \in Nat,
         \A i \in m..(n - 1) : i \in P => i + 1 \in P,
         n \notin P, NEW k \in m..n
  PROVE  k \notin P
<1> SUFFICES ASSUME k \in P PROVE FALSE
  OBVIOUS
<1> DEFINE T == {j \in Nat : j <= n - k /\ n - j \in P}
           R == {e \in Nat \X Nat : e[1] < e[2]}
<1>1. n - k \in T
  <2>1. n - (n - k) = k /\ n - k \in Nat /\ n - k <= n - k
    OBVIOUS
  <2>2. n - (n - k) \in P
    BY <2>1
  <2>3. QED
    BY <2>1, <2>2
<1>2. PICK x \in T : \A y \in T : ~ (<<y, x>> \in R)
  <2>1. IsWellFoundedOn(R, Nat)
    BY NatLessThanWellFounded DEF OpToRel
  <2>2. T \subseteq Nat /\ T # {}
    BY <1>1
  <2> HIDE DEF T, R
  <2>3. QED
    BY <2>1, <2>2, WFMin
<1>3. x \in Nat /\ x <= n - k /\ n - x \in P
  OBVIOUS
<1>4. x # 0
  BY <1>3
<1>5. n - x \in m..(n - 1)
  BY <1>3, <1>4
<1>6. (n - x) + 1 \in P
  BY <1>3, <1>5
<1>7. (n - x) + 1 = n - (x - 1) /\ x - 1 \in Nat /\ x - 1 <= n - k /\ x - 1 < x
  BY <1>3, <1>4
<1>8. x - 1 \in T
  BY <1>6, <1>7
<1>9. <<x - 1, x>> \in R
  BY <1>3, <1>7
<1>10. QED
  BY <1>2, <1>8, <1>9

(* The least limit of an ordinary transaction, in the bisection.            *)
LEMMA WindowClosedIsLeast ==
  ASSUME CallOK, NEW n \in Nat, n <= Cap - 1, Overhead <= n,
         ~ Works(n), Ordinary
  PROVE  \A limit \in Overhead..n : ~ Works(limit)
<1> DEFINE P == {i \in Nat : Works(i)}
<1>1. Overhead \in Nat /\ Cap \in Nat
  BY OverheadNat, CapNat
<1>2. \A i \in Overhead..(n - 1) : i \in P => i + 1 \in P
  <2>1. ASSUME NEW i \in Overhead..(n - 1), Works(i) PROVE Works(i + 1)
    <3>1. i \in Overhead..(Cap - 1)
      BY <1>1
    <3>2. QED
      BY <2>1, <3>1 DEF Ordinary
  <2>2. \A i \in Overhead..(n - 1) : i + 1 \in Nat
    BY <1>1
  <2>3. QED
    BY <2>1, <2>2
<1>3. n \notin P
  OBVIOUS
<1> HIDE DEF P
<1>4. \A k \in Overhead..n : k \notin P
  BY <1>1, <1>2, <1>3, FailsBelow
<1>5. QED
  BY <1>1, <1>4 DEF P

LEMMA InitExact == Init => ExactInv
<1>1. Init => Costs /\ AnswerIsLeast
  BY DEF Init, Costs, AnswerIsLeast, Answered, Ends
<1>2. QED
  BY <1>1, InitSearch DEF ExactInv

(* The executions are counted.                                              *)
LEMMA NextCosts == SearchInv /\ Costs /\ [Next]_vars => Costs'
<1> SUFFICES ASSUME SearchInv, Costs, [Next]_vars PROVE Costs'
  OBVIOUS
<1>1. probes \in Nat /\ runs \in Nat /\ MaxProbes \in Nat
  BY DEF SearchInv, TypeOK
<1>2. CASE CapTooLow \/ TopFails \/ TopNeedsAll \/ TopMeasures
  BY <1>1, <1>2 DEF Costs, Ends, CapTooLow, TopFails, TopNeedsAll, TopMeasures,
     Return, Refuse, Goto
<1>3. CASE ConsumptionIsEnough \/ ConsumptionFails
  BY <1>1, <1>3 DEF Costs, Ends, ConsumptionIsEnough, ConsumptionFails, Return,
     Goto
<1>4. CASE BracketFails \/ BracketFound \/ BracketEnds
  BY <1>1, <1>4 DEF Costs, Ends, BracketFails, BracketFound, BracketEnds,
     Bracketing, Goto
<1>5. CASE Bisect \/ BisectEnds
  BY <1>1, <1>5 DEF Costs, Ends, Bisect, BisectEnds, Bisecting, Counted, Return,
     Goto
<1>6. CASE SendTransaction
  BY <1>1, <1>6 DEF Costs, Ends, SendTransaction, Goto
<1>7. CASE UNCHANGED vars
  BY <1>7 DEF Costs, Ends, vars
<1>8. QED
  BY <1>2, <1>3, <1>4, <1>5, <1>6, <1>7 DEF Next, Search

(* What the search answers is least: it needed everything it was given, or   *)
(* it is what the first run consumed, or the limit just below it failed.     *)
LEMMA NextLeast == ExactInv /\ [Next]_vars => AnswerIsLeast'
<1> SUFFICES ASSUME ExactInv, [Next]_vars, Answered', Ordinary',
                    (probes < MaxProbes)'
             PROVE  \A limit \in (Overhead..(answer - 1))' : ~ Works(limit)'
  BY DEF AnswerIsLeast
<1>1. CallOK /\ Overhead \in Nat /\ Cap \in Nat
  <2>1. CallOK
    BY DEF ExactInv, SearchInv, TypeOK, CallOK
  <2>2. QED
    BY <2>1, OverheadNat, CapNat
<1>2. UNCHANGED call
  BY DEF Next, Search, CapTooLow, TopFails, TopNeedsAll, TopMeasures,
         ConsumptionIsEnough, ConsumptionFails, BracketFails, BracketFound,
         BracketEnds, Bisect, BisectEnds, SendTransaction, Return, Refuse, Goto,
         vars, call
<1>3. /\ Overhead' = Overhead
      /\ Cap' = Cap
      /\ Consumed' = Consumed
      /\ \A limit : Works(limit)' = Works(limit)
  BY <1>2, CallRigid
<1>4. Ordinary
  BY <1>3 DEF Ordinary
<1>5. SUFFICES \A limit \in Overhead..(answer' - 1) : ~ Works(limit)
  BY <1>3
<1>6. Cap >= Overhead => Consumed \in Nat
  <2> SUFFICES ASSUME Cap >= Overhead PROVE Consumed \in Nat
    OBVIOUS
  <2>1. ExecutionGasUsed(Cap - Overhead) \in Nat
    BY <1>1, EnginesAgree
  <2>2. QED
    BY <1>1, <2>1 DEF Consumed
<1>7. CASE TopNeedsAll
  <2>1. answer' = Cap /\ Consumed >= Cap /\ Consumed \in Nat
    BY <1>6, <1>7 DEF TopNeedsAll, Return
  <2>2. \A limit \in Overhead..(Cap - 1) : limit \in Overhead..(Consumed - 1)
    BY <1>1, <2>1
  <2>3. QED
    BY <1>4, <2>1, <2>2 DEF Ordinary
<1>8. CASE ConsumptionIsEnough
  BY <1>4, <1>8 DEF ConsumptionIsEnough, Return, Ordinary
<1>9. CASE BisectEnds
  <2>1. answer' = high /\ ~ Bisecting /\ probes < MaxProbes
    BY <1>9 DEF BisectEnds, Return, ProvenEnd
  <2>2. /\ low \in Nat /\ high \in Nat
        /\ Overhead <= low /\ low < high /\ high <= Cap /\ ~ Works(low)
    BY <1>9 DEF BisectEnds, ExactInv, SearchInv, TypeOK, WindowBrackets
  <2>3. high - 1 = low /\ low <= Cap - 1
    BY <1>1, <2>1, <2>2 DEF Bisecting
  <2>4. \A limit \in Overhead..low : ~ Works(limit)
    BY <1>1, <1>4, <2>2, <2>3, WindowClosedIsLeast
  <2>5. QED
    BY <2>1, <2>3, <2>4
<1>10. CASE SendTransaction \/ UNCHANGED vars
  <2>1. Answered /\ answer' = answer /\ probes < MaxProbes
    BY <1>10 DEF SendTransaction, Goto, Answered, vars
  <2>2. QED
    BY <1>4, <2>1 DEF ExactInv, AnswerIsLeast
<1>11. CASE CapTooLow \/ TopFails \/ TopMeasures \/ ConsumptionFails
            \/ BracketFails \/ BracketFound \/ BracketEnds \/ Bisect
  BY <1>11 DEF CapTooLow, TopFails, TopMeasures, ConsumptionFails, BracketFails,
     BracketFound, BracketEnds, Bisect, Refuse, Goto, Answered
<1>12. QED
  BY <1>7, <1>8, <1>9, <1>10, <1>11 DEF Next, Search

(* For a transaction that does not look at its gas the answer is the least   *)
(* limit that works unless the probes ran out, and no answer costs more than *)
(* MAX_ESTIMATE_PROBES executions after "the two it always spends"          *)
(* (estimateGas of node.ts).                                                *)
THEOREM AnswersExact == Spec => []AnswerExact
<1>1. ExactInv /\ [Next]_vars => ExactInv'
  BY NextSearch, NextCosts, NextLeast DEF ExactInv
<1>2. ExactInv => AnswerExact
  <2>1. SearchInv /\ Costs => CostBounded
    <3>1. SearchInv => probes \in Nat /\ MaxProbes \in Nat /\ pc \in
            {"start", "consumed", "bracket", "bisect"} \cup Ends
      BY DEF SearchInv, TypeOK
    <3>2. QED
      BY <3>1 DEF Costs, CostBounded
  <2>2. QED
    BY <2>1 DEF ExactInv, AnswerExact, SearchInv
<1>3. QED
  BY <1>1, <1>2, InitExact, PTL DEF Spec
=============================================================================
