------------------------- MODULE StateHistoryProofs -------------------------
(* The bounded history is exact: for every set of keys and values, every    *)
(* window and numbering, and through any number of dumps and reloads, a      *)
(* block the node serves reads as the state that block ended in.            *)
EXTENDS StateHistory, WellFoundedInduction, TLAPS

-----------------------------------------------------------------------------
(* What a step does not disturb: the log in terms of its numbers. *)

(* Numbers of the log grow at least as fast as its indices.                 *)
Spread(records) ==
  \A i, j \in DOMAIN records :
    i <= j => records[j].number - records[i].number >= j - i

(* The newest entry of the log is the head's.                               *)
EndsAt(records, head) ==
  records # <<>> => records[Len(records)].number = head

(* The log has the entry of every block up to the head, and no other.        *)
Contiguous(records, head) ==
  \A i \in DOMAIN records : records[i].number = head - (Len(records) - i)

(* r is what is left of records when the first d entries go.                 *)
IsSuffix(r, records, d) ==
  /\ r \in Seq(Record)
  /\ d \in 0..Len(records)
  /\ Len(r) = Len(records) - d
  /\ \A i \in 1..Len(r) : r[i] = records[i + d]

-----------------------------------------------------------------------------
(* Reading a log. *)

(* A non-empty set of indices has a least element.                          *)
LEMMA LeastExists ==
  ASSUME NEW n \in Nat, NEW S \in SUBSET (1..n), S # {}
  PROVE  /\ Least(S) \in S
         /\ \A y \in S : Least(S) <= y
<1> DEFINE R == {e \in Nat \X Nat : e[1] < e[2]}
<1>1. IsWellFoundedOn(R, Nat)
  BY NatLessThanWellFounded DEF OpToRel
<1>2. PICK m \in S : \A k \in S : ~ (<<k, m>> \in R)
  <2>1. S \subseteq Nat
    OBVIOUS
  <2> HIDE DEF R
  <2>2. QED
    BY <1>1, <2>1, WFMin
<1>3. ASSUME NEW k \in S PROVE m <= k
  <2>1. k \in Nat /\ m \in Nat
    OBVIOUS
  <2>2. ~ (<<k, m>> \in R)
    BY <1>2
  <2>3. QED
    BY <2>1, <2>2
<1>4. QED
  BY <1>3 DEF Least

(* The entries a read can take are indices of the log.                       *)
LEMMA NamingIndices ==
  ASSUME NEW records \in Seq(Record), NEW n, NEW k
  PROVE  Naming(records, n, k) \in SUBSET (1..Len(records))
BY DEF Naming

(* The first entry that names the key answers.                              *)
LEMMA FirstNamingAnswers ==
  ASSUME NEW records \in Seq(Record), NEW open, NEW state, NEW n, NEW k,
         NEW i \in Naming(records, n, k),
         \A j \in Naming(records, n, k) : i <= j
  PROVE  ValueAt(records, open, state, n, k) = records[i].changes[k]
<1> DEFINE N == Naming(records, n, k)
<1>1. N \in SUBSET (1..Len(records)) /\ N # {} /\ Len(records) \in Nat
  BY NamingIndices
<1>2. Least(N) \in N /\ \A y \in N : Least(N) <= y
  <2> HIDE DEF N
  <2>1. QED
    BY <1>1, LeastExists
<1>3. Least(N) = i
  <2>1. Least(N) <= i /\ i <= Least(N)
    BY <1>2
  <2>2. Least(N) \in Int /\ i \in Int
    BY <1>1, <1>2
  <2>3. QED
    BY <2>1, <2>2
<1>4. QED
  BY <1>1, <1>3 DEF ValueAt

(* A read meets an entry that names the key first, or none.                  *)
LEMMA ReadCases ==
  ASSUME NEW records \in Seq(Record), NEW n, NEW k
  PROVE  \/ Naming(records, n, k) = {}
         \/ \E i \in Naming(records, n, k) : \A j \in Naming(records, n, k) : i <= j
<1> DEFINE N == Naming(records, n, k)
<1>1. N \in SUBSET (1..Len(records)) /\ Len(records) \in Nat
  BY NamingIndices
<1> HIDE DEF N
<1>2. N = {} \/ \E i \in N : \A j \in N : i <= j
  BY <1>1, LeastExists
<1>3. QED
  BY <1>2 DEF N

LEMMA UnnamedReads ==
  ASSUME NEW records, NEW open, NEW state, NEW n, NEW k,
         Naming(records, n, k) = {}
  PROVE  ValueAt(records, open, state, n, k) = KeepOlder(open[k], state[k])
BY DEF ValueAt

(* Two logs read alike when their naming entries correspond, in order.       *)
LEMMA SuffixReads ==
  ASSUME NEW records \in Seq(Record), NEW r, NEW d, IsSuffix(r, records, d),
         NEW n \in Int, \A i \in 1..d : records[i].number <= n,
         NEW open, NEW state, NEW k
  PROVE  ValueAt(r, open, state, n, k) = ValueAt(records, open, state, n, k)
<1>1. /\ r \in Seq(Record) /\ d \in 0..Len(records) /\ d \in Nat
      /\ Len(r) = Len(records) - d /\ Len(records) \in Nat
      /\ \A i \in 1..Len(r) : r[i] = records[i + d]
  BY DEF IsSuffix
<1>2. ASSUME NEW i \in 1..Len(r)
      PROVE  i \in Naming(r, n, k) <=> i + d \in Naming(records, n, k)
  BY <1>1 DEF Naming
<1>3. ASSUME NEW j \in Naming(records, n, k)
      PROVE  j - d \in Naming(r, n, k) /\ j \in Int
  <2>1. j \in 1..Len(records) /\ records[j].number > n
    BY DEF Naming
  <2>2. records[j].number \in Int
    <3>1. records[j] \in Record
      BY <2>1
    <3>2. QED
      BY <3>1, HistoryAssumption DEF Record, BlockNumber
  <2>3. j \notin 1..d
    BY <2>1, <2>2
  <2>4. j - d \in 1..Len(r) /\ (j - d) + d = j
    BY <2>1, <2>3, <1>1
  <2>5. QED
    BY <2>4, <1>2, <2>1
<1>4. CASE Naming(r, n, k) = {}
  <2>1. Naming(records, n, k) = {}
    BY <1>3, <1>4
  <2>2. QED
    BY <2>1, <1>4, UnnamedReads
<1>5. CASE Naming(r, n, k) # {}
  <2>1. PICK i \in Naming(r, n, k) : \A j \in Naming(r, n, k) : i <= j
    BY <1>5, <1>1, ReadCases
  <2>2. i \in 1..Len(r) /\ i + d \in Naming(records, n, k)
    BY <2>1, <1>1, <1>2, NamingIndices
  <2>3. ASSUME NEW j \in Naming(records, n, k)
        PROVE  i + d <= j
    <3>1. j - d \in Naming(r, n, k) /\ j \in Int
      BY <1>3
    <3>2. i <= j - d
      BY <3>1, <2>1
    <3>3. QED
      BY <3>1, <3>2, <2>2, <1>1
  <2>4. ValueAt(r, open, state, n, k) = r[i].changes[k]
    BY <2>1, <1>1, FirstNamingAnswers
  <2>5. ValueAt(records, open, state, n, k) = records[i + d].changes[k]
    <3> DEFINE e == i + d
    <3>1. e \in Naming(records, n, k) /\ \A j \in Naming(records, n, k) : e <= j
      BY <2>2, <2>3
    <3> HIDE DEF e
    <3>2. ValueAt(records, open, state, n, k) = records[e].changes[k]
      BY <3>1, FirstNamingAnswers
    <3>3. QED
      BY <3>2 DEF e
  <2>6. QED
    BY <2>4, <2>5, <2>2, <1>1
<1>6. QED
  BY <1>4, <1>5

-----------------------------------------------------------------------------
(* Folding the open record into the log. *)

LEMMA EntryType ==
  ASSUME NEW records \in Seq(Record), NEW i \in 1..Len(records)
  PROVE  /\ records[i] \in Record
         /\ records[i].number \in BlockNumber
         /\ records[i].number \in Int
         /\ records[i].changes \in Changes
<1>1. records[i] \in Record
  OBVIOUS
<1>2. BlockNumber \subseteq Int
  BY HistoryAssumption DEF BlockNumber
<1>3. QED
  BY <1>1, <1>2 DEF Record

LEMMA MergeFacts ==
  ASSUME NEW older \in Changes, NEW newer \in Changes
  PROVE  /\ MergeOlderWins(older, newer) \in Changes
         /\ \A k \in Key : MergeOlderWins(older, newer)[k] = KeepOlder(older[k], newer[k])
BY DEF MergeOlderWins, Changes, KeepOlder

(* The log with its newest entry merged with `open`.                        *)
FoldedInto(records, open) ==
  [records EXCEPT ![Len(records)].changes = MergeOlderWins(@, open)]

LEMMA FoldFacts ==
  ASSUME NEW records \in Seq(Record), records # <<>>, NEW open \in Changes
  PROVE  LET n == Len(records)
             r == FoldedInto(records, open)
         IN  /\ r \in Seq(Record)
             /\ Len(r) = n
             /\ n \in 1..n
             /\ \A i \in 1..n : r[i].number = records[i].number
             /\ \A i \in 1..n : i # n => r[i] = records[i]
             /\ r[n].changes = MergeOlderWins(records[n].changes, open)
<1> DEFINE n == Len(records)
           merged == MergeOlderWins(records[n].changes, open)
           e == [records[n] EXCEPT !.changes = merged]
<1>1. n \in Nat /\ n \in 1..n
  OBVIOUS
<1>2. records[n] \in Record /\ records[n].changes \in Changes
  BY <1>1, EntryType
<1>3. merged \in Changes
  BY <1>2, MergeFacts
<1>4. e \in Record /\ e.number = records[n].number /\ e.changes = merged
  <2> HIDE DEF merged
  <2>1. QED
    BY <1>2, <1>3 DEF Record
<1>5. FoldedInto(records, open) = [records EXCEPT ![n] = e]
  BY DEF FoldedInto
<1> HIDE DEF e, merged
<1>6. /\ [records EXCEPT ![n] = e] \in Seq(Record)
      /\ Len([records EXCEPT ![n] = e]) = n
      /\ [records EXCEPT ![n] = e][n] = e
      /\ \A i \in 1..n : i # n => [records EXCEPT ![n] = e][i] = records[i]
  BY <1>1, <1>4
<1>7. QED
  BY <1>1, <1>4, <1>5, <1>6 DEF merged

(* A read of a block before the newest entry is the same before and after    *)
(* the open record is folded into that entry.                               *)
LEMMA FoldReads ==
  ASSUME NEW records \in Seq(Record), records # <<>>, NEW open \in Changes,
         NEW n \in Int, n < records[Len(records)].number,
         NEW state, NEW k \in Key
  PROVE  ValueAt(FoldedInto(records, open), NoChanges, state, n, k)
           = ValueAt(records, open, state, n, k)
<1> DEFINE r == FoldedInto(records, open)
           N == Len(records)
<1>1. /\ r \in Seq(Record) /\ Len(r) = N /\ N \in 1..N /\ N \in Nat
      /\ \A i \in 1..N : r[i].number = records[i].number
      /\ \A i \in 1..N : i # N => r[i] = records[i]
      /\ r[N].changes[k] = KeepOlder(records[N].changes[k], open[k])
  <2>1. N \in 1..N /\ N \in Nat
    OBVIOUS
  <2>2. records[N].changes \in Changes
    BY <2>1, EntryType
  <2>3. r[N].changes = MergeOlderWins(records[N].changes, open)
    BY FoldFacts
  <2>4. MergeOlderWins(records[N].changes, open)[k] = KeepOlder(records[N].changes[k], open[k])
    BY <2>2, MergeFacts
  <2>5. /\ r \in Seq(Record) /\ Len(r) = N
        /\ \A i \in 1..N : r[i].number = records[i].number
        /\ \A i \in 1..N : i # N => r[i] = records[i]
    BY FoldFacts
  <2>6. QED
    BY <2>1, <2>3, <2>4, <2>5
<1> HIDE DEF r
<1>2. ASSUME NEW i \in 1..N, i # N
      PROVE  i \in Naming(r, n, k) <=> i \in Naming(records, n, k)
  BY <1>1, <1>2 DEF Naming
<1>3. Naming(r, n, k) \in SUBSET (1..N) /\ Naming(records, n, k) \in SUBSET (1..N)
  BY <1>1, NamingIndices
<1>4. ASSUME NEW i \in Naming(records, n, k), i # N,
             \A j \in Naming(records, n, k) : i <= j
      PROVE  ValueAt(r, NoChanges, state, n, k) = ValueAt(records, open, state, n, k)
  <2>1. i \in Naming(r, n, k) /\ i \in 1..N
    BY <1>2, <1>3, <1>4
  <2>2. \A j \in Naming(r, n, k) : i <= j
    BY <1>1, <1>2, <1>3, <1>4
  <2>3. ValueAt(r, NoChanges, state, n, k) = r[i].changes[k]
    BY <1>1, <2>1, <2>2, FirstNamingAnswers
  <2>4. ValueAt(records, open, state, n, k) = records[i].changes[k]
    BY <1>4, FirstNamingAnswers
  <2>5. QED
    BY <2>1, <2>3, <2>4, <1>1, <1>4
<1>5. CASE records[N].changes[k] # NotRecorded
  <2>1. N \in Naming(records, n, k) /\ N \in Naming(r, n, k)
    BY <1>1, <1>5 DEF Naming, KeepOlder
  <2>2. PICK i \in Naming(records, n, k) : \A j \in Naming(records, n, k) : i <= j
    BY <2>1, ReadCases
  <2>3. CASE i # N
    BY <2>2, <2>3, <1>4 DEF r
  <2>4. CASE i = N
    <3>1. \A j \in Naming(records, n, k) : j = N
      BY <2>2, <2>4, <1>3, <1>1
    <3>2. \A j \in Naming(r, n, k) : j = N
      BY <3>1, <1>2, <1>3
    <3>3. \A j \in Naming(r, n, k) : N <= j
      BY <3>2, <1>1
    <3>4. ValueAt(r, NoChanges, state, n, k) = r[N].changes[k]
      BY <2>1, <3>3, <1>1, FirstNamingAnswers
    <3>5. ValueAt(records, open, state, n, k) = records[N].changes[k]
      BY <2>2, <2>4, FirstNamingAnswers
    <3>6. QED
      BY <3>4, <3>5, <1>1, <1>5 DEF KeepOlder, r
  <2>5. QED
    BY <2>3, <2>4
<1>6. CASE records[N].changes[k] = NotRecorded
  <2>1. N \notin Naming(records, n, k)
    BY <1>6 DEF Naming
  <2>2. CASE Naming(records, n, k) # {}
    <3>1. PICK i \in Naming(records, n, k) : \A j \in Naming(records, n, k) : i <= j
      BY <2>2, ReadCases
    <3>2. i # N
      BY <2>1
    <3>3. QED
      BY <3>1, <3>2, <1>4 DEF r
  <2>3. CASE Naming(records, n, k) = {}
    <3>1. ValueAt(records, open, state, n, k) = KeepOlder(open[k], state[k])
      BY <2>3, UnnamedReads
    <3>2. \A j \in Naming(r, n, k) : j = N
      BY <2>3, <1>2, <1>3
    <3>3. r[N].changes[k] = open[k]
      BY <1>1, <1>6 DEF KeepOlder
    <3>4. CASE open[k] # NotRecorded
      <4>1. N \in Naming(r, n, k)
        BY <3>3, <3>4, <1>1 DEF Naming
      <4>2. \A j \in Naming(r, n, k) : N <= j
        BY <3>2, <1>1
      <4>3. ValueAt(r, NoChanges, state, n, k) = r[N].changes[k]
        BY <4>1, <4>2, <1>1, FirstNamingAnswers
      <4>4. QED
        BY <4>3, <3>1, <3>3, <3>4 DEF KeepOlder, r
    <3>5. CASE open[k] = NotRecorded
      <4>1. N \notin Naming(r, n, k)
        BY <3>3, <3>5 DEF Naming
      <4>2. Naming(r, n, k) = {}
        BY <4>1, <3>2
      <4>3. ValueAt(r, NoChanges, state, n, k) = KeepOlder(NoChanges[k], state[k])
        BY <4>2, UnnamedReads
      <4>4. QED
        BY <4>3, <3>1, <3>5 DEF KeepOlder, NoChanges, r
    <3>6. QED
      BY <3>4, <3>5
  <2>4. QED
    BY <2>2, <2>3
<1>7. QED
  BY <1>5, <1>6 DEF r

(* The same when the open record becomes an entry of its own.                *)
LEMMA AppendReads ==
  ASSUME NEW records \in Seq(Record), NEW open \in Changes,
         NEW number \in BlockNumber,
         NEW n \in Int, n < number,
         NEW state, NEW k \in Key
  PROVE  LET r == Append(records, [number |-> number, changes |-> open])
         IN  ValueAt(r, NoChanges, state, n, k) = ValueAt(records, open, state, n, k)
<1> DEFINE e == [number |-> number, changes |-> open]
           r == Append(records, e)
           N == Len(records)
<1>1. e \in Record /\ e.number = number /\ e.changes = open
  BY DEF Record
<1> HIDE DEF e
<1>2. /\ r \in Seq(Record) /\ Len(r) = N + 1 /\ N \in Nat
      /\ \A i \in 1..N : r[i] = records[i]
      /\ r[N + 1] = e
  BY <1>1
<1> HIDE DEF r
<1>3. Naming(r, n, k) \in SUBSET (1..(N + 1)) /\ Naming(records, n, k) \in SUBSET (1..N)
  BY <1>2, NamingIndices
<1>4. ASSUME NEW i \in 1..N
      PROVE  i \in Naming(r, n, k) <=> i \in Naming(records, n, k)
  BY <1>2 DEF Naming
<1>5. CASE Naming(records, n, k) # {}
  <2>1. PICK i \in Naming(records, n, k) : \A j \in Naming(records, n, k) : i <= j
    BY <1>5, ReadCases
  <2>2. i \in Naming(r, n, k) /\ i \in 1..N
    BY <1>3, <1>4
  <2>3. \A j \in Naming(r, n, k) : i <= j
    <3>1. ASSUME NEW j \in Naming(r, n, k) PROVE i <= j
      <4>1. j \in 1..N \/ j = N + 1
        BY <1>3, <1>2
      <4>2. QED
        BY <4>1, <2>1, <2>2, <1>4, <1>2
    <3>2. QED
      BY <3>1
  <2>4. ValueAt(r, NoChanges, state, n, k) = r[i].changes[k]
    BY <1>2, <2>2, <2>3, FirstNamingAnswers
  <2>5. ValueAt(records, open, state, n, k) = records[i].changes[k]
    BY <2>1, FirstNamingAnswers
  <2>6. QED
    BY <2>2, <2>4, <2>5, <1>2 DEF r, e
<1>6. CASE Naming(records, n, k) = {}
  <2>1. ValueAt(records, open, state, n, k) = KeepOlder(open[k], state[k])
    BY <1>6, UnnamedReads
  <2>2. \A j \in Naming(r, n, k) : j = N + 1
    BY <1>3, <1>4, <1>6, <1>2
  <2>3. CASE open[k] # NotRecorded
    <3> DEFINE m == N + 1
    <3>1. m \in Naming(r, n, k)
      BY <1>1, <1>2, <2>3 DEF Naming
    <3>2. \A j \in Naming(r, n, k) : m <= j
      BY <2>2, <1>2
    <3> HIDE DEF m
    <3>3. ValueAt(r, NoChanges, state, n, k) = r[m].changes[k]
      BY <1>2, <3>1, <3>2, FirstNamingAnswers
    <3>4. r[m].changes[k] = open[k]
      BY <1>1, <1>2 DEF m
    <3>5. QED
      BY <3>3, <3>4, <2>1, <2>3 DEF KeepOlder, r, e
  <2>4. CASE open[k] = NotRecorded
    <3>1. N + 1 \notin Naming(r, n, k)
      BY <1>1, <1>2, <2>4 DEF Naming
    <3>2. Naming(r, n, k) = {}
      BY <3>1, <2>2
    <3>3. ValueAt(r, NoChanges, state, n, k) = KeepOlder(NoChanges[k], state[k])
      BY <3>2, UnnamedReads
    <3>4. QED
      BY <3>3, <2>1, <2>4 DEF KeepOlder, NoChanges, r, e
  <2>5. QED
    BY <2>3, <2>4
<1>7. QED
  BY <1>5, <1>6

-----------------------------------------------------------------------------
(* The numbers of a log. *)

LEMMA SpreadBounds ==
  ASSUME NEW records \in Seq(Record), Spread(records), NEW head \in Int,
         EndsAt(records, head), NEW i \in 1..Len(records)
  PROVE  /\ records[i].number <= head - (Len(records) - i)
         /\ records[i].number <= head
         /\ records[1].number <= records[i].number
<1>1. Len(records) \in Nat /\ DOMAIN records = 1..Len(records) /\ records # <<>>
  OBVIOUS
<1>2. Len(records) \in 1..Len(records) /\ 1 \in 1..Len(records)
  BY <1>1
<1>3. records[Len(records)].number = head
  BY <1>1 DEF EndsAt
<1>4. /\ records[i].number \in Int
      /\ records[1].number \in Int
  BY <1>2, EntryType
<1>5. records[Len(records)].number - records[i].number >= Len(records) - i
  BY <1>1, <1>2 DEF Spread
<1>6. records[i].number - records[1].number >= i - 1
  BY <1>1, <1>2 DEF Spread
<1>7. QED
  BY <1>1, <1>3, <1>4, <1>5, <1>6

(* What is left of a log keeps its shape.                                   *)
LEMMA SuffixShape ==
  ASSUME NEW records \in Seq(Record), Spread(records), NEW head \in Int,
         EndsAt(records, head), NEW r, NEW d, IsSuffix(r, records, d)
  PROVE  /\ Spread(r)
         /\ EndsAt(r, head)
         /\ \A i \in 1..Len(r) : i + d \in 1..Len(records) /\ r[i] = records[i + d]
<1>1. /\ r \in Seq(Record) /\ d \in Nat /\ Len(records) \in Nat /\ d <= Len(records)
      /\ Len(r) = Len(records) - d /\ DOMAIN r = 1..Len(r)
      /\ DOMAIN records = 1..Len(records)
      /\ \A i \in 1..Len(r) : r[i] = records[i + d]
  BY DEF IsSuffix
<1>2. ASSUME NEW i \in 1..Len(r)
      PROVE  i + d \in 1..Len(records)
  BY <1>1
<1>3. ASSUME NEW i \in 1..Len(r), NEW j \in 1..Len(r), i <= j
      PROVE  r[j].number - r[i].number >= j - i
  <2>1. i + d \in 1..Len(records) /\ j + d \in 1..Len(records)
    BY <1>2
  <2>2. i + d <= j + d /\ (j + d) - (i + d) = j - i
    BY <1>1, <1>3
  <2>3. records[j + d].number - records[i + d].number >= (j + d) - (i + d)
    <3> DEFINE a == i + d
               b == j + d
    <3>1. a \in DOMAIN records /\ b \in DOMAIN records /\ a <= b
      BY <2>1, <2>2, <1>1
    <3> HIDE DEF a, b
    <3>2. records[b].number - records[a].number >= b - a
      BY <3>1 DEF Spread
    <3>3. QED
      BY <3>2 DEF a, b
  <2>4. r[i] = records[i + d] /\ r[j] = records[j + d]
    BY <1>1
  <2>5. QED
    BY <2>2, <2>3, <2>4
<1>4. Spread(r)
  BY <1>1, <1>3 DEF Spread
<1>5. EndsAt(r, head)
  <2>1. SUFFICES ASSUME r # <<>> PROVE r[Len(r)].number = head
    BY DEF EndsAt
  <2>2. Len(r) \in 1..Len(r) /\ Len(r) + d = Len(records) /\ records # <<>>
    BY <1>1, <2>1
  <2>3. r[Len(r)] = records[Len(records)]
    BY <1>1, <2>2
  <2>4. QED
    BY <2>2, <2>3 DEF EndsAt
<1>6. QED
  BY <1>1, <1>2, <1>4, <1>5

(* Cutting a log at the least index of a set leaves a suffix.                *)
LEMMA CutIsSuffix ==
  ASSUME NEW records \in Seq(Record), NEW S \in SUBSET (1..Len(records)), S # {}
  PROVE  LET d == Least(S) - 1
         IN  IsSuffix(SubSeq(records, Least(S), Len(records)), records, d)
<1>1. Len(records) \in Nat
  OBVIOUS
<1>2. Least(S) \in 1..Len(records)
  BY <1>1, LeastExists
<1> DEFINE l == Least(S)
<1> HIDE DEF l
<1>3. ASSUME NEW m \in 1..Len(records)
      PROVE  IsSuffix(SubSeq(records, m, Len(records)), records, m - 1)
  <2>1. /\ SubSeq(records, m, Len(records)) \in Seq(Record)
        /\ Len(SubSeq(records, m, Len(records))) = Len(records) - m + 1
        /\ \A i \in 1..(Len(records) - m + 1) :
             SubSeq(records, m, Len(records))[i] = records[m + i - 1]
    BY <1>1
  <2>2. \A i \in 1..(Len(records) - m + 1) : m + i - 1 = i + (m - 1)
    BY <1>1
  <2>3. QED
    BY <1>1, <2>1, <2>2 DEF IsSuffix
<1>4. QED
  BY <1>2, <1>3

LEMMA AllGoIsSuffix ==
  ASSUME NEW records \in Seq(Record)
  PROVE  IsSuffix(<<>>, records, Len(records))
BY DEF IsSuffix

(* Evicting drops a beginning of the log: the entries up to `oldest`.        *)
LEMMA EvictFacts ==
  ASSUME NEW records \in Seq(Record), Spread(records), NEW oldest \in Int
  PROVE  \E d \in 0..Len(records) :
           /\ IsSuffix(Evict(records, oldest), records, d)
           /\ \A i \in 1..d : records[i].number <= oldest
           /\ \A i \in 1..Len(records) : i > d => records[i].number > oldest
<1> DEFINE kept == {i \in DOMAIN records : records[i].number > oldest}
<1>1. Len(records) \in Nat /\ DOMAIN records = 1..Len(records)
  OBVIOUS
<1>2. kept \in SUBSET (1..Len(records))
  BY <1>1
<1>3. ASSUME NEW i \in 1..Len(records), i \notin kept
      PROVE  records[i].number <= oldest
  <2>1. records[i].number \in Int
    BY EntryType
  <2>2. QED
    BY <2>1, <1>1, <1>3
<1>4. CASE kept = {}
  <2>1. Evict(records, oldest) = <<>>
    BY <1>4 DEF Evict
  <2>2. \A i \in 1..Len(records) : records[i].number <= oldest
    BY <1>3, <1>4
  <2>3. ~ \E i \in 1..Len(records) : i > Len(records)
    BY <1>1
  <2>4. QED
    BY <2>1, <2>2, <2>3, <1>1, AllGoIsSuffix
<1>5. CASE kept # {}
  <2>1. Evict(records, oldest) = SubSeq(records, Least(kept), Len(records))
    BY <1>5 DEF Evict
  <2>2. \A i \in kept : i \in 1..Len(records) /\ records[i].number > oldest
    BY <1>1
  <2> HIDE DEF kept
  <2>3. Least(kept) \in kept /\ \A y \in kept : Least(kept) <= y
    BY <1>1, <1>2, <1>5, LeastExists
  <2>4. IsSuffix(Evict(records, oldest), records, Least(kept) - 1)
    BY <2>1, <1>2, <1>5, CutIsSuffix
  <2>5. PICK l : l = Least(kept)
    OBVIOUS
  <2>6. l \in 1..Len(records) /\ l - 1 \in 0..Len(records) /\ records[l].number > oldest
    BY <2>2, <2>3, <2>5, <1>1
  <2>7. \A i \in 1..(l - 1) : records[i].number <= oldest
    <3>1. ASSUME NEW i \in 1..(l - 1) PROVE records[i].number <= oldest
      <4>1. i \in 1..Len(records) /\ ~(l <= i)
        BY <2>6, <1>1
      <4>2. i \notin kept
        BY <4>1, <2>3, <2>5
      <4>3. QED
        BY <4>1, <4>2, <1>3
    <3>2. QED
      BY <3>1
  <2>8. \A i \in 1..Len(records) : i > l - 1 => records[i].number > oldest
    <3>1. ASSUME NEW i \in 1..Len(records), i > l - 1 PROVE records[i].number > oldest
      <4>1. l <= i /\ l \in DOMAIN records /\ i \in DOMAIN records
        BY <2>6, <1>1, <3>1
      <4>2. records[i].number - records[l].number >= i - l
        BY <4>1 DEF Spread
      <4>3. records[i].number \in Int /\ records[l].number \in Int
        BY <2>6, EntryType
      <4>4. QED
        BY <4>1, <4>2, <4>3, <2>6, <1>1
    <3>2. QED
      BY <3>1
  <2>9. QED
    BY <2>4, <2>5, <2>6, <2>7, <2>8
<1>6. QED
  BY <1>4, <1>5

(* Restoring keeps an end of the log whose numbers run to the head within    *)
(* the window, and puts the floor below all of them.                        *)
LEMMA RestoredFacts ==
  ASSUME NEW records \in Seq(Record), Spread(records), NEW head \in BlockNumber,
         EndsAt(records, head), NEW w \in Nat,
         \A i \in 1..Len(records) : records[i].number > 0
  PROVE  LET r == RestoredRecords(records, head, w)
             floor == RestoredFloor(r, head)
         IN  /\ \E d \in 0..Len(records) : IsSuffix(r, records, d)
             /\ Contiguous(r, head)
             /\ \A i \in 1..Len(r) : r[i].number > head - w /\ r[i].number > floor
             /\ floor \in BlockNumber
             /\ floor <= head
             /\ r = <<>> => floor = head
             /\ r # <<>> => floor = r[1].number - 1
<1> DEFINE n == Len(records)
           inRun(i) == \A j \in i..n : /\ records[j].number = head - (n - j)
                                       /\ records[j].number > head - w
           run == {i \in 1..n : inRun(i)}
           r == RestoredRecords(records, head, w)
           floor == RestoredFloor(r, head)
<1>1. n \in Nat /\ head \in Nat /\ head \in Int /\ MaxNumber \in Nat
  BY HistoryAssumption DEF BlockNumber
<1>2. run \in SUBSET (1..n)
  OBVIOUS
<1>3. CASE run = {}
  <2>1. r = <<>>
    BY <1>3 DEF RestoredRecords
  <2>2. floor = head
    BY <2>1 DEF RestoredFloor
  <2>3. IsSuffix(r, records, n) /\ n \in 0..n
    BY <2>1, <1>1, AllGoIsSuffix
  <2>4. 1..Len(r) = {} /\ DOMAIN r = {}
    BY <2>1
  <2> HIDE DEF r, floor
  <2>5. QED
    BY <2>1, <2>2, <2>3, <2>4, <1>1 DEF Contiguous, r, floor
<1>4. CASE run # {}
  <2>1. r = SubSeq(records, Least(run), n)
    BY <1>4 DEF RestoredRecords
  <2>2. ASSUME NEW i \in run, NEW j \in i..n
        PROVE  records[j].number = head - (n - j) /\ records[j].number > head - w
    OBVIOUS
  <2> HIDE DEF run, r
  <2>3. Least(run) \in run /\ Least(run) \in 1..n
    BY <1>1, <1>2, <1>4, LeastExists
  <2>4. PICK l : l = Least(run)
    OBVIOUS
  <2>5. IsSuffix(r, records, l - 1) /\ l - 1 \in 0..n /\ l \in 1..n
    BY <2>1, <2>3, <2>4, <1>1, <1>2, <1>4, CutIsSuffix
  <2>6. r \in Seq(Record) /\ Len(r) = n - l + 1 /\ DOMAIN r = 1..Len(r) /\ r # <<>>
    BY <2>5, <1>1 DEF IsSuffix
  <2>7. ASSUME NEW i \in 1..Len(r)
        PROVE  r[i].number = head - (Len(r) - i) /\ r[i].number > head - w
    <3>1. i + (l - 1) \in l..n
      BY <2>5, <2>6, <1>1
    <3>2. r[i] = records[i + (l - 1)]
      BY <2>5 DEF IsSuffix
    <3> DEFINE j == i + (l - 1)
    <3> HIDE DEF j
    <3>3. records[j].number = head - (n - j) /\ records[j].number > head - w
      BY <2>2, <2>3, <2>4, <3>1 DEF j
    <3>4. n - j = Len(r) - i
      BY <2>5, <2>6, <1>1 DEF j
    <3>5. QED
      BY <3>2, <3>3, <3>4 DEF j
  <2>8. Contiguous(r, head)
    BY <2>6, <2>7 DEF Contiguous
  <2>9. floor = r[1].number - 1 /\ 1 \in 1..Len(r)
    BY <2>6, <2>5, <1>1 DEF RestoredFloor
  <2>10. r[1].number \in BlockNumber /\ r[1].number > 0
    <3>1. r[1] = records[1 + (l - 1)] /\ 1 + (l - 1) = l
      BY <2>5, <2>9, <1>1 DEF IsSuffix
    <3>2. QED
      BY <3>1, <2>5, EntryType
  <2>11. floor \in BlockNumber /\ floor <= head
    <3>1. r[1].number = head - (Len(r) - 1)
      BY <2>7, <2>9
    <3>2. QED
      BY <3>1, <2>9, <2>10, <2>6, <2>5, <1>1 DEF BlockNumber
  <2>12. ASSUME NEW i \in 1..Len(r)
         PROVE  r[i].number > floor
    <3>1. r[i].number = head - (Len(r) - i) /\ r[1].number = head - (Len(r) - 1)
      BY <2>7, <2>9
    <3>2. QED
      BY <3>1, <2>9, <2>6, <2>5, <1>1
  <2>13. QED
    BY <2>5, <2>6, <2>7, <2>8, <2>9, <2>11, <2>12 DEF r
<1>5. QED
  BY <1>3, <1>4

-----------------------------------------------------------------------------
(* The inductive invariant. *)

(* The log increases to the head, above the floor and within the window.     *)
LogShape ==
  /\ Spread(sealed)
  /\ EndsAt(sealed, latestNumber)
  /\ \A i \in 1..Len(sealed) : /\ sealed[i].number > historyFloor
                               /\ sealed[i].number > latestNumber - window
  /\ historyFloor <= latestNumber
  /\ sealed = <<>> /\ window > 0 => historyFloor = latestNumber
  /\ \A n \in storedBlocks : n <= latestNumber

(* The open record undoes the live state to the state the head ended in.     *)
HeadExact ==
  window > 0 => \A k \in Key : past[latestNumber][k] = KeepOlder(openRecord[k], live[k])

(* A saved log is one that reads, over the saved state, as the node did.      *)
SavedExact ==
  saved # NoDump =>
    /\ saved.latest \in saved.blocks
    /\ \A n \in saved.blocks : n <= saved.latest
    /\ saved.history # NoHistory =>
         /\ Spread(saved.history)
         /\ EndsAt(saved.history, saved.latest)
         /\ \A i \in 1..Len(saved.history) : saved.history[i].number > 0
         /\ saved.history # <<>> =>
              \A n \in saved.blocks :
                saved.history[1].number - 1 <= n /\ n < saved.latest =>
                  \A k \in Key :
                    ValueAt(saved.history, NoChanges, saved.state, n, k) = saved.past[n][k]

IInv ==
  /\ TypeOK
  /\ LogShape
  /\ HeadExact
  /\ ServedReadsExact
  /\ SavedExact

-----------------------------------------------------------------------------
LEMMA TypeFacts ==
  ASSUME TypeOK
  PROVE  /\ latestNumber \in BlockNumber /\ latestNumber \in Nat
         /\ historyFloor \in BlockNumber /\ historyFloor \in Nat
         /\ window \in Nat /\ window \in Windows
         /\ BlockNumber \subseteq Nat
         /\ storedBlocks \subseteq BlockNumber
         /\ sealed \in Seq(Record)
         /\ openRecord \in Changes
         /\ live \in State
         /\ past \in [BlockNumber -> State]
BY HistoryAssumption DEF TypeOK, BlockNumber

(* The oldest block served, compared with.                                  *)
Oldest(f, h, w) == IF w = 0 THEN h ELSE Larger(f, Larger(h - w, 0))

LEMMA OldestBelow ==
  ASSUME NEW f \in Nat, NEW h \in Nat, NEW w \in Nat, NEW n \in Nat
  PROVE  Oldest(f, h, w) <= n /\ n < h <=> w > 0 /\ f <= n /\ h - w <= n /\ n < h
BY DEF Oldest, Larger

(* The gate, spelled out.                                                   *)
LEMMA ServedIs ==
  ASSUME TypeOK, NEW n
  PROVE  n \in Served <=> /\ window > 0
                         /\ n \in storedBlocks
                         /\ historyFloor <= n
                         /\ latestNumber - window <= n
                         /\ n < latestNumber
<1>1. /\ latestNumber \in Nat /\ historyFloor \in Nat /\ window \in Nat
      /\ n \in storedBlocks => n \in Nat
  BY TypeFacts
<1>2. QED
  BY <1>1 DEF Served, OldestServable, Larger

(* The same of the next state.                                              *)
LEMMA ServedIsNext ==
  ASSUME TypeOK', NEW n
  PROVE  n \in Served' <=> /\ window' > 0
                          /\ n \in storedBlocks'
                          /\ historyFloor' <= n
                          /\ latestNumber' - window' <= n
                          /\ n < latestNumber'
<1>1. /\ latestNumber' \in Nat /\ historyFloor' \in Nat /\ window' \in Nat
      /\ n \in storedBlocks' => n \in Nat
  BY HistoryAssumption DEF TypeOK, BlockNumber
<1>2. Served' = {m \in storedBlocks' : OldestServable' <= m /\ m < latestNumber'}
  BY DEF Served
<1>3. OldestServable' = Oldest(historyFloor', latestNumber', window')
  BY DEF OldestServable, Oldest
<1>4. QED
  BY <1>1, <1>2, <1>3, OldestBelow

(* Every entry of the log is at most the head's.                            *)
LEMMA LogBelowHead ==
  ASSUME TypeOK, LogShape, NEW i \in 1..Len(sealed)
  PROVE  sealed[i].number <= latestNumber
<1>1. sealed \in Seq(Record) /\ latestNumber \in Int
  BY TypeFacts
<1>2. Spread(sealed) /\ EndsAt(sealed, latestNumber)
  BY DEF LogShape
<1>3. QED
  BY <1>1, <1>2, SpreadBounds

(* Sealing under a number no lower than the head's, and above the floor: the  *)
(* log increases to it, and reads of any block before it are what they were. *)
LEMMA SealFacts ==
  ASSUME TypeOK, LogShape, window > 0,
         NEW number \in BlockNumber, number >= latestNumber, number > historyFloor
  PROVE  LET r == Seal(number)
         IN  /\ r \in Seq(Record) /\ r # <<>>
             /\ Spread(r)
             /\ EndsAt(r, number)
             /\ \A i \in 1..Len(r) : r[i].number > historyFloor
             /\ \A n \in Nat : n < number => \A k \in Key :
                  ValueAt(r, NoChanges, live, n, k) = HistoricalValue(n, k)
<1> DEFINE N == Len(sealed)
           r == Seal(number)
<1>1. /\ sealed \in Seq(Record) /\ openRecord \in Changes /\ N \in Nat
      /\ latestNumber \in Nat /\ historyFloor \in Nat /\ number \in Nat
      /\ DOMAIN sealed = 1..N
  BY TypeFacts
<1>2. /\ Spread(sealed) /\ EndsAt(sealed, latestNumber)
      /\ \A i \in 1..N : sealed[i].number > historyFloor
  BY DEF LogShape
<1>3. \A i \in 1..N : sealed[i].number <= latestNumber /\ sealed[i].number \in Int
  BY <1>1, LogBelowHead, EntryType
<1>4. CASE N > 0 /\ sealed[N].number = number
  <2>1. sealed # <<>> /\ r = FoldedInto(sealed, openRecord)
    BY <1>1, <1>4 DEF Seal, FoldedInto
  <2>2. /\ r \in Seq(Record) /\ Len(r) = N /\ DOMAIN r = 1..N
        /\ \A i \in 1..N : r[i].number = sealed[i].number
    BY <2>1, <1>1, FoldFacts
  <2>3. ASSUME NEW n \in Nat, n < number, NEW k \in Key
        PROVE  ValueAt(r, NoChanges, live, n, k) = HistoricalValue(n, k)
    <3>1. n < sealed[Len(sealed)].number /\ n \in Int
      BY <1>4, <2>3
    <3>2. QED
      BY <2>1, <3>1, <1>1, FoldReads DEF HistoricalValue
  <2> HIDE DEF r
  <2>4. Spread(r) /\ EndsAt(r, number) /\ r # <<>>
    BY <1>1, <1>2, <1>4, <2>2 DEF Spread, EndsAt
  <2>5. QED
    BY <2>2, <2>3, <2>4, <1>2 DEF r
<1>5. CASE ~(N > 0 /\ sealed[N].number = number)
  <2> DEFINE e == [number |-> number, changes |-> openRecord]
  <2>1. r = Append(sealed, e)
    BY <1>5 DEF Seal
  <2>2. e \in Record /\ e.number = number
    BY <1>1 DEF Record
  <2>3. ASSUME NEW n \in Nat, n < number, NEW k \in Key
        PROVE  ValueAt(r, NoChanges, live, n, k) = HistoricalValue(n, k)
    BY <2>1, <2>3, <1>1, AppendReads DEF HistoricalValue
  <2> HIDE DEF e, r
  <2>4. /\ r \in Seq(Record) /\ Len(r) = N + 1 /\ DOMAIN r = 1..(N + 1) /\ r # <<>>
        /\ \A i \in 1..N : r[i] = sealed[i]
        /\ r[N + 1] = e
    BY <1>1, <2>1, <2>2
  <2>5. \A i \in 1..N : sealed[i].number - number <= i - (N + 1)
    <3>1. SUFFICES ASSUME N > 0, NEW i \in 1..N
                   PROVE  sealed[i].number - number <= i - (N + 1)
      BY <1>1
    <3>2. sealed # <<>> /\ N \in 1..N
      BY <1>1, <3>1
    <3>3. sealed[N].number = latestNumber /\ latestNumber < number
      BY <3>1, <3>2, <1>1, <1>2, <1>5 DEF EndsAt
    <3>4. sealed[i].number <= latestNumber - (N - i)
      BY <1>1, <1>2, SpreadBounds
    <3>5. QED
      BY <3>3, <3>4, <1>1, <1>3
  <2>6. Spread(r)
    <3>1. SUFFICES ASSUME NEW i \in 1..(N + 1), NEW j \in 1..(N + 1), i <= j
                   PROVE  r[j].number - r[i].number >= j - i
      BY <2>4 DEF Spread
    <3>2. CASE j \in 1..N
      <4>1. i \in 1..N
        BY <3>1, <3>2, <1>1
      <4>2. sealed[j].number - sealed[i].number >= j - i
        BY <4>1, <3>1, <3>2, <1>1, <1>2 DEF Spread
      <4>3. QED
        BY <4>1, <4>2, <3>2, <2>4
    <3>3. CASE j = N + 1 /\ i \in 1..N
      BY <3>3, <2>2, <2>4, <2>5, <1>1, <1>3
    <3>4. CASE j = N + 1 /\ i = N + 1
      BY <3>4, <2>2, <2>4, <1>1
    <3>5. QED
      BY <3>1, <3>2, <3>3, <3>4, <1>1
  <2>7. EndsAt(r, number)
    BY <2>2, <2>4 DEF EndsAt
  <2>8. ASSUME NEW i \in 1..Len(r)
        PROVE  r[i].number > historyFloor
    <3>1. i \in 1..N \/ i = N + 1
      BY <2>4, <1>1
    <3>2. QED
      BY <3>1, <2>2, <2>4, <1>2
  <2>9. QED
    BY <2>3, <2>4, <2>6, <2>7, <2>8 DEF r
<1>6. QED
  BY <1>4, <1>5

(* At the head itself no entry answers.                                     *)
LEMMA HeadReads ==
  ASSUME TypeOK, LogShape, NEW k \in Key
  PROVE  HistoricalValue(latestNumber, k) = KeepOlder(openRecord[k], live[k])
<1>1. /\ sealed \in Seq(Record) /\ latestNumber \in Nat /\ DOMAIN sealed = 1..Len(sealed)
  BY TypeFacts
<1>2. \A i \in 1..Len(sealed) : sealed[i].number <= latestNumber /\ sealed[i].number \in Int
  BY <1>1, LogBelowHead, EntryType
<1>3. Naming(sealed, latestNumber, k) = {}
  BY <1>1, <1>2 DEF Naming
<1>4. QED
  BY <1>3, UnnamedReads DEF HistoricalValue

-----------------------------------------------------------------------------
(* One lemma per action. *)

LEMMA InitHolds == Init => IInv
<1> SUFFICES ASSUME Init PROVE IInv
  OBVIOUS
<1>1. /\ Genesis \in State /\ Windows \subseteq Nat /\ MaxNumber \in Nat
      /\ 0 \in BlockNumber
  BY HistoryAssumption DEF BlockNumber
<1>2. NoChanges \in Changes
  BY DEF NoChanges, Changes
<1>3. [n \in BlockNumber |-> Genesis] \in [BlockNumber -> State]
  BY <1>1
<1>4. TypeOK
  BY <1>1, <1>2, <1>3 DEF Init, TypeOK
<1>5. LogShape
  BY DEF Init, LogShape, Spread, EndsAt
<1>6. HeadExact
  <2>1. ASSUME NEW k \in Key
        PROVE  past[latestNumber][k] = KeepOlder(openRecord[k], live[k])
    BY <1>1 DEF Init, KeepOlder, NoChanges
  <2>2. QED
    BY <2>1 DEF HeadExact
<1>7. ServedReadsExact
  <2>1. Served = {}
    BY <1>4, ServedIs, TypeFacts DEF Init
  <2>2. QED
    BY <2>1 DEF ServedReadsExact
<1>8. SavedExact
  BY DEF Init, SavedExact
<1>9. QED
  BY <1>4, <1>5, <1>6, <1>7, <1>8 DEF IInv

(* What Write makes of the open record, key by key.                         *)
LEMMA WriteFacts ==
  ASSUME TypeOK, NEW k \in Key, NEW v \in Content, Write(k, v)
  PROVE  /\ live' \in State
         /\ openRecord' \in Changes
         /\ window = 0 => openRecord' = openRecord
         /\ window > 0 => \A j \in Key :
              KeepOlder(openRecord'[j], live'[j]) = KeepOlder(openRecord[j], live[j])
<1>1. live \in State /\ openRecord \in Changes /\ window \in Nat
  BY TypeFacts
<1>2. live[k] \in Content /\ openRecord[k] \in Content \cup {NotRecorded}
  BY <1>1 DEF State, Changes
<1>3. NotRecorded \notin Content
  BY HistoryAssumption
<1>4. live' = [live EXCEPT ![k] = v]
  BY DEF Write
<1>5. live' \in State /\ live'[k] = v /\ \A j \in Key : j # k => live'[j] = live[j]
  BY <1>1, <1>4 DEF State
<1>6. CASE window = 0
  BY <1>1, <1>5, <1>6 DEF Write, Recorded
<1>7. CASE window > 0
  <2> DEFINE p == KeepOlder(openRecord[k], live[k])
  <2>1. openRecord' = [openRecord EXCEPT ![k] = p]
    BY <1>7, <1>1 DEF Write, Recorded
  <2>2. p \in Content
    BY <1>2, <1>3 DEF KeepOlder
  <2>3. p = openRecord[k] \/ (openRecord[k] = NotRecorded /\ p = live[k])
    BY DEF KeepOlder
  <2> HIDE DEF p
  <2>4. /\ openRecord' \in Changes /\ openRecord'[k] = p
        /\ \A j \in Key : j # k => openRecord'[j] = openRecord[j]
    BY <1>1, <2>1, <2>2 DEF Changes
  <2>5. KeepOlder(openRecord'[k], live'[k]) = p
    BY <2>2, <2>4, <1>3 DEF KeepOlder
  <2>6. p = KeepOlder(openRecord[k], live[k])
    BY DEF p
  <2>7. \A j \in Key : j # k =>
          KeepOlder(openRecord'[j], live'[j]) = KeepOlder(openRecord[j], live[j])
    BY <2>4, <1>5
  <2>8. QED
    BY <1>7, <1>5, <2>4, <2>5, <2>6, <2>7
<1>8. QED
  BY <1>1, <1>6, <1>7

(* An entry that answers does so whatever the open record and the state are;  *)
(* where none does, only what undoing the open record gives matters.         *)
LEMMA ReadsByUndo ==
  ASSUME NEW records \in Seq(Record), NEW n, NEW k,
         NEW open1, NEW state1, NEW open2, NEW state2,
         KeepOlder(open1[k], state1[k]) = KeepOlder(open2[k], state2[k])
  PROVE  ValueAt(records, open1, state1, n, k) = ValueAt(records, open2, state2, n, k)
BY DEF ValueAt

LEMMA WriteKeeps ==
  ASSUME IInv, NEW k \in Key, NEW v \in Content, Write(k, v)
  PROVE  IInv'
<1>1. TypeOK /\ LogShape /\ HeadExact /\ ServedReadsExact /\ SavedExact
  BY DEF IInv
<1>2. /\ live' \in State /\ openRecord' \in Changes
      /\ window = 0 => openRecord' = openRecord
      /\ window > 0 => \A j \in Key :
           KeepOlder(openRecord'[j], live'[j]) = KeepOlder(openRecord[j], live[j])
  BY <1>1, WriteFacts
<1>3. UNCHANGED <<sealed, latestNumber, historyFloor, storedBlocks, window,
                  numberOption, saved, past>>
  BY DEF Write
<1>4. TypeOK'
  BY <1>1, <1>2, <1>3 DEF TypeOK
<1>5. LogShape'
  BY <1>1, <1>3 DEF LogShape
<1>6. HeadExact'
  BY <1>1, <1>2, <1>3 DEF HeadExact
<1>7. ServedReadsExact'
  <2>1. SUFFICES ASSUME NEW n \in Served', NEW j \in Key
                 PROVE  HistoricalValue(n, j)' = past[n][j]
    BY <1>3 DEF ServedReadsExact
  <2>2. n \in Served
    BY <1>3 DEF Served, OldestServable
  <2>3. window > 0 /\ sealed \in Seq(Record)
    BY <1>1, <2>2, ServedIs, TypeFacts
  <2>4. KeepOlder(openRecord'[j], live'[j]) = KeepOlder(openRecord[j], live[j])
    BY <1>2, <2>3
  <2>5. ValueAt(sealed, openRecord', live', n, j) = ValueAt(sealed, openRecord, live, n, j)
    BY <2>3, <2>4, ReadsByUndo
  <2>6. HistoricalValue(n, j) = past[n][j]
    BY <1>1, <2>2 DEF ServedReadsExact
  <2>7. QED
    BY <2>5, <2>6, <1>3 DEF HistoricalValue
<1>8. SavedExact'
  BY <1>1, <1>3 DEF SavedExact
<1>9. QED
  BY <1>4, <1>5, <1>6, <1>7, <1>8 DEF IInv

LEMMA NextNumberFacts ==
  ASSUME TypeOK, MinesForward, MineBlock
  PROVE  /\ NextNumber \in BlockNumber
         /\ NextNumber \in Nat
         /\ NextNumber >= latestNumber
         /\ NextNumber > historyFloor
<1>1. NextNumber \in Nat
  <2>1. latestNumber \in Nat /\ numberOption \in NumberOptions
    BY TypeFacts DEF TypeOK
  <2>2. NumberOptions \subseteq (Nat \ {0}) \cup {NoNumber}
    BY HistoryAssumption
  <2>3. QED
    BY <2>1, <2>2 DEF NextNumber
<1>2. QED
  BY <1>1, HistoryAssumption DEF MinesForward, MineBlock, BlockNumber

(* What mining leaves of the log.                                           *)
LEMMA MinedLog ==
  ASSUME TypeOK, LogShape, MinesForward, MineBlock, window > 0
  PROVE  LET number == NextNumber
         IN  /\ sealed' \in Seq(Record) /\ sealed' # <<>>
             /\ Spread(sealed')
             /\ EndsAt(sealed', number)
             /\ \A i \in 1..Len(sealed') :
                  /\ sealed'[i].number > historyFloor
                  /\ sealed'[i].number > number - window
             /\ \A n \in Nat : number - window <= n /\ n < number =>
                  \A k \in Key :
                    ValueAt(sealed', NoChanges, live, n, k) = HistoricalValue(n, k)
<1> DEFINE number == NextNumber
           r == Seal(number)
<1>1. /\ number \in BlockNumber /\ number \in Nat
      /\ number >= latestNumber /\ number > historyFloor
  BY NextNumberFacts
<1>2. window \in Nat /\ number - window \in Int /\ number > number - window
  BY <1>1, TypeFacts
<1>3. sealed' = Evict(r, number - window)
  BY <1>2 DEF MineBlock
<1> HIDE DEF number
<1>4. /\ r \in Seq(Record) /\ r # <<>>
      /\ Spread(r) /\ EndsAt(r, number)
      /\ \A i \in 1..Len(r) : r[i].number > historyFloor
      /\ \A n \in Nat : n < number => \A k \in Key :
           ValueAt(r, NoChanges, live, n, k) = HistoricalValue(n, k)
  BY <1>1, SealFacts
<1> HIDE DEF r
<1>5. PICK d \in 0..Len(r) :
        /\ IsSuffix(Evict(r, number - window), r, d)
        /\ \A i \in 1..d : r[i].number <= number - window
        /\ \A i \in 1..Len(r) : i > d => r[i].number > number - window
  BY <1>2, <1>4, EvictFacts
<1>6. IsSuffix(sealed', r, d)
  BY <1>3, <1>5
<1>7. /\ Spread(sealed') /\ EndsAt(sealed', number)
      /\ \A i \in 1..Len(sealed') : i + d \in 1..Len(r) /\ sealed'[i] = r[i + d]
  BY <1>1, <1>4, <1>6, SuffixShape
<1>8. sealed' \in Seq(Record) /\ Len(sealed') = Len(r) - d /\ Len(r) \in Nat
  BY <1>4, <1>6 DEF IsSuffix
<1>9. sealed' # <<>>
  <2>1. Len(r) \in 1..Len(r) /\ r[Len(r)].number = number
    BY <1>4, <1>8 DEF EndsAt
  <2>2. d # Len(r)
    BY <2>1, <1>1, <1>2, <1>5
  <2>3. Len(sealed') # 0
    BY <2>2, <1>5, <1>8
  <2>4. QED
    BY <2>3
<1>10. ASSUME NEW i \in 1..Len(sealed')
       PROVE  sealed'[i].number > historyFloor /\ sealed'[i].number > number - window
  <2> DEFINE j == i + d
  <2>1. j \in 1..Len(r) /\ sealed'[i] = r[j] /\ j > d
    BY <1>7, <1>5, <1>8
  <2> HIDE DEF j
  <2>2. QED
    BY <2>1, <1>4, <1>5
<1>11. ASSUME NEW n \in Nat, number - window <= n, n < number, NEW k \in Key
       PROVE  ValueAt(sealed', NoChanges, live, n, k) = HistoricalValue(n, k)
  <2>1. \A i \in 1..d : r[i].number <= n
    <3>1. ASSUME NEW i \in 1..d PROVE r[i].number <= n
      <4>1. i \in 1..Len(r) /\ r[i].number <= number - window
        BY <1>5, <1>8
      <4>2. r[i].number \in Int
        BY <4>1, <1>4, EntryType
      <4>3. QED
        BY <4>1, <4>2, <1>2, <1>11
    <3>2. QED
      BY <3>1
  <2>2. ValueAt(sealed', NoChanges, live, n, k) = ValueAt(r, NoChanges, live, n, k)
    <3>1. n \in Int
      OBVIOUS
    <3>2. QED
      BY <3>1, <2>1, <1>4, <1>6, SuffixReads
  <2>3. QED
    BY <2>2, <1>4, <1>11
<1>12. QED
  BY <1>7, <1>8, <1>9, <1>10, <1>11 DEF number

LEMMA MineKeeps ==
  ASSUME IInv, MinesForward, MineBlock
  PROVE  IInv'
<1> DEFINE number == NextNumber
<1>1. TypeOK /\ LogShape /\ HeadExact /\ ServedReadsExact /\ SavedExact
  BY DEF IInv
<1>2. /\ number \in BlockNumber /\ number \in Nat
      /\ number >= latestNumber /\ number > historyFloor
  BY <1>1, NextNumberFacts
<1>3. /\ latestNumber' = number
      /\ storedBlocks' = storedBlocks \cup {number}
      /\ past' = [past EXCEPT ![number] = live]
      /\ openRecord' = NoChanges
      /\ window = 0 => sealed' = sealed
      /\ UNCHANGED <<live, historyFloor, window, numberOption, saved>>
  BY DEF MineBlock
<1> HIDE DEF number
<1>4. /\ latestNumber \in Nat /\ historyFloor \in Nat /\ window \in Nat
      /\ live \in State /\ sealed \in Seq(Record) /\ storedBlocks \subseteq BlockNumber
      /\ BlockNumber \subseteq Nat /\ past \in [BlockNumber -> State]
      /\ window = 0 => sealed = <<>>
  BY <1>1, TypeFacts DEF TypeOK
<1>5. window > 0 =>
        /\ sealed' \in Seq(Record) /\ sealed' # <<>>
        /\ Spread(sealed')
        /\ EndsAt(sealed', number)
        /\ \A i \in 1..Len(sealed') :
             /\ sealed'[i].number > historyFloor
             /\ sealed'[i].number > number - window
        /\ \A n \in Nat : number - window <= n /\ n < number =>
             \A k \in Key :
               ValueAt(sealed', NoChanges, live, n, k) = HistoricalValue(n, k)
  BY <1>1, MinedLog DEF number
<1>6. NoChanges \in Changes
  BY DEF NoChanges, Changes
<1>7. /\ past' \in [BlockNumber -> State]
      /\ past'[number] = live
      /\ \A n \in BlockNumber : n # number => past'[n] = past[n]
  BY <1>2, <1>3, <1>4
<1>8. TypeOK'
  <2>1. sealed' \in Seq(Record)
    BY <1>3, <1>4, <1>5
  <2>2. window' = 0 => openRecord' = NoChanges /\ sealed' = <<>>
    BY <1>3, <1>4
  <2>3. latestNumber' \in storedBlocks' /\ storedBlocks' \subseteq BlockNumber
    BY <1>2, <1>3, <1>4
  <2>4. QED
    BY <2>1, <2>2, <2>3, <1>1, <1>3, <1>6, <1>7 DEF TypeOK
<1>9. LogShape'
  <2>1. \A n \in storedBlocks' : n <= latestNumber'
    <3>1. \A n \in storedBlocks : n <= latestNumber /\ n \in Nat
      BY <1>1, <1>4 DEF LogShape
    <3>2. QED
      BY <3>1, <1>2, <1>3, <1>4
  <2>2. historyFloor' <= latestNumber'
    BY <1>2, <1>3, <1>4
  <2>3. CASE window = 0
    <3>1. sealed' = <<>> /\ window' = 0
      BY <1>3, <1>4, <2>3
    <3>2. QED
      BY <3>1, <2>1, <2>2 DEF LogShape, Spread, EndsAt
  <2>4. CASE window > 0
    BY <1>3, <1>5, <2>1, <2>2, <2>4 DEF LogShape
  <2>5. QED
    BY <2>3, <2>4, <1>4
<1>10. HeadExact'
  <2>1. ASSUME NEW k \in Key
        PROVE  KeepOlder(NoChanges[k], live[k]) = live[k]
    BY DEF KeepOlder, NoChanges
  <2>2. QED
    BY <2>1, <1>3, <1>7 DEF HeadExact
<1>11. ServedReadsExact'
  <2>1. SUFFICES ASSUME NEW n \in Served', NEW k \in Key
                 PROVE  HistoricalValue(n, k)' = past'[n][k]
    BY DEF ServedReadsExact
  <2>2. /\ window' > 0 /\ n \in storedBlocks' /\ historyFloor' <= n
        /\ latestNumber' - window' <= n /\ n < latestNumber'
    BY <1>8, ServedIsNext
  <2>3. /\ window > 0 /\ n \in storedBlocks /\ n \in BlockNumber /\ n \in Nat
        /\ historyFloor <= n /\ number - window <= n /\ n < number
    BY <2>2, <1>2, <1>3, <1>4
  <2>4. n <= latestNumber
    BY <1>1, <2>3 DEF LogShape
  <2>5. HistoricalValue(n, k)' = HistoricalValue(n, k)
    <3>1. ValueAt(sealed', NoChanges, live, n, k) = HistoricalValue(n, k)
      BY <1>5, <2>3
    <3>2. QED
      BY <3>1, <1>3 DEF HistoricalValue
  <2>6. past'[n] = past[n]
    BY <1>7, <2>3
  <2>7. CASE n < latestNumber
    <3>1. n \in Served
      BY <2>3, <2>7, <1>1, <1>2, <1>4, ServedIs
    <3>2. HistoricalValue(n, k) = past[n][k]
      BY <3>1, <1>1 DEF ServedReadsExact
    <3>3. QED
      BY <3>2, <2>5, <2>6
  <2>8. CASE n = latestNumber
    <3>1. HistoricalValue(n, k) = KeepOlder(openRecord[k], live[k])
      BY <2>8, <1>1, HeadReads
    <3>2. past[n][k] = KeepOlder(openRecord[k], live[k])
      BY <2>3, <2>8, <1>1 DEF HeadExact
    <3>3. QED
      BY <3>1, <3>2, <2>5, <2>6
  <2>9. QED
    BY <2>3, <2>4, <2>7, <2>8, <1>4
<1>12. SavedExact'
  BY <1>1, <1>3 DEF SavedExact
<1>13. QED
  BY <1>8, <1>9, <1>10, <1>11, <1>12 DEF IInv

(* The fields of the dump written.                                          *)
LEMMA DumpFields ==
  ASSUME DumpState
  PROVE  /\ saved'.state = live /\ saved'.latest = latestNumber
         /\ saved'.blocks = storedBlocks \cap 0..latestNumber
         /\ saved'.history = DumpHistory /\ saved'.past = past
         /\ saved'.served = Served /\ saved'.window = window
         /\ UNCHANGED <<live, openRecord, sealed, latestNumber, historyFloor,
                         storedBlocks, window, numberOption, past>>
BY DEF DumpState

(* The log written: the entries of the node's, the open record in the last.   *)
LEMMA DumpedLog ==
  ASSUME TypeOK, LogShape, window > 0
  PROVE  /\ DumpHistory \in Seq(Record)
         /\ Len(DumpHistory) = Len(sealed)
         /\ \A i \in 1..Len(sealed) : DumpHistory[i].number = sealed[i].number
         /\ sealed # <<>> => DumpHistory = FoldedInto(sealed, openRecord)
<1>1. sealed \in Seq(Record) /\ openRecord \in Changes
  BY TypeFacts
<1>2. CASE sealed = <<>>
  <2>1. DumpHistory = sealed
    BY <1>2 DEF DumpHistory
  <2>2. QED
    BY <2>1, <1>1, <1>2
<1>3. CASE sealed # <<>>
  <2>1. Len(sealed) > 0 /\ sealed[Len(sealed)].number = latestNumber
    BY <1>1, <1>3 DEF LogShape, EndsAt
  <2>2. DumpHistory = FoldedInto(sealed, openRecord)
    BY <2>1 DEF DumpHistory, FoldedInto
  <2>3. QED
    BY <2>2, <1>1, <1>3, FoldFacts
<1>4. QED
  BY <1>2, <1>3

LEMMA DumpKeeps ==
  ASSUME IInv, DumpState
  PROVE  IInv'
<1>1. TypeOK /\ LogShape /\ HeadExact /\ ServedReadsExact /\ SavedExact
  BY DEF IInv
<1>2. UNCHANGED <<live, openRecord, sealed, latestNumber, historyFloor,
                  storedBlocks, window, numberOption, past>>
  BY DEF DumpState
<1>3. /\ latestNumber \in Nat /\ historyFloor \in Nat /\ window \in Nat
      /\ live \in State /\ sealed \in Seq(Record) /\ storedBlocks \subseteq BlockNumber
      /\ BlockNumber \subseteq Nat /\ past \in [BlockNumber -> State]
      /\ openRecord \in Changes /\ latestNumber \in BlockNumber
  BY <1>1, TypeFacts
<1>4. DumpHistory \in Seq(Record) \cup {NoHistory}
  <2>1. CASE window = 0
    BY <2>1 DEF DumpHistory
  <2>2. CASE window > 0
    BY <2>2, <1>1, DumpedLog
  <2>3. QED
    BY <2>1, <2>2, <1>3
<1>5. TypeOK'
  <2>1. Served \in SUBSET BlockNumber /\ storedBlocks \cap 0..latestNumber \in SUBSET BlockNumber
    BY <1>3 DEF Served
  <2>2. saved' \in Dump
    BY <2>1, <1>3, <1>4 DEF DumpState, Dump
  <2>3. QED
    BY <2>2, <1>1, <1>2 DEF TypeOK
<1>6. LogShape' /\ HeadExact'
  BY <1>1, <1>2 DEF LogShape, HeadExact
<1>7. ServedReadsExact'
  BY <1>1, <1>2 DEF ServedReadsExact, Served, OldestServable, HistoricalValue
<1>8. SavedExact'
  <2> DEFINE h == DumpHistory
  <2>1. /\ saved'.state = live /\ saved'.latest = latestNumber
        /\ saved'.blocks = storedBlocks \cap 0..latestNumber
        /\ saved'.history = h /\ saved'.past = past
    BY DumpFields
  <2>2. saved'.latest \in saved'.blocks /\ \A n \in saved'.blocks : n <= saved'.latest
    BY <2>1, <1>1, <1>3 DEF TypeOK
  <2>3. ASSUME h # NoHistory
        PROVE  /\ Spread(h)
               /\ EndsAt(h, latestNumber)
               /\ \A i \in 1..Len(h) : h[i].number > 0
               /\ h # <<>> =>
                    \A n \in storedBlocks :
                      h[1].number - 1 <= n /\ n < latestNumber =>
                        \A k \in Key : ValueAt(h, NoChanges, live, n, k) = past[n][k]
    <3>1. window > 0
      BY <2>3, <1>3 DEF DumpHistory
    <3>2. /\ h \in Seq(Record) /\ Len(h) = Len(sealed) /\ Len(sealed) \in Nat
          /\ \A i \in 1..Len(sealed) : h[i].number = sealed[i].number
          /\ DOMAIN h = 1..Len(sealed) /\ DOMAIN sealed = 1..Len(sealed)
          /\ sealed # <<>> => h = FoldedInto(sealed, openRecord)
      BY <3>1, <1>1, <1>3, DumpedLog
    <3>3. /\ Spread(sealed) /\ EndsAt(sealed, latestNumber)
          /\ \A i \in 1..Len(sealed) : /\ sealed[i].number > historyFloor
                                       /\ sealed[i].number > latestNumber - window
      BY <1>1 DEF LogShape
    <3>4. \A i \in 1..Len(sealed) : sealed[i].number \in Int
      BY <1>3, EntryType
    <3> HIDE DEF h
    <3>5. Spread(h)
      BY <3>2, <3>3 DEF Spread
    <3>6. EndsAt(h, latestNumber)
      BY <3>2, <3>3 DEF EndsAt
    <3>7. \A i \in 1..Len(h) : h[i].number > 0
      BY <3>2, <3>3, <3>4, <1>3
    <3>8. ASSUME h # <<>>, NEW n \in storedBlocks,
                 h[1].number - 1 <= n, n < latestNumber, NEW k \in Key
          PROVE  ValueAt(h, NoChanges, live, n, k) = past[n][k]
      <4>1. sealed # <<>> /\ 1 \in 1..Len(sealed) /\ Len(sealed) \in 1..Len(sealed)
        BY <3>2, <3>8
      <4>2. n \in Nat /\ n \in Int
        BY <1>3
      <4>3. n \in Served
        <5>1. historyFloor <= n /\ latestNumber - window <= n
          BY <4>1, <4>2, <3>2, <3>3, <3>4, <3>8, <1>3
        <5>2. QED
          BY <5>1, <3>1, <3>8, <1>1, ServedIs
      <4>4. n < sealed[Len(sealed)].number
        BY <4>1, <3>3, <3>8 DEF EndsAt
      <4>5. ValueAt(FoldedInto(sealed, openRecord), NoChanges, live, n, k)
              = ValueAt(sealed, openRecord, live, n, k)
        BY <4>1, <4>2, <4>4, <1>3, FoldReads
      <4>6. HistoricalValue(n, k) = past[n][k]
        BY <4>3, <1>1 DEF ServedReadsExact
      <4>7. QED
        BY <4>1, <4>5, <4>6, <3>2 DEF HistoricalValue
    <3>9. QED
      BY <3>5, <3>6, <3>7, <3>8
  <2> HIDE DEF h
  <2>4. saved'.blocks \subseteq storedBlocks
    BY <2>1
  <2>5. QED
    BY <2>1, <2>2, <2>3, <2>4 DEF SavedExact
<1>9. QED
  BY <1>5, <1>6, <1>7, <1>8 DEF IInv

-----------------------------------------------------------------------------
(* Loading a dump, in place or into a fresh node. *)

(* Over a state with no key the dump lacks, loading gives the saved state.   *)
LEMMA LoadedState ==
  ASSUME TypeOK, saved # NoDump, NEW base \in State, CoveredByDump(base),
         NEW w, LoadOnto(base, w)
  PROVE  live' = saved.state
<1>1. saved \in Dump
  BY DEF TypeOK
<1>2. saved.state \in [Key -> Content]
  BY <1>1 DEF Dump, State
<1> DEFINE loaded == [k \in Key |-> IF saved.state[k] = Absent THEN base[k]
                                    ELSE saved.state[k]]
<1>3. ASSUME NEW k \in Key PROVE loaded[k] = saved.state[k]
  BY <1>3 DEF CoveredByDump
<1>4. DOMAIN loaded = Key /\ loaded = [k \in Key |-> loaded[k]]
  OBVIOUS
<1>5. live' = loaded
  BY DEF LoadOnto
<1> HIDE DEF loaded
<1>6. QED
  BY <1>2, <1>3, <1>4, <1>5

(* The saved log as it is loaded: nothing when there is none to restore.      *)
LoadedRecords(w) ==
  IF w = 0 \/ saved.history = NoHistory THEN <<>>
  ELSE RestoredRecords(saved.history, saved.latest, w)

(* What a load makes of each variable, the log by its properties.            *)
LEMMA LoadedLog ==
  ASSUME TypeOK, SavedExact, saved # NoDump, NEW w \in Nat
  PROVE  LET r == LoadedRecords(w)
             floor == RestoredFloor(r, saved.latest)
         IN  /\ r \in Seq(Record)
             /\ Spread(r) /\ EndsAt(r, saved.latest)
             /\ Contiguous(r, saved.latest)
             /\ \A i \in 1..Len(r) : r[i].number > floor /\ r[i].number > saved.latest - w
             /\ floor \in BlockNumber /\ floor <= saved.latest
             /\ r = <<>> => floor = saved.latest
             /\ w = 0 => r = <<>>
             /\ r # <<>> =>
                  /\ w > 0
                  /\ floor = r[1].number - 1
                  /\ saved.history \in Seq(Record)
                  /\ \E d \in 0..Len(saved.history) : IsSuffix(r, saved.history, d)
<1> DEFINE r == LoadedRecords(w)
           h == saved.history
           head == saved.latest
<1>1. head \in BlockNumber /\ head \in Nat /\ h \in Seq(Record) \cup {NoHistory}
  BY HistoryAssumption DEF TypeOK, Dump, BlockNumber
<1>2. CASE w = 0 \/ h = NoHistory
  <2>1. r = <<>>
    BY <1>2 DEF LoadedRecords
  <2>2. RestoredFloor(r, head) = head
    BY <2>1 DEF RestoredFloor
  <2>3. /\ r \in Seq(Record) /\ 1..Len(r) = {} /\ DOMAIN r = {}
    BY <2>1
  <2> HIDE DEF r, head
  <2>4. Spread(r) /\ EndsAt(r, head) /\ Contiguous(r, head)
    BY <2>1, <2>3 DEF Spread, EndsAt, Contiguous
  <2>5. QED
    BY <1>1, <2>1, <2>2, <2>3, <2>4 DEF r, head
<1>3. CASE ~(w = 0 \/ h = NoHistory)
  <2>1. r = RestoredRecords(h, head, w) /\ w > 0 /\ h \in Seq(Record)
    BY <1>1, <1>3 DEF LoadedRecords
  <2>2. Spread(h) /\ EndsAt(h, head) /\ \A i \in 1..Len(h) : h[i].number > 0
    BY <1>3 DEF SavedExact
  <2> HIDE DEF r, h, head
  <2>3. /\ \E d \in 0..Len(h) : IsSuffix(r, h, d)
        /\ Contiguous(r, head)
        /\ \A i \in 1..Len(r) : r[i].number > head - w /\ r[i].number > RestoredFloor(r, head)
        /\ RestoredFloor(r, head) \in BlockNumber
        /\ RestoredFloor(r, head) <= head
        /\ r = <<>> => RestoredFloor(r, head) = head
        /\ r # <<>> => RestoredFloor(r, head) = r[1].number - 1
    BY <1>1, <2>1, <2>2, RestoredFacts
  <2>4. r \in Seq(Record) /\ Spread(r) /\ EndsAt(r, head)
    <3>1. PICK d \in 0..Len(h) : IsSuffix(r, h, d)
      BY <2>3
    <3>2. r \in Seq(Record)
      BY <3>1 DEF IsSuffix
    <3>3. head \in Int
      BY <1>1
    <3>4. QED
      BY <3>1, <3>2, <3>3, <2>1, <2>2, SuffixShape
  <2>5. QED
    BY <2>1, <2>3, <2>4 DEF r, h, head
<1>4. QED
  BY <1>2, <1>3

LEMMA LoadKeeps ==
  ASSUME IInv, saved # NoDump, NEW base \in State, CoveredByDump(base),
         NEW w \in Windows, LoadOnto(base, w), window' = w,
         numberOption' \in NumberOptions
  PROVE  IInv'
<1> DEFINE r == LoadedRecords(w)
           floor == RestoredFloor(r, saved.latest)
           head == saved.latest
<1>1. TypeOK /\ SavedExact /\ w \in Nat
  BY HistoryAssumption DEF IInv
<1>2. /\ saved.state \in State /\ saved.blocks \subseteq BlockNumber
      /\ saved.past \in [BlockNumber -> State]
      /\ head \in BlockNumber /\ head \in Nat /\ BlockNumber \subseteq Nat
  BY <1>1, HistoryAssumption DEF TypeOK, Dump, BlockNumber
<1>3. /\ live' = saved.state
      /\ latestNumber' = head
      /\ storedBlocks' = saved.blocks
      /\ openRecord' = NoChanges
      /\ sealed' = r
      /\ historyFloor' = floor
      /\ past' = [saved.past EXCEPT ![head] = saved.state]
      /\ saved' = saved
  BY <1>1, LoadedState DEF LoadOnto, LoadedRecords
<1>4. /\ r \in Seq(Record)
      /\ Spread(r) /\ EndsAt(r, head)
      /\ \A i \in 1..Len(r) : r[i].number > floor /\ r[i].number > head - w
      /\ floor \in BlockNumber /\ floor <= head
      /\ r = <<>> => floor = head
      /\ w = 0 => r = <<>>
      /\ r # <<>> =>
           /\ w > 0
           /\ floor = r[1].number - 1
           /\ saved.history \in Seq(Record)
           /\ \E d \in 0..Len(saved.history) : IsSuffix(r, saved.history, d)
  BY <1>1, LoadedLog
<1> HIDE DEF r, floor
<1>5. NoChanges \in Changes
  BY DEF NoChanges, Changes
<1>6. /\ past' \in [BlockNumber -> State]
      /\ past'[head] = saved.state
      /\ \A n \in BlockNumber : n # head => past'[n] = saved.past[n]
  BY <1>2, <1>3
<1>7. head \in saved.blocks
  BY <1>1 DEF SavedExact
<1>8. TypeOK'
  BY <1>1, <1>2, <1>3, <1>4, <1>5, <1>6, <1>7 DEF TypeOK
<1>9. LogShape'
  <2>1. \A n \in saved.blocks : n <= head
    BY <1>1 DEF SavedExact
  <2>2. QED
    BY <2>1, <1>3, <1>4 DEF LogShape
<1>10. HeadExact'
  <2>1. ASSUME NEW k \in Key
        PROVE  KeepOlder(NoChanges[k], saved.state[k]) = saved.state[k]
    BY DEF KeepOlder, NoChanges
  <2>2. QED
    BY <2>1, <1>3, <1>6 DEF HeadExact
<1>11. ServedReadsExact'
  <2>1. SUFFICES ASSUME NEW n \in Served', NEW k \in Key
                 PROVE  HistoricalValue(n, k)' = past'[n][k]
    BY DEF ServedReadsExact
  <2>2. /\ w > 0 /\ n \in saved.blocks /\ floor <= n /\ n < head
        /\ n \in BlockNumber /\ n \in Nat
    BY <1>2, <1>3, <1>8, ServedIsNext
  <2>3. r # <<>>
    BY <2>2, <1>2, <1>4
  <2> DEFINE h == saved.history
  <2>4. /\ h \in Seq(Record) /\ floor = r[1].number - 1
        /\ \E d \in 0..Len(h) : IsSuffix(r, h, d)
    BY <2>3, <1>4
  <2>5. PICK d \in 0..Len(h) : IsSuffix(r, h, d)
    BY <2>4
  <2>6. h # NoHistory
    BY <2>4, HistoryAssumption
  <2>7. /\ Spread(h) /\ EndsAt(h, head)
        /\ h # <<>> =>
             \A m \in saved.blocks :
               h[1].number - 1 <= m /\ m < head =>
                 \A j \in Key :
                   ValueAt(h, NoChanges, saved.state, m, j) = saved.past[m][j]
    BY <2>6, <1>1 DEF SavedExact
  <2> HIDE DEF h
  <2>8. /\ Len(r) \in Nat /\ Len(h) \in Nat /\ d \in Nat /\ 1 \in 1..Len(r)
        /\ 1 + d \in 1..Len(h) /\ r[1] = h[1 + d] /\ h # <<>> /\ 1 \in 1..Len(h)
        /\ DOMAIN h = 1..Len(h)
    BY <2>3, <2>4, <2>5 DEF IsSuffix
  <2> DEFINE m == 1 + d
  <2>9. m \in 1..Len(h) /\ r[1] = h[m] /\ m = 1 + d
    BY <2>8
  <2> HIDE DEF m
  <2>10. \A i \in 1..Len(h) : h[i].number \in Int
    BY <2>4, EntryType
  <2>11. ASSUME NEW i \in 1..m
         PROVE  h[i].number <= h[m].number - (m - i) /\ i \in 1..Len(h)
    <3>1. i \in 1..Len(h) /\ i <= m
      BY <2>8, <2>9
    <3>2. h[m].number - h[i].number >= m - i
      BY <3>1, <2>7, <2>8, <2>9 DEF Spread
    <3>3. QED
      BY <3>1, <3>2, <2>8, <2>9, <2>10
  <2>12. h[m].number - 1 <= n /\ h[m].number \in Int
    BY <2>2, <2>4, <2>9, <2>10
  <2>13. \A i \in 1..d : h[i].number <= n
    <3>1. ASSUME NEW i \in 1..d PROVE h[i].number <= n
      <4>1. i \in 1..m /\ m - i >= 1 /\ i \in 1..Len(h)
        BY <2>8, <2>9
      <4>2. h[i].number <= h[m].number - (m - i)
        BY <4>1, <2>11
      <4>3. QED
        BY <4>1, <4>2, <2>12, <2>10, <2>2, <2>9, <2>8
    <3>2. QED
      BY <3>1
  <2>14. h[1].number - 1 <= n
    <3>1. 1 \in 1..m
      BY <2>8, <2>9
    <3>2. h[1].number <= h[m].number - (m - 1)
      BY <3>1, <2>11
    <3>3. QED
      BY <3>1, <3>2, <2>8, <2>9, <2>10, <2>12, <2>2
  <2>15. ValueAt(h, NoChanges, saved.state, n, k) = saved.past[n][k]
    BY <2>2, <2>7, <2>8, <2>14
  <2>16. ValueAt(r, NoChanges, saved.state, n, k) = ValueAt(h, NoChanges, saved.state, n, k)
    <3>1. n \in Int
      BY <2>2
    <3>2. QED
      BY <3>1, <2>4, <2>5, <2>13, SuffixReads DEF h
  <2>17. past'[n] = saved.past[n]
    BY <2>2, <1>2, <1>6
  <2>18. QED
    BY <2>15, <2>16, <2>17, <1>3 DEF HistoricalValue
<1>12. SavedExact'
  BY <1>1, <1>3 DEF SavedExact
<1>13. QED
  BY <1>8, <1>9, <1>10, <1>11, <1>12 DEF IInv

LEMMA NextKeeps == IInv /\ [CarefulNext]_vars => IInv'
<1> SUFFICES ASSUME IInv, [CarefulNext]_vars PROVE IInv'
  OBVIOUS
<1>1. ASSUME NEW k \in Key, NEW v \in Content, Write(k, v)
      PROVE  IInv'
  BY <1>1, WriteKeeps
<1>2. CASE MinesForward /\ MineBlock
  BY <1>2, MineKeeps
<1>3. CASE DumpState
  BY <1>3, DumpKeeps
<1>4. CASE CoveredByDump(live) /\ LoadState
  <2>1. /\ saved # NoDump /\ LoadOnto(live, window) /\ window' = window
        /\ numberOption' = numberOption
    BY <1>4 DEF LoadState
  <2>2. live \in State /\ window \in Windows /\ numberOption \in NumberOptions
    BY DEF IInv, TypeOK
  <2>3. QED
    BY <2>1, <2>2, <1>4, LoadKeeps
<1>5. ASSUME NEW w \in Windows, NEW number \in NumberOptions,
             CoveredByDump(Genesis), CreateNode(w, number)
      PROVE  IInv'
  <2>1. /\ saved # NoDump /\ LoadOnto(Genesis, w) /\ window' = w
        /\ numberOption' \in NumberOptions
    BY <1>5 DEF CreateNode
  <2>2. Genesis \in State
    BY HistoryAssumption
  <2>3. QED
    BY <2>1, <2>2, <1>5, LoadKeeps
<1>6. CASE UNCHANGED vars
  BY <1>6 DEF vars, IInv, TypeOK, LogShape, HeadExact, ServedReadsExact, SavedExact,
              Served, OldestServable, HistoricalValue
<1>7. QED
  BY <1>1, <1>2, <1>3, <1>4, <1>5, <1>6 DEF CarefulNext

LEMMA HistoryCorrect == CarefulSpec => []IInv
<1>1. QED
  BY InitHolds, NextKeeps, PTL DEF CarefulSpec

(* Every variable keeps its type, whatever the options and the dumps.        *)
THEOREM HistoryTypeCorrect == CarefulSpec => []TypeOK
<1>1. IInv => TypeOK
  BY DEF IInv
<1>2. QED
  BY <1>1, HistoryCorrect, PTL

(* A read of a past block the gate of historicalBlock lets through is        *)
(* answered as when that block was the head.                                *)
THEOREM PastReadsExact == CarefulSpec => []ServedReadsExact
<1>1. IInv => ServedReadsExact
  BY DEF IInv
<1>2. QED
  BY <1>1, HistoryCorrect, PTL

(* The log has at most one entry for each block of the window, in order.     *)
THEOREM LogAlwaysBounded == CarefulSpec => []LogBounded
<1>1. ASSUME IInv PROVE LogBounded
  <2>1. TypeOK /\ LogShape
    BY <1>1 DEF IInv
  <2>2. /\ latestNumber \in Nat /\ window \in Nat /\ sealed \in Seq(Record)
        /\ Len(sealed) \in Nat /\ DOMAIN sealed = 1..Len(sealed)
        /\ window = 0 => sealed = <<>>
    BY <2>1, TypeFacts DEF TypeOK
  <2>3. /\ Spread(sealed) /\ EndsAt(sealed, latestNumber)
        /\ \A i \in 1..Len(sealed) : sealed[i].number > latestNumber - window
    BY <2>1 DEF LogShape
  <2>4. \A i \in 1..Len(sealed) : sealed[i].number \in Int /\ sealed[i].number <= latestNumber
    BY <2>1, <2>2, LogBelowHead, EntryType
  <2>5. Len(sealed) <= window
    <3>1. CASE sealed = <<>>
      BY <3>1, <2>2
    <3>2. CASE sealed # <<>>
      <4>1. 1 \in 1..Len(sealed)
        BY <3>2, <2>2
      <4>2. sealed[1].number <= latestNumber - (Len(sealed) - 1)
        BY <4>1, <2>2, <2>3, SpreadBounds
      <4>3. QED
        BY <4>1, <4>2, <2>2, <2>3, <2>4
    <3>3. QED
      BY <3>1, <3>2
  <2>6. \A i, j \in DOMAIN sealed : i < j => sealed[i].number < sealed[j].number
    BY <2>2, <2>3, <2>4 DEF Spread
  <2>7. QED
    BY <2>1, <2>2, <2>3, <2>4, <2>5, <2>6 DEF LogBounded
<1>2. QED
  BY <1>1, HistoryCorrect, PTL

-----------------------------------------------------------------------------
(* A reload keeps the window: while no number was skipped, the log has an     *)
(* entry for every block after the oldest one served, and so has a dump.      *)

LogCovers ==
  storedBlocks = 0..latestNumber /\ window > 0 =>
    /\ Contiguous(sealed, latestNumber)
    /\ \A n \in Served : latestNumber - n <= Len(sealed)

SavedCovers ==
  saved # NoDump =>
    /\ saved.history = NoHistory => saved.served = {}
    /\ \A n \in saved.served :
         n \in saved.blocks /\ n < saved.latest /\ saved.latest - saved.window <= n
    /\ saved.history # NoHistory /\ saved.blocks = 0..saved.latest =>
         /\ Contiguous(saved.history, saved.latest)
         /\ \A n \in saved.served : saved.latest - n <= Len(saved.history)

CoverInv == IInv /\ LogCovers /\ SavedCovers

(* Sealing the next block, or the head again, leaves no gap.                 *)
LEMMA SealCovers ==
  ASSUME TypeOK, LogShape, LogCovers, window > 0,
         NEW number \in BlockNumber, number >= latestNumber, number > historyFloor,
         storedBlocks \cup {number} = 0..number
  PROVE  /\ Contiguous(Seal(number), number)
         /\ \A n \in storedBlocks :
              historyFloor <= n /\ number - window <= n /\ n < number =>
                number - n <= Len(Seal(number))
<1> DEFINE N == Len(sealed)
           r == Seal(number)
<1>1. /\ sealed \in Seq(Record) /\ openRecord \in Changes /\ N \in Nat
      /\ latestNumber \in Nat /\ historyFloor \in Nat /\ number \in Nat /\ window \in Nat
      /\ DOMAIN sealed = 1..N /\ latestNumber \in storedBlocks
      /\ storedBlocks \subseteq Nat
  BY TypeFacts DEF TypeOK
<1>2. /\ EndsAt(sealed, latestNumber)
      /\ sealed = <<>> => historyFloor = latestNumber
      /\ \A n \in storedBlocks : n <= latestNumber
  BY DEF LogShape
<1>3. storedBlocks = 0..latestNumber /\ number \in {latestNumber, latestNumber + 1}
  <2>1. ASSUME number > latestNumber PROVE number = latestNumber + 1
    <3>1. number - 1 \in 0..number /\ number - 1 # number
      BY <2>1, <1>1
    <3>2. number - 1 \in storedBlocks
      BY <3>1
    <3>3. number - 1 <= latestNumber
      BY <3>2, <1>2
    <3>4. QED
      BY <3>3, <2>1, <1>1
  <2>2. ASSUME NEW n \in 0..latestNumber PROVE n \in storedBlocks
    <3>1. n \in 0..number /\ (n = number => n = latestNumber)
      BY <1>1
    <3>2. QED
      BY <3>1, <1>1
  <2>3. \A n \in storedBlocks : n \in 0..latestNumber
    BY <1>1, <1>2
  <2>4. storedBlocks = 0..latestNumber
    BY <2>2, <2>3
  <2>5. QED
    BY <2>1, <2>4, <1>1
<1>4. /\ \A i \in 1..N : sealed[i].number = latestNumber - (N - i)
      /\ \A n \in Served : latestNumber - n <= N
  BY <1>1, <1>3 DEF LogCovers, Contiguous
<1>5. CASE number = latestNumber
  <2>1. sealed # <<>>
    BY <1>5, <1>2, <1>1
  <2>2. N > 0 /\ sealed[N].number = number
    BY <2>1, <1>1, <1>2, <1>5 DEF EndsAt
  <2>3. r = FoldedInto(sealed, openRecord)
    BY <2>2 DEF Seal, FoldedInto
  <2>4. /\ r \in Seq(Record) /\ Len(r) = N /\ DOMAIN r = 1..N
        /\ \A i \in 1..N : r[i].number = sealed[i].number
    BY <2>1, <2>3, <1>1, FoldFacts
  <2> HIDE DEF r
  <2>5. Contiguous(r, number)
    BY <2>4, <1>4, <1>5 DEF Contiguous
  <2>6. ASSUME NEW n \in storedBlocks, historyFloor <= n, number - window <= n, n < number
        PROVE  number - n <= Len(r)
    <3>1. n \in Served
      BY <2>6, <1>5, ServedIs
    <3>2. QED
      BY <3>1, <1>4, <1>5, <2>4
  <2>7. QED
    BY <2>5, <2>6 DEF r
<1>6. CASE number = latestNumber + 1
  <2> DEFINE e == [number |-> number, changes |-> openRecord]
  <2>1. ~(N > 0 /\ sealed[N].number = number)
    <3>1. SUFFICES ASSUME N > 0 PROVE sealed[N].number # number
      OBVIOUS
    <3>2. N \in 1..N
      BY <3>1, <1>1
    <3>3. sealed[N].number = latestNumber
      BY <3>2, <1>4, <1>1
    <3>4. QED
      BY <3>3, <1>1, <1>6
  <2>2. r = Append(sealed, e)
    BY <2>1 DEF Seal
  <2>3. e \in Record /\ e.number = number
    BY <1>1 DEF Record
  <2> HIDE DEF e, r
  <2>4. /\ r \in Seq(Record) /\ Len(r) = N + 1 /\ DOMAIN r = 1..(N + 1)
        /\ \A i \in 1..N : r[i] = sealed[i]
        /\ r[N + 1] = e
    BY <1>1, <2>2, <2>3
  <2>5. ASSUME NEW i \in 1..(N + 1)
        PROVE  r[i].number = number - ((N + 1) - i)
    <3>1. CASE i = N + 1
      BY <3>1, <2>3, <2>4, <1>1
    <3>2. CASE i \in 1..N
      <4>1. r[i].number = latestNumber - (N - i)
        BY <3>2, <2>4, <1>4
      <4>2. QED
        BY <4>1, <3>2, <1>1, <1>6
    <3>3. QED
      BY <3>1, <3>2, <1>1
  <2>6. Contiguous(r, number)
    BY <2>4, <2>5 DEF Contiguous
  <2>7. ASSUME NEW n \in storedBlocks, historyFloor <= n, number - window <= n, n < number
        PROVE  number - n <= Len(r)
    <3>1. n \in Nat /\ n <= latestNumber
      BY <1>1, <1>2
    <3>2. CASE n = latestNumber
      BY <3>2, <2>4, <1>1, <1>6
    <3>3. CASE n < latestNumber
      <4>1. latestNumber - window <= n
        BY <2>7, <3>1, <1>1, <1>6
      <4>2. n \in Served
        BY <4>1, <2>7, <3>3, ServedIs
      <4>3. latestNumber - n <= N
        BY <4>2, <1>4
      <4>4. QED
        BY <4>3, <3>1, <2>4, <1>1, <1>6
    <3>4. QED
      BY <3>1, <3>2, <3>3, <1>1
  <2>8. QED
    BY <2>6, <2>7 DEF r
<1>7. QED
  BY <1>3, <1>5, <1>6

LEMMA MineCovers ==
  ASSUME CoverInv, MinesForward, MineBlock, IInv'
  PROVE  LogCovers'
<1> DEFINE number == NextNumber
           r == Seal(number)
<1>1. TypeOK /\ LogShape /\ LogCovers /\ TypeOK'
  BY DEF CoverInv, IInv
<1>2. /\ number \in BlockNumber /\ number \in Nat
      /\ number >= latestNumber /\ number > historyFloor
  BY <1>1, NextNumberFacts
<1>3. /\ latestNumber' = number
      /\ storedBlocks' = storedBlocks \cup {number}
      /\ window > 0 => sealed' = Evict(r, number - window)
      /\ UNCHANGED <<historyFloor, window>>
  BY <1>1, TypeFacts DEF MineBlock
<1> HIDE DEF number
<1>4. SUFFICES ASSUME storedBlocks \cup {number} = 0..number, window > 0
               PROVE  /\ Contiguous(sealed', number)
                      /\ \A n \in Served' : number - n <= Len(sealed')
  BY <1>3 DEF LogCovers
<1>5. /\ r \in Seq(Record) /\ Spread(r) /\ window \in Nat /\ number - window \in Int
      /\ Contiguous(r, number)
      /\ \A n \in storedBlocks :
           historyFloor <= n /\ number - window <= n /\ n < number => number - n <= Len(r)
  BY <1>1, <1>2, <1>4, SealFacts, SealCovers, TypeFacts
<1> HIDE DEF r
<1>6. PICK d \in 0..Len(r) :
        /\ IsSuffix(Evict(r, number - window), r, d)
        /\ \A i \in 1..d : r[i].number <= number - window
  BY <1>5, EvictFacts
<1>7. /\ IsSuffix(sealed', r, d) /\ Len(r) \in Nat /\ d \in Nat
      /\ Len(sealed') = Len(r) - d /\ DOMAIN r = 1..Len(r)
      /\ DOMAIN sealed' = 1..Len(sealed')
      /\ \A i \in 1..Len(sealed') : sealed'[i] = r[i + d]
  BY <1>3, <1>4, <1>5, <1>6 DEF IsSuffix
<1>8. \A i \in 1..Len(r) : r[i].number = number - (Len(r) - i)
  BY <1>5, <1>7 DEF Contiguous
<1>9. Contiguous(sealed', number)
  <2>1. ASSUME NEW i \in 1..Len(sealed')
        PROVE  sealed'[i].number = number - (Len(sealed') - i)
    <3> DEFINE j == i + d
    <3>1. j \in 1..Len(r) /\ sealed'[i] = r[j]
      BY <1>7
    <3>2. Len(r) - j = Len(sealed') - i
      BY <1>7
    <3> HIDE DEF j
    <3>3. QED
      BY <3>1, <3>2, <1>8
  <2>2. QED
    BY <2>1, <1>7 DEF Contiguous
<1>10. ASSUME NEW n \in Served'
       PROVE  number - n <= Len(sealed')
  <2>1. /\ n \in storedBlocks' /\ historyFloor' <= n
        /\ latestNumber' - window' <= n /\ n < latestNumber'
    BY <1>1, ServedIsNext
  <2>2. /\ n \in storedBlocks /\ n \in Nat /\ historyFloor <= n
        /\ number - window <= n /\ n < number
    BY <2>1, <1>1, <1>2, <1>3, TypeFacts
  <2>3. CASE d = 0
    BY <2>2, <2>3, <1>5, <1>7
  <2>4. CASE d > 0
    <3>1. d \in 1..d /\ d \in 1..Len(r)
      BY <2>4, <1>6, <1>7
    <3>2. r[d].number <= number - window /\ r[d].number = number - (Len(r) - d)
      BY <3>1, <1>6, <1>8
    <3>3. QED
      BY <3>2, <2>2, <1>2, <1>5, <1>7
  <2>5. QED
    BY <2>3, <2>4, <1>7
<1>11. QED
  BY <1>9, <1>10

LEMMA DumpCovers ==
  ASSUME CoverInv, DumpState
  PROVE  LogCovers' /\ SavedCovers'
<1>1. TypeOK /\ LogShape /\ LogCovers /\ SavedCovers
  BY DEF CoverInv, IInv
<1>2. UNCHANGED <<live, openRecord, sealed, latestNumber, historyFloor,
                  storedBlocks, window, numberOption, past>>
  BY DEF DumpState
<1>3. LogCovers'
  BY <1>1, <1>2 DEF LogCovers, Served, OldestServable
<1>4. /\ saved'.latest = latestNumber
      /\ saved'.blocks = storedBlocks \cap 0..latestNumber
      /\ saved'.history = DumpHistory
      /\ saved'.served = Served /\ saved'.window = window
  BY DumpFields
<1>5. /\ latestNumber \in Nat /\ window \in Nat /\ storedBlocks \subseteq Nat
      /\ sealed \in Seq(Record) /\ DOMAIN sealed = 1..Len(sealed)
  BY <1>1, TypeFacts
<1>6. saved'.blocks = storedBlocks
  <2>1. \A n \in storedBlocks : n \in 0..latestNumber
    BY <1>1, <1>5 DEF LogShape
  <2>2. QED
    BY <2>1, <1>4
<1>7. /\ window = 0 => Served = {}
      /\ \A n \in Served :
           n \in storedBlocks /\ n < latestNumber /\ latestNumber - window <= n
  BY <1>1, <1>5, ServedIs
<1>8. CASE window = 0
  <2>1. DumpHistory = NoHistory
    BY <1>8 DEF DumpHistory
  <2>2. QED
    BY <2>1, <1>8, <1>3, <1>4, <1>7 DEF SavedCovers
<1>9. CASE window > 0
  <2> DEFINE h == DumpHistory
  <2>1. /\ h \in Seq(Record) /\ Len(h) = Len(sealed) /\ DOMAIN h = 1..Len(sealed)
        /\ \A i \in 1..Len(sealed) : h[i].number = sealed[i].number
    BY <1>1, <1>9, DumpedLog
  <2>2. h # NoHistory
    BY <2>1, HistoryAssumption
  <2> HIDE DEF h
  <2>3. ASSUME storedBlocks = 0..latestNumber
        PROVE  /\ Contiguous(h, latestNumber)
               /\ \A n \in Served : latestNumber - n <= Len(h)
    BY <2>1, <2>3, <1>1, <1>5, <1>9 DEF LogCovers, Contiguous
  <2>4. QED
    BY <2>2, <2>3, <1>3, <1>4, <1>6, <1>7 DEF SavedCovers, h
<1>10. QED
  BY <1>5, <1>8, <1>9

LEMMA LoadCovers ==
  ASSUME CoverInv, saved # NoDump, NEW base, NEW w \in Windows,
         LoadOnto(base, w), window' = w, IInv'
  PROVE  LogCovers' /\ SavedCovers'
<1> DEFINE r == LoadedRecords(w)
           floor == RestoredFloor(r, saved.latest)
           head == saved.latest
<1>1. TypeOK /\ SavedExact /\ SavedCovers /\ TypeOK' /\ w \in Nat
  BY HistoryAssumption DEF CoverInv, IInv
<1>2. head \in Nat
  BY <1>1, HistoryAssumption DEF TypeOK, Dump, BlockNumber
<1>3. /\ latestNumber' = head /\ storedBlocks' = saved.blocks
      /\ sealed' = r /\ historyFloor' = floor /\ saved' = saved
  BY DEF LoadOnto, LoadedRecords
<1>4. /\ r \in Seq(Record) /\ Contiguous(r, head)
      /\ r = <<>> => floor = head
      /\ r # <<>> => floor = r[1].number - 1
  BY <1>1, LoadedLog
<1> HIDE DEF r, floor, head
<1>5. ASSUME NEW n \in Served'
      PROVE  head - n <= Len(r)
  <2>1. n \in Nat /\ floor <= n /\ n < head
    <3>1. n \in storedBlocks' /\ historyFloor' <= n /\ n < latestNumber'
      BY <1>1, ServedIsNext
    <3>2. storedBlocks' \subseteq Nat
      BY <1>1, HistoryAssumption DEF TypeOK, BlockNumber
    <3>3. QED
      BY <3>1, <3>2, <1>3
  <2>2. r # <<>>
    BY <2>1, <1>2, <1>4
  <2>3. 1 \in DOMAIN r /\ Len(r) \in Nat
    BY <2>2, <1>4
  <2>4. r[1].number = head - (Len(r) - 1)
    BY <2>3, <1>4 DEF Contiguous
  <2>5. QED
    BY <2>1, <2>2, <2>3, <2>4, <1>2, <1>4
<1>6. LogCovers'
  BY <1>3, <1>4, <1>5 DEF LogCovers
<1>7. SavedCovers'
  BY <1>1, <1>3 DEF SavedCovers
<1>8. QED
  BY <1>6, <1>7

LEMMA NextCovers == CoverInv /\ [CarefulNext]_vars => CoverInv'
<1> SUFFICES ASSUME CoverInv, [CarefulNext]_vars PROVE CoverInv'
  OBVIOUS
<1>1. IInv'
  BY NextKeeps DEF CoverInv
<1> SUFFICES LogCovers' /\ SavedCovers'
  BY <1>1 DEF CoverInv
<1>2. LogCovers /\ SavedCovers
  BY DEF CoverInv
<1>3. ASSUME UNCHANGED <<sealed, latestNumber, historyFloor, storedBlocks, window, saved>>
      PROVE  LogCovers' /\ SavedCovers'
  BY <1>2, <1>3 DEF LogCovers, SavedCovers, Served, OldestServable
<1>4. ASSUME NEW k \in Key, NEW v \in Content, Write(k, v)
      PROVE  LogCovers' /\ SavedCovers'
  BY <1>3, <1>4 DEF Write
<1>5. CASE MinesForward /\ MineBlock
  <2>1. saved' = saved
    BY <1>5 DEF MineBlock
  <2>2. SavedCovers'
    BY <2>1, <1>2 DEF SavedCovers
  <2>3. QED
    BY <2>2, <1>1, <1>5, MineCovers
<1>6. CASE DumpState
  BY <1>6, DumpCovers
<1>7. CASE LoadState
  <2>1. saved # NoDump /\ LoadOnto(live, window) /\ window' = window
    BY <1>7 DEF LoadState
  <2>2. window \in Windows
    BY DEF CoverInv, IInv, TypeOK
  <2>3. QED
    BY <2>1, <2>2, <1>1, LoadCovers
<1>8. ASSUME NEW w \in Windows, NEW number \in NumberOptions, CreateNode(w, number)
      PROVE  LogCovers' /\ SavedCovers'
  BY <1>1, <1>8, LoadCovers DEF CreateNode
<1>9. CASE UNCHANGED vars
  BY <1>3, <1>9 DEF vars
<1>10. QED
  BY <1>1, <1>4, <1>5, <1>6, <1>7, <1>8, <1>9 DEF CarefulNext

LEMMA CoverCorrect == CarefulSpec => []CoverInv
<1>1. Init => CoverInv
  <2>1. SUFFICES ASSUME Init PROVE CoverInv
    OBVIOUS
  <2>2. IInv
    BY <2>1, InitHolds
  <2>3. Served = {}
    BY <2>1, <2>2, ServedIs, TypeFacts DEF Init, IInv
  <2>4. sealed = <<>> /\ saved = NoDump
    BY <2>1 DEF Init
  <2>5. QED
    BY <2>2, <2>3, <2>4 DEF CoverInv, LogCovers, SavedCovers, Contiguous
<1>2. QED
  BY <1>1, NextCovers, PTL DEF CarefulSpec

(* A contiguous log with the entries of every block after n, all within the   *)
(* window, is restored at least that far back.                              *)
LEMMA RestoredReaches ==
  ASSUME NEW records \in Seq(Record), NEW head \in BlockNumber, NEW w \in Nat,
         Contiguous(records, head), NEW n \in Nat, n < head, head - w <= n,
         head - n <= Len(records)
  PROVE  RestoredFloor(RestoredRecords(records, head, w), head) <= n
<1> DEFINE N == Len(records)
           inRun(i) == \A j \in i..N : /\ records[j].number = head - (N - j)
                                       /\ records[j].number > head - w
           run == {i \in 1..N : inRun(i)}
           first == N - (head - n) + 1
           r == RestoredRecords(records, head, w)
<1>1. N \in Nat /\ head \in Nat /\ DOMAIN records = 1..N /\ first \in 1..N
  BY HistoryAssumption DEF BlockNumber
<1>2. \A j \in 1..N : records[j].number = head - (N - j)
  BY <1>1 DEF Contiguous
<1>3. first \in run
  <2>1. ASSUME NEW j \in first..N
        PROVE  records[j].number = head - (N - j) /\ records[j].number > head - w
    <3>1. j \in 1..N /\ N - j < head - n
      BY <1>1
    <3>2. QED
      BY <3>1, <1>1, <1>2
  <2>2. inRun(first)
    BY <2>1
  <2>3. QED
    BY <2>2, <1>1
<1>4. run \in SUBSET (1..N) /\ run # {}
  BY <1>3
<1>5. r = SubSeq(records, Least(run), N)
  BY <1>4 DEF RestoredRecords
<1> HIDE DEF run, first, r
<1>6. Least(run) \in run /\ Least(run) <= first
  BY <1>1, <1>3, <1>4, LeastExists
<1>7. PICK l : l = Least(run) /\ l \in 1..N /\ l <= first
  BY <1>4, <1>6
<1>8. r # <<>> /\ r[1] = records[l]
  BY <1>1, <1>5, <1>7
<1>9. RestoredFloor(r, head) = records[l].number - 1
  BY <1>8 DEF RestoredFloor
<1>10. records[l].number = head - (N - l)
  BY <1>2, <1>7
<1>11. RestoredFloor(r, head) <= n
  BY <1>1, <1>7, <1>9, <1>10 DEF first
<1>12. QED
  BY <1>11 DEF r

(* A node created from a dump serves every block that the node it was        *)
(* written by served, when no number was skipped and its window is no        *)
(* smaller: what IndexedDB persistence promises across a reload.            *)
THEOREM ReloadsKeepWindow == CarefulSpec => ReloadKeepsWindow
<1> DEFINE Reload ==
             (\E w \in Windows, number \in NumberOptions : CreateNode(w, number))
               => (saved.blocks = 0..saved.latest /\ window' >= saved.window
                     => saved.served \subseteq Served')
<1>1. CoverInv /\ [CarefulNext]_vars => [Reload]_vars
  <2>1. SUFFICES ASSUME CoverInv, [CarefulNext]_vars,
                        NEW w \in Windows, NEW number \in NumberOptions,
                        CreateNode(w, number),
                        saved.blocks = 0..saved.latest, window' >= saved.window,
                        NEW n \in saved.served
                 PROVE  n \in Served'
    OBVIOUS
  <2> DEFINE head == saved.latest
             h == saved.history
  <2>2. IInv' /\ TypeOK' /\ TypeOK /\ SavedExact /\ SavedCovers
    BY <2>1, NextKeeps DEF CoverInv, IInv
  <2>3. saved # NoDump /\ LoadOnto(Genesis, w) /\ window' = w
    BY <2>1 DEF CreateNode
  <2>4. /\ head \in BlockNumber /\ head \in Nat /\ w \in Nat /\ saved.window \in Nat
        /\ h \in Seq(Record) \cup {NoHistory}
    BY <2>2, <2>3, HistoryAssumption DEF TypeOK, Dump, BlockNumber
  <2>5. /\ h # NoHistory
        /\ n \in saved.blocks /\ n < head /\ head - saved.window <= n
        /\ Contiguous(h, head) /\ head - n <= Len(h)
    BY <2>1, <2>2, <2>3 DEF SavedCovers
  <2>6. /\ latestNumber' = head /\ storedBlocks' = saved.blocks
        /\ historyFloor' = RestoredFloor(LoadedRecords(w), head)
    BY <2>3 DEF LoadOnto, LoadedRecords
  <2>7. n \in Nat /\ head - w <= n /\ w > 0
    BY <2>1, <2>3, <2>4, <2>5
  <2>8. LoadedRecords(w) = RestoredRecords(h, head, w)
    BY <2>5, <2>7 DEF LoadedRecords
  <2> HIDE DEF head, h
  <2>9. RestoredFloor(RestoredRecords(h, head, w), head) <= n
    BY <2>4, <2>5, <2>7, RestoredReaches
  <2>10. QED
    BY <2>2, <2>3, <2>5, <2>6, <2>7, <2>8, <2>9, ServedIsNext
<1>2. QED
  BY <1>1, CoverCorrect, PTL DEF CarefulSpec, ReloadKeepsWindow
=============================================================================
