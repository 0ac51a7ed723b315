--------------------------- MODULE NodeServiceProofs ---------------------------
(* The step by step node is the atomic one: whatever is awaited, queued,      *)
(* refused, thrown or lost in a crash between two steps of a job, the job has  *)
(* taken effect in one step, and nothing it had half done is seen or saved.   *)
(* For any requests, senders, nonces, ways to mine and persistence.          *)
EXTENDS NodeService, FiniteSetTheorems, SequenceTheorems, TLAPS

(* What the running job has done to the state it found settled, `before`.     *)

Mines(j) == Kind(j) \in {"mine", "tick", "sync"} \/ (Kind(j) = "send" /\ AutoMining)

(* Under auto mining a transaction has a block of its own.                   *)
OwnBlock(j) == AutoMining /\ Kind(j) \in {"send", "sync"}

BatchOf(j, pool) ==
  IF Kind(j) \in {"mine", "tick"} THEN pool
  ELSE IF AutoMining THEN <<Asks[j].tx>> ELSE Append(pool, Asks[j].tx)

PoolAfter(j, pool) == IF OwnBlock(j) THEN pool ELSE <<>>

Unsaved == saved = before.saved

Untouched ==
  /\ levels[1] = before.world
  /\ pending = before.pool
  /\ chain = before.chain
  /\ receipts = before.receipts
  /\ Unsaved

(* It has taken its batch, ...                                               *)
Taken ==
  /\ Mines(job)
  /\ batch = BatchOf(job, before.pool)
  /\ pending = PoolAfter(job, before.pool)

(* ... and n transactions of it have run.                                    *)
Ran(n) ==
  /\ Atomic!Valid(before.world, batch, n)
  /\ levels[1] = Atomic!After(before.world, batch, n)
  /\ receipts = before.receipts \cup Atomic!Txs(batch, n)

RanSome == Taken /\ Ran(done) /\ chain = before.chain /\ Unsaved

RanAll ==
  Taken /\ Ran(Len(batch)) /\ chain = before.chain \cup Atomic!Txs(batch, Len(batch))

(* How a job can end.                                                        *)
Mined ==
  /\ RanAll
  /\ \/ /\ heard = Atomic!Reply(job, batch)
        /\ saved = IF Saves(job) THEN Atomic!Image(levels[1], chain, receipts)
                                 ELSE before.saved
     \/ heard = <<"failed">> /\ Unsaved

Stopped ==
  /\ RanSome
  /\ done < Len(batch)
  /\ \/ ~ Atomic!Valid(before.world, batch, done + 1) /\ heard = <<"refused">>
     \/ Atomic!Valid(before.world, batch, done + 1) /\ heard = <<"failed">>

Queued ==
  /\ Kind(job) = "send" /\ ~ AutoMining
  /\ levels[1] = before.world
  /\ pending = Append(before.pool, Asks[job].tx)
  /\ chain = before.chain /\ receipts = before.receipts /\ Unsaved
  /\ heard = <<"hash">>

ReadDone ==
  Kind(job) \in {"read", "call"} /\ Untouched /\ heard = <<"state", before.world>>

Cheated ==
  /\ Kind(job) = "cheat"
  /\ levels[1] = [before.world EXCEPT ![Asks[job].tx.sender] = Asks[job].tx.nonce]
  /\ pending = before.pool
  /\ chain = before.chain /\ receipts = before.receipts /\ Unsaved
  /\ heard = <<"done">>

Ended == Mined \/ Stopped \/ Queued \/ ReadDone \/ Cheated

(* What each step of a job finds.                                            *)
KindsAt(s) ==
  CASE s = "submit" -> {"send", "sync"}
    [] s = "take" -> {"mine", "tick"}
    [] s = "read" -> {"read"}
    [] s = "cheat" -> {"cheat"}
    [] OTHER -> {"call"}

StepInv ==
  job # Idle =>
    /\ step \in {"submit", "take", "read", "cheat", "enter", "call", "leave"} =>
         Kind(job) \in KindsAt(step) /\ Untouched
    /\ step = "call" => levels[2] = before.world
    /\ step = "leave" => heard = <<"state", before.world>>
    /\ step \in {"mine", "execute", "commit"} => RanSome
    /\ step \in {"execute", "commit"} =>
         done < Len(batch) /\ Atomic!Valid(before.world, batch, done + 1)
    /\ step = "execute" => levels[2] = levels[1]
    /\ step = "commit" =>
         levels[2] = Atomic!After(before.world, batch, done + 1)
    /\ step = "save" =>
         RanAll /\ Unsaved /\ heard = Atomic!Reply(job, batch) /\ Saves(job)
    /\ step = "end" => Ended

(* The timer asks for one block at a time.                                   *)
TimerInv ==
  /\ timerArmed => IntervalMining
  /\ ~ minePending => \A i \in 1..Len(queue) : queue[i] # Tick

(* The records of a settled state and of a saved one.                        *)
Image == [world : [Sender -> Nat], chain : SUBSET Tx, receipts : SUBSET Tx]

SettledStates ==
  [world : [Sender -> Nat], pool : Seq(Tx), chain : SUBSET Tx,
   receipts : SUBSET Tx, saved : Image]

RecordsOK ==
  /\ before \in SettledStates
  /\ saved \in Image
  /\ saved.chain \subseteq chain
  /\ DOMAIN answers = Request
  /\ answers = [r \in Request |-> answers[r]]

ServiceInv == TypeOK /\ RecordsOK /\ StepInv /\ TimerInv

-----------------------------------------------------------------------------
(* Batches. *)

(* The size of a set is the same whichever module names it.                  *)
LEMMA SameSize == \A S : Atomic!Cardinality(S) = Cardinality(S)
  BY DEF Atomic!Cardinality, Cardinality, Atomic!IsFiniteSet, IsFiniteSet

(* Running one more transaction of a batch.                                  *)
LEMMA BatchStep ==
  ASSUME NEW w \in [Sender -> Nat], NEW b \in Seq(Tx), NEW n \in Nat, n < Len(b)
  PROVE  /\ Atomic!After(w, b, n) \in [Sender -> Nat]
         /\ Atomic!After(w, b, n + 1) =
              [Atomic!After(w, b, n) EXCEPT ![b[n + 1].sender] = @ + 1]
         /\ Atomic!Valid(w, b, n + 1) <=>
              /\ Atomic!Valid(w, b, n)
              /\ b[n + 1].nonce = Atomic!After(w, b, n)[b[n + 1].sender]
         /\ Atomic!Txs(b, n + 1) = Atomic!Txs(b, n) \cup {b[n + 1]}
         /\ b[n + 1] \in Tx
<1> DEFINE Of(m, s) == {i \in 1..m : b[i].sender = s}
           m == n + 1
<1>1. m \in Nat /\ m \in 1..m /\ m - 1 = n /\ m \in 1..Len(b)
      /\ 1..m = (1..n) \cup {m} /\ m \notin 1..n
  OBVIOUS
<1>2. b[m] \in Tx /\ b[m].sender \in Sender
  <2>1. \A i \in 1..Len(b) : b[i] \in Tx
    OBVIOUS
  <2> HIDE DEF m
  <2>2. QED
    BY <1>1, <2>1 DEF Tx
<1>3. ASSUME NEW s \in Sender
      PROVE  /\ IsFiniteSet(Of(n, s)) /\ Cardinality(Of(n, s)) \in Nat
             /\ Cardinality(Of(m, s)) =
                  IF b[m].sender = s THEN Cardinality(Of(n, s)) + 1
                                     ELSE Cardinality(Of(n, s))
  <2>1. IsFiniteSet(1..n) /\ Of(n, s) \in SUBSET (1..n)
    BY FS_Interval
  <2>2. IsFiniteSet(Of(n, s))
    BY <2>1, FS_Subset
  <2>3. Cardinality(Of(n, s)) \in Nat
    BY <2>2, FS_CardinalityType
  <2>4. CASE b[m].sender = s
    <3>1. Of(m, s) = Of(n, s) \cup {m} /\ m \notin Of(n, s)
      BY <1>1, <2>4
    <3> HIDE DEF Of
    <3>2. QED
      BY <2>2, <2>3, <2>4, <3>1, FS_AddElement
  <2>5. CASE b[m].sender # s
    <3>1. Of(m, s) = Of(n, s)
      BY <1>1, <2>5
    <3>2. QED
      BY <2>2, <2>3, <2>5, <3>1
  <2>6. QED
    BY <2>4, <2>5
<1>4. \A k : Atomic!After(w, b, k) =
               [s \in Sender |-> w[s] + Cardinality(Of(k, s))]
  BY SameSize DEF Atomic!After
<1> HIDE DEF Of
<1>5. Atomic!After(w, b, n) \in [Sender -> Nat]
  BY <1>3, <1>4
<1>6. Atomic!After(w, b, m) =
        [Atomic!After(w, b, n) EXCEPT ![b[m].sender] = @ + 1]
  <2>1. ASSUME NEW s \in Sender
        PROVE  w[s] + Cardinality(Of(m, s)) =
                 IF s = b[m].sender THEN (w[s] + Cardinality(Of(n, s))) + 1
                                    ELSE w[s] + Cardinality(Of(n, s))
    BY <1>3
  <2> HIDE DEF m
  <2>2. QED
    BY <1>2, <1>4, <2>1
<1>7. Atomic!Valid(w, b, m) <=>
        /\ Atomic!Valid(w, b, n)
        /\ b[m].nonce = Atomic!After(w, b, n)[b[m].sender]
  <2> HIDE DEF m
  <2>1. QED
    BY <1>1 DEF Atomic!Valid
<1>8. Atomic!Txs(b, m) = Atomic!Txs(b, n) \cup {b[m]}
  <2> HIDE DEF m
  <2>1. QED
    BY <1>1 DEF Atomic!Txs
<1>9. QED
  BY <1>2, <1>5, <1>6, <1>7, <1>8

(* Before any of it has run.                                                 *)
LEMMA BatchStart ==
  ASSUME NEW w \in [Sender -> Nat], NEW b \in Seq(Tx)
  PROVE  /\ Atomic!After(w, b, 0) = w
         /\ Atomic!Valid(w, b, 0)
         /\ Atomic!Txs(b, 0) = {}
<1>1. \A s \in Sender : {i \in 1..0 : b[i].sender = s} = {}
  OBVIOUS
<1>2. \A s \in Sender : w[s] + Cardinality({i \in 1..0 : b[i].sender = s}) = w[s]
  BY <1>1, FS_EmptySet
<1>3. Atomic!After(w, b, 0) = w
  BY <1>2, SameSize DEF Atomic!After
<1>4. QED
  BY <1>3 DEF Atomic!Valid, Atomic!Txs

-----------------------------------------------------------------------------
(* What the steps leave alone. *)

(* The timer's facts outlive whatever leaves the chain of jobs alone.        *)
LEMMA StillTimely ==
  ASSUME TimerInv, UNCHANGED <<queue, timer>>
  PROVE  TimerInv'
  BY DEF TimerInv, timer, IntervalMining

(* So do the types of what the settled states hold.                          *)
LEMMA StillRecorded ==
  ASSUME RecordsOK, UNCHANGED <<before, saved, answers>>, chain \subseteq chain'
  PROVE  RecordsOK'
  BY DEF RecordsOK

(* A batch that ran as far as it did keeps having run so far while its job   *)
(* works on the level above.                                                 *)
LEMMA StillRan ==
  ASSUME RanSome,
         UNCHANGED <<job, batch, done, pending, receipts, chain, saved, before, mining>>,
         levels'[1] = levels[1]
  PROVE  RanSome'
<1>1. Taken'
  BY DEF RanSome, Taken, Mines, BatchOf, PoolAfter, OwnBlock, AutoMining, Kind
<1>2. Ran(done)'
  BY DEF RanSome, Ran
<1>3. QED
  BY <1>1, <1>2 DEF RanSome, Unsaved

(* One level more on top of the others.                                      *)
LEMMA AppendedLevel ==
  ASSUME NEW W, NEW L \in Seq(W), NEW x \in W
  PROVE  /\ Append(L, x) \in Seq(W)
         /\ Len(Append(L, x)) = Len(L) + 1
         /\ \A i \in 1..Len(L) : Append(L, x)[i] = L[i]
         /\ Append(L, x)[Len(L) + 1] = x
  OBVIOUS

(* A level opened on a single one is a copy of it.                           *)
LEMMA LevelPushed ==
  ASSUME NEW W, NEW L \in Seq(W), Len(L) = 1
  PROVE  /\ Append(L, L[Len(L)]) \in Seq(W)
         /\ Len(Append(L, L[Len(L)])) = 2
         /\ Append(L, L[Len(L)])[1] = L[1]
         /\ Append(L, L[Len(L)])[2] = L[1]
<1>1. L[1] \in W /\ L[Len(L)] = L[1] /\ 1 \in 1..Len(L) /\ Len(L) + 1 = 2
  OBVIOUS
<1>2. ASSUME NEW x \in W
      PROVE  /\ Append(L, x) \in Seq(W) /\ Len(Append(L, x)) = 2
             /\ Append(L, x)[1] = L[1] /\ Append(L, x)[2] = x
  <2>1. /\ Append(L, x) \in Seq(W)
        /\ Len(Append(L, x)) = Len(L) + 1
        /\ \A i \in 1..Len(L) : Append(L, x)[i] = L[i]
        /\ Append(L, x)[Len(L) + 1] = x
    BY AppendedLevel
  <2>2. QED
    BY <1>1, <2>1
<1>3. QED
  BY <1>1, <1>2

(* Reverting it leaves the first, ...                                        *)
LEMMA LevelDropped ==
  ASSUME NEW W, NEW L \in Seq(W), Len(L) = 2
  PROVE  /\ SubSeq(L, 1, Len(L) - 1) \in Seq(W)
         /\ Len(SubSeq(L, 1, Len(L) - 1)) = 1
         /\ SubSeq(L, 1, Len(L) - 1)[1] = L[1]
  OBVIOUS

(* ... committing it the second.                                             *)
LEMMA LevelMerged ==
  ASSUME NEW W, NEW L \in Seq(W), Len(L) = 2
  PROVE  /\ Append(SubSeq(L, 1, Len(L) - 2), L[Len(L)]) \in Seq(W)
         /\ Len(Append(SubSeq(L, 1, Len(L) - 2), L[Len(L)])) = 1
         /\ Append(SubSeq(L, 1, Len(L) - 2), L[Len(L)])[1] = L[2]
<1>1. SubSeq(L, 1, 0) = <<>> /\ Len(L) - 2 = 0
  OBVIOUS
<1> DEFINE x == L[2]
<1>2. x \in W
  OBVIOUS
<1>3. Append(SubSeq(L, 1, Len(L) - 2), L[Len(L)]) = Append(<<>>, x)
  BY <1>1
<1> HIDE DEF x
<1>4. Append(<<>>, x) \in Seq(W) /\ Len(Append(<<>>, x)) = 1 /\ Append(<<>>, x)[1] = x
  BY <1>2
<1>5. QED
  BY <1>3, <1>4 DEF x

(* A write to the top level leaves the ones below.                           *)
LEMMA LevelReplaced ==
  \A W, x : x \in W =>
    \A L \in Seq(W) :
      /\ Len(L) = 1 => LET M == [L EXCEPT ![1] = x]
                       IN  M \in Seq(W) /\ Len(M) = 1 /\ M[1] = x
      /\ Len(L) = 2 => LET M == [L EXCEPT ![2] = x]
                       IN  M \in Seq(W) /\ Len(M) = 2 /\ M[1] = L[1] /\ M[2] = x
  OBVIOUS

(* The levels a step finds.                                                  *)
LEMMA LevelsAt ==
  ASSUME TypeOK
  PROVE  /\ levels \in Seq([Sender -> Nat])
         /\ Len(levels) \in {1, 2}
         /\ levels[1] \in [Sender -> Nat]
         /\ step \in {"call", "leave", "execute", "commit"} =>
              Len(levels) = 2 /\ levels[2] \in [Sender -> Nat] /\ Top = levels[2]
         /\ step \notin {"call", "leave", "execute", "commit"} =>
              Len(levels) = 1 /\ Top = levels[1]
<1>1. levels \in Seq([Sender -> Nat]) /\ Len(levels) = OpenLevels
  BY DEF TypeOK
<1>2. OpenLevels = IF step \in {"call", "leave", "execute", "commit"} THEN 2 ELSE 1
  BY DEF OpenLevels
<1>3. \A i \in 1..Len(levels) : levels[i] \in [Sender -> Nat]
  BY <1>1
<1>4. Len(levels) = 1 \/ Len(levels) = 2
  BY <1>1, <1>2
<1>5. levels[1] \in [Sender -> Nat]
      /\ (Len(levels) = 2 => levels[2] \in [Sender -> Nat])
  BY <1>3, <1>4
<1> USE DEF Top
<1>6. QED
  BY <1>1, <1>2, <1>4, <1>5

(* What a job may be.                                                        *)
LEMMA KindOfJob ==
  ASSUME NEW j \in Job
  PROVE  /\ j # Tick => j \in Request /\ Asks[j].kind \in Kinds /\ Asks[j].tx \in Tx
         /\ j = Tick => Kind(j) = "tick"
         /\ j # Tick => Kind(j) = Asks[j].kind
         /\ Kind(j) \in Kinds \cup {"tick"}
         /\ j # Idle
  BY ServiceAssumption DEF Job, Kind

(* The state a job found stays as found while it works on the level above.   *)
LEMMA StillUntouched ==
  ASSUME Untouched, UNCHANGED <<pending, chain, receipts, saved, before>>,
         levels'[1] = levels[1]
  PROVE  Untouched'
  BY DEF Untouched, Unsaved

(* The types after a step of the running job.                                *)
LEMMA StillTyped ==
  ASSUME TypeOK, job # Idle, UNCHANGED <<mining, job, queue>>,
         levels' \in Seq([Sender -> Nat]),
         Len(levels') =
           IF step' \in {"call", "leave", "execute", "commit"} THEN 2 ELSE 1,
         step' \in Steps \ {"none"},
         pending' \in Seq(Tx), chain' \subseteq Tx, receipts' \subseteq Tx,
         batch' \in Seq(Tx), done' \in 0..Len(batch')
  PROVE  TypeOK'
  BY DEF TypeOK, OpenLevels

-----------------------------------------------------------------------------
(* Reads, calls and cheats. *)

LEMMA ReadInv == ServiceInv /\ Read => ServiceInv'
<1> SUFFICES ASSUME ServiceInv, Read
             PROVE  ServiceInv'
  OBVIOUS
<1> USE DEF ServiceInv
<1>1. /\ job # Idle /\ step = "read" /\ step' = "end" /\ heard' = <<"state", Top>>
      /\ UNCHANGED <<node, saved, queue, job, before, answers, timer, batch, done>>
  BY DEF Read, At, GotoEnd, Goto
<1>2. Len(levels) = 1 /\ Top = levels[1]
  BY <1>1, LevelsAt
<1>3. Untouched /\ Kind(job) = "read"
  BY <1>1 DEF StepInv, KindsAt
<1>4. TypeOK'
  BY <1>1, <1>2, StillTyped DEF TypeOK, Steps, node, timer
<1>5. RecordsOK' /\ TimerInv'
  BY <1>1, StillRecorded, StillTimely DEF node
<1>6. Untouched'
  BY <1>1, <1>3, StillUntouched DEF node
<1>7. ReadDone'
  BY <1>1, <1>2, <1>3, <1>6 DEF ReadDone, Untouched, Kind
<1>8. StepInv'
  BY <1>1, <1>7 DEF StepInv, Ended
<1>9. QED
  BY <1>4, <1>5, <1>8

LEMMA EnterCallInv == ServiceInv /\ EnterCall => ServiceInv'
<1> SUFFICES ASSUME ServiceInv, EnterCall
             PROVE  ServiceInv'
  OBVIOUS
<1> USE DEF ServiceInv
<1>1. /\ job # Idle /\ step = "enter" /\ step' = "call"
      /\ levels' = Append(levels, levels[Len(levels)])
      /\ UNCHANGED <<pending, chain, receipts, saved, queue, job, before, answers,
                      timer, batch, done, heard>>
  BY DEF EnterCall, At, Goto, Top
<1>2. Len(levels) = 1 /\ levels \in Seq([Sender -> Nat])
  BY <1>1, LevelsAt
<1>3. /\ levels' \in Seq([Sender -> Nat]) /\ Len(levels') = 2
      /\ levels'[1] = levels[1] /\ levels'[2] = levels[1]
  BY <1>1, <1>2, LevelPushed
<1>4. Untouched /\ Kind(job) = "call"
  BY <1>1 DEF StepInv, KindsAt
<1>5. TypeOK'
  BY <1>1, <1>3, StillTyped DEF TypeOK, Steps, timer
<1>6. RecordsOK' /\ TimerInv'
  BY <1>1, StillRecorded, StillTimely
<1>7. Untouched'
  BY <1>1, <1>3, <1>4, StillUntouched
<1>8. StepInv'
  BY <1>1, <1>3, <1>4, <1>7 DEF StepInv, KindsAt, Kind, Untouched
<1>9. QED
  BY <1>5, <1>6, <1>8

LEMMA RunCallInv == ServiceInv /\ RunCall => ServiceInv'
<1> SUFFICES ASSUME ServiceInv, RunCall
             PROVE  ServiceInv'
  OBVIOUS
<1> USE DEF ServiceInv
<1>1. /\ job # Idle /\ step = "call" /\ step' = "leave" /\ heard' = <<"state", Top>>
      /\ UNCHANGED <<pending, chain, receipts, saved, queue, job, before, answers,
                      timer, batch, done>>
  BY DEF RunCall, At, Goto
<1>2. PICK s \in Sender, n \in Nonce : levels' = [levels EXCEPT ![Len(levels)][s] = n]
  BY DEF RunCall
<1>3. /\ levels \in Seq([Sender -> Nat]) /\ Len(levels) = 2 /\ Top = levels[2]
      /\ levels[2] \in [Sender -> Nat]
  BY <1>1, LevelsAt
<1>4. /\ levels' \in Seq([Sender -> Nat]) /\ Len(levels') = 2
      /\ levels'[1] = levels[1]
  <2>1. n \in Nat
    BY ServiceAssumption
  <2>2. PICK x : x = [levels[2] EXCEPT ![s] = n]
    OBVIOUS
  <2>3. x \in [Sender -> Nat]
    BY <1>3, <2>1, <2>2
  <2>4. levels' = [levels EXCEPT ![2] = x]
    BY <1>2, <1>3, <2>2
  <2>5. QED
    BY <1>3, <2>3, <2>4, LevelReplaced
<1>5. Untouched /\ Kind(job) = "call" /\ levels[2] = before.world
  BY <1>1 DEF StepInv, KindsAt
<1>6. TypeOK'
  BY <1>1, <1>4, StillTyped DEF TypeOK, Steps, timer
<1>7. RecordsOK' /\ TimerInv'
  BY <1>1, StillRecorded, StillTimely
<1>8. Untouched'
  BY <1>1, <1>4, <1>5, StillUntouched
<1>9. StepInv'
  BY <1>1, <1>3, <1>5, <1>8 DEF StepInv, KindsAt, Kind
<1>10. QED
  BY <1>6, <1>7, <1>9

LEMMA LeaveCallInv == ServiceInv /\ LeaveCall => ServiceInv'
<1> SUFFICES ASSUME ServiceInv, LeaveCall
             PROVE  ServiceInv'
  OBVIOUS
<1> USE DEF ServiceInv
<1>1. /\ job # Idle /\ step = "leave" /\ step' = "end"
      /\ levels' = SubSeq(levels, 1, Len(levels) - 1)
      /\ UNCHANGED <<pending, chain, receipts, saved, queue, job, before, answers,
                      timer, batch, done, heard>>
  BY DEF LeaveCall, LevelsAfterCall, At, Goto
<1>2. levels \in Seq([Sender -> Nat]) /\ Len(levels) = 2
  BY <1>1, LevelsAt
<1>3. /\ levels' \in Seq([Sender -> Nat]) /\ Len(levels') = 1
      /\ levels'[1] = levels[1]
  BY <1>1, <1>2, LevelDropped
<1>4. Untouched /\ Kind(job) = "call" /\ heard = <<"state", before.world>>
  BY <1>1 DEF StepInv, KindsAt
<1>5. TypeOK'
  BY <1>1, <1>3, StillTyped DEF TypeOK, Steps, timer
<1>6. RecordsOK' /\ TimerInv'
  BY <1>1, StillRecorded, StillTimely
<1>7. Untouched'
  BY <1>1, <1>3, <1>4, StillUntouched
<1>8. ReadDone'
  BY <1>1, <1>4, <1>7 DEF ReadDone, Kind
<1>9. StepInv'
  BY <1>1, <1>8 DEF StepInv, Ended
<1>10. QED
  BY <1>5, <1>6, <1>9

LEMMA CheatInv == ServiceInv /\ Cheat => ServiceInv'
<1> SUFFICES ASSUME ServiceInv, Cheat
             PROVE  ServiceInv'
  OBVIOUS
<1> USE DEF ServiceInv
<1>1. /\ job # Idle /\ step = "cheat" /\ step' = "end" /\ heard' = <<"done">>
      /\ levels' = [levels EXCEPT ![Len(levels)][Asks[job].tx.sender] =
                                     Asks[job].tx.nonce]
      /\ UNCHANGED <<pending, chain, receipts, saved, queue, job, before, answers,
                      timer, batch, done>>
  BY DEF Cheat, At, GotoEnd, Goto
<1>2. Untouched /\ Kind(job) = "cheat" /\ job \in Job
  BY <1>1 DEF StepInv, KindsAt, TypeOK
<1>3. Asks[job].tx \in Tx
  BY <1>2, KindOfJob
<1>4. Asks[job].tx.sender \in Sender /\ Asks[job].tx.nonce \in Nat
  BY <1>3, ServiceAssumption DEF Tx
<1>5. /\ levels \in Seq([Sender -> Nat]) /\ Len(levels) = 1
      /\ levels[1] \in [Sender -> Nat]
  BY <1>1, LevelsAt
<1>6. /\ levels' \in Seq([Sender -> Nat]) /\ Len(levels') = 1
      /\ levels'[1] = [levels[1] EXCEPT ![Asks[job].tx.sender] = Asks[job].tx.nonce]
  <2>1. PICK x : x = [levels[1] EXCEPT ![Asks[job].tx.sender] = Asks[job].tx.nonce]
    OBVIOUS
  <2>2. x \in [Sender -> Nat]
    BY <1>4, <1>5, <2>1
  <2>3. levels' = [levels EXCEPT ![1] = x]
    BY <1>1, <1>5, <2>1
  <2>4. levels' \in Seq([Sender -> Nat]) /\ Len(levels') = 1 /\ levels'[1] = x
    BY <1>5, <2>2, <2>3, LevelReplaced
  <2>5. QED
    BY <2>1, <2>4
<1>7. TypeOK'
  BY <1>1, <1>6, StillTyped DEF TypeOK, Steps, timer
<1>8. RecordsOK' /\ TimerInv'
  BY <1>1, StillRecorded, StillTimely
<1>9. Cheated'
  BY <1>1, <1>2, <1>6 DEF Cheated, Kind, Untouched, Unsaved
<1>10. StepInv'
  BY <1>1, <1>9 DEF StepInv, Ended
<1>11. QED
  BY <1>7, <1>8, <1>10

-----------------------------------------------------------------------------
(* Taking a batch and running it. *)

(* What is known of a batch.                                                 *)
LEMMA BatchTypes ==
  ASSUME ServiceInv
  PROVE  /\ before.world \in [Sender -> Nat] /\ batch \in Seq(Tx)
         /\ before.pool \in Seq(Tx)
         /\ done \in Nat /\ done \in 0..Len(batch) /\ Len(batch) \in Nat
<1>1. before \in SettledStates /\ batch \in Seq(Tx) /\ done \in 0..Len(batch)
  BY DEF ServiceInv, RecordsOK, TypeOK
<1>2. before.world \in [Sender -> Nat] /\ before.pool \in Seq(Tx)
  BY <1>1 DEF SettledStates
<1>3. Len(batch) \in Nat
  BY <1>1
<1>4. QED
  BY <1>1, <1>2, <1>3

(* A batch just taken.                                                       *)
LEMMA JustTaken ==
  ASSUME Untouched, before.world \in [Sender -> Nat], batch' \in Seq(Tx), done' = 0,
         Taken', UNCHANGED <<levels, chain, receipts, saved, before>>
  PROVE  RanSome'
<1>1. /\ Atomic!After(before.world, batch', 0) = before.world
      /\ Atomic!Valid(before.world, batch', 0)
      /\ Atomic!Txs(batch', 0) = {}
  BY BatchStart
<1>2. Ran(done)'
  BY <1>1 DEF Ran, Untouched
<1>3. QED
  BY <1>2 DEF RanSome, Untouched, Unsaved

LEMMA TakeBatchInv == ServiceInv /\ TakeBatch => ServiceInv'
<1> SUFFICES ASSUME ServiceInv, TakeBatch
             PROVE  ServiceInv'
  OBVIOUS
<1> USE DEF ServiceInv
<1>1. /\ job # Idle /\ step = "take" /\ step' = "mine" /\ done' = 0
      /\ batch' = pending /\ pending' = <<>>
      /\ UNCHANGED <<levels, chain, receipts, saved, queue, job, before, answers,
                      timer, heard>>
  BY DEF TakeBatch, PoolAfterTake, At, Goto
<1>2. Untouched /\ Kind(job) \in {"mine", "tick"}
  BY <1>1 DEF StepInv, KindsAt
<1>3. Len(levels) = 1
  BY <1>1, LevelsAt
<1>4. batch' \in Seq(Tx) /\ pending' \in Seq(Tx) /\ done' \in 0..Len(batch')
  BY <1>1 DEF TypeOK
<1>5. TypeOK'
  BY <1>1, <1>3, <1>4, StillTyped DEF TypeOK, Steps, timer
<1>6. RecordsOK' /\ TimerInv'
  BY <1>1, StillRecorded, StillTimely
<1>7. Taken'
  BY <1>1, <1>2 DEF Taken, Mines, BatchOf, PoolAfter, OwnBlock, Kind, Untouched
<1>8. RanSome'
  BY <1>1, <1>2, <1>4, <1>7, JustTaken, BatchTypes
<1>9. StepInv'
  BY <1>1, <1>8 DEF StepInv
<1>10. QED
  BY <1>5, <1>6, <1>9

LEMMA SubmitTxInv == ServiceInv /\ SubmitTx => ServiceInv'
<1> SUFFICES ASSUME ServiceInv, SubmitTx
             PROVE  ServiceInv'
  OBVIOUS
<1> USE DEF ServiceInv
<1>1. /\ job # Idle /\ step = "submit" /\ done' = 0
      /\ UNCHANGED <<levels, chain, receipts, saved, queue, job, before, answers, timer>>
  BY DEF SubmitTx, At, Goto, GotoEnd
<1>2. Untouched /\ Kind(job) \in {"send", "sync"} /\ job \in Job
  BY <1>1 DEF StepInv, KindsAt, TypeOK
<1>3. Asks[job].tx \in Tx
  BY <1>2, KindOfJob
<1>4. Len(levels) = 1
  BY <1>1, LevelsAt
<1>5. pending \in Seq(Tx) /\ batch \in Seq(Tx)
  BY DEF TypeOK
<1>6. RecordsOK' /\ TimerInv'
  BY <1>1, StillRecorded, StillTimely
<1>7. CASE Taken' /\ step' = "mine" /\ batch' \in Seq(Tx) /\ pending' \in Seq(Tx)
  <2>1. done' \in 0..Len(batch')
    BY <1>1, <1>7
  <2>2. TypeOK'
    BY <1>1, <1>4, <1>7, <2>1, StillTyped DEF TypeOK, Steps, timer
  <2>3. RanSome'
    BY <1>1, <1>2, <1>7, JustTaken, BatchTypes
  <2>4. StepInv'
    BY <1>1, <1>7, <2>3 DEF StepInv
  <2>5. QED
    BY <1>6, <2>2, <2>4
<1>8. CASE /\ AutoMining
           /\ batch' = <<Asks[job].tx>>
           /\ Goto("mine")
           /\ UNCHANGED <<pending, heard>>
  <2>1. Taken'
    BY <1>1, <1>2, <1>8
    DEF Taken, Mines, BatchOf, PoolAfter, OwnBlock, Kind, Untouched, AutoMining, timer
  <2>2. batch' \in Seq(Tx)
    BY <1>3, <1>8
  <2>3. QED
    BY <1>5, <1>7, <1>8, <2>1, <2>2 DEF Goto
<1>9. CASE /\ ~ AutoMining
           /\ Kind(job) = "sync"
           /\ batch' = Append(pending, Asks[job].tx)
           /\ pending' = PoolAfterTake
           /\ Goto("mine")
           /\ UNCHANGED heard
  <2>1. Taken'
    BY <1>1, <1>2, <1>9
    DEF Taken, Mines, BatchOf, PoolAfter, OwnBlock, Kind, Untouched, AutoMining, timer,
        PoolAfterTake
  <2>2. batch' \in Seq(Tx) /\ pending' \in Seq(Tx)
    BY <1>3, <1>5, <1>9 DEF PoolAfterTake
  <2>3. QED
    BY <1>7, <1>9, <2>1, <2>2 DEF Goto
<1>10. CASE /\ ~ AutoMining
            /\ Kind(job) = "send"
            /\ pending' = Append(pending, Asks[job].tx)
            /\ GotoEnd(<<"hash">>)
            /\ UNCHANGED batch
  <2>1. pending' \in Seq(Tx)
    BY <1>3, <1>5, <1>10
  <2>2. step' = "end" /\ heard' = <<"hash">> /\ batch' = batch
    BY <1>10 DEF Goto, GotoEnd
  <2>3. done' \in 0..Len(batch')
    BY <1>1, <1>5, <2>2
  <2>4. TypeOK'
    BY <1>1, <1>4, <1>5, <2>1, <2>2, <2>3, StillTyped DEF TypeOK, Steps, timer
  <2>5. Queued'
    BY <1>1, <1>2, <1>10, <2>2
    DEF Queued, Untouched, Unsaved, Kind, AutoMining, timer
  <2>6. StepInv'
    BY <1>1, <2>2, <2>5 DEF StepInv, Ended
  <2>7. QED
    BY <1>6, <2>4, <2>6
<1>11. QED
  BY <1>8, <1>9, <1>10 DEF SubmitTx

(* The next transaction of the running batch, and the state it meets.        *)
LEMMA NextFacts ==
  ASSUME ServiceInv, RanSome, done < Len(batch)
  PROVE  /\ Next1 \in Tx /\ Next1.sender \in Sender
         /\ levels[1] = Atomic!After(before.world, batch, done)
         /\ Atomic!Valid(before.world, batch, done)
         /\ Atomic!Valid(before.world, batch, done + 1)
              <=> Next1.nonce = levels[1][Next1.sender]
         /\ Atomic!After(before.world, batch, done + 1) =
              [levels[1] EXCEPT ![Next1.sender] = @ + 1]
         /\ Atomic!Txs(batch, done + 1) = Atomic!Txs(batch, done) \cup {Next1}
<1>1. Ran(done)
  BY DEF RanSome
<1>2. /\ levels[1] = Atomic!After(before.world, batch, done)
      /\ Atomic!Valid(before.world, batch, done)
  BY <1>1 DEF Ran
<1>3. /\ before.world \in [Sender -> Nat] /\ batch \in Seq(Tx) /\ done \in Nat
  BY BatchTypes
<1> DEFINE e == done + 1
<1>4. /\ Atomic!After(before.world, batch, e) =
           [Atomic!After(before.world, batch, done) EXCEPT ![batch[e].sender] = @ + 1]
      /\ Atomic!Valid(before.world, batch, e) <=>
           /\ Atomic!Valid(before.world, batch, done)
           /\ batch[e].nonce = Atomic!After(before.world, batch, done)[batch[e].sender]
      /\ Atomic!Txs(batch, e) = Atomic!Txs(batch, done) \cup {batch[e]}
      /\ batch[e] \in Tx
  BY <1>3, BatchStep
<1>5. Next1 = batch[e]
  BY DEF Next1
<1> HIDE DEF e
<1>6. Next1 \in Tx /\ Next1.sender \in Sender
  BY <1>4, <1>5 DEF Tx
<1>7. /\ Atomic!Valid(before.world, batch, e) <=> Next1.nonce = levels[1][Next1.sender]
      /\ Atomic!After(before.world, batch, e) = [levels[1] EXCEPT ![Next1.sender] = @ + 1]
      /\ Atomic!Txs(batch, e) = Atomic!Txs(batch, done) \cup {Next1}
  BY <1>2, <1>4, <1>5
<1>8. QED
  BY <1>2, <1>6, <1>7 DEF e

LEMMA RefuseTxInv == ServiceInv /\ RefuseTx => ServiceInv'
<1> SUFFICES ASSUME ServiceInv, RefuseTx
             PROVE  ServiceInv'
  OBVIOUS
<1> USE DEF ServiceInv
<1>1. /\ job # Idle /\ step = "mine" /\ step' = "end" /\ heard' = <<"refused">>
      /\ done < Len(batch) /\ Next1.nonce # Top[Next1.sender]
      /\ UNCHANGED <<levels, pending, chain, receipts, saved, queue, job, before,
                      answers, timer, batch, done>>
  BY DEF RefuseTx, At, GotoEnd, Goto, node
<1>2. Len(levels) = 1 /\ Top = levels[1]
  BY <1>1, LevelsAt
<1>3. RanSome
  BY <1>1 DEF StepInv
<1>4. ~ Atomic!Valid(before.world, batch, done + 1)
  BY <1>1, <1>2, <1>3, NextFacts
<1>5. TypeOK'
  BY <1>1, <1>2, StillTyped DEF TypeOK, Steps, timer
<1>6. RecordsOK' /\ TimerInv'
  BY <1>1, StillRecorded, StillTimely
<1>7. RanSome'
  BY <1>1, <1>3, StillRan DEF timer
<1>8. Stopped'
  BY <1>1, <1>4, <1>7 DEF Stopped
<1>9. StepInv'
  BY <1>1, <1>8 DEF StepInv, Ended
<1>10. QED
  BY <1>5, <1>6, <1>9

LEMMA EnterTxInv == ServiceInv /\ EnterTx => ServiceInv'
<1> SUFFICES ASSUME ServiceInv, EnterTx
             PROVE  ServiceInv'
  OBVIOUS
<1> USE DEF ServiceInv
<1>1. /\ job # Idle /\ step = "mine" /\ step' = "execute"
      /\ done < Len(batch) /\ Next1.nonce = Top[Next1.sender]
      /\ levels' = Append(levels, levels[Len(levels)])
      /\ UNCHANGED <<pending, chain, receipts, saved, queue, job, before,
                      answers, timer, batch, done, heard>>
  BY DEF EnterTx, At, Goto, Top
<1>2. levels \in Seq([Sender -> Nat]) /\ Len(levels) = 1 /\ Top = levels[1]
  BY <1>1, LevelsAt
<1>3. RanSome
  BY <1>1 DEF StepInv
<1>4. Atomic!Valid(before.world, batch, done + 1)
  BY <1>1, <1>2, <1>3, NextFacts
<1>5. /\ levels' \in Seq([Sender -> Nat]) /\ Len(levels') = 2
      /\ levels'[1] = levels[1] /\ levels'[2] = levels[1]
  BY <1>1, <1>2, LevelPushed
<1>6. TypeOK'
  BY <1>1, <1>5, StillTyped DEF TypeOK, Steps, timer
<1>7. RecordsOK' /\ TimerInv'
  BY <1>1, StillRecorded, StillTimely
<1>8. RanSome'
  BY <1>1, <1>3, <1>5, StillRan DEF timer
<1>9. StepInv'
  BY <1>1, <1>4, <1>5, <1>8 DEF StepInv
<1>10. QED
  BY <1>6, <1>7, <1>9

LEMMA ExecuteTxInv == ServiceInv /\ ExecuteTx => ServiceInv'
<1> SUFFICES ASSUME ServiceInv, ExecuteTx
             PROVE  ServiceInv'
  OBVIOUS
<1> USE DEF ServiceInv
<1>1. /\ job # Idle /\ step = "execute" /\ step' = "commit"
      /\ levels' = [levels EXCEPT ![Len(levels)][Next1.sender] = @ + 1]
      /\ UNCHANGED <<pending, chain, receipts, saved, queue, job, before,
                      answers, timer, batch, done, heard>>
  BY DEF ExecuteTx, At, Goto
<1>2. /\ levels \in Seq([Sender -> Nat]) /\ Len(levels) = 2
      /\ levels[2] \in [Sender -> Nat]
  BY <1>1, LevelsAt
<1>3. /\ RanSome /\ done < Len(batch) /\ levels[2] = levels[1]
      /\ Atomic!Valid(before.world, batch, done + 1)
  BY <1>1 DEF StepInv
<1>4. /\ Next1.sender \in Sender
      /\ Atomic!After(before.world, batch, done + 1) =
           [levels[1] EXCEPT ![Next1.sender] = @ + 1]
  BY <1>3, NextFacts
<1>5. PICK x : x = [levels[2] EXCEPT ![Next1.sender] = @ + 1]
  OBVIOUS
<1>6. x \in [Sender -> Nat]
  BY <1>2, <1>4, <1>5
<1>7. levels' = [levels EXCEPT ![2] = x]
  BY <1>1, <1>2, <1>5
<1>8. /\ levels' \in Seq([Sender -> Nat]) /\ Len(levels') = 2
      /\ levels'[1] = levels[1] /\ levels'[2] = x
  BY <1>2, <1>6, <1>7, LevelReplaced
<1>9. x = Atomic!After(before.world, batch, done + 1)
  BY <1>3, <1>4, <1>5
<1>10. TypeOK'
  BY <1>1, <1>8, StillTyped DEF TypeOK, Steps, timer
<1>11. RecordsOK' /\ TimerInv'
  BY <1>1, StillRecorded, StillTimely
<1>12. RanSome'
  BY <1>1, <1>3, <1>8, StillRan DEF timer
<1>13. StepInv'
  BY <1>1, <1>3, <1>8, <1>9, <1>12 DEF StepInv
<1>14. QED
  BY <1>10, <1>11, <1>13

LEMMA CommitTxInv == ServiceInv /\ CommitTx => ServiceInv'
<1> SUFFICES ASSUME ServiceInv, CommitTx
             PROVE  ServiceInv'
  OBVIOUS
<1> USE DEF ServiceInv
<1>1. /\ job # Idle /\ step = "commit" /\ step' = "mine"
      /\ levels' = Append(SubSeq(levels, 1, Len(levels) - 2), levels[Len(levels)])
      /\ receipts' = receipts \cup {Next1} /\ done' = done + 1
      /\ UNCHANGED <<pending, chain, saved, queue, job, before,
                      answers, timer, batch, heard>>
  BY DEF CommitTx, At, Goto, Top
<1>2. levels \in Seq([Sender -> Nat]) /\ Len(levels) = 2
  BY <1>1, LevelsAt
<1>3. /\ RanSome /\ done < Len(batch)
      /\ levels[2] = Atomic!After(before.world, batch, done + 1)
      /\ Atomic!Valid(before.world, batch, done + 1)
  BY <1>1 DEF StepInv
<1>4. /\ Next1 \in Tx
      /\ Atomic!Txs(batch, done + 1) = Atomic!Txs(batch, done) \cup {Next1}
  BY <1>3, NextFacts
<1>5. /\ levels' \in Seq([Sender -> Nat]) /\ Len(levels') = 1
      /\ levels'[1] = levels[2]
  BY <1>1, <1>2, LevelMerged
<1>6. done' \in 0..Len(batch') /\ receipts' \subseteq Tx
  <2>1. done \in 0..Len(batch) /\ Len(batch) \in Nat
    BY BatchTypes
  <2>2. receipts \subseteq Tx
    BY DEF TypeOK
  <2>3. QED
    BY <1>1, <1>3, <1>4, <2>1, <2>2
<1>7. TypeOK'
  BY <1>1, <1>5, <1>6, StillTyped DEF TypeOK, Steps, timer
<1>8. RecordsOK' /\ TimerInv'
  BY <1>1, StillRecorded, StillTimely
<1>9. Taken' /\ Unsaved' /\ chain' = before'.chain
  BY <1>1, <1>3
  DEF RanSome, Taken, Mines, BatchOf, PoolAfter, OwnBlock, Kind, AutoMining, timer, Unsaved
<1>10. Ran(done)'
  <2>1. receipts = before.receipts \cup Atomic!Txs(batch, done)
    BY <1>3 DEF RanSome, Ran
  <2>2. receipts' = before.receipts \cup Atomic!Txs(batch, done + 1)
    BY <1>1, <1>4, <2>1
  <2>3. QED
    BY <1>1, <1>3, <1>5, <2>2 DEF Ran
<1>11. RanSome'
  BY <1>9, <1>10 DEF RanSome
<1>12. StepInv'
  BY <1>1, <1>11 DEF StepInv
<1>13. QED
  BY <1>7, <1>8, <1>12

LEMMA EngineFailsInv == ServiceInv /\ EngineFails => ServiceInv'
<1> SUFFICES ASSUME ServiceInv, EngineFails
             PROVE  ServiceInv'
  OBVIOUS
<1> USE DEF ServiceInv
<1>1. /\ job # Idle /\ step \in {"execute", "commit"} /\ step' = "end"
      /\ heard' = <<"failed">>
      /\ levels' = SubSeq(levels, 1, Len(levels) - 1)
      /\ UNCHANGED <<pending, chain, receipts, saved, queue, job, before,
                      answers, timer, batch, done>>
  BY DEF EngineFails, LevelsAfterFailure, GotoEnd, Goto
<1>2. levels \in Seq([Sender -> Nat]) /\ Len(levels) = 2
  BY <1>1, LevelsAt
<1>3. RanSome /\ done < Len(batch) /\ Atomic!Valid(before.world, batch, done + 1)
  BY <1>1 DEF StepInv
<1>4. /\ levels' \in Seq([Sender -> Nat]) /\ Len(levels') = 1
      /\ levels'[1] = levels[1]
  BY <1>1, <1>2, LevelDropped
<1>5. TypeOK'
  BY <1>1, <1>4, StillTyped DEF TypeOK, Steps, timer
<1>6. RecordsOK' /\ TimerInv'
  BY <1>1, StillRecorded, StillTimely
<1>7. RanSome'
  BY <1>1, <1>3, <1>4, StillRan DEF timer
<1>8. Stopped'
  BY <1>1, <1>3, <1>7 DEF Stopped
<1>9. StepInv'
  BY <1>1, <1>8 DEF StepInv, Ended
<1>10. QED
  BY <1>5, <1>6, <1>9

-----------------------------------------------------------------------------
(* Storing the block and saving. *)

LEMMA StoreBlockInv == ServiceInv /\ StoreBlock => ServiceInv'
<1> SUFFICES ASSUME ServiceInv, StoreBlock
             PROVE  ServiceInv'
  OBVIOUS
<1> USE DEF ServiceInv
<1>1. /\ job # Idle /\ step = "mine" /\ done = Len(batch)
      /\ chain' = chain \cup {batch[i] : i \in 1..Len(batch)}
      /\ UNCHANGED <<levels, pending, receipts, saved, queue, job, before,
                      answers, timer, batch, done>>
  BY DEF StoreBlock, At, GotoEnd, Goto
<1>2. \/ /\ heard' = Atomic!Reply(job, batch)
         /\ step' = IF Saves(job) THEN "save" ELSE "end"
      \/ heard' = <<"failed">> /\ step' = "end"
  BY DEF StoreBlock, GotoEnd, Goto, Reply, Kind, Atomic!Reply, Atomic!Kind, Atomic!Txs
<1>3. Len(levels) = 1
  BY <1>1, LevelsAt
<1>4. RanSome
  BY <1>1 DEF StepInv
<1>5. chain' \subseteq Tx /\ chain \subseteq chain'
  <2>1. \A i \in 1..Len(batch) : batch[i] \in Tx
    BY BatchTypes
  <2>2. chain \subseteq Tx
    BY DEF TypeOK
  <2>3. QED
    BY <1>1, <2>1, <2>2
<1>6. TypeOK'
  <2>1. step' \in {"save", "end"}
    BY <1>2
  <2>2. QED
    BY <1>1, <1>3, <1>5, <2>1, StillTyped DEF TypeOK, Steps, timer
<1>7. RecordsOK' /\ TimerInv'
  BY <1>1, <1>5, StillRecorded, StillTimely
<1>8. RanAll' /\ Unsaved'
  <2>1. Taken' /\ Unsaved'
    BY <1>1, <1>4
    DEF RanSome, Taken, Mines, BatchOf, PoolAfter, OwnBlock, Kind, AutoMining, timer, Unsaved
  <2>2. Ran(Len(batch))'
    BY <1>1, <1>4 DEF RanSome, Ran
  <2>3. Atomic!Txs(batch, Len(batch)) = {batch[i] : i \in 1..Len(batch)}
    BY DEF Atomic!Txs
  <2>4. chain' = before.chain \cup Atomic!Txs(batch, Len(batch))
    BY <1>1, <1>4, <2>3 DEF RanSome
  <2>5. QED
    BY <1>1, <2>1, <2>2, <2>4 DEF RanAll
<1>9. StepInv'
  <2>1. CASE step' = "save"
    <3>1. Saves(job) /\ heard' = Atomic!Reply(job, batch)
      BY <1>2, <2>1
    <3>2. Saves(job)' /\ heard' = Atomic!Reply(job, batch)'
      BY <1>1, <3>1 DEF Saves, Kind, AutoMining, timer, Atomic!Reply, Atomic!Kind,
      Atomic!Txs
    <3>3. QED
      BY <1>1, <1>8, <2>1, <3>2 DEF StepInv
  <2>2. CASE step' = "end"
    <3>1. (heard' = Atomic!Reply(job, batch) /\ ~ Saves(job)) \/ heard' = <<"failed">>
      BY <1>2, <2>2
    <3>2. (heard' = Atomic!Reply(job, batch)' /\ ~ Saves(job)') \/ heard' = <<"failed">>
      BY <1>1, <3>1 DEF Saves, Kind, AutoMining, timer, Atomic!Reply, Atomic!Kind,
      Atomic!Txs
    <3>3. Mined'
      BY <1>8, <3>2 DEF Mined, Unsaved
    <3>4. QED
      BY <2>2, <3>3 DEF StepInv, Ended
  <2>3. QED
    BY <1>2, <2>1, <2>2
<1>10. QED
  BY <1>6, <1>7, <1>9

(* A complete batch keeps having run while its result is saved.              *)
LEMMA StillRanAll ==
  ASSUME RanAll, UNCHANGED <<node, job, batch, before, mining>>
  PROVE  RanAll'
<1>1. Taken'
  BY DEF RanAll, Taken, Mines, BatchOf, PoolAfter, OwnBlock, Kind, AutoMining, node
<1>2. Ran(Len(batch))'
  BY DEF RanAll, Ran, node
<1>3. QED
  BY <1>1, <1>2 DEF RanAll, node

LEMMA SaveLandsInv == ServiceInv /\ SaveLands => ServiceInv'
<1> SUFFICES ASSUME ServiceInv, SaveLands
             PROVE  ServiceInv'
  OBVIOUS
<1> USE DEF ServiceInv
<1>1. /\ job # Idle /\ step = "save" /\ step' = "end"
      /\ saved' = [world |-> Top, chain |-> chain, receipts |-> receipts]
      /\ UNCHANGED <<node, queue, job, before, answers, timer, batch, done, heard>>
  BY DEF SaveLands, Dump, At
<1>2. Len(levels) = 1 /\ Top = levels[1] /\ levels[1] \in [Sender -> Nat]
  BY <1>1, LevelsAt
<1>3. RanAll /\ heard = Atomic!Reply(job, batch) /\ Saves(job)
  BY <1>1 DEF StepInv
<1>4. TypeOK'
  BY <1>1, <1>2, StillTyped DEF TypeOK, Steps, timer, node
<1>5. saved' \in Image
  BY <1>1, <1>2 DEF TypeOK, Image
<1>6. RecordsOK'
  BY <1>1, <1>5 DEF RecordsOK, node
<1>7. TimerInv'
  BY <1>1, StillTimely
<1>8. RanAll'
  BY <1>1, <1>3, StillRanAll DEF timer
<1>9. Saves(job)' /\ heard' = Atomic!Reply(job, batch)'
  BY <1>1, <1>3 DEF Saves, Kind, AutoMining, timer, Atomic!Reply, Atomic!Kind,
      Atomic!Txs
<1>10. saved' = Atomic!Image(levels[1], chain, receipts)'
  BY <1>1, <1>2 DEF Atomic!Image, node
<1>11. Mined'
  BY <1>8, <1>9, <1>10 DEF Mined
<1>12. StepInv'
  BY <1>1, <1>11 DEF StepInv, Ended
<1>13. QED
  BY <1>4, <1>6, <1>7, <1>12

LEMMA SaveFailsInv == ServiceInv /\ SaveFails => ServiceInv'
<1> SUFFICES ASSUME ServiceInv, SaveFails
             PROVE  ServiceInv'
  OBVIOUS
<1> USE DEF ServiceInv
<1>1. /\ job # Idle /\ step = "save" /\ step' = "end" /\ heard' = <<"failed">>
      /\ UNCHANGED <<node, saved, queue, job, before, answers, timer, batch, done>>
  BY DEF SaveFails, GotoEnd, Goto, At
<1>2. Len(levels) = 1
  BY <1>1, LevelsAt
<1>3. RanAll /\ Unsaved
  BY <1>1 DEF StepInv
<1>4. TypeOK'
  BY <1>1, <1>2, StillTyped DEF TypeOK, Steps, timer, node
<1>5. RecordsOK' /\ TimerInv'
  BY <1>1, StillRecorded, StillTimely DEF node
<1>6. RanAll'
  BY <1>1, <1>3, StillRanAll DEF timer
<1>7. Mined'
  BY <1>1, <1>3, <1>6 DEF Mined, Unsaved
<1>8. StepInv'
  BY <1>1, <1>7 DEF StepInv, Ended
<1>9. QED
  BY <1>4, <1>5, <1>8

-----------------------------------------------------------------------------
(* The chain of jobs. *)

(* The settled state a job finds, or leaves.                                 *)
LEMMA SettledTypes ==
  ASSUME ServiceInv
  PROVE  Settled \in SettledStates
<1>1. levels[1] \in [Sender -> Nat]
  BY LevelsAt DEF ServiceInv
<1>2. QED
  BY <1>1 DEF ServiceInv, TypeOK, RecordsOK, Settled, SettledStates

LEMMA StartInv == ServiceInv /\ Start => ServiceInv'
<1> SUFFICES ASSUME ServiceInv, Start
             PROVE  ServiceInv'
  OBVIOUS
<1> USE DEF ServiceInv
<1> DEFINE j == Head(queue)
<1>1. /\ queue # <<>> /\ job = Idle /\ queue' = Tail(queue) /\ job' = j
      /\ step' = FirstStep(j) /\ batch' = <<>> /\ done' = 0
      /\ before' = Settled
      /\ minePending' = IF j = Tick THEN FALSE ELSE minePending
      /\ UNCHANGED <<levels, pending, chain, receipts, saved, answers, mining, timerArmed>>
  BY DEF Start, FlagWhenStarted, node, NoBatch
<1>2. queue \in Seq(Job) /\ \A i, k \in 1..Len(queue) : queue[i] = queue[k] => i = k
  BY DEF TypeOK
<1>3. /\ j = queue[1] /\ j \in Job /\ 1 \in 1..Len(queue)
      /\ queue' \in Seq(Job) /\ Len(queue') = Len(queue) - 1
      /\ \A i \in 1..Len(queue') : queue'[i] = queue[i + 1] /\ i + 1 \in 1..Len(queue) /\ i + 1 # 1
  BY <1>1, <1>2
<1>4. Len(levels) = 1 /\ step = "none"
  BY <1>1, LevelsAt DEF TypeOK
<1> HIDE DEF j
<1>5. Kind(j) \in Kinds \cup {"tick"} /\ j # Idle
  BY <1>3, KindOfJob
<1>6. /\ step' \in {"submit", "take", "read", "enter", "cheat"}
      /\ step' = "submit" => Kind(j) \in {"send", "sync"}
      /\ step' = "take" => Kind(j) \in {"mine", "tick"}
      /\ step' = "read" => Kind(j) = "read"
      /\ step' = "enter" => Kind(j) = "call"
      /\ step' = "cheat" => Kind(j) = "cheat"
  BY <1>1, <1>5, Zenon DEF FirstStep, Kinds
<1>7. TypeOK'
  <2>1. \A i, k \in 1..Len(queue') : queue'[i] = queue'[k] => i = k
    <3>1. SUFFICES ASSUME NEW i \in 1..Len(queue'), NEW k \in 1..Len(queue'),
                          queue'[i] = queue'[k]
                   PROVE  i = k
      OBVIOUS
    <3>2. queue[i + 1] = queue[k + 1] /\ i + 1 \in 1..Len(queue) /\ k + 1 \in 1..Len(queue)
      BY <1>3, <3>1
    <3>3. i + 1 = k + 1
      BY <1>2, <3>2
    <3>4. QED
      BY <1>3, <3>3
  <2>2. batch' \in Seq(Tx) /\ done' \in 0..Len(batch')
    BY <1>1
  <2>3. Len(levels') = OpenLevels'
    BY <1>1, <1>4, <1>6 DEF OpenLevels
  <2>4. step' \in Steps /\ (job' = Idle <=> step' = "none")
    BY <1>1, <1>5, <1>6 DEF Steps
  <2>5. QED
    BY <1>1, <1>3, <2>1, <2>2, <2>3, <2>4 DEF TypeOK
<1>8. RecordsOK'
  BY <1>1, SettledTypes DEF RecordsOK
<1>9. Untouched'
  BY <1>1 DEF Untouched, Unsaved, Settled
<1>10. StepInv'
  <2>1. Kind(job)' = Kind(j)
    BY <1>1 DEF Kind
  <2>2. Kind(job)' \in KindsAt(step)'
    BY <1>6, <2>1, Zenon DEF KindsAt
  <2>3. QED
    BY <1>6, <1>9, <2>2 DEF StepInv
<1>11. TimerInv'
  <2>1. timerArmed' => IntervalMining'
    BY <1>1 DEF TimerInv, IntervalMining
  <2>2. ASSUME ~ minePending', NEW i \in 1..Len(queue')
        PROVE  queue'[i] # Tick
    <3>1. /\ queue'[i] = queue[i + 1] /\ i + 1 \in 1..Len(queue) /\ i + 1 # 1
      BY <1>3
    <3>2. CASE j = Tick
      <4>1. queue[1] = Tick
        BY <1>3, <3>2
      <4>2. QED
        BY <1>2, <1>3, <3>1, <4>1
    <3>3. CASE j # Tick
      BY <1>1, <2>2, <3>1, <3>3 DEF TimerInv
    <3>4. QED
      BY <3>2, <3>3
  <2>3. QED
    BY <2>1, <2>2 DEF TimerInv
<1>12. QED
  BY <1>7, <1>8, <1>10, <1>11

LEMMA EndInv == ServiceInv /\ End => ServiceInv'
<1> SUFFICES ASSUME ServiceInv, End
             PROVE  ServiceInv'
  OBVIOUS
<1> USE DEF ServiceInv
<1>1. /\ job # Idle /\ step = "end" /\ job' = Idle /\ step' = "none"
      /\ batch' = <<>> /\ done' = 0 /\ before' = Settled
      /\ answers' = IF job = Tick THEN answers ELSE [answers EXCEPT ![job] = heard]
      /\ UNCHANGED <<levels, pending, chain, receipts, saved, queue, timer>>
  BY DEF End, At, node, NoBatch
<1>2. Len(levels) = 1
  BY <1>1, LevelsAt
<1>3. TypeOK'
  <2>1. batch' \in Seq(Tx) /\ done' \in 0..Len(batch')
    BY <1>1
  <2>2. Len(levels') = OpenLevels'
    BY <1>1, <1>2 DEF OpenLevels
  <2>3. QED
    BY <1>1, <2>1, <2>2 DEF TypeOK, Steps, timer
<1>4. RecordsOK'
  BY <1>1, SettledTypes DEF RecordsOK
<1>5. StepInv'
  BY <1>1 DEF StepInv
<1>6. TimerInv'
  BY <1>1, StillTimely
<1>7. QED
  BY <1>3, <1>4, <1>5, <1>6

-----------------------------------------------------------------------------
(* Callers, the timer, and a crash. *)

(* Whatever leaves the job and the node alone.                               *)
LEMMA StillStepping ==
  ASSUME StepInv, UNCHANGED <<node, saved, work, mining>>
  PROVE  StepInv'
<1>1. UNCHANGED <<levels, pending, chain, receipts, saved, job, step, batch, done,
                  heard, before, mining>>
  BY DEF node, work
<1>2. /\ \A j : (Saves(j)' <=> Saves(j)) /\ Kind(j)' = Kind(j)
      /\ Atomic!Reply(job, batch)' = Atomic!Reply(job, batch)
  BY <1>1 DEF Saves, AutoMining, Kind, Atomic!Reply, Atomic!Kind, Atomic!Txs
<1>3. Untouched' <=> Untouched
  BY <1>1 DEF Untouched, Unsaved
<1>4. Taken' <=> Taken
  BY <1>1 DEF Taken, Mines, BatchOf, PoolAfter, OwnBlock, Kind, AutoMining
<1>5. (RanSome' <=> RanSome) /\ (RanAll' <=> RanAll) /\ (Unsaved' <=> Unsaved)
  BY <1>1, <1>4 DEF RanSome, RanAll, Ran, Unsaved
<1>6. Ended' <=> Ended
  <2>1. Mined' <=> Mined
    BY <1>1, <1>2, <1>5 DEF Mined
  <2>2. Stopped' <=> Stopped
    BY <1>1, <1>5 DEF Stopped
  <2>3. Queued' <=> Queued
    BY <1>1, <1>5 DEF Queued, Kind, AutoMining
  <2>4. (ReadDone' <=> ReadDone) /\ (Cheated' <=> Cheated)
    BY <1>1, <1>3, <1>5 DEF ReadDone, Cheated, Kind
  <2>5. QED
    BY <2>1, <2>2, <2>3, <2>4 DEF Ended
<1>7. KindsAt(step)' = KindsAt(step)
  BY <1>1 DEF KindsAt
<1>8. QED
  BY <1>1, <1>2, <1>3, <1>5, <1>6, <1>7 DEF StepInv

(* A job appended that waits nowhere yet.                                    *)
LEMMA QueueGrows ==
  ASSUME TypeOK, NEW j \in Job, \A i \in 1..Len(queue) : queue[i] # j,
         queue' = Append(queue, j), UNCHANGED <<node, work, mining>>
  PROVE  /\ TypeOK'
         /\ Len(queue') = Len(queue) + 1
         /\ \A i \in 1..Len(queue') :
              queue'[i] = IF i = Len(queue) + 1 THEN j ELSE queue[i]
<1>1. queue \in Seq(Job) /\ \A i, k \in 1..Len(queue) : queue[i] = queue[k] => i = k
  BY DEF TypeOK
<1>2. /\ queue' \in Seq(Job) /\ Len(queue') = Len(queue) + 1
      /\ \A i \in 1..Len(queue) : queue'[i] = queue[i]
      /\ queue'[Len(queue) + 1] = j
  BY <1>1, AppendProperties
<1> DEFINE m == Len(queue) + 1
<1>3. m \in Nat /\ m \notin 1..Len(queue) /\ 1..Len(queue') = (1..Len(queue)) \cup {m}
  BY <1>1, <1>2
<1>4. queue'[m] = j /\ Len(queue') = m
  BY <1>2
<1> HIDE DEF m
<1>5. \A i, k \in 1..Len(queue') : queue'[i] = queue'[k] => i = k
  BY <1>1, <1>2, <1>3, <1>4
<1>6. UNCHANGED <<mining, levels, pending, chain, receipts, job, step, batch, done>>
  BY DEF node, work
<1>7. OpenLevels' = OpenLevels
  BY <1>6 DEF OpenLevels
<1>8. TypeOK'
  BY <1>2, <1>5, <1>6, <1>7 DEF TypeOK
<1>9. \A i \in 1..Len(queue') : queue'[i] = IF i = m THEN j ELSE queue[i]
  BY <1>2, <1>3, <1>4
<1>10. QED
  BY <1>2, <1>8, <1>9 DEF m

LEMMA SubmitInv == ASSUME NEW r \in Request PROVE ServiceInv /\ Submit(r) => ServiceInv'
<1> SUFFICES ASSUME ServiceInv, Submit(r)
             PROVE  ServiceInv'
  OBVIOUS
<1> USE DEF ServiceInv
<1>1. /\ ~ Waits(r) /\ queue' = Append(queue, r)
      /\ UNCHANGED <<node, saved, work, answers, timer>>
  BY DEF Submit
<1>2. r \in Job /\ r # Tick /\ \A i \in 1..Len(queue) : queue[i] # r
  BY <1>1, ServiceAssumption DEF Waits, Job
<1>3. UNCHANGED <<mining, minePending, timerArmed, before, chain>>
  BY <1>1 DEF timer, work, node
<1>4. /\ TypeOK'
      /\ Len(queue') = Len(queue) + 1
      /\ \A i \in 1..Len(queue') :
           queue'[i] = IF i = Len(queue) + 1 THEN r ELSE queue[i]
  BY <1>1, <1>2, <1>3, QueueGrows
<1>5. Len(queue) \in Nat
  BY DEF TypeOK
<1>6. TimerInv'
  BY <1>2, <1>3, <1>4, <1>5 DEF TimerInv, IntervalMining
<1>7. RecordsOK'
  BY <1>1, <1>3, StillRecorded
<1>8. StepInv'
  BY <1>1, <1>3, StillStepping
<1>9. QED
  BY <1>4, <1>6, <1>7, <1>8

LEMMA TimerFiresInv == ServiceInv /\ TimerFires => ServiceInv'
<1> SUFFICES ASSUME ServiceInv, TimerFires
             PROVE  ServiceInv'
  OBVIOUS
<1> USE DEF ServiceInv
<1>1. /\ ~ minePending /\ queue' = Append(queue, Tick) /\ minePending' = TRUE
      /\ UNCHANGED <<node, saved, work, answers, mining, timerArmed>>
  BY DEF TimerFires, TickAllowed
<1>2. Tick \in Job /\ \A i \in 1..Len(queue) : queue[i] # Tick
  BY <1>1 DEF TimerInv, Job
<1>3. TypeOK'
  BY <1>1, <1>2, QueueGrows
<1>4. TimerInv'
  BY <1>1 DEF TimerInv, IntervalMining
<1>5. RecordsOK'
  BY <1>1, StillRecorded DEF work, node
<1>6. StepInv'
  BY <1>1, StillStepping
<1>7. QED
  BY <1>3, <1>4, <1>5, <1>6

LEMMA DisposeInv == ServiceInv /\ Dispose => ServiceInv'
<1> SUFFICES ASSUME ServiceInv, Dispose
             PROVE  ServiceInv'
  OBVIOUS
<1> USE DEF ServiceInv
<1>1. /\ timerArmed' = FALSE
      /\ UNCHANGED <<node, saved, queue, work, answers, mining, minePending>>
  BY DEF Dispose
<1>2. TypeOK'
  BY <1>1 DEF TypeOK, OpenLevels, node, work
<1>3. TimerInv'
  BY <1>1 DEF TimerInv
<1>4. RecordsOK'
  BY <1>1, StillRecorded DEF work, node
<1>5. StepInv'
  BY <1>1, StillStepping
<1>6. QED
  BY <1>2, <1>3, <1>4, <1>5

LEMMA CrashInv == ServiceInv /\ Crash => ServiceInv'
<1> SUFFICES ASSUME ServiceInv, Crash
             PROVE  ServiceInv'
  OBVIOUS
<1> USE DEF ServiceInv
<1>1. /\ saved' = saved /\ mining' = mining
      /\ levels' = <<saved.world>> /\ pending' = <<>>
      /\ chain' = saved.chain /\ receipts' = saved.receipts
      /\ queue' = <<>> /\ job' = Idle /\ step' = "none" /\ batch' = <<>> /\ done' = 0
      /\ before' = Settled'
      /\ minePending' = FALSE /\ timerArmed' = IntervalMining
  BY DEF Crash, NoBatch
<1>2. DOMAIN answers' = Request /\ answers' = [r \in Request |-> answers'[r]]
  BY DEF Crash
<1>3. /\ saved \in Image /\ saved.world \in [Sender -> Nat]
      /\ saved.chain \subseteq Tx /\ saved.receipts \subseteq Tx
  BY DEF RecordsOK, Image
<1>4. levels' \in Seq([Sender -> Nat]) /\ Len(levels') = 1 /\ levels'[1] = saved.world
  BY <1>1, <1>3
<1>5. TypeOK'
  <2>1. /\ pending' \in Seq(Tx) /\ batch' \in Seq(Tx) /\ done' \in 0..Len(batch')
        /\ queue' \in Seq(Job) /\ Len(queue') = 0
    BY <1>1
  <2>2. Len(levels') = OpenLevels'
    BY <1>1, <1>4 DEF OpenLevels
  <2>3. mining' \in Mining
    BY <1>1 DEF TypeOK
  <2>4. \A i, k \in 1..Len(queue') : queue'[i] = queue'[k] => i = k
    BY <2>1
  <2>5. QED
    BY <1>1, <1>3, <1>4, <2>1, <2>2, <2>3, <2>4 DEF TypeOK, Steps
<1>6. RecordsOK'
  <2>1. before' = [world |-> saved.world, pool |-> <<>>, chain |-> saved.chain,
                   receipts |-> saved.receipts, saved |-> saved]
    BY <1>1, <1>4 DEF Settled
  <2>2. before' \in SettledStates
    BY <1>3, <2>1 DEF SettledStates
  <2>3. QED
    BY <1>1, <1>2, <1>3, <2>2 DEF RecordsOK
<1>7. StepInv'
  BY <1>1 DEF StepInv
<1>8. TimerInv'
  <2>1. Len(queue') = 0
    BY <1>1
  <2>2. \A i \in 1..Len(queue') : queue'[i] # Tick
    BY <2>1
  <2>3. timerArmed' => IntervalMining'
    BY <1>1, Zenon DEF IntervalMining
  <2>4. QED
    BY <2>2, <2>3 DEF TimerInv
<1>9. QED
  BY <1>5, <1>6, <1>7, <1>8

LEMMA InitInv == Init => ServiceInv
<1> SUFFICES ASSUME Init
             PROVE  ServiceInv
  OBVIOUS
<1> DEFINE zero == [s \in Sender |-> 0]
<1>1. /\ mining \in Mining /\ levels = <<zero>> /\ pending = <<>>
      /\ chain = {} /\ receipts = {} /\ saved = Dump /\ queue = <<>> /\ job = Idle
      /\ step = "none" /\ batch = <<>> /\ done = 0
      /\ answers = [r \in Request |-> None]
      /\ minePending = FALSE /\ timerArmed = IntervalMining /\ before = Settled
  BY DEF Init, NoBatch
<1>2. zero \in [Sender -> Nat]
  OBVIOUS
<1> HIDE DEF zero
<1>3. levels \in Seq([Sender -> Nat]) /\ Len(levels) = 1 /\ levels[1] = zero
  BY <1>1, <1>2
<1>4. /\ pending \in Seq(Tx) /\ batch \in Seq(Tx) /\ done \in 0..Len(batch)
      /\ queue \in Seq(Job) /\ Len(queue) = 0
  BY <1>1
<1>5. TypeOK
  <2>1. Len(levels) = OpenLevels
    BY <1>1, <1>3 DEF OpenLevels
  <2>2. QED
    BY <1>1, <1>3, <1>4, <2>1 DEF TypeOK, Steps
<1>6. RecordsOK
  <2>1. saved = [world |-> zero, chain |-> {}, receipts |-> {}]
    BY <1>1, <1>3 DEF Dump, Top
  <2>2. saved \in Image
    BY <1>2, <2>1 DEF Image
  <2>3. before = [world |-> zero, pool |-> <<>>, chain |-> {}, receipts |-> {},
                  saved |-> saved]
    BY <1>1, <1>3 DEF Settled
  <2>4. before \in SettledStates
    BY <1>2, <2>2, <2>3 DEF SettledStates
  <2>5. DOMAIN answers = Request /\ answers = [r \in Request |-> answers[r]]
    BY <1>1
  <2>6. QED
    BY <1>1, <2>1, <2>2, <2>4, <2>5 DEF RecordsOK
<1>7. StepInv
  BY <1>1 DEF StepInv
<1>8. TimerInv
  <2>1. \A i \in 1..Len(queue) : queue[i] # Tick
    BY <1>4
  <2>2. timerArmed => IntervalMining
    BY <1>1
  <2>3. QED
    BY <2>1, <2>2 DEF TimerInv
<1>9. QED
  BY <1>5, <1>6, <1>7, <1>8 DEF ServiceInv

(* The invariant of the whole node.                                          *)
LEMMA NextInv == ServiceInv /\ [Next]_vars => ServiceInv'
<1> SUFFICES ASSUME ServiceInv, [Next]_vars
             PROVE  ServiceInv'
  OBVIOUS
<1>1. CASE UNCHANGED vars
  <2>1. UNCHANGED <<node, saved, queue, work, answers, timer>>
    BY <1>1 DEF vars
  <2>2. UNCHANGED <<mining, before, chain>>
    BY <2>1 DEF node, work, timer
  <2>3. TypeOK'
    BY <2>1 DEF ServiceInv, TypeOK, OpenLevels, node, work, timer
  <2>4. RecordsOK' /\ TimerInv' /\ StepInv'
    BY <2>1, <2>2, StillRecorded, StillTimely, StillStepping DEF ServiceInv
  <2>5. QED
    BY <2>3, <2>4 DEF ServiceInv
<1>2. CASE \E r \in Request : Submit(r)
  BY <1>2, SubmitInv
<1>3. CASE JobStep
  BY <1>3, StartInv, ReadInv, EnterCallInv, RunCallInv, LeaveCallInv, CheatInv,
     SubmitTxInv, TakeBatchInv, RefuseTxInv, EnterTxInv, ExecuteTxInv, CommitTxInv,
     EngineFailsInv, StoreBlockInv, SaveLandsInv, SaveFailsInv, EndInv
  DEF JobStep
<1>4. CASE TimerFires
  BY <1>4, TimerFiresInv
<1>5. CASE Dispose
  BY <1>5, DisposeInv
<1>6. CASE Crash
  BY <1>6, CrashInv
<1>7. QED
  BY <1>1, <1>2, <1>3, <1>4, <1>5, <1>6 DEF Next

LEMMA ServiceAlways == Spec => []ServiceInv
  BY InitInv, NextInv, PTL DEF Spec

-----------------------------------------------------------------------------
(* What was replied is saved. *)

(* Of a node that saves: RepliedIsDurable without types.                     *)
SavedIfReplied ==
  \A r \in Request :
    AutoMining \/ Kind(r) = "mine" => Reported(r, answers[r]) \subseteq saved.chain

(* Replies that were there before stay saved: a save only adds blocks.       *)
LEMMA StillSaved ==
  ASSUME SavedIfReplied, mining' = mining, saved.chain \subseteq saved'.chain,
         \A r \in Request : Reported(r, answers[r])' \subseteq Reported(r, answers[r])
  PROVE  SavedIfReplied'
  BY DEF SavedIfReplied, AutoMining, Kind

(* A refusal, a failure, a state or a loss reports nothing mined.            *)
LEMMA NothingReported ==
  \A r, w : \A answer \in {<<"refused">>, <<"failed">>, <<"done">>, <<"lost">>, <<"state", w>>} :
    Reported(r, answer) = {}
  BY DEF Reported

(* A reply that reports what is mined comes after the save of that block.     *)
LEMMA ReplyAfterSave ==
  ASSUME ServiceInv, Persistent, At("end"), job \in Request,
         AutoMining \/ Kind(job) = "mine"
  PROVE  Reported(job, heard) \subseteq saved.chain
<1>1. Ended /\ Kind(job) \in Kinds
  BY ServiceAssumption DEF ServiceInv, StepInv, At, Kind
<1>2. CASE Mined /\ heard = Atomic!Reply(job, batch)
  <2>1. RanAll /\ Taken
    BY <1>2 DEF Mined, RanAll
  <2>2. Kind(job) \in {"mine", "sync", "send"} /\ (Kind(job) = "mine" \/ AutoMining)
    BY <1>1, <2>1 DEF Taken, Mines, Kinds
  <2>3. Saves(job) /\ heard # <<"failed">>
    BY <1>2, <2>2 DEF Saves, Atomic!Reply, Atomic!Kind, Kind
  <2>4. saved = Atomic!Image(levels[1], chain, receipts)
    BY <1>2, <2>3 DEF Mined
  <2>5. saved.chain = chain /\ Atomic!Txs(batch, Len(batch)) \subseteq chain
    BY <2>1, <2>4 DEF RanAll, Atomic!Image
  <2>6. CASE Kind(job) = "mine"
    <3>1. heard = <<"mined", Atomic!Txs(batch, Len(batch))>>
      BY <1>2, <2>6 DEF Atomic!Reply, Atomic!Kind, Kind
    <3>2. QED
      BY <2>5, <3>1 DEF Reported
  <2>7. CASE AutoMining /\ Kind(job) \in {"send", "sync"}
    <3>1. batch = <<Asks[job].tx>>
      BY <2>1, <2>7 DEF Taken, BatchOf
    <3>2. Asks[job].tx \in Atomic!Txs(batch, Len(batch))
      BY <3>1 DEF Atomic!Txs
    <3>3. heard = <<"hash">> \/ heard = <<"mined", {Asks[job].tx}>>
      BY <1>2, <2>7 DEF Atomic!Reply, Atomic!Kind, Kind
    <3>4. QED
      BY <2>5, <3>2, <3>3 DEF Reported
  <2>8. QED
    BY <2>2, <2>6, <2>7
<1>3. CASE ~ (Mined /\ heard = Atomic!Reply(job, batch))
  <2>1. \E w : heard \in {<<"refused">>, <<"failed">>, <<"done">>, <<"lost">>, <<"state", w>>}
    BY <1>1, <1>3 DEF Ended, Mined, Stopped, Queued, ReadDone, Cheated
  <2>2. QED
    BY <2>1, NothingReported
<1>4. QED
  BY <1>2, <1>3

LEMMA SavedIfRepliedNext ==
  ASSUME Persistent
  PROVE  SavedIfReplied /\ ServiceInv /\ [Next]_vars => SavedIfReplied'
<1> SUFFICES ASSUME SavedIfReplied, ServiceInv, [Next]_vars
             PROVE  SavedIfReplied'
  OBVIOUS
<1>1. CASE UNCHANGED <<mining, answers>> /\ saved.chain \subseteq saved'.chain
  <2>1. \A r \in Request : Reported(r, answers[r])' = Reported(r, answers[r])
    BY <1>1 DEF Reported, AutoMining
  <2>2. QED
    BY <1>1, <2>1, StillSaved
<1>2. CASE UNCHANGED vars
  BY <1>1, <1>2 DEF vars, timer
<1>3. CASE \E r \in Request : Submit(r)
  BY <1>1, <1>3 DEF Submit, timer
<1>4. CASE TimerFires
  BY <1>1, <1>4 DEF TimerFires
<1>5. CASE Dispose
  BY <1>1, <1>5 DEF Dispose
<1>6. CASE Start
  BY <1>1, <1>6 DEF Start
<1>7. CASE Read \/ EnterCall \/ RunCall \/ LeaveCall \/ Cheat
  BY <1>1, <1>7 DEF Read, EnterCall, RunCall, LeaveCall, Cheat, GotoEnd, Goto, timer
<1>8. CASE SubmitTx \/ TakeBatch \/ RefuseTx \/ EnterTx \/ ExecuteTx \/ CommitTx
  BY <1>1, <1>8
  DEF SubmitTx, TakeBatch, RefuseTx, EnterTx, ExecuteTx, CommitTx, GotoEnd, Goto, timer
<1>9. CASE EngineFails \/ StoreBlock \/ SaveFails
  BY <1>1, <1>9 DEF EngineFails, StoreBlock, SaveFails, GotoEnd, Goto, timer
<1>10. CASE SaveLands
  <2>1. saved'.chain = chain /\ UNCHANGED <<mining, answers>>
    BY <1>10 DEF SaveLands, Dump, timer
  <2>2. saved.chain \subseteq saved'.chain
    BY <2>1 DEF ServiceInv, RecordsOK
  <2>3. QED
    BY <1>1, <2>1, <2>2
<1>11. CASE End
  <2>1. /\ At("end") /\ mining' = mining /\ saved' = saved
        /\ answers' = IF job = Tick THEN answers ELSE [answers EXCEPT ![job] = heard]
    BY <1>11 DEF End, timer
  <2>2. CASE job = Tick
    BY <1>1, <2>1, <2>2
  <2>3. CASE job # Tick
    <3>1. SUFFICES ASSUME NEW r \in Request, AutoMining' \/ Kind(r)' = "mine"
                   PROVE  Reported(r, answers[r])' \subseteq saved.chain
      BY <2>1 DEF SavedIfReplied
    <3>2. /\ AutoMining \/ Kind(r) = "mine"
          /\ Reported(r, answers[r])' = Reported(r, answers'[r])
      BY <2>1, <3>1 DEF AutoMining, Kind, Reported
    <3>3. DOMAIN answers = Request
      BY DEF ServiceInv, RecordsOK
    <3>4. CASE r = job
      <4>1. answers'[job] = heard
        BY <2>1, <2>3, <3>3, <3>4
      <4>2. QED
        BY <2>1, <3>2, <3>4, <4>1, ReplyAfterSave
    <3>5. CASE r # job
      <4>1. answers'[r] = answers[r]
        BY <2>1, <2>3, <3>3, <3>5
      <4>2. QED
        BY <3>2, <4>1 DEF SavedIfReplied
    <3>6. QED
      BY <3>4, <3>5
  <2>4. QED
    BY <2>2, <2>3
<1>12. CASE Crash
  <2>1. mining' = mining /\ saved' = saved
    BY <1>12 DEF Crash
  <2>2. \A r \in Request : answers'[r] = answers[r] \/ answers'[r] = <<"lost">>
    BY <1>12 DEF Crash
  <2>3. ASSUME NEW r \in Request
        PROVE  Reported(r, answers[r])' \subseteq Reported(r, answers[r])
    <3>1. Reported(r, answers[r])' = Reported(r, answers'[r])
      BY <2>1 DEF Reported, AutoMining
    <3>2. Reported(r, <<"lost">>) = {}
      BY NothingReported
    <3>3. QED
      BY <2>2, <3>1, <3>2
  <2>4. QED
    BY <2>1, <2>3, StillSaved
<1>13. QED
  BY <1>2, <1>3, <1>4, <1>5, <1>6, <1>7, <1>8, <1>9, <1>10, <1>11, <1>12
  DEF Next, JobStep

(* A node that persists has saved every block mine() returned, and under auto  *)
(* mining the transaction of every send and sync it answered, and keeps them    *)
(* for ever after: however the jobs, the failures, the saves and the crashes    *)
(* interleave (persistIfNeeded before the reply, node.ts).                    *)
THEOREM RepliesDurable ==
  ASSUME Persistent
  PROVE  Spec => []RepliedIsDurable
<1>1. Init => SavedIfReplied
  BY DEF Init, SavedIfReplied, Reported
<1>2. SavedIfReplied /\ ServiceInv /\ [Next]_vars => SavedIfReplied'
  BY SavedIfRepliedNext
<1>3. ServiceInv /\ SavedIfReplied => RepliedIsDurable
  BY DEF ServiceInv, SavedIfReplied, RepliedIsDurable
<1>4. QED
  BY <1>1, <1>2, <1>3, ServiceAlways, PTL DEF Spec

-----------------------------------------------------------------------------
(* The node implements the atomic one. *)

(* The jobs a caller of the atomic node sees waiting.                        *)
Line == IF job = Idle THEN queue ELSE <<job>> \o queue

(* The job that runs is the first of the line.                               *)
LEMMA LineFacts ==
  ASSUME TypeOK
  PROVE  /\ queue \in Seq(Job) /\ Line \in Seq(Job)
         /\ job = Idle => Line = queue
         /\ job # Idle => /\ job \in Job
                          /\ Line = <<job>> \o queue
                          /\ Line # <<>> /\ Head(Line) = job /\ Tail(Line) = queue
                          /\ Len(Line) = Len(queue) + 1
                          /\ Line[1] = job
                          /\ \A i \in 2..Len(Line) :
                               i - 1 \in 1..Len(queue) /\ Line[i] = queue[i - 1]
<1>1. queue \in Seq(Job) /\ (job = Idle \/ job \in Job)
  BY DEF TypeOK
<1>2. CASE job = Idle
  BY <1>1, <1>2 DEF Line
<1>3. CASE job # Idle
  <2>1. <<job>> \in Seq(Job) /\ Len(<<job>>) = 1 /\ <<job>>[1] = job
    BY <1>1, <1>3
  <2>2. Line = <<job>> \o queue
    BY <1>3 DEF Line
  <2>3. Line \in Seq(Job) /\ Len(Line) = Len(queue) + 1 /\ Line[1] = job
    BY <1>1, <2>1, <2>2
  <2>4. \A i \in 2..Len(Line) : i - 1 \in 1..Len(queue) /\ Line[i] = queue[i - 1]
    BY <1>1, <2>1, <2>2, <2>3
  <2>5. Line # <<>> /\ Head(Line) = job
    BY <1>1, <2>3
  <2>6. Tail(Line) = queue
    <3>1. /\ Tail(Line) \in Seq(Job) /\ Len(Tail(Line)) = Len(queue)
          /\ \A i \in 1..Len(queue) : Tail(Line)[i] = Line[i + 1]
      BY <1>1, <2>3, <2>5
    <3>2. ASSUME NEW i \in 1..Len(queue)
          PROVE  Line[i + 1] = queue[i]
      <4>1. i + 1 \in 2..Len(Line) /\ (i + 1) - 1 = i
        BY <1>1, <2>3
      <4>2. QED
        BY <2>4, <4>1
    <3>3. QED
      BY <1>1, <3>1, <3>2, SeqEqual
  <2>7. QED
    BY <1>1, <1>3, <2>2, <2>3, <2>4, <2>5, <2>6
<1>4. QED
  BY <1>2, <1>3

(* Who waits in it.                                                          *)
LEMMA LineWaits ==
  ASSUME TypeOK, NEW j \in Job
  PROVE  (\E i \in 1..Len(Line) : Line[i] = j) <=> (Waits(j) \/ job = j)
<1>1. queue \in Seq(Job) /\ Len(queue) \in Nat
  BY DEF TypeOK
<1>2. CASE job = Idle
  BY <1>2, LineFacts, KindOfJob DEF Waits
<1>3. CASE job # Idle
  <2>1. /\ Len(Line) = Len(queue) + 1 /\ Line[1] = job
        /\ \A i \in 2..Len(Line) : i - 1 \in 1..Len(queue) /\ Line[i] = queue[i - 1]
    BY <1>3, LineFacts
  <2>2. ASSUME NEW i \in 1..Len(Line), Line[i] = j
        PROVE  Waits(j) \/ job = j
    <3>1. CASE i = 1
      BY <2>1, <2>2, <3>1
    <3>2. CASE i # 1
      <4>1. i \in 2..Len(Line)
        BY <1>1, <2>1, <3>2
      <4>2. QED
        BY <2>1, <2>2, <4>1 DEF Waits
    <3>3. QED
      BY <3>1, <3>2
  <2>3. ASSUME NEW i \in 1..Len(queue), queue[i] = j
        PROVE  \E k \in 1..Len(Line) : Line[k] = j
    <3>1. i + 1 \in 2..Len(Line) /\ (i + 1) - 1 = i /\ i + 1 \in 1..Len(Line)
      BY <1>1, <2>1
    <3>2. Line[i + 1] = j
      BY <2>1, <2>3, <3>1
    <3>3. QED
      BY <3>1, <3>2
  <2>4. 1 \in 1..Len(Line)
    BY <1>1, <2>1
  <2>5. QED
    BY <2>1, <2>2, <2>3, <2>4 DEF Waits
<1>4. QED
  BY <1>2, <1>3

(* A job that joins the queue joins the line.                                *)
LEMMA LineGrows ==
  ASSUME TypeOK, NEW j \in Job, queue' = Append(queue, j), job' = job
  PROVE  Line' = Append(Line, j)
<1>1. queue \in Seq(Job) /\ (job = Idle \/ job \in Job)
  BY DEF TypeOK
<1>2. CASE job = Idle
  BY <1>2 DEF Line
<1>3. CASE job # Idle
  <2>1. <<job>> \in Seq(Job) /\ <<j>> \in Seq(Job) /\ job \in Job
    BY <1>1, <1>3
  <2>2. Append(queue, j) = queue \o <<j>>
    BY <1>1, AppendIsConcat
  <2>3. Append(<<job>> \o queue, j) = (<<job>> \o queue) \o <<j>>
    <3>1. <<job>> \o queue \in Seq(Job)
      BY <1>1, <2>1
    <3>2. QED
      BY <3>1, AppendIsConcat
  <2>4. <<job>> \o (queue \o <<j>>) = (<<job>> \o queue) \o <<j>>
    BY <1>1, <2>1, ConcatAssociative
  <2>5. QED
    BY <1>3, <2>2, <2>3, <2>4 DEF Line
<1>4. QED
  BY <1>1, <1>2, <1>3

(* While a job runs, the atomic node is still where the job found it.        *)
LEMMA Unseen ==
  ASSUME job # Idle, UNCHANGED <<job, before, queue, answers, mining>>
  PROVE  UNCHANGED Atomic!vars
  BY DEF Atomic!vars

(* It is where the job left it once the job has ended.                       *)
LEMMA SeenAtEnd ==
  ASSUME ServiceInv, End
  PROVE  /\ job # Idle /\ job' = Idle /\ job \in Job /\ Ended /\ mining' = mining
         /\ UNCHANGED <<levels, pending, chain, receipts, saved, queue>>
         /\ Atomic!Answer(job, heard)
         /\ Line # <<>> /\ Head(Line) = job /\ Line' = Tail(Line)
         /\ \A j : Atomic!Kind(j) = Kind(j) /\ (Atomic!Saves(j) <=> Saves(j))
         /\ Atomic!AutoMining <=> AutoMining
<1>1. /\ job # Idle /\ job' = Idle /\ step = "end"
      /\ answers' = IF job = Tick THEN answers ELSE [answers EXCEPT ![job] = heard]
      /\ UNCHANGED <<levels, pending, chain, receipts, saved, queue, mining>>
  BY DEF End, At, node, timer
<1>2. TypeOK /\ Ended
  BY <1>1 DEF ServiceInv, StepInv
<1>3. job \in Job /\ Line # <<>> /\ Head(Line) = job /\ Tail(Line) = queue
  BY <1>1, <1>2, LineFacts
<1>4. Line' = queue
  BY <1>1 DEF Line
<1>5. Atomic!Answer(job, heard)
  BY <1>1 DEF Atomic!Answer
<1>6. \A j : Atomic!Kind(j) = Kind(j) /\ (Atomic!Saves(j) <=> Saves(j))
  BY DEF Atomic!Kind, Kind, Atomic!Saves, Saves, Atomic!AutoMining, AutoMining
<1>7. Atomic!AutoMining <=> AutoMining
  BY DEF Atomic!AutoMining, AutoMining
<1>8. QED
  BY <1>1, <1>2, <1>3, <1>4, <1>5, <1>6, <1>7

(* A job that mined, or stopped on the way, took one step of the atomic node. *)
LEMMA MinesInOneStep ==
  ASSUME ServiceInv, End, Mined \/ Stopped
  PROVE  /\ Atomic!Mines(job, BatchOf(job, before.pool))
         /\ Mines(job) /\ pending = PoolAfter(job, before.pool)
<1>1. /\ job # Idle /\ job' = Idle
      /\ UNCHANGED <<levels, pending, chain, receipts, saved, queue>>
      /\ Atomic!Answer(job, heard)
      /\ Atomic!Saves(job) <=> Saves(job)
  BY SeenAtEnd
<1>2. Taken
  BY DEF Mined, Stopped, RanAll, RanSome
<1>3. /\ batch = BatchOf(job, before.pool)
      /\ Mines(job) /\ pending = PoolAfter(job, before.pool)
  BY <1>2 DEF Taken
<1>4. CASE Mined
  <2>1. /\ Atomic!Valid(before.world, batch, Len(batch))
        /\ levels[1] = Atomic!After(before.world, batch, Len(batch))
        /\ receipts = before.receipts \cup Atomic!Txs(batch, Len(batch))
        /\ chain = before.chain \cup Atomic!Txs(batch, Len(batch))
    BY <1>4 DEF Mined, RanAll, Ran
  <2>2. \/ /\ heard = Atomic!Reply(job, batch)
           /\ saved = IF Saves(job) THEN Atomic!Image(levels[1], chain, receipts)
                                    ELSE before.saved
        \/ heard = <<"failed">> /\ saved = before.saved
    BY <1>4 DEF Mined, Unsaved
  <2>3. Atomic!MinesBlock(job, batch)
    BY <1>1, <2>1, <2>2 DEF Atomic!MinesBlock
  <2>4. QED
    BY <1>3, <2>3 DEF Atomic!Mines
<1>5. CASE Stopped
  <2>1. /\ Atomic!Valid(before.world, batch, done)
        /\ levels[1] = Atomic!After(before.world, batch, done)
        /\ receipts = before.receipts \cup Atomic!Txs(batch, done)
        /\ chain = before.chain /\ saved = before.saved
    BY <1>5 DEF Stopped, RanSome, Ran, Unsaved
  <2>2. \/ ~ Atomic!Valid(before.world, batch, done + 1) /\ heard = <<"refused">>
        \/ Atomic!Valid(before.world, batch, done + 1) /\ heard = <<"failed">>
    BY <1>5 DEF Stopped
  <2>3. done \in 0..(Len(batch) - 1)
    BY <1>5, BatchTypes DEF Stopped
  <2>4. Atomic!BatchStops(job, batch)
    BY <1>1, <2>1, <2>2, <2>3 DEF Atomic!BatchStops
  <2>5. QED
    BY <1>3, <2>4 DEF Atomic!Mines
<1>6. QED
  BY <1>1, <1>3, <1>4, <1>5

(* A job ends: the atomic node serves it.                                    *)
LEMMA EndServes == ServiceInv /\ End => Atomic!Serve
<1> SUFFICES ASSUME ServiceInv, End
             PROVE  Atomic!Serve
  OBVIOUS
<1>1. /\ job # Idle /\ job' = Idle /\ job \in Job /\ Ended /\ mining' = mining
      /\ UNCHANGED <<levels, pending, chain, receipts, saved, queue>>
      /\ Atomic!Answer(job, heard)
      /\ Line # <<>> /\ Head(Line) = job /\ Line' = Tail(Line)
      /\ Atomic!Kind(job) = Kind(job)
      /\ Atomic!AutoMining <=> AutoMining
  BY SeenAtEnd
<1>2. Kind(job) \in Kinds \cup {"tick"}
  BY <1>1, KindOfJob
<1>3. \/ Atomic!ServeSend(job) \/ Atomic!ServeMine(job)
      \/ Atomic!ServeRead(job) \/ Atomic!ServeCheat(job)
  <2>1. CASE Mined \/ Stopped
    <3>1. /\ Atomic!Mines(job, BatchOf(job, before.pool))
          /\ Mines(job) /\ pending = PoolAfter(job, before.pool)
      BY <2>1, MinesInOneStep
    <3>2. CASE Kind(job) \in {"mine", "tick"}
      <4>1. BatchOf(job, before.pool) = before.pool /\ pending = <<>>
        BY <3>1, <3>2 DEF BatchOf, PoolAfter, OwnBlock
      <4>2. QED
        BY <1>1, <3>1, <3>2, <4>1 DEF Atomic!ServeMine
    <3>3. CASE Kind(job) \in {"send", "sync"} /\ AutoMining
      <4>1. BatchOf(job, before.pool) = <<Asks[job].tx>> /\ pending = before.pool
        BY <3>1, <3>3 DEF BatchOf, PoolAfter, OwnBlock
      <4>2. QED
        BY <1>1, <3>1, <3>3, <4>1 DEF Atomic!ServeSend
    <3>4. CASE Kind(job) = "sync" /\ ~ AutoMining
      <4>1. BatchOf(job, before.pool) = Append(before.pool, Asks[job].tx) /\ pending = <<>>
        BY <3>1, <3>4 DEF BatchOf, PoolAfter, OwnBlock
      <4>2. QED
        BY <1>1, <3>1, <3>4, <4>1 DEF Atomic!ServeSend
    <3>5. QED
      BY <3>1, <3>2, <3>3, <3>4 DEF Mines
  <2>2. CASE Queued
    <3>1. /\ Kind(job) = "send" /\ ~ AutoMining /\ heard = <<"hash">>
          /\ levels[1] = before.world /\ pending = Append(before.pool, Asks[job].tx)
          /\ chain = before.chain /\ receipts = before.receipts /\ saved = before.saved
      BY <2>2 DEF Queued, Unsaved
    <3>2. QED
      BY <1>1, <3>1 DEF Atomic!ServeSend
  <2>3. CASE ReadDone
    <3>1. /\ Kind(job) \in {"read", "call"} /\ heard = <<"state", before.world>>
          /\ levels[1] = before.world /\ pending = before.pool
          /\ chain = before.chain /\ receipts = before.receipts /\ saved = before.saved
      BY <2>3 DEF ReadDone, Untouched, Unsaved
    <3>2. QED
      BY <1>1, <3>1 DEF Atomic!ServeRead
  <2>4. CASE Cheated
    <3>1. /\ Kind(job) = "cheat" /\ heard = <<"done">>
          /\ levels[1] = [before.world EXCEPT ![Asks[job].tx.sender] = Asks[job].tx.nonce]
          /\ pending = before.pool
          /\ chain = before.chain /\ receipts = before.receipts /\ saved = before.saved
      BY <2>4 DEF Cheated, Unsaved
    <3>2. QED
      BY <1>1, <3>1 DEF Atomic!ServeCheat
  <2>5. QED
    BY <1>1, <2>1, <2>2, <2>3, <2>4 DEF Ended
<1>4. QED
  BY <1>1, <1>3 DEF Atomic!Serve, Line

(* A client calls, ...                                                       *)
LEMMA SubmitMaps ==
  ASSUME ServiceInv, NEW r \in Request, Submit(r)
  PROVE  Atomic!Submit(r)
<1>1. /\ r \in Clients[mining] /\ answers[r] = None /\ ~ Waits(r) /\ job # r
      /\ queue' = Append(queue, r)
      /\ UNCHANGED <<levels, pending, chain, receipts, saved, job, before, answers, mining>>
  BY DEF Submit, node, work, timer
<1>2. r \in Job /\ TypeOK
  BY DEF Job, ServiceInv
<1>3. Line' = Append(Line, r)
  BY <1>1, <1>2, LineGrows
<1>4. ~ \E i \in 1..Len(Line) : Line[i] = r
  BY <1>1, <1>2, LineWaits
<1>5. ~ Atomic!Waits(r)
  BY <1>4 DEF Atomic!Waits, Line
<1>6. QED
  BY <1>1, <1>3, <1>5 DEF Atomic!Submit, Line

(* ... or the timer does.                                                    *)
LEMMA TimerFiresMaps ==
  ASSUME ServiceInv, TimerFires
  PROVE  Atomic!TimerFires
<1>1. /\ timerArmed /\ ~ minePending /\ queue' = Append(queue, Tick)
      /\ UNCHANGED <<levels, pending, chain, receipts, saved, job, before, answers, mining>>
  BY DEF TimerFires, TickAllowed, node, work
<1>2. Tick \in Job /\ TypeOK
  BY DEF Job, ServiceInv
<1>3. IntervalMining /\ \A i \in 1..Len(queue) : queue[i] # Tick
  BY <1>1 DEF ServiceInv, TimerInv
<1>4. Line' = Append(Line, Tick)
  BY <1>1, <1>2, LineGrows
<1>5. ~ \E i \in 2..Len(Line) : Line[i] = Tick
  <2>1. CASE job = Idle
    <3>1. Line = queue /\ Len(queue) \in Nat
      BY <1>2, <2>1, LineFacts
    <3>2. QED
      BY <1>3, <3>1
  <2>2. CASE job # Idle
    BY <1>2, <1>3, <2>2, LineFacts
  <2>3. QED
    BY <2>1, <2>2
<1>6. QED
  BY <1>1, <1>3, <1>4, <1>5 DEF Atomic!TimerFires, Atomic!IntervalMining, IntervalMining, Line

(* A job starts, and nothing can be seen of it.                              *)
LEMMA StartUnseen ==
  ASSUME ServiceInv, Start
  PROVE  UNCHANGED Atomic!vars
<1>1. /\ queue # <<>> /\ job = Idle /\ job' = Head(queue) /\ queue' = Tail(queue)
      /\ before' = Settled
      /\ UNCHANGED <<levels, pending, chain, receipts, saved, answers, mining>>
  BY DEF Start, node
<1>2. queue \in Seq(Job)
  BY DEF ServiceInv, TypeOK
<1>3. job' \in Job
  BY <1>1, <1>2
<1>4. job' # Idle
  BY <1>3, KindOfJob
<1>5. Line' = Line
  <2>1. <<Head(queue)>> \o Tail(queue) = queue
    BY <1>1, <1>2
  <2>2. Line = queue /\ Line' = <<Head(queue)>> \o Tail(queue)
    BY <1>1, <1>4 DEF Line
  <2>3. QED
    BY <2>1, <2>2
<1>6. QED
  BY <1>1, <1>4, <1>5 DEF Atomic!vars, Settled, Line

(* A running job saves only what mines, once it has all run.                 *)
LEMMA SavedMidJob ==
  ASSUME ServiceInv, job # Idle, saved # before.saved
  PROVE  RanAll /\ Saves(job) /\ saved = Atomic!Image(levels[1], chain, receipts)
<1>1. step \in Steps /\ step # "none"
  BY DEF ServiceInv, TypeOK
<1>2. ~ Unsaved
  BY DEF Unsaved
<1>3. ~ Untouched /\ ~ RanSome
  BY <1>2 DEF Untouched, RanSome
<1>4. step = "end" /\ Ended
  BY <1>1, <1>2, <1>3 DEF ServiceInv, StepInv, Steps
<1>5. Mined
  BY <1>2, <1>3, <1>4 DEF Ended, Stopped, Queued, ReadDone, Cheated
<1>6. QED
  BY <1>2, <1>5 DEF Mined, Unsaved

(* A crash finds the job's save landed, or not.                              *)
LEMMA CrashMaps ==
  ASSUME ServiceInv, Crash
  PROVE  Atomic!Crash \/ Atomic!CrashAfterSave
<1>1. /\ saved' = saved /\ mining' = mining /\ levels' = <<saved.world>>
      /\ pending' = <<>> /\ chain' = saved.chain /\ receipts' = saved.receipts
      /\ queue' = <<>> /\ job' = Idle
      /\ answers' = [r \in Request |-> IF Waits(r) \/ job = r THEN <<"lost">>
                                       ELSE answers[r]]
  BY DEF Crash
<1>2. TypeOK /\ saved \in Image
  BY DEF ServiceInv, RecordsOK
<1>3. \A r \in Request : Atomic!Waits(r) <=> Waits(r) \/ job = r
  <2>1. SUFFICES ASSUME NEW r \in Request
                 PROVE  Atomic!Waits(r) <=> Waits(r) \/ job = r
    OBVIOUS
  <2>2. r \in Job
    BY DEF Job
  <2>3. (\E i \in 1..Len(Line) : Line[i] = r) <=> (Waits(r) \/ job = r)
    BY <1>2, <2>2, LineWaits
  <2>4. QED
    BY <2>3 DEF Atomic!Waits, Line
<1>4. answers' = [r \in Request |-> IF Atomic!Waits(r) THEN <<"lost">> ELSE answers[r]]
  BY <1>1, <1>3
<1>5. Line' = <<>> /\ levels'[1] = saved.world
  BY <1>1 DEF Line
<1>6. Atomic!RestartFrom(saved)
  BY <1>1, <1>4, <1>5 DEF Atomic!RestartFrom, Line
<1>7. CASE job = Idle \/ saved = before.saved
  <2>1. (IF job = Idle THEN saved ELSE before.saved) = saved
    BY <1>7
  <2>2. Atomic!Crash
    BY <1>6, <2>1 DEF Atomic!Crash
  <2>3. QED
    BY <2>2
<1>8. CASE job # Idle /\ saved # before.saved
  <2>1. RanAll /\ Saves(job) /\ saved = Atomic!Image(levels[1], chain, receipts)
    BY <1>8, SavedMidJob
  <2>2. /\ Atomic!Valid(before.world, batch, Len(batch))
        /\ levels[1] = Atomic!After(before.world, batch, Len(batch))
        /\ receipts = before.receipts \cup Atomic!Txs(batch, Len(batch))
        /\ chain = before.chain \cup Atomic!Txs(batch, Len(batch))
        /\ batch = BatchOf(job, before.pool)
    BY <2>1 DEF RanAll, Ran, Taken
  <2>3. batch = IF Kind(job) = "mine" THEN before.pool ELSE <<Asks[job].tx>>
    BY <2>1, <2>2 DEF Saves, BatchOf
  <2>4. Line # <<>> /\ Head(Line) = job
    BY <1>2, <1>8, LineFacts
  <2>5. Atomic!Saves(job) /\ Atomic!Kind(job) = Kind(job)
    BY <2>1 DEF Atomic!Saves, Saves, Atomic!Kind, Kind, Atomic!AutoMining, AutoMining
  <2>6. Atomic!RestartFrom(Atomic!Image(Atomic!After(before.world, batch, Len(batch)),
                                        before.chain \cup Atomic!Txs(batch, Len(batch)),
                                        before.receipts \cup Atomic!Txs(batch, Len(batch))))
    BY <1>6, <2>1, <2>2
  <2>7. Atomic!CrashAfterSave
    BY <1>8, <2>2, <2>3, <2>4, <2>5, <2>6 DEF Atomic!CrashAfterSave, Line
  <2>8. QED
    BY <2>7
<1>9. QED
  BY <1>7, <1>8

(* The node starts as the atomic one does.                                   *)
LEMMA InitMaps == Init => Atomic!Init
<1> SUFFICES ASSUME Init
             PROVE  Atomic!Init
  OBVIOUS
<1>1. /\ mining \in Mining /\ levels = <<[s \in Sender |-> 0]>> /\ pending = <<>>
      /\ chain = {} /\ receipts = {} /\ saved = Dump /\ queue = <<>> /\ job = Idle
      /\ answers = [r \in Request |-> None]
  BY DEF Init
<1>2. levels[1] = [s \in Sender |-> 0] /\ Top = levels[1]
  BY <1>1 DEF Top
<1>3. saved = Atomic!Image(levels[1], chain, receipts)
  BY <1>1, <1>2 DEF Dump, Atomic!Image
<1>4. QED
  BY <1>1, <1>2, <1>3 DEF Atomic!Init

(* Every step of the node is a step of the atomic one, or none.              *)
LEMMA NextMaps == ServiceInv /\ [Next]_vars => [Atomic!Next]_(Atomic!vars)
<1> SUFFICES ASSUME ServiceInv, [Next]_vars
             PROVE  Atomic!Next \/ UNCHANGED Atomic!vars
  OBVIOUS
<1>1. CASE UNCHANGED vars
  BY <1>1 DEF vars, node, work, timer, Atomic!vars
<1>2. CASE \E r \in Request : Submit(r)
  BY <1>2, SubmitMaps DEF Atomic!Next
<1>3. CASE TimerFires
  BY <1>3, TimerFiresMaps DEF Atomic!Next
<1>4. CASE Dispose
  BY <1>4 DEF Dispose, node, work, Atomic!vars
<1>5. CASE Crash
  BY <1>5, CrashMaps DEF Atomic!Next
<1>6. CASE Start
  BY <1>6, StartUnseen
<1>7. CASE Read \/ EnterCall \/ RunCall \/ LeaveCall \/ Cheat
  BY <1>7, Unseen DEF Read, EnterCall, RunCall, LeaveCall, Cheat, At, GotoEnd, Goto, timer
<1>8. CASE SubmitTx \/ TakeBatch \/ RefuseTx \/ EnterTx \/ ExecuteTx \/ CommitTx
  BY <1>8, Unseen
  DEF SubmitTx, TakeBatch, RefuseTx, EnterTx, ExecuteTx, CommitTx, At, GotoEnd, Goto, timer
<1>9. CASE EngineFails \/ StoreBlock \/ SaveLands \/ SaveFails
  BY <1>9, Unseen
  DEF EngineFails, StoreBlock, SaveLands, SaveFails, At, GotoEnd, Goto, timer
<1>10. CASE End
  BY <1>10, EndServes DEF Atomic!Next
<1>11. QED
  BY <1>1, <1>2, <1>3, <1>4, <1>5, <1>6, <1>7, <1>8, <1>9, <1>10 DEF Next, JobStep

(* The node of node.ts, with its awaits, its promise chain, its timer, its   *)
(* failures and its crashes, does nothing that the atomic node could not do: *)
(* every job is served in one step, in order, against a settled state.       *)
THEOREM ServiceIsAtomic == Spec => ImplementsAtomicNode
  BY InitMaps, NextMaps, ServiceAlways, PTL DEF Spec, ImplementsAtomicNode, Atomic!Spec
=============================================================================
