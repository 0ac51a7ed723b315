------------------------------ MODULE EngineProofs ------------------------------
(***************************************************************************)
(* The engines, for every value of the constants.                           *)
(*                                                                         *)
(* The seam (EngineSeam): whatever accounts, code, requests, fees and block   *)
(* there are, the two engines give one answer to every request and hold one   *)
(* state, a read commits nothing, and a receipt says what was paid.           *)
(*                                                                         *)
(* The bring-up (EngineBringUp): whatever nodes are made, on whatever they     *)
(* are given as engines, a node that is up has an engine of its own, under     *)
(* a fork whose costs the node's arithmetic gives.                           *)
(***************************************************************************)
EXTENDS Engines, TLAPS

Book == [Account -> [balance : Nat, nonce : Nat]]

-----------------------------------------------------------------------------
(* Numbers. *)

LEMMA LesserOf ==
  ASSUME NEW a \in Int, NEW b \in Int
  PROVE  Min({a, b}) = IF a <= b THEN a ELSE b
<1> DEFINE m == IF a <= b THEN a ELSE b
<1>1. m \in {a, b} /\ \A y \in {a, b} : m <= y
  OBVIOUS
<1>2. \A x \in {a, b} : (\A y \in {a, b} : x <= y) => x = m
  OBVIOUS
<1>3. QED
  BY <1>1, <1>2 DEF Min

LEMMA GreaterOf ==
  ASSUME NEW a \in Int, NEW b \in Int
  PROVE  Max({a, b}) = IF a >= b THEN a ELSE b
<1> DEFINE m == IF a >= b THEN a ELSE b
<1>1. m \in {a, b} /\ \A y \in {a, b} : m >= y
  OBVIOUS
<1>2. \A x \in {a, b} : (\A y \in {a, b} : x >= y) => x = m
  OBVIOUS
<1>3. QED
  BY <1>1, <1>2 DEF Max

LEMMA Product == \A a, b \in Nat : a * b \in Nat
  OBVIOUS

LEMMA SmallerProduct ==
  ASSUME NEW a \in Nat, NEW b \in Nat, NEW c \in Nat, NEW d \in Nat, a <= c, b <= d
  PROVE  a * b <= c * d
<1>1. a * b <= a * d
  <2>1. d - b \in Nat /\ a * (d - b) \in Nat
    BY Product
  <2>2. a * (d - b) = a * d - a * b
    OBVIOUS
  <2>3. QED
    BY <2>1, <2>2
<1>2. a * d <= c * d
  <2>1. c - a \in Nat /\ (c - a) * d \in Nat
    BY Product
  <2>2. (c - a) * d = c * d - a * d
    OBVIOUS
  <2>3. QED
    BY <2>1, <2>2
<1>3. QED
  BY <1>1, <1>2, Product

-----------------------------------------------------------------------------
(* What code does. *)

LEMMA IntrinsicNat ==
  ASSUME NEW to
  PROVE  Intrinsic(to) \in Nat
BY SeamAssumption DEF Intrinsic

LEMMA FrameTyped ==
  ASSUME NEW script \in Script, NEW gas \in Nat, NEW isWarm \in BOOLEAN,
         NEW frame, frame = Frame(script, gas, isWarm, TheBlock)
  PROVE  /\ frame.used \in 0..gas
         /\ frame.ends \in {"return", "revert", "halt"}
         /\ frame.bytes \in Bytes
<1> DEFINE need == script.need + (IF isWarm THEN 0 ELSE ColdAccess)
           ends == IF gas < need THEN "halt" ELSE script.ends
<1>1. need \in Nat /\ BaseFee \in Nat /\ script.ends \in {"return", "revert", "halt"}
  BY SeamAssumption DEF Script
<1>2. /\ frame.used = IF ends = "halt" THEN gas ELSE need
      /\ frame.ends = ends
      /\ frame.bytes =
           CASE ends = "return" -> <<"result", BaseFee>>
             [] ends = "revert" -> <<"reason", 0>>
             [] OTHER           -> Nothing
  BY DEF Frame, TheBlock
<1>3. ends \in {"return", "revert", "halt"} /\ (ends # "halt" => need <= gas)
  BY <1>1
<1> HIDE DEF ends, need
<1>4. frame.used \in 0..gas
  BY <1>1, <1>2, <1>3
<1>5. /\ <<"result", BaseFee>> \in Bytes /\ <<"reason", 0>> \in Bytes
      /\ Nothing \in Bytes
  BY <1>1 DEF Bytes
<1>6. QED
  BY <1>2, <1>3, <1>4, <1>5

(* What a transaction moves: the cost off its sender, the tip to the          *)
(* coinbase, and the value if the code succeeded.                             *)
Charged(book, from, to, cost, reward, value, succeeded) ==
  LET burned == [book EXCEPT ![from].balance = @ - cost]
      paid   == [NextNonce(burned, from) EXCEPT ![Coinbase].balance = @ + reward]
  IN  IF succeeded THEN Pay(paid, from, to, value) ELSE paid

LEMMA ChargedBook ==
  ASSUME NEW book \in Book, NEW from \in Person, NEW to \in Contract \cup {Create},
         NEW cost \in Nat, NEW reward \in Nat, NEW value \in Nat,
         NEW succeeded \in BOOLEAN, cost + value <= book[from].balance
  PROVE  /\ Charged(book, from, to, cost, reward, value, succeeded) \in Book
         /\ Charged(book, from, to, cost, reward, value, succeeded)[from] =
              [balance |-> book[from].balance - (cost + IF succeeded THEN value ELSE 0),
               nonce   |-> book[from].nonce + 1]
<1> DEFINE burned == [book EXCEPT ![from].balance = @ - cost]
           moved  == NextNonce(burned, from)
           paid   == [moved EXCEPT ![Coinbase].balance = @ + reward]
           done   == Pay(paid, from, to, value)
<1>1. /\ from \in Account /\ to \in Account /\ Coinbase \in Account
      /\ from # Coinbase /\ from # to
  BY SeamAssumption DEF Account
<1>2. /\ book[from].balance \in Nat /\ book[from].nonce \in Nat
      /\ book[from].balance - cost \in Nat
  BY <1>1 DEF Book
<1>3. /\ burned \in Book
      /\ burned[from].balance = book[from].balance - cost
      /\ burned[from].nonce = book[from].nonce
  BY <1>1, <1>2 DEF Book
<1> HIDE DEF burned
<1>4. /\ moved \in Book
      /\ moved[from].balance = book[from].balance - cost
      /\ moved[from].nonce = book[from].nonce + 1
  BY <1>1, <1>2, <1>3 DEF Book, NextNonce
<1> HIDE DEF moved
<1>5. paid \in Book /\ paid[from] = moved[from]
  <2>1. moved[Coinbase].balance \in Nat
    BY <1>1, <1>4 DEF Book
  <2>2. QED
    BY <1>1, <1>4, <2>1 DEF Book
<1> HIDE DEF paid
<1>6. done \in Book /\ done[from] = [paid[from] EXCEPT !.balance = @ - value]
  <2>1. /\ paid[from].balance - value \in Nat
        /\ paid[to].balance + value \in Nat
    BY <1>1, <1>2, <1>4, <1>5 DEF Book
  <2>2. QED
    BY <1>1, <1>5, <2>1 DEF Book, Pay
<1>7. Charged(book, from, to, cost, reward, value, succeeded) =
        IF succeeded THEN done ELSE paid
  BY DEF Charged, paid, moved, burned
<1> HIDE DEF done
<1>8. paid[from] = [balance |-> book[from].balance - cost, nonce |-> book[from].nonce + 1]
  <2>1. paid[from] \in [balance : Nat, nonce : Nat]
    BY <1>1, <1>5 DEF Book
  <2>2. QED
    BY <1>4, <1>5, <2>1
<1>9. QED
  BY <1>2, <1>5, <1>6, <1>7, <1>8

(* A transaction that no engine refuses, at a price within its cap.           *)
LEMMA ExecutedTyped ==
  ASSUME NEW book \in Book, NEW from \in Person, NEW to \in Contract \cup {Create},
         NEW script \in Script, NEW gasLimit \in Nat, NEW value \in Nat,
         NEW price \in Nat, NEW cap \in Nat, price <= cap, BaseFee <= price,
         Intrinsic(to) <= gasLimit, gasLimit * cap + value <= book[from].balance,
         NEW run,
         run = Executed(book, from, to, script, gasLimit, value, price, TheBlock)
  PROVE  /\ run.net \in Nat
         /\ run.ends \in {"return", "revert", "halt"}
         /\ run.book \in Book
         /\ run.book[from] =
              [balance |-> book[from].balance
                           - (run.net * price + IF run.ends = "return" THEN value ELSE 0),
               nonce   |-> book[from].nonce + 1]
<1> DEFINE gas    == gasLimit - Intrinsic(to)
           frame  == Frame(script, gas, FALSE, TheBlock)
           spent  == Intrinsic(to) + frame.used
           refund == IF frame.ends = "return" THEN Min({script.refund, spent \div 5}) ELSE 0
           net    == spent - refund
<1>1. gas \in Nat /\ Intrinsic(to) \in Nat /\ BaseFee \in Nat /\ script.refund \in Nat
  BY IntrinsicNat, SeamAssumption DEF Script
<1>2. frame.used \in 0..gas /\ frame.ends \in {"return", "revert", "halt"}
  <2>1. PICK fr : fr = frame
    OBVIOUS
  <2>2. fr = Frame(script, gas, FALSE, TheBlock)
    BY <2>1
  <2> HIDE DEF gas, frame
  <2>3. QED
    BY <1>1, <2>1, <2>2, FrameTyped
<1>3. /\ run.net = net
      /\ run.ends = frame.ends
      /\ run.book = Charged(book, from, to, net * price, net * (price - BaseFee), value,
                           frame.ends = "return")
  BY DEF Executed, Charged, TheBlock
<1> HIDE DEF frame
<1>4. spent \in 0..gasLimit
  BY <1>1, <1>2
<1> HIDE DEF spent, gas
<1>5. refund \in 0..spent
  <2>1. spent \div 5 \in 0..spent
    BY <1>4
  <2>2. PICK fifth \in 0..spent, back \in Nat : fifth = spent \div 5 /\ back = script.refund
    BY <1>1, <2>1
  <2>3. Min({back, fifth}) = IF back <= fifth THEN back ELSE fifth
    BY <1>4, LesserOf
  <2>4. Min({script.refund, spent \div 5}) \in 0..spent
    BY <1>4, <2>2, <2>3
  <2>5. QED
    BY <1>4, <2>4
<1> HIDE DEF refund
<1>6. net \in 0..gasLimit
  BY <1>4, <1>5
<1> HIDE DEF net
<1>7. /\ net * price \in Nat /\ net * (price - BaseFee) \in Nat
      /\ net * price <= gasLimit * cap
  <2>1. price - BaseFee \in Nat /\ net \in Nat
    BY <1>1, <1>6
  <2>2. QED
    BY <1>6, <2>1, Product, SmallerProduct
<1> DEFINE cost   == net * price
           reward == net * (price - BaseFee)
<1>8. cost + value <= book[from].balance
  <2>1. gasLimit * cap \in Nat
    BY Product
  <2>2. book[from].balance \in Nat
    BY DEF Book, Account
  <2>3. QED
    BY <1>7, <2>1, <2>2
<1>9. cost \in Nat /\ reward \in Nat
  BY <1>7
<1>10. run.net * price = cost
  BY <1>3
<1>11. run.book = Charged(book, from, to, cost, reward, value, frame.ends = "return")
  BY <1>3
<1> HIDE DEF cost, reward
<1>12. PICK succeeded \in BOOLEAN : succeeded <=> frame.ends = "return"
  OBVIOUS
<1>13. run.book = Charged(book, from, to, cost, reward, value, succeeded)
  BY <1>11, <1>12 DEF Charged
<1>14. /\ run.book \in Book
       /\ run.book[from] =
            [balance |-> book[from].balance - (cost + IF succeeded THEN value ELSE 0),
             nonce   |-> book[from].nonce + 1]
  BY <1>8, <1>9, <1>13, ChargedBook
<1>15. QED
  BY <1>2, <1>3, <1>6, <1>10, <1>12, <1>14

-----------------------------------------------------------------------------
(* The seam. *)

LEMMA Ledgers ==
  ASSUME TypeOK
  PROVE  ledger["default"] \in Book /\ ledger["revm"] \in Book
BY DEF TypeOK, Book, Engine

(* The gas revm takes for itself is what the read was given on top.           *)
LEMMA ReadsAgree ==
  ASSUME EnginesAgree, NEW request \in Reads
  PROVE  /\ DefaultCall(request).answer = RevmCall(request).answer
         /\ DefaultCall(request).answer \in ReadCallResult
         /\ DefaultCall(request).book = ledger["default"]
         /\ RevmCall(request).book = ledger["revm"]
<1> DEFINE book    == ledger["default"]
           o       == RevmCallOptions(request)
           outcome == RevmOutcome(ledger["revm"], o, FALSE)
           frame   == Frame(request.script, request.gasLimit, FALSE, TheBlock)
           own     == Intrinsic(request.to)
<1>1. /\ ledger["revm"] = book /\ book \in Book
      /\ request \in ReadCallRequest
  BY Ledgers, SeamAssumption DEF EnginesAgree
<1>2. /\ request.gasLimit \in Nat /\ request.script \in Script /\ own \in Nat
      /\ request.value \in Nat /\ request.from \in Account
      /\ book[request.from].balance \in Nat
  BY <1>1, IntrinsicNat DEF ReadCallRequest, Book, Account
<1>3. /\ frame.used \in Nat /\ frame.ends \in {"return", "revert", "halt"}
      /\ frame.bytes \in Bytes
  <2>1. PICK code \in Script, gas \in Nat : code = request.script /\ gas = request.gasLimit
    BY <1>2
  <2>2. PICK fr : fr = Frame(code, gas, FALSE, TheBlock)
    OBVIOUS
  <2>3. fr = frame
    BY <2>1, <2>2
  <2> HIDE DEF frame
  <2>4. fr.used \in 0..gas /\ fr.ends \in {"return", "revert", "halt"} /\ fr.bytes \in Bytes
    BY <2>2, FrameTyped
  <2>5. QED
    BY <2>3, <2>4
<1>4. /\ o.from = request.from /\ o.to = request.to /\ o.script = request.script
      /\ o.value = request.value /\ o.gasLimit = request.gasLimit + own
      /\ o.block = TheBlock /\ o.price = 0 /\ o.tip = -1
      /\ ~ o.checkNonce /\ ~ o.commit
      /\ o.disableBaseFee /\ o.disableBlockGasLimit /\ o.disableEip3607
      /\ ~ o.disableBalanceCheck
  BY DEF RevmCallOptions, BlockEnvOf
<1> HIDE DEF o
<1>5. RevmRejects(book, o) <=> book[request.from].balance < request.value
  <2>1. o.gasLimit * o.price = 0
    BY <1>2, <1>4
  <2>2. ~ (o.gasLimit < Intrinsic(o.to))
    BY <1>2, <1>4
  <2>3. QED
    BY <1>2, <1>4, <2>1, <2>2 DEF RevmRejects
<1>6. outcome.book = ledger["revm"]
  BY <1>4 DEF RevmOutcome
<1>7. CASE book[request.from].balance < request.value
  <2>1. DefaultCall(request).answer =
          [returnValue |-> Nothing, executionGasUsed |-> 0, error |-> TRUE]
    BY <1>7 DEF DefaultCall, RunCall
  <2>2. outcome.status = "validation-error" /\ outcome.totalGasSpent = 0
    BY <1>1, <1>5, <1>7 DEF RevmOutcome
  <2>3. ExecutionGasOf(outcome, own) = 0
    <3> HIDE DEF outcome, own
    <3>1. outcome.totalGasSpent - own = 0 - own /\ 0 - own \in Int /\ 0 >= 0 - own
      BY <1>2, <2>2
    <3>2. PICK less \in Int : less = 0 - own
      BY <3>1
    <3>3. Max({0, less}) = 0
      BY <3>1, <3>2, GreaterOf
    <3>4. QED
      BY <3>1, <3>2, <3>3 DEF ExecutionGasOf
  <2>4. RevmCall(request).answer =
          [returnValue |-> Nothing, executionGasUsed |-> 0, error |-> TRUE]
    BY <2>2, <2>3 DEF RevmCall, ReturnValueOf, o
  <2>5. DefaultCall(request).answer \in ReadCallResult
    BY <2>1 DEF ReadCallResult, Bytes
  <2>6. QED
    BY <1>6, <2>1, <2>4, <2>5 DEF DefaultCall, RevmCall, o
<1>8. CASE ~ (book[request.from].balance < request.value)
  <2>1. DefaultCall(request).answer =
          [returnValue |-> frame.bytes, executionGasUsed |-> frame.used,
           error |-> frame.ends # "return"]
    BY <1>8 DEF DefaultCall, RunCall, WarmAtStart
  <2>2. o.gasLimit - Intrinsic(o.to) = request.gasLimit
    BY <1>2, <1>4
  <2>3. /\ outcome.status = frame.ends /\ outcome.returnData = frame.bytes
        /\ outcome.totalGasSpent = own + frame.used
    BY <1>1, <1>4, <1>5, <1>8, <2>2 DEF RevmOutcome, Executed
  <2>4. ExecutionGasOf(outcome, own) = frame.used
    <3> HIDE DEF outcome, frame, own
    <3>1. PICK used \in Nat : used = frame.used
      BY <1>3
    <3>2. outcome.totalGasSpent - own = used
      BY <1>2, <2>3, <3>1
    <3>3. Max({0, used}) = used
      BY GreaterOf
    <3>4. QED
      BY <3>1, <3>2, <3>3 DEF ExecutionGasOf
  <2>5. ReturnValueOf(outcome) = frame.bytes
    BY <1>3, <2>3 DEF ReturnValueOf
  <2>6. RevmCall(request).answer =
          [returnValue |-> frame.bytes, executionGasUsed |-> frame.used,
           error |-> frame.ends # "return"]
    BY <2>3, <2>4, <2>5 DEF RevmCall, o
  <2>7. DefaultCall(request).answer \in ReadCallResult
    <3> HIDE DEF frame
    <3>1. PICK failed \in BOOLEAN : failed = (frame.ends # "return")
      OBVIOUS
    <3>2. PICK bytes \in Bytes, used \in Nat : bytes = frame.bytes /\ used = frame.used
      BY <1>3
    <3>3. [returnValue |-> bytes, executionGasUsed |-> used, error |-> failed]
            \in ReadCallResult
      BY DEF ReadCallResult
    <3>4. QED
      BY <2>1, <3>1, <3>2, <3>3
  <2>8. QED
    BY <1>6, <2>1, <2>6, <2>7 DEF DefaultCall, RevmCall, o
<1>9. QED
  BY <1>7, <1>8

(* The price the protocol charges, which either engine reports.               *)
LEMMA PriceCharged ==
  ASSUME NEW tx \in Transactions, tx.cap >= BaseFee
  PROVE  /\ ProtocolPrice(tx) \in Nat
         /\ ProtocolPrice(tx) <= tx.cap
         /\ BaseFee <= ProtocolPrice(tx)
         /\ EffectiveGasPrice(tx) = ProtocolPrice(tx)
         /\ (IF FeesOf(tx).tip = -1 THEN FeesOf(tx).price
              ELSE Min({FeesOf(tx).price, BaseFee + FeesOf(tx).tip})) = ProtocolPrice(tx)
<1>1. /\ tx.cap \in Nat /\ tx.tip \in Nat /\ tx.type \in {"legacy", "1559"}
      /\ BaseFee \in Nat
  BY SeamAssumption DEF TransactionRequest
<1>2. CASE tx.type = "legacy"
  BY <1>1, <1>2 DEF ProtocolPrice, EffectiveGasPrice, FeesOf
<1>3. CASE tx.type = "1559"
  <2>1. PICK cap \in Nat, tip \in Nat, base \in Nat :
          cap = tx.cap /\ tip = tx.tip /\ base = BaseFee
    BY <1>1
  <2>2. Min({cap, base + tip}) = IF cap <= base + tip THEN cap ELSE base + tip
    BY LesserOf
  <2>3. Min({cap - base, tip}) = IF cap - base <= tip THEN cap - base ELSE tip
    BY LesserOf
  <2>4. ProtocolPrice(tx) = Min({cap, base + tip})
    BY <1>3, <2>1 DEF ProtocolPrice
  <2>5. EffectiveGasPrice(tx) = Min({cap - base, tip}) + base
    BY <1>3, <2>1 DEF EffectiveGasPrice
  <2>6. FeesOf(tx).tip = tip /\ FeesOf(tx).price = cap /\ tip # -1
    BY <1>3, <2>1 DEF FeesOf
  <2>7. base <= cap
    BY <2>1
  <2>8. QED
    BY <2>1, <2>2, <2>3, <2>4, <2>5, <2>6, <2>7
<1>4. QED
  BY <1>1, <1>2, <1>3

(* The two engines refuse the same transactions.                             *)
LEMMA RefusalsAgree ==
  ASSUME NEW tx \in Transactions, NEW book
  PROVE  RunTxRejects(book, tx, AsSender(tx)) <=> RevmRejects(book, RevmTransactOptions(tx))
<1> DEFINE o == RevmTransactOptions(tx)
<1>1. /\ o.from = tx.sender /\ o.to = tx.to /\ o.value = tx.value
      /\ o.gasLimit = tx.gasLimit /\ o.nonce = tx.nonce /\ o.price = tx.cap
      /\ o.block = TheBlock /\ o.checkNonce /\ o.commit
      /\ ~ o.disableBaseFee /\ ~ o.disableBlockGasLimit /\ ~ o.disableEip3607
      /\ ~ o.disableBalanceCheck
  BY DEF RevmTransactOptions, BlockEnvOf, FeesOf
<1> HIDE DEF o
<1>2. RunTxRejects(book, tx, tx.sender) <=> RevmRejects(book, o)
  BY <1>1 DEF RunTxRejects, RevmRejects, TheBlock
<1>3. QED
  BY <1>2 DEF AsSender, o

(* The first of a sequence is the last of its reverse.                       *)
LEMMA FirstIsLast ==
  ASSUME NEW S, NEW s \in Seq(S), Len(s) >= 1
  PROVE  /\ Reverse(s) \in Seq(S)
         /\ Len(Reverse(s)) = Len(s)
         /\ Reverse(s)[Len(s)] = s[1]
<1>1. Len(s) \in Nat /\ \A i \in 1..Len(s) : (Len(s) - i) + 1 \in 1..Len(s)
  OBVIOUS
<1>2. Reverse(s) = [i \in 1..Len(s) |-> s[(Len(s) - i) + 1]]
  BY DEF Reverse
<1>3. \A i \in 1..Len(s) : s[(Len(s) - i) + 1] \in S
  BY <1>1
<1>4. Reverse(s) \in [1..Len(s) -> S]
  BY <1>2, <1>3
<1>5. Reverse(s) \in Seq(S) /\ Len(Reverse(s)) = Len(s)
  BY <1>1, <1>4
<1>6. (Len(s) - Len(s)) + 1 = 1 /\ Len(s) \in 1..Len(s)
  BY <1>1
<1>7. QED
  BY <1>2, <1>5, <1>6

LEMMA InRange ==
  ASSUME NEW S, NEW s \in Seq(S), NEW i \in 1..Len(s)
  PROVE  s[i] \in Range(s)
BY DEF Range

LEMMA Prepended ==
  ASSUME NEW S, NEW e \in S, NEW s \in Seq(S)
  PROVE  <<e>> \o s \in Seq(S) /\ Len(<<e>> \o s) = Len(s) + 1 /\ (<<e>> \o s)[1] = e
<1>1. <<e>> \in Seq(S) /\ Len(<<e>>) = 1 /\ Len(s) \in Nat
  OBVIOUS
<1>2. <<e>> \o s \in Seq(S) /\ Len(<<e>> \o s) = Len(s) + 1
  BY <1>1
<1>3. (<<e>> \o s)[1] = e
  BY <1>1
<1>4. QED
  BY <1>2, <1>3

(* Among what revm created, in whatever order, the entry at the protocol's     *)
(* address is found.                                                        *)
LEMMA CreatedFound ==
  ASSUME NEW tx, tx.to = Create, NEW childrenFirst \in BOOLEAN,
         NEW outcome, NEW children \in Nat,
         NEW made, made = <<AddressOf(tx.sender, tx.nonce)>>
                          \o [i \in 1..children |-> ChildOf(tx.sender, tx.nonce, i)],
         outcome.created = IF childrenFirst THEN Reverse(made) ELSE made
  PROVE  CreatedAddressOf(outcome, tx) = AddressOf(tx.sender, tx.nonce)
<1> DEFINE S == {AddressOf(tx.sender, tx.nonce)}
                \cup {ChildOf(tx.sender, tx.nonce, i) : i \in 1..children}
           tail == [i \in 1..children |-> ChildOf(tx.sender, tx.nonce, i)]
<1>1. PICK top \in S : top = AddressOf(tx.sender, tx.nonce)
  OBVIOUS
<1>2. PICK rest \in Seq(S) : rest = tail
  <2>1. ASSUME NEW i \in 1..children PROVE ChildOf(tx.sender, tx.nonce, i) \in S
    OBVIOUS
  <2> HIDE DEF S
  <2>2. tail \in [1..children -> S]
    BY <2>1
  <2> HIDE DEF tail
  <2>3. QED
    BY <2>2
<1>3. made = <<top>> \o rest
  BY <1>1, <1>2
<1> HIDE DEF S, tail
<1>4. made \in Seq(S) /\ Len(made) >= 1 /\ made[1] = top
  <2>1. /\ <<top>> \o rest \in Seq(S) /\ Len(<<top>> \o rest) = Len(rest) + 1
        /\ (<<top>> \o rest)[1] = top
    BY ONLY Prepended
  <2>2. Len(rest) \in Nat
    BY ONLY TRUE
  <2>3. QED
    BY ONLY <1>3, <2>1, <2>2
<1>5. PICK created : created = outcome.created
  OBVIOUS
<1>6. /\ created \in Seq(S) /\ Len(created) = Len(made)
      /\ created[1] = top \/ created[Len(created)] = top
  <2>1. CASE childrenFirst
    BY <1>4, <1>5, <2>1, FirstIsLast
  <2>2. CASE ~ childrenFirst
    BY <1>4, <1>5, <2>2
  <2>3. QED
    BY <2>1, <2>2
<1>7. top \in Range(created)
  <2>1. 1 \in 1..Len(created) /\ Len(created) \in 1..Len(created)
    BY ONLY <1>4, <1>6
  <2>2. created[1] \in Range(created) /\ created[Len(created)] \in Range(created)
    BY ONLY <1>6, <2>1, InRange
  <2>3. QED
    BY ONLY <1>6, <2>2
<1>8. Len(created) = 1 => created[1] = top
  BY <1>6
<1>9. CreatedAddressOf(outcome, tx) =
        IF tx.to # Create \/ Len(created) = 0 THEN <<>>
        ELSE IF Len(created) = 1 THEN created[1]
        ELSE IF top \in Range(created) THEN top ELSE <<>>
  BY <1>1, <1>5 DEF CreatedAddressOf
<1>10. Len(created) # 0
  BY <1>4, <1>6
<1>11. QED
  BY <1>1, <1>7, <1>8, <1>9, <1>10

(* A transaction: both engines refuse it and change nothing, or both run it     *)
(* at one price, give one receipt, and move what the receipt says.            *)
LEMMA TransactionsAgree ==
  ASSUME EnginesAgree, NEW tx \in Transactions, NEW childrenFirst \in BOOLEAN
  PROVE  /\ DefaultTransact(tx) = RevmTransact(tx, childrenFirst)
         /\ DefaultTransact(tx).book \in Book
         /\ \/ /\ DefaultTransact(tx).answer = Thrown
               /\ DefaultTransact(tx).book = ledger["default"]
            \/ /\ DefaultTransact(tx).answer \in TransactionResult
               /\ DefaultTransact(tx).book[tx.sender] =
                    [balance |-> ledger["default"][tx.sender].balance
                                 - (DefaultTransact(tx).answer.gasUsed
                                      * DefaultTransact(tx).answer.effectiveGasPrice
                                    + IF DefaultTransact(tx).answer.status
                                      THEN tx.value ELSE 0),
                     nonce   |-> ledger["default"][tx.sender].nonce + 1]
<1> DEFINE book    == ledger["default"]
           o       == RevmTransactOptions(tx)
           outcome == RevmOutcome(ledger["revm"], o, childrenFirst)
           price   == ProtocolPrice(tx)
           run     == Executed(book, tx.sender, tx.to, tx.script, tx.gasLimit, tx.value,
                               price, TheBlock)
           top     == AddressOf(tx.sender, tx.nonce)
           made    == (IF tx.to = Create THEN <<top>> ELSE <<>>)
                      \o [i \in 1..tx.script.children |-> ChildOf(tx.sender, tx.nonce, i)]
           answer  == DefaultTransact(tx).answer
           here    == IF tx.to = Create /\ run.ends = "return" THEN top ELSE <<>>
<1>1. ledger["revm"] = book /\ book \in Book
  BY Ledgers DEF EnginesAgree
<1>2. /\ tx.sender \in Person \cup Contract /\ tx.to \in Contract \cup {Create}
      /\ tx.script \in Script /\ tx.gasLimit \in Nat /\ tx.value \in Nat
      /\ tx.nonce \in Nat /\ tx.cap \in Nat /\ tx.script.children \in Nat
      /\ BaseFee \in Nat
  BY SeamAssumption DEF TransactionRequest, Script
<1>3. CASE RunTxRejects(book, tx, AsSender(tx))
  <2>1. DefaultTransact(tx) = [answer |-> Thrown, book |-> book]
    BY <1>3 DEF DefaultTransact
  <2>2. RevmRejects(book, o)
    BY <1>3, RefusalsAgree
  <2>3. outcome.status = "validation-error" /\ outcome.book = book
    BY <1>1, <2>2 DEF RevmOutcome
  <2>4. RevmTransact(tx, childrenFirst) = [answer |-> Thrown, book |-> book]
    BY <2>3 DEF RevmTransact
  <2>5. QED
    BY <1>1, <2>1, <2>4
<1>4. CASE ~ RunTxRejects(book, tx, AsSender(tx))
  <2>1. ~ RevmRejects(book, o)
    BY <1>4, RefusalsAgree
  <2>2. /\ tx.sender \in Person /\ tx.cap >= BaseFee
        /\ Intrinsic(tx.to) <= tx.gasLimit
        /\ tx.gasLimit * tx.cap + tx.value <= book[tx.sender].balance
    <3>1. /\ Intrinsic(tx.to) \in Nat /\ tx.gasLimit * tx.cap \in Nat
          /\ book[tx.sender].balance \in Nat
      BY <1>1, <1>2, IntrinsicNat, Product DEF Book, Account
    <3>2. QED
      BY <1>2, <1>4, <3>1 DEF RunTxRejects, AsSender
  <2>3. /\ price \in Nat /\ price <= tx.cap /\ BaseFee <= price
        /\ EffectiveGasPrice(tx) = price
    BY <2>2, PriceCharged
  <2>4. PICK p \in Nat : p = price
    BY <2>3
  <2>5. PICK r : r = run
    OBVIOUS
  <2>6. r = Executed(book, tx.sender, tx.to, tx.script, tx.gasLimit, tx.value, p, TheBlock)
    BY <2>4, <2>5
  <2>7. /\ r.net \in Nat
        /\ r.ends \in {"return", "revert", "halt"}
        /\ r.book \in Book
        /\ r.book[tx.sender] =
             [balance |-> book[tx.sender].balance
                          - (r.net * p + IF r.ends = "return" THEN tx.value ELSE 0),
              nonce   |-> book[tx.sender].nonce + 1]
    <3> HIDE DEF run, price, book
    <3>1. p <= tx.cap /\ BaseFee <= p
      BY <2>3, <2>4
    <3>2. PICK from \in Person, to \in Contract \cup {Create}, script \in Script,
               gasLimit \in Nat, value \in Nat, cap \in Nat, b \in Book :
            /\ from = tx.sender /\ to = tx.to /\ script = tx.script
            /\ gasLimit = tx.gasLimit /\ value = tx.value /\ cap = tx.cap /\ b = book
      BY <1>1, <1>2, <2>2
    <3>3. /\ p <= cap /\ Intrinsic(to) <= gasLimit
          /\ gasLimit * cap + value <= b[from].balance
          /\ r = Executed(b, from, to, script, gasLimit, value, p, TheBlock)
      BY <2>2, <2>6, <3>1, <3>2
    <3>4. /\ r.net \in Nat
          /\ r.ends \in {"return", "revert", "halt"}
          /\ r.book \in Book
          /\ r.book[from] =
               [balance |-> b[from].balance
                            - (r.net * p + IF r.ends = "return" THEN value ELSE 0),
                nonce   |-> b[from].nonce + 1]
      BY ONLY <3>1, <3>3, ExecutedTyped
    <3>5. QED
      BY <3>2, <3>4
  <2>8. DefaultTransact(tx) =
          [answer |-> [status |-> r.ends = "return", gasUsed |-> r.net,
                       effectiveGasPrice |-> p, createdAddress |-> here],
           book   |-> r.book]
    BY <1>4, <2>3, <2>4, <2>5 DEF DefaultTransact, AsSender
  <2>9. /\ outcome.status = r.ends /\ outcome.gasUsed = r.net
        /\ outcome.effectiveGasPrice = p /\ outcome.book = r.book
        /\ outcome.created = IF r.ends # "return" THEN <<>>
                             ELSE IF childrenFirst THEN Reverse(made) ELSE made
    <3>1. /\ o.from = tx.sender /\ o.to = tx.to /\ o.script = tx.script
          /\ o.value = tx.value /\ o.gasLimit = tx.gasLimit /\ o.nonce = tx.nonce
          /\ o.price = FeesOf(tx).price /\ o.tip = FeesOf(tx).tip
          /\ o.block = TheBlock /\ o.commit
      BY DEF RevmTransactOptions, BlockEnvOf
    <3> HIDE DEF o
    <3>2. (IF o.tip = -1 THEN o.price ELSE Min({o.price, o.block.baseFee + o.tip})) = p
      <4>1. o.block.baseFee = BaseFee
        BY <3>1 DEF TheBlock
      <4>2. QED
        BY <2>2, <2>4, <3>1, <4>1, PriceCharged
    <3> HIDE DEF price, run
    <3>3. QED
      BY <1>1, <2>1, <2>6, <3>1, <3>2 DEF RevmOutcome
  <2>10. CreatedAddressOf(outcome, tx) = here
    <3>1. CASE tx.to # Create
      BY <3>1 DEF CreatedAddressOf
    <3>2. CASE tx.to = Create /\ r.ends # "return"
      <4>1. outcome.created = <<>>
        BY <2>9, <3>2
      <4>2. here = <<>>
        BY <2>5, <3>2
      <4> HIDE DEF outcome, here
      <4>3. QED
        BY <4>1, <4>2 DEF CreatedAddressOf
    <3>3. CASE tx.to = Create /\ r.ends = "return"
      <4>1. PICK children \in Nat : children = tx.script.children
        BY <1>2
      <4>2. PICK m : m = made
        OBVIOUS
      <4>3. m = <<AddressOf(tx.sender, tx.nonce)>>
                \o [i \in 1..children |-> ChildOf(tx.sender, tx.nonce, i)]
        BY <3>3, <4>1, <4>2
      <4>4. outcome.created = IF childrenFirst THEN Reverse(m) ELSE m
        BY <2>9, <3>3, <4>2
      <4>5. here = AddressOf(tx.sender, tx.nonce)
        BY <2>5, <3>3
      <4> HIDE DEF outcome, here, made
      <4>6. PICK out : out = outcome
        OBVIOUS
      <4>7. CreatedAddressOf(out, tx) = AddressOf(tx.sender, tx.nonce)
        BY <3>3, <4>3, <4>4, <4>6, CreatedFound
      <4>8. QED
        BY <4>5, <4>6, <4>7
    <3>4. QED
      BY <3>1, <3>2, <3>3
  <2>11. RevmTransact(tx, childrenFirst) =
          [answer |-> [status |-> r.ends = "return", gasUsed |-> r.net,
                       effectiveGasPrice |-> p, createdAddress |-> here],
           book   |-> r.book]
    <3>1. outcome.status # "validation-error"
      BY <2>7, <2>9
    <3>2. QED
      BY <2>9, <2>10, <3>1 DEF RevmTransact, ReceiptGasOf
  <2>12. here \in Seq(Account \cup Nat)
    <3>1. tx.sender \in Account \cup Nat /\ tx.nonce \in Account \cup Nat
      BY <1>2 DEF Account
    <3>2. top \in Seq(Account \cup Nat) /\ <<>> \in Seq(Account \cup Nat)
      BY <3>1 DEF AddressOf
    <3>3. QED
      BY <3>2
  <2>13. PICK s \in BOOLEAN : s = (r.ends = "return")
    OBVIOUS
  <2>14. PICK receipt : receipt = [status |-> s, gasUsed |-> r.net,
                                   effectiveGasPrice |-> p, createdAddress |-> here]
    OBVIOUS
  <2>15. receipt \in TransactionResult
    <3> HIDE DEF here
    <3>1. QED
      BY <2>7, <2>12, <2>14 DEF TransactionResult
  <2>16. DefaultTransact(tx) = [answer |-> receipt, book |-> r.book]
    BY <2>8, <2>13, <2>14
  <2>17. RevmTransact(tx, childrenFirst) = [answer |-> receipt, book |-> r.book]
    BY <2>11, <2>13, <2>14
  <2>18. /\ receipt.gasUsed = r.net /\ receipt.effectiveGasPrice = p
         /\ receipt.status = s
    BY <2>14
  <2> HIDE DEF here, run, price, outcome, o, answer
  <2>19. /\ DefaultTransact(tx).answer = receipt
         /\ DefaultTransact(tx).book = r.book
    BY <2>16
  <2>20. r.book[tx.sender] =
           [balance |-> ledger["default"][tx.sender].balance
                        - (receipt.gasUsed * receipt.effectiveGasPrice
                           + IF receipt.status THEN tx.value ELSE 0),
            nonce   |-> ledger["default"][tx.sender].nonce + 1]
    BY <2>7, <2>13, <2>18
  <2>21. QED
    BY <2>7, <2>15, <2>16, <2>17, <2>19, <2>20
<1>5. QED
  BY <1>3, <1>4

LEMMA AgreeAtFirst == Init => EnginesAgree
<1> SUFFICES ASSUME Init PROVE EnginesAgree
  OBVIOUS
<1>1. \A a \in Account : [balance |-> Funds[a], nonce |-> 0] \in [balance : Nat, nonce : Nat]
  BY SeamAssumption
<1>2. ledger \in [Engine -> [Account -> [balance : Nat, nonce : Nat]]]
  BY <1>1 DEF Init
<1>3. last.kind = "none" /\ warm \in BOOLEAN /\ mined \in 0..MaxTransactions
  <2>1. MaxTransactions \in Nat
    BY SeamAssumption
  <2>2. last.kind = "none"
    BY DEF Init
  <2>3. warm \in BOOLEAN
    BY DEF Init
  <2>4. mined \in 0..MaxTransactions
    BY <2>1 DEF Init
  <2>5. QED
    BY <2>2, <2>3, <2>4
<1>4. ledger["default"] = ledger["revm"]
  BY DEF Init, Engine
<1>5. QED
  BY <1>2, <1>3, <1>4 DEF EnginesAgree, TypeOK

(* What a request leaves, when both engines answer the same.                  *)
LEMMA AgreeAfter ==
  ASSUME EnginesAgree, NEW kind \in {"call", "transact"}, NEW request,
         NEW default, NEW revm, Answered(kind, request, default, revm),
         default.answer = revm.answer, default.book = revm.book, default.book \in Book,
         kind = "call" => default.answer \in ReadCallResult,
         kind = "transact" => default.answer \in TransactionResult \cup {Thrown},
         warm' \in BOOLEAN, mined' \in 0..MaxTransactions
  PROVE  EnginesAgree'
<1>1. /\ last'.kind = kind /\ last'.default = default.answer
      /\ last'.revm = default.answer
      /\ ledger' = [default |-> default.book, revm |-> default.book]
  BY DEF Answered
<1>2. ledger'["default"] = default.book /\ ledger'["revm"] = default.book
  BY <1>1
<1>3. ledger' \in [Engine -> Book]
  BY <1>1, <1>2 DEF Engine
<1>4. TypeOK'
  BY <1>1, <1>3 DEF TypeOK, Book
<1>5. QED
  BY <1>1, <1>2, <1>4 DEF EnginesAgree

LEMMA AgreeStep == EnginesAgree /\ [Next]_vars => EnginesAgree'
<1> SUFFICES ASSUME EnginesAgree, [Next]_vars PROVE EnginesAgree'
  OBVIOUS
<1>1. ASSUME NEW request \in Reads, Call(request)
      PROVE  EnginesAgree'
  <2>1. PICK d, r : d = DefaultCall(request) /\ r = RevmCall(request)
    OBVIOUS
  <2>2. /\ d.answer = r.answer /\ d.answer \in ReadCallResult
        /\ d.book = ledger["default"] /\ r.book = ledger["revm"]
    BY <2>1, ReadsAgree
  <2>3. d.book = r.book /\ d.book \in Book
    BY <2>2, Ledgers DEF EnginesAgree
  <2>4. /\ Answered("call", request, d, r) /\ warm' \in BOOLEAN
        /\ mined' \in 0..MaxTransactions
    BY <1>1, <2>1 DEF Call, EnginesAgree, TypeOK
  <2>5. QED
    BY <2>2, <2>3, <2>4, AgreeAfter
<1>2. ASSUME NEW tx \in Transactions, NEW childrenFirst \in BOOLEAN,
             Transact(tx, childrenFirst)
      PROVE  EnginesAgree'
  <2>1. PICK d : d = DefaultTransact(tx)
    OBVIOUS
  <2>2. /\ d = RevmTransact(tx, childrenFirst) /\ d.book \in Book
        /\ d.answer \in TransactionResult \cup {Thrown}
    BY <2>1, TransactionsAgree
  <2>3. Answered("transact", tx, d, d) /\ warm' \in BOOLEAN
    BY <1>2, <2>1, <2>2 DEF Transact
  <2>4. mined' \in 0..MaxTransactions
    BY <1>2, SeamAssumption DEF Transact, EnginesAgree, TypeOK
  <2>5. QED
    BY <2>2, <2>3, <2>4, AgreeAfter
<1>3. CASE UNCHANGED vars
  BY <1>3 DEF vars, EnginesAgree, TypeOK
<1>4. QED
  BY <1>1, <1>2, <1>3 DEF Next

(* Same node, same transaction, one answer whichever engine it runs on (`call`   *)
(* and `transact` of engine.ts and revm.ts): for any accounts, code, requests   *)
(* and fees, every answer is the same and so is the state.  Asked of the         *)
(* constants: accounts without code have none, and are not the coinbase.        *)
THEOREM EnginesAlwaysAgree == Spec => []EnginesAgree
BY AgreeAtFirst, AgreeStep, PTL DEF Spec

LEMMA ReceiptIsNotThrown ==
  ASSUME NEW receipt \in TransactionResult
  PROVE  receipt # Thrown
<1>1. DOMAIN receipt = {"status", "gasUsed", "effectiveGasPrice", "createdAddress"}
  BY DEF TransactionResult
<1>2. DOMAIN Thrown = {"thrown"}
  BY DEF Thrown
<1>3. "status" \notin DOMAIN Thrown /\ "status" \in DOMAIN receipt
  BY <1>1, <1>2
<1>4. QED
  BY <1>3

(* A receipt says what the transaction did to its sender, a refusal did         *)
(* nothing, and a read commits nothing, on either engine.                       *)
THEOREM AnswersSayWhatMoved == Spec => LedgersAsAnswered
<1>1. ASSUME EnginesAgree, [Next]_vars
      PROVE  [ last'.kind = "transact" /\ mined' # mined =>
      \A e \in Engine :
        LET receipt == last'[e]
            tx      == last'.request
            before  == ledger[e][tx.sender]
            after   == ledger'[e][tx.sender]
            cost    == receipt.gasUsed * receipt.effectiveGasPrice
                       + IF receipt.status THEN tx.value ELSE 0
        IN  IF receipt = Thrown THEN ledger'[e] = ledger[e]
            ELSE after = [balance |-> before.balance - cost, nonce |-> before.nonce + 1] ]_vars
  <2>1. CASE UNCHANGED vars
    BY <2>1
  <2>2. ASSUME NEW request \in Reads, Call(request)
        PROVE  last'.kind # "transact"
    BY <2>2 DEF Call, Answered
  <2>3. ASSUME NEW tx \in Transactions, NEW childrenFirst \in BOOLEAN,
               Transact(tx, childrenFirst), NEW e \in Engine
        PROVE  /\ last'.request = tx
               /\ IF last'[e] = Thrown THEN ledger'[e] = ledger[e]
                  ELSE ledger'[e][tx.sender] =
                         [balance |-> ledger[e][tx.sender].balance
                                      - (last'[e].gasUsed * last'[e].effectiveGasPrice
                                         + IF last'[e].status THEN tx.value ELSE 0),
                          nonce |-> ledger[e][tx.sender].nonce + 1]
    <3>1. PICK d : d = DefaultTransact(tx)
      OBVIOUS
    <3>2. d = RevmTransact(tx, childrenFirst)
      BY <1>1, <3>1, TransactionsAgree
    <3>3. PICK book, receipt : book = ledger["default"] /\ receipt = d.answer
      OBVIOUS
    <3>4. \/ receipt = Thrown /\ d.book = book
          \/ /\ receipt \in TransactionResult
             /\ d.book[tx.sender] =
                  [balance |-> book[tx.sender].balance
                               - (receipt.gasUsed * receipt.effectiveGasPrice
                                  + IF receipt.status THEN tx.value ELSE 0),
                   nonce   |-> book[tx.sender].nonce + 1]
      BY <1>1, <3>1, <3>3, TransactionsAgree
    <3>5. /\ last' = [kind |-> "transact", request |-> tx, default |-> receipt,
                     revm |-> receipt]
          /\ ledger' = [default |-> d.book, revm |-> d.book]
      BY <2>3, <3>1, <3>2, <3>3 DEF Transact, Answered
    <3>6. last'[e] = receipt /\ ledger'[e] = d.book /\ last'.request = tx
      BY <3>5 DEF Engine
    <3>7. ledger[e] = book
      BY <1>1, <3>3 DEF Engine, EnginesAgree
    <3>8. QED
      BY <3>4, <3>6, <3>7, ReceiptIsNotThrown
  <2>4. QED
    BY <1>1, <2>1, <2>2, <2>3 DEF Next
<1>2. ASSUME EnginesAgree, [Next]_vars
      PROVE  [last'.kind = "call" => UNCHANGED ledger]_vars
  <2>1. CASE UNCHANGED vars
    BY <2>1
  <2>2. ASSUME NEW request \in Reads, Call(request)
        PROVE  UNCHANGED ledger
    <3>1. ledger' = [default |-> ledger["default"], revm |-> ledger["revm"]]
      BY <1>2, <2>2, ReadsAgree DEF Call, Answered
    <3>2. DOMAIN ledger = Engine
      BY <1>2 DEF EnginesAgree, TypeOK
    <3>3. ledger = [e \in Engine |-> ledger[e]]
      BY <1>2 DEF EnginesAgree, TypeOK
    <3>4. QED
      BY <3>1, <3>2, <3>3 DEF Engine
  <2>3. ASSUME NEW tx \in Transactions, NEW childrenFirst \in BOOLEAN,
               Transact(tx, childrenFirst)
        PROVE  last'.kind # "call"
    BY <2>3 DEF Transact, Answered
  <2>4. QED
    BY <1>2, <2>1, <2>2, <2>3 DEF Next
<1>3. QED
  BY <1>1, <1>2, EnginesAlwaysAgree, PTL
     DEF Spec, LedgersAsAnswered, PaidAsReported, ReadsCommitNothing

-----------------------------------------------------------------------------
(* The bring-up. *)

(* The forks are in this order.                                             *)
LEMMA ForkOrder ==
  /\ Len(B!Forks) = 11
  /\ B!Forks[1] = "homestead" /\ B!Forks[2] = "byzantium"
  /\ B!Forks[3] = "petersburg" /\ B!Forks[4] = "istanbul"
  /\ B!Forks[5] = "berlin" /\ B!Forks[6] = "london" /\ B!Forks[7] = "paris"
  /\ B!Forks[8] = "shanghai" /\ B!Forks[9] = "cancun"
  /\ B!Forks[10] = "prague" /\ B!Forks[11] = "osaka"
BY DEF B!Forks

(* A fork that is admitted has istanbul behind it and prague before it.        *)
LEMMA AdmittedFork ==
  ASSUME NEW f \in B!Admitted
  PROVE  /\ B!Since(f, "istanbul")
         /\ ~ B!Since(f, "prague")
         /\ ~ B!Since(f, "osaka")
<1>1. /\ \E j \in 5..9 : B!Forks[j] = f
      /\ \A j \in 1..11 : B!Forks[j] = f => j \in 5..9
  BY ForkOrder DEF B!Admitted
<1>2. \A i \in 1..11 : /\ B!Forks[i] = "istanbul" <=> i = 4
                       /\ B!Forks[i] = "prague" <=> i = 10
                       /\ B!Forks[i] = "osaka" <=> i = 11
  BY ForkOrder
<1>3. Len(B!Forks) = 11
  BY ForkOrder
<1>4. B!Since(f, "istanbul")
  BY <1>1, <1>2, <1>3 DEF B!Since
<1>5. ~ B!Since(f, "prague") /\ ~ B!Since(f, "osaka")
  BY <1>1, <1>2, <1>3 DEF B!Since
<1>6. QED
  BY <1>4, <1>5

(* On such a fork the node's arithmetic is the protocol's.                    *)
LEMMA CostsKnown ==
  ASSUME NEW f \in B!Admitted, NEW r \in B!Sample
  PROVE  /\ B!Intrinsic(f, r) = B!ProtocolIntrinsic(f, r)
         /\ B!Intrinsic(f, r) >= B!ProtocolFloor(f, r)
         /\ B!WithinCap(f, B!ReadBudget)
<1>1. r.zeros \in Nat /\ r.nonZeros \in Nat /\ r.create \in BOOLEAN
  BY DEF B!Sample
<1>2. PICK words \in Nat : words = (r.zeros + r.nonZeros + 31) \div 32
  BY <1>1
<1>3. B!Intrinsic(f, r) =
        21000 + r.zeros * 4 + r.nonZeros * 16
        + (IF r.create THEN 32000 + (IF B!Since(f, "shanghai") THEN words * 2 ELSE 0) ELSE 0)
  BY <1>1, <1>2 DEF B!Intrinsic, B!Arithmetic!IntrinsicGasOf, B!Arithmetic!CreateGas,
     B!Arithmetic!Words
<1>4. B!ProtocolIntrinsic(f, r) =
        21000 + r.zeros * 4 + r.nonZeros * 16
        + (IF r.create THEN 32000 ELSE 0)
        + (IF r.create /\ B!Since(f, "shanghai") THEN words * 2 ELSE 0)
  BY <1>1, <1>2, AdmittedFork DEF B!ProtocolIntrinsic
<1>5. B!ProtocolFloor(f, r) = 0 /\ B!WithinCap(f, B!ReadBudget)
  BY AdmittedFork DEF B!ProtocolFloor, B!WithinCap
<1>6. QED
  BY <1>1, <1>3, <1>4, <1>5

(* A construction that got past `createNode`'s checks had good options; an       *)
(* engine belongs to the node it was bound to, which has been called, whatever    *)
(* became of that node; and from there on it executes with the node's fork.       *)
Past(n) == phase[n] \in {"building", "connected", "up", "disposed"}

Running(n) == phase[n] \in {"connected", "up", "disposed"} /\ options[n].engine # NoEngine

Owned(n) ==
  /\ options[n].engine \in Given
  /\ Shape[options[n].engine] = "revm"
  /\ boundTo[options[n].engine] = n
  /\ engineIs[options[n].engine].spec = hardfork
  /\ hardfork \in B!Admitted

BringUpInv ==
  /\ B!TypeOK
  /\ B!BadOptionCostsNothing
  /\ \A n \in Node : Past(n) => options[n].valid
  /\ \A n \in Node : Running(n) => Owned(n)
  /\ \A e \in Given : boundTo[e] # Unbound => phase[boundTo[e]] # "idle"

LEMMA BringUpKinds ==
  ASSUME B!TypeOK
  PROVE  /\ options \in [Node -> B!Options]
         /\ phase \in [Node -> {"idle", "building", "connected", "up", "rejected", "disposed"}]
         /\ reason \in [Node -> {"none", "option", "shape", "refused fork", "unknown fork",
                                 "connected", "genesis"}]
         /\ boundTo \in [Given -> Node \cup {Unbound}]
         /\ engineIs \in [Given -> [spec : B!Fork, chainId : ChainId]]
         /\ hardfork \in B!Fork
         /\ \A n \in Node : phase[n] = "rejected" <=> reason[n] # "none"
         /\ \A e \in Given :
              boundTo[e] # Unbound => Shape[e] = "revm" /\ options[boundTo[e]].engine = e
BY DEF B!TypeOK

LEMMA BringUpInitially == B!Init => BringUpInv
<1> SUFFICES ASSUME B!Init PROVE BringUpInv
  OBVIOUS
<1>1. B!NoOptions \in B!Options /\ B!NoOptions.chainId \in ChainId
      /\ B!NoOptions.engine = NoEngine
  BY BringUpHere DEF B!NoOptions, B!Options, B!BringUpAssumption
<1>2. "cancun" \in B!Fork
  BY ForkOrder DEF B!Fork
<1>3. /\ \A n \in Node : phase[n] = "idle" /\ reason[n] = "none"
      /\ \A e \in Given : boundTo[e] = Unbound
  BY DEF B!Init
<1>4. [spec |-> "cancun", chainId |-> B!NoOptions.chainId] \in [spec : B!Fork, chainId : ChainId]
  BY <1>1, <1>2
<1>5. /\ options \in [Node -> B!Options]
      /\ phase \in [Node -> {"idle", "building", "connected", "up", "rejected", "disposed"}]
      /\ reason \in [Node -> {"none", "option", "shape", "refused fork", "unknown fork",
                              "connected", "genesis"}]
      /\ boundTo \in [Given -> Node \cup {Unbound}]
      /\ engineIs \in [Given -> [spec : B!Fork, chainId : ChainId]]
      /\ hardfork \in B!Fork
  BY <1>1, <1>4 DEF B!Init
<1>6. B!TypeOK
  BY <1>3, <1>5 DEF B!TypeOK
<1>7. QED
  BY <1>3, <1>6 DEF BringUpInv, B!BadOptionCostsNothing, Past, Running

(* A bound engine's node is a node.                                           *)
LEMMA BoundToANode ==
  ASSUME boundTo \in [Given -> Node \cup {Unbound}], NEW e \in Given, boundTo[e] # Unbound
  PROVE  boundTo[e] \in Node
OBVIOUS

(* createNode is called: its node was idle, and no engine's.                   *)
LEMMA CallKeeps ==
  ASSUME BringUpInv, NEW n \in Node, NEW o \in B!Options, B!Call(n, o)
  PROVE  BringUpInv'
<1>1. B!TypeOK
  BY DEF BringUpInv
<1>0. /\ options \in [Node -> B!Options]
      /\ phase \in [Node -> {"idle", "building", "connected", "up", "rejected", "disposed"}]
      /\ reason \in [Node -> {"none", "option", "shape", "refused fork", "unknown fork",
                              "connected", "genesis"}]
      /\ boundTo \in [Given -> Node \cup {Unbound}]
      /\ \A m \in Node : phase[m] = "rejected" <=> reason[m] # "none"
      /\ \A e \in Given :
           boundTo[e] # Unbound => Shape[e] = "revm" /\ options[boundTo[e]].engine = e
  BY <1>1, BringUpKinds
<1>2. /\ phase[n] = "idle" /\ options' = [options EXCEPT ![n] = o]
      /\ UNCHANGED <<hardfork, boundTo, engineIs, served>>
  BY DEF B!Call
<1>3. \/ /\ o.valid /\ phase' = [phase EXCEPT ![n] = "building"] /\ reason' = reason
      \/ /\ phase' = [phase EXCEPT ![n] = "rejected"]
         /\ reason' = [reason EXCEPT ![n] = "option"]
  BY DEF B!Call, B!Validated, B!Reject
<1>4. /\ \A m \in Node : m # n => options'[m] = options[m] /\ phase'[m] = phase[m]
                                /\ reason'[m] = reason[m]
      /\ options'[n] = o
      /\ \/ phase'[n] = "building" /\ o.valid /\ reason'[n] = reason[n]
         \/ phase'[n] = "rejected" /\ reason'[n] = "option"
  <2>1. (\A m \in Node : m # n => options'[m] = options[m]) /\ options'[n] = o
    BY <1>0, <1>2
  <2>2. CASE o.valid /\ phase' = [phase EXCEPT ![n] = "building"] /\ reason' = reason
    BY <1>0, <2>1, <2>2
  <2>3. CASE /\ phase' = [phase EXCEPT ![n] = "rejected"]
             /\ reason' = [reason EXCEPT ![n] = "option"]
    BY <1>0, <2>1, <2>3
  <2>4. QED
    BY <1>3, <2>2, <2>3
<1>5. ASSUME NEW e \in Given, boundTo[e] # Unbound
      PROVE  boundTo[e] \in Node /\ boundTo[e] # n
  <2>0. boundTo \in [Given -> Node \cup {Unbound}]
    BY <1>0
  <2>1. boundTo[e] \in Node
    BY ONLY <2>0, <1>5, BoundToANode
  <2>2. phase[boundTo[e]] # "idle"
    BY <1>5 DEF BringUpInv
  <2>3. QED
    BY <1>2, <2>1, <2>2
<1>6. B!TypeOK'
  <2>1. /\ options' \in [Node -> B!Options]
        /\ phase' \in [Node -> {"idle", "building", "connected", "up", "rejected", "disposed"}]
        /\ reason' \in [Node -> {"none", "option", "shape", "refused fork", "unknown fork",
                                 "connected", "genesis"}]
    BY <1>0, <1>2, <1>3
  <2>2. ASSUME NEW m \in Node PROVE phase'[m] = "rejected" <=> reason'[m] # "none"
    <3>1. phase[m] = "rejected" <=> reason[m] # "none"
      BY <1>0
    <3>2. CASE m # n
      BY <1>4, <3>1, <3>2
    <3>3. CASE m = n
      BY <1>2, <1>4, <3>1, <3>3
    <3>4. QED
      BY <3>2, <3>3
  <2>3. \A e \in Given :
          boundTo'[e] # Unbound => Shape[e] = "revm" /\ options'[boundTo'[e]].engine = e
    BY <1>0, <1>2, <1>4, <1>5
  <2>4. QED
    BY <1>1, <1>2, <2>1, <2>2, <2>3 DEF B!TypeOK
<1>7. B!BadOptionCostsNothing'
  BY <1>2, <1>4, <1>5 DEF BringUpInv, B!BadOptionCostsNothing
<1>8. \A m \in Node : Past(m)' => options'[m].valid
  BY <1>4 DEF BringUpInv, Past
<1>9. \A m \in Node : Running(m)' => Owned(m)'
  BY <1>2, <1>4 DEF BringUpInv, Running, Owned
<1>10. \A e \in Given : boundTo'[e] # Unbound => phase'[boundTo'[e]] # "idle"
  BY <1>2, <1>4, <1>5 DEF BringUpInv
<1>11. QED
  BY <1>6, <1>7, <1>8, <1>9, <1>10 DEF BringUpInv

(* A construction that goes on, or ends, with the engines as they are.           *)
LEMMA PhaseKeeps ==
  ASSUME BringUpInv, NEW n \in Node, phase[n] # "idle",
         UNCHANGED <<hardfork, options, boundTo>>,
         NEW to \in {"connected", "up", "rejected", "disposed"},
         NEW why \in {"none", "shape", "refused fork", "unknown fork", "connected", "genesis"},
         phase' = [phase EXCEPT ![n] = to],
         reason' = [reason EXCEPT ![n] = why],
         to = "rejected" <=> why # "none",
         to # "rejected" => options[n].valid,
         to # "rejected" /\ options[n].engine # NoEngine => Owned(n),
         engineIs' \in [Given -> [spec : B!Fork, chainId : ChainId]],
         \A e \in Given : engineIs'[e].spec \in {engineIs[e].spec, hardfork}
  PROVE  BringUpInv'
<1>1. B!TypeOK
  BY DEF BringUpInv
<1>0. /\ options \in [Node -> B!Options]
      /\ phase \in [Node -> {"idle", "building", "connected", "up", "rejected", "disposed"}]
      /\ reason \in [Node -> {"none", "option", "shape", "refused fork", "unknown fork",
                              "connected", "genesis"}]
      /\ boundTo \in [Given -> Node \cup {Unbound}]
      /\ \A m \in Node : phase[m] = "rejected" <=> reason[m] # "none"
      /\ \A e \in Given :
           boundTo[e] # Unbound => Shape[e] = "revm" /\ options[boundTo[e]].engine = e
  BY <1>1, BringUpKinds
<1>2. /\ \A m \in Node : m # n => phase'[m] = phase[m] /\ reason'[m] = reason[m]
      /\ phase'[n] = to /\ reason'[n] = why
  BY <1>1, BringUpKinds
<1>3. B!TypeOK'
  <2>1. /\ phase' \in [Node -> {"idle", "building", "connected", "up", "rejected", "disposed"}]
        /\ reason' \in [Node -> {"none", "option", "shape", "refused fork", "unknown fork",
                                 "connected", "genesis"}]
    BY <1>0
  <2>2. \A m \in Node : phase'[m] = "rejected" <=> reason'[m] # "none"
    BY <1>0, <1>2
  <2>3. QED
    BY <1>1, <2>1, <2>2 DEF B!TypeOK
<1>4. B!BadOptionCostsNothing'
  BY DEF BringUpInv, B!BadOptionCostsNothing
<1>5. \A m \in Node : Past(m)' => options'[m].valid
  BY <1>2 DEF BringUpInv, Past
<1>6. ASSUME NEW m \in Node, Owned(m) PROVE Owned(m)'
  BY <1>6 DEF Owned
<1>7. \A m \in Node : Running(m)' => Owned(m)'
  BY <1>2, <1>6 DEF BringUpInv, Running
<1>8. ASSUME NEW e \in Given, boundTo'[e] # Unbound
      PROVE  phase'[boundTo'[e]] # "idle"
  <2>0. boundTo \in [Given -> Node \cup {Unbound}]
    BY <1>0
  <2>a. boundTo'[e] = boundTo[e]
    OBVIOUS
  <2>b. boundTo[e] # Unbound
    BY <1>8, <2>a
  <2>1. boundTo[e] \in Node
    BY ONLY <2>0, <1>8, <2>b, BoundToANode
  <2>2. phase[boundTo[e]] # "idle"
    BY <2>b DEF BringUpInv
  <2>3. QED
    BY <1>2, <2>a, <2>1, <2>2
<1>9. QED
  BY <1>3, <1>4, <1>5, <1>7, <1>8 DEF BringUpInv

(* An engine is bound to the node that connects it.                          *)
LEMMA BindKeeps ==
  ASSUME BringUpInv, NEW n \in Node, phase[n] = "building",
         NEW e \in Given, e = options[n].engine, Shape[e] = "revm",
         hardfork \in B!Admitted, boundTo[e] = Unbound,
         engineIs' = [engineIs EXCEPT
                        ![e] = [spec |-> hardfork, chainId |-> options[n].chainId]],
         boundTo' = [boundTo EXCEPT ![e] = n],
         phase' = [phase EXCEPT ![n] = "connected"],
         UNCHANGED <<hardfork, options, reason>>
  PROVE  BringUpInv'
<1>1. B!TypeOK
  BY DEF BringUpInv
<1>0. /\ options \in [Node -> B!Options]
      /\ phase \in [Node -> {"idle", "building", "connected", "up", "rejected", "disposed"}]
      /\ boundTo \in [Given -> Node \cup {Unbound}]
      /\ engineIs \in [Given -> [spec : B!Fork, chainId : ChainId]]
      /\ hardfork \in B!Fork
      /\ \A m \in Node : phase[m] = "rejected" <=> reason[m] # "none"
      /\ \A d \in Given :
           boundTo[d] # Unbound => Shape[d] = "revm" /\ options[boundTo[d]].engine = d
  BY <1>1, BringUpKinds
<1>2. /\ \A m \in Node : m # n => phase'[m] = phase[m]
      /\ phase'[n] = "connected"
      /\ \A d \in Given : d # e => boundTo'[d] = boundTo[d] /\ engineIs'[d] = engineIs[d]
      /\ boundTo'[e] = n
      /\ engineIs'[e].spec = hardfork
      /\ n # Unbound
  BY <1>0, BringUpHere DEF B!BringUpAssumption
<1>3. B!TypeOK'
  <2>1. engineIs' \in [Given -> [spec : B!Fork, chainId : ChainId]]
    <3>1. options[n].chainId \in ChainId
      BY <1>0 DEF B!Options
    <3>2. [spec |-> hardfork, chainId |-> options[n].chainId] \in [spec : B!Fork, chainId : ChainId]
      BY <1>0, <3>1
    <3>3. QED
      BY <1>0, <3>2
  <2>2. /\ phase' \in [Node -> {"idle", "building", "connected", "up", "rejected", "disposed"}]
        /\ boundTo' \in [Given -> Node \cup {Unbound}]
    BY <1>0
  <2>3. ASSUME NEW m \in Node PROVE phase'[m] = "rejected" <=> reason'[m] # "none"
    <3>1. phase[m] = "rejected" <=> reason[m] # "none"
      BY <1>0
    <3>2. CASE m # n
      BY <1>2, <3>1, <3>2
    <3>3. CASE m = n
      BY <1>2, <3>1, <3>3
    <3>4. QED
      BY <3>2, <3>3
  <2>4. ASSUME NEW d \in Given, boundTo'[d] # Unbound
        PROVE  Shape[d] = "revm" /\ options'[boundTo'[d]].engine = d
    <3>1. CASE d = e
      BY <1>2, <3>1
    <3>2. CASE d # e
      BY <1>0, <1>2, <2>4, <3>2
    <3>3. QED
      BY <3>1, <3>2
  <2>5. QED
    BY <1>1, <2>1, <2>2, <2>3, <2>4 DEF B!TypeOK
<1>4. options[n].valid
  BY DEF BringUpInv, Past
<1>5. B!BadOptionCostsNothing'
  <2>1. ASSUME NEW d \in Given, boundTo'[d] # Unbound
        PROVE  options'[boundTo'[d]].valid
    <3>1. CASE d = e
      BY <1>2, <1>4, <3>1
    <3>2. CASE d # e
      BY <1>2, <2>1, <3>2 DEF BringUpInv, B!BadOptionCostsNothing
    <3>3. QED
      BY <3>1, <3>2
  <2>2. QED
    BY <2>1 DEF B!BadOptionCostsNothing
<1>6. \A m \in Node : Past(m)' => options'[m].valid
  BY <1>2, <1>4 DEF BringUpInv, Past
<1>7. ASSUME NEW m \in Node, Running(m)' PROVE Owned(m)'
  <2>1. CASE m = n
    BY <1>2, <2>1 DEF Owned
  <2>2. CASE m # n
    <3>1. Owned(m)
      BY <1>2, <1>7, <2>2 DEF BringUpInv, Running
    <3>a. m # Unbound
      BY BringUpHere DEF B!BringUpAssumption
    <3>2. options[m].engine # e
      BY <3>1, <3>a DEF Owned
    <3>3. QED
      BY <1>2, <3>1, <3>2 DEF Owned
  <2>3. QED
    BY <2>1, <2>2
<1>8. ASSUME NEW d \in Given, boundTo'[d] # Unbound
      PROVE  phase'[boundTo'[d]] # "idle"
  <2>1. CASE d = e
    BY <1>2, <2>1
  <2>2. CASE d # e
    <3>1. boundTo'[d] = boundTo[d] /\ phase[boundTo[d]] # "idle" /\ boundTo[d] \in Node
      BY <1>0, <1>2, <1>8, <2>2 DEF BringUpInv
    <3>2. QED
      BY <1>2, <3>1
  <2>3. QED
    BY <2>1, <2>2
<1>9. QED
  BY <1>3, <1>5, <1>6, <1>7, <1>8 DEF BringUpInv

LEMMA BringUpStep == BringUpInv /\ [B!Next]_(B!vars) => BringUpInv'
<1> SUFFICES ASSUME BringUpInv, [B!Next]_(B!vars) PROVE BringUpInv'
  OBVIOUS
<1>1. B!TypeOK
  BY DEF BringUpInv
<1>2. /\ engineIs \in [Given -> [spec : B!Fork, chainId : ChainId]]
      /\ reason \in [Node -> {"none", "option", "shape", "refused fork", "unknown fork",
                              "connected", "genesis"}]
      /\ options \in [Node -> B!Options]
      /\ boundTo \in [Given -> Node \cup {Unbound}]
      /\ phase \in [Node -> {"idle", "building", "connected", "up", "rejected", "disposed"}]
      /\ hardfork \in B!Fork
      /\ \A m \in Node : phase[m] = "rejected" <=> reason[m] # "none"
  BY <1>1, BringUpKinds
<1>3. ASSUME NEW n \in Node, phase[n] # "rejected"
      PROVE  reason = [reason EXCEPT ![n] = "none"]
  <2>1. reason[n] = "none"
    BY <1>2, <1>3
  <2>2. QED
    BY <1>2, <2>1
<1>4. ASSUME NEW n \in Node, B!ConnectDefault(n) PROVE BringUpInv'
  <2>1. /\ phase[n] = "building" /\ options[n].engine = NoEngine
        /\ phase' = [phase EXCEPT ![n] = "connected"]
        /\ UNCHANGED <<hardfork, options, boundTo>>
        /\ reason' = [reason EXCEPT ![n] = "none"]
        /\ engineIs' = engineIs
    BY <1>3, <1>4 DEF B!ConnectDefault
  <2>2. options[n].valid
    BY <2>1 DEF BringUpInv, Past
  <2>3. QED
    BY <1>2, <2>1, <2>2, PhaseKeeps
<1>5. ASSUME NEW n \in Node, B!Connect(n) PROVE BringUpInv'
  <2>1. PICK e : e = options[n].engine
    OBVIOUS
  <2>2. /\ phase[n] = "building" /\ e \in Given /\ UNCHANGED <<hardfork, options>>
    BY <1>2, <1>5, <2>1 DEF B!Connect, B!Options
  <2>3. \/ \E why \in {"shape", "refused fork", "unknown fork"} :
             B!Reject(n, why) /\ UNCHANGED <<boundTo, engineIs>>
        \/ /\ ~ B!RefusedShape(e)
           /\ hardfork \in B!Admitted
           /\ engineIs' = [engineIs EXCEPT
                              ![e] = [spec |-> hardfork, chainId |-> options[n].chainId]]
           /\ \/ /\ boundTo[e] = Unbound
                 /\ boundTo' = [boundTo EXCEPT ![e] = n]
                 /\ phase' = [phase EXCEPT ![n] = "connected"]
                 /\ UNCHANGED reason
              \/ B!Reject(n, "connected") /\ UNCHANGED boundTo
    BY <1>5, <2>1 DEF B!Connect, B!Binds
  <2>4. CASE \E why \in {"shape", "refused fork", "unknown fork"} :
               B!Reject(n, why) /\ UNCHANGED <<boundTo, engineIs>>
    <3>1. PICK why \in {"shape", "refused fork", "unknown fork"} :
            /\ phase' = [phase EXCEPT ![n] = "rejected"]
            /\ reason' = [reason EXCEPT ![n] = why]
            /\ UNCHANGED <<boundTo, engineIs>>
      BY <2>4 DEF B!Reject
    <3>2. QED
      BY <1>2, <2>2, <3>1, PhaseKeeps
  <2>5. CASE /\ ~ B!RefusedShape(e)
             /\ hardfork \in B!Admitted
             /\ engineIs' = [engineIs EXCEPT
                                ![e] = [spec |-> hardfork, chainId |-> options[n].chainId]]
             /\ \/ /\ boundTo[e] = Unbound
                   /\ boundTo' = [boundTo EXCEPT ![e] = n]
                   /\ phase' = [phase EXCEPT ![n] = "connected"]
                   /\ UNCHANGED reason
                \/ B!Reject(n, "connected") /\ UNCHANGED boundTo
    <3>1. Shape[e] = "revm"
      BY <2>2, <2>5, BringUpHere DEF B!RefusedShape, B!BringUpAssumption
    <3>2. CASE /\ boundTo[e] = Unbound
               /\ boundTo' = [boundTo EXCEPT ![e] = n]
               /\ phase' = [phase EXCEPT ![n] = "connected"]
               /\ UNCHANGED reason
      BY <2>1, <2>2, <2>5, <3>1, <3>2, BindKeeps
    <3>3. CASE B!Reject(n, "connected") /\ UNCHANGED boundTo
      <4>1. /\ phase' = [phase EXCEPT ![n] = "rejected"]
            /\ reason' = [reason EXCEPT ![n] = "connected"]
            /\ UNCHANGED boundTo
        BY <3>3 DEF B!Reject
      <4>2. [spec |-> hardfork, chainId |-> options[n].chainId]
              \in [spec : B!Fork, chainId : ChainId]
        <5>1. options[n].chainId \in ChainId
          BY <1>2 DEF B!Options
        <5>2. QED
          BY <1>2, <5>1
      <4>3. engineIs' \in [Given -> [spec : B!Fork, chainId : ChainId]]
        BY <1>2, <2>5, <4>2
      <4>4. \A d \in Given : engineIs'[d].spec \in {engineIs[d].spec, hardfork}
        BY <1>2, <2>5
      <4>5. QED
        BY <2>2, <4>1, <4>3, <4>4, PhaseKeeps
    <3>4. QED
      BY <2>5, <3>2, <3>3
  <2>6. QED
    BY <2>3, <2>4, <2>5
<1>6. ASSUME NEW n \in Node, B!ComeUp(n) PROVE BringUpInv'
  <2>1. phase[n] = "connected" /\ UNCHANGED <<hardfork, options, boundTo, engineIs>>
    BY <1>6 DEF B!ComeUp
  <2>2. options[n].valid /\ (options[n].engine # NoEngine => Owned(n))
    BY <2>1 DEF BringUpInv, Past, Running
  <2>3. \/ /\ phase' = [phase EXCEPT ![n] = "up"]
           /\ reason' = [reason EXCEPT ![n] = "none"]
        \/ /\ phase' = [phase EXCEPT ![n] = "rejected"]
           /\ reason' = [reason EXCEPT ![n] = "genesis"]
    BY <1>3, <1>6, <2>1 DEF B!ComeUp, B!Reject
  <2>4. QED
    BY <1>2, <2>1, <2>2, <2>3, PhaseKeeps
<1>7. ASSUME NEW n \in Node, B!Dispose(n) PROVE BringUpInv'
  <2>1. /\ phase[n] = "up" /\ UNCHANGED <<hardfork, options, boundTo, engineIs>>
        /\ phase' = [phase EXCEPT ![n] = "disposed"]
        /\ reason' = [reason EXCEPT ![n] = "none"]
    BY <1>3, <1>7 DEF B!Dispose
  <2>2. options[n].valid /\ (options[n].engine # NoEngine => Owned(n))
    BY <2>1 DEF BringUpInv, Past, Running
  <2>3. QED
    BY <1>2, <2>1, <2>2, PhaseKeeps
<1>8. CASE UNCHANGED B!vars
  BY <1>8 DEF B!vars, BringUpInv, B!TypeOK, B!BadOptionCostsNothing, Past, Running, Owned
<1>9. QED
  BY <1>4, <1>5, <1>6, <1>7, <1>8, CallKeeps DEF B!Next

(* Whatever createNode calls are interleaved, and with whatever they are given:  *)
(* a node that is up on a revm engine has it to itself, under its own fork,      *)
(* whose costs are the protocol's; and no bad option takes an engine              *)
(* (connectEngine, connect and bind).  Asked of the constants: `undefined` is no  *)
(* engine, and an unbound engine is bound to no node.                           *)
THEOREM EnginesGoInOrder == B!Spec => []EnginesInOrder
<1>1. BringUpInv => EnginesInOrder
  <2> SUFFICES ASSUME BringUpInv PROVE EnginesInOrder
    OBVIOUS
  <2>1. ASSUME NEW n \in Node, phase[n] = "up" /\ options[n].engine # NoEngine
        PROVE  Owned(n)
    BY <2>1 DEF BringUpInv, Running
  <2>2. B!EachItsOwnEngine
    BY <2>1 DEF B!EachItsOwnEngine, Owned
  <2>3. B!RunsOnlyForksItCosts
    <3>1. ASSUME NEW n \in Node, phase[n] = "up" /\ options[n].engine # NoEngine
          PROVE  hardfork \in B!Admitted
      BY <2>1, <3>1 DEF Owned
    <3>2. hardfork \in B!Admitted => B!WithinCap(hardfork, B!ReadBudget)
      BY AdmittedFork DEF B!WithinCap
    <3>3. QED
      BY <3>1, <3>2, CostsKnown DEF B!RunsOnlyForksItCosts
  <2>4. QED
    BY <2>2, <2>3 DEF EnginesInOrder, B!EnginesInOrder, BringUpInv
<1>2. QED
  BY <1>1, BringUpInitially, BringUpStep, PTL DEF B!Spec
=============================================================================
