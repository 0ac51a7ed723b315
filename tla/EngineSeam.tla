------------------------------ MODULE EngineSeam ------------------------------
(***************************************************************************)
(* The engine seam of webevm: the same two operations, call (a read) and      *)
(* transact (execute and commit), as src/packages/webevm/src/engine.ts        *)
(* builds them over @ethereumjs/evm and src/packages/webevm/src/revm.ts over  *)
(* revm-wasm.  Both engines are run on the same requests, each on a ledger    *)
(* of its own, so that what a node answers can be compared engine by engine.  *)
(*                                                                         *)
(* The two EVMs are external.  They agree on what code does with a given       *)
(* amount of gas (a script: what it needs, how it ends) and differ in what     *)
(* they validate, charge and report; levelling that out is the work of the    *)
(* two wrappers, which are the definitions about the source.                  *)
(*                                                                         *)
(* A creation that fails is outside this model: what @ethereumjs/vm reports    *)
(* as its created address is its own affair.                                 *)
(*                                                                         *)
(* Definitions marked FAULTY are not part of the model: each is a plausible *)
(* mistake in the definition after it, kept to show that the properties     *)
(* notice the mistake.                                                      *)
(***************************************************************************)
EXTENDS Integers, Sequences, FiniteSetsExt, SequencesExt

CONSTANTS
  Person,           \* accounts without code
  Contract,         \* accounts with code
  Create,           \* no `to`: what is created, as an account
  Coinbase,
  Funds,            \* what each account holds at first
  Reads,            \* read requests: [from, to, script, gasLimit, value]
  Transactions,     \* [sender, signer, to, script, gasLimit, value, nonce, type, cap, tip]
  TxBase,           \* intrinsic gas
  CreateBase,
  ColdAccess,       \* what the first access to a slot costs on top
  BaseFee,          \* of the block
  BlockGasLimit,
  MaxTransactions   \* bound on the transactions run

Account == Person \cup Contract \cup {Create, Coinbase}

Engine == {"default", "revm"}

(* What code does: the gas it needs with its slot warm, what it gets back,    *)
(* how it ends ("halt" stands for an invalid opcode), how many contracts it    *)
(* creates.                                                                 *)
Script ==
  [need : Nat, refund : Nat, ends : {"return", "revert", "halt"}, children : Nat]

(* The requests.  A read has no price, no nonce and no switch; a transaction    *)
(* comes with its sender stated, which need not be its signer.                *)
ReadCallRequest ==
  [from : Person \cup Contract, to : Contract \cup {Create}, script : Script,
   gasLimit : Nat, value : Nat]

TransactionRequest ==
  [sender : Person \cup Contract, signer : Person \cup Contract,
   to : Contract \cup {Create}, script : Script, gasLimit : Nat, value : Nat, nonce : Nat,
   type : {"legacy", "1559"}, cap : Nat, tip : Nat]

ASSUME SeamAssumption ==
  /\ Funds \in [Account -> Nat]
  /\ Reads \subseteq ReadCallRequest
  /\ Transactions \subseteq TransactionRequest
  /\ {TxBase, CreateBase, ColdAccess, BaseFee, BlockGasLimit, MaxTransactions} \subseteq Nat
  /\ Person \cap (Contract \cup {Create, Coinbase}) = {}

VARIABLES
  ledger,  \* engine -> account -> [balance, nonce]
  warm,    \* the slot is warm in the default EVM's journal, as a call leaves it
  last,    \* the last request and what each engine made of it
  mined    \* how many transactions ran

vars == <<ledger, warm, last, mined>>

-----------------------------------------------------------------------------
(* The answers.  The words of an error are the engine's own and no part of it.  *)

Nothing == <<"nothing", 0>>

Bytes == {Nothing, <<"reason", 0>>} \cup ({"result"} \X Nat)

ReadCallResult == [returnValue : Bytes, executionGasUsed : Nat, error : BOOLEAN]

TransactionResult ==
  [status : BOOLEAN, gasUsed : Nat, effectiveGasPrice : Nat,
   createdAddress : Seq(Account \cup Nat)]

Thrown == [thrown |-> TRUE]

-----------------------------------------------------------------------------
(* The EVMs (external). *)

Intrinsic(to) == TxBase + (IF to = Create THEN CreateBase ELSE 0)

(* What the code sees of its block.  Code that returns, returns it.            *)
TheBlock == [baseFee |-> BaseFee, gasLimit |-> BlockGasLimit]

(* A frame with this much gas, in this block.                                *)
Frame(script, gas, isWarm, block) ==
  LET need == script.need + (IF isWarm THEN 0 ELSE ColdAccess)
      ends == IF gas < need THEN "halt" ELSE script.ends
  IN  [ends |-> ends, used |-> IF ends = "halt" THEN gas ELSE need,
       bytes |-> CASE ends = "return" -> <<"result", block.baseFee>>
                   [] ends = "revert" -> <<"reason", 0>>
                   [] OTHER -> Nothing]

Pay(book, from, to, amount) ==
  [book EXCEPT ![from].balance = @ - amount, ![to].balance = @ + amount]

NextNonce(book, from) == [book EXCEPT ![from].nonce = @ + 1]

(* The address of a creation by this sender at this nonce, and of the         *)
(* contracts created within it.                                             *)
AddressOf(sender, nonce) == <<sender, nonce>>

ChildOf(sender, nonce, i) == <<sender, nonce, i>>

(* @ethereumjs/evm runCall: no intrinsic gas, no validity but the value; a     *)
(* creation moves the caller's nonce.                                       *)
RunCall(book, isWarm, request) ==
  LET from    == request.from
      bumped  == IF request.to = Create THEN NextNonce(book, from) ELSE book
      frame   == Frame(request.script, request.gasLimit, isWarm, TheBlock)
  IN  IF book[from].balance < request.value
      THEN [ends |-> "refused", used |-> 0, bytes |-> Nothing, book |-> bumped]
      ELSE [ends |-> frame.ends, used |-> frame.used, bytes |-> frame.bytes,
            book |-> IF frame.ends = "return"
                     THEN Pay(bumped, from, request.to, request.value) ELSE bumped]

(* A transaction as the protocol runs it, charged at this price.               *)
Executed(book, from, to, script, gasLimit, value, price, block) ==
  LET frame  == Frame(script, gasLimit - Intrinsic(to), FALSE, block)
      spent  == Intrinsic(to) + frame.used
      refund == IF frame.ends = "return" THEN Min({script.refund, spent \div 5}) ELSE 0
      net    == spent - refund
      burned == [book EXCEPT ![from].balance = @ - net * price]
      paid   == [NextNonce(burned, from) EXCEPT ![Coinbase].balance = @ + net * (price - block.baseFee)]
  IN  [ends |-> frame.ends, bytes |-> frame.bytes, spent |-> spent, net |-> net,
       book |-> IF frame.ends = "return" THEN Pay(paid, from, to, value) ELSE paid]

(* @ethereumjs/vm runTx of a transaction that says who sent it: what it        *)
(* rejects, and the price it charges.                                       *)
RunTxRejects(book, tx, sender) ==
  \/ tx.gasLimit > BlockGasLimit
  \/ tx.gasLimit < Intrinsic(tx.to)
  \/ tx.cap < BaseFee
  \/ tx.nonce # book[sender].nonce
  \/ sender \in Contract
  \/ book[sender].balance < tx.gasLimit * tx.cap + tx.value

ProtocolPrice(tx) == IF tx.type = "legacy" THEN tx.cap ELSE Min({tx.cap, BaseFee + tx.tip})

(* revm-wasm: what it rejects under its options, and what it makes of the rest. *)
RevmRejects(book, o) ==
  \/ o.commit /\ (o.disableBaseFee \/ o.disableBlockGasLimit \/ o.disableEip3607)
  \/ o.gasLimit < Intrinsic(o.to)
  \/ ~ o.disableBlockGasLimit /\ o.gasLimit > o.block.gasLimit
  \/ ~ o.disableBaseFee /\ o.price < o.block.baseFee
  \/ ~ o.disableEip3607 /\ o.from \in Contract
  \/ o.checkNonce /\ o.nonce # book[o.from].nonce
  \/ ~ o.disableBalanceCheck /\ book[o.from].balance < o.gasLimit * o.price + o.value

(* A rejection's return data is the text of the reason.  The contracts         *)
(* created are listed in no order to rely on.                                *)
RevmOutcome(book, o, childrenFirst) ==
  LET price == IF o.tip = -1 THEN o.price ELSE Min({o.price, o.block.baseFee + o.tip})
      run   == Executed(book, o.from, o.to, o.script, o.gasLimit, o.value, price, o.block)
      made  == (IF o.to = Create THEN <<AddressOf(o.from, o.nonce)>> ELSE <<>>)
               \o [i \in 1..o.script.children |-> ChildOf(o.from, o.nonce, i)]
  IN  IF RevmRejects(book, o)
      THEN [status |-> "validation-error", returnData |-> <<"text", 0>>,
            totalGasSpent |-> 0, gasUsed |-> 0, effectiveGasPrice |-> 0,
            created |-> <<>>, book |-> book]
      ELSE [status |-> run.ends, returnData |-> run.bytes,
            totalGasSpent |-> run.spent, gasUsed |-> run.net, effectiveGasPrice |-> price,
            created |-> IF run.ends # "return" THEN <<>>
                        ELSE IF childrenFirst THEN Reverse(made) ELSE made,
            book |-> IF o.commit THEN run.book ELSE book]

-----------------------------------------------------------------------------
(* The default engine (engine.ts). *)

(* FAULTY: the journal is left as the last call had it.                       *)
JournalKept == warm

(* What the default EVM holds warm when a call starts: cleanJournal has run.    *)
WarmAtStart == FALSE

(* FAULTY: the checkpoint is committed.                                      *)
DefaultCallCommitted(request) ==
  LET run == RunCall(ledger["default"], WarmAtStart, request)
  IN  [answer |-> [returnValue |-> run.bytes, executionGasUsed |-> run.used,
                   error |-> run.ends # "return"],
       book   |-> run.book]

(* call: the journal is cleaned before, the checkpoint reverted after.         *)
DefaultCall(request) ==
  LET run == RunCall(ledger["default"], WarmAtStart, request)
  IN  [answer |-> [returnValue |-> run.bytes, executionGasUsed |-> run.used,
                   error |-> run.ends # "return"],
       book   |-> ledger["default"]]

(* effectiveGasPrice, the engine's own arithmetic.                            *)
EffectiveGasPrice(tx) ==
  IF tx.type = "legacy" THEN tx.cap ELSE Min({tx.cap - BaseFee, tx.tip}) + BaseFee

(* asSender: runTx asks the transaction for its sender and is told the seam's. *)
AsSender(tx) == tx.sender

(* transact, as runTx has it.                                               *)
DefaultTransact(tx) ==
  LET book   == ledger["default"]
      sender == AsSender(tx)
      run    == Executed(book, sender, tx.to, tx.script, tx.gasLimit, tx.value,
                         ProtocolPrice(tx), TheBlock)
  IN  IF RunTxRejects(book, tx, sender)
      THEN [answer |-> Thrown, book |-> book]
      ELSE [answer |-> [status |-> run.ends = "return", gasUsed |-> run.net,
                        effectiveGasPrice |-> EffectiveGasPrice(tx),
                        createdAddress |-> IF tx.to = Create /\ run.ends = "return"
                                           THEN AddressOf(sender, tx.nonce) ELSE <<>>],
            book   |-> run.book]

-----------------------------------------------------------------------------
(* The revm engine (revm.ts). *)

(* FAULTY: no base fee, so that a read at no price is valid.                   *)
BlockWithoutBaseFee == [TheBlock EXCEPT !.baseFee = 0]

(* blockEnvOf: the node's block as it is, for reads and transactions alike.     *)
BlockEnvOf == TheBlock

(* The options of a read: the gas available to execution plus what revm takes   *)
(* for itself, no price, and three validity rules off.                       *)
RevmCallOptions(request) ==
  [from |-> request.from, to |-> request.to, script |-> request.script,
   value |-> request.value, gasLimit |-> request.gasLimit + Intrinsic(request.to),
   block |-> BlockEnvOf,
   nonce |-> 0, price |-> 0, tip |-> -1, checkNonce |-> FALSE, commit |-> FALSE,
   disableBaseFee |-> TRUE, disableBlockGasLimit |-> TRUE, disableEip3607 |-> TRUE,
   disableBalanceCheck |-> FALSE]

(* FAULTY: the text of a rejection is forwarded as return data.               *)
ReturnValueAsReported(outcome) == outcome.returnData

(* A rejection ran no code, so it returns nothing.                            *)
ReturnValueOf(outcome) ==
  IF outcome.status = "validation-error" THEN Nothing ELSE outcome.returnData

(* FAULTY: intrinsic gas taken off whatever was spent.                        *)
ExecutionGasUnclipped(outcome, intrinsic) == outcome.totalGasSpent - intrinsic

ExecutionGasOf(outcome, intrinsic) == Max({0, outcome.totalGasSpent - intrinsic})

RevmCall(request) ==
  LET outcome == RevmOutcome(ledger["revm"], RevmCallOptions(request), FALSE)
  IN  [answer |-> [returnValue |-> ReturnValueOf(outcome),
                   executionGasUsed |-> ExecutionGasOf(outcome, Intrinsic(request.to)),
                   error |-> outcome.status # "return"],
       book   |-> outcome.book]

(* FAULTY: the legacy price beside a tip of nothing, which makes it capped.     *)
FeesWithTip(tx) == [price |-> tx.cap, tip |-> tx.tip]

(* revm derives the type from which fields are there: -1 is an absent tip.      *)
FeesOf(tx) == [price |-> tx.cap, tip |-> IF tx.type = "legacy" THEN -1 ELSE tx.tip]

(* The options of a transaction: nothing relaxed, the sender as given.         *)
RevmTransactOptions(tx) ==
  [from |-> tx.sender, to |-> tx.to, script |-> tx.script, value |-> tx.value,
   gasLimit |-> tx.gasLimit, nonce |-> tx.nonce, price |-> FeesOf(tx).price,
   tip |-> FeesOf(tx).tip, block |-> BlockEnvOf, checkNonce |-> TRUE, commit |-> TRUE,
   disableBaseFee |-> FALSE, disableBlockGasLimit |-> FALSE, disableEip3607 |-> FALSE,
   disableBalanceCheck |-> FALSE]

(* FAULTY: gas before refunds.                                              *)
GrossGasOf(outcome) == outcome.totalGasSpent

ReceiptGasOf(outcome) == outcome.gasUsed

(* FAULTY: the first entry flagged created.                                  *)
FirstCreated(outcome, tx) ==
  IF tx.to # Create \/ outcome.created = <<>> THEN <<>> ELSE outcome.created[1]

(* createdAddressOf: of a creation, the entry at the protocol's address.       *)
CreatedAddressOf(outcome, tx) ==
  LET created == outcome.created
      topLevel == AddressOf(tx.sender, tx.nonce)
  IN  IF tx.to # Create \/ Len(created) = 0 THEN <<>>
      ELSE IF Len(created) = 1 THEN created[1]
      ELSE IF topLevel \in Range(created) THEN topLevel ELSE <<>>

RevmTransact(tx, childrenFirst) ==
  LET outcome == RevmOutcome(ledger["revm"], RevmTransactOptions(tx), childrenFirst)
  IN  IF outcome.status = "validation-error"
      THEN [answer |-> Thrown, book |-> outcome.book]
      ELSE [answer |-> [status |-> outcome.status = "return", gasUsed |-> ReceiptGasOf(outcome),
                        effectiveGasPrice |-> outcome.effectiveGasPrice,
                        createdAddress |-> CreatedAddressOf(outcome, tx)],
            book   |-> outcome.book]

-----------------------------------------------------------------------------
(* Each request is put to both. *)

Answered(kind, request, default, revm) ==
  /\ last' = [kind |-> kind, request |-> request,
              default |-> default.answer, revm |-> revm.answer]
  /\ ledger' = [default |-> default.book, revm |-> revm.book]

Call(request) ==
  /\ Answered("call", request, DefaultCall(request), RevmCall(request))
  /\ warm' = TRUE
  /\ UNCHANGED mined

Transact(tx, childrenFirst) ==
  /\ mined < MaxTransactions
  /\ Answered("transact", tx, DefaultTransact(tx), RevmTransact(tx, childrenFirst))
  /\ warm' = FALSE  \* runTx cleans up
  /\ mined' = mined + 1

Init ==
  /\ ledger = [e \in Engine |-> [a \in Account |-> [balance |-> Funds[a], nonce |-> 0]]]
  /\ warm = FALSE
  /\ last = [kind |-> "none"]
  /\ mined = 0

Next ==
  \/ \E request \in Reads : Call(request)
  \/ \E tx \in Transactions, childrenFirst \in BOOLEAN : Transact(tx, childrenFirst)

Spec == Init /\ [][Next]_vars

-----------------------------------------------------------------------------
(* The kinds of the variables; answers are of the seam's result types.        *)
TypeOK ==
  /\ ledger \in [Engine -> [Account -> [balance : Nat, nonce : Nat]]]
  /\ warm \in BOOLEAN
  /\ mined \in 0..MaxTransactions
  /\ last.kind = "call" => {last.default, last.revm} \subseteq ReadCallResult
  /\ last.kind = "transact" =>
       {last.default, last.revm} \subseteq TransactionResult \cup {Thrown}

(* "Same node, same transaction, two answers by engine [...] is precisely the   *)
(* failure the seam exists to remove": after every request the two engines      *)
(* have given one answer (the same bytes, the same gas, the same kind of        *)
(* failure; the same receipt, or both a refusal) and hold one state.          *)
EnginesAgree ==
  /\ TypeOK
  /\ last.kind # "none" => last.default = last.revm
  /\ ledger["default"] = ledger["revm"]

(* A receipt says what the transaction did to its sender: the nonce moved by    *)
(* one, and the balance fell by exactly gasUsed at effectiveGasPrice, plus the *)
(* value if it succeeded.  A refused transaction moved nothing.               *)
PaidAsReported ==
  [][ last'.kind = "transact" /\ mined' # mined =>
      \A e \in Engine :
        LET receipt == last'[e]
            tx      == last'.request
            before  == ledger[e][tx.sender]
            after   == ledger'[e][tx.sender]
            cost    == receipt.gasUsed * receipt.effectiveGasPrice
                       + IF receipt.status THEN tx.value ELSE 0
        IN  IF receipt = Thrown THEN ledger'[e] = ledger[e]
            ELSE after = [balance |-> before.balance - cost, nonce |-> before.nonce + 1] ]_vars

(* A read commits nothing, on either engine, whatever it runs and however it    *)
(* ends.                                                                    *)
ReadsCommitNothing == [][last'.kind = "call" => UNCHANGED ledger]_vars

(* The state moves as the answers say and no other way, on either engine.    *)
LedgersAsAnswered == PaidAsReported /\ ReadsCommitNothing
=============================================================================
