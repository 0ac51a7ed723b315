------------------------------ MODULE GasEstimate ------------------------------
(***************************************************************************)
(* eth_estimateGas, and the gas field of eth_fillTransaction, as the search *)
(* that src/packages/webevm/src/node.ts runs: one execution at the upper    *)
(* bound, one at what that execution consumed, then a bracket from below    *)
(* and a bisection, every probe a full execution.  What the code does with  *)
(* a given amount of gas is the behaviour of a contract, which is arbitrary: *)
(* the constant operators Succeeds and Uses.  At the end the client sends  *)
(* the transaction with the limit it was told.                              *)
(*                                                                         *)
(* The requests of a node are serialised, so nothing changes between two    *)
(* probes.                                                                  *)
(***************************************************************************)
EXTENDS IntrinsicGas

CONSTANTS
  Asked,           \* the requests clients make
  Methods,         \* which of "estimate" and "fill" they call
  Engines,         \* which of "default" and "revm" may be installed
  Behaviour,       \* what contracts do
  Succeeds(_, _),  \* behaviour, gas that reaches the frame: does it succeed
  Uses(_),         \* behaviour: what it consumes at the upper bound, if it can
  ReturnsBytes(_), \* behaviour: does a failure carry return data
  Rejected(_),     \* behaviour: refused before execution (unaffordable value)
  BlockGasLimit,   \* minedBlockGasLimit
  Divisor,         \* 64
  MaxProbes        \* MAX_ESTIMATE_PROBES, 32

ASSUME EstimateAssumption ==
  /\ Asked \subseteq Request
  /\ Methods \subseteq {"estimate", "fill"}
  /\ Engines \subseteq {"default", "revm"}
  /\ BlockGasLimit \in Nat
  /\ Divisor \in Nat \ {0}
  /\ MaxProbes \in Nat
  /\ \A c \in Behaviour : Uses(c) \in Nat

VARIABLES
  method, request, engine, code,  \* the call, and the world it meets
  pc,      \* where estimateGas is, or how the call ended
  low,     \* its variables of those names
  high,
  step,
  probes,
  runs,    \* history variable: executions so far
  answer   \* the limit it returns

call == <<method, request, engine, code>>
vars == <<call, pc, low, high, step, probes, runs, answer>>

(* fillTransaction drops the list of the request it estimates.              *)
Estimated == IF method = "fill" THEN WithoutList(request) ELSE request

(* A frame spends at most what it was given.                                *)
Spends(c, budget) == IF Uses(c) < budget THEN Uses(c) ELSE budget

Overhead == IntrinsicGasOf(Estimated) + AccessListGas(Estimated)

(* The caller's `gas`, capped at the block gas limit.                       *)
Cap ==
  IF request.gas = NoGas \/ request.gas > BlockGasLimit THEN BlockGasLimit
                                                         ELSE request.gas

(* engine.call with a gas budget: whether it succeeded, and executionGasUsed. *)
(* revm charges intrinsic gas itself, so the engine adds it to the limit and *)
(* takes it off what was spent; a transaction it rejects spent nothing.      *)
RevmLimit(budget) == budget + IntrinsicGasOf(Estimated)

RevmFrame(budget) == RevmLimit(budget) - IntrinsicGasOf(Estimated)

RevmSpent(budget) ==
  IF Rejected(code) THEN 0
                    ELSE IntrinsicGasOf(Estimated) + Spends(code, RevmFrame(budget))

FrameGas(budget) == IF engine = "revm" THEN RevmFrame(budget) ELSE budget

ExecutionGasUsed(budget) ==
  IF engine = "revm"
  THEN IF RevmSpent(budget) > IntrinsicGasOf(Estimated)
       THEN RevmSpent(budget) - IntrinsicGasOf(Estimated) ELSE 0
  ELSE IF Rejected(code) THEN 0 ELSE Spends(code, budget)

(* The probe of a limit: does the request succeed in it.                    *)
Works(limit) ==
  ~ Rejected(code) /\ Succeeds(code, FrameGas(limit - Overhead))

-----------------------------------------------------------------------------
Goto(where) == pc' = where /\ UNCHANGED call

Return(limit) ==
  /\ answer' = limit
  /\ Goto("answered")
  /\ UNCHANGED <<low, high, step, probes>>

Refuse(how) ==
  /\ Goto(how)
  /\ UNCHANGED <<low, high, step, probes, answer>>

(* The cap cannot pay for the transaction's own bytes.                      *)
CapTooLow ==
  /\ pc = "start"
  /\ Cap < Overhead
  /\ Refuse("exceedsAllowance")
  /\ UNCHANGED runs

(* It burned the whole budget with nothing to show for it.                  *)
RanOutOfGas ==
  LET budget == Cap - Overhead
  IN  budget > 0 /\ ExecutionGasUsed(budget) >= budget /\ ~ ReturnsBytes(code)

(* The run at the upper bound fails ...                                     *)
TopFails ==
  /\ pc = "start"
  /\ Cap >= Overhead
  /\ ~ Works(Cap)
  /\ Refuse(IF RanOutOfGas THEN "exceedsAllowance" ELSE "reverted")
  /\ runs' = runs + 1

Consumed == ExecutionGasUsed(Cap - Overhead) + Overhead

(* ... needs everything ...                                                 *)
TopNeedsAll ==
  /\ pc = "start"
  /\ Cap >= Overhead
  /\ Works(Cap)
  /\ Consumed >= Cap
  /\ Return(Cap)
  /\ runs' = runs + 1

(* ... or says what to try next.                                            *)
TopMeasures ==
  /\ pc = "start"
  /\ Cap >= Overhead
  /\ Works(Cap)
  /\ Consumed < Cap
  /\ Goto("consumed")
  /\ runs' = runs + 1
  /\ UNCHANGED <<low, high, step, probes, answer>>

(* FAULTY: consumption is the answer, unprobed.                             *)
ConsumptionTrusted == TRUE

(* FAULTY: the search starts without trying it.                             *)
ConsumptionNotTried == FALSE

ConsumptionWorks == Works(Consumed)

ConsumptionIsEnough ==
  /\ pc = "consumed"
  /\ ConsumptionWorks
  /\ Return(Consumed)
  /\ runs' = runs + 1

(* FAULTY: no least step.                                                   *)
UnroundedStep == Consumed \div Divisor

FirstStep == IF Consumed \div Divisor < 1 THEN 1 ELSE Consumed \div Divisor

ConsumptionFails ==
  /\ pc = "consumed"
  /\ ~ ConsumptionWorks
  /\ low' = Consumed
  /\ high' = Cap
  /\ step' = FirstStep
  /\ probes' = 0
  /\ runs' = runs + 1
  /\ Goto("bracket")
  /\ UNCHANGED answer

(* Phase 1: from below, by a step that doubles.                             *)
Bracketing == probes < MaxProbes /\ low + step < high

NextStep == 2 * step

BracketFails ==
  /\ pc = "bracket"
  /\ Bracketing
  /\ ~ Works(low + step)
  /\ low' = low + step
  /\ step' = NextStep
  /\ probes' = probes + 1
  /\ runs' = runs + 1
  /\ Goto("bracket")
  /\ UNCHANGED <<high, answer>>

BracketFound ==
  /\ pc = "bracket"
  /\ Bracketing
  /\ Works(low + step)
  /\ high' = low + step
  /\ probes' = probes + 1
  /\ runs' = runs + 1
  /\ Goto("bisect")
  /\ UNCHANGED <<low, step, answer>>

BracketEnds ==
  /\ pc = "bracket"
  /\ ~ Bracketing
  /\ Goto("bisect")
  /\ UNCHANGED <<low, high, step, probes, runs, answer>>

(* FAULTY: the loop does not count its probes.                              *)
Uncounted == probes

(* FAULTY: it stops one short.                                              *)
WindowNearlyClosed == probes < MaxProbes /\ low + 2 < high

(* Phase 2: ordinary bisection.                                             *)
Bisecting == probes < MaxProbes /\ low + 1 < high

Mid == low + (high - low) \div 2

Counted == probes + 1

Bisect ==
  /\ pc = "bisect"
  /\ Bisecting
  /\ \/ Works(Mid) /\ high' = Mid /\ UNCHANGED low
     \/ ~ Works(Mid) /\ low' = Mid /\ UNCHANGED high
  /\ probes' = Counted
  /\ runs' = runs + 1
  /\ Goto("bisect")
  /\ UNCHANGED <<step, answer>>

ProvenEnd == high

BisectEnds ==
  /\ pc = "bisect"
  /\ ~ Bisecting
  /\ Return(ProvenEnd)
  /\ UNCHANGED runs

(* The two refusals at submit: no block could contain it, and it could not   *)
(* reach its first opcode.                                                  *)
OverBlockGasLimit(limit) == limit > BlockGasLimit

BelowIntrinsicGas(limit) == limit < TransactionFloor(Estimated)

(* What a mined transaction of that limit comes to: its frame gets what the  *)
(* transaction's own floor leaves.                                          *)
MinedOk(limit) ==
  ~ Rejected(code) /\ Succeeds(code, limit - TransactionFloor(Estimated))

(* The client sends the transaction it asked about with the limit it heard.  *)
SendTransaction ==
  /\ pc = "answered"
  /\ Goto(IF OverBlockGasLimit(answer) \/ BelowIntrinsicGas(answer)
          THEN "refusedAtSubmit"
          ELSE IF MinedOk(answer) THEN "minedOk" ELSE "minedFailed")
  /\ UNCHANGED <<low, high, step, probes, runs, answer>>

Init ==
  /\ method \in Methods
  /\ request \in Asked
  /\ method = "fill" => request.gas = NoGas
  /\ engine \in Engines
  /\ code \in Behaviour
  /\ pc = "start"
  /\ low = 0
  /\ high = 0
  /\ step = 1
  /\ probes = 0
  /\ runs = 0
  /\ answer = 0

Search ==
  \/ CapTooLow
  \/ TopFails \/ TopNeedsAll \/ TopMeasures
  \/ ConsumptionIsEnough \/ ConsumptionFails
  \/ BracketFails \/ BracketFound \/ BracketEnds
  \/ Bisect \/ BisectEnds

Next == Search \/ SendTransaction

Spec == Init /\ [][Next]_vars

-----------------------------------------------------------------------------
Ends == {"answered", "exceedsAllowance", "reverted",
         "refusedAtSubmit", "minedFailed", "minedOk"}

(* Types, and the ends of the window in order.                              *)
TypeOK ==
  /\ method \in Methods
  /\ request \in Asked
  /\ engine \in Engines
  /\ code \in Behaviour
  /\ pc \in {"start", "consumed", "bracket", "bisect"} \cup Ends
  /\ {low, high, probes, runs, answer} \subseteq Nat
  /\ step \in Nat \ {0}

(* "`low` FAILS and `high` SUCCEEDS at every point": throughout the search   *)
(* high is a limit that was executed and worked, and low one that did not.   *)
WindowBrackets ==
  pc \in {"bracket", "bisect"} =>
    /\ Overhead <= low
    /\ low < high
    /\ high <= Cap
    /\ Works(high)
    /\ ~ Works(low)

(* A limit this node recommends is one it accepts and mines with success:    *)
(* nothing between estimating, filling in and submitting disagrees about     *)
(* what a transaction pays up front, whichever engine is installed.          *)
RecommendedLimitMines == pc \notin {"refusedAtSubmit", "minedFailed"}

Answered == pc \in {"answered", "minedOk"}

(* More gas never hurts, and what it consumes does not depend on its gas.    *)
Ordinary ==
  /\ \A limit \in Overhead..(Cap - 1) : Works(limit) => Works(limit + 1)
  /\ \A limit \in Overhead..(Consumed - 1) : ~ Works(limit)

(* For a transaction that does not look at its gas the answer is the least   *)
(* limit that works, unless the probes ran out first.                        *)
AnswerIsLeast ==
  Answered /\ Ordinary /\ probes < MaxProbes =>
    \A limit \in Overhead..(answer - 1) : ~ Works(limit)

(* The ceiling on what one estimate may cost: MAX_ESTIMATE_PROBES, "after    *)
(* the two it always spends".                                                *)
CostBounded == runs <= MaxProbes + 2

(* What the search answers is the least it can be, at no more than its price,  *)
(* whatever the code does.                                                  *)
AnswerExact == TypeOK /\ AnswerIsLeast /\ CostBounded
=============================================================================
