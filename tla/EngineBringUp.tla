---------------------------- MODULE EngineBringUp ----------------------------
(***************************************************************************)
(* How nodes come up on the engines they are given                           *)
(* (src/packages/webevm/src/engine.ts connectEngine, revm.ts                 *)
(* createRevmEngine and connect, revm-state-store.ts bind, and the order of     *)
(* createNode in node.ts): several createNode calls interleaved at their       *)
(* awaits, engines that are no engines, half engines, one engine given to two    *)
(* nodes, hardforks, and constructions that fail after the engine is bound.     *)
(*                                                                         *)
(* The build pins every node to one hardfork, Cancun today; the engine's guard   *)
(* is for the day that moves, so the fork is any.                             *)
(*                                                                         *)
(* Definitions marked FAULTY are not part of the model: each is a plausible *)
(* mistake in the definition after it, kept to show that the properties     *)
(* notice the mistake.                                                      *)
(***************************************************************************)
EXTENDS Integers, Sequences, FiniteSets

CONSTANTS
  Node,     \* calls of createNode, each once
  Engine,   \* the objects consumers pass as `engine`
  Shape,    \* Engine -> "revm", "noCall", "noTransact"
  ChainId,  \* chain ids nodes are made with
  NoEngine, \* the option is absent, no Engine
  Unbound   \* the engine has no state manager, no Node

(* The objects given are not the absence of one, and a chain has an id.          *)
BringUpAssumption ==
  /\ Shape \in [Engine -> {"revm", "noCall", "noTransact"}]
  /\ NoEngine \notin Engine
  /\ Unbound \notin Node
  /\ ChainId # {}

Forks ==
  <<"homestead", "byzantium", "petersburg", "istanbul", "berlin", "london",
    "paris", "shanghai", "cancun", "prague", "osaka">>

Fork == {Forks[i] : i \in 1..Len(Forks)}

Since(f, g) ==
  \E i, j \in 1..Len(Forks) : Forks[i] = g /\ Forks[j] = f /\ i <= j

(* What of NodeOptions decides how a construction goes: the engine, the chain,  *)
(* whether stateHistory and genesisTimestamp are valid, and whether genesis and   *)
(* the saved state load.                                                    *)
Options ==
  [engine : Engine \cup {NoEngine}, chainId : ChainId, valid : BOOLEAN,
   genesisLoads : BOOLEAN]

VARIABLES
  hardfork, \* of the Common every node is built with
  options,  \* node -> the options it was called with
  phase,    \* node -> "idle", "building", "connected", "up", "rejected", "disposed"
  reason,   \* node -> why it was rejected, or "none"
  boundTo,  \* engine -> the node whose state manager its store reads and writes
  engineIs, \* engine -> [spec, chainId] it executes with
  served    \* history variable: the nodes that came up

vars == <<hardfork, options, phase, reason, boundTo, engineIs, served>>

Reject(n, why) ==
  /\ phase' = [phase EXCEPT ![n] = "rejected"]
  /\ reason' = [reason EXCEPT ![n] = why]

-----------------------------------------------------------------------------
(* The tables of the revm engine. *)

(* FAULTY: forks below Berlin are admitted, without repricing calldata.        *)
AdmittedBelowBerlin ==
  {"petersburg", "istanbul", "berlin", "london", "paris", "shanghai", "cancun"}

(* REVM_SPEC_BY_HARDFORK.                                                   *)
Admitted == {"berlin", "london", "paris", "shanghai", "cancun"}

(* REVM_REFUSED_HARDFORKS.                                                  *)
RefusedByName == {"prague", "osaka"}

-----------------------------------------------------------------------------
(* createNode. *)

(* FAULTY: the options are validated where they are used, after `connect`.     *)
ValidatedLate(o) == TRUE

(* "Validated before anything is built, so a bad option costs nothing."       *)
Validated(o) == o.valid

(* The call: what runs before createVM is awaited.                           *)
Call(n, o) ==
  /\ phase[n] = "idle"
  /\ options' = [options EXCEPT ![n] = o]
  /\ IF Validated(o)
       THEN /\ phase' = [phase EXCEPT ![n] = "building"]
            /\ UNCHANGED reason
       ELSE Reject(n, "option")
  /\ UNCHANGED <<hardfork, boundTo, engineIs, served>>

(* FAULTY: an engine without `transact` is let through.                       *)
OnlyStraysRefused(e) == Shape[e] = "noCall"

(* connectEngine: what is no engine, or half of one, is refused before its      *)
(* `connect` is called.                                                     *)
RefusedShape(e) == Shape[e] \in {"noCall", "noTransact"}

(* FAULTY: the last one to connect has the engine.                           *)
BindsAnyNode(e) == TRUE

(* bind: "ONE ENGINE SERVES ONE NODE".                                       *)
Binds(e) == boundTo[e] = Unbound

(* An absent option, and only that, is the default engine: the node's own.      *)
ConnectDefault(n) ==
  /\ phase[n] = "building"
  /\ options[n].engine = NoEngine
  /\ phase' = [phase EXCEPT ![n] = "connected"]
  /\ UNCHANGED <<hardfork, options, reason, boundTo, engineIs, served>>

(* connectEngine, and in it the revm engine's connect, which runs in one piece: *)
(* the fork's guards, then what the engine executes with, then bind.           *)
Connect(n) ==
  LET e == options[n].engine
  IN  /\ phase[n] = "building"
      /\ e # NoEngine
      /\ \/ /\ RefusedShape(e)
            /\ Reject(n, "shape")
            /\ UNCHANGED <<boundTo, engineIs>>
         \/ /\ ~ RefusedShape(e)
            /\ hardfork \in RefusedByName
            /\ Reject(n, "refused fork")
            /\ UNCHANGED <<boundTo, engineIs>>
         \/ /\ ~ RefusedShape(e)
            /\ hardfork \notin RefusedByName \cup Admitted
            /\ Reject(n, "unknown fork")
            /\ UNCHANGED <<boundTo, engineIs>>
         \/ /\ ~ RefusedShape(e)
            /\ hardfork \in Admitted \ RefusedByName
            /\ engineIs' = [engineIs EXCEPT
                              ![e] = [spec |-> hardfork, chainId |-> options[n].chainId]]
            /\ IF Binds(e)
                 THEN /\ boundTo' = [boundTo EXCEPT ![e] = n]
                      /\ phase' = [phase EXCEPT ![n] = "connected"]
                      /\ UNCHANGED reason
                 ELSE /\ Reject(n, "connected")
                      /\ UNCHANGED boundTo
      /\ UNCHANGED <<hardfork, options, served>>

(* The rest of the construction: baselines, genesis, and the saved state; any    *)
(* of it may throw, with the engine connected.                              *)
ComeUp(n) ==
  /\ phase[n] = "connected"
  /\ IF options[n].genesisLoads /\ options[n].valid
       THEN /\ phase' = [phase EXCEPT ![n] = "up"]
            /\ served' = served \cup {n}
            /\ UNCHANGED reason
       ELSE /\ Reject(n, "genesis")
            /\ UNCHANGED served
  /\ UNCHANGED <<hardfork, options, boundTo, engineIs>>

(* dispose: the engine is not told.                                         *)
Dispose(n) ==
  /\ phase[n] = "up"
  /\ phase' = [phase EXCEPT ![n] = "disposed"]
  /\ UNCHANGED <<hardfork, options, reason, boundTo, engineIs, served>>

NoOptions == [engine |-> NoEngine, chainId |-> CHOOSE c \in ChainId : TRUE,
              valid |-> TRUE, genesisLoads |-> TRUE]

(* createRevmEngine: unbound, and executing as Cancun until connected.         *)
Init ==
  /\ hardfork \in Fork
  /\ options = [n \in Node |-> NoOptions]
  /\ phase = [n \in Node |-> "idle"]
  /\ reason = [n \in Node |-> "none"]
  /\ boundTo = [e \in Engine |-> Unbound]
  /\ engineIs = [e \in Engine |-> [spec |-> "cancun", chainId |-> NoOptions.chainId]]
  /\ served = {}

Next ==
  \E n \in Node :
    \/ \E o \in Options : Call(n, o)
    \/ ConnectDefault(n)
    \/ Connect(n)
    \/ ComeUp(n)
    \/ Dispose(n)

Spec == Init /\ [][Next]_vars

-----------------------------------------------------------------------------
(* What a fork charges, and what this node's arithmetic says. *)

(* Calldata of bytes that are zero or not, creating a contract or not.          *)
Sample == [zeros : {0, 1, 40}, nonZeros : {0, 1, 40, 4000}, create : BOOLEAN,
           addresses : {0}, keys : {0}, gas : {-1}]

(* intrinsic-gas.ts, under a Common that activates EIP-3860 from Shanghai on.   *)
Arithmetic(eip3860) ==
  INSTANCE IntrinsicGas WITH
    TxBase <- 21000, ZeroByte <- 4, NonZeroByte <- 16, CreateBase <- 32000,
    InitWord <- 2, WordSize <- 32, Eip3860 <- eip3860, ListAddress <- 2400,
    ListKey <- 1900, NoGas <- -1

Intrinsic(f, r) == Arithmetic(Since(f, "shanghai"))!IntrinsicGasOf(r)

(* The protocol's: EIP-2028 in Istanbul, EIP-3860 in Shanghai.                 *)
ProtocolIntrinsic(f, r) ==
  LET words == (r.zeros + r.nonZeros + 31) \div 32
  IN  21000
      + r.zeros * 4
      + r.nonZeros * (IF Since(f, "istanbul") THEN 16 ELSE 68)
      + (IF r.create THEN 32000 ELSE 0)
      + (IF r.create /\ Since(f, "shanghai") THEN words * 2 ELSE 0)

(* EIP-7623, from Prague on.                                                *)
ProtocolFloor(f, r) ==
  IF Since(f, "prague") THEN 21000 + 10 * (r.zeros + 4 * r.nonZeros) ELSE 0

(* EIP-7825, in Osaka.                                                      *)
WithinCap(f, gas) == Since(f, "osaka") => gas <= 16777216

ReadBudget == 30000000

-----------------------------------------------------------------------------
(* The kinds of the variables, and that whole engines only are ever bound, to a  *)
(* node that was given them.                                                 *)
TypeOK ==
  /\ hardfork \in Fork
  /\ options \in [Node -> Options]
  /\ phase \in [Node -> {"idle", "building", "connected", "up", "rejected", "disposed"}]
  /\ reason \in [Node -> {"none", "option", "shape", "refused fork", "unknown fork",
                        "connected", "genesis"}]
  /\ boundTo \in [Engine -> Node \cup {Unbound}]
  /\ engineIs \in [Engine -> [spec : Fork, chainId : ChainId]]
  /\ \A n \in Node : phase[n] = "rejected" <=> reason[n] # "none"
  /\ \A e \in Engine :
       boundTo[e] # Unbound => Shape[e] = "revm" /\ options[boundTo[e]].engine = e

(* A node that is up runs the engine it was given and no other, and that engine *)
(* works on this node's state, whatever other constructions did meanwhile.      *)
EachItsOwnEngine ==
  \A n \in Node :
    phase[n] = "up" /\ options[n].engine # NoEngine =>
      /\ Shape[options[n].engine] = "revm"
      /\ boundTo[options[n].engine] = n
      /\ engineIs[options[n].engine].spec = hardfork

(* On a fork a revm node runs under, what this node's arithmetic says a           *)
(* transaction pays is what the protocol charges and revm enforces, and the read  *)
(* budget is one revm accepts: the two clauses of admission.                   *)
RunsOnlyForksItCosts ==
  \A n \in Node :
    phase[n] = "up" /\ options[n].engine # NoEngine =>
      /\ \A r \in Sample :
           /\ Intrinsic(hardfork, r) = ProtocolIntrinsic(hardfork, r)
           /\ Intrinsic(hardfork, r) >= ProtocolFloor(hardfork, r)
      /\ WithinCap(hardfork, ReadBudget)

(* "Validated before anything is built, so a bad option costs nothing": an         *)
(* engine is bound only to a node whose options were good, and can be given to     *)
(* the next call when they were not.                                         *)
BadOptionCostsNothing ==
  \A e \in Engine : boundTo[e] # Unbound => options[boundTo[e]].valid

(* Engines go to the nodes they were given to, when all is well with both.       *)
EnginesInOrder ==
  TypeOK /\ EachItsOwnEngine /\ RunsOnlyForksItCosts /\ BadOptionCostsNothing
=============================================================================
