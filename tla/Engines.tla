-------------------------------- MODULE Engines --------------------------------
(* The engines of a build, from `createNode` to the answers: nodes come up on    *)
(* the engines they are given (EngineBringUp), and two nodes of one chain, one    *)
(* on the default engine and one on revm, are put the same requests               *)
(* (EngineSeam).                                                            *)
EXTENDS EngineSeam

CONSTANTS
  Node, Given, Shape, ChainId, NoEngine, Unbound,
  Compared   \* [plain, other, chainId]: which nodes are put the requests

VARIABLES hardfork, options, phase, reason, boundTo, engineIs, served

B == INSTANCE EngineBringUp WITH Engine <- Given

ASSUME BringUpHere == B!BringUpAssumption

built == <<hardfork, options, phase, reason, boundTo, engineIs, served>>

(* Nodes of one chain are up under the hardfork the build pins, on the one        *)
(* engine and on the other.                                                 *)
BothUp(plain, other, chainId) ==
  /\ hardfork = "cancun"
  /\ \A n \in {plain, other} : phase[n] = "up" /\ options[n].chainId = chainId
  /\ options[plain].engine = NoEngine
  /\ options[other].engine # NoEngine

UpInit == Init /\ B!Init

UpNext ==
  \/ last.kind = "none" /\ B!Next /\ UNCHANGED vars
  \/ /\ \E c \in Compared : BothUp(c.plain, c.other, c.chainId)
     /\ Next
     /\ UNCHANGED built

UpSpec == UpInit /\ [][UpNext]_<<vars, built>>

-----------------------------------------------------------------------------
(* Engines go to the nodes they were given to, when all is well with both      *)
(* (EngineBringUp).                                                         *)
EnginesInOrder == B!EnginesInOrder
=============================================================================
