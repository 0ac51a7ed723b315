--------------------------- MODULE MCStateHistory ---------------------------
(* An instance of StateHistory for TLC: the state a node starts in.          *)
EXTENDS StateHistory

EmptyGenesis == [k \in Key |-> Absent]
=============================================================================
