---------------------------- MODULE MCDerivedTrie ----------------------------
(* An instance of DerivedTrie, and so of OverlayState, for TLC.  To keep it   *)
(* small a root between two blocks is asked for only while no account has     *)
(* code; at the end of a block it is asked for whatever there is.             *)
EXTENDS DerivedTrie

VARIABLE asked   \* whether a root was asked for since the last block

NoCodes == \A d \in 1..Depth, a \in Address : codeStack[d][a] = Absent

BoundedInit == TrieInit /\ asked = FALSE

BoundedNext ==
  \/ FlatStep /\ UNCHANGED asked /\ (asked => NoCodes')
  \/ GetStateRoot /\ NoCodes /\ asked' = TRUE
  \/ MineBlock /\ asked' = FALSE
  \/ Rebuild /\ asked' = FALSE

BoundedSpec == BoundedInit /\ [][BoundedNext]_<<vars, trieVars, asked>>
=============================================================================
