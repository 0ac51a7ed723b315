--------------------------- MODULE MCHistoricalCall ---------------------------
(* An instance of HistoricalCall for TLC: one override of each kind.          *)
EXTENDS HistoricalCall

Says(fields, code, clear, slot) ==
  [a \in Address |->
     [account |-> Absent, absent |-> "no", code |-> code, fields |-> fields,
      clearStorage |-> clear, slots |-> [s \in Slot |-> slot]]]

SomeOverride ==
  {NoOverride,
   Says(CHOOSE f \in Fields : f # ZeroFields, Absent, FALSE, Absent),
   Says(Absent, CHOOSE c \in Code : c # EmptyCode, FALSE, Absent),
   Says(Absent, Absent, TRUE, Absent),
   Says(Absent, Absent, FALSE, CHOOSE v \in SlotValue : TRUE)}

Empty ==
  [accounts |-> [a \in Address |-> Absent], code |-> [a \in Address |-> Absent],
   storage |-> [a \in Address |-> NothingWritten]]

(* A genesis with a contract that holds something in every slot.             *)
Contract ==
  LET code == CHOOSE c \in Code : c # EmptyCode
  IN  [accounts |-> [a \in Address |-> [fields |-> ZeroFields, codeHash |-> code]],
       code |-> [a \in Address |-> code],
       storage |-> [a \in Address |-> [s \in Slot |-> CHOOSE v \in SlotValue : TRUE]]]

Fresh == {Empty, Contract}

(* Every block of the chain, and the state now, has no fields but zero.       *)
Plain ==
  \A a \in Address :
    /\ \A i \in DOMAIN past :
         past[i].accounts[a] # Absent => past[i].accounts[a].fields = ZeroFields
    /\ \A d \in 1..Depth :
         accountStack[d][a] # Absent => accountStack[d][a].fields = ZeroFields

(* Chains of one block are explored with everything a request can have; those  *)
(* of two, with plain accounts and calls pinned without overrides, as far as   *)
(* what their first run of code finds.                                      *)
LongChainsPlain ==
  HeadNumber > 1 =>
    Plain /\ (call = NoCall \/ (call.override = NoOverride /\ call.phase \notin {"run", "ran"}))

BoundedSpec == CallInit /\ [][CallNext /\ LongChainsPlain']_callVars
=============================================================================
