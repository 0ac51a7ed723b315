-------------------------- MODULE CheckpointedState --------------------------
(***************************************************************************)
(* What the overlay state manager of webevm promises, with none of its     *)
(* machinery: a stack of COMPLETE world states, one per open checkpoint,   *)
(* every operation acting on the top one, and a baseline, the state at the *)
(* moment the change set was last taken.  A checkpoint copies the whole    *)
(* state; a revert drops the copy; a commit keeps it in place of the one   *)
(* below.  Module OverlayState shows that the layered storage and the      *)
(* change-set record implement this, the baseline being recomputed from    *)
(* the record alone.                                                       *)
(***************************************************************************)
EXTENDS Sequences, Naturals

CONSTANTS
  Address,      \* account addresses
  Slot,         \* storage slot keys
  SlotContent,  \* what a written slot may hold, the empty value included
  Account,      \* account records
  Code,         \* contract codes
  Absent        \* "no such entry"

VARIABLES
  stack,        \* world states, the committed one first
  baseline      \* the committed state when the change set was last taken

vars == <<stack, baseline>>

(* A world state: accounts, code and storage, each a total map. *)
State ==
  [accounts : [Address -> Account \cup {Absent}],
   code     : [Address -> Code \cup {Absent}],
   storage  : [Address -> [Slot -> SlotContent \cup {Absent}]]]

NoStorage == [s \in Slot |-> Absent]

EmptyState ==
  [accounts |-> [a \in Address |-> Absent],
   code     |-> [a \in Address |-> Absent],
   storage  |-> [a \in Address |-> NoStorage]]

Top == stack[Len(stack)]

(* Every write replaces the top state and leaves the baseline alone. *)
Write(state) ==
  /\ stack' = [stack EXCEPT ![Len(stack)] = state]
  /\ UNCHANGED baseline

WriteAccount(a) ==
  \E acct \in Account \cup {Absent} : Write([Top EXCEPT !.accounts[a] = acct])

WriteCode(a) ==
  \E c \in Code : Write([Top EXCEPT !.code[a] = c])

WriteCodeAndAccount(a) ==
  \E c \in Code, acct \in Account :
    Write([Top EXCEPT !.code[a] = c, !.accounts[a] = acct])

WriteSlot(a) ==
  \E s \in Slot, v \in SlotContent : Write([Top EXCEPT !.storage[a][s] = v])

ClearStorage(a) == Write([Top EXCEPT !.storage[a] = NoStorage])

DeleteAccount(a) ==
  Write([Top EXCEPT !.accounts[a] = Absent, !.storage[a] = NoStorage])

Checkpoint ==
  /\ stack' = Append(stack, Top)
  /\ UNCHANGED baseline

Commit ==
  /\ Len(stack) > 1
  /\ stack' = Append(SubSeq(stack, 1, Len(stack) - 2), Top)
  /\ UNCHANGED baseline

Revert ==
  /\ Len(stack) > 1
  /\ stack' = SubSeq(stack, 1, Len(stack) - 1)
  /\ UNCHANGED baseline

(* Only the committed state is ever taken as the new baseline. *)
TakeChangeSet ==
  /\ Len(stack) = 1
  /\ baseline' = Top
  /\ UNCHANGED stack

Init ==
  /\ stack = <<EmptyState>>
  /\ baseline = EmptyState

Next ==
  \/ \E a \in Address :
       \/ WriteAccount(a)
       \/ WriteCode(a)
       \/ WriteCodeAndAccount(a)
       \/ WriteSlot(a)
       \/ ClearStorage(a)
       \/ DeleteAccount(a)
  \/ Checkpoint
  \/ Commit
  \/ Revert
  \/ TakeChangeSet

Spec == Init /\ [][Next]_vars
=============================================================================
