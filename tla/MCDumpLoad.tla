------------------------------ MODULE MCDumpLoad ------------------------------
(* What a dump carries and how its keys are written, checked together: the      *)
(* modules StorageKeys and DumpLoad share no state, so a behaviour moves only    *)
(* one of them and leaves the other as it began.  The dump's part begins on     *)
(* any genesis, the keys' on an empty account.                               *)
EXTENDS DumpLoad, StorageKeys

BothInit == DumpInit /\ KeyInit

Untouched == saved = NoDump /\ Live = genesis

BothNext ==
  \/ genesis = EmptyState /\ Untouched /\ KeyNext /\ UNCHANGED <<vars, dumpVars>>
  \/ store = <<>> /\ DumpNext /\ UNCHANGED keyVars

BothSpec == BothInit /\ [][BothNext]_<<vars, dumpVars, keyVars>>
=============================================================================
