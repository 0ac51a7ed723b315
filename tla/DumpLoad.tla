------------------------------- MODULE DumpLoad -------------------------------
(***************************************************************************)
(* The flat state through a dump and a reload                               *)
(* (src/packages/webevm/src/node.ts: dumpState, loadState, the construction   *)
(* baselines): what the state manager of module OverlayState holds at its      *)
(* bottom is written out, and a node created later, on its own genesis, puts   *)
(* it back.  The undo log and the block index of a dump are in modules         *)
(* StateHistory and BlockIndex; when a save runs, and what a crash loses, in    *)
(* NodeService.                                                             *)
(*                                                                         *)
(* A dump and a load are one request each, with no checkpoint open; between    *)
(* requests the state changes by the writes a block or a cheat leaves.         *)
(*                                                                         *)
(* Definitions marked FAULTY are not part of the model: each is a plausible *)
(* mistake in the definition after it, kept to show that the properties     *)
(* notice the mistake.                                                      *)
(***************************************************************************)
EXTENDS OverlayState

CONSTANTS
  GenesisAddress,  \* those of Address the node may be created with state at
  NoDump           \* nothing was saved yet

VARIABLES
  genesis,  \* the state the construction baselines leave
  saved,    \* the last dump, or NoDump
  atDump    \* the state it was taken from

dumpVars == <<genesis, saved, atDump>>

Live == LevelState(1)

EmptySlots == [s \in Slot |-> Absent]

EmptyState ==
  [accounts |-> [a \in Address |-> Absent], code |-> [a \in Address |-> Absent],
   storage |-> [a \in Address |-> EmptySlots]]

(* The stacks of a state manager that holds this state and no more: an empty  *)
(* record, for the baselines and the load are in no change set.              *)
Holds(state) ==
  /\ accountStack' = <<state.accounts>>
  /\ codeStack' = <<state.code>>
  /\ storageOverlays' = <<[written |-> state.storage, cleared |-> {}]>>
  /\ changeLevels' = <<EmptyChangeSet>>
  /\ UNCHANGED changeSetsSuspended

-----------------------------------------------------------------------------
(* createNode: the pre-state it is given, address by address.                *)
GenesisAt ==
  [account : {Absent}, code : {Absent}, slots : {EmptySlots}]
  \cup [account : {[fields |-> f, codeHash |-> c] : f \in Fields, c \in Code},
        code : {Absent}, slots : [Slot -> SlotContent \cup {Absent}]]

(* FAULTY: the account names its code, and nothing is kept under it.         *)
WithoutCode(g) == g

(* putCode keeps the code under the address.                                 *)
WithCode(g) ==
  IF g.account # Absent /\ g.account.codeHash # EmptyCode
  THEN [g EXCEPT !.code = g.account.codeHash] ELSE g

GenesisStates ==
  {[accounts |-> [a \in Address |-> g[a].account],
    code     |-> [a \in Address |-> WithCode(g[a]).code],
    storage  |-> [a \in Address |-> g[a].slots]] :
     g \in {f \in [Address -> GenesisAt] :
              \A a \in Address \ GenesisAddress : f[a].account = Absent}}

-----------------------------------------------------------------------------
(* dumpState: the accounts that are there, every entry of the code map, and   *)
(* every live slot, zero ones as well.                                       *)
Dumped == Live

(* FAULTY: the code creates an account of its own.                           *)
LoadedAccountAlwaysNew(base, dump, a) ==
  IF dump.code[a] # Absent THEN [NewAccount EXCEPT !.codeHash = dump.code[a]]
  ELSE IF dump.accounts[a] # Absent THEN dump.accounts[a] ELSE base.accounts[a]

(* loadState puts every account of the dump, then every code: putCode gives    *)
(* the account that hash, and makes one where there is none.                 *)
LoadedAccount(base, dump, a) ==
  LET put == IF dump.accounts[a] # Absent THEN dump.accounts[a] ELSE base.accounts[a]
      found == IF put = Absent THEN NewAccount ELSE put
  IN  IF dump.code[a] = Absent THEN put ELSE [found EXCEPT !.codeHash = dump.code[a]]

(* What the dump leaves on what the node held: nothing is ever removed.       *)
Loaded(base, dump) ==
  [accounts |-> [a \in Address |-> LoadedAccount(base, dump, a)],
   code     |-> [a \in Address |-> IF dump.code[a] = Absent THEN base.code[a]
                                   ELSE dump.code[a]],
   storage  |-> [a \in Address |-> [s \in Slot |->
                   IF dump.storage[a][s] = Absent THEN base.storage[a][s]
                   ELSE dump.storage[a][s]]]]

-----------------------------------------------------------------------------
(* What requests do to the state between dumps: a cheat; a transaction's       *)
(* payments; a contract created, also where one was before; a destruction.     *)
Write(a) ==
  /\ \/ \E f \in Fields : ModifyAccountFields(a, f)
     \/ \E c \in Code : PutCode(a, c)
     \/ \E s \in Slot, v \in SlotContent : SetStorageAt(a, s, v)
     \/ DeleteAccount(a)
  /\ UNCHANGED dumpVars

DumpState ==
  /\ saved' = Dumped
  /\ atDump' = Live
  /\ UNCHANGED <<vars, genesis>>

(* A page reload: a new node on the same genesis, with the dump.              *)
Reload ==
  /\ saved # NoDump
  /\ Holds(Loaded(genesis, saved))
  /\ UNCHANGED dumpVars

DumpInit ==
  /\ genesis \in GenesisStates
  /\ accountStack = <<genesis.accounts>>
  /\ codeStack = <<genesis.code>>
  /\ storageOverlays = <<[written |-> genesis.storage, cleared |-> {}]>>
  /\ changeLevels = <<EmptyChangeSet>>
  /\ changeSetsSuspended = 0
  /\ saved = NoDump
  /\ atDump = EmptyState

DumpNext == (\E a \in Address : Write(a)) \/ DumpState \/ Reload

DumpSpec == DumpInit /\ [][DumpNext]_<<vars, dumpVars>>

-----------------------------------------------------------------------------
State ==
  [accounts : AccountMap, code : CodeMap,
   storage : [Address -> [Slot -> SlotContent \cup {Absent}]]]

(* Types; a genesis account has the code it names.                           *)
DumpTypeOK ==
  /\ TypeOK
  /\ \A a \in Address :
       genesis.accounts[a] # Absent /\ genesis.accounts[a].codeHash # EmptyCode =>
         genesis.code[a] = genesis.accounts[a].codeHash
  /\ {genesis, atDump} \subseteq State
  /\ saved # NoDump => saved \in State

At(state, a) == <<state.accounts[a], state.code[a], state.storage[a]>>

(* The code kept at an address is the one its account names.                 *)
OwnsItsCode(state, a) ==
  state.code[a] # Absent =>
    state.accounts[a] # Absent /\ state.accounts[a].codeHash = state.code[a]

(* Nothing the genesis has at an address is missing from the state.          *)
CoversGenesis(state, a) ==
  /\ state.accounts[a] = Absent => genesis.accounts[a] = Absent
  /\ \A s \in Slot : state.storage[a][s] = Absent => genesis.storage[a][s] = Absent

(* A reload gives back an address exactly: its account, its code, and every    *)
(* slot, one written to zero over a genesis value included -- wherever the     *)
(* address owns its code and nothing of its genesis was removed.               *)
ReloadKeepsAddress ==
  /\ []DumpTypeOK
  /\ [][Reload => \A a \in Address :
          OwnsItsCode(atDump, a) /\ CoversGenesis(atDump, a) =>
            At(Live', a) = At(atDump, a)]_<<vars, dumpVars>>

(* The state root stands for the accounts that are there and their non-zero    *)
(* slots (module DerivedTrie).                                              *)
Root(state) ==
  [a \in Address |->
     IF state.accounts[a] = Absent THEN <<>>
     ELSE <<state.accounts[a],
            [s \in Slot |-> IF state.storage[a][s] = EmptyValue THEN Absent
                            ELSE state.storage[a][s]]>>]

(* "`loadState` rebuilds it, so a reloaded chain reports the same roots."     *)
ReloadKeepsRoot ==
  [][Reload => Root(Live') = Root(atDump)]_<<vars, dumpVars>>
=============================================================================
