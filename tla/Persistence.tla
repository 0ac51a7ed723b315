----------------------------- MODULE Persistence -----------------------------
(***************************************************************************)
(* A node and the adapter that keeps its state                               *)
(* (src/packages/webevm/src/persistence.ts, and node.ts where it loads and   *)
(* saves): IndexedDB with its connection, its transactions and the ways they   *)
(* end, through reloads of the page, nodes made one after another on one        *)
(* adapter, and chains that share a record.                                   *)
(*                                                                         *)
(* NodeService has every save land or fail; here is what decides.  A dump is   *)
(* known by its chain and the requests whose blocks it holds.  One node lives   *)
(* at a time: who makes another on the same record is to have the first one    *)
(* quiet (node.ts, above `dispose`).                                        *)
(*                                                                         *)
(* Definitions marked FAULTY are not part of the model: each is a plausible *)
(* mistake in the definition after it, kept to show that the properties     *)
(* notice the mistake.                                                      *)
(***************************************************************************)
EXTENDS Integers, Sequences, SequencesExt

CONSTANTS
  Request,        \* the calls clients make, each once
  Mining,         \* those that mine and save before they reply
  ChainId,        \* the chains nodes are made for
  Adapter,        \* a subset of {"indexeddb", "memory"}: which adapters to try
  MaxLives,       \* bound on the nodes made
  Idle,           \* no job runs
  None            \* no record, no transaction, no answer

(* What a save writes: the chain, and the requests whose blocks it holds.    *)
Dumps == [chainId : ChainId, blocks : Seq(Mining)]

ASSUME PersistenceAssumption ==
  /\ Mining \subseteq Request
  /\ Adapter \subseteq {"indexeddb", "memory"}
  /\ MaxLives \in Nat
  /\ Idle \notin Request
  /\ None \notin Dumps

VARIABLES
  adapter,  \* which adapter is used
  record,   \* the one record: a dump, or None
  conn,     \* dbPromise: "unopened", "opening", "open", "rejected", or the
            \* browser has "closed" the database it holds
  tx,       \* the dump a transaction is putting, or None
  node,     \* "none", "loading", "up", "failed"
  chainId,  \* of the node
  blocks,   \* what it has mined
  queue,    \* requests on its promise chain, not yet started
  job,      \* the request that runs, or Idle
  step,     \* where it is
  answers,  \* request -> how it ended for its caller, or None
  lives,    \* nodes made so far
  owed      \* history variable: requests told done whose blocks the record owes

database == <<record, conn, tx>>
life     == <<adapter, node, chainId, lives>>
work     == <<queue, job, step, answers>>
vars     == <<database, life, blocks, work, owed>>

Dump == [chainId |-> chainId, blocks |-> blocks]

-----------------------------------------------------------------------------
(* The database. *)

(* getDb: the first call opens the database, every other one gets the same    *)
(* promise.                                                                 *)
GetDb ==
  IF adapter = "indexeddb" /\ conn = "unopened" THEN "opening" ELSE conn

Opens ==
  /\ conn = "opening"
  /\ conn' \in {"open", "rejected"}
  /\ UNCHANGED <<record, tx, life, blocks, work, owed>>

(* The browser may close it: storage is cleared, the disk fails.             *)
Closes ==
  /\ conn = "open"
  /\ adapter = "indexeddb"
  /\ conn' = "closed"
  /\ UNCHANGED <<record, tx, life, blocks, work, owed>>

(* FAULTY: save resolves when the put is made, not when it is durable.        *)
RepliesAfterPut == "end"

(* save's promise is settled by its transaction.                            *)
AfterPut == "saving"

(* FAULTY: the transaction's error goes nowhere.                             *)
ErrorUnheard == "saving"

(* `tx.onerror`.                                                            *)
AfterError == "saveFailed"

(* A save of one chain ends what the record owed another.                    *)
OwedBy(dump) == {r \in owed : r \in ToSet(dump.blocks)}

(* `tx.oncomplete`.                                                         *)
Completes ==
  /\ tx # None
  /\ conn = "open"
  /\ record' = tx
  /\ owed' = IF record # None /\ record.chainId = tx.chainId THEN owed ELSE OwedBy(tx)
  /\ tx' = None
  /\ step' = IF step = "saving" THEN "end" ELSE step
  /\ UNCHANGED <<conn, life, blocks, queue, job, answers>>

(* A request of it fails, or it is aborted while one is unanswered.           *)
Fails ==
  /\ tx # None
  /\ tx' = None
  /\ step' = IF step = "saving" THEN AfterError ELSE step
  /\ UNCHANGED <<record, conn, life, blocks, queue, job, answers, owed>>

(* It aborts when every request has been answered (a full disk): only `abort`  *)
(* is fired, for which save does not listen: its promise is never settled.   *)
Aborts ==
  /\ tx # None
  /\ tx' = None
  /\ step' = IF step = "saving" THEN "unheard" ELSE step
  /\ UNCHANGED <<record, conn, life, blocks, queue, job, answers, owed>>

-----------------------------------------------------------------------------
(* Creation and its end. *)

(* createNode, on the adapter that an earlier node used, whose promise stays    *)
(* what it is, or on another one for the same record.                        *)
Create(c, fresh) ==
  /\ node \in {"none", "failed"}
  /\ lives < MaxLives
  /\ fresh => adapter = "indexeddb"
  /\ lives' = lives + 1
  /\ node' = "loading"
  /\ chainId' = c
  /\ blocks' = <<>>
  /\ conn' = IF fresh THEN "opening" ELSE GetDb
  /\ UNCHANGED <<adapter, record, tx, work, owed>>

(* FAULTY: a dump that says another chain is loaded, one of this chain not.    *)
LoadedOfOthers ==
  IF record # None /\ record.chainId # chainId THEN record.blocks ELSE <<>>

(* What a new node has: the record, when it is of its chain.                  *)
Loaded ==
  IF record # None /\ record.chainId = chainId THEN record.blocks ELSE <<>>

(* load: its transaction waits for the one that writes.                      *)
Load ==
  /\ node = "loading"
  /\ adapter = "indexeddb" => conn = "open" /\ tx = None
  /\ node' = "up"
  /\ blocks' = Loaded
  /\ UNCHANGED <<database, adapter, chainId, lives, work, owed>>

(* The database does not open, has been closed, or cannot be read: createNode *)
(* rejects.                                                                 *)
LoadFails ==
  /\ node = "loading"
  /\ adapter = "indexeddb"
  /\ conn \in {"open", "rejected", "closed"}
  /\ node' = "failed"
  /\ UNCHANGED <<database, adapter, chainId, lives, blocks, work, owed>>

(* The node is disposed of when all its calls have been answered.            *)
Dispose ==
  /\ node = "up"
  /\ job = Idle
  /\ queue = <<>>
  /\ node' = "none"
  /\ UNCHANGED <<database, adapter, chainId, lives, blocks, work, owed>>

(* The page is reloaded, or dies: its JavaScript is gone.  A transaction under *)
(* way ends as the browser pleases; what was in memory is lost.              *)
Crash ==
  /\ node # "none"
  /\ node' = "none"
  /\ conn' = "unopened"
  /\ tx' = None
  /\ blocks' = <<>>
  /\ queue' = <<>>
  /\ job' = Idle
  /\ step' = "none"
  /\ \/ /\ adapter = "indexeddb"
        /\ UNCHANGED <<record, owed>>
     \/ /\ tx # None
        /\ record' = tx
        /\ owed' = IF record # None /\ record.chainId = tx.chainId THEN owed ELSE OwedBy(tx)
     \/ /\ adapter = "memory"
        /\ record' = None
        /\ owed' = {}
  /\ UNCHANGED <<adapter, chainId, lives, answers>>

-----------------------------------------------------------------------------
(* Requests. *)

Submit(r) ==
  /\ node = "up"
  /\ answers[r] = None
  /\ r # job
  /\ r \notin ToSet(queue)
  /\ \A i \in 1..Len(blocks) : blocks[i] # r
  /\ queue' = Append(queue, r)
  /\ UNCHANGED <<database, life, blocks, job, step, answers, owed>>

Start ==
  /\ job = Idle
  /\ queue # <<>>
  /\ job' = Head(queue)
  /\ queue' = Tail(queue)
  /\ step' = "execute"
  /\ UNCHANGED <<database, life, blocks, answers, owed>>

(* A mining request mines its block and goes on to persistIfNeeded; or it is   *)
(* refused, like any other, and there is nothing to save.                    *)
Execute ==
  /\ step = "execute"
  /\ \/ /\ job \in Mining
        /\ blocks' = Append(blocks, job)
        /\ step' = "save"
     \/ /\ job \notin Mining
        /\ step' = "end"
        /\ UNCHANGED blocks
     \/ /\ step' = "refused"
        /\ UNCHANGED blocks
  /\ UNCHANGED <<database, life, queue, job, answers, owed>>

(* persistIfNeeded with the IndexedDB adapter: `db.transaction` throws when the *)
(* database has been closed.                                                *)
Save ==
  /\ step = "save"
  /\ adapter = "indexeddb"
  /\ IF conn = "open"
       THEN /\ tx' = Dump
            /\ step' = AfterPut
       ELSE /\ step' = "saveFailed"
            /\ UNCHANGED tx
  /\ UNCHANGED <<record, conn, life, blocks, queue, job, answers, owed>>

(* With the memory adapter.                                                 *)
SaveInMemory ==
  /\ step = "save"
  /\ adapter = "memory"
  /\ record' = Dump
  /\ owed' = IF record # None /\ record.chainId = chainId THEN owed ELSE OwedBy(Dump)
  /\ step' = "end"
  /\ UNCHANGED <<conn, tx, life, blocks, queue, job, answers>>

(* The caller is answered and the promise chain moves on, whatever the answer. *)
End ==
  /\ step \in {"end", "refused", "saveFailed"}
  /\ answers' = [answers EXCEPT ![job] = IF step = "end" THEN "done" ELSE "rejected"]
  /\ owed' = IF step = "end" /\ job \in Mining THEN owed \cup {job} ELSE owed
  /\ job' = Idle
  /\ step' = "none"
  /\ UNCHANGED <<database, life, blocks, queue>>

-----------------------------------------------------------------------------
Init ==
  /\ adapter \in Adapter
  /\ record = None
  /\ conn = "unopened"
  /\ tx = None
  /\ node = "none"
  /\ chainId \in ChainId
  /\ blocks = <<>>
  /\ queue = <<>>
  /\ job = Idle
  /\ step = "none"
  /\ answers = [r \in Request |-> None]
  /\ lives = 0
  /\ owed = {}

Environment ==
  \/ Closes
  \/ Crash
  \/ Dispose
  \/ \E c \in ChainId, fresh \in BOOLEAN : Create(c, fresh)
  \/ \E r \in Request : Submit(r)
  \/ Aborts

Settling ==
  \/ Opens
  \/ Completes
  \/ Fails
  \/ Load
  \/ LoadFails
  \/ Start
  \/ Execute
  \/ Save
  \/ SaveInMemory
  \/ End

Next == Environment \/ Settling

(* IndexedDB answers what it was asked, and the event loop runs every job.    *)
Fairness ==
  /\ WF_vars(Opens)
  /\ WF_vars(Completes \/ Fails)
  /\ WF_vars(Load \/ LoadFails)
  /\ WF_vars(Start \/ Execute \/ Save \/ SaveInMemory \/ End)

Spec == Init /\ [][Next]_vars /\ Fairness

-----------------------------------------------------------------------------
(* The kinds of the variables, and that only a job that saves has a           *)
(* transaction under way.                                                   *)
TypeOK ==
  /\ adapter \in Adapter
  /\ record # None => record \in Dumps
  /\ tx # None => tx = Dump /\ job \in Mining /\ step = "saving"
  /\ conn \in {"unopened", "opening", "open", "rejected", "closed"}
  /\ node \in {"none", "loading", "up", "failed"}
  /\ Dump \in Dumps
  /\ job \in Request \cup {Idle}
  /\ job = Idle <=> step = "none"
  /\ step \in {"none", "execute", "save", "saving", "unheard", "end", "refused", "saveFailed"}
  /\ owed \subseteq Mining

(* A caller told that its transaction is mined finds it after a crash, as long *)
(* as no other chain takes the record: "a request does not resolve before its  *)
(* state is durable".                                                       *)
RepliedSurvives ==
  \A r \in owed : record # None /\ r \in ToSet(record.blocks)

(* A node never stands behind its record, whose blocks are a beginning of its  *)
(* own: what it saves next takes nothing away.                               *)
NeverBehindRecord ==
  /\ TypeOK
  /\ node = "up" /\ record # None /\ record.chainId = chainId
       => IsPrefix(record.blocks, blocks)

(* "a failing request cannot poison the chain and cannot stop the queue behind *)
(* it": whatever a node accepts it answers, through saves that fail and          *)
(* databases that close, unless its page dies or a save goes unheard.           *)
QueuedIsServed ==
  \A r \in Request :
    r \in ToSet(queue) ~> (answers[r] # None \/ node = "none" \/ step = "unheard")
=============================================================================
