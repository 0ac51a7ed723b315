------------------------------ MODULE WorkerNode ------------------------------
(***************************************************************************)
(* A node in a Worker (src/packages/webevm/src/worker-host.ts,               *)
(* worker-client.ts, worker-rpc-error.ts): its creation, the calls that      *)
(* cross to it, newHeads callbacks crossing back, a port served to a third     *)
(* party, and the end of it.                                                *)
(*                                                                         *)
(* Everything crosses on message ports, in order on each and in no order      *)
(* between two: one for the calls, one for every callback that crosses as a   *)
(* comlink proxy (its unsubscribe function travels the other way on it), one   *)
(* for the handle of the served port and the served port itself.  What a       *)
(* request does in the node is module NodeService's; here it ends, with an     *)
(* answer or an error, and may mine one block.                              *)
(*                                                                         *)
(* Definitions marked FAULTY are not part of the model: each is a plausible *)
(* mistake in the definition after it, kept to show that the properties     *)
(* notice the mistake.                                                      *)
(***************************************************************************)
EXTENDS Integers, Sequences, FiniteSets

CONSTANTS
  Subscription,  \* calls of the client's onNewHead, each once
  Request,       \* calls of request, each once
  Served,        \* those made on the served port
  MaxHeads,      \* bound on the blocks mined
  None           \* no answer, no head yet

ASSUME WorkerAssumption == Served \subseteq Request /\ MaxHeads \in Nat

Calls == "calls"   \* the ports
Handle == "handle"
Shared == "shared"

CallbackPort(s) == <<"callback", s>>

Port == {<<Calls>>, <<Handle>>, <<Shared>>} \cup {CallbackPort(s) : s \in Subscription}

PortOf(r) == IF r \in Served THEN <<Shared>> ELSE <<Calls>>

VARIABLES
  supplier,    \* what the worker's module was given as createEngine
  host,        \* the worker: "loading", "listening", "terminated", ("threw")
  client,      \* the client: "creating", "open", "failed", "disposing", "disposed"
  toWorker,    \* port -> messages under way to the worker
  toMain,      \* port -> messages under way from it
  queue,       \* requests the node accepted and has not finished
  headSubs,    \* subscriptions the node calls
  from,        \* history variable: subscription -> the head when the node took it
  until,       \* history variable: subscription -> the head when it let it go
  heads,       \* blocks mined
  serving,     \* the served port: "no", "open", "closed"
  subscribed,  \* subscription -> "new", "asked", "on", "off"
  heard,       \* subscription -> the heads its callback was called with
  raised,      \* history variable: request -> how it ended in the node
  answers      \* request -> how it ended for its caller

ports == <<toWorker, toMain>>
subs  == <<headSubs, from, until>>
node  == <<queue, subs, heads, serving, raised>>
vars  == <<supplier, host, client, ports, node, subscribed, heard, answers>>

Post(channel, p, message) == [channel EXCEPT ![p] = Append(@, message)]

-----------------------------------------------------------------------------
(* Errors. *)

(* What a node, an engine or a library throws: an RpcError of this package,    *)
(* one of another copy of it, a DOMException (which has a numeric code too),    *)
(* any other Error.                                                         *)
RpcErr    == [class |-> "RpcError", name |-> "RpcError", coded |-> TRUE, marked |-> FALSE]
OtherCopy == [class |-> "Error", name |-> "RpcError", coded |-> TRUE, marked |-> FALSE]
DomErr    == [class |-> "Error", name |-> "DOMException", coded |-> TRUE, marked |-> FALSE]
PlainErr  == [class |-> "Error", name |-> "Error", coded |-> FALSE, marked |-> FALSE]
Wire      == [class |-> "plain", name |-> "RpcError", coded |-> TRUE, marked |-> TRUE]
Success   == [class |-> "value", name |-> "", coded |-> FALSE, marked |-> FALSE]

Errors == {RpcErr, OtherCopy, DomErr, PlainErr}

ASSUME NoneAssumption == None \notin Errors \cup {Success} \cup Nat

(* FAULTY: by class alone.                                                  *)
IsRpcErrorByClass(e) == e.class = "RpcError"

IsRpcError(e) ==
  e.class = "RpcError" \/ (e.class = "Error" /\ e.name = "RpcError" /\ e.coded)

ToWire(e) == IF IsRpcError(e) THEN Wire ELSE e

(* comlink keeps the message of an Error and drops its fields; it clones what  *)
(* is not an Error.                                                         *)
Cloned(e) ==
  IF e.class \in {"RpcError", "Error"}
  THEN [class |-> "Error", name |-> e.name, coded |-> FALSE, marked |-> FALSE]
  ELSE e

FromWire(e) == IF e.marked /\ e.coded THEN RpcErr ELSE e

-----------------------------------------------------------------------------
(* Creation. *)

Suppliers == {"none", "factory", "promise", "engine"}

(* engineSupplierRefusal.                                                   *)
Refused == supplier \in {"promise", "engine"}

(* FAULTY: the refusal is thrown while the module evaluates.                 *)
HostAfterThrow == IF Refused THEN "threw" ELSE "listening"

(* The module evaluates: the refusal is a value, and expose() is reached.     *)
HostAfterLoad == "listening"

Evaluate ==
  /\ host = "loading"
  /\ host' = HostAfterLoad
  /\ UNCHANGED <<supplier, client, ports, node, subscribed, heard, answers>>

Sent(p) == Head(toWorker[p])

Taken(p) == [toWorker EXCEPT ![p] = Tail(@)]

(* A message of this kind is next on the port, and the worker hears it.       *)
Hears(p, kind) ==
  /\ host = "listening"
  /\ toWorker[p] # <<>>
  /\ Sent(p)[1] = kind
  /\ toWorker' = Taken(p)

(* createNode on the host: the refusal rejects it, and a factory or a          *)
(* createNode that rejects does too.                                         *)
CreateNode ==
  /\ Hears(<<Calls>>, "create")
  /\ \E outcome \in {"created", "rejected"} :
       /\ Refused => outcome = "rejected"
       /\ toMain' = Post(toMain, <<Calls>>, <<outcome>>)
  /\ UNCHANGED <<supplier, host, client, node, subscribed, heard, answers>>

-----------------------------------------------------------------------------
(* The client. *)

Subscribe(s) ==
  /\ client = "open"
  /\ subscribed[s] = "new"
  /\ subscribed' = [subscribed EXCEPT ![s] = "asked"]
  /\ toWorker' = Post(toWorker, <<Calls>>, <<"subscribe", s>>)
  /\ UNCHANGED <<supplier, host, client, toMain, node, heard, answers>>

(* FAULTY: the unsubscribe function came back as a clone of one.              *)
ReleasedClone(s) == toWorker

(* It came back as a proxy: calling it crosses.                              *)
Released(s) == Post(toWorker, CallbackPort(s), <<"unsubscribe", s>>)

(* The function onNewHead returned calls the host's unsubscribe, here once.     *)
(* Before that has arrived the function does nothing: no step.                *)
Unsubscribe(s) ==
  /\ client = "open"
  /\ subscribed[s] = "on"
  /\ subscribed' = [subscribed EXCEPT ![s] = "off"]
  /\ toWorker' = Released(s)
  /\ UNCHANGED <<supplier, host, client, toMain, node, heard, answers>>

(* A request of the client, or one on the other end of the served port.        *)
Asked(r) ==
  \/ answers[r] # None
  \/ raised[r] # None
  \/ \E i \in 1..Len(queue) : queue[i] = r
  \/ \E p \in Port : \E i \in 1..Len(toWorker[p]) : toWorker[p][i] = <<"request", r>>

Ask(r) ==
  /\ client = "open"
  /\ ~ Asked(r)
  /\ toWorker' = Post(toWorker, PortOf(r), <<"request", r>>)
  /\ UNCHANGED <<supplier, host, client, toMain, node, subscribed, heard, answers>>

(* serveOn, and close() of the handle.                                       *)
ServeOn ==
  /\ client = "open"
  /\ serving = "no"
  /\ toWorker[<<Handle>>] = <<>>
  /\ toWorker' = Post(toWorker, <<Handle>>, <<"serve">>)
  /\ UNCHANGED <<supplier, host, client, toMain, node, subscribed, heard, answers>>

CloseServed ==
  /\ client = "open"
  /\ serving = "open"
  /\ toWorker[<<Handle>>] = <<>>
  /\ toWorker' = Post(toWorker, <<Handle>>, <<"close">>)
  /\ UNCHANGED <<supplier, host, client, toMain, node, subscribed, heard, answers>>

Dispose ==
  /\ client = "open"
  /\ client' = "disposing"
  /\ toWorker' = Post(toWorker, <<Calls>>, <<"dispose">>)
  /\ UNCHANGED <<supplier, host, toMain, node, subscribed, heard, answers>>

-----------------------------------------------------------------------------
(* The worker. *)

AddSub ==
  LET s == Sent(<<Calls>>)[2]
  IN  /\ Hears(<<Calls>>, "subscribe")
      /\ headSubs' = headSubs \cup {s}
      /\ from' = [from EXCEPT ![s] = heads]
      /\ toMain' = Post(toMain, <<Calls>>, <<"subscribed", s>>)
      /\ UNCHANGED <<supplier, host, client, queue, until, heads, serving, raised,
                     subscribed, heard, answers>>

(* The node calls these no more.                                             *)
LetGo(gone) ==
  /\ headSubs' = headSubs \ gone
  /\ until' = [s \in Subscription |-> IF s \in headSubs \cap gone THEN heads ELSE until[s]]
  /\ UNCHANGED from

DropSub(s) ==
  /\ Hears(CallbackPort(s), "unsubscribe")
  /\ LetGo({s})
  /\ UNCHANGED <<supplier, host, client, toMain, queue, heads, serving, raised,
                 subscribed, heard, answers>>

(* A request queues on the promise chain, wherever it came from.              *)
AcceptCall ==
  /\ Hears(<<Calls>>, "request")
  /\ queue' = Append(queue, Sent(<<Calls>>)[2])
  /\ UNCHANGED <<supplier, host, client, toMain, subs, heads, serving, raised,
                 subscribed, heard, answers>>

(* A port holds its messages until it is served, and drops them afterwards.    *)
AcceptServed ==
  /\ serving # "no"
  /\ Hears(<<Shared>>, "request")
  /\ queue' = IF serving = "open" THEN Append(queue, Sent(<<Shared>>)[2]) ELSE queue
  /\ UNCHANGED <<supplier, host, client, toMain, subs, heads, serving, raised,
                 subscribed, heard, answers>>

Serve ==
  /\ Hears(<<Handle>>, "serve")
  /\ serving' = IF serving = "no" THEN "open" ELSE serving
  /\ UNCHANGED <<supplier, host, client, toMain, queue, subs, heads, raised,
                 subscribed, heard, answers>>

(* FAULTY: what came in on the port goes with it.                            *)
QueueWithoutServed == SelectSeq(queue, LAMBDA r : r \notin Served)

(* The promise chain when a port is closed: as it was.                       *)
QueueAfterClose == queue

StopServing ==
  /\ Hears(<<Handle>>, "close")
  /\ serving' = "closed"
  /\ queue' = QueueAfterClose
  /\ UNCHANGED <<supplier, host, client, toMain, subs, heads, raised, subscribed,
                 heard, answers>>

(* FAULTY: a subscriber that has not heard the last head yet is passed over.  *)
TellsIdle(channel, n) ==
  [p \in Port |-> IF channel[p] = <<>> /\ \E s \in headSubs : p = CallbackPort(s)
                  THEN Append(channel[p], <<"head", n>>) ELSE channel[p]]

(* `for (const cb of headSubs) cb(...)`.                                     *)
Tells(channel, n) ==
  [p \in Port |-> IF \E s \in headSubs : p = CallbackPort(s)
                  THEN Append(channel[p], <<"head", n>>) ELSE channel[p]]

(* How a request ends crosses as the host proxy sends it; over a served port    *)
(* the library keeps every error's code itself.                              *)
Crosses(r, how) ==
  IF r \in Served THEN how ELSE Cloned(ToWire(how))

Finish(r, how, mined) ==
  LET told == IF mined THEN Tells(toMain, heads + 1) ELSE toMain
  IN  /\ raised' = [raised EXCEPT ![r] = how]
      /\ heads' = IF mined THEN heads + 1 ELSE heads
      /\ toMain' = Post(told, PortOf(r), <<"answer", r, Crosses(r, how)>>)

(* The job at the head of the chain ends.                                    *)
RunJob ==
  /\ host = "listening"
  /\ queue # <<>>
  /\ queue' = Tail(queue)
  /\ \/ heads < MaxHeads /\ Finish(queue[1], Success, TRUE)
     \/ Finish(queue[1], Success, FALSE)
     \/ \E e \in Errors : Finish(queue[1], e, FALSE)
  /\ UNCHANGED <<supplier, host, client, toWorker, subs, serving, subscribed, heard,
                 answers>>

(* The node's dispose: no subscribers, no served ports; not the queue.        *)
DisposeNode ==
  /\ Hears(<<Calls>>, "dispose")
  /\ LetGo(headSubs)
  /\ serving' = IF serving = "open" THEN "closed" ELSE serving
  /\ toMain' = Post(toMain, <<Calls>>, <<"disposed">>)
  /\ UNCHANGED <<supplier, host, client, queue, heads, raised, subscribed, heard, answers>>

-----------------------------------------------------------------------------
(* What comes back. *)

Arrives(p, kind) ==
  /\ toMain[p] # <<>>
  /\ Head(toMain[p])[1] = kind
  /\ toMain' = [toMain EXCEPT ![p] = Tail(@)]

Created ==
  /\ client = "creating"
  /\ \/ Arrives(<<Calls>>, "created") /\ client' = "open"
     \/ Arrives(<<Calls>>, "rejected") /\ client' = "failed"
  /\ UNCHANGED <<supplier, host, toWorker, node, subscribed, heard, answers>>

(* `unsub = u`.                                                             *)
Subscribed ==
  LET s == Head(toMain[<<Calls>>])[2]
  IN  /\ Arrives(<<Calls>>, "subscribed")
      /\ subscribed[s] = "asked"
      /\ subscribed' = [subscribed EXCEPT ![s] = "on"]
      /\ UNCHANGED <<supplier, host, client, toWorker, node, heard, answers>>

Received(r, how) == IF r \in Served THEN how ELSE FromWire(how)

Answered(p) ==
  LET r == Head(toMain[p])[2]
  IN  /\ Arrives(p, "answer")
      /\ answers' = [answers EXCEPT ![r] = Received(r, Head(toMain[p])[3])]
      /\ UNCHANGED <<supplier, host, client, toWorker, node, subscribed, heard>>

(* The callback is called with every head that crosses.                      *)
HearHead(s) ==
  /\ Arrives(CallbackPort(s), "head")
  /\ heard' = [heard EXCEPT ![s] = Append(@, Head(toMain[CallbackPort(s)])[2])]
  /\ UNCHANGED <<supplier, host, client, toWorker, node, subscribed, answers>>

(* dispose() resolved: worker.terminate().                                   *)
Terminate ==
  /\ client = "disposing"
  /\ Arrives(<<Calls>>, "disposed")
  /\ client' = "disposed"
  /\ host' = "terminated"
  /\ UNCHANGED <<supplier, toWorker, node, subscribed, heard, answers>>

-----------------------------------------------------------------------------
Init ==
  /\ supplier \in Suppliers
  /\ host = "loading"
  /\ client = "creating"
  /\ toWorker = [p \in Port |-> IF p = <<Calls>> THEN <<<<"create">>>> ELSE <<>>]
  /\ toMain = [p \in Port |-> <<>>]
  /\ queue = <<>>
  /\ headSubs = {}
  /\ from = [s \in Subscription |-> None]
  /\ until = [s \in Subscription |-> None]
  /\ heads = 0
  /\ serving = "no"
  /\ subscribed = [s \in Subscription |-> "new"]
  /\ heard = [s \in Subscription |-> <<>>]
  /\ raised = [r \in Request |-> None]
  /\ answers = [r \in Request |-> None]

ClientStep ==
  \/ \E s \in Subscription : Subscribe(s) \/ Unsubscribe(s)
  \/ \E r \in Request : Ask(r)
  \/ ServeOn
  \/ CloseServed
  \/ Dispose

HostStep ==
  \/ Evaluate
  \/ CreateNode
  \/ AddSub
  \/ AcceptCall
  \/ DisposeNode

HandleStep == Serve \/ StopServing

CallsArrive == Created \/ Subscribed \/ Answered(<<Calls>>) \/ Terminate

Next ==
  \/ ClientStep
  \/ HostStep
  \/ HandleStep
  \/ AcceptServed
  \/ RunJob
  \/ CallsArrive
  \/ Answered(<<Shared>>)
  \/ \E s \in Subscription : DropSub(s) \/ HearHead(s)

(* Both event loops run: every port is read, and every job ends.             *)
Fairness ==
  /\ WF_vars(HostStep)
  /\ WF_vars(HandleStep)
  /\ WF_vars(AcceptServed)
  /\ WF_vars(RunJob)
  /\ WF_vars(CallsArrive)
  /\ WF_vars(Answered(<<Shared>>))
  /\ \A s \in Subscription : WF_vars(DropSub(s)) /\ WF_vars(HearHead(s))

Spec == Init /\ [][Next]_vars /\ Fairness

-----------------------------------------------------------------------------
(* The kinds of the variables.                                               *)
TypeOK ==
  /\ host \in {"loading", "listening", "terminated"}
  /\ client \in {"creating", "open", "failed", "disposing", "disposed"}
  /\ queue \in Seq(Request)
  /\ headSubs \subseteq Subscription
  /\ heads \in 0..MaxHeads
  /\ \A r \in Request : raised[r] \in Errors \cup {Success} \/ raised[r] = None

(* An error reaches its caller as what it was: an RpcError, of whichever copy  *)
(* of the package, keeps its code and becomes one of the caller's; nothing      *)
(* else turns into one.  A served port hands on the node's own.               *)
ErrorsArriveWhole ==
  \A r \in Request \ Served :
    answers[r] # None =>
      IF raised[r] \in {RpcErr, OtherCopy} THEN answers[r] = RpcErr
      ELSE answers[r].class = raised[r].class /\ ~ answers[r].coded

(* A subscriber is told every head mined from the moment the node took it to    *)
(* the moment the node let it go, each once and in order, and no other; the     *)
(* node has taken one whose subscription is confirmed, and keeps it until the   *)
(* client unsubscribes it or disposes of the node; and what the client calls    *)
(* to unsubscribe reaches the node: it took it, or it is on its way (onNewHead, *)
(* nodeProxy).                                                              *)
Told(s) ==
  heard[s] \o [i \in 1..Len(toMain[CallbackPort(s)]) |-> toMain[CallbackPort(s)][i][2]]

MinedMeanwhile(s) ==
  IF from[s] = None THEN 0 ELSE (IF until[s] = None THEN heads ELSE until[s]) - from[s]

LeavesSoon(s) ==
  \E i \in 1..Len(toWorker[CallbackPort(s)]) :
    toWorker[CallbackPort(s)][i] = <<"unsubscribe", s>>

HeadsAllHeard ==
  /\ TypeOK
  /\ \A s \in Subscription :
       /\ Told(s) = [i \in 1..MinedMeanwhile(s) |-> from[s] + i]
       /\ client = "open" /\ subscribed[s] = "on" => from[s] # None /\ until[s] = None
       /\ subscribed[s] = "off" => until[s] # None \/ LeavesSoon(s)

(* createWorkerNode settles, with a node or with the refusal, whatever the      *)
(* worker's module was given as createEngine.                                *)
CreationSettles == (client = "creating") ~> (client # "creating")

(* A request the worker heard is answered, also after its served port was      *)
(* closed under it -- unless the node is disposed of.                        *)
AcceptedSettles ==
  \A r \in Request :
    (\E i \in 1..Len(queue) : queue[i] = r) ~>
      (answers[r] # None \/ client \in {"disposing", "disposed"})
=============================================================================
