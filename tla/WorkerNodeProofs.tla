--------------------------- MODULE WorkerNodeProofs ---------------------------
(***************************************************************************)
(* Proofs about module WorkerNode: errors cross whole, and a subscriber      *)
(* hears every head, for any subscriptions and requests.                     *)
(***************************************************************************)
EXTENDS WorkerNode, SequenceTheorems, TLAPS

-----------------------------------------------------------------------------
(* The inductive invariant. *)

HeadMessage == {"head"} \X Nat

(* What is on the ports.                                                    *)
ToWorkerMessage ==
  {<<"create">>, <<"dispose">>, <<"serve">>, <<"close">>}
  \cup {<<"subscribe", s>> : s \in Subscription}
  \cup {<<"unsubscribe", s>> : s \in Subscription}
  \cup {<<"request", r>> : r \in Request}

Outcome == Errors \cup {Success}

Crossed == {RpcErr, OtherCopy, DomErr, PlainErr, Wire, Success} \cup {Cloned(e) : e \in Errors}

ToMainMessage ==
  {<<"created">>, <<"rejected">>, <<"disposed">>}
  \cup {<<"subscribed", s>> : s \in Subscription}
  \cup HeadMessage
  \cup {<<"answer", r, how>> : r \in Request, how \in Crossed}

Callbacks == {CallbackPort(s) : s \in Subscription}

(* A callback has a port of its own, and only heads come back on it.         *)
Types ==
  /\ TypeOK
  /\ toWorker \in [Port -> Seq(ToWorkerMessage)]
  /\ toMain \in [Port -> Seq(ToMainMessage)]
  /\ \A s \in Subscription : toMain[CallbackPort(s)] \in Seq(HeadMessage)
  /\ subscribed \in [Subscription -> {"new", "asked", "on", "off"}]
  /\ heard \in [Subscription -> Seq(Nat)]
  /\ from \in [Subscription -> Nat \cup {None}]
  /\ until \in [Subscription -> Nat \cup {None}]
  /\ raised \in [Request -> Outcome \cup {None}]
  /\ answers \in [Request -> Crossed \cup {None}]

In(m, s) == \E i \in 1..Len(s) : s[i] = m

Once(m, s) == \A i, j \in 1..Len(s) : s[i] = m /\ s[j] = m => i = j

(* A request is sent on one port, is on its way, then queued, then over, and   *)
(* each once.                                                               *)
RequestsOnce ==
  \A r \in Request :
    /\ \A p \in Port : In(<<"request", r>>, toWorker[p]) =>
         p = PortOf(r) /\ ~ In(r, queue) /\ raised[r] = None
    /\ Once(<<"request", r>>, toWorker[PortOf(r)])
    /\ In(r, queue) => raised[r] = None
    /\ Once(r, queue)

(* An answer says how its request ended, as it crosses.                      *)
AnswersTrue ==
  /\ \A p \in Port, r \in Request, how \in Crossed :
       In(<<"answer", r, how>>, toMain[p]) =>
         raised[r] # None /\ how = Crosses(r, raised[r])
  /\ \A r \in Request :
       answers[r] # None =>
         raised[r] # None /\ answers[r] = Received(r, Crosses(r, raised[r]))

Ended == {"disposing", "disposed"}

(* A client subscribes once, the node takes it once, and confirms it then.     *)
SubscribedOnce ==
  \A s \in Subscription :
    /\ Once(<<"subscribe", s>>, toWorker[<<Calls>>])
    /\ subscribed[s] = "new" => ~ In(<<"subscribe", s>>, toWorker[<<Calls>>])
    /\ subscribed[s] = "new" \/ In(<<"subscribe", s>>, toWorker[<<Calls>>]) => from[s] = None
    /\ subscribed[s] \in {"on", "off"} \/ In(<<"subscribed", s>>, toMain[<<Calls>>]) =>
         from[s] # None

(* The node lets go of a subscription only at the client's word.              *)
HeldWhileOn ==
  /\ In(<<"dispose">>, toWorker[<<Calls>>]) => client \in Ended
  /\ \A s \in Subscription :
       /\ \A t \in Subscription :
            In(<<"unsubscribe", t>>, toWorker[CallbackPort(s)]) => subscribed[s] = "off"
       /\ until[s] # None => subscribed[s] = "off" \/ client \in Ended

(* The heads told to a subscriber are those mined while the node held it.      *)
ToldFrom(told, first, n) == Len(told) = n /\ \A i \in 1..n : told[i] = first + i

HeadsExact ==
  \A s \in Subscription :
    /\ s \in headSubs <=> from[s] # None /\ until[s] = None
    /\ until[s] # None => from[s] # None
    /\ ToldFrom(Told(s), from[s], MinedMeanwhile(s))

WorkerInv ==
  Types /\ RequestsOnce /\ AnswersTrue /\ SubscribedOnce /\ HeldWhileOn /\ HeadsExact

-----------------------------------------------------------------------------
(* Channels. *)

LEMMA PortsApart ==
  /\ <<Calls>> \in Port /\ <<Handle>> \in Port /\ <<Shared>> \in Port
  /\ <<Calls>> # <<Shared>> /\ <<Calls>> # <<Handle>> /\ <<Shared>> # <<Handle>>
  /\ \A s \in Subscription :
       /\ CallbackPort(s) \in Port
       /\ CallbackPort(s) # <<Calls>>
       /\ CallbackPort(s) # <<Shared>>
       /\ CallbackPort(s) # <<Handle>>
  /\ \A s, t \in Subscription : CallbackPort(s) = CallbackPort(t) => s = t
  /\ \A r \in Request : PortOf(r) \in {<<Calls>>, <<Shared>>} /\ PortOf(r) \in Port
<1>1. \A s : CallbackPort(s) # <<Calls>> /\ CallbackPort(s) # <<Shared>>
             /\ CallbackPort(s) # <<Handle>>
  BY DEF CallbackPort, Calls, Shared, Handle
<1>2. QED
  BY <1>1 DEF Port, PortOf, CallbackPort, Calls, Shared, Handle

(* Taking the first of a sequence.                                          *)
LEMMA TailIn ==
  ASSUME NEW S, NEW s \in Seq(S), s # <<>>
  PROVE  /\ Tail(s) \in Seq(S) /\ Head(s) \in S
         /\ In(Head(s), s)
         /\ \A m : In(m, Tail(s)) => In(m, s)
         /\ \A m : Once(m, s) => Once(m, Tail(s))
         /\ \A m : Once(m, s) /\ m = Head(s) => ~ In(m, Tail(s))
<1>1. /\ Len(s) \in Nat \ {0} /\ Len(Tail(s)) = Len(s) - 1
      /\ \A i \in 1..Len(Tail(s)) : Tail(s)[i] = s[i + 1] /\ i + 1 \in 1..Len(s) /\ i + 1 # 1
      /\ Head(s) = s[1] /\ 1 \in 1..Len(s)
      /\ Tail(s) \in Seq(S)
  OBVIOUS
<1>2. Head(s) \in S
  BY <1>1
<1>3. ASSUME NEW m, In(m, Tail(s)) PROVE In(m, s)
  BY <1>1, <1>3 DEF In
<1>4. ASSUME NEW m, Once(m, s) PROVE Once(m, Tail(s))
  <2> SUFFICES ASSUME NEW i \in 1..Len(Tail(s)), NEW j \in 1..Len(Tail(s)),
                      Tail(s)[i] = m, Tail(s)[j] = m
               PROVE  i = j
    BY DEF Once
  <2>1. i + 1 = j + 1
    BY <1>1, <1>4 DEF Once
  <2>2. QED
    BY <2>1
<1>5. ASSUME NEW m, Once(m, s), m = Head(s), In(m, Tail(s)) PROVE FALSE
  <2>1. PICK i \in 1..Len(Tail(s)) : Tail(s)[i] = m
    BY <1>5 DEF In
  <2>2. QED
    BY <1>1, <1>5, <2>1 DEF Once
<1>6. In(Head(s), s)
  BY <1>1 DEF In
<1>7. QED
  BY <1>1, <1>2, <1>3, <1>4, <1>5, <1>6

(* Adding at the end of one.                                                *)
LEMMA AppendIn ==
  ASSUME NEW S, NEW s \in Seq(S), NEW e \in S
  PROVE  /\ Append(s, e) \in Seq(S)
         /\ \A m : In(m, Append(s, e)) <=> In(m, s) \/ m = e
         /\ \A m : Once(m, s) /\ (m = e => ~ In(m, s)) => Once(m, Append(s, e))
<1>1. /\ Len(s) \in Nat /\ Len(Append(s, e)) = Len(s) + 1
      /\ \A i \in 1..Len(s) : Append(s, e)[i] = s[i] /\ i \in 1..(Len(s) + 1)
      /\ Append(s, e)[Len(s) + 1] = e
      /\ Append(s, e) \in Seq(S)
      /\ \A i \in 1..(Len(s) + 1) : i \in 1..Len(s) \/ i = Len(s) + 1
  OBVIOUS
<1>2. ASSUME NEW m, In(m, Append(s, e)) PROVE In(m, s) \/ m = e
  BY <1>1, <1>2 DEF In
<1>3. ASSUME NEW m, In(m, s) \/ m = e PROVE In(m, Append(s, e))
  <2>1. Len(s) + 1 \in 1..(Len(s) + 1)
    BY <1>1
  <2>2. QED
    BY <1>1, <1>3, <2>1 DEF In
<1>4. ASSUME NEW m, Once(m, s), m = e => ~ In(m, s) PROVE Once(m, Append(s, e))
  BY <1>1, <1>4 DEF Once, In
<1>5. QED
  BY <1>1, <1>2, <1>3, <1>4

LEMMA NothingIn == \A m : ~ In(m, <<>>) /\ Once(m, <<>>)
  BY DEF In, Once

(* The worker takes a message off a port.                                   *)
LEMMA HearsFacts ==
  ASSUME Types, NEW p \in Port, NEW kind, Hears(p, kind)
  PROVE  /\ toWorker' \in [Port -> Seq(ToWorkerMessage)]
         /\ Sent(p) \in ToWorkerMessage /\ Sent(p)[1] = kind
         /\ In(Sent(p), toWorker[p])
         /\ \A q \in Port : \A m : In(m, toWorker'[q]) => In(m, toWorker[q])
         /\ \A q \in Port : \A m : Once(m, toWorker[q]) => Once(m, toWorker'[q])
         /\ \A m : Once(m, toWorker[p]) /\ m = Sent(p) => ~ In(m, toWorker'[p])
<1>1. /\ toWorker \in [Port -> Seq(ToWorkerMessage)] /\ toWorker[p] # <<>>
      /\ toWorker[p] \in Seq(ToWorkerMessage)
      /\ toWorker' = [toWorker EXCEPT ![p] = Tail(@)] /\ Sent(p) = Head(toWorker[p])
      /\ Sent(p)[1] = kind
  BY DEF Types, Hears, Taken, Sent
<1>2. /\ toWorker'[p] = Tail(toWorker[p])
      /\ \A q \in Port : q # p => toWorker'[q] = toWorker[q]
  BY <1>1
<1>3. /\ Tail(toWorker[p]) \in Seq(ToWorkerMessage) /\ Head(toWorker[p]) \in ToWorkerMessage
      /\ In(Head(toWorker[p]), toWorker[p])
      /\ \A m : In(m, Tail(toWorker[p])) => In(m, toWorker[p])
      /\ \A m : Once(m, toWorker[p]) => Once(m, Tail(toWorker[p]))
      /\ \A m : Once(m, toWorker[p]) /\ m = Head(toWorker[p]) => ~ In(m, Tail(toWorker[p]))
  BY <1>1, TailIn
<1>4. toWorker' \in [Port -> Seq(ToWorkerMessage)]
  BY <1>1, <1>3
<1>5. QED
  BY <1>1, <1>2, <1>3, <1>4

(* The client puts one on a port.                                           *)
LEMMA PostFacts ==
  ASSUME Types, NEW p \in Port, NEW m \in ToWorkerMessage,
         toWorker' = Post(toWorker, p, m)
  PROVE  /\ toWorker' \in [Port -> Seq(ToWorkerMessage)]
         /\ \A q \in Port : \A x : In(x, toWorker'[q]) <=> In(x, toWorker[q]) \/ (q = p /\ x = m)
         /\ \A q \in Port : \A x :
              Once(x, toWorker[q]) /\ (q = p /\ x = m => ~ In(x, toWorker[q])) =>
                Once(x, toWorker'[q])
<1>1. /\ toWorker \in [Port -> Seq(ToWorkerMessage)]
      /\ toWorker[p] \in Seq(ToWorkerMessage)
      /\ toWorker' = [toWorker EXCEPT ![p] = Append(@, m)]
  BY DEF Types, Post
<1>2. /\ toWorker'[p] = Append(toWorker[p], m)
      /\ \A q \in Port : q # p => toWorker'[q] = toWorker[q]
  BY <1>1
<1>3. /\ Append(toWorker[p], m) \in Seq(ToWorkerMessage)
      /\ \A x : In(x, Append(toWorker[p], m)) <=> In(x, toWorker[p]) \/ x = m
      /\ \A x : Once(x, toWorker[p]) /\ (x = m => ~ In(x, toWorker[p])) =>
                  Once(x, Append(toWorker[p], m))
  BY <1>1, AppendIn
<1>4. toWorker' \in [Port -> Seq(ToWorkerMessage)]
  BY <1>1, <1>3
<1>5. QED
  BY <1>1, <1>2, <1>3, <1>4
(* What a message is by its kind.                                           *)
LEMMA ToWorkerKinds ==
  ASSUME NEW m \in ToWorkerMessage
  PROVE  /\ m[1] = "subscribe" => m[2] \in Subscription /\ m = <<"subscribe", m[2]>>
         /\ m[1] = "unsubscribe" => m[2] \in Subscription /\ m = <<"unsubscribe", m[2]>>
         /\ m[1] = "dispose" => m = <<"dispose">>
         /\ m[1] = "request" => m[2] \in Request /\ m = <<"request", m[2]>>
<1>1. \/ m \in {<<"create">>, <<"dispose">>, <<"serve">>, <<"close">>}
      \/ \E s \in Subscription : m = <<"subscribe", s>>
      \/ \E s \in Subscription : m = <<"unsubscribe", s>>
      \/ \E r \in Request : m = <<"request", r>>
  BY DEF ToWorkerMessage
<1>2. CASE m \in {<<"create">>, <<"dispose">>, <<"serve">>, <<"close">>}
  BY <1>2
<1>3. CASE \E s \in Subscription : m = <<"subscribe", s>>
  BY <1>3
<1>4. CASE \E s \in Subscription : m = <<"unsubscribe", s>>
  BY <1>4
<1>5. CASE \E r \in Request : m = <<"request", r>>
  BY <1>5
<1>6. QED
  BY <1>1, <1>2, <1>3, <1>4, <1>5

LEMMA ToMainKinds ==
  ASSUME NEW m \in ToMainMessage
  PROVE  /\ m[1] = "answer" => m[2] \in Request /\ m[3] \in Crossed /\ m = <<"answer", m[2], m[3]>>
         /\ m[1] = "subscribed" => m[2] \in Subscription /\ m = <<"subscribed", m[2]>>
<1>1. \/ m \in {<<"created">>, <<"rejected">>, <<"disposed">>}
      \/ \E s \in Subscription : m = <<"subscribed", s>>
      \/ m \in HeadMessage
      \/ \E r \in Request, how \in Crossed : m = <<"answer", r, how>>
  BY DEF ToMainMessage, HeadMessage
<1>2. CASE m \in {<<"created">>, <<"rejected">>, <<"disposed">>}
  BY <1>2
<1>3. CASE \E s \in Subscription : m = <<"subscribed", s>>
  BY <1>3
<1>4. CASE m \in HeadMessage
  BY <1>4 DEF HeadMessage
<1>5. CASE \E r \in Request, how \in Crossed : m = <<"answer", r, how>>
  BY <1>5
<1>6. QED
  BY <1>1, <1>2, <1>3, <1>4, <1>5

-----------------------------------------------------------------------------
(* What a subscriber was told, on its way or heard. *)

ToldOf(h, c) == h \o [i \in 1..Len(c) |-> c[i][2]]

LEMMA ToldElements ==
  ASSUME NEW h \in Seq(Nat), NEW c \in Seq(HeadMessage)
  PROVE  /\ ToldOf(h, c) \in Seq(Nat)
         /\ Len(ToldOf(h, c)) = Len(h) + Len(c)
         /\ \A i \in 1..(Len(h) + Len(c)) :
              ToldOf(h, c)[i] = IF i <= Len(h) THEN h[i] ELSE c[i - Len(h)][2]
<1> DEFINE d == [i \in 1..Len(c) |-> c[i][2]]
<1>1. \A i \in 1..Len(c) : c[i] \in HeadMessage /\ c[i][2] \in Nat
  BY DEF HeadMessage
<1>2. d \in Seq(Nat)
  BY <1>1
<1>7. Len(d) = Len(c) /\ \A i \in 1..Len(c) : d[i] = c[i][2]
  BY <1>1
<1> HIDE DEF d
<1>3. /\ h \o d \in Seq(Nat) /\ Len(h \o d) = Len(h) + Len(d)
      /\ \A i \in 1..(Len(h) + Len(d)) :
           (h \o d)[i] = IF i <= Len(h) THEN h[i] ELSE d[i - Len(h)]
  BY <1>2, ConcatProperties
<1>4. ToldOf(h, c) = h \o d
  BY DEF ToldOf, d
<1>5. ASSUME NEW i \in 1..(Len(h) + Len(c)), ~ (i <= Len(h))
      PROVE  i - Len(h) \in 1..Len(c)
  BY <1>5
<1>6. QED
  BY <1>2, <1>3, <1>4, <1>5, <1>7

(* Calling the callback takes a head from one place to the other.            *)
LEMMA ToldHeard ==
  ASSUME NEW h \in Seq(Nat), NEW c \in Seq(HeadMessage), c # <<>>
  PROVE  /\ Tail(c) \in Seq(HeadMessage) /\ Append(h, Head(c)[2]) \in Seq(Nat)
         /\ ToldOf(Append(h, Head(c)[2]), Tail(c)) = ToldOf(h, c)
<1>1. /\ Len(c) \in Nat \ {0} /\ Tail(c) \in Seq(HeadMessage) /\ Len(Tail(c)) = Len(c) - 1
      /\ Head(c) = c[1] /\ c[1] \in HeadMessage
      /\ \A i \in 1..(Len(c) - 1) : Tail(c)[i] = c[i + 1]
  OBVIOUS
<1>2. c[1][2] \in Nat
  BY <1>1 DEF HeadMessage
<1> DEFINE g == Append(h, c[1][2])
<1>3. /\ g \in Seq(Nat) /\ Len(g) = Len(h) + 1 /\ Len(h) \in Nat
      /\ \A i \in 1..Len(h) : g[i] = h[i]
      /\ g[Len(h) + 1] = c[1][2]
  BY <1>2
<1> HIDE DEF g
<1> DEFINE u == ToldOf(g, Tail(c))
           v == ToldOf(h, c)
<1>4. /\ u \in Seq(Nat) /\ Len(u) = Len(h) + Len(c)
      /\ \A i \in 1..(Len(h) + Len(c)) :
           u[i] = IF i <= Len(h) + 1 THEN g[i] ELSE Tail(c)[i - (Len(h) + 1)][2]
  <2>1. /\ u \in Seq(Nat) /\ Len(u) = Len(g) + Len(Tail(c))
        /\ \A i \in 1..(Len(g) + Len(Tail(c))) :
             u[i] = IF i <= Len(g) THEN g[i] ELSE Tail(c)[i - Len(g)][2]
    BY <1>1, <1>3, ToldElements
  <2>2. Len(g) + Len(Tail(c)) = Len(h) + Len(c)
    BY <1>1, <1>3
  <2>3. QED
    BY <1>3, <2>1, <2>2
<1>5. /\ v \in Seq(Nat) /\ Len(v) = Len(h) + Len(c)
      /\ \A i \in 1..(Len(h) + Len(c)) :
           v[i] = IF i <= Len(h) THEN h[i] ELSE c[i - Len(h)][2]
  BY ToldElements
<1> HIDE DEF u, v
<1>6. ASSUME NEW i \in 1..(Len(h) + Len(c)) PROVE u[i] = v[i]
  <2>0. /\ u[i] = IF i <= Len(h) + 1 THEN g[i] ELSE Tail(c)[i - (Len(h) + 1)][2]
        /\ v[i] = IF i <= Len(h) THEN h[i] ELSE c[i - Len(h)][2]
    BY <1>4, <1>5
  <2>1. CASE i <= Len(h)
    <3>1. i \in 1..Len(h) /\ i <= Len(h) + 1
      BY <1>1, <1>3, <2>1
    <3>2. g[i] = h[i]
      BY <1>3, <3>1
    <3>3. QED
      BY <2>0, <2>1, <3>1, <3>2
  <2>2. CASE i = Len(h) + 1
    <3>1. i - Len(h) = 1 /\ ~ (i <= Len(h)) /\ i <= Len(h) + 1
      BY <1>3, <2>2
    <3>2. g[i] = c[1][2]
      BY <1>3, <2>2
    <3>3. QED
      BY <2>0, <3>1, <3>2
  <2>3. CASE i > Len(h) + 1
    <3>1. /\ i - (Len(h) + 1) \in 1..(Len(c) - 1)
          /\ (i - (Len(h) + 1)) + 1 = i - Len(h)
          /\ ~ (i <= Len(h)) /\ ~ (i <= Len(h) + 1)
      BY <1>1, <1>3, <2>3
    <3>2. Tail(c)[i - (Len(h) + 1)] = c[i - Len(h)]
      BY <1>1, <3>1
    <3>3. QED
      BY <2>0, <3>1, <3>2
  <2>4. QED
    BY <1>1, <1>3, <2>1, <2>2, <2>3
<1>7. u = v
  BY <1>4, <1>5, <1>6
<1>8. QED
  BY <1>1, <1>3, <1>7 DEF u, v, g

(* Telling the next head.                                                   *)
LEMMA ToldNext ==
  ASSUME NEW h \in Seq(Nat), NEW c \in Seq(HeadMessage), NEW first \in Nat, NEW n \in Nat,
         ToldFrom(ToldOf(h, c), first, n)
  PROVE  ToldFrom(ToldOf(h, Append(c, <<"head", first + n + 1>>)), first, n + 1)
<1> DEFINE m == <<"head", first + n + 1>>
           d == Append(c, m)
           t == ToldOf(h, d)
           v == ToldOf(h, c)
<1>1. m \in HeadMessage /\ m[2] = first + (n + 1)
  BY DEF HeadMessage
<1> HIDE DEF m
<1>2. /\ d \in Seq(HeadMessage) /\ Len(d) = Len(c) + 1 /\ Len(c) \in Nat /\ Len(h) \in Nat
      /\ \A i \in 1..Len(c) : d[i] = c[i]
      /\ d[Len(c) + 1] = m
  BY <1>1
<1> HIDE DEF d
<1>3. /\ Len(t) = Len(h) + Len(d)
      /\ \A i \in 1..(Len(h) + Len(d)) :
           t[i] = IF i <= Len(h) THEN h[i] ELSE d[i - Len(h)][2]
  BY <1>2, ToldElements
<1>4. /\ Len(v) = Len(h) + Len(c)
      /\ \A i \in 1..(Len(h) + Len(c)) :
           v[i] = IF i <= Len(h) THEN h[i] ELSE c[i - Len(h)][2]
  BY ToldElements
<1>5. Len(v) = n /\ \A i \in 1..n : v[i] = first + i
  BY DEF ToldFrom
<1> HIDE DEF t, v
<1>6. n = Len(h) + Len(c) /\ Len(t) = n + 1
  <2>1. Len(v) = n /\ Len(v) = Len(h) + Len(c) /\ Len(t) = Len(h) + Len(d)
    BY <1>3, <1>4, <1>5
  <2>2. QED
    BY <1>2, <2>1
<1>7. ASSUME NEW i \in 1..(n + 1) PROVE t[i] = first + i
  <2>1. t[i] = IF i <= Len(h) THEN h[i] ELSE d[i - Len(h)][2]
    BY <1>2, <1>3, <1>6
  <2>2. CASE i = n + 1
    <3>1. ~ (i <= Len(h)) /\ i - Len(h) = Len(c) + 1
      BY <1>2, <1>6, <2>2
    <3>2. QED
      BY <1>1, <1>2, <2>1, <2>2, <3>1
  <2>3. CASE i \in 1..n
    <3>1. v[i] = IF i <= Len(h) THEN h[i] ELSE c[i - Len(h)][2]
      BY <1>4, <1>6, <2>3
    <3>2. CASE i <= Len(h)
      BY <1>5, <2>1, <2>3, <3>1, <3>2
    <3>3. CASE ~ (i <= Len(h))
      <4>1. i - Len(h) \in 1..Len(c)
        BY <1>2, <1>6, <2>3, <3>3
      <4>2. d[i - Len(h)] = c[i - Len(h)]
        BY <1>2, <4>1
      <4>3. QED
        BY <1>5, <2>1, <2>3, <3>1, <3>3, <4>2
    <3>4. QED
      BY <3>2, <3>3
  <2>4. QED
    BY <2>2, <2>3
<1>8. QED
  BY <1>6, <1>7 DEF ToldFrom, t, d, m

-----------------------------------------------------------------------------
(* What a step leaves alone. *)

LEMMA TypeFacts ==
  ASSUME Types
  PROVE  /\ queue \in Seq(Request) /\ heads \in Nat /\ headSubs \subseteq Subscription
         /\ \A p \in Port : toWorker[p] \in Seq(ToWorkerMessage) /\ toMain[p] \in Seq(ToMainMessage)
         /\ \A s \in Subscription : heard[s] \in Seq(Nat) /\ toMain[CallbackPort(s)] \in Seq(HeadMessage)
         /\ \A s \in Subscription : from[s] \in Nat \cup {None} /\ until[s] \in Nat \cup {None}
BY PortsApart, WorkerAssumption DEF Types, TypeOK

(* The heads told are the same if those heard and under way are.             *)
LEMMA HeadsKept ==
  ASSUME HeadsExact, headSubs' = headSubs, from' = from, until' = until, heads' = heads,
         \A s \in Subscription : Told(s)' = Told(s)
  PROVE  HeadsExact'
BY DEF HeadsExact, ToldFrom, MinedMeanwhile

LEMMA ToldKept ==
  ASSUME heard' = heard,
         \A s \in Subscription : toMain'[CallbackPort(s)] = toMain[CallbackPort(s)]
  PROVE  \A s \in Subscription : Told(s)' = Told(s)
BY DEF Told

(* A client goes on from "new" to "asked", to "on" with its confirmation, to    *)
(* "off"; an end is for good.                                               *)
LEMMA SubscriptionsKept ==
  ASSUME SubscribedOnce, HeldWhileOn, from' = from, until' = until,
         \A s \in Subscription :
           /\ subscribed'[s] = "new" => subscribed[s] = "new"
           /\ subscribed'[s] \in {"on", "off"} =>
                subscribed[s] \in {"on", "off"} \/ from[s] # None
           /\ subscribed[s] = "off" => subscribed'[s] = "off",
         client \in Ended => client' \in Ended,
         \A m : Once(m, toWorker[<<Calls>>]) => Once(m, toWorker'[<<Calls>>]),
         \A p \in Port : \A m : In(m, toWorker'[p]) => In(m, toWorker[p]),
         \A s \in Subscription :
           In(<<"subscribed", s>>, toMain'[<<Calls>>]) => In(<<"subscribed", s>>, toMain[<<Calls>>])
  PROVE  SubscribedOnce' /\ HeldWhileOn'
<1>1. SubscribedOnce'
  BY PortsApart DEF SubscribedOnce
<1>2. HeldWhileOn'
  BY PortsApart DEF HeldWhileOn
<1>3. QED
  BY <1>1, <1>2

LEMMA RequestsKept ==
  ASSUME RequestsOnce, queue' = queue, raised' = raised,
         \A p \in Port : \A m : Once(m, toWorker[p]) => Once(m, toWorker'[p]),
         \A p \in Port : \A m : In(m, toWorker'[p]) => In(m, toWorker[p])
  PROVE  RequestsOnce'
<1> SUFFICES ASSUME NEW r \in Request
             PROVE  /\ \A p \in Port : In(<<"request", r>>, toWorker'[p]) =>
                         p = PortOf(r) /\ ~ In(r, queue) /\ raised[r] = None
                    /\ Once(<<"request", r>>, toWorker'[PortOf(r)])
                    /\ In(r, queue) => raised[r] = None
                    /\ Once(r, queue)
  BY DEF RequestsOnce
<1>1. QED
  BY PortsApart DEF RequestsOnce

LEMMA AnswersKept ==
  ASSUME AnswersTrue, raised' = raised, answers' = answers,
         \A p \in Port, r \in Request, how \in Crossed :
           In(<<"answer", r, how>>, toMain'[p]) => In(<<"answer", r, how>>, toMain[p])
  PROVE  AnswersTrue'
BY DEF AnswersTrue

-----------------------------------------------------------------------------
(* The client's steps. *)

(* It puts a message on a port, unless it is one sent already.               *)
LEMMA SendKeeps ==
  ASSUME WorkerInv, NEW p \in Port, NEW m \in ToWorkerMessage,
         toWorker' = Post(toWorker, p, m),
         UNCHANGED <<host, toMain, node, heard, answers>>,
         client = "open", client' \in {"open", "disposing"},
         subscribed' \in [Subscription -> {"new", "asked", "on", "off"}],
         \A s \in Subscription :
           /\ subscribed'[s] = "new" => subscribed[s] = "new"
           /\ subscribed'[s] \in {"on", "off"} => subscribed[s] \in {"on", "off"}
           /\ subscribed[s] = "off" => subscribed'[s] = "off",
         m = <<"dispose">> => client' = "disposing",
         \A t \in Subscription : m = <<"unsubscribe", t>> =>
           p = CallbackPort(t) /\ subscribed'[t] = "off",
         \A r \in Request : m = <<"request", r>> =>
           /\ p = PortOf(r) /\ raised[r] = None /\ ~ In(r, queue)
           /\ \A q \in Port : ~ In(m, toWorker[q]),
         \A s \in Subscription : m = <<"subscribe", s>> =>
           subscribed[s] = "new" /\ subscribed'[s] # "new"
  PROVE  WorkerInv'
<1>1. /\ toWorker' \in [Port -> Seq(ToWorkerMessage)]
      /\ \A q \in Port : \A x : In(x, toWorker'[q]) <=> In(x, toWorker[q]) \/ (q = p /\ x = m)
      /\ \A q \in Port : \A x :
           Once(x, toWorker[q]) /\ (q = p /\ x = m => ~ In(x, toWorker[q])) =>
             Once(x, toWorker'[q])
  BY PostFacts DEF WorkerInv
<1>2. /\ queue' = queue /\ headSubs' = headSubs /\ heads' = heads /\ serving' = serving
      /\ from' = from /\ until' = until
      /\ raised' = raised /\ toMain' = toMain /\ heard' = heard /\ answers' = answers
      /\ host' = host
  BY DEF node, subs
<1>3. Types'
  BY <1>1, <1>2 DEF WorkerInv, Types, TypeOK
<1>4. RequestsOnce'
  <2> SUFFICES ASSUME NEW r \in Request
               PROVE  /\ \A q \in Port : In(<<"request", r>>, toWorker'[q]) =>
                           q = PortOf(r) /\ ~ In(r, queue) /\ raised[r] = None
                      /\ Once(<<"request", r>>, toWorker'[PortOf(r)])
                      /\ In(r, queue) => raised[r] = None
                      /\ Once(r, queue)
    BY <1>2 DEF RequestsOnce
  <2>1. /\ \A q \in Port : In(<<"request", r>>, toWorker[q]) =>
             q = PortOf(r) /\ ~ In(r, queue) /\ raised[r] = None
        /\ Once(<<"request", r>>, toWorker[PortOf(r)])
        /\ In(r, queue) => raised[r] = None
        /\ Once(r, queue)
        /\ PortOf(r) \in Port
    BY PortsApart DEF WorkerInv, RequestsOnce
  <2>2. QED
    BY <1>1, <2>1
<1>5. AnswersTrue'
  BY <1>2, AnswersKept DEF WorkerInv
<1>6. SubscribedOnce'
  <2> SUFFICES ASSUME NEW s \in Subscription
               PROVE  /\ Once(<<"subscribe", s>>, toWorker'[<<Calls>>])
                      /\ subscribed'[s] = "new" => ~ In(<<"subscribe", s>>, toWorker'[<<Calls>>])
                      /\ subscribed'[s] = "new" \/ In(<<"subscribe", s>>, toWorker'[<<Calls>>]) =>
                           from[s] = None
                      /\ subscribed'[s] \in {"on", "off"} \/ In(<<"subscribed", s>>, toMain[<<Calls>>])
                           => from[s] # None
    BY <1>2 DEF SubscribedOnce
  <2>1. /\ Once(<<"subscribe", s>>, toWorker[<<Calls>>])
        /\ subscribed[s] = "new" => ~ In(<<"subscribe", s>>, toWorker[<<Calls>>])
        /\ subscribed[s] = "new" \/ In(<<"subscribe", s>>, toWorker[<<Calls>>]) => from[s] = None
        /\ subscribed[s] \in {"on", "off"} \/ In(<<"subscribed", s>>, toMain[<<Calls>>]) =>
             from[s] # None
        /\ <<Calls>> \in Port
    BY PortsApart DEF WorkerInv, SubscribedOnce
  <2>2. QED
    BY <1>1, <2>1
<1>7. HeldWhileOn'
  <2>1. In(<<"dispose">>, toWorker'[<<Calls>>]) => client' \in Ended
    BY <1>1, PortsApart DEF WorkerInv, HeldWhileOn, Ended
  <2>2. ASSUME NEW s \in Subscription, NEW t \in Subscription,
               In(<<"unsubscribe", t>>, toWorker'[CallbackPort(s)])
        PROVE  subscribed'[s] = "off"
    <3>1. CASE In(<<"unsubscribe", t>>, toWorker[CallbackPort(s)])
      BY <3>1 DEF WorkerInv, HeldWhileOn
    <3>2. CASE m = <<"unsubscribe", t>> /\ p = CallbackPort(s)
      <4>1. CallbackPort(s) = CallbackPort(t) => s = t
        BY PortsApart
      <4>2. QED
        BY <3>2, <4>1
    <3>3. QED
      BY <1>1, <2>2, <3>1, <3>2, PortsApart
  <2>3. ASSUME NEW s \in Subscription, until'[s] # None PROVE subscribed'[s] = "off"
    BY <1>2, <2>3 DEF WorkerInv, HeldWhileOn, Ended
  <2>4. QED
    BY <2>1, <2>2, <2>3 DEF HeldWhileOn
<1>8. HeadsExact'
  BY <1>2, HeadsKept, ToldKept DEF WorkerInv
<1>9. QED
  BY <1>3, <1>4, <1>5, <1>6, <1>7, <1>8 DEF WorkerInv

LEMMA ClientStepInv == WorkerInv /\ ClientStep => WorkerInv'
<1> SUFFICES ASSUME WorkerInv, ClientStep PROVE WorkerInv'
  OBVIOUS
<1>0. /\ subscribed \in [Subscription -> {"new", "asked", "on", "off"}]
      /\ toWorker \in [Port -> Seq(ToWorkerMessage)]
  BY DEF WorkerInv, Types
<1>1. ASSUME NEW s \in Subscription, Subscribe(s) PROVE WorkerInv'
  <2> DEFINE m == <<"subscribe", s>>
  <2>1. /\ m \in ToWorkerMessage
        /\ \A r \in Request : m # <<"request", r>>
        /\ \A t \in Subscription : m = <<"subscribe", t>> => t = s
        /\ m # <<"dispose">> /\ \A t \in Subscription : m # <<"unsubscribe", t>>
    BY DEF ToWorkerMessage
  <2>2. /\ subscribed[s] = "new" /\ subscribed' = [subscribed EXCEPT ![s] = "asked"]
        /\ toWorker' = Post(toWorker, <<Calls>>, m)
        /\ client = "open" /\ client' = "open" /\ UNCHANGED <<host, toMain, node, heard, answers>>
    BY <1>1 DEF Subscribe
  <2> HIDE DEF m
  <2>3. /\ subscribed' \in [Subscription -> {"new", "asked", "on", "off"}]
        /\ \A t \in Subscription :
             /\ subscribed'[t] = "new" => subscribed[t] = "new"
             /\ subscribed'[t] \in {"on", "off"} => subscribed[t] \in {"on", "off"}
             /\ subscribed[t] = "off" => subscribed'[t] = "off"
        /\ subscribed'[s] # "new"
    BY <1>0, <2>2
  <2>4. QED
    BY <2>1, <2>2, <2>3, PortsApart, SendKeeps
<1>2. ASSUME NEW s \in Subscription, Unsubscribe(s) PROVE WorkerInv'
  <2> DEFINE m == <<"unsubscribe", s>>
  <2>1. /\ m \in ToWorkerMessage
        /\ \A r \in Request : m # <<"request", r>>
        /\ \A t \in Subscription : m # <<"subscribe", t>>
        /\ m # <<"dispose">> /\ \A t \in Subscription : m = <<"unsubscribe", t>> => t = s
    BY DEF ToWorkerMessage
  <2>2. /\ subscribed[s] = "on" /\ subscribed' = [subscribed EXCEPT ![s] = "off"]
        /\ toWorker' = Post(toWorker, CallbackPort(s), m)
        /\ client = "open" /\ client' = "open" /\ UNCHANGED <<host, toMain, node, heard, answers>>
    BY <1>2 DEF Unsubscribe, Released
  <2> HIDE DEF m
  <2>3. /\ subscribed' \in [Subscription -> {"new", "asked", "on", "off"}]
        /\ \A t \in Subscription :
             /\ subscribed'[t] = "new" => subscribed[t] = "new"
             /\ subscribed'[t] \in {"on", "off"} => subscribed[t] \in {"on", "off"}
             /\ subscribed[t] = "off" => subscribed'[t] = "off"
        /\ subscribed'[s] = "off"
    BY <1>0, <2>2
  <2>4. QED
    BY <2>1, <2>2, <2>3, PortsApart, SendKeeps
<1>3. ASSUME NEW r \in Request, Ask(r) PROVE WorkerInv'
  <2> DEFINE m == <<"request", r>>
  <2>1. /\ m \in ToWorkerMessage
        /\ \A t \in Subscription : m # <<"subscribe", t>>
        /\ \A q \in Request : m = <<"request", q>> => q = r
        /\ m # <<"dispose">> /\ \A t \in Subscription : m # <<"unsubscribe", t>>
    BY DEF ToWorkerMessage
  <2>2. /\ raised[r] = None /\ ~ In(r, queue) /\ \A q \in Port : ~ In(m, toWorker[q])
    BY <1>3 DEF Ask, Asked, In
  <2>3. /\ toWorker' = Post(toWorker, PortOf(r), m) /\ client = "open"
        /\ client' = "open" /\ UNCHANGED <<host, toMain, node, heard, answers, subscribed>>
    BY <1>3 DEF Ask
  <2> HIDE DEF m
  <2>4. QED
    BY <1>0, <2>1, <2>2, <2>3, PortsApart, SendKeeps
<1>4. ASSUME NEW m \in {<<"serve">>, <<"close">>, <<"dispose">>}, NEW p \in Port,
             toWorker' = Post(toWorker, p, m), client = "open",
             client' \in {"open", "disposing"}, m = <<"dispose">> => client' = "disposing",
             UNCHANGED <<host, toMain, node, heard, answers, subscribed>>
      PROVE  WorkerInv'
  <2>1. /\ m \in ToWorkerMessage
        /\ \A r \in Request : m # <<"request", r>>
        /\ \A s \in Subscription : m # <<"subscribe", s>> /\ m # <<"unsubscribe", s>>
    BY DEF ToWorkerMessage
  <2>2. QED
    BY <1>0, <1>4, <2>1, SendKeeps
<1>5. CASE ServeOn
  BY <1>4, <1>5, PortsApart DEF ServeOn
<1>6. CASE CloseServed
  BY <1>4, <1>6, PortsApart DEF CloseServed
<1>7. CASE Dispose
  BY <1>4, <1>7, PortsApart DEF Dispose
<1>8. QED
  BY <1>1, <1>2, <1>3, <1>5, <1>6, <1>7 DEF ClientStep

-----------------------------------------------------------------------------
(* The worker's steps. *)

(* What is posted to the main thread.                                       *)
LEMMA MainPosted ==
  ASSUME NEW c \in [Port -> Seq(ToMainMessage)], NEW p \in Port, NEW m \in ToMainMessage
  PROVE  /\ Post(c, p, m) \in [Port -> Seq(ToMainMessage)]
         /\ \A q \in Port : \A x : In(x, Post(c, p, m)[q]) => In(x, c[q]) \/ (q = p /\ x = m)
         /\ \A q \in Port : q # p => Post(c, p, m)[q] = c[q]
<1>1. c[p] \in Seq(ToMainMessage) /\ Post(c, p, m) = [c EXCEPT ![p] = Append(@, m)]
  BY DEF Post
<1>2. /\ Post(c, p, m)[p] = Append(c[p], m)
      /\ \A q \in Port : q # p => Post(c, p, m)[q] = c[q]
  BY <1>1
<1>3. /\ Append(c[p], m) \in Seq(ToMainMessage)
      /\ \A x : In(x, Append(c[p], m)) <=> In(x, c[p]) \/ x = m
  BY <1>1, AppendIn
<1>4. Post(c, p, m) \in [Port -> Seq(ToMainMessage)]
  BY <1>1, <1>3
<1>5. QED
  BY <1>2, <1>3, <1>4

(* The same for the port of calls.                                          *)
LEMMA CallsPostedOn ==
  ASSUME NEW c \in [Port -> Seq(ToMainMessage)], NEW m \in ToMainMessage
  PROVE  /\ Post(c, <<Calls>>, m) \in [Port -> Seq(ToMainMessage)]
         /\ \A q \in Port : \A x :
              In(x, Post(c, <<Calls>>, m)[q]) => In(x, c[q]) \/ (q = <<Calls>> /\ x = m)
         /\ \A q \in Port : q # <<Calls>> => Post(c, <<Calls>>, m)[q] = c[q]
         /\ \A x : In(x, Post(c, <<Calls>>, m)[<<Calls>>]) => In(x, c[<<Calls>>]) \/ x = m
<1> DEFINE p == <<Calls>>
<1>1. p \in Port
  BY PortsApart
<1> HIDE DEF p
<1>2. /\ Post(c, p, m) \in [Port -> Seq(ToMainMessage)]
      /\ \A q \in Port : \A x : In(x, Post(c, p, m)[q]) => In(x, c[q]) \/ (q = p /\ x = m)
      /\ \A q \in Port : q # p => Post(c, p, m)[q] = c[q]
  BY <1>1, MainPosted
<1>3. \A x : In(x, Post(c, p, m)[p]) => In(x, c[p]) \/ x = m
  BY <1>1, <1>2
<1>4. QED
  BY <1>2, <1>3 DEF p

(* A message that is not a request is taken, and one that is not an answer is  *)
(* posted on the port of calls, or none.                                    *)
LEMMA HearKeeps ==
  ASSUME WorkerInv, NEW p \in Port, NEW kind, Hears(p, kind),
         toMain' = toMain
         \/ \E m \in ToMainMessage : /\ toMain' = Post(toMain, <<Calls>>, m)
                                     /\ \A r, how : m # <<"answer", r, how>>,
         UNCHANGED <<host, client, queue, heads, raised, subscribed, heard, answers>>,
         headSubs' \subseteq Subscription,
         from' \in [Subscription -> Nat \cup {None}],
         until' \in [Subscription -> Nat \cup {None}]
  PROVE  Types' /\ RequestsOnce' /\ AnswersTrue'
<1>1. /\ toWorker' \in [Port -> Seq(ToWorkerMessage)]
      /\ \A q \in Port : \A m : In(m, toWorker'[q]) => In(m, toWorker[q])
      /\ \A q \in Port : \A m : Once(m, toWorker[q]) => Once(m, toWorker'[q])
  BY HearsFacts DEF WorkerInv
<1>2. /\ queue' = queue /\ heads' = heads /\ raised' = raised /\ heard' = heard
      /\ answers' = answers /\ host' = host /\ client' = client /\ subscribed' = subscribed
  OBVIOUS
<1>3. /\ toMain' \in [Port -> Seq(ToMainMessage)]
      /\ \A q \in Port : q # <<Calls>> => toMain'[q] = toMain[q]
      /\ \A q \in Port, r \in Request, how \in Crossed :
           In(<<"answer", r, how>>, toMain'[q]) => In(<<"answer", r, how>>, toMain[q])
  <2>0. toMain \in [Port -> Seq(ToMainMessage)] /\ <<Calls>> \in Port
    BY PortsApart DEF WorkerInv, Types
  <2>1. CASE toMain' = toMain
    BY <2>0, <2>1
  <2>2. ASSUME NEW m \in ToMainMessage, toMain' = Post(toMain, <<Calls>>, m),
               \A r, how : m # <<"answer", r, how>>
        PROVE  /\ toMain' \in [Port -> Seq(ToMainMessage)]
               /\ \A q \in Port : q # <<Calls>> => toMain'[q] = toMain[q]
               /\ \A q \in Port, r \in Request, how \in Crossed :
                    In(<<"answer", r, how>>, toMain'[q]) => In(<<"answer", r, how>>, toMain[q])
    <3>1. /\ Post(toMain, <<Calls>>, m) \in [Port -> Seq(ToMainMessage)]
          /\ \A q \in Port : \A x :
               In(x, Post(toMain, <<Calls>>, m)[q]) => In(x, toMain[q]) \/ (q = <<Calls>> /\ x = m)
          /\ \A q \in Port : q # <<Calls>> => Post(toMain, <<Calls>>, m)[q] = toMain[q]
      BY <2>0, CallsPostedOn
    <3>2. ASSUME NEW q \in Port, NEW r \in Request, NEW how \in Crossed,
                 In(<<"answer", r, how>>, toMain'[q])
          PROVE  In(<<"answer", r, how>>, toMain[q])
      <4>1. m # <<"answer", r, how>>
        BY <2>2
      <4>2. In(<<"answer", r, how>>, Post(toMain, <<Calls>>, m)[q])
        BY <2>2, <3>2
      <4>3. QED
        BY <3>1, <4>1, <4>2
    <3>3. /\ toMain' \in [Port -> Seq(ToMainMessage)]
          /\ \A q \in Port : q # <<Calls>> => toMain'[q] = toMain[q]
      BY <2>2, <3>1
    <3>4. QED
      BY <3>2, <3>3
  <2>3. QED
    BY <2>1, <2>2
<1>4. \A s \in Subscription : toMain'[CallbackPort(s)] = toMain[CallbackPort(s)]
  BY <1>3, PortsApart
<1>5. Types'
  BY <1>1, <1>2, <1>3, <1>4 DEF WorkerInv, Types, TypeOK
<1>6. RequestsOnce'
  BY <1>1, <1>2, RequestsKept DEF WorkerInv
<1>7. AnswersTrue'
  BY <1>2, <1>3, AnswersKept DEF WorkerInv
<1>8. QED
  BY <1>5, <1>6, <1>7

(* What is posted on the port of calls leaves the callbacks' ports alone.      *)
LEMMA CallsPosted ==
  ASSUME WorkerInv,
         toMain' = toMain
         \/ \E m \in ToMainMessage : /\ toMain' = Post(toMain, <<Calls>>, m)
                                     /\ \A s : m # <<"subscribed", s>>
  PROVE  /\ \A s \in Subscription : toMain'[CallbackPort(s)] = toMain[CallbackPort(s)]
         /\ \A s \in Subscription :
              In(<<"subscribed", s>>, toMain'[<<Calls>>]) => In(<<"subscribed", s>>, toMain[<<Calls>>])
<1>0. toMain \in [Port -> Seq(ToMainMessage)] /\ <<Calls>> \in Port
  BY PortsApart DEF WorkerInv, Types
<1>1. ASSUME NEW m \in ToMainMessage, toMain' = Post(toMain, <<Calls>>, m),
             \A s : m # <<"subscribed", s>>
      PROVE  /\ \A q \in Port : q # <<Calls>> => toMain'[q] = toMain[q]
             /\ \A s : In(<<"subscribed", s>>, toMain'[<<Calls>>]) =>
                       In(<<"subscribed", s>>, toMain[<<Calls>>])
  <2>1. /\ \A x : In(x, Post(toMain, <<Calls>>, m)[<<Calls>>]) => In(x, toMain[<<Calls>>]) \/ x = m
        /\ \A q \in Port : q # <<Calls>> => Post(toMain, <<Calls>>, m)[q] = toMain[q]
    BY <1>0, CallsPostedOn
  <2>2. QED
    BY <1>1, <2>1
<1>2. QED
  BY <1>1, PortsApart

(* One that changes no subscription.                                        *)
LEMMA HearOnly ==
  ASSUME WorkerInv, NEW p \in Port, NEW kind, Hears(p, kind),
         toMain' = toMain
         \/ \E m \in ToMainMessage : /\ toMain' = Post(toMain, <<Calls>>, m)
                                     /\ \A r, how : m # <<"answer", r, how>>
                                     /\ \A s : m # <<"subscribed", s>>,
         UNCHANGED <<host, client, queue, heads, raised, subscribed, heard, answers, subs>>
  PROVE  WorkerInv'
<1>1. headSubs' = headSubs /\ from' = from /\ until' = until
  BY DEF subs
<1>2. Types' /\ RequestsOnce' /\ AnswersTrue'
  <2>1. /\ headSubs \subseteq Subscription
        /\ from \in [Subscription -> Nat \cup {None}] /\ until \in [Subscription -> Nat \cup {None}]
    BY DEF WorkerInv, Types, TypeOK
  <2>2. QED
    BY <1>1, <2>1, HearKeeps
<1>3. /\ \A q \in Port : \A m : In(m, toWorker'[q]) => In(m, toWorker[q])
      /\ \A q \in Port : \A m : Once(m, toWorker[q]) => Once(m, toWorker'[q])
  BY HearsFacts DEF WorkerInv
<1>4. /\ \A s \in Subscription : toMain'[CallbackPort(s)] = toMain[CallbackPort(s)]
      /\ \A s \in Subscription :
           In(<<"subscribed", s>>, toMain'[<<Calls>>]) => In(<<"subscribed", s>>, toMain[<<Calls>>])
  BY CallsPosted
<1>5. SubscribedOnce' /\ HeldWhileOn'
  BY <1>1, <1>3, <1>4, PortsApart, SubscriptionsKept DEF WorkerInv
<1>6. HeadsExact'
  BY <1>1, <1>4, HeadsKept, ToldKept DEF WorkerInv
<1>7. QED
  BY <1>2, <1>5, <1>6 DEF WorkerInv

(* One on which the node lets subscriptions go, at the client's word.         *)
LEMMA LetGoKeeps ==
  ASSUME WorkerInv, NEW p \in Port, NEW kind, Hears(p, kind), NEW gone, LetGo(gone),
         toMain' = toMain
         \/ \E m \in ToMainMessage : /\ toMain' = Post(toMain, <<Calls>>, m)
                                     /\ \A r, how : m # <<"answer", r, how>>
                                     /\ \A s : m # <<"subscribed", s>>,
         UNCHANGED <<host, client, queue, heads, raised, subscribed, heard, answers>>,
         \A s \in Subscription : s \in gone => subscribed[s] = "off" \/ client \in Ended
  PROVE  WorkerInv'
<1>1. /\ headSubs' = headSubs \ gone /\ from' = from
      /\ until' = [s \in Subscription |-> IF s \in headSubs \cap gone THEN heads ELSE until[s]]
  BY DEF LetGo
<1>2. /\ headSubs \subseteq Subscription /\ heads \in Nat
      /\ from \in [Subscription -> Nat \cup {None}] /\ until \in [Subscription -> Nat \cup {None}]
  BY TypeFacts DEF WorkerInv, Types
<1>3. Types' /\ RequestsOnce' /\ AnswersTrue'
  <2>1. headSubs' \subseteq Subscription /\ until' \in [Subscription -> Nat \cup {None}]
    BY <1>1, <1>2
  <2>2. QED
    BY <1>1, <1>2, <2>1, HearKeeps
<1>4. /\ \A q \in Port : \A m : In(m, toWorker'[q]) => In(m, toWorker[q])
      /\ \A q \in Port : \A m : Once(m, toWorker[q]) => Once(m, toWorker'[q])
  BY HearsFacts DEF WorkerInv
<1>5. /\ \A s \in Subscription : toMain'[CallbackPort(s)] = toMain[CallbackPort(s)]
      /\ \A s \in Subscription :
           In(<<"subscribed", s>>, toMain'[<<Calls>>]) => In(<<"subscribed", s>>, toMain[<<Calls>>])
  BY CallsPosted
<1>6. \A s \in Subscription : s \notin headSubs \cap gone => until'[s] = until[s]
  BY <1>1
<1>7. \A s \in Subscription : s \in headSubs \cap gone => until'[s] = heads /\ heads # None
  BY <1>1, <1>2, NoneAssumption
<1>8. SubscribedOnce'
  BY <1>1, <1>4, <1>5, PortsApart DEF WorkerInv, SubscribedOnce
<1>9. HeldWhileOn'
  BY <1>4, <1>6, PortsApart DEF WorkerInv, HeldWhileOn
<1>10. HeadsExact'
  <2> SUFFICES ASSUME NEW s \in Subscription
               PROVE  /\ s \in headSubs' <=> from[s] # None /\ until'[s] = None
                      /\ until'[s] # None => from[s] # None
                      /\ ToldFrom(Told(s), from[s], MinedMeanwhile(s)')
    BY <1>1, <1>5, ToldKept DEF HeadsExact, ToldFrom
  <2>1. /\ s \in headSubs <=> from[s] # None /\ until[s] = None
        /\ until[s] # None => from[s] # None
        /\ ToldFrom(Told(s), from[s], MinedMeanwhile(s))
    BY DEF WorkerInv, HeadsExact
  <2>2. CASE s \in headSubs \cap gone
    <3>1. MinedMeanwhile(s)' = MinedMeanwhile(s)
      BY <1>1, <1>7, <2>1, <2>2 DEF MinedMeanwhile
    <3>2. QED
      BY <1>1, <1>7, <2>1, <2>2, <3>1
  <2>3. CASE s \notin headSubs \cap gone
    <3>1. until'[s] = until[s] /\ (s \in headSubs' <=> s \in headSubs)
      BY <1>1, <1>6, <2>3
    <3>2. MinedMeanwhile(s)' = MinedMeanwhile(s)
      BY <1>1, <3>1 DEF MinedMeanwhile
    <3>3. QED
      BY <2>1, <3>1, <3>2
  <2>4. QED
    BY <2>2, <2>3
<1>11. QED
  BY <1>3, <1>8, <1>9, <1>10 DEF WorkerInv

(* A request the node hears joins its queue, or is dropped.                  *)
LEMMA AcceptKeeps ==
  ASSUME WorkerInv, NEW p \in Port, Hears(p, "request"),
         queue' = queue \/ queue' = Append(queue, Sent(p)[2]),
         UNCHANGED <<host, client, toMain, subs, heads, raised, subscribed, heard, answers>>
  PROVE  WorkerInv'
<1> DEFINE q == Sent(p)[2]
<1>1. /\ toWorker' \in [Port -> Seq(ToWorkerMessage)]
      /\ Sent(p) \in ToWorkerMessage /\ Sent(p)[1] = "request"
      /\ In(Sent(p), toWorker[p])
      /\ \A d \in Port : \A m : In(m, toWorker'[d]) => In(m, toWorker[d])
      /\ \A d \in Port : \A m : Once(m, toWorker[d]) => Once(m, toWorker'[d])
      /\ \A m : Once(m, toWorker[p]) /\ m = Sent(p) => ~ In(m, toWorker'[p])
  BY HearsFacts DEF WorkerInv
<1>2. q \in Request /\ Sent(p) = <<"request", q>>
  BY <1>1, ToWorkerKinds
<1>3. /\ queue' = queue \/ queue' = Append(queue, q)
      /\ queue \in Seq(Request)
  BY TypeFacts DEF WorkerInv
<1> HIDE DEF q
<1>4. /\ p = PortOf(q) /\ ~ In(q, queue) /\ raised[q] = None
      /\ Once(<<"request", q>>, toWorker[PortOf(q)])
  BY <1>1, <1>2 DEF WorkerInv, RequestsOnce
<1>5. /\ heads' = heads /\ raised' = raised /\ heard' = heard /\ toMain' = toMain
      /\ answers' = answers /\ host' = host /\ client' = client /\ subscribed' = subscribed
      /\ headSubs' = headSubs /\ from' = from /\ until' = until
  BY DEF subs
<1>6. /\ queue' \in Seq(Request)
      /\ \A r \in Request : In(r, queue') => In(r, queue) \/ r = q
      /\ \A r \in Request : Once(r, queue) => Once(r, queue')
  <2>1. CASE queue' = queue
    BY <1>3, <2>1
  <2>2. CASE queue' = Append(queue, q)
    <3>1. /\ Append(queue, q) \in Seq(Request)
          /\ \A r : In(r, Append(queue, q)) <=> In(r, queue) \/ r = q
          /\ \A r : Once(r, queue) /\ (r = q => ~ In(r, queue)) => Once(r, Append(queue, q))
      BY <1>2, <1>3, AppendIn
    <3>2. QED
      BY <1>4, <2>2, <3>1
  <2>3. QED
    BY <1>3, <2>1, <2>2
<1>7. Types'
  BY <1>1, <1>5, <1>6 DEF WorkerInv, Types, TypeOK
<1>8. RequestsOnce'
  <2> SUFFICES ASSUME NEW r \in Request
               PROVE  /\ \A d \in Port : In(<<"request", r>>, toWorker'[d]) =>
                           d = PortOf(r) /\ ~ In(r, queue') /\ raised[r] = None
                      /\ Once(<<"request", r>>, toWorker'[PortOf(r)])
                      /\ In(r, queue') => raised[r] = None
                      /\ Once(r, queue')
    BY <1>5 DEF RequestsOnce
  <2>1. /\ \A d \in Port : In(<<"request", r>>, toWorker[d]) =>
             d = PortOf(r) /\ ~ In(r, queue) /\ raised[r] = None
        /\ Once(<<"request", r>>, toWorker[PortOf(r)])
        /\ In(r, queue) => raised[r] = None
        /\ Once(r, queue)
        /\ PortOf(r) \in Port
    BY PortsApart DEF WorkerInv, RequestsOnce
  <2>2. ASSUME NEW d \in Port, In(<<"request", r>>, toWorker'[d]) PROVE r # q
    BY <1>1, <1>2, <1>4, <2>1, <2>2
  <2>3. QED
    BY <1>1, <1>4, <1>6, <2>1, <2>2
<1>9. AnswersTrue'
  BY <1>5, AnswersKept DEF WorkerInv
<1>10. SubscribedOnce' /\ HeldWhileOn'
  BY <1>1, <1>5, PortsApart, SubscriptionsKept DEF WorkerInv
<1>11. HeadsExact'
  BY <1>5, HeadsKept, ToldKept DEF WorkerInv
<1>12. QED
  BY <1>7, <1>8, <1>9, <1>10, <1>11 DEF WorkerInv

LEMMA AddSubInv == WorkerInv /\ AddSub => WorkerInv'
<1> SUFFICES ASSUME WorkerInv, AddSub PROVE WorkerInv'
  OBVIOUS
<1> DEFINE s == Sent(<<Calls>>)[2]
           m == <<"subscribed", s>>
<1>1. /\ Hears(<<Calls>>, "subscribe") /\ headSubs' = headSubs \cup {s}
      /\ from' = [from EXCEPT ![s] = heads] /\ until' = until
      /\ toMain' = Post(toMain, <<Calls>>, m)
      /\ UNCHANGED <<host, client, queue, heads, raised, subscribed, heard, answers>>
  BY DEF AddSub
<1>2. /\ Sent(<<Calls>>) \in ToWorkerMessage /\ Sent(<<Calls>>)[1] = "subscribe"
      /\ In(Sent(<<Calls>>), toWorker[<<Calls>>])
      /\ \A p \in Port : \A x : In(x, toWorker'[p]) => In(x, toWorker[p])
      /\ \A x : Once(x, toWorker[<<Calls>>]) => Once(x, toWorker'[<<Calls>>])
      /\ \A x : Once(x, toWorker[<<Calls>>]) /\ x = Sent(<<Calls>>) => ~ In(x, toWorker'[<<Calls>>])
  BY <1>1, PortsApart, HearsFacts DEF WorkerInv
<1>3. s \in Subscription /\ Sent(<<Calls>>) = <<"subscribe", s>>
  BY <1>2, ToWorkerKinds
<1>4. m \in ToMainMessage /\ (\A r, how : m # <<"answer", r, how>>)
      /\ \A t \in Subscription : m = <<"subscribed", t>> => t = s
  BY <1>3 DEF ToMainMessage
<1> HIDE DEF m, s
<1>5. /\ headSubs \subseteq Subscription /\ headSubs' \subseteq Subscription
      /\ from \in [Subscription -> Nat \cup {None}] /\ until \in [Subscription -> Nat \cup {None}]
      /\ heads \in Nat /\ heads # None
  BY <1>1, <1>3, TypeFacts, NoneAssumption DEF WorkerInv, Types
<1>6. /\ from' \in [Subscription -> Nat \cup {None}]
      /\ from'[s] = heads /\ \A t \in Subscription : t # s => from'[t] = from[t]
  BY <1>1, <1>3, <1>5
<1>7. Types' /\ RequestsOnce' /\ AnswersTrue'
  BY <1>1, <1>4, <1>5, <1>6, PortsApart, HearKeeps
<1>8. /\ \A t \in Subscription : toMain'[CallbackPort(t)] = toMain[CallbackPort(t)]
      /\ \A x : In(x, toMain'[<<Calls>>]) => In(x, toMain[<<Calls>>]) \/ x = m
  <2>1. toMain \in [Port -> Seq(ToMainMessage)] /\ <<Calls>> \in Port
    BY PortsApart DEF WorkerInv, Types
  <2>2. /\ \A p \in Port : p # <<Calls>> => Post(toMain, <<Calls>>, m)[p] = toMain[p]
        /\ \A x : In(x, Post(toMain, <<Calls>>, m)[<<Calls>>]) => In(x, toMain[<<Calls>>]) \/ x = m
    BY <1>4, <2>1, CallsPostedOn
  <2>3. QED
    BY <1>1, <2>2, PortsApart
<1>9. /\ subscribed[s] # "new" /\ from[s] = None
      /\ Once(<<"subscribe", s>>, toWorker[<<Calls>>])
      /\ ~ In(<<"subscribe", s>>, toWorker'[<<Calls>>])
  BY <1>2, <1>3 DEF WorkerInv, SubscribedOnce
<1>10. SubscribedOnce'
  <2> SUFFICES ASSUME NEW t \in Subscription
               PROVE  /\ Once(<<"subscribe", t>>, toWorker'[<<Calls>>])
                      /\ subscribed[t] = "new" => ~ In(<<"subscribe", t>>, toWorker'[<<Calls>>])
                      /\ subscribed[t] = "new" \/ In(<<"subscribe", t>>, toWorker'[<<Calls>>]) =>
                           from'[t] = None
                      /\ subscribed[t] \in {"on", "off"} \/ In(<<"subscribed", t>>, toMain'[<<Calls>>])
                           => from'[t] # None
    BY <1>1 DEF SubscribedOnce
  <2>1. /\ Once(<<"subscribe", t>>, toWorker[<<Calls>>])
        /\ subscribed[t] = "new" => ~ In(<<"subscribe", t>>, toWorker[<<Calls>>])
        /\ subscribed[t] = "new" \/ In(<<"subscribe", t>>, toWorker[<<Calls>>]) => from[t] = None
        /\ subscribed[t] \in {"on", "off"} \/ In(<<"subscribed", t>>, toMain[<<Calls>>]) =>
             from[t] # None
    BY DEF WorkerInv, SubscribedOnce
  <2>2. CASE t = s
    BY <1>2, <1>5, <1>6, <1>9, <2>1, <2>2
  <2>3. CASE t # s
    BY <1>2, <1>4, <1>6, <1>8, <2>1, <2>3, PortsApart
  <2>4. QED
    BY <2>2, <2>3
<1>11. HeldWhileOn'
  BY <1>1, <1>2, PortsApart DEF WorkerInv, HeldWhileOn
<1>12. HeadsExact'
  <2> SUFFICES ASSUME NEW t \in Subscription
               PROVE  /\ t \in headSubs' <=> from'[t] # None /\ until[t] = None
                      /\ until[t] # None => from'[t] # None
                      /\ ToldFrom(Told(t), from'[t], MinedMeanwhile(t)')
    BY <1>1, <1>8, ToldKept DEF HeadsExact, ToldFrom
  <2>1. /\ t \in headSubs <=> from[t] # None /\ until[t] = None
        /\ until[t] # None => from[t] # None
        /\ ToldFrom(Told(t), from[t], MinedMeanwhile(t))
    BY DEF WorkerInv, HeadsExact
  <2>2. CASE t = s
    <3>1. until[t] = None /\ MinedMeanwhile(t) = 0 /\ MinedMeanwhile(t)' = 0
      BY <1>1, <1>5, <1>6, <1>9, <2>1, <2>2 DEF MinedMeanwhile
    <3>2. ToldFrom(Told(t), from'[t], 0)
      BY <2>1, <3>1 DEF ToldFrom
    <3>3. QED
      BY <1>1, <1>5, <1>6, <2>2, <3>1, <3>2
  <2>3. CASE t # s
    <3>1. MinedMeanwhile(t)' = MinedMeanwhile(t)
      BY <1>1, <1>6, <2>3 DEF MinedMeanwhile
    <3>2. QED
      BY <1>1, <1>6, <2>1, <2>3, <3>1
  <2>4. QED
    BY <2>2, <2>3
<1>13. QED
  BY <1>7, <1>10, <1>11, <1>12 DEF WorkerInv

(* Calling every subscriber with a head.                                    *)
LEMMA TellsFacts ==
  ASSUME NEW c \in [Port -> Seq(ToMainMessage)], NEW n \in Nat, headSubs \subseteq Subscription
  PROVE  /\ Tells(c, n) \in [Port -> Seq(ToMainMessage)]
         /\ \A s \in Subscription :
              Tells(c, n)[CallbackPort(s)] =
                IF s \in headSubs THEN Append(c[CallbackPort(s)], <<"head", n>>)
                ELSE c[CallbackPort(s)]
         /\ Tells(c, n)[<<Calls>>] = c[<<Calls>>]
         /\ \A p \in Port : \A r, how :
              In(<<"answer", r, how>>, Tells(c, n)[p]) => In(<<"answer", r, how>>, c[p])
<1> DEFINE m == <<"head", n>>
<1>1. m \in ToMainMessage /\ \A r, how : m # <<"answer", r, how>>
  BY DEF ToMainMessage, HeadMessage
<1> HIDE DEF m
<1>2. \A p \in Port : Tells(c, n)[p] = IF \E s \in headSubs : p = CallbackPort(s)
                                       THEN Append(c[p], m) ELSE c[p]
  BY DEF Tells, m
<1>3. \A p \in Port : /\ Append(c[p], m) \in Seq(ToMainMessage)
                      /\ \A x : In(x, Append(c[p], m)) <=> In(x, c[p]) \/ x = m
  <2> TAKE p \in Port
  <2>1. c[p] \in Seq(ToMainMessage)
    OBVIOUS
  <2>2. QED
    BY <1>1, <2>1, AppendIn
<1>4. Tells(c, n) \in [Port -> Seq(ToMainMessage)]
  BY <1>2, <1>3 DEF Tells, m
<1>5. ASSUME NEW s \in Subscription
      PROVE  Tells(c, n)[CallbackPort(s)] =
               IF s \in headSubs THEN Append(c[CallbackPort(s)], m) ELSE c[CallbackPort(s)]
  <2>1. CallbackPort(s) \in Port
        /\ ((\E t \in headSubs : CallbackPort(s) = CallbackPort(t)) <=> s \in headSubs)
    BY PortsApart
  <2>2. QED
    BY <1>2, <2>1
<1>6. ASSUME NEW p \in Port, NEW r, NEW how, In(<<"answer", r, how>>, Tells(c, n)[p])
      PROVE  In(<<"answer", r, how>>, c[p])
  <2>1. m # <<"answer", r, how>>
    BY <1>1
  <2>2. QED
    BY <1>2, <1>3, <1>6, <2>1
<1>7. Tells(c, n)[<<Calls>>] = c[<<Calls>>]
  BY <1>2, PortsApart
<1>8. QED
  BY <1>4, <1>5, <1>6, <1>7 DEF m

(* What crosses is an outcome of the kinds listed.                          *)
LEMMA CrossesTyped ==
  ASSUME NEW r, NEW how \in Outcome
  PROVE  /\ Crosses(r, how) \in Crossed
         /\ how # None
<1>1. ToWire(how) \in {Wire, Success} \cup Errors
  BY DEF ToWire, Outcome, Errors
<1>2. Cloned(ToWire(how)) \in Crossed
  <2>1. CASE ToWire(how) \in Errors
    BY <2>1 DEF Crossed
  <2>2. CASE ToWire(how) \in {Wire, Success}
    <3>1. Cloned(Wire) = Wire /\ Cloned(Success) = Success
      BY DEF Cloned, Wire, Success
    <3>2. QED
      BY <2>2, <3>1 DEF Crossed
  <2>3. QED
    BY <1>1, <2>1, <2>2
<1>3. how \in Crossed
  BY DEF Outcome, Errors, Crossed
<1>4. QED
  BY <1>2, <1>3, NoneAssumption DEF Crosses, Outcome

LEMMA RunJobInv == WorkerInv /\ RunJob => WorkerInv'
<1> SUFFICES ASSUME WorkerInv, RunJob PROVE WorkerInv'
  OBVIOUS
<1> DEFINE q == queue[1]
<1>1. /\ queue # <<>> /\ queue' = Tail(queue)
      /\ UNCHANGED <<host, client, toWorker, headSubs, from, until, subscribed, heard, answers>>
  BY DEF RunJob, subs
<1>2. PICK how \in Outcome, mined \in BOOLEAN :
        Finish(q, how, mined) /\ (mined => heads < MaxHeads)
  BY DEF RunJob, Outcome
<1> DEFINE told == IF mined THEN Tells(toMain, heads + 1) ELSE toMain
           m == <<"answer", q, Crosses(q, how)>>
<1>3. /\ raised' = [raised EXCEPT ![q] = how]
      /\ heads' = IF mined THEN heads + 1 ELSE heads
      /\ toMain' = Post(told, PortOf(q), m)
  BY <1>2 DEF Finish
<1>4. /\ queue \in Seq(Request) /\ heads \in Nat /\ headSubs \subseteq Subscription
      /\ toMain \in [Port -> Seq(ToMainMessage)]
      /\ raised \in [Request -> Outcome \cup {None}]
  BY TypeFacts DEF WorkerInv, Types
<1>5. /\ Tail(queue) \in Seq(Request) /\ q \in Request /\ In(q, queue)
      /\ \A r : In(r, Tail(queue)) => In(r, queue)
      /\ \A r : Once(r, queue) => Once(r, Tail(queue))
      /\ \A r : Once(r, queue) /\ r = q => ~ In(r, Tail(queue))
  <2>1. Head(queue) = q
    BY <1>1, <1>4
  <2>2. QED
    BY <1>1, <1>4, <2>1, TailIn
<1>6. m \in ToMainMessage /\ how # None /\ Crosses(q, how) \in Crossed
  BY <1>5, CrossesTyped DEF ToMainMessage
<1>7. /\ \A r \in Request, x \in Crossed : m = <<"answer", r, x>> => r = q /\ x = Crosses(q, how)
  OBVIOUS
<1> HIDE DEF m, q
<1>8. /\ told \in [Port -> Seq(ToMainMessage)]
      /\ \A s \in Subscription :
           told[CallbackPort(s)] =
             IF mined /\ s \in headSubs THEN Append(toMain[CallbackPort(s)], <<"head", heads + 1>>)
             ELSE toMain[CallbackPort(s)]
      /\ told[<<Calls>>] = toMain[<<Calls>>]
      /\ \A p \in Port : \A r, x :
           In(<<"answer", r, x>>, told[p]) => In(<<"answer", r, x>>, toMain[p])
  <2>1. CASE mined
    <3>1. heads + 1 \in Nat
      BY <1>4
    <3>2. /\ Tells(toMain, heads + 1) \in [Port -> Seq(ToMainMessage)]
          /\ \A s \in Subscription :
               Tells(toMain, heads + 1)[CallbackPort(s)] =
                 IF s \in headSubs THEN Append(toMain[CallbackPort(s)], <<"head", heads + 1>>)
                 ELSE toMain[CallbackPort(s)]
          /\ Tells(toMain, heads + 1)[<<Calls>>] = toMain[<<Calls>>]
          /\ \A p \in Port : \A r, x :
               In(<<"answer", r, x>>, Tells(toMain, heads + 1)[p]) =>
                 In(<<"answer", r, x>>, toMain[p])
      BY <1>4, <3>1, TellsFacts
    <3>3. QED
      BY <2>1, <3>2
  <2>2. CASE ~ mined
    BY <1>4, <2>2
  <2>3. QED
    BY <2>1, <2>2
<1> HIDE DEF told
<1>9. /\ toMain' \in [Port -> Seq(ToMainMessage)]
      /\ \A s \in Subscription : toMain'[CallbackPort(s)] = told[CallbackPort(s)]
      /\ \A p \in Port : \A x : In(x, toMain'[p]) => In(x, told[p]) \/ x = m
  <2>1. PortOf(q) \in Port /\ \A s \in Subscription : CallbackPort(s) \in Port /\ CallbackPort(s) # PortOf(q)
    BY <1>5, PortsApart
  <2>2. /\ Post(told, PortOf(q), m) \in [Port -> Seq(ToMainMessage)]
        /\ \A d \in Port : \A x :
             In(x, Post(told, PortOf(q), m)[d]) => In(x, told[d]) \/ (d = PortOf(q) /\ x = m)
        /\ \A d \in Port : d # PortOf(q) => Post(told, PortOf(q), m)[d] = told[d]
    <3>1. told \in [Port -> Seq(ToMainMessage)] /\ PortOf(q) \in Port /\ m \in ToMainMessage
      BY <1>6, <1>8, <2>1
    <3>2. QED
      BY <3>1, MainPosted
  <2>3. QED
    BY <1>3, <2>1, <2>2
<1>10. raised[q] = None /\ Once(q, queue)
  BY <1>5 DEF WorkerInv, RequestsOnce
<1>11. /\ raised' \in [Request -> Outcome \cup {None}]
       /\ raised'[q] = how
       /\ \A r \in Request : r # q => raised'[r] = raised[r]
  BY <1>3, <1>4, <1>5
<1>12. Types'
  <2>1. heads' \in 0..MaxHeads
    <3>1. heads \in 0..MaxHeads /\ MaxHeads \in Nat
      BY WorkerAssumption DEF WorkerInv, Types, TypeOK
    <3>2. QED
      BY <1>2, <1>3, <3>1
  <2>2. ASSUME NEW s \in Subscription PROVE toMain'[CallbackPort(s)] \in Seq(HeadMessage)
    <3>1. toMain[CallbackPort(s)] \in Seq(HeadMessage) /\ <<"head", heads + 1>> \in HeadMessage
      BY <1>4, TypeFacts DEF WorkerInv, HeadMessage
    <3>2. Append(toMain[CallbackPort(s)], <<"head", heads + 1>>) \in Seq(HeadMessage)
      BY <3>1, AppendIn
    <3>3. QED
      BY <1>8, <1>9, <3>1, <3>2
  <2>3. \A r \in Request : raised'[r] \in Errors \cup {Success} \/ raised'[r] = None
    BY <1>11 DEF Outcome
  <2>4. QED
    BY <1>1, <1>5, <1>9, <1>11, <2>1, <2>2, <2>3 DEF WorkerInv, Types, TypeOK
<1>13. RequestsOnce'
  <2> SUFFICES ASSUME NEW r \in Request
               PROVE  /\ \A d \in Port : In(<<"request", r>>, toWorker[d]) =>
                           d = PortOf(r) /\ ~ In(r, queue') /\ raised'[r] = None
                      /\ Once(<<"request", r>>, toWorker[PortOf(r)])
                      /\ In(r, queue') => raised'[r] = None
                      /\ Once(r, queue')
    BY <1>1 DEF RequestsOnce
  <2>1. /\ \A d \in Port : In(<<"request", r>>, toWorker[d]) =>
             d = PortOf(r) /\ ~ In(r, queue) /\ raised[r] = None
        /\ Once(<<"request", r>>, toWorker[PortOf(r)])
        /\ In(r, queue) => raised[r] = None
        /\ Once(r, queue)
    BY DEF WorkerInv, RequestsOnce
  <2>2. QED
    BY <1>1, <1>5, <1>10, <1>11, <2>1
<1>14. AnswersTrue'
  <2>1. ASSUME NEW p \in Port, NEW r \in Request, NEW x \in Crossed,
               In(<<"answer", r, x>>, toMain'[p])
        PROVE  raised'[r] # None /\ x = Crosses(r, raised'[r])
    <3>1. In(<<"answer", r, x>>, toMain[p]) \/ <<"answer", r, x>> = m
      BY <1>8, <1>9, <2>1
    <3>2. CASE In(<<"answer", r, x>>, toMain[p])
      <4>1. raised[r] # None /\ x = Crosses(r, raised[r])
        BY <3>2 DEF WorkerInv, AnswersTrue
      <4>2. QED
        BY <1>10, <1>11, <4>1
    <3>3. CASE <<"answer", r, x>> = m
      BY <1>6, <1>7, <1>11, <3>3
    <3>4. QED
      BY <3>1, <3>2, <3>3
  <2>2. ASSUME NEW r \in Request, answers[r] # None
        PROVE  raised'[r] # None /\ answers[r] = Received(r, Crosses(r, raised'[r]))
    <3>1. raised[r] # None /\ answers[r] = Received(r, Crosses(r, raised[r]))
      BY <2>2 DEF WorkerInv, AnswersTrue
    <3>2. QED
      BY <1>10, <1>11, <3>1
  <2>3. QED
    BY <1>1, <2>1, <2>2 DEF AnswersTrue
<1>15. SubscribedOnce' /\ HeldWhileOn'
  <2>1. ASSUME NEW s \in Subscription, In(<<"subscribed", s>>, toMain'[<<Calls>>])
        PROVE  In(<<"subscribed", s>>, toMain[<<Calls>>])
    <3>1. <<"subscribed", s>> # m
      BY DEF m
    <3>2. QED
      BY <1>8, <1>9, <2>1, <3>1, PortsApart
  <2>2. QED
    BY <1>1, <2>1, PortsApart, SubscriptionsKept DEF WorkerInv
<1>16. HeadsExact'
  <2> SUFFICES ASSUME NEW s \in Subscription
               PROVE  ToldFrom(Told(s)', from[s], MinedMeanwhile(s)')
    BY <1>1 DEF WorkerInv, HeadsExact, ToldFrom
  <2>1. /\ s \in headSubs <=> from[s] # None /\ until[s] = None
        /\ until[s] # None => from[s] # None
        /\ ToldFrom(Told(s), from[s], MinedMeanwhile(s))
        /\ heard[s] \in Seq(Nat) /\ toMain[CallbackPort(s)] \in Seq(HeadMessage)
        /\ from[s] \in Nat \cup {None}
    BY TypeFacts DEF WorkerInv, HeadsExact
  <2>2. Told(s) = ToldOf(heard[s], toMain[CallbackPort(s)])
    BY DEF Told, ToldOf
  <2>3. Told(s)' = ToldOf(heard[s], told[CallbackPort(s)])
    BY <1>1, <1>9 DEF Told, ToldOf
  <2>4. CASE mined /\ s \in headSubs
    <3> DEFINE n == MinedMeanwhile(s)
    <3>1. /\ told[CallbackPort(s)] = Append(toMain[CallbackPort(s)], <<"head", heads + 1>>)
          /\ from[s] \in Nat /\ from[s] # None /\ until[s] = None
      BY <1>8, <2>1, <2>4, NoneAssumption
    <3>2. n = heads - from[s] /\ MinedMeanwhile(s)' = (heads + 1) - from[s]
      <4>1. heads' = heads + 1 /\ from' = from /\ until' = until
        BY <1>1, <1>3, <2>4
      <4>2. MinedMeanwhile(s)' = (heads + 1) - from[s]
        BY <3>1, <4>1 DEF MinedMeanwhile
      <4>3. n = heads - from[s]
        BY <3>1 DEF MinedMeanwhile
      <4>4. QED
        BY <4>2, <4>3
    <3> HIDE DEF n
    <3>3. ToldFrom(ToldOf(heard[s], toMain[CallbackPort(s)]), from[s], n)
      BY <2>1, <2>2 DEF n
    <3>4. n \in Nat
      <4>1. Len(ToldOf(heard[s], toMain[CallbackPort(s)])) \in Nat
        BY <2>1, ToldElements
      <4>2. QED
        BY <3>3, <4>1 DEF ToldFrom
    <3>5. /\ from[s] + n + 1 = heads + 1 /\ n + 1 = MinedMeanwhile(s)'
      BY <1>4, <3>1, <3>2, <3>4
    <3>6. ToldFrom(ToldOf(heard[s], Append(toMain[CallbackPort(s)], <<"head", from[s] + n + 1>>)),
                   from[s], n + 1)
      BY <2>1, <3>1, <3>3, <3>4, ToldNext
    <3>7. QED
      BY <2>3, <3>1, <3>5, <3>6
  <2>5. CASE ~ (mined /\ s \in headSubs)
    <3>1. Told(s)' = Told(s)
      BY <1>8, <2>2, <2>3, <2>5
    <3>2. MinedMeanwhile(s)' = MinedMeanwhile(s)
      BY <1>1, <1>3, <2>1, <2>5 DEF MinedMeanwhile
    <3>3. QED
      BY <2>1, <3>1, <3>2
  <2>6. QED
    BY <2>4, <2>5
<1>17. QED
  BY <1>12, <1>13, <1>14, <1>15, <1>16 DEF WorkerInv

LEMMA HostStepInv == WorkerInv /\ (HostStep \/ HandleStep \/ AcceptServed) => WorkerInv'
<1> SUFFICES ASSUME WorkerInv, HostStep \/ HandleStep \/ AcceptServed PROVE WorkerInv'
  OBVIOUS
<1>1. CASE Evaluate
  <2>1. /\ host' = "listening"
        /\ client' = client /\ toWorker' = toWorker /\ toMain' = toMain /\ queue' = queue
        /\ headSubs' = headSubs /\ from' = from /\ until' = until
        /\ heads' = heads /\ raised' = raised
        /\ subscribed' = subscribed /\ heard' = heard /\ answers' = answers
    BY <1>1 DEF Evaluate, HostAfterLoad, ports, node, subs
  <2>2. Types'
    BY <2>1 DEF WorkerInv, Types, TypeOK
  <2>3. RequestsOnce' /\ AnswersTrue' /\ SubscribedOnce' /\ HeldWhileOn' /\ HeadsExact'
    BY <2>1, RequestsKept, AnswersKept, SubscriptionsKept, HeadsKept, ToldKept DEF WorkerInv
  <2>4. QED
    BY <2>2, <2>3 DEF WorkerInv
<1>2. ASSUME NEW m \in {<<"created">>, <<"rejected">>, <<"disposed">>}
      PROVE  /\ m \in ToMainMessage /\ \A r, how : m # <<"answer", r, how>>
             /\ \A s : m # <<"subscribed", s>>
  BY DEF ToMainMessage
<1>3. CASE CreateNode
  <2>1. PICK outcome \in {"created", "rejected"} : toMain' = Post(toMain, <<Calls>>, <<outcome>>)
    BY <1>3 DEF CreateNode
  <2>2. /\ Hears(<<Calls>>, "create")
        /\ UNCHANGED <<host, client, queue, heads, raised, subscribed, heard, answers, subs>>
    BY <1>3 DEF CreateNode, node
  <2>3. <<outcome>> \in {<<"created">>, <<"rejected">>}
    BY <2>1
  <2>4. /\ <<outcome>> \in ToMainMessage /\ \A r, how : <<outcome>> # <<"answer", r, how>>
        /\ \A s : <<outcome>> # <<"subscribed", s>>
    BY <1>2, <2>3
  <2>5. QED
    BY <2>1, <2>2, <2>4, PortsApart, HearOnly
<1>4. CASE AddSub
  BY <1>4, AddSubInv
<1>5. CASE AcceptCall
  BY <1>5, PortsApart, AcceptKeeps DEF AcceptCall
<1>6. CASE AcceptServed
  <2>1. /\ Hears(<<Shared>>, "request")
        /\ queue' = queue \/ queue' = Append(queue, Sent(<<Shared>>)[2])
        /\ UNCHANGED <<host, client, toMain, subs, heads, raised, subscribed, heard, answers>>
    BY <1>6 DEF AcceptServed
  <2>2. QED
    BY <2>1, PortsApart, AcceptKeeps
<1>7. CASE DisposeNode
  <2>1. /\ Hears(<<Calls>>, "dispose") /\ LetGo(headSubs)
        /\ toMain' = Post(toMain, <<Calls>>, <<"disposed">>)
        /\ UNCHANGED <<host, client, queue, heads, raised, subscribed, heard, answers>>
    BY <1>7 DEF DisposeNode
  <2>2. client \in Ended
    <3>1. Sent(<<Calls>>) = <<"dispose">> /\ In(Sent(<<Calls>>), toWorker[<<Calls>>])
      BY <2>1, PortsApart, HearsFacts, ToWorkerKinds DEF WorkerInv
    <3>2. QED
      BY <3>1 DEF WorkerInv, HeldWhileOn
  <2>3. /\ <<"disposed">> \in ToMainMessage /\ \A r, how : <<"disposed">> # <<"answer", r, how>>
        /\ \A s : <<"disposed">> # <<"subscribed", s>>
    BY <1>2
  <2>4. QED
    BY <2>1, <2>2, <2>3, PortsApart, LetGoKeeps
<1>8. CASE Serve
  <2>1. /\ Hears(<<Handle>>, "serve") /\ toMain' = toMain
        /\ UNCHANGED <<host, client, queue, heads, raised, subscribed, heard, answers, subs>>
    BY <1>8 DEF Serve
  <2>2. QED
    BY <2>1, PortsApart, HearOnly
<1>9. CASE StopServing
  <2>1. /\ Hears(<<Handle>>, "close") /\ toMain' = toMain
        /\ UNCHANGED <<host, client, queue, heads, raised, subscribed, heard, answers, subs>>
    BY <1>9 DEF StopServing, QueueAfterClose
  <2>2. QED
    BY <2>1, PortsApart, HearOnly
<1>10. QED
  BY <1>1, <1>3, <1>4, <1>5, <1>6, <1>7, <1>8, <1>9 DEF HostStep, HandleStep

LEMMA DropSubInv == ASSUME WorkerInv, NEW s \in Subscription, DropSub(s) PROVE WorkerInv'
<1>1. /\ Hears(CallbackPort(s), "unsubscribe") /\ LetGo({s}) /\ toMain' = toMain
      /\ UNCHANGED <<host, client, queue, heads, raised, subscribed, heard, answers>>
  BY DEF DropSub
<1>2. subscribed[s] = "off"
  <2> DEFINE m == Sent(CallbackPort(s))
  <2>1. m \in ToWorkerMessage /\ m[1] = "unsubscribe" /\ In(m, toWorker[CallbackPort(s)])
    BY <1>1, PortsApart, HearsFacts DEF WorkerInv
  <2> HIDE DEF m
  <2>2. PICK t \in Subscription : m = <<"unsubscribe", t>>
    BY <2>1, ToWorkerKinds
  <2>3. QED
    BY <2>1, <2>2 DEF WorkerInv, HeldWhileOn
<1>3. QED
  BY <1>1, <1>2, PortsApart, LetGoKeeps

-----------------------------------------------------------------------------
(* What comes back. *)

LEMMA ArrivesFacts ==
  ASSUME WorkerInv, NEW p \in Port, NEW kind, Arrives(p, kind)
  PROVE  /\ toMain' \in [Port -> Seq(ToMainMessage)]
         /\ Head(toMain[p]) \in ToMainMessage /\ Head(toMain[p])[1] = kind
         /\ toMain[p] # <<>>
         /\ In(Head(toMain[p]), toMain[p])
         /\ toMain'[p] = Tail(toMain[p])
         /\ \A q \in Port : q # p => toMain'[q] = toMain[q]
         /\ \A q \in Port : \A m : In(m, toMain'[q]) => In(m, toMain[q])
<1>1. /\ toMain \in [Port -> Seq(ToMainMessage)] /\ toMain[p] # <<>>
      /\ toMain[p] \in Seq(ToMainMessage)
      /\ toMain' = [toMain EXCEPT ![p] = Tail(@)] /\ Head(toMain[p])[1] = kind
  BY DEF WorkerInv, Types, Arrives
<1>2. /\ toMain'[p] = Tail(toMain[p])
      /\ \A q \in Port : q # p => toMain'[q] = toMain[q]
  BY <1>1
<1>3. /\ Tail(toMain[p]) \in Seq(ToMainMessage) /\ Head(toMain[p]) \in ToMainMessage
      /\ In(Head(toMain[p]), toMain[p])
      /\ \A m : In(m, Tail(toMain[p])) => In(m, toMain[p])
  BY <1>1, TailIn
<1>4. toMain' \in [Port -> Seq(ToMainMessage)]
  BY <1>1, <1>3
<1>5. QED
  BY <1>1, <1>2, <1>3, <1>4

(* A message other than a head arrives.                                      *)
LEMMA ArrivalKeeps ==
  ASSUME WorkerInv, NEW p \in {<<Calls>>, <<Shared>>}, NEW kind, Arrives(p, kind),
         UNCHANGED <<toWorker, node, heard>>,
         host' \in {host, "terminated"},
         client' \in {client, "open", "failed", "disposed"},
         client \in Ended => client' \in Ended,
         subscribed' \in [Subscription -> {"new", "asked", "on", "off"}],
         \A s \in Subscription :
           /\ subscribed'[s] = "new" => subscribed[s] = "new"
           /\ subscribed'[s] \in {"on", "off"} =>
                subscribed[s] \in {"on", "off"} \/ from[s] # None
           /\ subscribed[s] = "off" => subscribed'[s] = "off",
         answers' \in [Request -> Crossed \cup {None}],
         \A r \in Request : answers'[r] # None =>
           raised[r] # None /\ answers'[r] = Received(r, Crosses(r, raised[r]))
  PROVE  WorkerInv'
<1>1. /\ toMain' \in [Port -> Seq(ToMainMessage)]
      /\ \A q \in Port : q # p => toMain'[q] = toMain[q]
      /\ \A q \in Port : \A m : In(m, toMain'[q]) => In(m, toMain[q])
      /\ \A s \in Subscription : CallbackPort(s) \in Port /\ CallbackPort(s) # p
  BY ArrivesFacts, PortsApart
<1>2. \A s \in Subscription : toMain'[CallbackPort(s)] = toMain[CallbackPort(s)]
  BY <1>1
<1>3. /\ toWorker' = toWorker /\ queue' = queue /\ headSubs' = headSubs /\ heads' = heads
      /\ from' = from /\ until' = until /\ raised' = raised /\ heard' = heard
  BY DEF node, subs
<1>4. Types'
  BY <1>1, <1>2, <1>3 DEF WorkerInv, Types, TypeOK
<1>5. RequestsOnce'
  BY <1>3, RequestsKept DEF WorkerInv
<1>6. AnswersTrue'
  BY <1>1, <1>3 DEF WorkerInv, AnswersTrue
<1>7. SubscribedOnce' /\ HeldWhileOn'
  BY <1>1, <1>3, PortsApart, SubscriptionsKept DEF WorkerInv
<1>8. HeadsExact'
  BY <1>2, <1>3, HeadsKept, ToldKept DEF WorkerInv
<1>9. QED
  BY <1>4, <1>5, <1>6, <1>7, <1>8 DEF WorkerInv

LEMMA AnsweredInv ==
  ASSUME WorkerInv, NEW p \in {<<Calls>>, <<Shared>>}, Answered(p) PROVE WorkerInv'
<1> DEFINE m == Head(toMain[p])
<1>1. /\ Arrives(p, "answer")
      /\ answers' = [answers EXCEPT ![m[2]] = Received(m[2], m[3])]
      /\ UNCHANGED <<supplier, host, client, toWorker, node, subscribed, heard>>
  BY DEF Answered
<1>2. m \in ToMainMessage /\ m[1] = "answer" /\ In(m, toMain[p]) /\ p \in Port
  BY <1>1, ArrivesFacts, PortsApart
<1>3. m[2] \in Request /\ m[3] \in Crossed /\ m = <<"answer", m[2], m[3]>>
  BY <1>2, ToMainKinds
<1>4. PICK r \in Request, how \in Crossed : r = m[2] /\ how = m[3] /\ m = <<"answer", r, how>>
  BY <1>3
<1>5. raised[r] # None /\ how = Crosses(r, raised[r])
  BY <1>2, <1>4 DEF WorkerInv, AnswersTrue
<1>6. Received(r, how) \in Crossed
  BY DEF Received, FromWire, Crossed
<1>7. answers' = [answers EXCEPT ![r] = Received(r, how)]
  BY <1>1, <1>4
<1> HIDE DEF m
<1>8. /\ answers \in [Request -> Crossed \cup {None}]
      /\ \A q \in Request : answers[q] # None =>
           raised[q] # None /\ answers[q] = Received(q, Crosses(q, raised[q]))
      /\ subscribed \in [Subscription -> {"new", "asked", "on", "off"}]
  BY DEF WorkerInv, Types, AnswersTrue
<1>9. /\ answers' \in [Request -> Crossed \cup {None}]
      /\ \A q \in Request : answers'[q] # None =>
           raised[q] # None /\ answers'[q] = Received(q, Crosses(q, raised[q]))
  BY <1>5, <1>6, <1>7, <1>8
<1>10. QED
  BY <1>1, <1>8, <1>9, ArrivalKeeps

LEMMA CallsArriveInv == WorkerInv /\ CallsArrive => WorkerInv'
<1> SUFFICES ASSUME WorkerInv, CallsArrive PROVE WorkerInv'
  OBVIOUS
<1>1. /\ answers \in [Request -> Crossed \cup {None}]
      /\ \A q \in Request : answers[q] # None =>
           raised[q] # None /\ answers[q] = Received(q, Crosses(q, raised[q]))
      /\ subscribed \in [Subscription -> {"new", "asked", "on", "off"}]
  BY DEF WorkerInv, Types, AnswersTrue
<1>2. CASE Created
  <2>1. PICK kind : Arrives(<<Calls>>, kind)
    BY <1>2 DEF Created
  <2>2. /\ client' \in {"open", "failed"} /\ client \notin Ended
        /\ UNCHANGED <<host, toWorker, node, subscribed, heard, answers>>
    BY <1>2 DEF Created, Ended
  <2>3. QED
    BY <1>1, <2>1, <2>2, ArrivalKeeps
<1>3. CASE Subscribed
  <2> DEFINE m == Head(toMain[<<Calls>>])
             s == m[2]
  <2>1. /\ Arrives(<<Calls>>, "subscribed")
        /\ subscribed[s] = "asked" /\ subscribed' = [subscribed EXCEPT ![s] = "on"]
        /\ UNCHANGED <<host, client, toWorker, node, heard, answers>>
    BY <1>3 DEF Subscribed
  <2>2. m \in ToMainMessage /\ m[1] = "subscribed" /\ In(m, toMain[<<Calls>>])
    BY <2>1, PortsApart, ArrivesFacts
  <2>3. s \in Subscription /\ m = <<"subscribed", s>>
    BY <2>2, ToMainKinds
  <2> HIDE DEF m, s
  <2>4. from[s] # None
    BY <2>2, <2>3 DEF WorkerInv, SubscribedOnce
  <2>5. /\ subscribed' \in [Subscription -> {"new", "asked", "on", "off"}]
        /\ \A t \in Subscription :
             /\ subscribed'[t] = "new" => subscribed[t] = "new"
             /\ subscribed'[t] \in {"on", "off"} =>
                  subscribed[t] \in {"on", "off"} \/ from[t] # None
             /\ subscribed[t] = "off" => subscribed'[t] = "off"
    BY <1>1, <2>1, <2>3, <2>4
  <2>6. QED
    BY <1>1, <2>1, <2>5, ArrivalKeeps
<1>4. CASE Answered(<<Calls>>)
  BY <1>4, AnsweredInv
<1>5. CASE Terminate
  <2>1. /\ Arrives(<<Calls>>, "disposed") /\ client' = "disposed" /\ client' \in Ended
        /\ host' = "terminated"
        /\ UNCHANGED <<toWorker, node, subscribed, heard, answers>>
    BY <1>5 DEF Terminate, Ended
  <2>2. QED
    BY <1>1, <2>1, ArrivalKeeps
<1>6. QED
  BY <1>2, <1>3, <1>4, <1>5 DEF CallsArrive

LEMMA HearHeadInv == ASSUME WorkerInv, NEW s \in Subscription, HearHead(s) PROVE WorkerInv'
<1> DEFINE p == CallbackPort(s)
<1>1. /\ Arrives(p, "head")
      /\ heard' = [heard EXCEPT ![s] = Append(@, Head(toMain[p])[2])]
      /\ host' = host /\ client' = client /\ toWorker' = toWorker /\ queue' = queue
      /\ headSubs' = headSubs /\ from' = from /\ until' = until /\ heads' = heads
      /\ raised' = raised /\ subscribed' = subscribed /\ answers' = answers
  BY DEF HearHead, node, subs
<1>2. /\ p \in Port /\ \A t \in Subscription : CallbackPort(t) \in Port /\ (t # s => CallbackPort(t) # p)
  BY PortsApart
<1>3. /\ toMain' \in [Port -> Seq(ToMainMessage)]
      /\ toMain[p] # <<>> /\ toMain'[p] = Tail(toMain[p])
      /\ \A q \in Port : q # p => toMain'[q] = toMain[q]
      /\ \A q \in Port : \A m : In(m, toMain'[q]) => In(m, toMain[q])
  BY <1>1, <1>2, ArrivesFacts
<1>4. /\ heard \in [Subscription -> Seq(Nat)] /\ heard[s] \in Seq(Nat)
      /\ toMain[p] \in Seq(HeadMessage)
      /\ \A t \in Subscription : toMain[CallbackPort(t)] \in Seq(HeadMessage)
  BY DEF WorkerInv, Types
<1>5. /\ Tail(toMain[p]) \in Seq(HeadMessage)
      /\ Append(heard[s], Head(toMain[p])[2]) \in Seq(Nat)
      /\ ToldOf(Append(heard[s], Head(toMain[p])[2]), Tail(toMain[p])) =
           ToldOf(heard[s], toMain[p])
  BY <1>3, <1>4, ToldHeard
<1>6. /\ heard' \in [Subscription -> Seq(Nat)]
      /\ heard'[s] = Append(heard[s], Head(toMain[p])[2])
      /\ \A t \in Subscription : t # s => heard'[t] = heard[t]
  BY <1>1, <1>4, <1>5
<1>7. \A t \in Subscription : toMain'[CallbackPort(t)] \in Seq(HeadMessage)
  BY <1>2, <1>3, <1>4, <1>5
<1>8. \A t \in Subscription : Told(t)' = Told(t)
  <2>1. /\ Told(s) = ToldOf(heard[s], toMain[p])
        /\ Told(s)' = ToldOf(heard'[s], toMain'[p])
    BY DEF Told, ToldOf
  <2>2. Told(s)' = Told(s)
    BY <1>3, <1>5, <1>6, <2>1
  <2>3. ASSUME NEW t \in Subscription, t # s PROVE Told(t)' = Told(t)
    BY <1>2, <1>3, <1>6, <2>3 DEF Told
  <2>4. QED
    BY <2>2, <2>3
<1>9. Types'
  BY <1>1, <1>3, <1>6, <1>7 DEF WorkerInv, Types, TypeOK
<1>10. RequestsOnce'
  BY <1>1, RequestsKept DEF WorkerInv
<1>11. AnswersTrue'
  BY <1>1, <1>3, AnswersKept DEF WorkerInv
<1>12. SubscribedOnce' /\ HeldWhileOn'
  BY <1>1, <1>3, PortsApart, SubscriptionsKept DEF WorkerInv
<1>13. HeadsExact'
  BY <1>1, <1>8, HeadsKept DEF WorkerInv
<1>14. QED
  BY <1>9, <1>10, <1>11, <1>12, <1>13 DEF WorkerInv

-----------------------------------------------------------------------------
(* The theorems. *)

LEMMA WorkerInit == Init => WorkerInv
<1> SUFFICES ASSUME Init PROVE WorkerInv
  OBVIOUS
<1>1. /\ host = "loading" /\ client = "creating" /\ queue = <<>> /\ headSubs = {} /\ heads = 0
      /\ subscribed = [s \in Subscription |-> "new"] /\ heard = [s \in Subscription |-> <<>>]
      /\ from = [s \in Subscription |-> None] /\ until = [s \in Subscription |-> None]
      /\ raised = [r \in Request |-> None] /\ answers = [r \in Request |-> None]
      /\ toMain = [p \in Port |-> <<>>]
      /\ toWorker = [p \in Port |-> IF p = <<Calls>> THEN <<<<"create">>>> ELSE <<>>]
  BY DEF Init
<1>2. /\ <<"create">> \in ToWorkerMessage
      /\ \A r : <<"request", r>> # <<"create">>
      /\ \A s : <<"subscribe", s>> # <<"create">> /\ <<"unsubscribe", s>> # <<"create">>
      /\ <<"dispose">> # <<"create">>
  BY DEF ToWorkerMessage
<1>3. /\ <<<<"create">>>> \in Seq(ToWorkerMessage)
      /\ \A x : In(x, <<<<"create">>>>) => x = <<"create">>
      /\ \A x : Once(x, <<<<"create">>>>)
  <2>1. Len(<<<<"create">>>>) = 1 /\ <<<<"create">>>>[1] = <<"create">>
    OBVIOUS
  <2>2. \A i \in 1..1 : i = 1
    OBVIOUS
  <2>3. QED
    BY <1>2, <2>1, <2>2 DEF In, Once
<1>4. /\ \A p \in Port : toWorker[p] \in Seq(ToWorkerMessage)
      /\ \A p \in Port : \A x : In(x, toWorker[p]) => x = <<"create">>
      /\ \A p \in Port : \A x : Once(x, toWorker[p])
  BY <1>1, <1>3, NothingIn
<1>5. Types
  <2>1. toWorker \in [Port -> Seq(ToWorkerMessage)]
    BY <1>1, <1>4
  <2>2. toMain \in [Port -> Seq(ToMainMessage)]
        /\ \A s \in Subscription : toMain[CallbackPort(s)] \in Seq(HeadMessage)
    BY <1>1, PortsApart
  <2>3. QED
    BY <1>1, <2>1, <2>2, WorkerAssumption DEF Types, TypeOK
<1>6. RequestsOnce
  BY <1>1, <1>2, <1>4, PortsApart, NothingIn DEF RequestsOnce
<1>7. AnswersTrue
  BY <1>1, NothingIn DEF AnswersTrue
<1>8. SubscribedOnce /\ HeldWhileOn
  BY <1>1, <1>2, <1>4, PortsApart, NothingIn DEF SubscribedOnce, HeldWhileOn
<1>9. HeadsExact
  <2> SUFFICES ASSUME NEW s \in Subscription PROVE Len(Told(s)) = 0
    BY <1>1 DEF HeadsExact, ToldFrom, MinedMeanwhile
  <2>1. Told(s) = ToldOf(<<>>, <<>>)
    BY <1>1, PortsApart DEF Told, ToldOf
  <2>2. <<>> \in Seq(Nat) /\ <<>> \in Seq(HeadMessage) /\ Len(<<>>) = 0
    OBVIOUS
  <2>3. Len(ToldOf(<<>>, <<>>)) = Len(<<>>) + Len(<<>>)
    BY <2>2, ToldElements
  <2>4. QED
    BY <2>1, <2>2, <2>3
<1>10. QED
  BY <1>5, <1>6, <1>7, <1>8, <1>9 DEF WorkerInv

LEMMA WorkerNext == WorkerInv /\ [Next]_vars => WorkerInv'
<1> SUFFICES ASSUME WorkerInv, [Next]_vars PROVE WorkerInv'
  OBVIOUS
<1>1. CASE UNCHANGED vars
  <2>1. /\ host' = host /\ client' = client /\ toWorker' = toWorker /\ toMain' = toMain
        /\ queue' = queue /\ headSubs' = headSubs /\ from' = from /\ until' = until
        /\ heads' = heads /\ raised' = raised
        /\ subscribed' = subscribed /\ heard' = heard /\ answers' = answers
    BY <1>1 DEF vars, ports, node, subs
  <2>2. Types'
    BY <2>1 DEF WorkerInv, Types, TypeOK
  <2>3. RequestsOnce' /\ AnswersTrue' /\ SubscribedOnce' /\ HeldWhileOn' /\ HeadsExact'
    BY <2>1, RequestsKept, AnswersKept, SubscriptionsKept, HeadsKept, ToldKept DEF WorkerInv
  <2>4. QED
    BY <2>2, <2>3 DEF WorkerInv
<1>2. CASE ClientStep
  BY <1>2, ClientStepInv
<1>3. CASE HostStep \/ HandleStep \/ AcceptServed
  BY <1>3, HostStepInv
<1>4. CASE RunJob
  BY <1>4, RunJobInv
<1>5. CASE CallsArrive
  BY <1>5, CallsArriveInv
<1>6. CASE Answered(<<Shared>>)
  BY <1>6, AnsweredInv
<1>7. ASSUME NEW s \in Subscription, DropSub(s) \/ HearHead(s) PROVE WorkerInv'
  BY <1>7, DropSubInv, HearHeadInv
<1>8. QED
  BY <1>1, <1>2, <1>3, <1>4, <1>5, <1>6, <1>7 DEF Next

LEMMA WorkerCorrect == Spec => []WorkerInv
<1>1. QED
  BY WorkerInit, WorkerNext, PTL DEF Spec

(* An unsubscribe that was called has been taken, or is on its way.           *)
ReleasesTake ==
  \A s \in Subscription :
    subscribed[s] = "off" =>
      until[s] # None \/ In(<<"unsubscribe", s>>, toWorker[CallbackPort(s)])

(* It stays so for a subscription that no step lets go of here.               *)
LEMMA ReleaseKept ==
  ASSUME ReleasesTake, NEW s \in Subscription,
         subscribed'[s] = "off" => subscribed[s] = "off",
         until[s] # None => until'[s] # None,
         In(<<"unsubscribe", s>>, toWorker[CallbackPort(s)]) =>
           In(<<"unsubscribe", s>>, toWorker'[CallbackPort(s)])
  PROVE  subscribed'[s] = "off" =>
           until'[s] # None \/ In(<<"unsubscribe", s>>, toWorker'[CallbackPort(s)])
BY DEF ReleasesTake

(* What the client puts on a port takes nothing off another.                  *)
LEMMA SendReleases ==
  ASSUME WorkerInv, ReleasesTake, NEW p \in Port, NEW m \in ToWorkerMessage,
         toWorker' = Post(toWorker, p, m), until' = until,
         \A s \in Subscription : subscribed'[s] = "off" =>
           subscribed[s] = "off" \/ (p = CallbackPort(s) /\ m = <<"unsubscribe", s>>)
  PROVE  ReleasesTake'
<1>1. \A q \in Port : \A x : In(x, toWorker'[q]) <=> In(x, toWorker[q]) \/ (q = p /\ x = m)
  BY PostFacts DEF WorkerInv
<1>2. QED
  BY <1>1, PortsApart DEF ReleasesTake

(* What the node takes off a port that is no callback's leaves those alone.    *)
LEMMA HearReleases ==
  ASSUME WorkerInv, ReleasesTake, NEW p \in {<<Calls>>, <<Handle>>, <<Shared>>},
         NEW kind, Hears(p, kind), subscribed' = subscribed,
         \A s \in Subscription : until[s] # None => until'[s] # None
  PROVE  ReleasesTake'
<1>1. toWorker \in [Port -> Seq(ToWorkerMessage)] /\ toWorker' = [toWorker EXCEPT ![p] = Tail(@)]
  BY DEF WorkerInv, Types, Hears, Taken
<1>2. \A s \in Subscription : toWorker'[CallbackPort(s)] = toWorker[CallbackPort(s)]
  BY <1>1, PortsApart
<1>3. QED
  BY <1>2 DEF ReleasesTake

(* Whatever the node lets go of, at its head, is let go of for good.           *)
LEMMA LetGoReleases ==
  ASSUME WorkerInv, NEW gone, LetGo(gone), NEW s \in Subscription
  PROVE  /\ until[s] # None => until'[s] # None
         /\ s \in gone /\ subscribed[s] = "off" => until'[s] # None
<1>1. /\ until' = [t \in Subscription |-> IF t \in headSubs \cap gone THEN heads ELSE until[t]]
      /\ heads \in Nat /\ heads # None
  BY TypeFacts, NoneAssumption DEF LetGo, WorkerInv, Types
<1>2. until'[s] = IF s \in headSubs \cap gone THEN heads ELSE until[s]
  BY <1>1
<1>3. subscribed[s] = "off" => s \in headSubs \/ until[s] # None
  BY DEF WorkerInv, SubscribedOnce, HeadsExact
<1>4. QED
  BY <1>1, <1>2, <1>3

LEMMA ReleasesNext == WorkerInv /\ ReleasesTake /\ [Next]_vars => ReleasesTake'
<1> SUFFICES ASSUME WorkerInv, ReleasesTake, [Next]_vars PROVE ReleasesTake'
  OBVIOUS
<1>0. subscribed \in [Subscription -> {"new", "asked", "on", "off"}]
  BY DEF WorkerInv, Types
<1>1. ASSUME toWorker' = toWorker, until' = until,
             \A s \in Subscription : subscribed'[s] = "off" => subscribed[s] = "off"
      PROVE  ReleasesTake'
  BY <1>1 DEF ReleasesTake
<1>2. CASE UNCHANGED vars \/ Evaluate \/ RunJob
  BY <1>1, <1>2 DEF vars, ports, node, subs, Evaluate, RunJob
<1>3. ASSUME NEW s \in Subscription, Subscribe(s) PROVE ReleasesTake'
  <2>1. /\ toWorker' = Post(toWorker, <<Calls>>, <<"subscribe", s>>) /\ until' = until
        /\ subscribed' = [subscribed EXCEPT ![s] = "asked"]
        /\ <<"subscribe", s>> \in ToWorkerMessage
    BY <1>3 DEF Subscribe, node, subs, ToWorkerMessage
  <2>2. \A t \in Subscription : subscribed'[t] = "off" => subscribed[t] = "off"
    BY <1>0, <2>1
  <2>3. QED
    BY <2>1, <2>2, PortsApart, SendReleases
<1>4. ASSUME NEW s \in Subscription, Unsubscribe(s) PROVE ReleasesTake'
  <2>1. /\ toWorker' = Post(toWorker, CallbackPort(s), <<"unsubscribe", s>>) /\ until' = until
        /\ subscribed' = [subscribed EXCEPT ![s] = "off"]
        /\ <<"unsubscribe", s>> \in ToWorkerMessage
    BY <1>4 DEF Unsubscribe, Released, node, subs, ToWorkerMessage
  <2>2. \A t \in Subscription : subscribed'[t] = "off" => subscribed[t] = "off" \/ t = s
    BY <1>0, <2>1
  <2>3. QED
    BY <2>1, <2>2, PortsApart, SendReleases
<1>5. ASSUME NEW p \in Port, NEW m \in ToWorkerMessage, toWorker' = Post(toWorker, p, m),
             UNCHANGED <<node, subscribed>>
      PROVE  ReleasesTake'
  BY <1>5, SendReleases DEF node, subs
<1>6. /\ \A r \in Request : <<"request", r>> \in ToWorkerMessage
      /\ <<"serve">> \in ToWorkerMessage /\ <<"close">> \in ToWorkerMessage
      /\ <<"dispose">> \in ToWorkerMessage
  BY DEF ToWorkerMessage
<1>7. CASE (\E r \in Request : Ask(r)) \/ ServeOn \/ CloseServed \/ Dispose
  BY <1>5, <1>6, <1>7, PortsApart DEF Ask, ServeOn, CloseServed, Dispose
<1>8. ASSUME NEW p \in {<<Calls>>, <<Handle>>, <<Shared>>}, NEW kind, Hears(p, kind),
             until' = until, subscribed' = subscribed
      PROVE  ReleasesTake'
  BY <1>8, HearReleases
<1>9. CASE CreateNode \/ AcceptCall
  BY <1>8, <1>9 DEF CreateNode, AcceptCall, node, subs
<1>10. CASE AcceptServed
  BY <1>8, <1>10 DEF AcceptServed, subs
<1>11. CASE AddSub
  BY <1>8, <1>11 DEF AddSub
<1>12. CASE Serve \/ StopServing
  BY <1>8, <1>12 DEF Serve, StopServing, subs
<1>13. CASE DisposeNode
  <2>1. Hears(<<Calls>>, "dispose") /\ LetGo(headSubs) /\ subscribed' = subscribed
    BY <1>13 DEF DisposeNode
  <2>2. \A s \in Subscription : until[s] # None => until'[s] # None
    BY <2>1, LetGoReleases
  <2>3. QED
    BY <2>1, <2>2, HearReleases
<1>14. ASSUME NEW s \in Subscription, DropSub(s) PROVE ReleasesTake'
  <2>1. /\ Hears(CallbackPort(s), "unsubscribe") /\ LetGo({s}) /\ subscribed' = subscribed
        /\ toWorker' = [toWorker EXCEPT ![CallbackPort(s)] = Tail(@)]
        /\ toWorker \in [Port -> Seq(ToWorkerMessage)]
    BY <1>14 DEF DropSub, Hears, Taken, WorkerInv, Types
  <2>2. ASSUME NEW t \in Subscription
        PROVE  subscribed'[t] = "off" =>
                 until'[t] # None \/ In(<<"unsubscribe", t>>, toWorker'[CallbackPort(t)])
    <3>1. /\ until[t] # None => until'[t] # None
          /\ t \in {s} /\ subscribed[t] = "off" => until'[t] # None
      BY <2>1, LetGoReleases
    <3>2. CASE t = s
      BY <2>1, <3>1, <3>2
    <3>3. CASE t # s
      <4>1. toWorker'[CallbackPort(t)] = toWorker[CallbackPort(t)]
        BY <2>1, <3>3, PortsApart
      <4>2. QED
        BY <2>1, <3>1, <4>1, ReleaseKept
    <3>4. QED
      BY <3>2, <3>3
  <2>3. QED
    BY <2>2 DEF ReleasesTake
<1>15. ASSUME NEW s \in Subscription, HearHead(s) PROVE ReleasesTake'
  BY <1>1, <1>15 DEF HearHead, node, subs
<1>16. CASE CallsArrive \/ Answered(<<Shared>>)
  <2>1. toWorker' = toWorker /\ until' = until
    BY <1>16 DEF CallsArrive, Created, Subscribed, Answered, Terminate, node, subs
  <2>2. \/ subscribed' = subscribed
        \/ \E s : subscribed' = [subscribed EXCEPT ![s] = "on"]
    BY <1>16 DEF CallsArrive, Created, Subscribed, Answered, Terminate
  <2>3. \A s \in Subscription : subscribed'[s] = "off" => subscribed[s] = "off"
    BY <1>0, <2>2
  <2>4. QED
    BY <1>1, <2>1, <2>3
<1>17. QED
  BY <1>2, <1>3, <1>4, <1>7, <1>9, <1>10, <1>11, <1>12, <1>13, <1>14, <1>15, <1>16
  DEF Next, ClientStep, HostStep, HandleStep

LEMMA ReleasesCorrect == Spec => []ReleasesTake
<1>1. Init => ReleasesTake
  BY DEF Init, ReleasesTake
<1>2. QED
  BY <1>1, WorkerCorrect, ReleasesNext, PTL DEF Spec

(* A subscriber is told exactly the heads mined from the moment the node took it  *)
(* to the moment the node let it go; it is held from its confirmation until the   *)
(* client lets go, whatever else crosses, and the client's word for that arrives  *)
(* (worker-host.ts, onNewHead).                                             *)
THEOREM HeadsReachSubscribers == Spec => []HeadsAllHeard
<1>1. ASSUME WorkerInv, ReleasesTake, NEW s \in Subscription
      PROVE  /\ Told(s) = [i \in 1..MinedMeanwhile(s) |-> from[s] + i]
             /\ client = "open" /\ subscribed[s] = "on" => from[s] # None /\ until[s] = None
             /\ subscribed[s] = "off" => until[s] # None \/ LeavesSoon(s)
  <2> DEFINE n == MinedMeanwhile(s)
  <2>1. Told(s) = ToldOf(heard[s], toMain[CallbackPort(s)])
    BY DEF Told, ToldOf
  <2>2. Told(s) \in Seq(Nat) /\ Len(Told(s)) = n /\ \A i \in 1..n : Told(s)[i] = from[s] + i
    BY <1>1, <2>1, TypeFacts, ToldElements DEF WorkerInv, HeadsExact, ToldFrom
  <2> HIDE DEF n
  <2>3. Told(s) = [i \in 1..Len(Told(s)) |-> Told(s)[i]]
    BY <2>2
  <2>4. Told(s) = [i \in 1..n |-> from[s] + i]
    BY <2>2, <2>3
  <2>5. client = "open" /\ subscribed[s] = "on" => from[s] # None /\ until[s] = None
    BY <1>1 DEF WorkerInv, SubscribedOnce, HeldWhileOn, Ended
  <2>6. subscribed[s] = "off" => until[s] # None \/ LeavesSoon(s)
    BY <1>1 DEF ReleasesTake, LeavesSoon, In
  <2>7. QED
    BY <2>4, <2>5, <2>6 DEF n
<1>2. WorkerInv /\ ReleasesTake => HeadsAllHeard
  BY <1>1 DEF WorkerInv, Types, HeadsAllHeard
<1>3. QED
  BY <1>2, WorkerCorrect, ReleasesCorrect, PTL

(* What became of an error between the node and its caller, by kind.          *)
LEMMA ErrorsCrossed ==
  /\ FromWire(Cloned(ToWire(RpcErr))) = RpcErr
  /\ FromWire(Cloned(ToWire(OtherCopy))) = RpcErr
  /\ \A e \in {DomErr, PlainErr, Success} :
       LET got == FromWire(Cloned(ToWire(e)))
       IN  e \notin {RpcErr, OtherCopy} /\ got.class = e.class /\ ~ got.coded
<1>1. ToWire(RpcErr) = Wire /\ ToWire(OtherCopy) = Wire
  BY DEF ToWire, IsRpcError, RpcErr, OtherCopy
<1>2. Cloned(Wire) = Wire /\ FromWire(Wire) = RpcErr
  BY DEF Cloned, FromWire, Wire
<1>3. ASSUME NEW e \in {DomErr, PlainErr, Success}
      PROVE  LET got == FromWire(Cloned(ToWire(e)))
             IN  e \notin {RpcErr, OtherCopy} /\ got.class = e.class /\ ~ got.coded
  <2>1. CASE e = DomErr
    BY <2>1 DEF ToWire, IsRpcError, Cloned, FromWire, RpcErr, OtherCopy, DomErr
  <2>2. CASE e = PlainErr
    BY <2>2 DEF ToWire, IsRpcError, Cloned, FromWire, RpcErr, OtherCopy, PlainErr
  <2>3. CASE e = Success
    BY <2>3 DEF ToWire, IsRpcError, Cloned, FromWire, RpcErr, OtherCopy, Success
  <2>4. QED
    BY <2>1, <2>2, <2>3
<1>4. QED
  BY <1>1, <1>2, <1>3

(* An error reaches its caller as what it was: an RpcError with its code, and    *)
(* nothing else as one (worker-rpc-error.ts, toWireError and fromWireError).  *)
THEOREM ErrorsCrossWhole == Spec => []ErrorsArriveWhole
<1>1. WorkerInv => ErrorsArriveWhole
  <2> SUFFICES ASSUME WorkerInv, NEW r \in Request \ Served, answers[r] # None
               PROVE  IF raised[r] \in {RpcErr, OtherCopy} THEN answers[r] = RpcErr
                      ELSE answers[r].class = raised[r].class /\ ~ answers[r].coded
    BY DEF ErrorsArriveWhole
  <2>1. raised[r] # None /\ answers[r] = Received(r, Crosses(r, raised[r]))
    BY DEF WorkerInv, AnswersTrue
  <2>2. answers[r] = FromWire(Cloned(ToWire(raised[r])))
    BY <2>1 DEF Received, Crosses
  <2>3. raised[r] \in {RpcErr, OtherCopy} \cup {DomErr, PlainErr, Success}
    BY <2>1 DEF WorkerInv, Types, Outcome, Errors
  <2>4. QED
    BY <2>2, <2>3, ErrorsCrossed
<1>2. QED
  BY <1>1, WorkerCorrect, PTL
=============================================================================
