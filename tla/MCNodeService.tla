---------------------------- MODULE MCNodeService ----------------------------
(* An instance of NodeService for TLC: what the clients of a node ask of it,  *)
(* by the way it mines.                                                     *)
EXTENDS NodeService, TLC

CONSTANTS a, b, a1, a2, a3, a4, m1, m2, m3, m4, m5, t1, t2, t3

Nonces == 0..2

T(sender, nonce) == [sender |-> sender, nonce |-> nonce]
Ask(kind, tx) == [kind |-> kind, tx |-> tx]

(* Two transactions of one sender, in either order, a replay and a call.    *)
AutoAsks ==
  a1 :> Ask("send", T(a, 0)) @@ a2 :> Ask("sync", T(a, 1)) @@
  a3 :> Ask("call", T(a, 0)) @@ a4 :> Ask("sync", T(a, 0))

(* Two senders fill a pool; a cheat may invalidate what waits in it; a      *)
(* client mines it.                                                         *)
ManualAsks ==
  m1 :> Ask("send", T(a, 0)) @@ m2 :> Ask("send", T(b, 0)) @@
  m3 :> Ask("cheat", T(a, 1)) @@ m4 :> Ask("mine", T(a, 0)) @@
  m5 :> Ask("send", T(a, 1))

(* The timer mines what a client sends; another mines at once.              *)
IntervalAsks ==
  t1 :> Ask("send", T(a, 0)) @@ t2 :> Ask("sync", T(a, 0)) @@
  t3 :> Ask("read", T(a, 0))

AllAsks == AutoAsks @@ ManualAsks @@ IntervalAsks

AllClients ==
  "auto" :> DOMAIN AutoAsks @@ "manual" :> DOMAIN ManualAsks @@
  "interval" :> DOMAIN IntervalAsks
=============================================================================
