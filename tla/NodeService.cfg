SPECIFICATION FairSpec
CONSTANTS
 a = a
 b = b
 a1 = a1
 a2 = a2
 a3 = a3
 a4 = a4
 m1 = m1
 m2 = m2
 m3 = m3
 m4 = m4
 m5 = m5
 t1 = t1
 t2 = t2
 t3 = t3
 Request = {a1, a2, a3, a4, m1, m2, m3, m4, m5, t1, t2, t3}
 Asks <- AllAsks
 Mining = {"auto", "manual", "interval"}
 Clients <- AllClients
 Sender = {a, b}
 Nonce <- Nonces
 Persistent = TRUE
 Tick = Tick
 Idle = Idle
 None = None
PROPERTY ImplementsAtomicNode
INVARIANT RepliedIsDurable
PROPERTY EveryCallSettles
PROPERTY IntervalMiningGoesOn
