SPECIFICATION Spec
CONSTANTS
 Request = {r1, r2, r3}
 Mining = {r1, r2}
 ChainId = {c1, c2}
 Adapter = {"indexeddb", "memory"}
 MaxLives = 3
 Idle = Idle
 None = None
INVARIANT RepliedSurvives
INVARIANT NeverBehindRecord
PROPERTY QueuedIsServed
CHECK_DEADLOCK FALSE
