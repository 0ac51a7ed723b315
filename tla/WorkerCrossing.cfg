SPECIFICATION Spec
CONSTANTS
 Subscription = {s1}
 Request = {r1, r2}
 Served = {r2}
 MaxHeads = 2
 None = None
INVARIANT ErrorsArriveWhole
INVARIANT HeadsAllHeard
PROPERTY CreationSettles
PROPERTY AcceptedSettles
CHECK_DEADLOCK FALSE
