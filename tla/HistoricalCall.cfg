SPECIFICATION BoundedSpec
CONSTANTS
 Address = {a1}
 Slot = {s1}
 Fields = {f0, f1}
 Code = {c0, c1}
 MaxDepth = 3
 SlotValue = {v}
 EmptyValue = e
 ZeroFields = f0
 EmptyCode = c0
 Absent = Absent
 NotRecorded = NotRecorded
 NoOverride = NoOverride
 Override <- SomeOverride
 Genesis <- Fresh
 BlockLimit = 2
INVARIANT CallReadsPast
INVARIANT NoTrace
CHECK_DEADLOCK FALSE
