SPECIFICATION BoundedSpec
CONSTANTS
 Address = {a1}
 Slot = {s1}
 Fields = {f0}
 Code = {c0, c1}
 MaxDepth = 2
 SlotValue = {v}
 EmptyValue = e
 ZeroFields = f0
 EmptyCode = c0
 Absent = Absent
 NotRecorded = NotRecorded
INVARIANT RootFollowsState
INVARIANT NoBottomTombstones
INVARIANT LevelRecordsUndo
PROPERTY ImplementsCheckpointedState
