SPECIFICATION StoreSpec
CONSTANTS
 Address = {a1, a2}
 Slot = {s1}
 Fields = {f0}
 Code = {c0, c1}
 MaxDepth = 2
 SlotValue = {v}
 EmptyValue = e
 ZeroFields = f0
 EmptyCode = c0
 Absent = Absent
 NotRecorded = NotRecorded
INVARIANT CodeOfEveryAccount
INVARIANT CodeFound
INVARIANT CommitExact
