SPECIFICATION BothSpec
CONSTANTS
 Byte = {0, 255}
 Half = 1
 MaxLength = 3
 Value = {0, 1, 2}
 Zero = 0
 Address = {a1}
 GenesisAddress = {a1}
 NoDump = NoDump
 Slot = {s1}
 Fields = {f0, f1}
 Code = {c0, c1}
 MaxDepth = 1
 SlotValue = {v}
 EmptyValue = e
 ZeroFields = f0
 EmptyCode = c0
 Absent = Absent
 NotRecorded = NotRecorded
INVARIANT ReadsAgree
PROPERTY ReloadKeepsAddress
