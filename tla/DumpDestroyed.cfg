SPECIFICATION DumpSpec
CONSTANTS
 Address = {a1}
 GenesisAddress = {}
 NoDump = NoDump
 Slot = {s1}
 Fields = {f0, f1}
 Code = {c0, c1}
 MaxDepth = 1
 SlotValue = {v}
 EmptyValue = e
 ZeroFields = f0
 EmptyCode = c0
 Absent = Absent
 NotRecorded = NotRecorded
PROPERTY ReloadKeepsRoot
