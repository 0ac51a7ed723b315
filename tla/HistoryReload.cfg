SPECIFICATION CarefulSpec
CONSTANTS
 Key = {k1}
 Value = {v1}
 Absent = Absent
 NotRecorded = NotRecorded
 Genesis <- EmptyGenesis
 Windows = {0, 1, 2}
 NumberOptions = {NoNumber, 3}
 NoNumber = NoNumber
 NoHistory = NoHistory
 NoDump = NoDump
 MaxNumber = 4
INVARIANT LogBounded
INVARIANT ServedReadsExact
PROPERTY ReloadKeepsWindow
