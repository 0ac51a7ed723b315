SPECIFICATION ParamSpec
CONSTANTS
 transfer = transfer
 swap = swap
 Tx <- SomeTx
 LogsOf <- SomeLogs
 GasOf <- SomeGas
 BaseFee = {7, 8}
 Time = {0}
 FeeWindow = 2
 BatchLimit = 2
 BlockLimit = 3
 Window = 2
INVARIANT ChainConsistent
INVARIANT PinsAgree
PROPERTY FeesForetold
PROPERTY ReloadKeepsReads
PROPERTY PinsStay
CHECK_DEADLOCK FALSE
