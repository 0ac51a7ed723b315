SPECIFICATION SendingSpec
CONSTANTS
 TxBase = 2
 ZeroByte = 1
 NonZeroByte = 2
 CreateBase = 1
 InitWord = 1
 WordSize = 2
 Eip3860 = TRUE
 ListAddress = 2
 ListKey = 1
 NoGas = NoGas
 Asked <- SomeAsked
 Methods = {"estimate", "fill"}
 Engines = {"default", "revm"}
 Behaviour <- AnyBehaviour
 Succeeds <- AnySucceeds
 Uses <- UsesGas
 ReturnsBytes <- HasBytes
 Rejected <- IsRejected
 BlockGasLimit = 10
 Divisor = 4
 MaxProbes = 3
 Missing = Missing
 Fee = {1, 3}
 Balances = {3, 9}
 MaxQueue = 2
 MaxNonce = 2
 MaxFilled = 2
 a = a
 b = b
 Nobody = Nobody
 Account = {a, b}
 Raw <- SomeRaw
 Options <- SomeOptions
 Funds = 2
 QueueLimit = 3
 NonceLimit = 2
INVARIANT AnswerExact
INVARIANT WindowBrackets
INVARIANT RecommendedLimitMines
INVARIANT NoReplay
INVARIANT SenderAuthentic
INVARIANT PendingNonceRuns
INVARIANT FilledRuns
CHECK_DEADLOCK FALSE
