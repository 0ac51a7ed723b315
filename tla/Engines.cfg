SPECIFICATION UpSpec
CONSTANTS
 alice = alice
 bob = bob
 wallet = wallet
 counter = counter
 Person = {alice, bob}
 Contract = {wallet, counter}
 Create = Create
 Coinbase = Coinbase
 Funds <- Funded
 Reads <- SomeReads
 Transactions <- SomeTransactions
 TxBase = 5
 CreateBase = 3
 ColdAccess = 1
 BaseFee = 1
 BlockGasLimit = 30
 MaxTransactions = 2
 Node = {plain, other}
 plain = plain
 other = other
 Given = {whole, stray, half}
 whole = whole
 stray = stray
 half = half
 Shape <- Shapes
 Compared <- OnePair
 ChainId = {1, 2}
 NoEngine = NoEngine
 Unbound = Unbound
INVARIANT EnginesAgree
INVARIANT EnginesInOrder
PROPERTY LedgersAsAnswered
CHECK_DEADLOCK FALSE
