\* Two workers, lists of two: what becomes of two payments with one nonce?
CONSTANTS
    alice = alice  bob = bob  carol = carol
    Addr = {alice, bob, carol}
    NoAccount = NoAccount  GenesisRoot = GenesisRoot  NoRoot = NoRoot
    NumWorkers = 2
    ChannelFactor = 1
    MinBatchSizeForParallel = 2
    TxSet <- Payments
    MaxTxs = 2
    MaxCalls = 1
    InitialAccounts <- MCAccounts
SPECIFICATION Spec
INVARIANTS ConflictsResolved
