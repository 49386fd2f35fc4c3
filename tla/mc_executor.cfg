\* Two workers, lists of up to three; one transaction goes the sequential way.
CONSTANTS
    alice = alice  bob = bob  carol = carol
    Addr = {alice, bob, carol}
    NoAccount = NoAccount  GenesisRoot = GenesisRoot  NoRoot = NoRoot
    NumWorkers = 2
    ChannelFactor = 1
    MinBatchSizeForParallel = 2
    TxSet <- Payments
    MaxTxs = 3
    MaxCalls = 2
    InitialAccounts <- MCAccounts
SPECIFICATION FairSpec
INVARIANTS EveryTransactionAnswered
PROPERTIES BatchCompletes ImplementsBatch
