\* The validators' own mempools after a block was added.
CONSTANTS
    alice = alice  bob = bob  carol = carol  dan = dan
    Addr = {alice, bob, carol, dan}
    NoAccount = NoAccount  GenesisRoot = GenesisRoot  NoRoot = NoRoot
    NumValidators = 2
    BlockSize = 1
    ExecutionDelay = 1
    QuorumNum = 67  QuorumDen = 100
    SpeculativeEnabled = FALSE
    ParallelRequested = TRUE
    MinParallelBatchSize = 1
    SimulateCompute = FALSE
    NumTransactions = 2
    NumRounds = 4
    SnapshotHorizon = 1
    TxSet <- TwoPayments
    InitialAccounts <- MCAccounts
    SigningCanFail = FALSE
SPECIFICATION Spec
INVARIANTS NoTransactionIncludedTwice
