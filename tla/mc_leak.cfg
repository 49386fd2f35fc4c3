\* Speculation together with parallel execution: whose effects are in a state root?
CONSTANTS
    alice = alice  bob = bob  carol = carol  dan = dan
    Addr = {alice, bob, carol, dan}
    NoAccount = NoAccount  GenesisRoot = GenesisRoot  NoRoot = NoRoot
    NumValidators = 2
    BlockSize = 1
    ExecutionDelay = 1
    QuorumNum = 67  QuorumDen = 100
    SpeculativeEnabled = TRUE
    ParallelRequested = TRUE
    MinParallelBatchSize = 1
    SimulateCompute = FALSE
    NumTransactions = 3
    NumRounds = 6
    SnapshotHorizon = 1
    TxSet <- TwoPayments
    InitialAccounts <- MCAccounts
    SigningCanFail = FALSE
SPECIFICATION Spec
INVARIANTS OwnEffectsOnly
