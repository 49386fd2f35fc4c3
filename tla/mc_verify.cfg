\* Delay 2: is a block verified once two blocks are on top of it?
CONSTANTS
    alice = alice  bob = bob  carol = carol  dan = dan
    Addr = {alice, bob, carol, dan}
    NoAccount = NoAccount  GenesisRoot = GenesisRoot  NoRoot = NoRoot
    NumValidators = 2
    BlockSize = 1
    ExecutionDelay = 2
    QuorumNum = 67  QuorumDen = 100
    SpeculativeEnabled = FALSE
    ParallelRequested = TRUE
    MinParallelBatchSize = 1
    SimulateCompute = FALSE
    NumTransactions = 2
    NumRounds = 4
    SnapshotHorizon = 1
    TxSet <- OnePayment
    InitialAccounts <- MCAccounts
    SigningCanFail = FALSE
SPECIFICATION FairSpec
PROPERTIES VerifiedEventually
