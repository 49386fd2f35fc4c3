\* Two validators and three rounds, speculation and parallel execution on, and
\* signatures that may fail: D = 1, one transaction to a block.
CONSTANTS
    alice = alice  bob = bob  carol = carol  dan = dan
    Addr = {alice, bob, carol, dan}
    NoAccount = NoAccount  GenesisRoot = GenesisRoot  NoRoot = NoRoot
    NumValidators = 2
    BlockSize = 1
    ExecutionDelay = 1
    QuorumNum = 67  QuorumDen = 100
    SpeculativeEnabled = TRUE
    ParallelRequested = TRUE
    MinParallelBatchSize = 1
    SimulateCompute = FALSE
    NumTransactions = 2
    NumRounds = 3
    SnapshotHorizon = 1
    TxSet <- OnePayment
    InitialAccounts <- MCAccounts
    SigningCanFail = TRUE
SPECIFICATION FairSpec
INVARIANTS TypeOK CertifiedChain ExecutionFollowsFinality DelayedRootStable
    SnapshotsSuffice SignedMeansVoted ReportAddsUp
PROPERTIES PublishedRootsKept Pipeline ExecutedEventually
