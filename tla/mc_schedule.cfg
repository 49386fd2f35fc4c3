\* Every list of two to five transactions, nonces in any order.
CONSTANTS
    alice = alice  bob = bob  carol = carol
    Addr = {alice, bob, carol}
    Txs <- WithNonces
    MaxTxs = 5
SPECIFICATION FairSpec
INVARIANTS EveryTransactionOnce ResultIsPermutation NothingTooLate OrderInBatch
PROPERTIES ScheduleCompletes
