\* Every form a transaction may be handed over in.
CONSTANTS
    Addr = {alice, bob}
    NoAccount = NoAccount  GenesisRoot = GenesisRoot  NoRoot = NoRoot
    Payments <- MCPayments
    Forms <- MCForms
    Deposits = {0, 3}
    MaxSupply = 6
SPECIFICATION Spec
INVARIANTS TypeOK SpentInOrder NoOverdraft SupplyConserved RootFresh
