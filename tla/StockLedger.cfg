SPECIFICATION FairSpec
CONSTANTS
    MaxQuantity = 2
    Txs = {t1, t2}
    b1 = b1
    b2 = b2
    Bins = {b1, b2}
    Plans <- MCPlans
INVARIANTS
    OnHandMatchesLedger
PROPERTIES
    ImplementsBook
    EveryTransactionEnds
