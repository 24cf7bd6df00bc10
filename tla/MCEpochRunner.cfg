\* The epoch job over crashes, lost answers and late transactions.
SPECIFICATION FairSpec
CONSTANTS
    Accounts = {a1}
    EpochIds = {1, 2, 3}
    Publishers = {p1, p2}
    MIN_CLAIM_WINDOW = 1
    MaxFunds = 2
    MaxTime = 2
    Batches = {b1, b2}
    ProviderOf <- OneProvider
    Job = p1
    MaxSent = 3
CHECK_DEADLOCK FALSE
INVARIANTS
    TypeOK
    OneEpochAhead
    PaidOnce
    ManifestCovers
    Solvent
    ReserveIsOwed
PROPERTIES
    LaterEpochsRecovered
