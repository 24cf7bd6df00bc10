\* Crashes, failing saves, lost answers and re-delivered receipts.
SPECIFICATION FairSpec
CONSTANTS
    Receipts = {r1, r2}
    Keys = {k1}
    KeyOf <- OneKey
    PersistOutcomes = {TRUE, FALSE}
    MaxTx = 3
    MaxCrashes = 2
    NoKey = NoKey
INVARIANTS
    TypeOK
    NothingStranded
PROPERTIES
    SettlesOnce
    LandedIsFinalized
CHECK_DEADLOCK FALSE
