\* Deposits over reorganisations, failing scans, credits and restarts.
SPECIFICATION FairSpec
CONSTANTS
    Deposits = {d1, d2}
    Linked = {d1}
    Confirmations = 2
    MaxCatchup = 2
    MaxReorg = 2
    CreditFails = TRUE
    MaxHeight = 6
    MaxCrashes = 1
CHECK_DEADLOCK FALSE
INVARIANTS
    CreditedOnce
    CreditIsBacked
    NoneSkipped
PROPERTIES
    DeepDepositCredited
