\* An earner claims from an epoch that was reclaimed.
SPECIFICATION PoolSpec
CONSTANTS
    Accounts = {a1, a2}
    EpochIds = {1, 2}
    Publishers = {p1, p2}
    MIN_CLAIM_WINDOW = 1
    MaxFunds = 3
    MaxTime = 2
CHECK_DEADLOCK FALSE
INVARIANTS
    ClaimsFunded
