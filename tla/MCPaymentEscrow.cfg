\* Two callers and the sweep, two jobs, failing transfers and a crash.
SPECIFICATION FairSpec
CONSTANTS
    Jobs = {j1, j2}
    Tasks = {t1, t2}
    Sweeper = sweeper
    Requester = node
    Amount = 2
    Funds = 4
    Splits <- Plans
    LedgerErrors = {"ValueError", "other"}
    MaxEscrows = 2
    MaxCrashes = 1
    NoJob = NoJob
INVARIANTS
    EscrowAccounted
    OneLiveEscrow
PROPERTIES
    FinalizedOnce
    ExpiredSettles
