\* Bundled pauses, windows that move either way, and unbonding.
SPECIFICATION SpecBundled
CONSTANTS
    Providers = {p1}
    Requesters = {p1}
    Challengers = {}
    ReceiptLeaves <- OneLeaf
    Roots <- OneRoot
    Totals = {0}
    Groups = {"0"}
    Windows = {1, 2}
    Lookbacks = {0}
    PoolWirings = {"0x0"}
    BondWirings = {"StakeBond"}
    VerifierWirings = {"0x0"}
    MaxBatches = 2
    MaxTime = 4
    BondAmounts = {10}
    SlashRates = {10000}
    UnbondDelays = {1}
    StandardStake = 5
    CriticalStake = 50
    ReserveWallets = {}
    StorageSlashers = {}
    MaxBonded = 10
    Depositors = {p1}
    Tokens = {"FTNS"}
    Amounts = {}
    MaxEscrow = 0
CONSTRAINT PoolOpen
INVARIANTS
    TypeOK
    PauseLedgerExact
    FloorCoversPending
PROPERTIES
    FinalizeOnlyAfterOpenWindow
    WithdrawOnlyAfterExpiry
CHECK_DEADLOCK FALSE
