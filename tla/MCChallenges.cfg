\* Two providers, repeated receipts, every reason code, rewiring, and payment.
SPECIFICATION SpecUnpaused
CONSTANTS
    Providers = {p1, p2}
    Requesters = {r1}
    Challengers = {}
    ReceiptLeaves <- TwoLeaves
    Roots <- TwoRoots
    Totals = {3}
    Groups = {"0", "g1"}
    Windows = {1, 2}
    Lookbacks = {0, 1}
    PoolWirings = {"0x0", "EscrowPool"}
    BondWirings = {"0x0", "StakeBond"}
    VerifierWirings = {"0x0", "Ed25519Verifier"}
    MaxBatches = 1
    MaxTime = 2
    BondAmounts = {}
    SlashRates = {}
    UnbondDelays = {1}
    StandardStake = 5
    CriticalStake = 50
    ReserveWallets = {}
    StorageSlashers = {}
    MaxBonded = 0
    Depositors = {r1}
    Tokens = {"FTNS"}
    Amounts = {3}
    MaxEscrow = 3
SYMMETRY ProviderSymmetry
CONSTRAINT FewRewired
INVARIANTS
    PaidNetOfChallenges
    DoubleSpendSparesOriginal
PROPERTIES
    OwnerRejudgesNothing
CHECK_DEADLOCK FALSE
