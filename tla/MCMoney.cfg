\* Stakes, slashes, bounties, escrow balances and token rotation.
SPECIFICATION SpecMoney
CONSTANTS
    Providers = {p1}
    Requesters = {r1}
    Challengers = {c1}
    ReceiptLeaves <- ForgedOnly
    Roots <- ForgedRoots
    Totals = {2}
    Groups = {"0"}
    Windows = {1}
    Lookbacks = {2}
    PoolWirings = {"EscrowPool"}
    BondWirings = {"StakeBond"}
    VerifierWirings = {"Ed25519Verifier"}
    MaxBatches = 1
    MaxTime = 1
    BondAmounts = {5, 50}
    SlashRates = {0, 5000, 10000}
    UnbondDelays = {1}
    StandardStake = 5
    CriticalStake = 50
    ReserveWallets = {"Foundation"}
    StorageSlashers = {"StorageSlashing"}
    MaxBonded = 55
    Depositors = {r1}
    Tokens = {"FTNS", "FTNS2"}
    Amounts = {2}
    MaxEscrow = 2
INVARIANTS
    BondSolvent
    EscrowBacked
    TierIsExposed
CHECK_DEADLOCK FALSE
