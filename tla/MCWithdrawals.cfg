\* Two withdrawals over crashes, evictions, failing saves and credits.
SPECIFICATION FairSpec
CONSTANTS
    Jobs = {j1, j2}
    Wallets = {w1}
    WalletOf <- OneWallet
    Funds = 2
    NullReceipts = TRUE
    SaveOutcomes = {TRUE, FALSE}
    MaxNonce = 3
    MaxCrashes = 1
    NoJob = NoJob
CHECK_DEADLOCK FALSE
INVARIANTS
    TypeOK
    NoDoublePay
    NothingMinted
    SignatureUsedOnce
PROPERTIES
    RevertedIsRefunded
