\* A dropped withdrawal, with the receipts web3 gives.
SPECIFICATION FairSpec
CONSTANTS
    Jobs = {j1, j2}
    Wallets = {w1}
    WalletOf <- OneWallet
    Funds = 2
    NullReceipts = FALSE
    SaveOutcomes = {TRUE}
    MaxNonce = 2
    MaxCrashes = 0
    NoJob = NoJob
CHECK_DEADLOCK FALSE
PROPERTIES
    DroppedIsRefunded
