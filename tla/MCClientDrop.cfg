\* Receipts that arrive under the key of an unresolved intent.
SPECIFICATION Spec
CONSTANTS
    Receipts = {r1, r2}
    Keys = {k1}
    KeyOf <- OneKey
    PersistOutcomes = {TRUE}
    MaxTx = 2
    MaxCrashes = 1
    NoKey = NoKey
SYMMETRY ReceiptSymmetry
PROPERTIES
    NoReceiptDropped
CHECK_DEADLOCK FALSE
