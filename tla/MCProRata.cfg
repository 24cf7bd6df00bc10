\* The division of every small pot among four providers.
SPECIFICATION Spec
CONSTANTS
    Providers = {1, 2, 3, 4}
    MaxWeight = 4
    MaxPot = 6
CHECK_DEADLOCK FALSE
INVARIANTS
    SpendsThePot
    WithinOneUnit
    MoreWorkNoLess
    WholeUnitsKept
PROPERTIES
    Terminates
