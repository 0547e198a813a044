SPECIFICATION Spec
CONSTANTS
    MaxBookings = 3
    LastMonth = 4
    YearLength = 2
    Tabs = {t1}
    Jobs = {j1}
    Keys = {rent}
    Typed <- ByHand
    Bodies <- SomeBodies
    None = None
INVARIANTS
    OneCurrentPrice
    CountedOnce
    AlwaysCarriedOn
PROPERTIES
    NothingLost
