SPECIFICATION Spec
CONSTANTS
    MaxBookings = 3
    LastMonth = 4
    YearLength = 2
    Tabs = {t1, t2}
    Jobs = {}
    Keys = {}
    Typed = {}
    Bodies <- SomeBodies
    None = None
INVARIANTS
    NoPriceTwice
