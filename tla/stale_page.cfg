SPECIFICATION Spec
CONSTANTS
    Tabs = {t1}
    Uploads = {u1}
    Tokens = {k1}
    Households = {h1}
    MaxPreviews = 1
    MaxEra = 1
    MaxStarts = 2
    None = None
SYMMETRY Interchangeable
INVARIANTS
    NothingFromBeforeReset
