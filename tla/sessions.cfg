SPECIFICATION SessionsSpec
CONSTANTS
    Tabs = {t1}
    Uploads = {u1, u2}
    Tokens = {k1, k2}
    Households = {h1, h2}
    MaxPreviews = 1
    MaxEra = 2
    MaxStarts = 2
    None = None
    Handlers = {r1, r2}
    MaxIds = 3
SYMMETRY Interchangeable
INVARIANTS
    NothingStaleWhileRunning
    PreviewsFitTheData
    OnlyKnownLapses
