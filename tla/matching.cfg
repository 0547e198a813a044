SPECIFICATION PartsSpec
CONSTANTS
    Keys = {1, 2, 3}
    None = None
    MaxStored = 3
    MaxLines = 4
    Clients = {c1, c2}
    Requests = {r1, r2}
    Refill = 2
    Burst = 4
    IdleTTL = 6
    MaxBuckets = 1
    Lag = 1
    LastTick = 8
    NoRequest = NoRequest
    Files = {f1, f2}
    MaxChanges = 2
    MaxGeneration = 1
    MaxGestures = 3
    NoToken = NoToken
SYMMETRY Interchangeable
INVARIANTS
    MatchesAreRecognised
    QuotaKept
    ClosedMeansGone
    QuietPageIsCurrent
    NobodyWaitsInVain
PROPERTIES
    RetryAfterHelps
CHECK_DEADLOCK FALSE
