SPECIFICATION BackupSpec
CONSTANTS
    m1 = m1
    m2 = m2
    a1 = a1
    a2 = a2
    c1 = c1
    p1 = p1
    jan = jan
    feb = feb
    d1 = d1
    None = None
    Members = {m1, m2}
    Accounts = {a1, a2}
    Categories = {c1}
    Plans = {p1}
    Digests = {d1}
    Months = {jan}
    PastMonths = {jan}
    MaxRows = 1
    BatchInputs = {}
    Month <- MCMonth
    Normal <- MCNormal
    Facts <- BackupFacts
    Inputs <- BackupInputs
    Uploads <- BackupUploads
    Seed <- OneMember
INVARIANTS
    BackupsAreRestorable
