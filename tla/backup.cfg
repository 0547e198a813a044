SPECIFICATION PastSpec
CONSTANTS
    m1 = m1
    m2 = m2
    a1 = a1
    a2 = a2
    c1 = c1
    p1 = p1
    jan = jan
    feb = feb
    d1 = d1
    None = None
    Members = {m1, m2}
    Accounts = {a1, a2}
    Categories = {c1}
    Plans = {p1}
    Digests = {d1}
    Months = {jan}
    PastMonths = {jan}
    MaxRows = 1
    BatchInputs = {}
    Month <- MCMonth
    Normal <- MCNormal
    Facts <- BackupFacts
    Inputs <- BackupInputs
    Uploads <- BackupUploads
    Seed <- OneMember
    c2 = c2
    MaxReviewed = 2
    DeskPayments = {x1, x2, x3}
    DeskCategories = {c1, c2}
    Entries = {"Gym"}
    Pages = {t1}
    DeskForms = {v1}
    Expense = {"Gym"}
    Models = {}
    Requests = {}
    PartSize = 1
    Absent = Absent
    DeskContents <- HistoryContents
    DeskInputs <- HistoryInputs
    DeskNormal <- SampleNormal
    DeskSubject <- SampleSubject
    DeskRule <- SampleRule
    DeskHinted = {}
    DeskPlans = {b1}
    PlanForms <- HistoryPlans
    Mentions <- SampleMentions
SYMMETRY Interchangeable
INVARIANTS
    OnlyKnownObstacles
PROPERTIES
    RestoreBringsBack
    AcceptedInAgreement
    AcceptedAsDisplayed
