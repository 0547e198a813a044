SPECIFICATION ReviewsSpec
CONSTANTS
    m1 = m1
    m2 = m2
    a1 = a1
    a2 = a2
    c1 = c1
    p1 = p1
    jan = jan
    feb = feb
    d1 = d1
    None = None
    Members = {m1, m2}
    Accounts = {a1, a2}
    Categories = {c1}
    Plans = {}
    Digests = {d1}
    Months = {jan, feb}
    PastMonths = {jan, feb}
    MaxRows = 2
    Month <- MCMonth
    Normal <- MCNormal
    Facts <- ReviewFacts
    Inputs <- ReviewInputs
    BatchInputs <- ReviewBatches
    Uploads <- ReviewUploads
    Seed <- OneEach
    c2 = c2
    DeskPayments = {x1}
    DeskCategories = {c1}
    Entries = {"Club", "Bonus"}
    Expense = {"Club"}
    Models = {q1}
    Pages = {s1}
    DeskForms = {v1}
    Requests = {r1}
    PartSize = 1
    Absent = Absent
    DeskContents <- AnalysisContents
    DeskInputs <- AnalysisInputs
    DeskNormal <- SampleNormal
    DeskSubject <- SampleSubject
    DeskRule <- SampleRule
    DeskHinted = {"Club"}
    DeskPlans = {}
    PlanForms <- AnalysisPlans
    Mentions <- SampleMentions
INVARIANTS
    OneDefaultAccount
    ClosedMonthsReviewed
    NoSilentDuplicate
    ReuploadAddsNothing
    AnswersFitPayments
PROPERTIES
    ClosedHistoryFrozen
    KeepsReviewBook
    OnlyFreshAnswers
    DecisionsStand
