SPECIFICATION EndingsSpec
CONSTANTS
    Browsers = {t1}
    Uploads = {u1, u2}
    Tokens = {k1}
    Households = {h1}
    MaxPreviews = 1
    MaxEra = 1
    MaxStarts = 1
    c1 = c1
    c2 = c2
    Payments = {p1, p2}
    Contents <- HistoryContents
    Normal <- SampleNormal
    Subject <- SampleSubject
    Categories = {c1}
    Entries = {"Sport"}
    Expense = {"Sport"}
    Rule <- SampleRule
    Hinted = {"Sport"}
    Plans = {}
    PlanForms = {}
    Mentions <- SampleMentions
    Models = {m1}
    Tabs = {}
    Reviews = {}
    Inputs = {}
    Requests = {r1, r2}
    PartSize = 1
    None = None
PROPERTIES
    UploadsEnd
    AnalysesEnd
