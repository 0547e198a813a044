SPECIFICATION InputSpec
CONSTANTS
    Tabs = {t1, t2}
    Contents <- DraftContents
    Fresh <- DraftFresh
    Unfilled <- DraftUnfilled
    Rejected = {}
    Losable = {"save"}
    MaxDialogs = 2
    Gone = Gone
    Datum = Datum
    Buchungstag = Buchungstag
    Payee = Payee
    Zweck = Zweck
    Betrag = Betrag
    Soll = Soll
    Haben = Haben
    SH = SH
    Waehrung = Waehrung
    IBAN = IBAN
    Konto = Konto
    Means <- MCMeans
    Files <- MCFiles
    Lines <- MCLines
    Asked <- MCAsked
    HeaderLimit = 2
    MaxPayments = 2
    MaxCents = 1000000
    MaxRows = 3
    None = None
SYMMETRY Either
INVARIANTS
    OpenDialogIsHonest
    NoDeadDrafts
    NumbersSpeak
    NothingGuessed
    RowsAreKept
    SignsAreKept
PROPERTIES
    DiscardSparesOwn
CHECK_DEADLOCK FALSE
