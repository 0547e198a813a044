SPECIFICATION DialogSpec
CONSTANTS
    Tabs = {t1, t2}
    Contents <- FilledContents
    Fresh <- DraftFresh
    Unfilled <- DraftUnfilled
    Rejected <- FilledRejected
    Losable = {}
    MaxDialogs = 2
    Gone = Gone
PROPERTIES
    OnlyBlankDiscarded
CHECK_DEADLOCK FALSE
