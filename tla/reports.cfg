CONSTANTS
    None = None
    Persons <- MCPersons
    LastMonth = 2
    Current = 2
    MaxBookings = 2
    MaxOverrides = 1
    Forms <- MCForms
    Spans <- MCSpans
    Prices <- MCPrices
    Categories <- MCCategories
    Catalog <- MCCatalog
    CategoryForms <- MCCategoryForms
    Payments <- MCPayments
    Statement <- MCStatement
SPECIFICATION MCSpec
INVARIANTS
    
    CentsAddUp
    SettlementSquares
PROPERTY ClosedReportsStand
