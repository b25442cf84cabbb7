SPECIFICATION MCSpec
CONSTANTS
    Users = {u1}
    Calls = {p1, p2}
    Keys = {k1}
    Bodies = {x1, x2}
    MaxRows = 2
    MaxRevisions = 2
    MaxEdits = 1
    MaxOrders = 2
    Answers = {1, 2}
    Clerks = {p1, p2}
    Invoices = {x1, x2}
    Ordered = 2
    MaxWrittenOff = 2
    NoRequest = NoRequest
    NoCall = NoCall
    NoRow = NoRow
    NoAnswer = NoAnswer
    NoWork = NoWork
    NoTask = NoTask
    NoFigures = NoFigures
    PriceLists <- MCPriceLists
    Rules <- MCRules
    TaxChoices <- MCTaxChoices
    SnapshotRate = 28
    Quantities = {1, 3}
    OverridePrices = {7777}
    LastDay = 2
    MaxChanges = 1
    NoLine = NoLine
    NoRule = NoRule
    NoOverride = NoOverride
    NoCap = NoCap
    OpenEnded = OpenEnded
    Bills = {x1, x2}
    Notes = {p1, p2}
    Buyers <- MCBuyers
    MaxValue = 2
    Thresholds = {1, 2}
    LastMonth = 2
    MonthsInYear = 1
    NoDoc = NoDoc
SYMMETRY Symmetry
CHECK_DEADLOCK FALSE
INVARIANTS
    OneAnswerPerKey
    QuotationHolds
    NumbersAreGapless
    BilledOnce
    IssuedDocumentIsWhole
    PricesAreDefensible
    ReturnsReconcile
PROPERTIES
    IssuedStands
    WriteOffsAreOwed
