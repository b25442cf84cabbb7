SPECIFICATION Spec
CONSTANTS
    Invoices = {i1}
    Payments = {p1, p2}
    Notes = {}
    Requests = {r1, r2}
    Kinds = {"VERIFY", "ALLOCATE", "ISSUE"}
    GrandTotal = 2
    MaxAmount = 2
    NoteTotals = {1}
    MaxCredit = 2
    NoRequest = NoRequest
    NoInvoice = NoInvoice
CHECK_DEADLOCK FALSE
INVARIANTS
    NeverOverSettled
