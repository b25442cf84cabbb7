SPECIFICATION MCSpec
CONSTANTS
    Invoices = {i1, i2}
    Payments = {p1}
    Notes = {n1}
    Requests = {r1, r2}
    Kinds = {"UPDATE", "VERIFY", "ALLOCATE", "REMOVE", "BOUNCE", "ISSUE", "CANCEL", "ISSUE_NOTE"}
    Single = i1
    Division = {"VERIFY", "ALLOCATE", "REMOVE", "BOUNCE", "ISSUE"}
    GrandTotal = 2
    MaxAmount = 2
    NoteTotals = {1}
    MaxCredit = 2
    NoRequest = NoRequest
    NoInvoice = NoInvoice
    Territories = {t1, t2, t3}
    Editors = {e1, e2}
    NoParent = NoParent
    NoEdit = NoEdit
    Users = {u1, u2}
    CustomRoles = {c1}
    Permissions = {create, verify}
    Separated <- MCSeparated
    Assignments <- MCAssignments
    SuperAdmin = SuperAdmin
    Everywhere = Everywhere
    Admins = {a1, a2}
    Lookups = {l1}
    NoChange = NoChange
    NoLookup = NoLookup
    NotCached = NotCached
SYMMETRY Symmetry
CHECK_DEADLOCK FALSE
INVARIANTS
    SettlementFollowsRows
    ReceiptsAddUp
    LedgerFollowsDocuments
    TreeHolds
    AuthorityHolds
