SPECIFICATION MCSpec
CONSTANTS
    MaxQuantity = 2
    Orders = {o1, o2}
    Fulfilled = o1
    Shipments = {s1, s2}
    Serialised = {s2}
    Requests = {p1, p2}
    MaxOrdered = 2
    MaxEdits = 1
    MaxHolds = 2
    CreditLimit = 2
    NoRequest = NoRequest
    w1 = w1
    w2 = w2
    w3 = w3
    v1 = v1
    Warehouses = {w1, w2, w3}
    Variants = {v1}
    ProductOf <- Single
    Transfers = {t1, t2}
    Handlers = {h1, h2}
    MaxSupplied = 3
    Transits = {w3, NoTransit}
    NoTransit = NoTransit
    NoErrand = NoErrand
    Consignments = {t1, t2}
    Openers = {h1, h2}
    NoCost = NoCost
    MaxOnHand = 3
    MaxMoves = 6
    MaxOpened = 3
    Costs <- SmallCosts
    Edited = k0
    Products = {k0, k1, k2, k3}
    Editors = {p1, p2}
    Terms = {1, 2}
    MaxRevisions = 3
    MaxDepth = 3
    Portions = {2}
    MaxEntries = 4
    NoTask = NoTask
    Unstated = Unstated
SYMMETRY Symmetry
CHECK_DEADLOCK FALSE
INVARIANTS
    OrdersConsistent
    RacesOnlyUnderstate
    ExposureWithinLimit
    LeavesOnce
    TransfersAddUp
    CostsAreFaithful
    RevisionsExplain
    KitsHold
