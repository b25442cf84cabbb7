SPECIFICATION TransferSpec
CONSTANTS
    w1 = w1
    w2 = w2
    w3 = w3
    v1 = v1
    v2 = v2
    MaxQuantity = 2
    NoTransit = NoTransit
    NoErrand = NoErrand
    Warehouses = {w1, w2}
    Variants = {v1, v2}
    ProductOf <- TwoVariants
    Transfers = {t1}
    Handlers = {p1}
    MaxSupplied = 3
    Transits = {NoTransit}
CHECK_DEADLOCK FALSE
INVARIANTS
    ShortReceiptsRecorded
