SPECIFICATION ReturnSpec
CONSTANTS
    Bills = {x1, x2}
    Notes = {n1}
    Buyers <- MCBuyers
    MaxValue = 2
    Thresholds = {1, 2}
    LastMonth = 2
    MonthsInYear = 1
    NoDoc = NoDoc
CHECK_DEADLOCK FALSE
INVARIANT
    LiabilityCountsNoDraft
