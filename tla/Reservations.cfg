SPECIFICATION FairSpec
CONSTANTS
    MaxQuantity = 2
    Bins = {b1}
    Reservations = {r1, r2}
    Users = {u1, u2}
    Sweepers = {w1}
    SweepBatch = 1
    NoRequest = NoRequest
INVARIANTS
    HoldNeverOutlivesReservation
    ReservedMatchesUnlessRaced
PROPERTIES
    ClosesOnce
    StaleHoldsEnd
