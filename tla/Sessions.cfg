SPECIFICATION MCSpec
CONSTANTS
    SessionIds = {s1, s2, s3}
    Requests = {p1, p2}
    MaxAttempts = 2
    MaxFailures = 3
    NoRequest = NoRequest
    Officers = {o1, o2}
    Required = {gst}
    Copies = {k1, k2}
    Contacts = {c1, c2}
    Nothing = Nothing
    Links = {s1, s2, s3}
    Callers = {p1, p2}
    NoErrand = NoErrand
SYMMETRY Symmetry
CHECK_DEADLOCK FALSE
INVARIANTS
    OneLiveSession
    RevokedStaysDead
    OnboardingHolds
    LinksHold
PROPERTIES
    FailuresAreCounted
