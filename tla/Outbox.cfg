SPECIFICATION MCSpec
CONSTANTS
    Events = {e1, e2}
    Workers = {w1, w2}
    Routed = {e1}
    BatchSize = 2
    MaxAttempts = 2
    JobAttempts = 2
    MaxForgets = 1
    Mailboxes = {m1, m2}
    NoMailbox = NoMailbox
    Mailed = e1
    Mailman = w1
CHECK_DEADLOCK FALSE
INVARIANTS
    OneHolder
    ProcessedHasJob
    DeliveredOnce
    MailIsAccountedFor
PROPERTIES
    SettledStaysSettled
    HandledOrParked
