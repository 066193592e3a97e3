\* Two changes, a request, a retried launch and a worker; either may die, a live worker is faster than its lock.
SPECIFICATION FairPublicationSpec
CONSTANTS
    Events = {e1, e2}
    Workers = {w1}
    Requests = {r1}
    MaxAttempts = 2
    BatchSize = 1
    MaxRevision = 2
    MaxRetries = 1
    MayAbort = TRUE
    Timely = TRUE
    NoClaim = NoClaim
    NoEvent = NoEvent
INVARIANTS ReceiptIsCurrent
PROPERTIES LatestChangeConcludes
CHECK_DEADLOCK FALSE
