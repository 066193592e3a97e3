\* Thirteen settings of two browsers and two requests at a time; Redis may be down.
\* One notification that two workers may hold at once; they may die or, unless timely, be late.
SPECIFICATION MCSpec
CONSTANTS
    Devices = 2
    Tabs = {t1, t2}
    Rows = 3
    Credentials = 4
    MaxSessions = 2
    Passwords = 2
    Mixes <- MCMixes
    NoCall = NoCall
    Events = {e1}
    Workers = {w1, w2}
    MaxAttempts = 3
    BatchSize = 1
    MayAbort = TRUE
    NoClaim = NoClaim
INVARIANTS RefreshesMeetSafely OldCredentialsAreOut RowsAgree
PROPERTIES RevokedIsRefusedInTheEnd ImplementsLease EveryNotificationConcludes
CHECK_DEADLOCK FALSE
