SPECIFICATION MCSpec
CONSTANTS
    Tenants <- MCTenants
    Keys <- MCKeys
    Parent <- MCParent
    Ttl = 3
    Horizon = 3
    Never = Never
    Accounts = {a1, a2}
    Requests = {r1, r2}
    Administrators = {s1, s2}
    Files = {f1}
    PlanIds = {1, 2}
    Stale = 1
    Mixes <- MCMixes
    Nothing = Nothing
    Checkouts = {k1, k2, k3}
    Payments = {p1, p2}
    CheckoutTtl = 1
    Period = 2
    Trial = 1
    MaxUses = 1
    Features = {website}
    WebsiteFeatures = {website}
    SeededFeatures = {website}
    Organizations = {a1, a2}
    Desks = {r1, r2}
    Supporters = {s1}
    SupportIds = {p1, p2}
    Unset = Unset
    Persons = {p1, p2}
    Mails = {a1, a2}
    Callers = {k1, k2, k3}
    Missing = Missing
SYMMETRY Symmetric
INVARIANTS ValidAnswersHold ProofsMatchCheckouts ExpiredIsPastItsEnd GoneLeavesNoFiles AccessEndsWithItsGrant AccountsAreWhole
PROPERTIES ExpiryJobOnlyRecords
CHECK_DEADLOCK FALSE
