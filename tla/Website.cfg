SPECIFICATION MCSpec
CONSTANTS
    Tabs = {t1, t2}
    Images = {i1}
    Forms = {m, f}
    Managed = {m}
    Services = {s1}
    SetupSteps <- MCSteps
    MaxNumber = 5
    MaxEdits = 3
    Mixes <- MCMixes
    None = None
    Sites = {x, y}
    Names = {"a", "b"}
    Candidates <- MCCandidates
    Handlers = {h1}
    Lookups = {l1}
    MaxGeneration = 2
    MaxMoves = 3
    AddressMixes <- MCAddressMixes
    Nobody = Nobody
    Owners = {o1, o2}
    Domains = {d1, d2}
    Calls = {c1, c2}
    DomainLimit = 2
    MaxRequests = 5
    DomainMixes <- MCDomainMixes
    Absent = Absent
    BookForms = {own, other}
    OwnForm = own
    MaxChanges = 2
    MaxAsks = 2
    SiteMixes <- MCSiteMixes
    Nil = Nil
INVARIANTS LiveSiteIsKnown AddressesLeadHome PrimaryIsReady VisitorsSeeWhatIsLive
PROPERTIES DraftsAreChangedKnowingly
SYMMETRY MCSymmetry
CHECK_DEADLOCK FALSE
