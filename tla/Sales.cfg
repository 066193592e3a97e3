\* One request of the office at a time and two clients on the public pages; two
\* invocations of the invoice's handlers at a time; two enquiries at a time, four
\* in a behaviour, with two e-mails and two phones.  Figures of two rows over a year
\* of twenty-four half days; two processes, one request for figures at a time and
\* two changes of the books.
SPECIFICATION SalesSpec
CONSTANTS
    Office = {o1}
    Clients = {c1, c2}
    Prices = {1, 2}
    OfferMixes <- Offers
    MaxJobs = 1
    NoOffer = NoOffer
    Requests = {r1, r2}
    Payments = {p1, p2}
    Amounts = {1, 2}
    Mixes <- Invoices
    MaxRef = 2
    NoRequest = NoRequest
    NoPayment = NoPayment
    NoRow = NoRow
    Callers = {c1, c2}
    Emails = {r1, r2}
    Phones = {p1, p2}
    Leads = {l1, l2}
    Customers = {x1, x2}
    Attempts = {a1}
    IntakeMixes <- Enquiries
    MaxCalls = 4
    NoRecord = NoRecord
    PerDay = 2
    DaysPerWeek = 2
    DaysPerMonth = 4
    MonthsPerYear = 3
    QuarterDays = 8
    Today = 53
    Staff = {r1, r2}
    MaxEntries = 2
    Processes = {c1, c2}
    Asks = {q1}
    MaxChanges = 2
    Unset = Unset
SYMMETRY Symmetry
INVARIANTS BookedOnceAsAgreed PaidExactlyWhenCovered
    OneLeadPerPerson RequestsGoThrough FiguresAreRight
PROPERTIES DecisionStands PaidIsNeverUndone
CHECK_DEADLOCK FALSE
