\* One engine and one request at a time, over three occurrences; forty days of
\* starts for the dates, a leap year and the February after it.
SPECIFICATION MCSpec
CONSTANTS
    Engines = {e1}
    Requests = {r1}
    Modes <- AllModes
    Period = 2
    Horizon = 7
    MaxBookings = 3
    NoRun = NoRun
    NoCall = NoCall
    Months = 15
    TimesOfDay = {0, 9}
    FirstOf <- FirstDays
    Rows = {1, 2, 3, 4}
    Foreign = {2}
    Instants = {1, 2}
    PageSizes = {1, 2}
    MaxChanges <- MCMaxChanges
    Unread = Unread
INVARIANTS OccurrencesBookedInOrder WalksAreWhole
PROPERTIES CatchesUp NoMonthIsSkipped
CHECK_DEADLOCK FALSE
