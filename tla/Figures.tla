-------------------------------- MODULE Figures --------------------------------
(* The figures a tenant is shown (overview, revenue page, reports), those the  *)
(* office is shown of the platform, and the versioned caches they come from.   *)
(*                                                                             *)
(* A behaviour is either about the figures, computed on the spot from every    *)
(* small book, or about the caches, where of the figures only their age is     *)
(* kept: the number of changes the books had seen when they were computed.     *)
(* Every amount is 1; rounding, currencies and the wording of labels are data. *)
EXTENDS Integers, Sequences, FiniteSetsExt

CONSTANTS
    PerDay, DaysPerWeek, DaysPerMonth, MonthsPerYear,  \* the calendar
    QuarterDays,     \* the length of the period called "90d"
    Today,           \* the instant the figures are asked for
    Staff,           \* members of the crew
    MaxEntries,      \* entries in the books
    Processes,       \* server processes
    Asks,            \* requests in progress
    MaxChanges,      \* changes of the books
    Unset

ASSUME FiguresAssumption ==
    /\ {PerDay, DaysPerWeek, DaysPerMonth, MonthsPerYear, QuarterDays} \subseteq Nat \ {0}
    /\ {Today, MaxEntries, MaxChanges} \subseteq Nat
    /\ DaysPerMonth % DaysPerWeek = 0

VARIABLES
    books,      \* the rows the figures are computed from
    view,       \* [period, leap, about]: the period chosen, whether the last twelve months
                \* had a leap day, and the kind of rows in the books
    changes,    \* changes of the books, committed
    pending,    \* Processes -> the keys of its last change whose copies it has still to drop,
                \* and those whose versions it has still to increment
    versions,   \* Keys -> the number of changes each version announced; the length is the version in Redis
    up,         \* Redis answers
    copy,       \* Processes -> Keys -> its own copy of the version, or Unset
    responses,  \* version of the page -> the response kept under it, or Unset
    results,    \* version of the figures -> the figures kept under it, or Unset
    asks        \* Asks -> the request in progress

cacheVars == <<changes, pending, versions, up, copy, responses, results, asks>>
figureVars == <<books, view, cacheVars>>

Periods == {"7d", "30d", "90d", "12m"}

--------------------------------------------------------------------------------
(* The calendar.  A month is a whole number of weeks.  "12m" is the same day   *)
(* of last year on the revenue page and in the reports, but 365 days on the    *)
(* overview: a day less if there was a leap day in between.                    *)

Day(t) == t \div PerDay
Weekday(t) == Day(t) % DaysPerWeek
Month(t) == Day(t) \div DaysPerMonth
Name(month) == month % MonthsPerYear
DayOfMonth(t) == Day(t) % DaysPerMonth

Length(period) ==
    PerDay * (CASE period = "7d" -> DaysPerWeek [] period = "30d" -> DaysPerMonth
                [] period = "90d" -> QuarterDays [] OTHER -> MonthsPerYear * DaysPerMonth)

OverviewLength(period) == Length(period) - (IF view.leap /\ period = "12m" THEN PerDay ELSE 0)

From(period) == Today - Length(period)
OverviewFrom(period) == Today - OverviewLength(period)
Within(rows, first, last) == {r \in rows : first <= r.at /\ r.at <= last}
InPeriod(rows, period) == Within(rows, From(period), Today)
InOverview(rows, period) == Within(rows, OverviewFrom(period), Today)

--------------------------------------------------------------------------------
(* The books *)

\* What a row is about: an invoice has a status and, once paid, a service; a job a
\* status, a date it is planned for, a service and a crew; a client a number of
\* bookings.  at: when it was paid, spent, last changed, created.
Paid(service, t) == [kind |-> "paid", at |-> t, service |-> service]
Open(status, t) == [kind |-> "open", at |-> t, status |-> status]
Expense(t) == [kind |-> "expense", at |-> t]
Job(status, due, t, crew) ==
    [kind |-> "job", status |-> status, due |-> due, at |-> t, service |-> "named", crew |-> crew]
Client(bookings, t) == [kind |-> "client", at |-> t, bookings |-> bookings]
Fee(t) == [kind |-> "fee", at |-> t]

RowsOf(kind) == {r \in books : r.kind = kind}
Count(rows) == Cardinality(rows)
Completed(rows) == {r \in rows : r.status = "COMPLETED"}

\* A chart: its labels, and for each label the rows that are added up under it.
Chart(rows, labels, label) == [l \in labels |-> {r \in rows : label[r] = l}]
ByLabel(rows, label) == Chart(rows, {label[r] : r \in rows}, label)
ChartTotal(chart) == MapThenSumSet(LAMBDA l : Count(chart[l]), DOMAIN chart)

--------------------------------------------------------------------------------
(* The overview *)

OverviewLabel(period, t) ==
    CASE period = "7d" -> <<"weekday", Weekday(t)>>
      [] period = "30d" -> <<"day", Name(Month(t)), DayOfMonth(t)>>
      [] OTHER -> <<"month", Name(Month(t))>>

\* The labels that are shown whether or not there is anything under them: the last
\* days or months.  The period begins at this time of an earlier day, so that it may
\* touch one day, or one month, more than these.
Prefilled(period) ==
    IF period \in {"7d", "30d"}
    THEN {OverviewLabel(period, Today - i * PerDay) : i \in 0 .. OverviewLength(period) \div PerDay - 1}
    ELSE LET points == IF period = "90d" THEN QuarterDays \div DaysPerMonth + 1 ELSE MonthsPerYear
         IN {<<"month", Name(Month(Today) + MonthsPerYear - i)>> : i \in 0 .. points - 1}

OverviewChart(rows, period) ==
    Chart(rows, Prefilled(period) \cup {OverviewLabel(period, r.at) : r \in rows},
          [r \in rows |-> OverviewLabel(period, r.at)])

OverviewSummary(period) == [
    revenue |-> Count(InOverview(RowsOf("paid"), period)),
    jobs |-> Count(InOverview(Completed(RowsOf("job")), period)),
    clients |-> Count(RowsOf("client")),
    clientsBefore |-> Count({r \in RowsOf("client") : r.at < OverviewFrom(period)})]

RevenueInsight(period) == [
    revenue |-> OverviewChart(InOverview(RowsOf("paid"), period), period),
    jobs |-> OverviewChart(InOverview(Completed(RowsOf("job")), period), period),
    clients |-> OverviewChart(InOverview(RowsOf("client"), period), period)]

--------------------------------------------------------------------------------
(* The revenue page and the reports *)

\* The same label on the page and in the reports, but the page does not add up the
\* days of one label.
DateBucket(period, t) ==
    CASE period = "7d" -> Weekday(t) [] period = "30d" -> DayOfMonth(t) \div DaysPerWeek
      [] OTHER -> Name(Month(t))
PageBucket(period, t) == IF period \in {"7d", "30d"} THEN Day(t) ELSE Month(t)

PreviousOfPage(rows, period) == Within(rows, From(period) - Length(period), From(period))
PreviousOfReport(rows, period) == Within(rows, From(period) - Length(period), From(period) - PerDay)

Outstanding(statuses) == Count({r \in RowsOf("open") : r.status \in statuses})

RevenuePage(period) ==
    LET paid == InPeriod(RowsOf("paid"), period)
        spent == InPeriod(RowsOf("expense"), period)
        ByBucket(rows) == ByLabel(rows, [r \in rows |-> PageBucket(period, r.at)]) IN
    [revenue |-> Count(paid), expenses |-> Count(spent), profit |-> Count(paid) - Count(spent),
     outstanding |-> Outstanding({"SENT", "OVERDUE"}),
     jobs |-> Count(InPeriod(Completed(RowsOf("job")), period)),
     revenueChart |-> ByBucket(paid), expenseChart |-> ByBucket(spent),
     byService |-> ByLabel(paid, [r \in paid |-> r.service]),
     byStaff |-> [s \in Staff |-> {r \in InPeriod(Completed(RowsOf("job")), period) : s \in r.crew}]]

RevenueReport(period) ==
    LET paid == InPeriod(RowsOf("paid"), period)
        spent == InPeriod(RowsOf("expense"), period)
        ByBucket(rows) == ByLabel(rows, [r \in rows |-> DateBucket(period, r.at)]) IN
    [revenue |-> Count(paid), expenses |-> Count(spent), profit |-> Count(paid) - Count(spent),
     outstanding |-> Outstanding({"DRAFT", "SENT", "OVERDUE", "CANCELLED"}),
     revenueChart |-> ByBucket(paid), expenseChart |-> ByBucket(spent),
     byService |-> ByLabel(paid, [r \in paid |-> r.service])]

\* The jobs planned for the period.
Planned(period) == {r \in RowsOf("job") : From(period) <= r.due /\ r.due <= Today}

JobCompletionReport(period) ==
    LET jobs == Planned(period) IN
    [total |-> Count(jobs), completed |-> Count(Completed(jobs)),
     chart |-> ByLabel(jobs, [r \in jobs |-> DateBucket(period, r.due)]),
     byService |-> ByLabel(jobs, [r \in jobs |-> r.service]),
     byStaff |-> [s \in UNION {r.crew : r \in jobs} |-> {r \in jobs : s \in r.crew}]]

StaffPerformanceReport(period) ==
    LET jobs == Planned(period)
        Mine(s) == {r \in jobs : s \in r.crew} IN
    [totalJobs |-> Count(jobs), completedJobs |-> Count(Completed(jobs)),
     staff |-> [s \in UNION {r.crew : r \in jobs} |->
                   [total |-> Count(Mine(s)), completed |-> Count(Completed(Mine(s))),
                    cancelled |-> Count({r \in Mine(s) : r.status = "CANCELLED"})]]]

ClientRetentionReport(period) ==
    LET new == InPeriod(RowsOf("client"), period) IN
    [total |-> Count(RowsOf("client")),
     repeat |-> Count({r \in RowsOf("client") : r.bookings > 1}),
     oneTime |-> Count({r \in RowsOf("client") : r.bookings <= 1}),
     new |-> Count(new),
     acquisition |-> ByLabel(new, [r \in new |-> DateBucket(period, r.at)])]

\* The page of a member of the crew: the week begins at midnight of its first day.
StaffDashboard(s) ==
    LET mine == {r \in RowsOf("job") : s \in r.crew}
        weekStart == (Day(Today) - Weekday(Today)) * PerDay
        tomorrow == (Day(Today) + 1) * PerDay IN
    [today |-> {r \in mine : /\ r.status # "CANCELLED"
                             /\ Day(Today) * PerDay <= r.due /\ r.due < tomorrow},
     upcoming |-> {r \in mine : /\ r.status # "CANCELLED"
                                /\ tomorrow <= r.due /\ r.due <= Today + DaysPerWeek * PerDay},
     thisWeek |-> Count({r \in mine : weekStart <= r.due /\ r.due <= Today}),
     lastWeek |-> Count({r \in mine : weekStart - DaysPerWeek * PerDay <= r.due /\ r.due < weekStart}),
     weekCompleted |-> Count(Within(Completed(mine), weekStart, Today)),
     completed |-> Count(Completed(mine))]

--------------------------------------------------------------------------------
(* The platform *)

\* A week is named after its second day: its first day belongs to the week that
\* begins with the day after it.
PlatformInterval(period) ==
    CASE period = "7d" -> "daily" [] period = "30d" -> "weekly" [] OTHER -> "monthly"
TimelineKey(interval, t) ==
    CASE interval = "daily" -> Day(t)
      [] interval = "weekly" -> Day(t) - Weekday(t) + 1
      [] OTHER -> Month(t)

PlatformRevenue(period) ==
    LET paid == InPeriod(RowsOf("fee"), period) IN
    [total |-> Count(paid),
     timeline |-> ByLabel(paid, [r \in paid |-> TimelineKey(PlatformInterval(period), r.at)])]

StartOfMonth(month) == month * DaysPerMonth * PerDay
PlatformStats == [
    thisMonth |-> Count(Within(RowsOf("fee"), StartOfMonth(Month(Today)), Today)),
    lastMonth |-> Count(Within(RowsOf("fee"), StartOfMonth(Month(Today) - 1),
                               StartOfMonth(Month(Today)) - PerDay))]
--------------------------------------------------------------------------------
(* The books fill.  A behaviour about figures has rows of one kind. *)

\* Cached: the caches, with Redis answering or not always, or of a page whose
\* responses go by another version than the figures in them.
Abouts == {"money", "jobs", "clients", "fees", "reliable", "failing", "apart"}

\* The two lengths before today, and the days jobs are planned for.
Past(period) == From(period) - Length(period) .. Today
Due(period) == {From(period) - 1, From(period), Today + PerDay}
Changed(period) == {From(period) - 1, From(period), OverviewFrom(period) - 1, OverviewFrom(period), Today}

Writable ==
    LET p == view.period IN
    CASE view.about = "money" -> {Paid(s, t) : s \in {"named", "other"}, t \in Past(p)}
            \cup {Expense(t) : t \in Past(p)}
            \cup {Open(s, Today) : s \in {"DRAFT", "SENT", "OVERDUE", "CANCELLED"}}
      [] view.about = "jobs" -> {Job(s, due, t, crew) :
            s \in {"SCHEDULED", "COMPLETED", "CANCELLED"}, due \in Due(p), t \in Changed(p), crew \in SUBSET Staff}
      [] view.about = "clients" -> {Client(b, t) : b \in {1, 2}, t \in Past(p)}
      [] view.about = "fees" -> {Fee(t) : t \in Past(p)}
      [] OTHER -> {}

Record(row) ==
    /\ Cardinality(books) < MaxEntries
    /\ books' = books \cup {row}
    /\ UNCHANGED <<view, cacheVars>>

--------------------------------------------------------------------------------
(* The caches of one kind of figures, one period and one user *)

Cached == view.about \in {"reliable", "failing", "apart"}

\* The dashboard and the revenue report go by one version, "dashboard" or "reports",
\* for their responses and their figures; the responses of the three other reports
\* go by that of their path: "staff", "jobs" or "clients".
Keys == {"figures", "page"}
PageKey == IF view.about = "apart" THEN "page" ELSE "figures"

NotAsked == [at |-> "rest", process |-> Unset, outer |-> Unset, inner |-> Unset, age |-> Unset, blind |-> FALSE]
Stage(q, stage) == asks[q].at = stage
Goes(q, request) == asks' = [asks EXCEPT ![q] = request]
Keeps(store, n, q) == [store EXCEPT ![n] = [age |-> asks[q].age, blind |-> asks[q].blind]]

\* A process goes by its own copy of a version for two seconds; version 0 when Redis
\* does not answer.
Version(p, key) ==
    CASE copy[p][key] # Unset -> copy[p][key] [] up -> Len(versions[key]) [] OTHER -> 0
Blind(p, key) == copy[p][key] = Unset /\ ~up
GetCacheResourceVersion(p, key) ==
    copy' = IF Blind(p, key) THEN copy ELSE [copy EXCEPT ![p][key] = Version(p, key)]

\* An export is not kept as a response; its figures are.
Ask(q, p, export) ==
    /\ Cached /\ Stage(q, "rest")
    /\ IF export
       THEN Goes(q, [NotAsked EXCEPT !.at = "figures", !.process = p]) /\ UNCHANGED copy
       ELSE /\ Goes(q, [NotAsked EXCEPT !.at = "look up", !.process = p, !.outer = Version(p, PageKey), !.blind = Blind(p, PageKey)])
            /\ GetCacheResourceVersion(p, PageKey)
    /\ UNCHANGED <<books, view, changes, pending, versions, up, responses, results>>

LookUp(q) ==
    /\ Stage(q, "look up")
    /\ IF up /\ responses[asks[q].outer] # Unset
       THEN Goes(q, NotAsked)
       ELSE Goes(q, [asks[q] EXCEPT !.at = "figures"])
    /\ UNCHANGED <<books, view, changes, pending, versions, up, copy, responses, results>>

\* The handler reads the version of the figures.
ReadVersion(q) ==
    LET p == asks[q].process IN
    /\ Stage(q, "figures")
    /\ Goes(q, [asks[q] EXCEPT !.at = "look up figures", !.inner = Version(p, "figures"), !.process = Unset,
                               !.blind = asks[q].blind \/ Blind(p, "figures")])
    /\ GetCacheResourceVersion(p, "figures")
    /\ UNCHANGED <<books, view, changes, pending, versions, up, responses, results>>

LookUpFigures(q) ==
    LET found == results[asks[q].inner] IN
    /\ Stage(q, "look up figures")
    /\ IF up /\ found # Unset
       THEN Goes(q, [asks[q] EXCEPT !.at = "respond", !.age = found.age,
                                    !.blind = asks[q].blind \/ found.blind])
       ELSE Goes(q, [asks[q] EXCEPT !.at = "compute"])
    /\ UNCHANGED <<books, view, changes, pending, versions, up, copy, responses, results>>

\* Several queries outside a transaction: the age is that of the first one.
Compute(q) ==
    /\ Stage(q, "compute")
    /\ Goes(q, [asks[q] EXCEPT !.at = "keep", !.age = changes])
    /\ UNCHANGED <<books, view, changes, pending, versions, up, copy, responses, results>>

SetCache(q) ==
    /\ Stage(q, "keep")
    /\ Goes(q, [asks[q] EXCEPT !.at = "respond"])
    /\ results' = IF up THEN Keeps(results, asks[q].inner, q) ELSE results
    /\ UNCHANGED <<books, view, changes, pending, versions, up, copy, responses>>

\* A response is kept under the version that was read before it was looked for, not
\* under the newest one.
KeptUnderNewest(q) == IF asks[q].outer = Unset THEN Unset ELSE Len(versions[PageKey])
KeptUnder(q) == asks[q].outer
PersistCacheEntry(q) ==
    /\ Stage(q, "respond")
    /\ Goes(q, NotAsked)
    /\ responses' = IF up /\ KeptUnder(q) # Unset THEN Keeps(responses, KeptUnder(q), q) ELSE responses
    /\ UNCHANGED <<books, view, changes, pending, versions, up, copy, results>>

--------------------------------------------------------------------------------
(* Changes of the books: committed, the process's own copies dropped, announced. *)

\* The service and the controller announce a change one after the other, neither
\* waiting for the service's announcement, and not every change is announced to every
\* version: a leave to "staff" alone, an invoice to "reports" alone.
Announced(p) == pending[p] = [copy |-> {}, version |-> {}]
ChangeBooks(p, keys) ==
    /\ Cached /\ changes < (IF view.about = "reliable" THEN MaxChanges ELSE 1)
    /\ keys \subseteq {"figures", PageKey} /\ keys # {} /\ Announced(p)
    /\ changes' = changes + 1
    /\ pending' = [pending EXCEPT ![p].copy = keys]
    /\ UNCHANGED <<books, view, versions, up, copy, responses, results, asks>>

DropCopies(p, keys) ==
    /\ keys \subseteq pending[p].copy /\ keys # {}
    /\ pending' = [pending EXCEPT ![p] = [copy |-> @.copy \ keys, version |-> @.version \cup keys]]
    /\ copy' = [copy EXCEPT ![p] = [key \in Keys |-> IF key \in keys THEN Unset ELSE @[key]]]
    /\ UNCHANGED <<books, view, changes, versions, up, responses, results, asks>>

\* A change is not announced when Redis does not answer.
BumpCacheResourceVersion(p, key) ==
    /\ key \in pending[p].version
    /\ pending' = [pending EXCEPT ![p].version = @ \ {key}]
    /\ versions' = IF up THEN [versions EXCEPT ![key] = Append(@, changes)] ELSE versions
    /\ UNCHANGED <<books, view, changes, up, copy, responses, results, asks>>

CopyExpires(p, key) ==
    /\ copy[p][key] # Unset /\ copy' = [copy EXCEPT ![p][key] = Unset]
    /\ UNCHANGED <<books, view, changes, pending, versions, up, responses, results, asks>>

EntryExpires(n) ==
    /\ \/ responses[n] # Unset /\ responses' = [responses EXCEPT ![n] = Unset] /\ UNCHANGED results
       \/ results[n] # Unset /\ results' = [results EXCEPT ![n] = Unset] /\ UNCHANGED responses
    /\ UNCHANGED <<books, view, changes, pending, versions, up, copy, asks>>

\* The user signs out, or changes: every response of theirs goes.
InvalidatePrivateResponseCacheForUser ==
    /\ up /\ responses' = [n \in 0 .. MaxChanges |-> Unset] /\ responses' # responses
    /\ UNCHANGED <<books, view, changes, pending, versions, up, copy, results, asks>>

RedisFailsOrReturns ==
    /\ view.about = "failing" /\ up' = ~up
    /\ UNCHANGED <<books, view, changes, pending, versions, copy, responses, results, asks>>

--------------------------------------------------------------------------------
InitFigures(abouts) ==
    /\ books = {} /\ view \in [period : Periods, leap : BOOLEAN, about : abouts]
    /\ view.about \notin {"money", "jobs", "clients", "fees"} => view.period = "7d"
    /\ view.leap => view.period = "12m" /\ view.about # "fees"
    /\ changes = 0 /\ versions = [key \in Keys |-> <<>>] /\ up = TRUE
    /\ pending = [p \in Processes |-> [copy |-> {}, version |-> {}]]
    /\ copy = [p \in Processes |-> [key \in Keys |-> Unset]]
    /\ responses = [n \in 0 .. MaxChanges |-> Unset]
    /\ results = [n \in 0 .. MaxChanges |-> Unset]
    /\ asks = [q \in Asks |-> NotAsked]

FiguresNext ==
    \/ \E row \in Writable : Record(row)
    \/ \E q \in Asks, p \in Processes, b \in BOOLEAN : Ask(q, p, b)
    \/ \E q \in Asks : \/ LookUp(q) \/ ReadVersion(q) \/ LookUpFigures(q) \/ Compute(q)
                       \/ SetCache(q) \/ PersistCacheEntry(q)
    \/ \E p \in Processes, keys \in SUBSET Keys : ChangeBooks(p, keys) \/ DropCopies(p, keys)
    \/ \E p \in Processes, key \in Keys : BumpCacheResourceVersion(p, key) \/ CopyExpires(p, key)
    \/ \E n \in 0 .. MaxChanges : EntryExpires(n)
    \/ InvalidatePrivateResponseCacheForUser \/ RedisFailsOrReturns

--------------------------------------------------------------------------------
(* Figures that are shown in several places, or as a total and as a chart, are the
   same figures: the first days of a period are not lost because the labels that
   are prefilled do not reach them, and what is counted by label, service or member
   adds up.  The overview of twelve months may have less than the page, and only when
   there was a leap day. *)
Same(overview, page) == overview <= page /\ (view.leap \/ overview = page)
FiguresAgree == \A period \in {view.period} :
    /\ view.about = "money" =>
        LET page == RevenuePage(period)
            report == RevenueReport(period)
            insight == RevenueInsight(period) IN
        /\ page.revenue = report.revenue
        /\ ChartTotal(insight.revenue) = OverviewSummary(period).revenue
        /\ Same(OverviewSummary(period).revenue, page.revenue)
        /\ \A shown \in {page, report} :
            /\ ChartTotal(shown.revenueChart) = shown.revenue
            /\ ChartTotal(shown.byService) = shown.revenue
            /\ ChartTotal(shown.revenueChart) - ChartTotal(shown.expenseChart) = shown.profit
        /\ page.outstanding <= report.outstanding
        /\ PreviousOfReport(RowsOf("paid"), period) \subseteq PreviousOfPage(RowsOf("paid"), period)
    /\ view.about = "jobs" =>
        LET page == RevenuePage(period)
            report == JobCompletionReport(period)
            performance == StaffPerformanceReport(period) IN
        /\ ChartTotal(RevenueInsight(period).jobs) = OverviewSummary(period).jobs
        /\ Same(OverviewSummary(period).jobs, page.jobs)
        /\ {ChartTotal(report.chart), ChartTotal(report.byService), performance.totalJobs} = {report.total}
        /\ \A s \in DOMAIN report.byStaff :
            /\ performance.staff[s].total = Count(report.byStaff[s])
            /\ performance.staff[s].completed = Count(Completed(report.byStaff[s]))
        /\ \A s \in Staff :
            /\ StaffDashboard(s).weekCompleted <= Count(RevenuePage("7d").byStaff[s])
            /\ StaffDashboard(s).today \cap StaffDashboard(s).upcoming = {}
    /\ view.about = "clients" =>
        LET report == ClientRetentionReport(period)
            summary == OverviewSummary(period) IN
        /\ ChartTotal(report.acquisition) = report.new
        /\ ChartTotal(RevenueInsight(period).clients) = summary.clients - summary.clientsBefore
        /\ Same(ChartTotal(RevenueInsight(period).clients), report.new)
        /\ report.repeat + report.oneTime = summary.clients
    /\ view.about = "fees" =>
        /\ ChartTotal(PlatformRevenue(period).timeline) = PlatformRevenue(period).total
        /\ PlatformStats.thisMonth + PlatformStats.lastMonth <= Count(RowsOf("fee"))

ChangesAt(key, n) == IF n = 0 THEN 0 ELSE versions[key][n]

(* Figures that are kept under a version, or are about to be, show every change
   that was announced by that version, unless Redis failed to answer when the
   version was read: a change that is committed while figures are computed does not
   leave the old ones under the new version.  Nor does it leave an old page under the
   new version of the page, where page and figures go by one version; where they go by
   two, the page is only as new as the version of the figures it was made of. *)
FiguresFollowTheBooks ==
    /\ \A n \in 0 .. Len(versions["figures"]) : LET kept == results[n] IN
        kept # Unset => kept.blind \/ ChangesAt("figures", n) <= kept.age
    /\ PageKey = "figures" => \A n \in 0 .. Len(versions[PageKey]) : LET kept == responses[n] IN
        kept # Unset => kept.blind \/ ChangesAt(PageKey, n) <= kept.age
    /\ \A q \in Asks : LET ask == asks[q] IN ask.age # Unset =>
        /\ ask.blind \/ ChangesAt("figures", ask.inner) <= ask.age
        /\ PageKey = "figures" /\ ask.outer # Unset => ask.blind \/ ChangesAt(PageKey, ask.outer) <= ask.age

(* Figures are the same wherever they are shown, and those that are kept are not older
   than what was announced. *)
FiguresAreRight == FiguresAgree /\ FiguresFollowTheBooks
================================================================================
