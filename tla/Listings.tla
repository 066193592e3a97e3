-------------------------------- MODULE Listings --------------------------------
(* Reading a table that does not fit one answer, while others write to it: the
   office turns the pages of a list or follows its cursor (lib/utils/
   QueryBuilder.ts, and the lists that count, skip and take by themselves), an
   export reads its table in chunks (DataExport/dataExport.service.ts), and the
   migration of old pictures works through its rows in batches
   (Media/legacyMediaMigration.service.ts).

   A row has a random id and the value its list is sorted by, the instant it was
   created at unless the list says otherwise, which other rows may share. What a
   search, a filter or the list itself asks for is a condition that a row meets
   or not, and that an edit may change.                                        *)
EXTENDS Integers, FiniteSets, SequencesExt

CONSTANTS
    Rows,         \* ids of rows, in the database's order
    Foreign,      \* those of another business
    Instants,     \* what rows are sorted by
    PageSizes,    \* sizes of a page, of a chunk and of a batch
    MaxChanges,   \* bound: changes that others make during a walk, by the way of reading
    Unread        \* what was not read yet

ASSUME ListingsAssumption ==
    /\ Rows \subseteq Nat /\ Foreign \subseteq Rows /\ Instants \subseteq Nat
    /\ PageSizes \subseteq Nat \ {0} /\ Unread \notin Nat

VARIABLES
    table,    \* Rows -> the row
    walk,     \* the reading in progress
    changes   \* how many changes others made

listVars == <<table, walk, changes>>

-----------------------------------------------------------------------------
(* The lists: whose rows they are over, whether they ask for more than that of a
   row, whether rows that sort alike are ordered by id, and whether they can be
   followed by a cursor. Lists of the query builder lose the last two when the
   request sorts by another column.                                            *)
Built(narrow) == {[scope |-> "tenant", narrow |-> narrow, tie |-> t, keyset |-> t] : t \in BOOLEAN}
Counted(scope, narrow, tie) ==
    {[scope |-> scope, narrow |-> narrow, tie |-> tie, keyset |-> FALSE]}

JobList == Built(FALSE) \cup Built(TRUE)        \* a member of staff sees those assigned
ScheduleList == Built(FALSE)
StaffList == Built(TRUE)
BookingList == Built(FALSE)
QuoteList == Built(FALSE)
EstimateList == Built(FALSE)
ClientList == Built(FALSE)
LeadList == Built(TRUE)                          \* what is due, overdue, not contacted
EstimateSubmissionList == Built(TRUE)            \* those of one form

InvoiceList == Counted("tenant", FALSE, FALSE)
PaymentList == Counted("tenant", TRUE, FALSE)    \* settled or awaiting approval
ExpenseList == Counted("tenant", FALSE, FALSE)
ReviewList == Counted("tenant", TRUE, TRUE)
InboxList == Counted("tenant", FALSE, TRUE)
FollowUpList == Counted("tenant", TRUE, TRUE)
TeamList == Counted("tenant", FALSE, FALSE)
AuditOfTenantList == Counted("tenant", TRUE, FALSE)
BillingOfTenantList == Counted("tenant", FALSE, FALSE)
ActivityOfTenantList == Counted("tenant", FALSE, FALSE)
SessionList == Counted("tenant", TRUE, FALSE)    \* the sessions of its users

ActivityLogList == Counted("office", FALSE, FALSE)
AdminAccountList == Counted("office", TRUE, FALSE)
SubscriptionList == Counted("office", FALSE, FALSE)
BillingHistoryList == Counted("office", FALSE, FALSE)
PendingProofList == Counted("office", TRUE, FALSE)
TenantList == Counted("office", FALSE, FALSE)
UserList == Counted("office", FALSE, FALSE)
AuditLogList == Counted("office", FALSE, FALSE)
PlanRequestList == Counted("office", TRUE, FALSE)
CouponList == Counted("office", FALSE, FALSE)

Lists == UNION {
    JobList, ScheduleList, StaffList, BookingList, QuoteList, EstimateList, ClientList, LeadList,
    EstimateSubmissionList, InvoiceList, PaymentList, ExpenseList, ReviewList, InboxList, FollowUpList,
    TeamList, AuditOfTenantList, BillingOfTenantList, ActivityOfTenantList, SessionList, ActivityLogList,
    AdminAccountList, SubscriptionList, BillingHistoryList, PendingProofList, TenantList, UserList,
    AuditLogList, PlanRequestList, CouponList}

(* The sections of an export: all rows of the business in a table, or those of
   one type. And the pictures the migration looks for: rows that have one, or
   rows of any kind.                                                           *)
CustomerSections == {[scope |-> "tenant", narrow |-> n] : n \in BOOLEAN}
SalesSections == {[scope |-> "tenant", narrow |-> FALSE]}
Pictures == {[scope |-> s, narrow |-> n] : s \in {"tenant", "office"}, n \in BOOLEAN}

-----------------------------------------------------------------------------
(* What a query finds.                                                         *)
Matching(q) ==
    {r \in Rows : /\ table[r].is = "there"
                  /\ q.scope = "tenant" => r \notin Foreign
                  /\ q.narrow => table[r].fits}

\* r comes before s on the list.
Precedes(q, r, s) ==
    LET x == table[r].at  y == table[s].at  IN
    IF x # y THEN (x < y) = q.asc ELSE q.tie /\ ((r < s) = q.asc)

\* The orders the database may return the rows in: those that sort alike in any.
Orders(q, S) == {o \in SetToSeqs(S) : \A i, j \in 1..Len(o) : i < j => ~Precedes(q, o[j], o[i])}

Min2(a, b) == IF a < b THEN a ELSE b
Taken(o, skip, take) == SubSeq(o, skip + 1, Min2(skip + take, Len(o)))

\* Mutation of Behind: rows that share the cursor's instant are taken for shown.
BehindByTime(q, c) == {r \in Matching(q) : table[r].at # c.at /\ ((c.at < table[r].at) = q.asc)}

\* The rows behind the cursor: later by the value sorted by, or alike with a later id.
Behind(q, c) ==
    {r \in Matching(q) : \/ table[r].at # c.at /\ ((c.at < table[r].at) = q.asc)
                         \/ table[r].at = c.at /\ r # c.id /\ ((c.id < r) = q.asc)}

\* One ordered by id after the row whose id the request names, which the database looks up first.
AfterRow(q, c, take) ==
    LET all == SetToSortSeq(Matching(q), <)
        from == SetToSortSeq({r \in Matching(q) : c # Unread /\ r >= c}, <)
    IN  IF c = Unread THEN Taken(all, 0, take)
        ELSE IF table[c].is # "there" THEN <<>>
        ELSE Taken(from, 1, take)

-----------------------------------------------------------------------------
(* The initial states: a table somebody is about to read.                      *)
Blank == [is |-> "unborn", at |-> 0, fits |-> FALSE, old |-> FALSE]
Row(at, fits, old) == [is |-> "there", at |-> at, fits |-> fits, old |-> old]

Closed == [by |-> "nobody", q |-> Unread, size |-> 0, page |-> 0, cursor |-> Unread, total |-> Unread,
           got |-> Unread, shown |-> <<>>, held |-> {}, cut |-> FALSE, phase |-> "closed"]

\* Exports and the migration go by the id alone.
Moments == IF walk.by \in {"pages", "cursor"} THEN Instants ELSE {0}

ListInit(ways) ==
    /\ \E by \in ways : walk = [Closed EXCEPT !.by = by]
    /\ table \in [Rows -> IF walk.by = "nobody" THEN {Blank}
                         ELSE {Blank} \cup {Row(t, TRUE, o) : t \in Moments, o \in {FALSE, walk.by = "migration"}}]
    /\ changes = 0

-----------------------------------------------------------------------------
(* The pages of a list. Its count and its rows are two queries.                *)
OpensList(l, asc, n) ==
    /\ walk.phase = "closed" /\ walk.by \in {"pages", "cursor"}
    /\ walk.by = "cursor" => l.keyset
    /\ LET q == [scope |-> l.scope, narrow |-> l.narrow, tie |-> l.tie, asc |-> asc] IN
       walk' = [walk EXCEPT !.phase = "asking", !.q = q, !.size = n, !.page = 1, !.held = Matching(q)]
    /\ UNCHANGED <<table, changes>>

CountsRows ==
    /\ walk.phase = "asking" /\ walk.total = Unread
    /\ walk' = [walk EXCEPT !.total = Cardinality(Matching(walk.q))]
    /\ UNCHANGED <<table, changes>>

FindsPage ==
    /\ walk.phase = "asking" /\ walk.got = Unread /\ walk.cursor = Unread
    /\ \E o \in Orders(walk.q, Matching(walk.q)) :
          walk' = [walk EXCEPT !.got = Taken(o, (walk.page - 1) * walk.size, walk.size)]
    /\ UNCHANGED <<table, changes>>

\* One row more than asked for tells whether there is a further page.
FindsBehindCursor ==
    /\ walk.phase = "asking" /\ walk.got = Unread /\ walk.cursor # Unread
    /\ \E o \in Orders(walk.q, Behind(walk.q, walk.cursor)) :
          walk' = [walk EXCEPT !.got = Taken(o, 0, walk.size + 1)]
    /\ UNCHANGED <<table, changes>>

CursorOf(r) == [at |-> table[r].at, id |-> r]

(* The answer, and the reader's next request: another page while the count says
   so; a cursor of the last row of a full first page, then the answer's own.   *)
Answers ==
    /\ walk.phase = "asking" /\ walk.got # Unread /\ walk.total # Unread
    /\ LET data == Taken(walk.got, 0, walk.size)
           more == IF walk.by = "pages" THEN walk.page * walk.size < walk.total
                   ELSE IF walk.cursor = Unread THEN Len(data) = walk.size
                   ELSE Len(walk.got) > walk.size
       IN  walk' = [walk EXCEPT
                      !.shown = @ \o data,
                      !.phase = IF more THEN "asking" ELSE "done",
                      !.page = IF more /\ walk.by = "pages" THEN @ + 1 ELSE @,
                      !.cursor = IF more /\ walk.by = "cursor" THEN CursorOf(Last(data)) ELSE @,
                      !.got = Unread,
                      !.total = IF more THEN Unread ELSE @]
    /\ UNCHANGED <<table, changes>>

-----------------------------------------------------------------------------
(* An export reads a table chunk by chunk, in the order of ids; the migration
   reads a batch and works through it, with the pictures as it read them.      *)
Starts(qs, by, n) ==
    /\ walk.phase = "closed" /\ walk.by = by
    /\ \E q \in qs : walk' = [walk EXCEPT !.phase = "reading", !.q = q, !.size = n, !.held = Matching(q)]
    /\ UNCHANGED <<table, changes>>

StartsExport(n) == Starts(CustomerSections \cup SalesSections, "export", n)
StartsMigration(n) == Starts(Pictures, "migration", n)

\* The cursor row left the table, or what is asked for, before it was used.
CutShort == walk.cut \/ (walk.cursor # Unread /\ walk.cursor \notin Matching(walk.q))

CollectsChunk ==
    /\ walk.phase = "reading" /\ walk.by = "export"
    /\ LET rows == AfterRow(walk.q, walk.cursor, walk.size) IN
       walk' = [walk EXCEPT !.shown = @ \o rows, !.cut = CutShort,
                            !.phase = IF Len(rows) < walk.size THEN "done" ELSE "reading",
                            !.cursor = IF Len(rows) < walk.size THEN @ ELSE Last(rows)]
    /\ UNCHANGED <<table, changes>>

FetchesBatch ==
    /\ walk.phase = "reading" /\ walk.by = "migration" /\ walk.got = Unread
    /\ LET rows == AfterRow(walk.q, walk.cursor, walk.size) IN
       walk' = [walk EXCEPT !.got = [i \in DOMAIN rows |-> [id |-> rows[i], old |-> table[rows[i]].old]],
                            !.cut = CutShort, !.total = Len(rows),
                            !.cursor = IF rows = <<>> THEN @ ELSE Last(rows),
                            !.phase = IF rows = <<>> THEN "counting" ELSE "reading"]
    /\ UNCHANGED <<table, changes>>

(* The row is written whatever became of its picture, and a row that is gone ends
   the migration.                                                              *)
MigratesRow ==
    /\ walk.phase = "reading" /\ walk.got \notin {Unread, <<>>}
    /\ LET row == Head(walk.got)  there == table[row.id].is = "there" IN
       /\ table' = IF row.old /\ there THEN [table EXCEPT ![row.id].old = FALSE, ![row.id].fits = TRUE] ELSE table
       /\ walk' = [walk EXCEPT !.got = Tail(@), !.phase = IF row.old /\ ~there THEN "failed" ELSE @]
    /\ UNCHANGED changes

EndsBatch ==
    /\ walk.phase = "reading" /\ walk.got = <<>>
    /\ walk' = [walk EXCEPT !.got = Unread, !.phase = IF walk.total < walk.size THEN "counting" ELSE "reading"]
    /\ UNCHANGED <<table, changes>>

\* The report counts the rows that still show an old picture.
StillOld(q) == {r \in Matching([q EXCEPT !.narrow = FALSE]) : table[r].old}
CountsLegacy ==
    /\ walk.phase = "counting"
    /\ walk' = [walk EXCEPT !.total = Cardinality(StillOld(walk.q)), !.phase = "done"]
    /\ UNCHANGED <<table, changes>>

-----------------------------------------------------------------------------
(* What others do meanwhile: rows come with any id and, as clocks differ and
   transactions take their time, at any place of the order; rows go, and rows
   come to meet the condition or cease to. Nobody can choose an old picture.   *)
Change(r, row) ==
    /\ walk.phase \notin {"closed", "done", "failed"} /\ changes < MaxChanges[walk.by]
    /\ table' = [table EXCEPT ![r] = row]
    /\ walk' = [walk EXCEPT !.held = {h \in @ : h = r => row.is = "there" /\ (walk.q.narrow => row.fits)}]
    /\ changes' = changes + 1

CreateRow(r) ==
    /\ table[r].is = "unborn"
    /\ \E t \in Moments, f \in BOOLEAN : Change(r, Row(t, f, FALSE))
DeleteRow(r) == table[r].is = "there" /\ Change(r, [table[r] EXCEPT !.is = "gone"])
EditRow(r) ==
    /\ table[r].is = "there"
    /\ Change(r, [table[r] EXCEPT !.fits = ~@, !.old = FALSE])

ListNext ==
    \/ \E l \in Lists, asc \in BOOLEAN, n \in PageSizes : OpensList(l, asc, n)
    \/ CountsRows \/ FindsPage \/ FindsBehindCursor \/ Answers
    \/ \E n \in PageSizes : StartsExport(n) \/ StartsMigration(n)
    \/ CollectsChunk \/ FetchesBatch \/ MigratesRow \/ EndsBatch \/ CountsLegacy
    \/ \E r \in Rows : CreateRow(r) \/ DeleteRow(r) \/ EditRow(r)

-----------------------------------------------------------------------------
(* A walk to the end shows every row once that was to be seen all the way,
   whatever came and went beside it: following a cursor, always (QueryBuilder.ts
   363-390, 568-575); exporting, unless the last row of a chunk is deleted before
   the next is read; turning pages, while nobody writes and if rows that sort alike
   are ordered by id, and then the count is that of the rows shown. No row of
   another business is among them. The migration leaves no picture at the old
   provider in a row that had it all along, with the same exception, and a report
   that nothing is left is true.                                              *)
WalksAreWhole ==
    walk.phase = "done" =>
        LET seen == {walk.shown[i] : i \in DOMAIN walk.shown}
            whole == walk.held \subseteq seen /\ Len(walk.shown) = Cardinality(seen)
        IN  /\ walk.by = "cursor" => whole
            /\ walk.by = "export" /\ ~walk.cut => whole
            /\ walk.by = "pages" /\ changes = 0 /\ walk.q.tie => whole /\ walk.total = Len(walk.shown)
            /\ walk.q.scope = "tenant" => seen \cap Foreign = {}
            /\ walk.by = "migration" =>
                  /\ ~walk.cut => \A r \in walk.held : ~table[r].old
                  /\ walk.total = 0 => StillOld(walk.q) = {}
================================================================================
