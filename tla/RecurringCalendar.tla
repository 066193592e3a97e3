---------------------------- MODULE RecurringCalendar ----------------------------
(***************************************************************************)
(* The dates of a recurring schedule: computeNextRunAt for the first       *)
(* occurrence, advanceNextRunAt for each further one, on the calendar.     *)
(*                                                                         *)
(* An instant is a day, counted from a Sunday, and a time of that day.     *)
(***************************************************************************)
EXTENDS Integers

CONSTANTS
    Months,       \* bound: months of the calendar
    TimesOfDay,   \* the times a schedule or a request may have
    FirstOf       \* [1 .. Months + 1 -> Nat]: the first day of each month

\* The last two follow from the lengths of the months, by induction on them.
ASSUME CalendarAssumption ==
    /\ Months \in Nat \ {0}
    /\ TimesOfDay \subseteq Nat
    /\ FirstOf \in [1 .. Months + 1 -> Int]
    /\ FirstOf[1] <= 0
    /\ \A m \in 1 .. Months : FirstOf[m + 1] - FirstOf[m] \in 28 .. 31
    /\ \A m, n \in 1 .. Months + 1 : m < n => FirstOf[m] < FirstOf[n]
    /\ \A d \in FirstOf[1] .. FirstOf[Months] - 1 :
        \E m \in 1 .. Months - 1 : FirstOf[m] <= d /\ d < FirstOf[m + 1]

VARIABLES
    rule,         \* frequency, day of the week and time of the schedule
    from,         \* the instant computeNextRunAt was given
    nextRunAt     \* the instant of the next occurrence

vars == <<rule, from, nextRunAt>>

Frequency == {"WEEKLY", "BIWEEKLY", "MONTHLY"}

WeekDay == 0 .. 6

Rule == [frequency : Frequency, dayOfWeek : WeekDay, time : Nat]

Instant == [day : Nat, time : Nat]

Before(i, j) == i.day < j.day \/ (i.day = j.day /\ i.time < j.time)

DayOfWeek(day) == day % 7

FrequencyToDays(f) == IF f = "WEEKLY" THEN 7 ELSE IF f = "BIWEEKLY" THEN 14 ELSE 30

--------------------------------------------------------------------------------
\* Days to the day of the week, a whole period if it is today and not later.
DaysUntil(i, r) ==
    LET days == (r.dayOfWeek - DayOfWeek(i.day) + 7) % 7
    IN IF days = 0 /\ i.time >= r.time THEN FrequencyToDays(r.frequency) ELSE days

ComputeNextRunAt(i, r) == [day |-> i.day + DaysUntil(i, r), time |-> r.time]

MonthOf(day) == CHOOSE m \in 1 .. Months : FirstOf[m] <= day /\ day < FirstOf[m + 1]

DayOfMonth(day) == day - FirstOf[MonthOf(day)] + 1

\* Mutation of InMonth: Date.UTC runs over into the following month.
InMonthOverflow(m, d) == FirstOf[m] + d - 1

\* Day d of month m, or the last one.
InMonth(m, d) == IF d <= FirstOf[m + 1] - FirstOf[m] THEN FirstOf[m] + d - 1 ELSE FirstOf[m + 1] - 1

AdvanceNextRunAt(i, r) ==
    [day |-> IF r.frequency = "MONTHLY"
             THEN InMonth(MonthOf(i.day) + 1, DayOfMonth(i.day))
             ELSE i.day + FrequencyToDays(r.frequency),
     time |-> r.time]

--------------------------------------------------------------------------------
\* createSchedule computes from midnight of the start date, updateSchedule and
\* resumeSchedule from the present.
Init ==
    \E f \in Frequency, w \in WeekDay, t \in TimesOfDay, d \in 0 .. 40, s \in TimesOfDay \cup {0} :
        /\ rule = [frequency |-> f, dayOfWeek |-> w, time |-> t]
        /\ from = [day |-> d, time |-> s]
        /\ nextRunAt = ComputeNextRunAt(from, rule)

HasNextMonth(day) == day < FirstOf[Months]

\* A booking was generated.
Advance ==
    /\ HasNextMonth(nextRunAt.day)
    /\ nextRunAt' = AdvanceNextRunAt(nextRunAt, rule)
    /\ UNCHANGED <<rule, from>>

Next == Advance

Spec == Init /\ [][Next]_vars

--------------------------------------------------------------------------------
(* Properties *)

\* Every variable has its type, and an occurrence has the schedule's time.
TypeOK ==
    /\ rule \in Rule
    /\ from \in Instant
    /\ nextRunAt \in Instant
    /\ nextRunAt.time = rule.time

\* Weekly and biweekly occurrences stay on the schedule's day of the week.
WeekdayIsKept ==
    rule.frequency # "MONTHLY" => DayOfWeek(nextRunAt.day) = rule.dayOfWeek

\* A monthly schedule has exactly one occurrence in every month, also after a
\* short one.
NoMonthIsSkipped ==
    [][rule.frequency = "MONTHLY" => MonthOf(nextRunAt'.day) = MonthOf(nextRunAt.day) + 1]_vars

================================================================================
