------------------------------ MODULE MCRecurring ------------------------------
(***************************************************************************)
(* RecurringBooking and RecurringCalendar on a small instance.  A          *)
(* behaviour is either about the engine and the office, or about the dates *)
(* of one schedule, from Sunday, 2 January 2028, to March 2029; or about   *)
(* reading a table while others write to it.                               *)
(***************************************************************************)
EXTENDS RecurringBooking, RecurringCalendar, Listings

Office == {"pauseSchedule", "resumeSchedule", "cancelSchedule", "deleteSchedule"}

\* Nobody touches the schedule and the engine is reliable or not; the office stops
\* and resumes it; every handler.
AllModes ==
    {[ops |-> {}, mayFail |-> f] : f \in BOOLEAN} \cup
    {[ops |-> o, mayFail |-> TRUE] :
        o \in {Office, Office \cup {"updateSchedule", "generateNextBooking"}}}

MonthLengths == <<31, 29, 31, 30, 31, 30, 31, 31, 30, 31, 30, 31, 31, 28, 31>>

\* 1 January is a Saturday, the day before day 0.
FirstDays == [m \in 1 .. Len(MonthLengths) + 1 |-> FoldLeft(+, 0, SubSeq(MonthLengths, 1, m - 1)) - 1]

Quiet == [ops |-> {}, mayFail |-> FALSE]

\* A rule at a time no schedule has: the behaviour is about the engine.
NoRule == [frequency |-> "MONTHLY", dayOfWeek |-> 0, time |-> 24]

NoDates ==
    /\ rule = NoRule
    /\ from = [day |-> 0, time |-> 24]
    /\ nextRunAt = from

\* Lists are claimed to be whole only while nobody writes, so nobody does.
MCMaxChanges == [pages |-> 0, cursor |-> 1, export |-> 2, migration |-> 2]

MCInit ==
    /\ RecurringInit
    /\ \/ NoDates /\ ListInit({"nobody"})
       \/ mode = Quiet /\ Init /\ ListInit({"nobody"})
       \/ mode = Quiet /\ NoDates /\ ListInit(DOMAIN MCMaxChanges)

IsEngine == rule = NoRule /\ walk.by = "nobody"

Engine == IsEngine /\ RecurringNext /\ UNCHANGED <<vars, listVars>>
Dates == rule # NoRule /\ Next /\ UNCHANGED <<recurringVars, listVars>>
Readers == walk.by # "nobody" /\ ListNext /\ UNCHANGED <<recurringVars, vars>>

MCNext == Engine \/ Dates \/ Readers

MCSpec ==
    /\ MCInit /\ [][MCNext]_<<recurringVars, vars, listVars>>
    /\ WF_recurringVars(IsEngine /\ Tick /\ UNCHANGED <<vars, listVars>>)
    /\ \A e \in Engines : WF_recurringVars(IsEngine /\ RunEngine(e) /\ UNCHANGED <<vars, listVars>>)
================================================================================
