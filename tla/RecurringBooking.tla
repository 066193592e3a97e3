---------------------------- MODULE RecurringBooking ----------------------------
(***************************************************************************)
(* One recurring schedule, the hourly engine that books its occurrences,   *)
(* and the office's handlers.                                              *)
(*                                                                         *)
(* The engine selects the due schedules, awaits the tenant's entitlements, *)
(* and then books from what it selected: the transaction neither reads the *)
(* schedule again nor updates it conditionally.  A handler likewise checks *)
(* what it read and then updates by id.                                    *)
(***************************************************************************)
EXTENDS Integers, Sequences

CONSTANTS
    Engines,      \* overlapping runs of runRecurringBookingEngine
    Requests,     \* concurrent handler invocations
    Period,       \* the frequency
    Modes,        \* what may happen in a behaviour: one of these is chosen
    Horizon,      \* bound on the clock
    MaxBookings,  \* bound on generated bookings
    NoRun, NoCall

ASSUME RecurringAssumption ==
    /\ Period \in Nat \ {0} /\ Horizon \in Nat /\ MaxBookings \in Nat
    /\ \A m \in Modes : m.mayFail \in BOOLEAN

VARIABLES
    now,          \* the clock
    schedule,     \* status and nextRunAt
    bookings,     \* the generated bookings, oldest first
    allowed,      \* backgroundJobsAllowed and the recurring_bookings entitlement
    run,          \* [Engines -> NoRun or the selected schedule and the step]
    call,         \* [Requests -> NoCall or what the handler has read]
    mode          \* never changes: the handlers in use (ops), and whether runs can
                  \* throw, be killed or find the tenant blocked (mayFail)

recurringVars == <<now, schedule, bookings, allowed, run, call, mode>>

RecurringStatus == {"ACTIVE", "PAUSED", "CANCELLED"}

\* Occurrences keep their day and time; nextRunAt can be ahead of the clock by a
\* period per booking.
Occurrence == {t \in 0 .. Horizon + Period * (MaxBookings + 1) : t % Period = 0}

\* computeNextRunAt: an occurrence whose time has come belongs to the past.
OccurrenceAfter(from) == Period * (from \div Period + 1)

Following(current) == current + Period

RecurringInit ==
    /\ now = 0
    /\ schedule = [status |-> "ACTIVE", next |-> OccurrenceAfter(0)]
    /\ bookings = <<>>
    /\ allowed = TRUE
    /\ run = [e \in Engines |-> NoRun]
    /\ call = [r \in Requests |-> NoCall]
    /\ mode \in Modes

ScheduleExists == schedule.status \in RecurringStatus

Tick ==
    /\ now < Horizon
    /\ now' = now + 1
    /\ UNCHANGED <<schedule, bookings, allowed, run, call, mode>>

ToggleAccess ==
    /\ mode.mayFail
    /\ allowed' = ~allowed
    /\ UNCHANGED <<now, schedule, bookings, run, call, mode>>

--------------------------------------------------------------------------------
(* runRecurringBookingEngine *)

\* Mutation of Due: a run waits for the occurrence to be over.
DueLate(s) == s.status = "ACTIVE" /\ s.next + Period < now

Due(s) == s.status = "ACTIVE" /\ s.next <= now

Select(e) ==
    /\ run[e] = NoRun
    /\ Due(schedule)
    /\ run' = [run EXCEPT ![e] = schedule.next]
    /\ UNCHANGED <<now, schedule, bookings, allowed, call, mode>>

\* Access is disabled, the transaction throws (a taken booking reference, a
\* deleted schedule, the database), or the process is killed.
Drop(e) ==
    /\ run[e] # NoRun
    /\ mode.mayFail \/ ~ScheduleExists \/ ~allowed
    /\ run' = [run EXCEPT ![e] = NoRun]
    /\ UNCHANGED <<now, schedule, bookings, allowed, call, mode>>

\* Mutation of NextAfter: the run forgets to advance the schedule.
NextAfterSame(occurrence) == occurrence

NextAfter(occurrence) == Following(occurrence)

\* The booking, the client's counters and the schedule in one transaction.
BookFrom(occurrence, isLinked) ==
    /\ Len(bookings) < MaxBookings
    /\ ScheduleExists
    /\ bookings' = Append(bookings, [at |-> occurrence, linked |-> isLinked])
    /\ schedule' = [schedule EXCEPT !.next = NextAfter(occurrence)]

\* The engine does not set recurringScheduleId.
Generate(e) ==
    /\ run[e] # NoRun
    /\ allowed
    /\ BookFrom(run[e], FALSE)
    /\ run' = [run EXCEPT ![e] = NoRun]
    /\ UNCHANGED <<now, allowed, call, mode>>

--------------------------------------------------------------------------------
(* The handlers *)

\* The statuses a handler accepts, and the status it writes.
Accepts(op) ==
    IF op = "updateSchedule" THEN {"ACTIVE", "PAUSED"}
    ELSE IF op = "cancelSchedule" THEN {"ACTIVE", "PAUSED"}
    ELSE IF op = "resumeSchedule" THEN {"PAUSED"}
    ELSE {"ACTIVE"}

\* The occurrence a handler takes along: recomputed from now by updateSchedule
\* and resumeSchedule, read from the row by the others.
Takes(op) ==
    IF op \in {"updateSchedule", "resumeSchedule"} THEN OccurrenceAfter(now) ELSE schedule.next

Read(r) ==
    /\ call[r] = NoCall
    /\ \E op \in mode.ops \ {"deleteSchedule"} :
        /\ schedule.status \in Accepts(op)
        /\ call' = [call EXCEPT ![r] = [op |-> op, next |-> Takes(op)]]
    /\ UNCHANGED <<now, schedule, bookings, allowed, run, mode>>

Finish(r) == call' = [call EXCEPT ![r] = NoCall]

\* The update is by id; without the row it throws.
Write(r, op, s) ==
    /\ call[r] # NoCall /\ call[r].op = op
    /\ schedule' = IF ScheduleExists THEN s ELSE schedule
    /\ Finish(r)
    /\ UNCHANGED <<now, bookings, allowed, run, mode>>

PauseSchedule(r) == Write(r, "pauseSchedule", [schedule EXCEPT !.status = "PAUSED"])

ResumeSchedule(r) ==
    Write(r, "resumeSchedule", [schedule EXCEPT !.status = "ACTIVE", !.next = call[r].next])

CancelSchedule(r) == Write(r, "cancelSchedule", [schedule EXCEPT !.status = "CANCELLED"])

\* A new frequency, day or time.
UpdateSchedule(r) == Write(r, "updateSchedule", [schedule EXCEPT !.next = call[r].next])

\* The "Generate booking" button.
GenerateNextBooking(r) ==
    /\ call[r] # NoCall /\ call[r].op = "generateNextBooking"
    /\ \/ BookFrom(call[r].next, TRUE)
       \/ ~ScheduleExists /\ UNCHANGED <<bookings, schedule>>
    /\ Finish(r)
    /\ UNCHANGED <<now, allowed, run, mode>>

\* Bookings lose their link to the schedule and stay.
DeleteSchedule ==
    /\ "deleteSchedule" \in mode.ops
    /\ ScheduleExists
    /\ schedule' = [schedule EXCEPT !.status = "DELETED"]
    /\ UNCHANGED <<now, bookings, allowed, run, call, mode>>

--------------------------------------------------------------------------------
RunEngine(e) == Select(e) \/ Generate(e) \/ Drop(e)

Handle(r) ==
    \/ Read(r) \/ PauseSchedule(r) \/ ResumeSchedule(r) \/ CancelSchedule(r)
    \/ UpdateSchedule(r) \/ GenerateNextBooking(r)

RecurringNext ==
    \/ Tick \/ ToggleAccess \/ DeleteSchedule
    \/ \E e \in Engines : RunEngine(e)
    \/ \E r \in Requests : Handle(r)

RecurringSpec == RecurringInit /\ [][RecurringNext]_recurringVars

\* The clock ticks, the hourly job starts and goes on.
FairRecurringSpec == RecurringSpec /\ WF_recurringVars(Tick) /\ \A e \in Engines : WF_recurringVars(RunEngine(e))

--------------------------------------------------------------------------------
(* Properties *)

\* Every variable has its type; above all, nextRunAt never leaves its day and time.
RecurringTypeOK ==
    /\ now \in 0 .. Horizon
    /\ schedule \in [status : RecurringStatus \cup {"DELETED"}, next : Occurrence]
    /\ bookings \in Seq([at : Occurrence, linked : BOOLEAN]) /\ Len(bookings) <= MaxBookings
    /\ allowed \in BOOLEAN
    /\ mode \in Modes
    /\ run \in [Engines -> Occurrence \cup {NoRun}]
    /\ call \in [Requests -> [op : mode.ops, next : Occurrence] \cup {NoCall}]

\* One engine and one handler at a time, however often the engine fails or is
\* behind, and however the schedule is paused, resumed, cancelled or deleted
\* meanwhile: no occurrence is booked twice, and they are booked in order; while
\* nobody touches it none is left out.
OccurrencesBookedInOrder ==
    /\ mode.ops \cap {"updateSchedule", "generateNextBooking"} = {} =>
        \A i \in 1 .. Len(bookings) - 1 : bookings[i].at < bookings[i + 1].at
    /\ mode.ops = {} => \A i \in 1 .. Len(bookings) : bookings[i].at = Period * i

\* When the engine runs, every occurrence that has come is booked in the end, also
\* those missed during an outage.
CatchesUp ==
    \A i \in 1 .. MaxBookings :
        mode.ops = {} /\ ~mode.mayFail /\ now >= Period * i ~> Len(bookings) >= i

--------------------------------------------------------------------------------
(* Claims the code does not keep: see the README. *)

\* Only an ACTIVE schedule generates bookings.
OnlyActiveSchedulesGenerate ==
    [][bookings' # bookings => schedule.status = "ACTIVE"]_recurringVars

\* Generating a booking by hand advances nextRunAt, as the engine does.
GenerationAdvances ==
    [][\A r \in Requests : GenerateNextBooking(r) /\ ScheduleExists
        => schedule'.next = Following(schedule.next)]_recurringVars

\* Only an active schedule is paused: none comes back from CANCELLED.
OnlyActiveSchedulesPause ==
    [][\A r \in Requests : PauseSchedule(r) => schedule.status # "CANCELLED"]_recurringVars

\* A schedule finds all bookings it generated.
GeneratedBookingsAreLinked ==
    \A i \in 1 .. Len(bookings) : bookings[i].linked
================================================================================
