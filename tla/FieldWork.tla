------------------------------- MODULE FieldWork -------------------------------
(***************************************************************************)
(* The jobs done for bookings: who is sent, checking in and out, what a    *)
(* finished job leaves behind (a completed booking, a draft invoice, a     *)
(* link for the client's review), leave and the cron job that marks staff  *)
(* as away (Job, StaffLeave, Review, staffStatus.cron), beside the         *)
(* bookings of OnlineBooking.                                              *)
(*                                                                         *)
(* Every handler reads and checks, then writes by id; what is one          *)
(* transaction in the code is one step.                                    *)
(***************************************************************************)
EXTENDS OnlineBooking

CONSTANTS
    Crew,       \* concurrent requests about jobs, of the office, staff and clients
    Jobs,       \* ids of jobs
    Staff,
    Times,      \* when a job takes place: jobs overlap at equal times
    Tokens,     \* tokens of review links; a fresh one was never issued
    NoToken, Nobody

ASSUME FieldAssumption == Times # {} /\ Nobody \notin Crew /\ NoToken \notin Tokens

VARIABLES
    job,        \* [Jobs -> [status, booking, time]]
    assigned,   \* [Jobs -> [Staff -> state of the assignment row]]
    invoiced,   \* the bookings with an invoice
    link,       \* [Jobs -> [state, token]]: the review link of the job
    issued,     \* tokens handed out so far
    reviews,    \* [Jobs -> number of reviews of the job]
    held,       \* advisory locks of the review link: [Jobs \cup Tokens -> holder]
    staff,      \* [Staff -> status]
    leave,      \* [Staff -> status of the leave that covers today]
    dayOff,     \* those who do not work on this day of the week
    visit,      \* [Crew -> what a request has read, or NoCall]
    sync        \* what the staff status job has read, or NoCall

reviewVars == <<link, issued, reviews, held>>
staffVars == <<staff, leave, dayOff, sync>>
fieldVars == <<job, assigned, invoiced, reviewVars, staffVars, visit>>
workVars == <<bookingVars, fieldVars>>

JobStatus == {"SCHEDULED", "IN_PROGRESS", "COMPLETED", "CANCELLED"}

NoJob == [status |-> "NONE", booking |-> NoBooking, time |-> CHOOSE t \in Times : TRUE]

GoneJob == [NoJob EXCEPT !.status = "GONE"]

JobExists(j) == job[j].status \notin {"NONE", "GONE"}

Unassigned == [s \in Staff |-> "NONE"]

Only(team) == [s \in Staff |-> IF s \in team THEN "ASSIGNED" ELSE "NONE"]

Team(j) == {s \in Staff : assigned[j][s] # "NONE"}

FieldInit ==
    /\ Init
    /\ job = [j \in Jobs |-> NoJob]
    /\ assigned = [j \in Jobs |-> Unassigned]
    /\ invoiced = {}
    /\ link = [j \in Jobs |-> [state |-> "NONE", token |-> NoToken]]
    /\ issued = {}
    /\ reviews = [j \in Jobs |-> 0]
    /\ held = [l \in Jobs \cup Tokens |-> Nobody]
    /\ staff = [s \in Staff |-> "ACTIVE"]
    /\ dayOff = {}
    /\ leave = [s \in Staff |-> "NONE"]
    /\ visit = [c \in Crew |-> NoCall]
    /\ sync = NoCall

Proceed(c, r) == visit' = [visit EXCEPT ![c] = r]
Finish(c) == Proceed(c, NoCall)
Is(c, op) == visit[c] # NoCall /\ visit[c].op = op

Begins(c, op) ==
    /\ op \in ops
    /\ visit[c] = NoCall
    /\ "race" \in ops \/ \A d \in Crew : visit[d] = NoCall

\* Teams the office sends by hand.  Bounds: all or nobody in a race, nobody where teams
\* are not looked at.
Teams == IF "assign" \notin ops THEN {{}} ELSE IF "race" \in ops THEN {{}, Staff} ELSE SUBSET Staff

JobOf(b) == {j \in Jobs : job[j].booking = b}

--------------------------------------------------------------------------------
(* Jobs *)

\* createJob with or without a booking, convertBookingToJob.
ReadForJob(c) ==
    /\ Begins(c, "job")
    /\ \E b \in Bookings \cup {NoBooking}, t \in Times, team \in Teams :
        /\ "dispatch" \notin ops => t = NoJob.time
        /\ "race" \in ops => b # NoBooking    \* bound: a race is for one job
        /\ b # NoBooking => Exists(b) /\ JobOf(b) = {}
        /\ Proceed(c, [op |-> "job", booking |-> b, time |-> t, team |-> team])
    /\ UNCHANGED <<bookingVars, job, assigned, invoiced, reviewVars, staffVars>>

\* The booking may be gone, or have got its job meanwhile: bookingId is unique.
CreateJob(c) ==
    LET b == visit[c].booking IN
    /\ Is(c, "job")
    /\ IF b = NoBooking \/ (Exists(b) /\ JobOf(b) = {})
       THEN \E j \in Jobs :
              /\ job[j].status = "NONE"
              /\ job' = [job EXCEPT ![j] =
                            [status |-> "SCHEDULED", booking |-> b, time |-> visit[c].time]]
              /\ assigned' = [assigned EXCEPT ![j] = Only(visit[c].team)]
       ELSE UNCHANGED <<job, assigned>>
    /\ Finish(c)
    /\ UNCHANGED <<bookingVars, invoiced, reviewVars, staffVars>>

ReadForUpdate(c, j) ==
    /\ Begins(c, "move")
    /\ job[j].status \in {"SCHEDULED", "IN_PROGRESS"}
    /\ \E t \in Times : Proceed(c, [op |-> "move", job |-> j, time |-> t])
    /\ UNCHANGED <<bookingVars, job, assigned, invoiced, reviewVars, staffVars>>

UpdateJob(c) ==
    LET j == visit[c].job IN
    /\ Is(c, "move")
    /\ job' = IF ~JobExists(j) THEN job ELSE [job EXCEPT ![j].time = visit[c].time]
    /\ Finish(c)
    /\ UNCHANGED <<bookingVars, assigned, invoiced, reviewVars, staffVars>>

\* updateJobStatus: allowed
JobTransitions(s) ==
    IF s = "SCHEDULED" THEN {"IN_PROGRESS", "CANCELLED"}
    ELSE IF s = "IN_PROGRESS" THEN {"COMPLETED", "CANCELLED"}
    ELSE {}

\* On its own, or as the end of a check-out.
ReadForStatus(c, j) ==
    /\ \E s \in JobTransitions(job[j].status) :
        /\ \/ Begins(c, "jobStatus")
           \/ Is(c, "complete") /\ visit[c].job = j /\ s = "COMPLETED"
        /\ Proceed(c, [op |-> "jobStatus", job |-> j, new |-> s])
    /\ UNCHANGED <<bookingVars, job, assigned, invoiced, reviewVars, staffVars>>

\* A check-out that finds the job in another state by then ends with an error.
RefusedToComplete(c) ==
    /\ Is(c, "complete") /\ "COMPLETED" \notin JobTransitions(job[visit[c].job].status)
    /\ Finish(c)
    /\ UNCHANGED <<bookingVars, job, assigned, invoiced, reviewVars, staffVars>>

\* Mutation of Billed: a booking is only billed when it was not closed before.
BilledWhenOpen(b) == IF booking[b].status = "SCHEDULED" THEN invoiced \cup {b} ELSE invoiced

\* tx.invoice.create unless there is one.
Billed(b) == invoiced \cup {b}

\* reviewToken.upsert: an existing link is left alone.
Linked(j, t) ==
    IF link[j].state = "NONE"
    THEN /\ link' = [link EXCEPT ![j] = [state |-> "READY", token |-> t]]
         /\ issued' = issued \cup {t}
    ELSE UNCHANGED <<link, issued>>

\* One transaction: the job, its booking, its review link, its invoice.
UpdateJobStatus(c) ==
    LET j == visit[c].job
        b == job[j].booking
        s == visit[c].new IN
    /\ Is(c, "jobStatus")
    /\ IF ~JobExists(j)
       THEN UNCHANGED <<job, booking, invoiced, link, issued>>
       ELSE /\ job' = [job EXCEPT ![j].status = s]
            /\ booking' = IF b # NoBooking /\ s \in {"COMPLETED", "CANCELLED"}
                          THEN [booking EXCEPT ![b].status = s] ELSE booking
            /\ invoiced' = IF b # NoBooking /\ s = "COMPLETED" THEN Billed(b) ELSE invoiced
            /\ IF s = "COMPLETED" THEN \E t \in Tokens \ issued : Linked(j, t)
               ELSE UNCHANGED <<link, issued>>
    /\ Finish(c)
    /\ UNCHANGED <<form, sub, inbox, change, call, ops, assigned, reviews, held, staffVars>>

ReadForDelete(c, j) ==
    /\ Begins(c, "deleteJob")
    /\ JobExists(j) /\ job[j].status # "IN_PROGRESS"
    /\ Proceed(c, [op |-> "deleteJob", job |-> j])
    /\ UNCHANGED <<bookingVars, job, assigned, invoiced, reviewVars, staffVars>>

\* Assignments and the review link go with the job; reviews stay and lose it.
DeleteJob(c) ==
    LET j == visit[c].job IN
    /\ Is(c, "deleteJob")
    /\ job' = [job EXCEPT ![j] = GoneJob]
    /\ assigned' = [assigned EXCEPT ![j] = Unassigned]
    /\ link' = [link EXCEPT ![j] = [state |-> "NONE", token |-> NoToken]]
    /\ reviews' = [reviews EXCEPT ![j] = 0]
    /\ Finish(c)
    /\ UNCHANGED <<bookingVars, invoiced, issued, held, staffVars>>

--------------------------------------------------------------------------------
(* Checking in and out *)

ReadForCheckIn(c, j, s) ==
    /\ Begins(c, "check")
    /\ job[j].status = "SCHEDULED" /\ assigned[j][s] # "NONE"
    /\ Proceed(c, [op |-> "checkIn", job |-> j, staff |-> s])
    /\ UNCHANGED <<bookingVars, job, assigned, invoiced, reviewVars, staffVars>>

\* The row of the assignment must still be there; the job's status is not looked at again.
CheckIn(c) ==
    LET j == visit[c].job
        s == visit[c].staff IN
    /\ Is(c, "checkIn")
    /\ IF assigned[j][s] = "NONE" THEN UNCHANGED <<job, assigned>>
       ELSE /\ assigned' = [assigned EXCEPT ![j][s] = "IN"]
            /\ job' = [job EXCEPT ![j].status = "IN_PROGRESS"]
    /\ Finish(c)
    /\ UNCHANGED <<bookingVars, invoiced, reviewVars, staffVars>>

ReadForCheckOut(c, j, s) ==
    /\ Begins(c, "check")
    /\ job[j].status = "IN_PROGRESS" /\ assigned[j][s] # "NONE"
    /\ Proceed(c, [op |-> "checkOut", job |-> j, staff |-> s])
    /\ UNCHANGED <<bookingVars, job, assigned, invoiced, reviewVars, staffVars>>

\* The hours are written first, then the job is completed as by updateJobStatus.
CheckOut(c) ==
    LET j == visit[c].job
        s == visit[c].staff IN
    /\ Is(c, "checkOut")
    /\ IF assigned[j][s] = "NONE"
       THEN Finish(c) /\ UNCHANGED assigned
       ELSE /\ assigned' = [assigned EXCEPT ![j][s] = "OUT"]
            /\ Proceed(c, [op |-> "complete", job |-> j])
    /\ UNCHANGED <<bookingVars, job, invoiced, reviewVars, staffVars>>

--------------------------------------------------------------------------------
(* Who is sent *)

ReadForAssignment(c, j) ==
    /\ Begins(c, "assign")
    /\ JobExists(j) /\ job[j].status # "COMPLETED"
    /\ \E team \in Teams : Proceed(c, [op |-> "assign", job |-> j, team |-> team, todo |-> {}])
    /\ UNCHANGED <<bookingVars, job, assigned, invoiced, reviewVars, staffVars>>

\* Jobs that keep staff busy at time t, other than j.
Overlapping(j, t) == {i \in Jobs \ {j} : job[i].status \in {"SCHEDULED", "IN_PROGRESS"} /\ job[i].time = t}

\* Mutation of Available: the job's own team counts as free everywhere.
AvailableIfActive(j) == {s \in Staff : staff[s] = "ACTIVE" /\ assigned[j][s] = "NONE"}

\* Active, on no overlapping job, and not on this one already.
Available(j) ==
    {s \in Staff : /\ staff[s] = "ACTIVE"
                   /\ \A i \in Overlapping(j, job[j].time) : assigned[i][s] = "NONE"
                   /\ assigned[j][s] = "NONE"}

\* The scores of autoDispatch order the available; who of them comes first is left open.
Recommended(j, count) ==
    {team \in SUBSET Available(j) :
        Cardinality(team) = IF Cardinality(Available(j)) < count
                            THEN Cardinality(Available(j)) ELSE count}

\* autoDispatch of one job, whatever its status; todo: what bulkAutoDispatch has left.
\* A job that is gone by then, or nobody to send, changes nothing.
Dispatch(c, j, todo) ==
    \E team \in IF ~JobExists(j) THEN {{}} ELSE Recommended(j, 1) :
        Proceed(c, IF team = {} /\ todo = {} THEN NoCall
                   ELSE [op |-> IF team = {} THEN "bulk" ELSE "assign",
                         job |-> j, team |-> team, todo |-> todo])

AutoDispatch(c, j) ==
    /\ Begins(c, "dispatch") /\ JobExists(j)
    /\ Dispatch(c, j, {})
    /\ UNCHANGED <<bookingVars, job, assigned, invoiced, reviewVars, staffVars>>

BulkAutoDispatch(c) ==
    LET todo == {j \in Jobs : job[j].status = "SCHEDULED" /\ assigned[j] = Unassigned} IN
    /\ Begins(c, "dispatch") /\ todo # {}
    /\ \E j \in todo : Dispatch(c, j, todo \ {j})
    /\ UNCHANGED <<bookingVars, job, assigned, invoiced, reviewVars, staffVars>>

BulkGoesOn(c) ==
    /\ Is(c, "bulk")
    /\ \E j \in visit[c].todo : Dispatch(c, j, visit[c].todo \ {j})
    /\ UNCHANGED <<bookingVars, job, assigned, invoiced, reviewVars, staffVars>>

\* assignStaff, and the commit of autoDispatch: the team is replaced, checked in or not.
Assign(c) ==
    LET j == visit[c].job IN
    /\ Is(c, "assign")
    /\ assigned' = IF ~JobExists(j) THEN assigned
                   ELSE [assigned EXCEPT ![j] = Only(visit[c].team)]
    /\ Proceed(c, IF visit[c].todo = {} THEN NoCall ELSE [visit[c] EXCEPT !.op = "bulk"])
    /\ UNCHANGED <<bookingVars, job, invoiced, reviewVars, staffVars>>

--------------------------------------------------------------------------------
(* The client's review *)

\* pg_advisory_xact_lock: until the transaction ends.
MayHold(c, l) == held[l] = Nobody

Take(c, l) == MayHold(c, l) /\ held' = [held EXCEPT ![l] = c]

Release(c) == held' = [l \in DOMAIN held |-> IF held[l] = c THEN Nobody ELSE held[l]]

\* createReviewShareLink, generateTokenForJob: the job is looked at before.
AskForLink(c, j) ==
    /\ Begins(c, "reviews") /\ job[j].status = "COMPLETED"
    /\ Proceed(c, [op |-> "lockJob", job |-> j])
    /\ UNCHANGED <<bookingVars, job, assigned, invoiced, reviewVars, staffVars>>

\* A completed job has a link; a job deleted meanwhile has none, and gets none.
LockJob(c) ==
    LET j == visit[c].job IN
    /\ Is(c, "lockJob")
    /\ IF link[j].state = "NONE"
       THEN Finish(c) /\ UNCHANGED held
       ELSE Take(c, j) /\ Proceed(c, [op |-> "renew", job |-> j, token |-> link[j].token])
    /\ UNCHANGED <<bookingVars, job, assigned, invoiced, link, issued, reviews, staffVars>>

\* Under the lock of the job and of the token it had: an expired link gets a new token.
RenewLink(c) ==
    LET j == visit[c].job IN
    /\ Is(c, "renew") /\ MayHold(c, visit[c].token)
    /\ IF link[j].state = "EXPIRED"
       THEN \E t \in Tokens \ issued :
              /\ link' = [link EXCEPT ![j] = [state |-> "READY", token |-> t]]
              /\ issued' = issued \cup {t}
       ELSE UNCHANGED <<link, issued>>
    /\ Release(c) /\ Finish(c)
    /\ UNCHANGED <<bookingVars, job, assigned, invoiced, reviews, staffVars>>

\* Anybody with a link, the current one or an older one.
OpenReview(c, t) ==
    /\ Begins(c, "reviews") /\ t \in issued
    /\ Proceed(c, [op |-> "lockToken", token |-> t])
    /\ UNCHANGED <<bookingVars, job, assigned, invoiced, reviewVars, staffVars>>

\* Under the lock of the token: it must be somebody's, not used and not expired.
LockToken(c) ==
    /\ Is(c, "lockToken")
    /\ \/ \E j \in Jobs :
            /\ link[j] = [state |-> "READY", token |-> visit[c].token]
            /\ Take(c, visit[c].token)
            /\ Proceed(c, [op |-> "submitReview", job |-> j, token |-> visit[c].token])
       \/ /\ \A j \in Jobs : link[j] # [state |-> "READY", token |-> visit[c].token]
          /\ MayHold(c, visit[c].token)
          /\ Finish(c) /\ UNCHANGED held
    /\ UNCHANGED <<bookingVars, job, assigned, invoiced, link, issued, reviews, staffVars>>

\* The token is marked by its row's id: the update fails, and with it the reviews, once
\* the job is deleted.
SubmitReview(c) ==
    LET j == visit[c].job IN
    /\ Is(c, "submitReview")
    /\ IF link[j].state = "NONE" THEN UNCHANGED <<link, reviews>>
       ELSE /\ link' = [link EXCEPT ![j].state = "USED"]
            /\ reviews' = [reviews EXCEPT ![j] = @ + 1]
    /\ Release(c) /\ Finish(c)
    /\ UNCHANGED <<bookingVars, job, assigned, invoiced, issued, staffVars>>

\* Seven days pass.
LinkExpires(j) ==
    /\ "reviews" \in ops /\ link[j].state = "READY"
    /\ link' = [link EXCEPT ![j].state = "EXPIRED"]
    /\ UNCHANGED <<bookingVars, job, assigned, invoiced, issued, reviews, held, staffVars, visit>>

--------------------------------------------------------------------------------
(* Leave, and who is away today *)

\* requestLeave, cancelLeave, reviewLeave: of the leave that covers today.
ChangeLeave(s) ==
    /\ "leave" \in ops
    /\ \E l \in {"NONE", "PENDING", "APPROVED", "DECLINED"} :
        /\ \/ leave[s] \in {"NONE", "DECLINED"} /\ l = "PENDING"
           \/ leave[s] = "PENDING" /\ l \in {"NONE", "APPROVED", "DECLINED"}
        /\ leave' = [leave EXCEPT ![s] = l]
    /\ UNCHANGED <<bookingVars, job, assigned, invoiced, reviewVars, staff, dayOff, visit, sync>>

\* updateAvailability, updateMyAvailability: today's weekday is switched off or on.
ChangeAvailability(s) ==
    /\ "leave" \in ops
    /\ dayOff' = IF s \in dayOff THEN dayOff \ {s} ELSE dayOff \cup {s}
    /\ UNCHANGED <<bookingVars, job, assigned, invoiced, reviewVars, staff, leave, visit, sync>>

Today(s) == IF leave[s] = "APPROVED" THEN "ON_LEAVE" ELSE IF s \in dayOff THEN "INACTIVE" ELSE "ACTIVE"

Changed == {s \in Staff : staff[s] # Today(s)}

\* The job reads everybody, then writes three lists of ids in one transaction.
ReadStaff ==
    /\ "leave" \in ops /\ sync = NoCall /\ Changed # {}
    /\ sync' = [s \in Changed |-> Today(s)]
    /\ UNCHANGED <<bookingVars, job, assigned, invoiced, reviewVars, staff, leave, dayOff, visit>>

SyncStaff ==
    /\ sync # NoCall
    /\ staff' = [s \in Staff |-> IF s \in DOMAIN sync THEN sync[s] ELSE staff[s]]
    /\ sync' = NoCall
    /\ UNCHANGED <<bookingVars, job, assigned, invoiced, reviewVars, leave, dayOff, visit>>

--------------------------------------------------------------------------------
\* What happens to bookings: a deleted one leaves its job and its invoice unlinked.
BookingStep ==
    /\ BookingNext
    /\ job' = [j \in Jobs |-> IF job[j].booking \in Bookings /\ booking'[job[j].booking].status = "GONE"
                              THEN [job[j] EXCEPT !.booking = NoBooking] ELSE job[j]]
    /\ invoiced' = {b \in invoiced : booking'[b].status # "GONE"}
    /\ UNCHANGED <<assigned, reviewVars, staffVars, visit>>

Errand(c) ==
    \/ ReadForJob(c) \/ CreateJob(c) \/ UpdateJob(c) \/ RefusedToComplete(c)
    \/ UpdateJobStatus(c) \/ DeleteJob(c) \/ CheckIn(c) \/ CheckOut(c)
    \/ BulkAutoDispatch(c) \/ BulkGoesOn(c) \/ Assign(c)
    \/ LockJob(c) \/ RenewLink(c) \/ LockToken(c) \/ SubmitReview(c)
    \/ \E t \in Tokens : OpenReview(c, t)
    \/ \E j \in Jobs :
        \/ ReadForUpdate(c, j) \/ ReadForStatus(c, j) \/ ReadForDelete(c, j)
        \/ ReadForAssignment(c, j) \/ AutoDispatch(c, j) \/ AskForLink(c, j)
        \/ \E s \in Staff : ReadForCheckIn(c, j, s) \/ ReadForCheckOut(c, j, s)

FieldNext ==
    \/ BookingStep
    \/ \E c \in Crew : Errand(c)
    \/ \E j \in Jobs : LinkExpires(j)
    \/ \E s \in Staff : ChangeLeave(s) \/ ChangeAvailability(s)
    \/ ReadStaff \/ SyncStaff

FieldSpec == FieldInit /\ [][FieldNext]_workVars

--------------------------------------------------------------------------------
(* Properties *)

\* Every variable has its type.
FieldTypeOK ==
    /\ BookingTypeOK
    /\ job \in [Jobs -> [status : JobStatus \cup {"NONE", "GONE"},
                        booking : Bookings \cup {NoBooking}, time : Times]]
    /\ assigned \in [Jobs -> [Staff -> {"NONE", "ASSIGNED", "IN", "OUT"}]]
    /\ invoiced \subseteq Bookings
    /\ link \in [Jobs -> [state : {"NONE", "READY", "EXPIRED", "USED"}, token : Tokens \cup {NoToken}]]
    /\ reviews \in [Jobs -> Nat]
    /\ staff \in [Staff -> {"ACTIVE", "INACTIVE", "ON_LEAVE"}]

\* However updates, check-ins and check-outs race: a completed job has its review link,
\* and its booking is completed and billed, unless the office or an approved cancellation
\* moves the booking by itself; and the client reviews a job once, however many links
\* were handed out, renewed and opened at once.
CompletionIsWhole ==
    \A j \in Jobs :
        /\ job[j].status = "COMPLETED" =>
            /\ link[j].state # "NONE"
            /\ job[j].booking # NoBooking =>
                /\ job[j].booking \in invoiced
                /\ ops \cap {"status", "decide"} = {} => booking[job[j].booking].status = "COMPLETED"
        /\ reviews[j] = (IF link[j].state = "USED" THEN 1 ELSE 0)

\* While one request dispatches at a time, and nobody moves jobs or sends people by hand,
\* nobody is sent to two places at once.
NoDoubleDispatch ==
    ops \cap {"race", "move", "assign"} = {} =>
        \A i, j \in Jobs : i # j /\ {job[i].status, job[j].status} \subseteq {"SCHEDULED", "IN_PROGRESS"}
            => job[i].time # job[j].time \/ Team(i) \cap Team(j) = {}

--------------------------------------------------------------------------------
(* Claims the code does not keep: see the README. *)

\* "COMPLETED: []" (updateJobStatus): a finished job is not touched again.
FinishedStaysFinished ==
    [][\A j \in Jobs : job[j].status = "COMPLETED" => job'[j].status \in {"COMPLETED", "GONE"}]_workVars
================================================================================
