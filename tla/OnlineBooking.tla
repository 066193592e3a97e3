----------------------------- MODULE OnlineBooking -----------------------------
(***************************************************************************)
(* One slot of an online booking form: the submissions that ask for it,    *)
(* their entries in the website inbox, the bookings made from them or by   *)
(* hand, and what clients ask to be changed (BookingForm, Booking,         *)
(* BookingChangeRequest, WebsiteSubmission and the website's own path      *)
(* through them, websiteAcquisition).                                      *)
(*                                                                         *)
(* A submission is made in one transaction under two advisory locks and    *)
(* converted in another, under a third lock; between the two the process   *)
(* may die.  Handlers of the office check first and write later, by id.    *)
(***************************************************************************)
EXTENDS Naturals, FiniteSets

CONSTANTS
    Visitors,     \* concurrent requests on the public website
    Office,       \* concurrent requests of the office
    Portals,      \* concurrent requests of clients on their portal
    Keys,         \* idempotency keys: a submission and its retries have one
    Bookings,     \* ids of bookings
    Capacities,   \* values of maxBookingsPerSlot
    Limit,        \* bookings the plan allows
    Mixes,        \* sets of handlers, one of which is in use in a behaviour
    NoCall, NoBooking, NoKey

ASSUME BookingAssumption ==
    /\ Capacities \subseteq Nat \ {0} /\ Capacities # {}
    /\ Limit \in Nat
    /\ NoBooking \notin Bookings /\ NoKey \notin Keys
    /\ Visitors \cap Office = {} /\ Visitors \cap Portals = {} /\ Office \cap Portals = {}

VARIABLES
    form,         \* [published, capacity]
    sub,          \* [Keys -> submission]
    inbox,        \* [Keys -> status of the website submission, or NONE]
    booking,      \* [Bookings -> booking]
    change,       \* [Bookings -> change request of the booking's client]
    call,         \* [Callers -> what a handler has read, or NoCall]
    ops           \* never changes: the handlers in use

bookingVars == <<form, sub, inbox, booking, change, call, ops>>

Callers == Visitors \cup Office \cup Portals

FormSubmissionStatus == {"NEW", "REVIEWED", "CONVERTED", "DECLINED"}

WebsiteSubmissionStatus == {"NEW", "REVIEWED", "CONVERTED", "DISMISSED"}

BookingStatus == {"SCHEDULED", "IN_PROGRESS", "COMPLETED", "CANCELLED"}

\* NONE is a row that does not exist, GONE one that was deleted: ids are not used again.
\* inSlot: the booking overlaps the slot.
\* overtaken is a history: a retry wrote a status into the inbox that had changed since
\* it read it.
NoSubmission == [status |-> "NONE", booking |-> NoBooking, overtaken |-> FALSE]
SubmissionRow(s, b) == [status |-> s, booking |-> b, overtaken |-> FALSE]
NoRow == [status |-> "NONE", inSlot |-> FALSE, from |-> NoKey]
GoneRow == [NoRow EXCEPT !.status = "GONE"]
NoChange == [status |-> "NONE", cancel |-> FALSE]

\* Nobody has booked yet, or there is one booking made by hand.
Booked ==
    IF "booked" \notin ops THEN {[b \in Bookings |-> NoRow]}
    ELSE {[b \in Bookings |-> IF b = c THEN [NoRow EXCEPT !.status = "SCHEDULED"] ELSE NoRow] :
          c \in Bookings}

Init ==
    /\ ops \in Mixes
    /\ \E c \in Capacities :
        /\ "submit" \notin ops => \A d \in Capacities : c <= d    \* bound: it does not matter there
        /\ form = [published |-> TRUE, capacity |-> c]
    /\ sub = [k \in Keys |-> NoSubmission]
    /\ inbox = [k \in Keys |-> "NONE"]
    /\ booking \in Booked
    /\ change = [b \in Bookings |-> NoChange]
    /\ call = [r \in Callers |-> NoCall]

Unused(b) == booking[b].status = "NONE"
Exists(b) == booking[b].status \notin {"NONE", "GONE"}

\* createdAt is in the current month: months do not end here.
WithinLimit == Cardinality({b \in Bookings : Exists(b)}) < Limit

\* The two sources a slot is filled from: submissions not yet turned into a booking,
\* and the calendar.
Pending == {k \in Keys : sub[k].status \notin {"NONE", "DECLINED"} /\ sub[k].booking = NoBooking}

Calendar == {b \in Bookings : Exists(b) /\ booking[b].status # "CANCELLED" /\ booking[b].inSlot}

Occupied == Cardinality(Pending) + Cardinality(Calendar)

\* Mutation of SlotFull: the calendar is not looked at.
SlotFullBySubmissions(capacity) == Cardinality(Pending) >= capacity

SlotFull(capacity) == Occupied >= capacity

\* bookingEnvelopeStatus
EnvelopeStatus(s) == IF s = "DECLINED" THEN "DISMISSED" ELSE s

\* Mutation of Sync: it is forgotten.
SyncNothing(k, s) == UNCHANGED inbox

\* syncBookingWebsiteSubmissionStatus: an update of the rows there are.
Sync(k, s) ==
    inbox' = IF inbox[k] = "NONE" THEN inbox ELSE [inbox EXCEPT ![k] = EnvelopeStatus(s)]

\* A handler goes on with what it has read, or ends.
Go(r, c) == call' = [call EXCEPT ![r] = c]
End(r) == Go(r, NoCall)
At(r, op) == call[r] # NoCall /\ call[r].op = op

\* Requests meet each other only in behaviours with "race".
Starts(r, op) ==
    /\ op \in ops
    /\ call[r] = NoCall
    /\ "race" \in ops \/ \A q \in Callers : call[q] = NoCall

--------------------------------------------------------------------------------
(* The public website: submit, convert, clean up *)

\* Form and access are looked at before the transaction, capacity is taken along.
StartSubmission(v, k) ==
    /\ Starts(v, "submit")
    /\ form.published
    /\ Go(v, [op |-> "submit", key |-> k, capacity |-> form.capacity])
    /\ UNCHANGED <<form, sub, inbox, booking, change, ops>>

\* A submission with the same key.
Repeated(k) == sub[k].status # "NONE"

\* Another request of the same key has its advisory lock.
KeyTaken(v, k) == \E q \in Visitors \ {v} : At(q, "repeat") /\ call[q].key = k

\* One transaction under the lock of the key and then that of the slot.  A retry takes
\* along the status it reads, and looks up the website before it writes.
Submit(v) ==
    LET k == call[v].key IN
    /\ At(v, "submit") /\ ~KeyTaken(v, k)
    /\ \/ /\ Repeated(k)
          /\ Go(v, [op |-> "repeat", key |-> k, status |-> sub[k].status])
          /\ UNCHANGED <<sub, inbox>>
       \/ /\ ~Repeated(k) /\ ~SlotFull(call[v].capacity)
          /\ sub' = [sub EXCEPT ![k] = SubmissionRow("NEW", NoBooking)]
          /\ inbox' = [inbox EXCEPT ![k] = "NEW"]
          /\ Go(v, [op |-> "preview", key |-> k, inSlot |-> TRUE])
       \/ /\ ~Repeated(k) /\ SlotFull(call[v].capacity)
          /\ End(v)
          /\ UNCHANGED <<sub, inbox>>
    /\ UNCHANGED <<form, booking, change, ops>>

\* The end of the retry's transaction: the lock of its key keeps away neither a conversion
\* nor a review nor a clean-up.  An entry cannot be written for a row that is gone.
EnsureBookingWebsiteSubmission(v) ==
    LET k == call[v].key IN
    /\ At(v, "repeat")
    /\ IF sub[k].status = "NONE"
       THEN End(v) /\ UNCHANGED <<sub, inbox>>
       ELSE /\ inbox' = [inbox EXCEPT ![k] = EnvelopeStatus(call[v].status)]
            /\ sub' = [sub EXCEPT ![k].overtaken = sub[k].status # call[v].status]
            /\ Go(v, [op |-> "preview", key |-> k, inSlot |-> TRUE])
    /\ UNCHANGED <<form, booking, change, ops>>

\* The catch of submitBooking; the office only sees the error.
Failed(r) ==
    IF r \in Visitors THEN Go(r, [op |-> "cleanUp", key |-> call[r].key]) ELSE End(r)

\* What a conversion looks at before its transaction.
Preview(r) ==
    LET k == call[r].key IN
    /\ At(r, "preview")
    /\ \/ sub[k].status # "NONE" /\ sub[k].booking # NoBooking /\ End(r)
       \/ /\ sub[k].status # "NONE" /\ sub[k].booking = NoBooking /\ WithinLimit
          /\ Go(r, [call[r] EXCEPT !.op = "convert"])
       \/ sub[k].status = "NONE" /\ Failed(r)
       \/ sub[k].booking = NoBooking /\ ~WithinLimit /\ Failed(r)
    /\ UNCHANGED <<form, sub, inbox, booking, change, ops>>

\* Mutation of Convertible: what is linked is not looked at again.
ConvertibleUnlinked(s) == s.status \in {"NEW", "REVIEWED", "CONVERTED"}

Convertible(s) == s.status \in {"NEW", "REVIEWED"} /\ s.booking = NoBooking

\* One transaction under the lock of the submission.
Convert(r) ==
    LET k == call[r].key IN
    /\ At(r, "convert")
    /\ \/ /\ Convertible(sub[k])
          /\ \E b \in Bookings :
              /\ Unused(b)
              /\ booking' = [booking EXCEPT ![b] =
                     [status |-> "SCHEDULED", inSlot |-> call[r].inSlot, from |-> k]]
              /\ sub' = [sub EXCEPT ![k] = SubmissionRow("CONVERTED", b)]
          /\ Sync(k, "CONVERTED")
          /\ End(r)
       \/ sub[k].booking # NoBooking /\ End(r) /\ UNCHANGED <<sub, inbox, booking>>
       \/ \* refused, or the database fails
          sub[k].booking = NoBooking /\ Failed(r) /\ UNCHANGED <<sub, inbox, booking>>
    /\ UNCHANGED <<form, change, ops>>

Withdrawn(s) == s.booking = NoBooking

\* The inbox entry is deleted whatever became of the submission meanwhile.  An error
\* here is swallowed.
CleanUp(v) ==
    LET k == call[v].key IN
    /\ At(v, "cleanUp")
    /\ \/ /\ inbox' = [inbox EXCEPT ![k] = "NONE"]
          /\ sub' = IF Withdrawn(sub[k]) THEN [sub EXCEPT ![k] = NoSubmission] ELSE sub
       \/ UNCHANGED <<inbox, sub>>
    /\ End(v)
    /\ UNCHANGED <<form, booking, change, ops>>

\* The process dies, or the connection is lost before a transaction.
Die(v) ==
    /\ "die" \in ops /\ call[v] # NoCall
    /\ End(v)
    /\ UNCHANGED <<form, sub, inbox, booking, change, ops>>

--------------------------------------------------------------------------------
(* The office and the form *)

UpdateBookingForm ==
    /\ "updateForm" \in ops
    /\ \E c \in Capacities, p \in BOOLEAN : form' = [published |-> p, capacity |-> c]
    /\ UNCHANGED <<sub, inbox, booking, change, call, ops>>

\* The office chooses the schedule.
StartConversion(o, k) ==
    /\ Starts(o, "convert") /\ sub[k].status # "NONE"
    /\ \E inSlot \in BOOLEAN :
        /\ "elsewhere" \notin ops => inSlot
        /\ Go(o, [op |-> "preview", key |-> k, inSlot |-> inSlot])
    /\ UNCHANGED <<form, sub, inbox, booking, change, ops>>

\* updateSubmissionStatus: what it checks, and whether it restores a declined one.
ReadSubmission(o, k) ==
    /\ Starts(o, "review") /\ sub[k].status # "NONE"
    /\ \E s \in FormSubmissionStatus :
        /\ (s = "CONVERTED") = (sub[k].booking # NoBooking)
        /\ Go(o, [op |-> "review", key |-> k, new |-> s, capacity |-> form.capacity,
                  restore |-> sub[k].status = "DECLINED" /\ s # "DECLINED"])
    /\ UNCHANGED <<form, sub, inbox, booking, change, ops>>

\* Unlike a new submission, a restored one is weighed against submissions alone,
\* the converted ones included.
RoomToRestore(k, capacity) ==
    Cardinality({j \in Keys : sub[j].status \notin {"NONE", "DECLINED"}}) < capacity

UpdateSubmissionStatus(o) ==
    LET k == call[o].key IN
    /\ At(o, "review")
    /\ IF /\ sub[k].status # "NONE"
          /\ call[o].restore => RoomToRestore(k, call[o].capacity)
       THEN /\ sub' = [sub EXCEPT ![k] = SubmissionRow(call[o].new, sub[k].booking)]
            /\ Sync(k, call[o].new)
       ELSE UNCHANGED <<sub, inbox>>
    /\ End(o)
    /\ UNCHANGED <<form, booking, change, ops>>

\* updateWebsiteSubmissionStatus looks at the inbox alone.
ReadWebsiteSubmission(o, k) ==
    /\ Starts(o, "inbox")
    /\ inbox[k] \in WebsiteSubmissionStatus \ {"CONVERTED"}
    /\ \E s \in WebsiteSubmissionStatus \ {"CONVERTED"} :
        Go(o, [op |-> "inbox", key |-> k, new |-> s])
    /\ UNCHANGED <<form, sub, inbox, booking, change, ops>>

UpdateWebsiteSubmissionStatus(o) ==
    /\ At(o, "inbox")
    /\ inbox' = IF inbox[call[o].key] = "NONE" THEN inbox
                ELSE [inbox EXCEPT ![call[o].key] = call[o].new]
    /\ End(o)
    /\ UNCHANGED <<form, sub, booking, change, ops>>

--------------------------------------------------------------------------------
(* Bookings *)

\* The plan's limit is counted before the transaction.
StartBooking(o) ==
    /\ Starts(o, "create") /\ WithinLimit
    /\ Go(o, [op |-> "create"])
    /\ UNCHANGED <<form, sub, inbox, booking, change, ops>>

CreateBooking(o) ==
    /\ At(o, "create")
    /\ \E b \in Bookings, inSlot \in BOOLEAN :
        /\ Unused(b)
        /\ "update" \notin ops => inSlot
        /\ booking' = [booking EXCEPT ![b] =
               [status |-> "SCHEDULED", inSlot |-> inSlot, from |-> NoKey]]
    /\ End(o)
    /\ UNCHANGED <<form, sub, inbox, change, ops>>

\* updateBookingStatus: allowed
BookingTransitions(s) ==
    IF s = "SCHEDULED" THEN {"IN_PROGRESS", "CANCELLED"}
    ELSE IF s = "IN_PROGRESS" THEN {"COMPLETED", "CANCELLED"}
    ELSE {}

ReadBooking(o, b) ==
    /\ Exists(b)
    /\ \/ /\ Starts(o, "update") /\ booking[b].status \notin {"COMPLETED", "CANCELLED"}
          /\ \E inSlot \in BOOLEAN : Go(o, [op |-> "update", booking |-> b, inSlot |-> inSlot])
       \/ /\ Starts(o, "status")
          /\ \E s \in BookingTransitions(booking[b].status) :
              Go(o, [op |-> "status", booking |-> b, new |-> s])
       \/ /\ Starts(o, "delete") /\ booking[b].status # "IN_PROGRESS"
          /\ Go(o, [op |-> "delete", booking |-> b])
    /\ UNCHANGED <<form, sub, inbox, booking, change, ops>>

\* The three write by id; a row that is gone is an error.
WriteBooking(o, op, row) ==
    /\ At(o, op)
    /\ booking' = IF Exists(call[o].booking)
                  THEN [booking EXCEPT ![call[o].booking] = row] ELSE booking
    /\ End(o)

UpdateBooking(o) ==
    /\ At(o, "update")
    /\ WriteBooking(o, "update", [booking[call[o].booking] EXCEPT !.inSlot = call[o].inSlot])
    /\ UNCHANGED <<form, sub, inbox, change, ops>>

UpdateBookingStatus(o) ==
    /\ At(o, "status")
    /\ WriteBooking(o, "status", [booking[call[o].booking] EXCEPT !.status = call[o].new])
    /\ UNCHANGED <<form, sub, inbox, change, ops>>

\* Its change request goes with it, the submission stays and loses the link.
Unlink(b) ==
    /\ sub' = [k \in Keys |-> IF sub[k].booking = b
                              THEN [sub[k] EXCEPT !.booking = NoBooking] ELSE sub[k]]
    /\ change' = [change EXCEPT ![b] = NoChange]

DeleteBooking(o) ==
    /\ At(o, "delete")
    /\ WriteBooking(o, "delete", GoneRow)
    /\ Unlink(call[o].booking)
    /\ UNCHANGED <<form, inbox, ops>>

--------------------------------------------------------------------------------
(* Change requests from the client's portal *)

Reschedulable(b) == booking[b].status \in {"SCHEDULED", "IN_PROGRESS"}

ReadForRequest(p, b) ==
    /\ Starts(p, "request")
    /\ Reschedulable(b) /\ change[b].status # "PENDING"
    /\ \E cancel \in BOOLEAN : Go(p, [op |-> "request", booking |-> b, cancel |-> cancel])
    /\ UNCHANGED <<form, sub, inbox, booking, change, ops>>

CreateRequest(p) ==
    LET b == call[p].booking IN
    /\ At(p, "request")
    /\ change' = IF Exists(b)
                 THEN [change EXCEPT ![b] = [status |-> "PENDING", cancel |-> call[p].cancel]]
                 ELSE change
    /\ End(p)
    /\ UNCHANGED <<form, sub, inbox, booking, ops>>

ReadRequest(o, b) ==
    /\ Starts(o, "decide") /\ change[b].status = "PENDING"
    /\ \E approve \in BOOLEAN :
        Go(o, [op |-> "decide", booking |-> b, approve |-> approve, cancel |-> change[b].cancel])
    /\ UNCHANGED <<form, sub, inbox, booking, change, ops>>

\* An approved cancellation cancels the booking in the same transaction, whatever its
\* status is by then; a reschedule is carried out by hand.
DecideRequest(o) ==
    LET b == call[o].booking IN
    /\ At(o, "decide")
    /\ IF change[b].status = "NONE" THEN UNCHANGED <<change, booking>>
       ELSE /\ change' = [change EXCEPT ![b].status =
                             IF call[o].approve THEN "APPROVED" ELSE "REJECTED"]
            /\ booking' = IF call[o].approve /\ call[o].cancel
                          THEN [booking EXCEPT ![b].status = "CANCELLED"] ELSE booking
    /\ End(o)
    /\ UNCHANGED <<form, sub, inbox, ops>>

--------------------------------------------------------------------------------
Visit(v) ==
    \/ \E k \in Keys : StartSubmission(v, k)
    \/ Submit(v) \/ EnsureBookingWebsiteSubmission(v) \/ Preview(v) \/ Convert(v) \/ CleanUp(v) \/ Die(v)

Desk(o) ==
    \/ \E k \in Keys : StartConversion(o, k) \/ ReadSubmission(o, k) \/ ReadWebsiteSubmission(o, k)
    \/ Preview(o) \/ Convert(o)
    \/ UpdateSubmissionStatus(o) \/ UpdateWebsiteSubmissionStatus(o)
    \/ StartBooking(o) \/ CreateBooking(o)
    \/ \E b \in Bookings : ReadBooking(o, b) \/ ReadRequest(o, b)
    \/ UpdateBooking(o) \/ UpdateBookingStatus(o) \/ DeleteBooking(o) \/ DecideRequest(o)

Portal(p) ==
    \/ \E b \in Bookings : ReadForRequest(p, b)
    \/ CreateRequest(p)

BookingNext ==
    \/ UpdateBookingForm
    \/ \E v \in Visitors : Visit(v)
    \/ \E o \in Office : Desk(o)
    \/ \E p \in Portals : Portal(p)

BookingSpec == Init /\ [][BookingNext]_bookingVars

--------------------------------------------------------------------------------
(* Properties *)

\* Every variable has its type.
BookingTypeOK ==
    /\ form \in [published : BOOLEAN, capacity : Capacities]
    /\ sub \in [Keys -> [status : FormSubmissionStatus \cup {"NONE"},
                         booking : Bookings \cup {NoBooking}, overtaken : BOOLEAN]]
    /\ inbox \in [Keys -> WebsiteSubmissionStatus \cup {"NONE"}]
    /\ booking \in [Bookings -> [status : BookingStatus \cup {"NONE", "GONE"}, inSlot : BOOLEAN,
                                 from : Keys \cup {NoKey}]]
    /\ change \in [Bookings -> [status : {"NONE", "PENDING", "APPROVED", "REJECTED"},
                                cancel : BOOLEAN]]
    /\ ops \in Mixes

\* Who really wants the slot: customers who wait for an answer, and live bookings.
Awaiting == {k \in Keys : sub[k].status \in {"NEW", "REVIEWED"} /\ sub[k].booking = NoBooking}

\* Handlers that fill a slot without asking whether there is room in it: the office's own
\* bookings and moves, a changed or restored form entry, a job that completes the booking it
\* was made for after that was cancelled; a status written late, by id, does the same.
FillsUnasked == {"updateForm", "review", "create", "update", "job"}

\* While bookings come from the website and are converted in their slot, any number
\* of customers, retries, failed conversions and crashes never put more into a slot
\* than it takes (the count and the insert share the slot's lock; a converted
\* submission moves from one source to the other in one transaction).
NeverOverbooked ==
    ops \cap FillsUnasked = {} /\ ~({"race", "status"} \subseteq ops)
        => Cardinality(Awaiting) + Cardinality(Calendar) <= form.capacity

\* A submission is booked at most once, by whichever of the website, its retries and
\* the office comes first (the lock of the submission and the second look under it).
BookedOnce ==
    \A b, c \in Bookings :
        booking[b].from # NoKey /\ booking[b].from = booking[c].from => b = c

\* Inbox and submission agree on what was converted, as far as the inbox has an entry:
\* however requests race to submit, convert, delete and review, as long as the inbox's own
\* status change (checked first, written later) meets no other request, and no retry's late
\* write put a status there that had changed since the retry read it.
InboxAgrees ==
    ~({"race", "inbox"} \subseteq ops) =>
    \A k \in Keys : inbox[k] # "NONE" /\ ~sub[k].overtaken =>
        (inbox[k] = "CONVERTED") = (sub[k].status = "CONVERTED")

\* A submission becomes one booking, and everything that shows whether it did says so.
BookedOnceAndSaidSo == BookedOnce /\ InboxAgrees

--------------------------------------------------------------------------------
(* Claims the code does not keep: see the README. *)

\* "reactivation cannot silently overbook a slot" (updateSubmissionStatus)
RestoringNeverOverbooks ==
    [][\A k \in Keys :
        sub[k].status = "DECLINED" /\ sub'[k].status \in {"NEW", "REVIEWED"}
            => Occupied' <= form.capacity]_bookingVars

\* A slot nobody wants can be booked: not once a converted submission's booking is
\* deleted, the submission is then counted again.
EmptySlotsAreFree == Awaiting \cup Calendar = {} => ~SlotFull(form.capacity)
================================================================================
