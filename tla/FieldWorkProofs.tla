---------------------------- MODULE FieldWorkProofs ----------------------------
(***************************************************************************)
(* Theorems about the bookings of an online form, the jobs done for them   *)
(* and the files of a tenant, for any number of visitors, requests,        *)
(* submissions, bookings, jobs, files and records, and any mix of          *)
(* handlers.                                                               *)
(*                                                                         *)
(* Every handler reads first and writes later, by id.  The invariant says  *)
(* what still holds of the rows when a handler writes: for the bookings    *)
(* that a submission and its booking name each other and that the inbox    *)
(* follows (BookingInv), for the slot that what fills it was counted with  *)
(* it (SlotInv), for the jobs that a finished one has left everything      *)
(* behind, under the locks of the review link (JobInv), for the files who  *)
(* holds a row under a lease, a mark or a migration (MediaInv), and for    *)
(* the public page of a form who has yet to drop its copy (PublicInv).     *)
(***************************************************************************)
EXTENDS FieldWork, MediaStorage, PublicForms, FiniteSetTheorems, TLAPS

\* What a handler of OnlineBooking has read.
BookingCall ==
    [op : {"submit"}, key : Keys, capacity : Capacities]
    \cup [op : {"repeat"}, key : Keys, status : FormSubmissionStatus]
    \cup [op : {"preview", "convert"}, key : Keys, inSlot : BOOLEAN]
    \cup [op : {"cleanUp"}, key : Keys]
    \cup [op : {"review"}, key : Keys, new : FormSubmissionStatus, capacity : Capacities,
          restore : BOOLEAN]
    \cup [op : {"inbox"}, key : Keys, new : WebsiteSubmissionStatus \ {"CONVERTED"}]
    \cup [op : {"create"}]
    \cup [op : {"update"}, booking : Bookings, inSlot : BOOLEAN]
    \cup [op : {"status"}, booking : Bookings, new : BookingStatus]
    \cup [op : {"delete"}, booking : Bookings]
    \cup [op : {"request"}, booking : Bookings, cancel : BOOLEAN]
    \cup [op : {"decide"}, booking : Bookings, approve : BOOLEAN, cancel : BOOLEAN]

Submission == [status : FormSubmissionStatus \cup {"NONE"}, booking : Bookings \cup {NoBooking},
               overtaken : BOOLEAN]

BookingRow == [status : BookingStatus \cup {"NONE", "GONE"}, inSlot : BOOLEAN,
               from : Keys \cup {NoKey}]

CallsAreTyped ==
    /\ call \in [Callers -> BookingCall \cup {NoCall}]
    /\ \A r \in Callers : call[r] # NoCall =>
        call[r].op \in ops \cup {"repeat", "preview", "convert", "cleanUp"}

\* Requests meet only in a race.
OneCall ==
    "race" \notin ops =>
        \A q, r \in Callers : call[q] # NoCall /\ call[r] # NoCall => q = r

\* A submission and the booking made from it name each other.
NameEachOther ==
    /\ \A k \in Keys : sub[k].booking # NoBooking =>
        sub[k].status # "NONE" /\ booking[sub[k].booking].from = k
    /\ \A b \in Bookings : booking[b].from # NoKey =>
        Exists(b) /\ sub[booking[b].from].booking = b

\* What the office is about to write into an entry of the inbox.
InboxCallIsCurrent ==
    "race" \notin ops =>
        \A r \in Callers : At(r, "inbox") => inbox[call[r].key] # "CONVERTED"

BookingInv ==
    /\ BookingTypeOK
    /\ CallsAreTyped
    /\ OneCall
    /\ NameEachOther
    /\ InboxAgrees
    /\ InboxCallIsCurrent

\* Nothing fills the slot without having counted what is in it.
Counted == ops \cap FillsUnasked = {} /\ ~({"race", "status"} \subseteq ops)

RoomForAll ==
    /\ IsFiniteSet(Pending) /\ IsFiniteSet(Calendar)
    /\ Cardinality(Awaiting) + Cardinality(Calendar) <= form.capacity

BookedIsConverted ==
    \A k \in Keys : sub[k].booking # NoBooking => sub[k].status = "CONVERTED"

\* What handlers took along is still so when they write.
SlotCallsAreCurrent ==
    \A r \in Callers :
        /\ At(r, "submit") => call[r].capacity = form.capacity
        /\ At(r, "status") =>
            call[r].new \in BookingTransitions(booking[call[r].booking].status)

SlotInv == Counted => RoomForAll /\ BookedIsConverted /\ SlotCallsAreCurrent

JobCall ==
    [op : {"job"}, booking : Bookings \cup {NoBooking}, time : Times, team : SUBSET Staff]
    \cup [op : {"move"}, job : Jobs, time : Times]
    \cup [op : {"jobStatus"}, job : Jobs, new : JobStatus]
    \cup [op : {"deleteJob", "complete", "lockJob"}, job : Jobs]
    \cup [op : {"checkIn", "checkOut"}, job : Jobs, staff : Staff]
    \cup [op : {"assign", "bulk"}, job : Jobs, team : SUBSET Staff, todo : SUBSET Jobs]
    \cup [op : {"renew", "submitReview"}, job : Jobs, token : Tokens]
    \cup [op : {"lockToken"}, token : Tokens]

Link == [state : {"NONE", "READY", "EXPIRED", "USED"}, token : Tokens \cup {NoToken}]

JobRow == [status : JobStatus \cup {"NONE", "GONE"}, booking : Bookings \cup {NoBooking},
           time : Times]

JobsAreTyped ==
    /\ job \in [Jobs -> JobRow]
    /\ assigned \in [Jobs -> [Staff -> {"NONE", "ASSIGNED", "IN", "OUT"}]]
    /\ invoiced \subseteq Bookings
    /\ link \in [Jobs -> Link]
    /\ issued \subseteq Tokens
    /\ reviews \in [Jobs -> Nat]
    /\ held \in [Jobs \cup Tokens -> Crew \cup {Nobody}]
    /\ visit \in [Crew -> JobCall \cup {NoCall}]

StaffIsTyped ==
    /\ staff \in [Staff -> {"ACTIVE", "INACTIVE", "ON_LEAVE"}]
    /\ dayOff \subseteq Staff
    /\ leave \in [Staff -> {"NONE", "PENDING", "APPROVED", "DECLINED"}]
    /\ sync # NoCall => \A s \in DOMAIN sync : sync[s] \in {"ACTIVE", "INACTIVE", "ON_LEAVE"}

\* A job that does not exist has nothing, a booking has at most one job.
JobsAreApart ==
    /\ \A j \in Jobs : ~JobExists(j) =>
        /\ assigned[j] = Unassigned
        /\ job[j].booking = NoBooking
        /\ link[j].state = "NONE"
    /\ \A j \in Jobs : job[j].booking # NoBooking => Exists(job[j].booking)
    /\ \A i, j \in Jobs : job[i].booking # NoBooking /\ job[i].booking = job[j].booking => i = j

\* Without the handlers that create them there are no jobs.
JobsAreCreated ==
    "job" \notin ops =>
        /\ \A j \in Jobs : ~JobExists(j)
        /\ \A c \in Crew : ~Is(c, "job")

\* No token is out for two jobs.
LinksAreApart ==
    /\ \A j \in Jobs : link[j].state # "NONE" => link[j].token \in issued
    /\ \A i, j \in Jobs :
        link[i].state # "NONE" /\ link[j].state # "NONE" /\ link[i].token = link[j].token => i = j

\* A request that works on a link holds its lock, and the link is still the one it found,
\* unless the job is gone.
LinksAreHeld ==
    \A c \in Crew :
        /\ Is(c, "renew") =>
            /\ held[visit[c].job] = c
            /\ job[visit[c].job].status # "NONE"
            /\ JobExists(visit[c].job) =>
                link[visit[c].job].state # "NONE" /\ link[visit[c].job].token = visit[c].token
        /\ Is(c, "submitReview") =>
            /\ held[visit[c].token] = c
            /\ job[visit[c].job].status # "NONE"
            /\ JobExists(visit[c].job) =>
                /\ link[visit[c].job].token = visit[c].token
                /\ link[visit[c].job].state \in {"READY", "EXPIRED"}

JobInv ==
    /\ JobsAreTyped
    /\ StaffIsTyped
    /\ JobsAreApart
    /\ JobsAreCreated
    /\ LinksAreApart
    /\ LinksAreHeld
    /\ CompletionIsWhole

\* One request dispatches at a time, and nobody moves jobs or sends people by hand.
OneDispatcher == ops \cap {"race", "move", "assign"} = {}

DispatchInv ==
    OneDispatcher =>
        /\ NoDoubleDispatch
        /\ \A c, d \in Crew : visit[c] # NoCall /\ visit[d] # NoCall => c = d
        /\ \A c \in Crew :
            /\ Is(c, "job") => visit[c].team = {}
            /\ ~Is(c, "move")
            /\ Is(c, "jobStatus") => visit[c].new \in JobTransitions(job[visit[c].job].status)
            /\ Is(c, "checkIn") => job[visit[c].job].status = "SCHEDULED"
            /\ Is(c, "assign") => \A s \in visit[c].team :
                \A i \in Overlapping(visit[c].job, job[visit[c].job].time) : assigned[i][s] = "NONE"

FieldInv == BookingInv /\ SlotInv /\ JobInv /\ DispatchInv

------------------------
(* Bookings: what a handler has read *)

LEMMA CallFields ==
  ASSUME CallsAreTyped, NEW r \in Callers, call[r] # NoCall
  PROVE  /\ call[r] \in BookingCall
         /\ call[r].op = "submit" => call[r].key \in Keys /\ call[r].capacity \in Capacities
         /\ call[r].op = "repeat" => call[r].key \in Keys /\ call[r].status \in FormSubmissionStatus
         /\ call[r].op \in {"preview", "convert"} =>
                call[r].key \in Keys /\ call[r].inSlot \in BOOLEAN
         /\ call[r].op = "cleanUp" => call[r].key \in Keys
         /\ call[r].op = "review" =>
                call[r].key \in Keys /\ call[r].new \in FormSubmissionStatus
         /\ call[r].op = "inbox" =>
                call[r].key \in Keys /\ call[r].new \in WebsiteSubmissionStatus \ {"CONVERTED"}
         /\ call[r].op = "update" =>
                call[r].booking \in Bookings /\ call[r].inSlot \in BOOLEAN
         /\ call[r].op = "status" =>
                call[r].booking \in Bookings /\ call[r].new \in BookingStatus
         /\ call[r].op = "delete" => call[r].booking \in Bookings
         /\ call[r].op = "request" =>
                call[r].booking \in Bookings /\ call[r].cancel \in BOOLEAN
         /\ call[r].op = "decide" => call[r].booking \in Bookings
<1>1. call[r] \in BookingCall  BY DEF CallsAreTyped
<1> QED BY <1>1 DEF BookingCall

\* A handler goes on with what it has just read, or ends.
LEMMA CallsStay ==
  ASSUME BookingInv, NEW r \in Callers, NEW c \in BookingCall \cup {NoCall}, Go(r, c), ops' = ops,
         c # NoCall => c.op \in ops \cup {"repeat", "preview", "convert", "cleanUp"},
         \/ call[r] # NoCall
         \/ ("race" \in ops \/ \A q \in Callers : call[q] = NoCall) /\ inbox' = inbox,
         c # NoCall /\ c.op = "inbox" => inbox'[c.key] # "CONVERTED"
  PROVE  CallsAreTyped' /\ OneCall' /\ InboxCallIsCurrent'
<1>1. call' \in [Callers -> BookingCall \cup {NoCall}] /\ call'[r] = c
      /\ \A q \in Callers \ {r} : call'[q] = call[q]
  BY DEF Go, BookingInv, CallsAreTyped
<1>2. CallsAreTyped'  BY <1>1 DEF BookingInv, CallsAreTyped
<1>3. OneCall'  BY <1>1 DEF BookingInv, OneCall
<1>4. InboxCallIsCurrent'
  <2> SUFFICES ASSUME "race" \notin ops, NEW q \in Callers, call'[q] # NoCall, call'[q].op = "inbox"
               PROVE  inbox'[call'[q].key] # "CONVERTED"
    BY DEF InboxCallIsCurrent, At
  <2>1. CASE q = r  BY <2>1, <1>1
  <2>2. CASE q # r
    <3>1. call[q] # NoCall /\ call'[q] = call[q]  BY <2>2, <1>1
    <3>2. inbox' = inbox  BY <3>1, <2>2 DEF BookingInv, OneCall
    <3> QED BY <3>1, <3>2 DEF BookingInv, InboxCallIsCurrent, At
  <2> QED BY <2>1, <2>2
<1> QED BY <1>2, <1>3, <1>4

\* It only reads.
LEMMA ReadsChangeNothing ==
  ASSUME BookingInv, UNCHANGED <<form, sub, inbox, booking, change, ops>>
  PROVE  BookingTypeOK' /\ NameEachOther' /\ InboxAgrees'
BY DEF BookingInv, BookingTypeOK, NameEachOther, InboxAgrees, Exists

LEMMA Reading ==
  ASSUME BookingInv, NEW r \in Callers, NEW c \in BookingCall \cup {NoCall}, Go(r, c),
         UNCHANGED <<form, sub, inbox, booking, change, ops>>,
         c # NoCall => c.op \in ops \cup {"repeat", "preview", "convert", "cleanUp"},
         call[r] # NoCall \/ "race" \in ops \/ \A q \in Callers : call[q] = NoCall,
         c # NoCall /\ c.op = "inbox" => inbox[c.key] # "CONVERTED"
  PROVE  BookingInv'
BY CallsStay, ReadsChangeNothing DEF BookingInv

LEMMA VisitorsRead ==
  ASSUME BookingInv, NEW r \in Callers,
         (\E k \in Keys : StartSubmission(r, k)) \/ Preview(r) \/ Die(r)
  PROVE  BookingInv'
<1>1. ASSUME NEW k \in Keys, StartSubmission(r, k)
      PROVE  BookingInv'
  <2> DEFINE c == [op |-> "submit", key |-> k, capacity |-> form.capacity]
  <2>1. c \in BookingCall /\ c.op = "submit"  BY DEF BookingInv, BookingTypeOK, BookingCall
  <2> HIDE DEF c
  <2>2. Go(r, c) /\ Starts(r, "submit") /\ UNCHANGED <<form, sub, inbox, booking, change, ops>>
    BY <1>1 DEF StartSubmission, c
  <2> QED BY <2>1, <2>2, Reading DEF Starts
<1>2. ASSUME Preview(r)
      PROVE  BookingInv'
  <2>1. At(r, "preview") /\ UNCHANGED <<form, sub, inbox, booking, change, ops>>  BY <1>2 DEF Preview
  <2>2. call[r] # NoCall /\ call[r] \in BookingCall /\ call[r].op = "preview"
        /\ call[r].key \in Keys /\ call[r].inSlot \in BOOLEAN
    BY <2>1, CallFields DEF At, BookingInv
  <2>3. \E c \in BookingCall \cup {NoCall} :
          Go(r, c) /\ (c # NoCall => c.op \in {"convert", "cleanUp"})
    <3> DEFINE converts == [call[r] EXCEPT !.op = "convert"]
               cleans == [op |-> "cleanUp", key |-> call[r].key]
    <3>1. converts \in BookingCall /\ converts.op = "convert"
      <4>1. call[r] \in [op : {"preview", "convert"}, key : Keys, inSlot : BOOLEAN]
        BY <2>2 DEF BookingCall
      <4> QED BY <4>1 DEF BookingCall
    <3>2. cleans \in BookingCall /\ cleans.op = "cleanUp"  BY <2>2 DEF BookingCall
    <3> HIDE DEF converts, cleans
    <3>3. Go(r, converts) \/ Go(r, cleans) \/ Go(r, NoCall)
      BY <1>2 DEF Preview, Failed, End, converts, cleans
    <3> QED BY <3>1, <3>2, <3>3
  <2> QED BY <2>1, <2>2, <2>3, Reading
<1>3. ASSUME Die(r)
      PROVE  BookingInv'
  BY <1>3, Reading DEF Die, End
<1> QED BY <1>1, <1>2, <1>3

LEMMA TheOfficeReadsSubmissions ==
  ASSUME BookingInv, NEW r \in Callers, NEW k \in Keys,
         StartConversion(r, k) \/ ReadSubmission(r, k) \/ ReadWebsiteSubmission(r, k)
  PROVE  BookingInv'
<1>1. ASSUME StartConversion(r, k)
      PROVE  BookingInv'
  <2>1. PICK inSlot \in BOOLEAN : Go(r, [op |-> "preview", key |-> k, inSlot |-> inSlot])
    BY <1>1 DEF StartConversion
  <2> DEFINE c == [op |-> "preview", key |-> k, inSlot |-> inSlot]
  <2>2. c \in BookingCall /\ c.op = "preview" /\ Go(r, c)  BY <2>1 DEF BookingCall
  <2> HIDE DEF c
  <2> QED BY <1>1, <2>2, Reading DEF StartConversion, Starts
<1>2. ASSUME ReadSubmission(r, k)
      PROVE  BookingInv'
  <2>1. PICK s \in FormSubmissionStatus :
          Go(r, [op |-> "review", key |-> k, new |-> s, capacity |-> form.capacity,
                 restore |-> sub[k].status = "DECLINED" /\ s # "DECLINED"])
    BY <1>2 DEF ReadSubmission
  <2> DEFINE restores == sub[k].status = "DECLINED" /\ s # "DECLINED"
             c == [op |-> "review", key |-> k, new |-> s, capacity |-> form.capacity,
                   restore |-> restores]
  <2>2. restores \in BOOLEAN  BY Zenon
  <2>3. form.capacity \in Capacities  BY DEF BookingInv, BookingTypeOK
  <2>4. Go(r, c)  BY <2>1
  <2> HIDE DEF restores
  <2>5. c \in BookingCall /\ c.op = "review"  BY <2>2, <2>3 DEF BookingCall
  <2> HIDE DEF c
  <2> QED BY <1>2, <2>4, <2>5, Reading DEF ReadSubmission, Starts
<1>3. ASSUME ReadWebsiteSubmission(r, k)
      PROVE  BookingInv'
  <2>1. PICK s \in WebsiteSubmissionStatus \ {"CONVERTED"} :
          Go(r, [op |-> "inbox", key |-> k, new |-> s])
    BY <1>3 DEF ReadWebsiteSubmission
  <2> DEFINE c == [op |-> "inbox", key |-> k, new |-> s]
  <2>2. c \in BookingCall /\ c.op = "inbox" /\ c.key = k /\ Go(r, c)  BY <2>1 DEF BookingCall
  <2> HIDE DEF c
  <2>3. inbox[k] # "CONVERTED"  BY <1>3 DEF ReadWebsiteSubmission
  <2> QED BY <1>3, <2>2, <2>3, Reading DEF ReadWebsiteSubmission, Starts
<1> QED BY <1>1, <1>2, <1>3

LEMMA BookingsAreRead ==
  ASSUME BookingInv, NEW r \in Callers, NEW b \in Bookings,
         \/ StartBooking(r) \/ ReadBooking(r, b) \/ ReadRequest(r, b)
         \/ ReadForRequest(r, b)
  PROVE  BookingInv'
<1>1. ASSUME StartBooking(r)
      PROVE  BookingInv'
  <2> DEFINE c == [op |-> "create"]
  <2>1. c \in BookingCall /\ c.op = "create" /\ Go(r, c)  BY <1>1 DEF BookingCall, StartBooking
  <2> HIDE DEF c
  <2> QED BY <1>1, <2>1, Reading DEF StartBooking, Starts
<1>2. ASSUME ReadBooking(r, b)
      PROVE  BookingInv'
  <2>1. \E c \in BookingCall : c.op \in ops /\ c.op # "inbox" /\ Starts(r, c.op) /\ Go(r, c)
    <3>1. ASSUME NEW inSlot \in BOOLEAN, Starts(r, "update"),
                 Go(r, [op |-> "update", booking |-> b, inSlot |-> inSlot])
          PROVE  \E c \in BookingCall : c.op \in ops /\ c.op # "inbox" /\ Starts(r, c.op) /\ Go(r, c)
      <4> DEFINE c == [op |-> "update", booking |-> b, inSlot |-> inSlot]
      <4>1. c \in BookingCall /\ c.op = "update" /\ Go(r, c)  BY <3>1 DEF BookingCall
      <4> HIDE DEF c
      <4> QED BY <4>1, <3>1 DEF Starts
    <3>2. ASSUME NEW s \in BookingTransitions(booking[b].status), Starts(r, "status"),
                 Go(r, [op |-> "status", booking |-> b, new |-> s])
          PROVE  \E c \in BookingCall : c.op \in ops /\ c.op # "inbox" /\ Starts(r, c.op) /\ Go(r, c)
      <4> DEFINE c == [op |-> "status", booking |-> b, new |-> s]
      <4>1. c \in BookingCall /\ c.op = "status" /\ Go(r, c)
        BY <3>2 DEF BookingCall, BookingTransitions, BookingStatus
      <4> HIDE DEF c
      <4> QED BY <4>1, <3>2 DEF Starts
    <3>3. ASSUME Starts(r, "delete"), Go(r, [op |-> "delete", booking |-> b])
          PROVE  \E c \in BookingCall : c.op \in ops /\ c.op # "inbox" /\ Starts(r, c.op) /\ Go(r, c)
      <4> DEFINE c == [op |-> "delete", booking |-> b]
      <4>1. c \in BookingCall /\ c.op = "delete" /\ Go(r, c)  BY <3>3 DEF BookingCall
      <4> HIDE DEF c
      <4> QED BY <4>1, <3>3 DEF Starts
    <3> QED BY <1>2, <3>1, <3>2, <3>3 DEF ReadBooking
  <2> QED BY <1>2, <2>1, Reading DEF ReadBooking, Starts
<1>3. ASSUME ReadRequest(r, b)
      PROVE  BookingInv'
  <2>1. PICK approve \in BOOLEAN :
          Go(r, [op |-> "decide", booking |-> b, approve |-> approve, cancel |-> change[b].cancel])
    BY <1>3 DEF ReadRequest
  <2> DEFINE c == [op |-> "decide", booking |-> b, approve |-> approve, cancel |-> change[b].cancel]
  <2>2. change[b].cancel \in BOOLEAN  BY DEF BookingInv, BookingTypeOK
  <2>3. c \in BookingCall /\ c.op = "decide" /\ Go(r, c)  BY <2>1, <2>2 DEF BookingCall
  <2> HIDE DEF c
  <2> QED BY <1>3, <2>3, Reading DEF ReadRequest, Starts
<1>4. ASSUME ReadForRequest(r, b)
      PROVE  BookingInv'
  <2>1. PICK cancel \in BOOLEAN : Go(r, [op |-> "request", booking |-> b, cancel |-> cancel])
    BY <1>4 DEF ReadForRequest
  <2> DEFINE c == [op |-> "request", booking |-> b, cancel |-> cancel]
  <2>2. c \in BookingCall /\ c.op = "request" /\ Go(r, c)  BY <2>1 DEF BookingCall
  <2> HIDE DEF c
  <2> QED BY <1>4, <2>2, Reading DEF ReadForRequest, Starts
<1> QED BY <1>1, <1>2, <1>3, <1>4

------------------------
(* Bookings: the writes *)

LEMMA Statuses ==
  /\ \A s \in FormSubmissionStatus : EnvelopeStatus(s) \in WebsiteSubmissionStatus
  /\ \A s \in FormSubmissionStatus : (EnvelopeStatus(s) = "CONVERTED") = (s = "CONVERTED")
BY DEF FormSubmissionStatus, WebsiteSubmissionStatus, EnvelopeStatus

LEMMA SyncKeepsTheInbox ==
  ASSUME BookingInv, NEW k \in Keys, NEW s \in FormSubmissionStatus, Sync(k, s),
         sub'[k].status = s, \A j \in Keys \ {k} : sub'[j] = sub[j], ops' = ops
  PROVE  inbox' \in [Keys -> WebsiteSubmissionStatus \cup {"NONE"}] /\ InboxAgrees'
<1>1. inbox \in [Keys -> WebsiteSubmissionStatus \cup {"NONE"}]  BY DEF BookingInv, BookingTypeOK
<1>2. inbox' \in [Keys -> WebsiteSubmissionStatus \cup {"NONE"}]  BY <1>1, Statuses DEF Sync
<1>3. (inbox'[k] = "NONE" \/ inbox'[k] = EnvelopeStatus(s))
      /\ \A j \in Keys \ {k} : inbox'[j] = inbox[j]
  BY <1>1 DEF Sync
<1>4. InboxAgrees'  BY <1>3, Statuses DEF BookingInv, InboxAgrees
<1> QED BY <1>2, <1>4

LEMMA SubmitKeepsBookingInv ==
  ASSUME BookingInv, BookingAssumption, NEW r \in Callers, Submit(r)
  PROVE  BookingInv'
<1> DEFINE k == call[r].key
           c == [op |-> "preview", key |-> k, inSlot |-> TRUE]
           d == [op |-> "repeat", key |-> k, status |-> sub[k].status]
           asked == SubmissionRow("NEW", NoBooking)
<1>1. call[r] # NoCall /\ k \in Keys /\ UNCHANGED <<form, booking, change, ops>>
  BY CallFields DEF Submit, At, BookingInv
<1>2. c \in BookingCall /\ c.op = "preview"  BY <1>1 DEF BookingCall
<1>3. asked \in Submission /\ asked.status = "NEW" /\ asked.booking = NoBooking
  BY DEF Submission, FormSubmissionStatus, SubmissionRow
<1>4. \/ Repeated(k) /\ Go(r, d) /\ UNCHANGED <<sub, inbox>>
      \/ ~Repeated(k) /\ sub' = [sub EXCEPT ![k] = asked] /\ inbox' = [inbox EXCEPT ![k] = "NEW"]
         /\ Go(r, c)
      \/ Go(r, NoCall) /\ UNCHANGED <<sub, inbox>>
  BY DEF Submit, End
<1>7. Repeated(k) => d \in BookingCall /\ d.op = "repeat"
  <2>1. sub[k] \in Submission  BY <1>1 DEF BookingInv, BookingTypeOK, Submission
  <2>2. Repeated(k) => sub[k].status \in FormSubmissionStatus  BY <2>1 DEF Repeated, Submission
  <2> QED BY <1>1, <2>2 DEF BookingCall
<1> HIDE DEF c, d, k, asked
<1>5. CallsAreTyped' /\ OneCall' /\ InboxCallIsCurrent'
  <2>1. CASE Go(r, c)  BY <2>1, <1>1, <1>2, CallsStay
  <2>2. CASE Go(r, NoCall)  BY <2>2, <1>1, CallsStay
  <2>3. CASE Repeated(k) /\ Go(r, d) /\ UNCHANGED inbox  BY <2>3, <1>1, <1>7, CallsStay
  <2> QED BY <2>1, <2>2, <2>3, <1>4
<1>6. BookingTypeOK' /\ NameEachOther' /\ InboxAgrees'
  <2>0. /\ form \in [published : BOOLEAN, capacity : Capacities]
        /\ sub \in [Keys -> Submission]
        /\ inbox \in [Keys -> WebsiteSubmissionStatus \cup {"NONE"}]
        /\ NameEachOther /\ InboxAgrees
    BY DEF BookingInv, BookingTypeOK, Submission
  <2>2. CASE ~Repeated(k) /\ sub' = [sub EXCEPT ![k] = asked] /\ inbox' = [inbox EXCEPT ![k] = "NEW"]
    <3>1. sub' \in [Keys -> Submission] /\ inbox' \in [Keys -> WebsiteSubmissionStatus \cup {"NONE"}]
      BY <2>0, <2>2, <1>1, <1>3 DEF WebsiteSubmissionStatus
    <3>2. BookingTypeOK'  BY <3>1, <1>1 DEF BookingInv, BookingTypeOK, Submission
    <3>3. sub[k].status = "NONE"  BY <2>2 DEF Repeated
    <3>4. NameEachOther'
      BY <2>0, <2>2, <1>1, <1>3, <3>3, BookingAssumption DEF NameEachOther, Exists, Submission
    <3>5. InboxAgrees'  BY <2>0, <2>2, <1>1, <1>3 DEF InboxAgrees
    <3> QED BY <3>2, <3>4, <3>5
  <2>3. CASE UNCHANGED <<sub, inbox>>  BY <2>3, <1>1, ReadsChangeNothing
  <2> QED BY <1>4, <2>2, <2>3
<1> QED BY <1>5, <1>6 DEF BookingInv

\* A retry's late write: what was changed meanwhile is marked.
LEMMA RepeatKeepsBookingInv ==
  ASSUME BookingInv, NEW r \in Callers, EnsureBookingWebsiteSubmission(r)
  PROVE  BookingInv'
<1> DEFINE k == call[r].key
           s == call[r].status
           c == [op |-> "preview", key |-> k, inSlot |-> TRUE]
           late == sub[k].status # s
           marked == [sub[k] EXCEPT !.overtaken = late]
<1>1. call[r] # NoCall /\ k \in Keys /\ s \in FormSubmissionStatus
      /\ UNCHANGED <<form, booking, change, ops>>
  BY CallFields DEF EnsureBookingWebsiteSubmission, At, BookingInv
<1>2. c \in BookingCall /\ c.op = "preview"  BY <1>1 DEF BookingCall
<1>3. /\ sub \in [Keys -> Submission]
      /\ inbox \in [Keys -> WebsiteSubmissionStatus \cup {"NONE"}]
      /\ NameEachOther /\ InboxAgrees
  BY DEF BookingInv, BookingTypeOK, Submission
<1>4. late \in BOOLEAN  BY Zenon
<1>5. \/ Go(r, NoCall) /\ UNCHANGED <<sub, inbox>>
      \/ /\ inbox' = [inbox EXCEPT ![k] = EnvelopeStatus(s)] /\ Go(r, c)
         /\ sub' = [sub EXCEPT ![k] = marked]
  BY DEF EnsureBookingWebsiteSubmission, End
<1>6. late = (sub[k].status # s)  OBVIOUS
<1> HIDE DEF late
<1>7. marked \in Submission /\ marked.status = sub[k].status /\ marked.booking = sub[k].booking
      /\ marked.overtaken = late
  BY <1>1, <1>3, <1>4 DEF Submission
<1> HIDE DEF k, s, c, marked
<1>8. CallsAreTyped' /\ OneCall' /\ InboxCallIsCurrent'
  <2>1. CASE Go(r, c)  BY <2>1, <1>1, <1>2, CallsStay
  <2>2. CASE Go(r, NoCall)  BY <2>2, <1>1, CallsStay
  <2> QED BY <2>1, <2>2, <1>5
<1>9. CASE UNCHANGED <<sub, inbox>>  BY <1>1, <1>8, <1>9, ReadsChangeNothing DEF BookingInv
<1>10. CASE inbox' = [inbox EXCEPT ![k] = EnvelopeStatus(s)] /\ sub' = [sub EXCEPT ![k] = marked]
  <2>1. sub' \in [Keys -> Submission] /\ inbox' \in [Keys -> WebsiteSubmissionStatus \cup {"NONE"}]
    BY <1>1, <1>3, <1>7, <1>10, Statuses
  <2>2. \A j \in Keys \ {k} : sub'[j] = sub[j] /\ inbox'[j] = inbox[j]  BY <1>3, <1>10
  <2>3. sub'[k] = marked /\ inbox'[k] = EnvelopeStatus(s)  BY <1>1, <1>3, <1>10
  <2>4. BookingTypeOK'  BY <1>1, <2>1 DEF BookingInv, BookingTypeOK, Submission
  <2>5. \A j \in Keys : sub'[j].booking = sub[j].booking /\ sub'[j].status = sub[j].status
    BY <1>7, <2>2, <2>3
  <2>6. NameEachOther'  BY <1>1, <1>3, <2>5 DEF NameEachOther, Exists, BookingInv, BookingTypeOK
  <2>7. ~marked.overtaken => (EnvelopeStatus(s) = "CONVERTED") = (marked.status = "CONVERTED")
    BY <1>1, <1>6, <1>7, Statuses
  <2>8. InboxAgrees'  BY <1>1, <1>3, <2>2, <2>3, <2>7 DEF InboxAgrees
  <2> QED BY <1>8, <2>4, <2>6, <2>8 DEF BookingInv
<1> QED BY <1>5, <1>9, <1>10

LEMMA ConvertKeepsBookingInv ==
  ASSUME BookingInv, BookingAssumption, NEW r \in Callers, Convert(r)
  PROVE  BookingInv'
<1> DEFINE k == call[r].key
           c == [op |-> "cleanUp", key |-> k]
<1>1. call[r] # NoCall /\ k \in Keys /\ call[r].inSlot \in BOOLEAN /\ UNCHANGED <<form, change, ops>>
  BY CallFields DEF Convert, At, BookingInv
<1>2. c \in BookingCall /\ c.op = "cleanUp"  BY <1>1 DEF BookingCall
<1>3. \/ /\ Convertible(sub[k])
         /\ \E b \in Bookings :
              /\ Unused(b)
              /\ booking' = [booking EXCEPT ![b] =
                     [status |-> "SCHEDULED", inSlot |-> call[r].inSlot, from |-> k]]
              /\ sub' = [sub EXCEPT ![k] = SubmissionRow("CONVERTED", b)]
         /\ Sync(k, "CONVERTED")
         /\ Go(r, NoCall)
      \/ (Go(r, NoCall) \/ Go(r, c)) /\ UNCHANGED <<sub, inbox, booking>>
  BY DEF Convert, End, Failed
<1> HIDE DEF k, c
<1>4. CallsAreTyped' /\ OneCall' /\ InboxCallIsCurrent'
  <2>1. CASE Go(r, c)  BY <2>1, <1>1, <1>2, CallsStay
  <2>2. CASE Go(r, NoCall)  BY <2>2, <1>1, CallsStay
  <2> QED BY <2>1, <2>2, <1>3
<1>5. BookingTypeOK' /\ NameEachOther' /\ InboxAgrees'
  <2>1. CASE UNCHANGED <<sub, inbox, booking>>  BY <2>1, <1>1, ReadsChangeNothing
  <2>2. ASSUME Convertible(sub[k]), NEW b \in Bookings, Unused(b),
               booking' = [booking EXCEPT ![b] =
                     [status |-> "SCHEDULED", inSlot |-> call[r].inSlot, from |-> k]],
               sub' = [sub EXCEPT ![k] = SubmissionRow("CONVERTED", b)],
               Sync(k, "CONVERTED")
        PROVE  BookingTypeOK' /\ NameEachOther' /\ InboxAgrees'
    <3> DEFINE row == [status |-> "SCHEDULED", inSlot |-> call[r].inSlot, from |-> k]
               converted == SubmissionRow("CONVERTED", b)
    <3>1. row \in BookingRow /\ row.from = k /\ row.status = "SCHEDULED"
      BY <1>1 DEF BookingRow, BookingStatus
    <3>2. converted \in Submission /\ converted.status = "CONVERTED" /\ converted.booking = b
      BY DEF Submission, FormSubmissionStatus, SubmissionRow
    <3>3. booking' = [booking EXCEPT ![b] = row] /\ sub' = [sub EXCEPT ![k] = converted]  BY <2>2
    <3> HIDE DEF row, converted
    <3>4. /\ sub \in [Keys -> Submission] /\ booking \in [Bookings -> BookingRow]
          /\ NameEachOther
      BY DEF BookingInv, BookingTypeOK, Submission, BookingRow
    <3>5. "CONVERTED" \in FormSubmissionStatus  BY DEF FormSubmissionStatus
    <3>6. inbox' \in [Keys -> WebsiteSubmissionStatus \cup {"NONE"}] /\ InboxAgrees'
      BY <3>2, <3>3, <3>4, <3>5, <2>2, <1>1, SyncKeepsTheInbox
    <3>7. sub' \in [Keys -> Submission] /\ booking' \in [Bookings -> BookingRow]
      BY <3>1, <3>2, <3>3, <3>4, <1>1
    <3>8. BookingTypeOK'  BY <3>6, <3>7, <1>1 DEF BookingInv, BookingTypeOK, Submission, BookingRow
    <3>9. sub[k].booking = NoBooking /\ booking[b].from = NoKey
      BY <2>2, <3>4 DEF Convertible, NameEachOther, Exists, Unused
    <3>10. NameEachOther'
      BY <3>1, <3>2, <3>3, <3>4, <3>9, <1>1, BookingAssumption
      DEF NameEachOther, Exists, Submission, BookingRow
    <3> QED BY <3>6, <3>8, <3>10
  <2> QED BY <1>3, <2>1, <2>2
<1> QED BY <1>4, <1>5 DEF BookingInv

LEMMA CleanUpKeepsBookingInv ==
  ASSUME BookingInv, BookingAssumption, NEW r \in Callers, CleanUp(r)
  PROVE  BookingInv'
<1> DEFINE k == call[r].key
<1>1. call[r] # NoCall /\ k \in Keys /\ UNCHANGED <<form, booking, change, ops>> /\ Go(r, NoCall)
  BY CallFields DEF CleanUp, At, BookingInv, End
<1>2. CallsAreTyped' /\ OneCall' /\ InboxCallIsCurrent'  BY <1>1, CallsStay
<1>3. CASE UNCHANGED <<inbox, sub>>  BY <1>1, <1>2, <1>3, ReadsChangeNothing DEF BookingInv
<1>4. CASE /\ inbox' = [inbox EXCEPT ![k] = "NONE"]
           /\ sub' = IF Withdrawn(sub[k]) THEN [sub EXCEPT ![k] = NoSubmission] ELSE sub
  <2>1. /\ sub \in [Keys -> Submission]
        /\ inbox \in [Keys -> WebsiteSubmissionStatus \cup {"NONE"}]
        /\ NameEachOther /\ InboxAgrees
    BY DEF BookingInv, BookingTypeOK, Submission
  <2>2. NoSubmission \in Submission /\ NoSubmission.booking = NoBooking /\ NoSubmission.status = "NONE"
    BY DEF NoSubmission, Submission
  <2> HIDE DEF k
  <2>3. sub' \in [Keys -> Submission] /\ inbox' \in [Keys -> WebsiteSubmissionStatus \cup {"NONE"}]
    BY <2>1, <2>2, <1>4, <1>1
  <2>4. BookingTypeOK'  BY <2>3, <1>1 DEF BookingInv, BookingTypeOK, Submission
  <2>5. \A j \in Keys \ {k} : sub'[j] = sub[j] /\ inbox'[j] = inbox[j]  BY <2>1, <1>4
  <2>6. inbox'[k] = "NONE" /\ (sub'[k] = sub[k] \/ (sub[k].booking = NoBooking /\ sub'[k] = NoSubmission))
    BY <2>1, <1>4, <1>1 DEF Withdrawn
  <2>7. InboxAgrees'  BY <2>1, <2>5, <2>6, <1>1 DEF InboxAgrees
  <2>8. NameEachOther'
    <3>1. \A j \in Keys : sub'[j] = sub[j] \/ (sub[j].booking = NoBooking /\ sub'[j] = NoSubmission)
      BY <2>5, <2>6
    <3>2. \A b \in Bookings : booking[b].from # NoKey => booking[b].from \in Keys /\ b # NoBooking
      BY BookingAssumption DEF BookingInv, BookingTypeOK, BookingRow
    <3>3. ASSUME NEW j \in Keys, sub'[j].booking # NoBooking
          PROVE  sub'[j].status # "NONE" /\ booking'[sub'[j].booking].from = j
      BY <2>1, <2>2, <3>1, <3>3, <1>1 DEF NameEachOther
    <3>4. ASSUME NEW b \in Bookings, booking'[b].from # NoKey
          PROVE  Exists(b)' /\ sub'[booking'[b].from].booking = b
      BY <2>1, <3>1, <3>2, <3>4, <1>1 DEF NameEachOther, Exists
    <3> QED BY <3>3, <3>4 DEF NameEachOther
  <2> QED BY <1>2, <2>4, <2>7, <2>8 DEF BookingInv
<1> QED BY <1>3, <1>4 DEF CleanUp

LEMMA ReviewsKeepBookingInv ==
  ASSUME BookingInv, BookingAssumption, NEW r \in Callers,
         UpdateSubmissionStatus(r) \/ UpdateWebsiteSubmissionStatus(r)
  PROVE  BookingInv'
<1> DEFINE k == call[r].key
           s == call[r].new
<1>1. CASE UpdateSubmissionStatus(r)
  <2>1. call[r] # NoCall /\ k \in Keys /\ s \in FormSubmissionStatus
        /\ UNCHANGED <<form, booking, change, ops>> /\ Go(r, NoCall)
    BY <1>1, CallFields DEF UpdateSubmissionStatus, At, BookingInv, End
  <2>2. CallsAreTyped' /\ OneCall' /\ InboxCallIsCurrent'  BY <2>1, CallsStay
  <2>3. CASE UNCHANGED <<sub, inbox>>  BY <2>1, <2>2, <2>3, ReadsChangeNothing DEF BookingInv
  <2>4. CASE sub[k].status # "NONE" /\ sub' = [sub EXCEPT ![k] = SubmissionRow(s, sub[k].booking)] /\ Sync(k, s)
    <3>1. sub \in [Keys -> Submission] /\ NameEachOther  BY DEF BookingInv, BookingTypeOK, Submission
    <3> DEFINE reviewed == SubmissionRow(s, sub[k].booking)
    <3>2. reviewed \in Submission /\ reviewed.status = s /\ reviewed.booking = sub[k].booking
      BY <2>1, <3>1 DEF Submission, SubmissionRow
    <3>3. sub' = [sub EXCEPT ![k] = reviewed]  BY <2>4
    <3> HIDE DEF reviewed, k, s
    <3>4. inbox' \in [Keys -> WebsiteSubmissionStatus \cup {"NONE"}] /\ InboxAgrees'
      BY <2>1, <2>4, <3>1, <3>2, <3>3, SyncKeepsTheInbox
    <3>5. sub' \in [Keys -> Submission]  BY <2>1, <3>1, <3>2, <3>3
    <3>6. BookingTypeOK'  BY <3>4, <3>5, <2>1 DEF BookingInv, BookingTypeOK, Submission
    <3>7. \A j \in Keys : sub'[j].booking = sub[j].booking
                          /\ (sub[j].status # "NONE" => sub'[j].status # "NONE")
      BY <2>1, <3>1, <3>2, <3>3 DEF FormSubmissionStatus
    <3>8. NameEachOther'  BY <3>1, <3>7, <2>1 DEF NameEachOther, Exists, BookingInv, BookingTypeOK
    <3> QED BY <2>2, <3>4, <3>6, <3>8 DEF BookingInv
  <2> QED BY <2>3, <2>4, <1>1 DEF UpdateSubmissionStatus
<1>2. CASE UpdateWebsiteSubmissionStatus(r)
  <2>1. call[r] # NoCall /\ k \in Keys /\ s \in WebsiteSubmissionStatus \ {"CONVERTED"}
        /\ UNCHANGED <<form, sub, booking, change, ops>> /\ Go(r, NoCall) /\ call[r].op = "inbox"
    BY <1>2, CallFields DEF UpdateWebsiteSubmissionStatus, At, BookingInv, End
  <2>2. CallsAreTyped' /\ OneCall' /\ InboxCallIsCurrent'  BY <2>1, CallsStay
  <2>3. /\ inbox \in [Keys -> WebsiteSubmissionStatus \cup {"NONE"}]
        /\ NameEachOther /\ InboxAgrees /\ InboxCallIsCurrent /\ CallsAreTyped
    BY DEF BookingInv, BookingTypeOK
  <2>4. inbox' = IF inbox[k] = "NONE" THEN inbox ELSE [inbox EXCEPT ![k] = s]
    BY <1>2 DEF UpdateWebsiteSubmissionStatus
  <2>5. "race" \notin ops => inbox[k] # "CONVERTED"  BY <2>1, <2>3 DEF InboxCallIsCurrent, At
  <2>6. "inbox" \in ops  BY <2>1, <2>3 DEF CallsAreTyped
  <2> HIDE DEF k, s
  <2>7. inbox' \in [Keys -> WebsiteSubmissionStatus \cup {"NONE"}]  BY <2>1, <2>3, <2>4
  <2>8. BookingTypeOK'  BY <2>1, <2>7 DEF BookingInv, BookingTypeOK
  <2>9. NameEachOther'  BY <2>1, <2>3 DEF NameEachOther, Exists
  <2>10. InboxAgrees'  BY <2>1, <2>3, <2>4, <2>5, <2>6 DEF InboxAgrees
  <2> QED BY <2>2, <2>8, <2>9, <2>10 DEF BookingInv
<1> QED BY <1>1, <1>2

\* One row of a booking is written, its origin is not; a row that is gone stays so.
LEMMA RowsAreWritten ==
  ASSUME BookingInv, BookingAssumption, NEW b \in Bookings, NEW row \in BookingRow,
         booking' = [booking EXCEPT ![b] = row],
         row.from = booking[b].from, Exists(b) => row.status \notin {"NONE", "GONE"},
         UNCHANGED <<form, sub, inbox, ops>>,
         change' \in [Bookings -> [status : {"NONE", "PENDING", "APPROVED", "REJECTED"},
                                   cancel : BOOLEAN]]
  PROVE  BookingTypeOK' /\ NameEachOther' /\ InboxAgrees'
<1>1. booking \in [Bookings -> BookingRow] /\ NameEachOther /\ InboxAgrees
  BY DEF BookingInv, BookingTypeOK, BookingRow
<1>2. booking' \in [Bookings -> BookingRow]  BY <1>1
<1>3. BookingTypeOK'  BY <1>2 DEF BookingInv, BookingTypeOK, BookingRow
<1>4. \A c \in Bookings : booking'[c].from = booking[c].from
        /\ (booking[c].status \notin {"NONE", "GONE"} => booking'[c].status \notin {"NONE", "GONE"})
  BY <1>1 DEF Exists
<1>5. NameEachOther'
  BY <1>1, <1>4, BookingAssumption DEF NameEachOther, Exists, BookingInv, BookingTypeOK
<1>6. InboxAgrees'  BY <1>1 DEF InboxAgrees
<1> QED BY <1>3, <1>5, <1>6

LEMMA BookingsAreWritten ==
  ASSUME BookingInv, BookingAssumption, NEW r \in Callers,
         \/ CreateBooking(r) \/ UpdateBooking(r) \/ UpdateBookingStatus(r)
         \/ CreateRequest(r) \/ DecideRequest(r)
  PROVE  BookingInv'
<1> DEFINE b == call[r].booking
<1>0. /\ booking \in [Bookings -> BookingRow] /\ NameEachOther
      /\ change \in [Bookings -> [status : {"NONE", "PENDING", "APPROVED", "REJECTED"},
                                  cancel : BOOLEAN]]
  BY DEF BookingInv, BookingTypeOK, BookingRow
<1>1. call[r] # NoCall /\ Go(r, NoCall) /\ UNCHANGED <<form, sub, inbox, ops>>
  BY DEF CreateBooking, UpdateBooking, UpdateBookingStatus, CreateRequest, DecideRequest, At,
         WriteBooking, End
<1>2. CallsAreTyped' /\ OneCall' /\ InboxCallIsCurrent'  BY <1>1, CallsStay
<1>3. ASSUME CreateBooking(r)
      PROVE  BookingTypeOK' /\ NameEachOther' /\ InboxAgrees'
  <2>1. PICK new \in Bookings, inSlot \in BOOLEAN :
          /\ Unused(new)
          /\ booking' = [booking EXCEPT ![new] =
                 [status |-> "SCHEDULED", inSlot |-> inSlot, from |-> NoKey]]
    BY <1>3 DEF CreateBooking
  <2> DEFINE row == [status |-> "SCHEDULED", inSlot |-> inSlot, from |-> NoKey]
  <2>2. row \in BookingRow /\ row.from = NoKey /\ row.status = "SCHEDULED"
    BY DEF BookingRow, BookingStatus
  <2>3. booking' = [booking EXCEPT ![new] = row]  BY <2>1
  <2> HIDE DEF row
  <2>4. booking[new].from = NoKey  BY <2>1, <1>0 DEF NameEachOther, Exists, Unused
  <2> QED BY <2>2, <2>3, <2>4, <1>0, <1>1, <1>3, RowsAreWritten DEF CreateBooking
<1>4. ASSUME UpdateBooking(r)
      PROVE  BookingTypeOK' /\ NameEachOther' /\ InboxAgrees'
  <2>1. b \in Bookings /\ call[r].inSlot \in BOOLEAN
    BY <1>4, CallFields DEF UpdateBooking, At, BookingInv
  <2> DEFINE row == [booking[b] EXCEPT !.inSlot = call[r].inSlot]
  <2>2. row \in BookingRow /\ row.from = booking[b].from /\ row.status = booking[b].status
    BY SMTT(30), <2>1, <1>0 DEF BookingRow
  <2>3. booking' = IF Exists(b) THEN [booking EXCEPT ![b] = row] ELSE booking
    BY <1>4 DEF UpdateBooking, WriteBooking
  <2>4. UNCHANGED change  BY <1>4 DEF UpdateBooking
  <2> HIDE DEF row, b
  <2>5. CASE Exists(b)
    <3>1. row.status \notin {"NONE", "GONE"}  BY <2>2, <2>5 DEF Exists
    <3> QED BY <2>1, <2>2, <2>3, <2>4, <2>5, <3>1, <1>0, <1>1, RowsAreWritten
  <2>6. CASE ~Exists(b)  BY <2>3, <2>4, <2>6, <1>1, ReadsChangeNothing
  <2> QED BY <2>5, <2>6
<1>5. ASSUME UpdateBookingStatus(r)
      PROVE  BookingTypeOK' /\ NameEachOther' /\ InboxAgrees'
  <2>1. b \in Bookings /\ call[r].new \in BookingStatus
    BY <1>5, CallFields DEF UpdateBookingStatus, At, BookingInv
  <2> DEFINE row == [booking[b] EXCEPT !.status = call[r].new]
  <2>2. row \in BookingRow /\ row.from = booking[b].from /\ row.status \notin {"NONE", "GONE"}
    BY <2>1, <1>0 DEF BookingRow, BookingStatus
  <2>3. booking' = IF Exists(b) THEN [booking EXCEPT ![b] = row] ELSE booking
    BY <1>5 DEF UpdateBookingStatus, WriteBooking
  <2>4. UNCHANGED change  BY <1>5 DEF UpdateBookingStatus
  <2> HIDE DEF row, b
  <2>5. CASE Exists(b)  BY <2>1, <2>2, <2>3, <2>4, <2>5, <1>0, <1>1, RowsAreWritten
  <2>6. CASE ~Exists(b)  BY <2>3, <2>4, <2>6, <1>1, ReadsChangeNothing
  <2> QED BY <2>5, <2>6
<1>6. ASSUME CreateRequest(r)
      PROVE  BookingTypeOK' /\ NameEachOther' /\ InboxAgrees'
  <2>1. b \in Bookings /\ call[r].cancel \in BOOLEAN
    BY <1>6, CallFields DEF CreateRequest, At, BookingInv
  <2> DEFINE asked == [status |-> "PENDING", cancel |-> call[r].cancel]
  <2>2. asked \in [status : {"NONE", "PENDING", "APPROVED", "REJECTED"}, cancel : BOOLEAN]  BY <2>1
  <2>3. change' = IF Exists(b) THEN [change EXCEPT ![b] = asked] ELSE change  BY <1>6 DEF CreateRequest
  <2>4. UNCHANGED booking  BY <1>6 DEF CreateRequest
  <2> HIDE DEF asked, b
  <2>5. change' \in [Bookings -> [status : {"NONE", "PENDING", "APPROVED", "REJECTED"},
                                  cancel : BOOLEAN]]
    BY <2>1, <2>2, <2>3, <1>0
  <2> QED BY <2>1, <2>4, <2>5, <1>0, <1>1 DEF BookingInv, BookingTypeOK, NameEachOther, Exists, InboxAgrees
<1>7. ASSUME DecideRequest(r)
      PROVE  BookingTypeOK' /\ NameEachOther' /\ InboxAgrees'
  <2>1. b \in Bookings  BY <1>7, CallFields DEF DecideRequest, At, BookingInv
  <2> DEFINE answer == [change[b] EXCEPT !.status =
                            IF call[r].approve THEN "APPROVED" ELSE "REJECTED"]
             row == [booking[b] EXCEPT !.status = "CANCELLED"]
  <2>2. answer \in [status : {"NONE", "PENDING", "APPROVED", "REJECTED"}, cancel : BOOLEAN]
    BY <2>1, <1>0
  <2>3. change' = change \/ change' = [change EXCEPT ![b] = answer]  BY <1>7 DEF DecideRequest
  <2>4. booking' = booking \/ booking' = [booking EXCEPT ![b] = row]  BY <1>7 DEF DecideRequest
  <2>5. row \in BookingRow /\ row.from = booking[b].from /\ row.status = "CANCELLED"
    BY SMTT(30), <2>1, <1>0 DEF BookingRow, BookingStatus
  <2> HIDE DEF answer, row, b
  <2>6. change' \in [Bookings -> [status : {"NONE", "PENDING", "APPROVED", "REJECTED"},
                                  cancel : BOOLEAN]]
    BY <2>1, <2>2, <2>3, <1>0
  <2>7. CASE booking' = booking
    BY <2>6, <2>7, <1>0, <1>1 DEF BookingInv, BookingTypeOK, NameEachOther, Exists, InboxAgrees
  <2>8. CASE booking' = [booking EXCEPT ![b] = row]  BY <2>1, <2>5, <2>6, <2>8, <1>1, RowsAreWritten
  <2> QED BY <2>4, <2>7, <2>8
<1> QED BY <1>2, <1>3, <1>4, <1>5, <1>6, <1>7 DEF BookingInv

LEMMA DeleteKeepsBookingInv ==
  ASSUME BookingInv, BookingAssumption, NEW r \in Callers, DeleteBooking(r)
  PROVE  BookingInv'
<1> DEFINE b == call[r].booking
<1>0. /\ booking \in [Bookings -> BookingRow] /\ NameEachOther /\ InboxAgrees
      /\ sub \in [Keys -> Submission]
      /\ change \in [Bookings -> [status : {"NONE", "PENDING", "APPROVED", "REJECTED"},
                                  cancel : BOOLEAN]]
  BY DEF BookingInv, BookingTypeOK, BookingRow, Submission
<1>1. call[r] # NoCall /\ Go(r, NoCall) /\ UNCHANGED <<form, inbox, ops>> /\ b \in Bookings
  BY CallFields DEF DeleteBooking, At, WriteBooking, End, BookingInv
<1>2. CallsAreTyped' /\ OneCall' /\ InboxCallIsCurrent'  BY <1>1, CallsStay
<1>3. booking' = (IF Exists(b) THEN [booking EXCEPT ![b] = GoneRow] ELSE booking) /\ Unlink(b)
  BY DEF DeleteBooking, WriteBooking
<1>4. GoneRow \in BookingRow /\ GoneRow.from = NoKey /\ GoneRow.status = "GONE"
  BY DEF GoneRow, NoRow, BookingRow
<1> HIDE DEF b
<1>5. NoChange \in [status : {"NONE", "PENDING", "APPROVED", "REJECTED"}, cancel : BOOLEAN]
  BY DEF NoChange
<1>6. booking' \in [Bookings -> BookingRow] /\ booking'[b].from = NoKey
      /\ \A c \in Bookings \ {b} : booking'[c] = booking[c]
  BY <1>0, <1>1, <1>3, <1>4 DEF NameEachOther
<1>7. change' \in [Bookings -> [status : {"NONE", "PENDING", "APPROVED", "REJECTED"},
                                cancel : BOOLEAN]]
  BY <1>0, <1>1, <1>3, <1>5 DEF Unlink
<1>8. /\ sub' \in [Keys -> Submission]
      /\ \A k \in Keys : /\ sub'[k].status = sub[k].status /\ sub'[k].overtaken = sub[k].overtaken
                         /\ sub[k].booking = b => sub'[k].booking = NoBooking
                         /\ sub[k].booking # b => sub'[k].booking = sub[k].booking
  <2>1. sub' = [k \in Keys |-> IF sub[k].booking = b
                               THEN [sub[k] EXCEPT !.booking = NoBooking] ELSE sub[k]]
    BY <1>3 DEF Unlink
  <2>2. ASSUME NEW k \in Keys
        PROVE  /\ sub'[k] \in Submission
               /\ sub'[k].status = sub[k].status /\ sub'[k].overtaken = sub[k].overtaken
               /\ sub[k].booking = b => sub'[k].booking = NoBooking
               /\ sub[k].booking # b => sub'[k].booking = sub[k].booking
    <3>1. sub[k] \in Submission  BY <1>0
    <3> DEFINE loose == [sub[k] EXCEPT !.booking = NoBooking]
    <3>2. loose \in Submission /\ loose.status = sub[k].status /\ loose.booking = NoBooking
          /\ loose.overtaken = sub[k].overtaken
      BY <3>1 DEF Submission
    <3>3. sub'[k] = IF sub[k].booking = b THEN loose ELSE sub[k]  BY <2>1
    <3> HIDE DEF loose
    <3> QED BY <3>1, <3>2, <3>3
  <2>3. sub' \in [Keys -> Submission]  BY <2>1, <2>2
  <2> QED BY <2>2, <2>3
<1>9. BookingTypeOK'
  BY <1>1, <1>6, <1>7, <1>8 DEF BookingInv, BookingTypeOK, BookingRow, Submission
<1>10. NameEachOther'
  <2>1. ASSUME NEW k \in Keys, sub'[k].booking # NoBooking
        PROVE  sub'[k].status # "NONE" /\ booking'[sub'[k].booking].from = k
    <3>1. sub[k].booking # b /\ sub'[k].booking = sub[k].booking /\ sub[k].booking \in Bookings
      BY <2>1, <1>0, <1>8 DEF Submission
    <3> QED BY <2>1, <3>1, <1>0, <1>6, <1>8 DEF NameEachOther
  <2>2. ASSUME NEW c \in Bookings, booking'[c].from # NoKey
        PROVE  booking'[c].status \notin {"NONE", "GONE"} /\ sub'[booking'[c].from].booking = c
    <3>1. c # b /\ booking'[c] = booking[c]  BY <2>2, <1>6
    <3>2. booking[c].from \in Keys /\ sub[booking[c].from].booking = c
      BY <2>2, <3>1, <1>0 DEF NameEachOther, BookingRow
    <3> QED BY <2>2, <3>1, <3>2, <1>0, <1>8 DEF NameEachOther, Exists
  <2> QED BY <2>1, <2>2 DEF NameEachOther, Exists
<1>11. InboxAgrees'  BY <1>0, <1>1, <1>8 DEF InboxAgrees
<1> QED BY <1>2, <1>9, <1>10, <1>11 DEF BookingInv

LEMMA BookingInvHoldsAtFirst ==
  ASSUME BookingAssumption, Init
  PROVE  BookingInv
<1>1. /\ ops \in Mixes /\ form \in [published : BOOLEAN, capacity : Capacities]
      /\ sub = [k \in Keys |-> NoSubmission] /\ inbox = [k \in Keys |-> "NONE"]
      /\ change = [b \in Bookings |-> NoChange] /\ call = [r \in Callers |-> NoCall]
  BY DEF Init
<1>2. NoSubmission \in Submission /\ NoSubmission.booking = NoBooking /\ NoSubmission.status = "NONE"
  BY DEF NoSubmission, Submission
<1>3. NoChange \in [status : {"NONE", "PENDING", "APPROVED", "REJECTED"}, cancel : BOOLEAN]
  BY DEF NoChange
<1>4. booking \in [Bookings -> BookingRow] /\ \A b \in Bookings : booking[b].from = NoKey
  <2> DEFINE byHand == [NoRow EXCEPT !.status = "SCHEDULED"]
  <2>1. NoRow \in BookingRow /\ NoRow.from = NoKey  BY DEF NoRow, BookingRow
  <2>2. byHand \in BookingRow /\ byHand.from = NoKey  BY DEF NoRow, BookingRow, BookingStatus
  <2>3. \/ booking = [b \in Bookings |-> NoRow]
        \/ \E c \in Bookings : booking = [b \in Bookings |-> IF b = c THEN byHand ELSE NoRow]
    BY DEF Init, Booked
  <2> HIDE DEF byHand
  <2> QED BY <2>1, <2>2, <2>3
<1>5. BookingTypeOK  BY <1>1, <1>2, <1>3, <1>4 DEF BookingTypeOK, Submission, BookingRow
<1>6. CallsAreTyped /\ OneCall /\ InboxCallIsCurrent
  BY <1>1 DEF CallsAreTyped, OneCall, InboxCallIsCurrent, At
<1>7. NameEachOther  BY <1>1, <1>2, <1>4 DEF NameEachOther
<1>8. InboxAgrees  BY <1>1 DEF InboxAgrees
<1> QED BY <1>5, <1>6, <1>7, <1>8 DEF BookingInv

LEMMA BookingInvStays ==
  ASSUME BookingInv, BookingAssumption, BookingNext
  PROVE  BookingInv'
<1>1. ASSUME UpdateBookingForm
      PROVE  BookingInv'
  <2>1. /\ form' \in [published : BOOLEAN, capacity : Capacities]
        /\ UNCHANGED <<sub, inbox, booking, change, call, ops>>
    BY <1>1 DEF UpdateBookingForm
  <2> QED BY <2>1 DEF BookingInv, BookingTypeOK, CallsAreTyped, OneCall, NameEachOther, Exists,
                      InboxAgrees, InboxCallIsCurrent, At
<1>2. ASSUME NEW v \in Visitors, Visit(v)
      PROVE  BookingInv'
  <2>1. v \in Callers  BY DEF Callers
  <2> QED BY <1>2, <2>1, VisitorsRead, SubmitKeepsBookingInv, RepeatKeepsBookingInv,
             ConvertKeepsBookingInv, CleanUpKeepsBookingInv DEF Visit
<1>3. ASSUME NEW o \in Office, Desk(o)
      PROVE  BookingInv'
  <2>1. o \in Callers  BY DEF Callers
  <2>2. ASSUME \E k \in Keys : StartConversion(o, k) \/ ReadSubmission(o, k) \/ ReadWebsiteSubmission(o, k)
        PROVE  BookingInv'
    BY <2>1, <2>2, TheOfficeReadsSubmissions
  <2>3. ASSUME Preview(o) \/ Convert(o)
        PROVE  BookingInv'
    BY <2>1, <2>3, VisitorsRead, ConvertKeepsBookingInv
  <2>4. ASSUME UpdateSubmissionStatus(o) \/ UpdateWebsiteSubmissionStatus(o)
        PROVE  BookingInv'
    BY <2>1, <2>4, ReviewsKeepBookingInv
  <2>5. ASSUME StartBooking(o)
        PROVE  BookingInv'
    <3>1. CASE Bookings = {}
      <4> DEFINE c == [op |-> "create"]
      <4>1. c \in BookingCall /\ c.op = "create" /\ Go(o, c)  BY <2>5 DEF BookingCall, StartBooking
      <4> HIDE DEF c
      <4> QED BY <2>1, <2>5, <4>1, Reading DEF StartBooking, Starts
    <3>2. CASE Bookings # {}  BY <2>1, <2>5, <3>2, BookingsAreRead
    <3> QED BY <3>1, <3>2
  <2>6. ASSUME \E b \in Bookings : ReadBooking(o, b) \/ ReadRequest(o, b)
        PROVE  BookingInv'
    BY <2>1, <2>6, BookingsAreRead
  <2>7. ASSUME CreateBooking(o) \/ UpdateBooking(o) \/ UpdateBookingStatus(o) \/ DecideRequest(o)
        PROVE  BookingInv'
    BY <2>1, <2>7, BookingsAreWritten
  <2>8. ASSUME DeleteBooking(o)
        PROVE  BookingInv'
    BY <2>1, <2>8, DeleteKeepsBookingInv
  <2> QED BY <1>3, <2>2, <2>3, <2>4, <2>5, <2>6, <2>7, <2>8 DEF Desk
<1>4. ASSUME NEW p \in Portals, Portal(p)
      PROVE  BookingInv'
  <2>1. p \in Callers  BY DEF Callers
  <2> QED BY <1>4, <2>1, BookingsAreRead, BookingsAreWritten DEF Portal
<1> QED BY <1>1, <1>2, <1>3, <1>4 DEF BookingNext

LEMMA BookedOnceFollows ==
  ASSUME BookingInv, BookingAssumption
  PROVE  BookedOnceAndSaidSo
BY DEF BookingInv, BookedOnceAndSaidSo, BookedOnce, NameEachOther

\* A booking that exists is deleted or stays; only its status change and a decision write
\* another status.
LEMMA WhatBecomesOfABooking ==
  ASSUME BookingInv, BookingAssumption, BookingNext, NEW b \in Bookings, Exists(b)
  PROVE  /\ booking'[b].status # "NONE"
         /\ ops \cap {"status", "decide"} = {} => booking'[b].status \in {booking[b].status, "GONE"}
<1> DEFINE Kept == /\ booking'[b].status # "NONE"
                   /\ ops \cap {"status", "decide"} = {} =>
                        booking'[b].status \in {booking[b].status, "GONE"}
<1>0. booking \in [Bookings -> BookingRow]  BY DEF BookingInv, BookingTypeOK, BookingRow
<1>1. CASE booking' = booking  BY <1>1 DEF Exists
<1>2. ASSUME NEW r \in Callers, Convert(r) \/ CreateBooking(r)
      PROVE  Kept
  <2>1. booking' = booking \/ \E c \in Bookings, row \in BookingRow :
          Unused(c) /\ booking' = [booking EXCEPT ![c] = row]
    <3>1. CASE CreateBooking(r)
      <4>1. PICK c \in Bookings, inSlot \in BOOLEAN :
              Unused(c) /\ booking' = [booking EXCEPT ![c] =
                 [status |-> "SCHEDULED", inSlot |-> inSlot, from |-> NoKey]]
        BY <3>1 DEF CreateBooking
      <4> DEFINE row == [status |-> "SCHEDULED", inSlot |-> inSlot, from |-> NoKey]
      <4>2. row \in BookingRow /\ booking' = [booking EXCEPT ![c] = row]
        BY <4>1 DEF BookingRow, BookingStatus
      <4> HIDE DEF row
      <4> QED BY <4>1, <4>2
    <3>2. CASE Convert(r) /\ booking' # booking
      <4>1. PICK c \in Bookings : Unused(c) /\ booking' = [booking EXCEPT ![c] =
                 [status |-> "SCHEDULED", inSlot |-> call[r].inSlot, from |-> call[r].key]]
        BY <3>2 DEF Convert
      <4> DEFINE row == [status |-> "SCHEDULED", inSlot |-> call[r].inSlot, from |-> call[r].key]
      <4>2. call[r].key \in Keys /\ call[r].inSlot \in BOOLEAN
        BY <3>2, CallFields DEF Convert, At, BookingInv
      <4>3. row \in BookingRow /\ booking' = [booking EXCEPT ![c] = row]
        BY <4>1, <4>2 DEF BookingRow, BookingStatus
      <4> HIDE DEF row
      <4> QED BY <4>1, <4>3
    <3> QED BY <1>2, <3>1, <3>2
  <2> QED BY <1>0, <2>1 DEF Exists, Unused
<1>3. ASSUME NEW r \in Callers, UpdateBooking(r)
      PROVE  Kept
  <2>1. call[r].booking \in Bookings /\ call[r].inSlot \in BOOLEAN
    BY <1>3, CallFields DEF UpdateBooking, At, BookingInv
  <2> DEFINE row == [booking[call[r].booking] EXCEPT !.inSlot = call[r].inSlot]
  <2>2. row.status = booking[call[r].booking].status  BY <2>1, <1>0 DEF BookingRow
  <2>3. booking' = booking \/ booking' = [booking EXCEPT ![call[r].booking] = row]
    BY <1>3 DEF UpdateBooking, WriteBooking
  <2> HIDE DEF row
  <2> QED BY <1>0, <2>1, <2>2, <2>3 DEF Exists
<1>4. ASSUME NEW r \in Callers, UpdateBookingStatus(r) \/ DecideRequest(r)
      PROVE  Kept
  <2>1. call[r] # NoCall /\ call[r].op \in {"status", "decide"}
    BY <1>4 DEF UpdateBookingStatus, DecideRequest, At
  <2>2. call[r].booking \in Bookings /\ (call[r].op = "status" => call[r].new \in BookingStatus)
    BY <2>1, CallFields DEF BookingInv
  <2>3. call[r].op \in ops  BY <2>1 DEF BookingInv, CallsAreTyped
  <2> DEFINE row == [booking[call[r].booking] EXCEPT !.status = call[r].new]
             cancelled == [booking[call[r].booking] EXCEPT !.status = "CANCELLED"]
  <2>4. (call[r].op = "status" => row.status \in BookingStatus) /\ cancelled.status = "CANCELLED"
    BY <2>2, <1>0 DEF BookingRow
  <2>5. \/ booking' = booking
        \/ call[r].op = "status" /\ booking' = [booking EXCEPT ![call[r].booking] = row]
        \/ booking' = [booking EXCEPT ![call[r].booking] = cancelled]
    BY <1>4 DEF UpdateBookingStatus, DecideRequest, WriteBooking, At
  <2> HIDE DEF row, cancelled
  <2>6. booking'[b].status # "NONE"  BY <1>0, <2>2, <2>4, <2>5 DEF Exists, BookingStatus
  <2> QED BY <2>1, <2>3, <2>6
<1>5. ASSUME NEW r \in Callers, DeleteBooking(r)
      PROVE  Kept
  <2>1. call[r].booking \in Bookings  BY <1>5, CallFields DEF DeleteBooking, At, BookingInv
  <2>2. booking' = booking \/ booking' = [booking EXCEPT ![call[r].booking] = GoneRow]
    BY <1>5 DEF DeleteBooking, WriteBooking
  <2>3. GoneRow.status = "GONE"  BY DEF GoneRow, NoRow
  <2> QED BY <1>0, <2>1, <2>2, <2>3 DEF Exists
<1>6. \/ UpdateBookingForm
      \/ \E r \in Callers : Visit(r) \/ Desk(r) \/ Portal(r)
  BY DEF BookingNext, Callers
<1>7. ASSUME NEW r \in Callers, Visit(r) \/ Desk(r) \/ Portal(r)
      PROVE  Kept
  <2>1. \/ booking' = booking \/ Convert(r) \/ CreateBooking(r) \/ UpdateBooking(r)
        \/ UpdateBookingStatus(r) \/ DecideRequest(r) \/ DeleteBooking(r)
    <3>1. ASSUME Visit(r)
          PROVE  booking' = booking \/ Convert(r)
      BY <3>1 DEF Visit, StartSubmission, Submit, EnsureBookingWebsiteSubmission, Preview, CleanUp, Die
    <3>2. ASSUME Portal(r)
          PROVE  booking' = booking
      BY <3>2 DEF Portal, ReadForRequest, CreateRequest
    <3> QED BY <1>7, <3>1, <3>2 DEF Desk, StartConversion, ReadSubmission, ReadWebsiteSubmission,
          Preview, UpdateSubmissionStatus, UpdateWebsiteSubmissionStatus, StartBooking,
          ReadBooking, ReadRequest
  <2> QED BY <1>1, <1>2, <1>3, <1>4, <1>5, <2>1
<1>8. UpdateBookingForm => booking' = booking  BY DEF UpdateBookingForm
<1> QED BY <1>1, <1>6, <1>7, <1>8

------------------------
(* The slot *)

LEMMA SetsOfTheSlot ==
  ASSUME SlotInv, Counted
  PROVE  /\ Awaiting \subseteq Pending /\ IsFiniteSet(Awaiting)
         /\ IsFiniteSet(Pending) /\ IsFiniteSet(Calendar)
         /\ Cardinality(Awaiting) \in Nat /\ Cardinality(Calendar) \in Nat
         /\ Cardinality(Pending) \in Nat /\ Cardinality(Awaiting) <= Cardinality(Pending)
<1>1. Awaiting \subseteq Pending  BY DEF Awaiting, Pending
<1>2. IsFiniteSet(Pending) /\ IsFiniteSet(Calendar)  BY DEF SlotInv, RoomForAll
<1> QED BY <1>1, <1>2, FS_Subset, FS_CardinalityType

LEMMA NothingIsAdded ==
  ASSUME BookingInv, BookingAssumption, SlotInv, Counted, UNCHANGED <<form, ops>>,
         IsFiniteSet(Pending'), Awaiting' \subseteq Awaiting, Calendar' \subseteq Calendar
  PROVE  RoomForAll'
<1>1. /\ IsFiniteSet(Awaiting) /\ IsFiniteSet(Calendar)
      /\ Cardinality(Awaiting) \in Nat /\ Cardinality(Calendar) \in Nat
  BY SetsOfTheSlot
<1>2. /\ IsFiniteSet(Awaiting') /\ Cardinality(Awaiting') <= Cardinality(Awaiting)
      /\ IsFiniteSet(Calendar') /\ Cardinality(Calendar') <= Cardinality(Calendar)
  BY <1>1, FS_Subset
<1>3. Cardinality(Awaiting') \in Nat /\ Cardinality(Calendar') \in Nat  BY <1>2, FS_CardinalityType
<1>4. form.capacity \in Nat  BY BookingAssumption DEF BookingInv, BookingTypeOK
<1> QED BY <1>1, <1>2, <1>3, <1>4 DEF SlotInv, RoomForAll

LEMMA SlotCallsStay ==
  ASSUME BookingInv, SlotInv, Counted, NEW r \in Callers, NEW c \in BookingCall \cup {NoCall},
         Go(r, c), UNCHANGED <<form, ops>>,
         \/ call[r] # NoCall
         \/ "race" \in ops
         \/ \A q \in Callers : call[q] = NoCall,
         c # NoCall /\ c.op = "submit" => c.capacity = form.capacity,
         c # NoCall /\ c.op = "status" =>
             c.new \in BookingTransitions(booking'[c.booking].status)
  PROVE  SlotCallsAreCurrent'
<1>1. call' \in [Callers -> BookingCall \cup {NoCall}] /\ call'[r] = c
      /\ \A q \in Callers \ {r} : call'[q] = call[q]
  BY DEF Go, BookingInv, CallsAreTyped
<1> SUFFICES ASSUME NEW q \in Callers, call'[q] # NoCall
             PROVE  /\ call'[q].op = "submit" => call'[q].capacity = form.capacity
                    /\ call'[q].op = "status" =>
                        call'[q].new \in BookingTransitions(booking'[call'[q].booking].status)
  BY DEF SlotCallsAreCurrent, At
<1>2. CASE q = r  BY <1>1, <1>2
<1>3. CASE q # r
  <2>1. call'[q] = call[q] /\ call[q] # NoCall  BY <1>1, <1>3
  <2>2. call[q].op # "status"
    <3> SUFFICES ASSUME call[q].op = "status" PROVE FALSE
      OBVIOUS
    <3>1. "status" \in ops  BY <2>1 DEF BookingInv, CallsAreTyped
    <3>2. "race" \notin ops  BY <3>1 DEF Counted
    <3> QED BY <2>1, <3>2, <1>3 DEF BookingInv, OneCall
  <2> QED BY <2>1, <2>2 DEF SlotInv, SlotCallsAreCurrent, At
<1> QED BY <1>2, <1>3

\* A handler that leaves submissions and bookings alone.
LEMMA SlotIsOnlyRead ==
  ASSUME BookingInv, SlotInv, Counted, NEW r \in Callers, NEW c \in BookingCall \cup {NoCall},
         Go(r, c), UNCHANGED <<form, sub, booking, ops>>,
         \/ call[r] # NoCall
         \/ "race" \in ops
         \/ \A q \in Callers : call[q] = NoCall,
         c # NoCall /\ c.op = "submit" => c.capacity = form.capacity,
         c # NoCall /\ c.op = "status" => c.new \in BookingTransitions(booking[c.booking].status)
  PROVE  SlotInv'
<1>1. SlotCallsAreCurrent'  BY SlotCallsStay
<1>2. RoomForAll' /\ BookedIsConverted'
  BY DEF SlotInv, RoomForAll, BookedIsConverted, Pending, Calendar, Awaiting, Exists
<1> QED BY <1>1, <1>2 DEF SlotInv

LEMMA SubmitKeepsTheSlot ==
  ASSUME BookingInv, BookingAssumption, SlotInv, Counted, NEW r \in Callers, Submit(r)
  PROVE  SlotInv'
<1> DEFINE k == call[r].key
           c == [op |-> "preview", key |-> k, inSlot |-> TRUE]
           d == [op |-> "repeat", key |-> k, status |-> sub[k].status]
           asked == SubmissionRow("NEW", NoBooking)
<1>1. call[r] # NoCall /\ call[r].op = "submit" /\ k \in Keys /\ UNCHANGED <<form, booking, change, ops>>
  BY CallFields DEF Submit, At, BookingInv
<1>2. c \in BookingCall /\ c.op = "preview"  BY <1>1 DEF BookingCall
<1>3. asked \in Submission /\ asked.status = "NEW" /\ asked.booking = NoBooking
  BY DEF Submission, FormSubmissionStatus, SubmissionRow
<1>4. \/ UNCHANGED sub /\ ((Repeated(k) /\ Go(r, d)) \/ Go(r, NoCall))
      \/ ~Repeated(k) /\ ~SlotFull(call[r].capacity) /\ sub' = [sub EXCEPT ![k] = asked] /\ Go(r, c)
  BY DEF Submit, End
<1>5. sub \in [Keys -> Submission] /\ call[r].capacity = form.capacity /\ form.capacity \in Nat
  BY <1>1, BookingAssumption
  DEF BookingInv, BookingTypeOK, Submission, SlotInv, SlotCallsAreCurrent, At
<1>8. Repeated(k) => d \in BookingCall /\ d.op = "repeat"
  <2>1. Repeated(k) => sub[k].status \in FormSubmissionStatus  BY <1>1, <1>5 DEF Repeated, Submission
  <2> QED BY <1>1, <2>1 DEF BookingCall
<1> HIDE DEF c, d, k, asked
<1>6. CASE UNCHANGED sub /\ ((Repeated(k) /\ Go(r, d)) \/ Go(r, NoCall))
  <2>1. CASE Repeated(k) /\ Go(r, d)  BY <1>1, <1>6, <1>8, <2>1, SlotIsOnlyRead
  <2>2. CASE Go(r, NoCall)  BY <1>1, <1>6, <2>2, SlotIsOnlyRead
  <2> QED BY <1>6, <2>1, <2>2
<1>7. CASE ~Repeated(k) /\ ~SlotFull(form.capacity) /\ sub' = [sub EXCEPT ![k] = asked] /\ Go(r, c)
  <2>1. SlotCallsAreCurrent'  BY <1>1, <1>2, <1>7, SlotCallsStay
  <2>2. BookedIsConverted'  BY <1>3, <1>5, <1>7 DEF SlotInv, BookedIsConverted
  <2>3. Awaiting' \subseteq Pending \cup {k} /\ Pending' \subseteq Pending \cup {k} /\ Calendar' = Calendar
    BY <1>1, <1>5, <1>7 DEF Awaiting, Pending, Calendar, Exists
  <2>4. /\ IsFiniteSet(Pending) /\ IsFiniteSet(Calendar)
        /\ Cardinality(Pending) \in Nat /\ Cardinality(Calendar) \in Nat
    BY SetsOfTheSlot
  <2>5. Cardinality(Pending) + Cardinality(Calendar) < form.capacity
    BY <1>5, <1>7, <2>4 DEF SlotFull, Occupied
  <2>6. IsFiniteSet(Pending \cup {k}) /\ Cardinality(Pending \cup {k}) <= Cardinality(Pending) + 1
        /\ Cardinality(Pending \cup {k}) \in Nat
    <3>1. CASE k \in Pending
      <4>1. Pending \cup {k} = Pending  BY <3>1
      <4>2. Cardinality(Pending) <= Cardinality(Pending) + 1  BY <2>4
      <4> QED BY <4>1, <4>2, <2>4, Zenon
    <3>2. CASE k \notin Pending  BY <3>2, <2>4, FS_AddElement
    <3> QED BY <3>1, <3>2
  <2>7. IsFiniteSet(Pending') /\ IsFiniteSet(Awaiting') /\ Cardinality(Awaiting') <= Cardinality(Pending) + 1
    <3>1. IsFiniteSet(Pending') /\ IsFiniteSet(Awaiting')
          /\ Cardinality(Awaiting') <= Cardinality(Pending \cup {k})
      BY <2>3, <2>6, FS_Subset
    <3>2. Cardinality(Awaiting') \in Nat  BY <3>1, FS_CardinalityType
    <3> QED BY <3>1, <3>2, <2>4, <2>6
  <2>8. Cardinality(Awaiting') \in Nat  BY <2>7, FS_CardinalityType
  <2>9. RoomForAll'
    <3>1. Cardinality(Awaiting') + Cardinality(Calendar) <= form.capacity
      BY <1>5, <2>4, <2>5, <2>7, <2>8
    <3> QED BY <1>1, <2>3, <2>4, <2>7, <3>1 DEF RoomForAll
  <2> QED BY <2>1, <2>2, <2>9 DEF SlotInv
<1> QED BY <1>4, <1>5, <1>6, <1>7

LEMMA RepeatKeepsTheSlot ==
  ASSUME BookingInv, BookingAssumption, SlotInv, Counted, NEW r \in Callers,
         EnsureBookingWebsiteSubmission(r)
  PROVE  SlotInv'
<1> DEFINE k == call[r].key
           c == [op |-> "preview", key |-> k, inSlot |-> TRUE]
           marked == [sub[k] EXCEPT !.overtaken = sub[k].status # call[r].status]
<1>1. call[r] # NoCall /\ k \in Keys /\ UNCHANGED <<form, booking, change, ops>>
  BY CallFields DEF EnsureBookingWebsiteSubmission, At, BookingInv
<1>2. c \in BookingCall /\ c.op = "preview"  BY <1>1 DEF BookingCall
<1>3. sub \in [Keys -> Submission]  BY DEF BookingInv, BookingTypeOK, Submission
<1>4. marked.status = sub[k].status /\ marked.booking = sub[k].booking  BY <1>1, <1>3 DEF Submission
<1>5. /\ Go(r, c) \/ Go(r, NoCall)
      /\ sub' = sub \/ sub' = [sub EXCEPT ![k] = marked]
  BY DEF EnsureBookingWebsiteSubmission, End
<1> HIDE DEF k, c, marked
<1>6. SlotCallsAreCurrent'
  <2>1. CASE Go(r, c)  BY <2>1, <1>1, <1>2, SlotCallsStay
  <2>2. CASE Go(r, NoCall)  BY <2>2, <1>1, SlotCallsStay
  <2> QED BY <1>5, <2>1, <2>2
<1>7. \A j \in Keys : sub'[j].status = sub[j].status /\ sub'[j].booking = sub[j].booking
  BY <1>3, <1>4, <1>5
<1>8. BookedIsConverted'  BY <1>7 DEF SlotInv, BookedIsConverted
<1>9. Awaiting' = Awaiting /\ Pending' = Pending /\ Calendar' = Calendar
  BY <1>1, <1>7 DEF Awaiting, Pending, Calendar, Exists
<1>10. RoomForAll'  BY <1>1, <1>9, SetsOfTheSlot, NothingIsAdded
<1> QED BY <1>6, <1>8, <1>10 DEF SlotInv

LEMMA ConvertKeepsTheSlot ==
  ASSUME BookingInv, BookingAssumption, SlotInv, Counted, NEW r \in Callers, Convert(r)
  PROVE  SlotInv'
<1> DEFINE k == call[r].key
           c == [op |-> "cleanUp", key |-> k]
<1>1. call[r] # NoCall /\ k \in Keys /\ call[r].inSlot \in BOOLEAN /\ UNCHANGED <<form, change, ops>>
  BY CallFields DEF Convert, At, BookingInv
<1>2. c \in BookingCall /\ c.op = "cleanUp"  BY <1>1 DEF BookingCall
<1>3. \/ /\ Convertible(sub[k])
         /\ \E b \in Bookings :
              /\ Unused(b)
              /\ booking' = [booking EXCEPT ![b] =
                     [status |-> "SCHEDULED", inSlot |-> call[r].inSlot, from |-> k]]
              /\ sub' = [sub EXCEPT ![k] = SubmissionRow("CONVERTED", b)]
         /\ Go(r, NoCall)
      \/ (Go(r, NoCall) \/ Go(r, c)) /\ UNCHANGED <<sub, booking>>
  BY DEF Convert, End, Failed
<1> HIDE DEF k, c
<1>4. CASE (Go(r, NoCall) \/ Go(r, c)) /\ UNCHANGED <<sub, booking>>
  BY <1>1, <1>2, <1>4, SlotIsOnlyRead
<1>5. ASSUME Convertible(sub[k]), NEW b \in Bookings, Unused(b),
             booking' = [booking EXCEPT ![b] =
                   [status |-> "SCHEDULED", inSlot |-> call[r].inSlot, from |-> k]],
             sub' = [sub EXCEPT ![k] = SubmissionRow("CONVERTED", b)],
             Go(r, NoCall)
      PROVE  SlotInv'
  <2>1. SlotCallsAreCurrent'  BY <1>1, <1>5, SlotCallsStay
  <2>2. /\ sub \in [Keys -> Submission] /\ booking \in [Bookings -> BookingRow]
        /\ form.capacity \in Nat
    BY BookingAssumption DEF BookingInv, BookingTypeOK, Submission, BookingRow
  <2>3. sub'[k].status = "CONVERTED" /\ \A j \in Keys \ {k} : sub'[j] = sub[j]
    BY <1>1, <1>5, <2>2 DEF SubmissionRow
  <2>4. \A a \in Bookings \ {b} : booking'[a] = booking[a]  BY <1>5, <2>2
  <2>5. BookedIsConverted'  BY <2>3 DEF SlotInv, BookedIsConverted
  <2>6. k \in Awaiting /\ Awaiting' = Awaiting \ {k} /\ Calendar' \subseteq Calendar \cup {b}
    BY <1>1, <1>5, <2>3, <2>4 DEF Awaiting, Convertible, Calendar, Exists
  <2>7. sub'[k].booking # NoBooking  BY <1>1, <1>5, <2>2, BookingAssumption DEF SubmissionRow
  <2>8. Pending' \subseteq Pending  BY <2>3, <2>7 DEF Pending
  <2>9. /\ IsFiniteSet(Pending) /\ IsFiniteSet(Calendar) /\ IsFiniteSet(Awaiting)
        /\ Cardinality(Awaiting) \in Nat /\ Cardinality(Calendar) \in Nat
    BY SetsOfTheSlot
  <2>10. Cardinality(Awaiting') = Cardinality(Awaiting) - 1 /\ IsFiniteSet(Awaiting')
    BY <2>6, <2>9, FS_RemoveElement
  <2>11. IsFiniteSet(Calendar \cup {b}) /\ Cardinality(Calendar \cup {b}) <= Cardinality(Calendar) + 1
         /\ Cardinality(Calendar \cup {b}) \in Nat
    <3>1. CASE b \in Calendar
      <4>1. Calendar \cup {b} = Calendar  BY <3>1
      <4>2. Cardinality(Calendar) <= Cardinality(Calendar) + 1  BY <2>9
      <4> QED BY <4>1, <4>2, <2>9, Zenon
    <3>2. CASE b \notin Calendar  BY <3>2, <2>9, FS_AddElement
    <3> QED BY <3>1, <3>2
  <2>12. IsFiniteSet(Pending') /\ IsFiniteSet(Calendar')
         /\ Cardinality(Calendar') <= Cardinality(Calendar \cup {b})
    BY <2>6, <2>8, <2>9, <2>11, FS_Subset
  <2>13. Cardinality(Calendar') \in Nat /\ Cardinality(Awaiting') \in Nat
    BY <2>10, <2>12, FS_CardinalityType
  <2>14. Cardinality(Awaiting) + Cardinality(Calendar) <= form.capacity  BY DEF SlotInv, RoomForAll
  <2>15. Cardinality(Awaiting') + Cardinality(Calendar') <= form.capacity
    BY <2>2, <2>9, <2>10, <2>11, <2>12, <2>13, <2>14
  <2> QED BY <1>1, <2>1, <2>5, <2>12, <2>15 DEF SlotInv, RoomForAll
<1> QED BY <1>3, <1>4, <1>5

LEMMA CleanUpKeepsTheSlot ==
  ASSUME BookingInv, BookingAssumption, SlotInv, Counted, NEW r \in Callers, CleanUp(r)
  PROVE  SlotInv'
<1> DEFINE k == call[r].key
<1>1. call[r] # NoCall /\ k \in Keys /\ UNCHANGED <<form, booking, change, ops>> /\ Go(r, NoCall)
  BY CallFields DEF CleanUp, At, BookingInv, End
<1>2. sub' = sub \/ (Withdrawn(sub[k]) /\ sub' = [sub EXCEPT ![k] = NoSubmission])  BY DEF CleanUp
<1> HIDE DEF k
<1>3. sub \in [Keys -> Submission] /\ NoSubmission.status = "NONE" /\ NoSubmission.booking = NoBooking
  BY DEF BookingInv, BookingTypeOK, Submission, NoSubmission
<1>4. \A j \in Keys : sub'[j] = sub[j] \/ (sub'[j].status = "NONE" /\ sub'[j].booking = NoBooking)
  BY <1>1, <1>2, <1>3
<1>5. SlotCallsAreCurrent'  BY <1>1, SlotCallsStay
<1>6. BookedIsConverted'  BY <1>4 DEF SlotInv, BookedIsConverted
<1>7. Awaiting' \subseteq Awaiting /\ Pending' \subseteq Pending /\ Calendar' = Calendar
  BY <1>1, <1>4 DEF Awaiting, Pending, Calendar, Exists
<1>8. IsFiniteSet(Pending')  BY <1>7, SetsOfTheSlot, FS_Subset
<1>9. RoomForAll'  BY <1>1, <1>7, <1>8, NothingIsAdded
<1> QED BY <1>5, <1>6, <1>9 DEF SlotInv

LEMMA StatusesKeepTheSlot ==
  ASSUME BookingInv, BookingAssumption, SlotInv, Counted, NEW r \in Callers,
         UpdateBookingStatus(r) \/ DecideRequest(r)
  PROVE  SlotInv'
<1> DEFINE b == call[r].booking
<1>1. call[r] # NoCall /\ b \in Bookings /\ UNCHANGED <<form, sub, ops>> /\ Go(r, NoCall)
  BY CallFields DEF UpdateBookingStatus, DecideRequest, WriteBooking, At, BookingInv, End
<1>2. booking \in [Bookings -> BookingRow]  BY DEF BookingInv, BookingTypeOK, BookingRow
<1>3. \/ booking' = booking
      \/ At(r, "status") /\ booking' = [booking EXCEPT ![b] = [booking[b] EXCEPT !.status = call[r].new]]
      \/ booking' = [booking EXCEPT ![b] = [booking[b] EXCEPT !.status = "CANCELLED"]]
  BY DEF UpdateBookingStatus, DecideRequest, WriteBooking
<1> HIDE DEF b
<1>4. Calendar' \subseteq Calendar
  <2>1. CASE booking' = booking  BY <2>1 DEF Calendar, Exists
  <2>2. CASE At(r, "status") /\ booking' = [booking EXCEPT ![b] = [booking[b] EXCEPT !.status = call[r].new]]
    <3>1. call[r].new \in BookingTransitions(booking[b].status)
      BY <2>2 DEF SlotInv, SlotCallsAreCurrent, b
    <3>2. booking[b].status \in {"SCHEDULED", "IN_PROGRESS"}  BY <3>1 DEF BookingTransitions
    <3> DEFINE row == [booking[b] EXCEPT !.status = call[r].new]
    <3>3. row.inSlot = booking[b].inSlot /\ booking' = [booking EXCEPT ![b] = row]
      BY <1>1, <1>2, <2>2 DEF BookingRow
    <3> HIDE DEF row
    <3> QED BY <1>1, <1>2, <3>2, <3>3 DEF Calendar, Exists
  <2>3. CASE booking' = [booking EXCEPT ![b] = [booking[b] EXCEPT !.status = "CANCELLED"]]
    <3> DEFINE row == [booking[b] EXCEPT !.status = "CANCELLED"]
    <3>1. row.status = "CANCELLED" /\ booking' = [booking EXCEPT ![b] = row]
      BY <1>1, <1>2, <2>3 DEF BookingRow
    <3> HIDE DEF row
    <3> QED BY <1>1, <1>2, <3>1 DEF Calendar, Exists
  <2> QED BY <1>3, <2>1, <2>2, <2>3
<1>5. SlotCallsAreCurrent'  BY <1>1, SlotCallsStay
<1>6. BookedIsConverted' /\ Awaiting' = Awaiting /\ Pending' = Pending
  BY <1>1 DEF SlotInv, BookedIsConverted, Awaiting, Pending
<1>7. RoomForAll'  BY <1>1, <1>4, <1>6, SetsOfTheSlot, NothingIsAdded
<1> QED BY <1>5, <1>6, <1>7 DEF SlotInv

LEMMA DeleteKeepsTheSlot ==
  ASSUME BookingInv, BookingAssumption, SlotInv, Counted, NEW r \in Callers, DeleteBooking(r)
  PROVE  SlotInv'
<1> DEFINE b == call[r].booking
<1>1. call[r] # NoCall /\ b \in Bookings /\ UNCHANGED <<form, ops>> /\ Go(r, NoCall)
  BY CallFields DEF DeleteBooking, WriteBooking, At, BookingInv, End
<1>2. booking' = (IF Exists(b) THEN [booking EXCEPT ![b] = GoneRow] ELSE booking) /\ Unlink(b)
  BY DEF DeleteBooking, WriteBooking
<1>3. /\ sub \in [Keys -> Submission] /\ booking \in [Bookings -> BookingRow]
      /\ GoneRow.status = "GONE"
  BY DEF BookingInv, BookingTypeOK, Submission, BookingRow, GoneRow, NoRow
<1> HIDE DEF b
<1>4. \A k \in Keys : /\ sub'[k].status = sub[k].status
                      /\ sub[k].booking = b => sub'[k].booking = NoBooking
                      /\ sub[k].booking # b => sub'[k].booking = sub[k].booking
  <2> SUFFICES ASSUME NEW k \in Keys
               PROVE  /\ sub'[k].status = sub[k].status
                      /\ sub[k].booking = b => sub'[k].booking = NoBooking
                      /\ sub[k].booking # b => sub'[k].booking = sub[k].booking
    OBVIOUS
  <2> DEFINE loose == [sub[k] EXCEPT !.booking = NoBooking]
  <2>1. loose.status = sub[k].status /\ loose.booking = NoBooking  BY <1>3 DEF Submission
  <2>2. sub'[k] = IF sub[k].booking = b THEN loose ELSE sub[k]  BY <1>2 DEF Unlink
  <2> HIDE DEF loose
  <2> QED BY <2>1, <2>2
<1>5. Calendar' \subseteq Calendar  BY <1>1, <1>2, <1>3 DEF Calendar, Exists
<1>6. Pending' \subseteq Pending \cup {booking[b].from}  BY <1>4 DEF Pending, BookingInv, NameEachOther
<1>7. Awaiting' \subseteq Awaiting
  <2>1. \A k \in Keys : sub[k].booking = b => sub[k].status = "CONVERTED"
    BY <1>1, BookingAssumption DEF SlotInv, BookedIsConverted
  <2> QED BY <1>4, <2>1 DEF Awaiting
<1>8. IsFiniteSet(Pending')
  <2>1. IsFiniteSet(Pending \cup {booking[b].from})  BY SetsOfTheSlot, FS_AddElement
  <2> QED BY <1>6, <2>1, FS_Subset
<1>9. RoomForAll'  BY <1>1, <1>5, <1>7, <1>8, NothingIsAdded
<1>10. SlotCallsAreCurrent'  BY <1>1, SlotCallsStay
<1>11. BookedIsConverted'  BY <1>4 DEF SlotInv, BookedIsConverted
<1> QED BY <1>9, <1>10, <1>11 DEF SlotInv

LEMMA ReadingsKeepTheSlot ==
  ASSUME BookingInv, BookingAssumption, SlotInv, Counted, NEW r \in Callers,
         \/ \E k \in Keys : StartSubmission(r, k) \/ StartConversion(r, k) \/ ReadWebsiteSubmission(r, k)
         \/ \E b \in Bookings : ReadBooking(r, b) \/ ReadRequest(r, b) \/ ReadForRequest(r, b)
         \/ Preview(r) \/ Die(r) \/ UpdateWebsiteSubmissionStatus(r) \/ CreateRequest(r)
  PROVE  SlotInv'
<1>0. form.capacity \in Capacities /\ \A b \in Bookings : change[b].cancel \in BOOLEAN
  BY DEF BookingInv, BookingTypeOK
<1>1. ASSUME NEW k \in Keys, StartSubmission(r, k)
      PROVE  SlotInv'
  <2> DEFINE c == [op |-> "submit", key |-> k, capacity |-> form.capacity]
  <2>1. c \in BookingCall /\ c.op = "submit" /\ c.capacity = form.capacity  BY <1>0 DEF BookingCall
  <2>2. Go(r, c) /\ Starts(r, "submit") /\ UNCHANGED <<form, sub, booking, ops>>
    BY <1>1 DEF StartSubmission
  <2> HIDE DEF c
  <2> QED BY <2>1, <2>2, SlotIsOnlyRead DEF Starts
<1>2. ASSUME NEW k \in Keys, StartConversion(r, k)
      PROVE  SlotInv'
  <2>1. PICK inSlot \in BOOLEAN : Go(r, [op |-> "preview", key |-> k, inSlot |-> inSlot])
    BY <1>2 DEF StartConversion
  <2> DEFINE c == [op |-> "preview", key |-> k, inSlot |-> inSlot]
  <2>2. c \in BookingCall /\ c.op = "preview" /\ Go(r, c)  BY <2>1 DEF BookingCall
  <2> HIDE DEF c
  <2> QED BY <1>2, <2>2, SlotIsOnlyRead DEF StartConversion, Starts
<1>3. ASSUME NEW k \in Keys, ReadWebsiteSubmission(r, k)
      PROVE  SlotInv'
  <2>1. PICK s \in WebsiteSubmissionStatus \ {"CONVERTED"} :
          Go(r, [op |-> "inbox", key |-> k, new |-> s])
    BY <1>3 DEF ReadWebsiteSubmission
  <2> DEFINE c == [op |-> "inbox", key |-> k, new |-> s]
  <2>2. c \in BookingCall /\ c.op = "inbox" /\ Go(r, c)  BY <2>1 DEF BookingCall
  <2> HIDE DEF c
  <2> QED BY <1>3, <2>2, SlotIsOnlyRead DEF ReadWebsiteSubmission, Starts
<1>4. ASSUME NEW b \in Bookings, ReadBooking(r, b)
      PROVE  SlotInv'
  <2>1. UNCHANGED <<form, sub, booking, ops>>  BY <1>4 DEF ReadBooking
  <2>2. ASSUME NEW s \in BookingTransitions(booking[b].status), Starts(r, "status"),
               Go(r, [op |-> "status", booking |-> b, new |-> s])
        PROVE  SlotInv'
    <3> DEFINE c == [op |-> "status", booking |-> b, new |-> s]
    <3>1. c \in BookingCall /\ c.op = "status" /\ Go(r, c) /\ c.new = s /\ c.booking = b
      BY <2>2 DEF BookingCall, BookingTransitions, BookingStatus
    <3> HIDE DEF c
    <3> QED BY <2>1, <2>2, <3>1, SlotIsOnlyRead DEF Starts
  <2>3. ASSUME Starts(r, "delete"), Go(r, [op |-> "delete", booking |-> b])
        PROVE  SlotInv'
    <3> DEFINE c == [op |-> "delete", booking |-> b]
    <3>1. c \in BookingCall /\ c.op = "delete" /\ Go(r, c)  BY <2>3 DEF BookingCall
    <3> HIDE DEF c
    <3> QED BY <2>1, <2>3, <3>1, SlotIsOnlyRead DEF Starts
  <2>4. "update" \notin ops  BY DEF Counted, FillsUnasked
  <2> QED BY <1>4, <2>2, <2>3, <2>4 DEF ReadBooking, Starts
<1>5. ASSUME NEW b \in Bookings, ReadRequest(r, b)
      PROVE  SlotInv'
  <2>1. PICK approve \in BOOLEAN :
          Go(r, [op |-> "decide", booking |-> b, approve |-> approve, cancel |-> change[b].cancel])
    BY <1>5 DEF ReadRequest
  <2> DEFINE c == [op |-> "decide", booking |-> b, approve |-> approve, cancel |-> change[b].cancel]
  <2>2. c \in BookingCall /\ c.op = "decide" /\ Go(r, c)  BY <2>1, <1>0 DEF BookingCall
  <2> HIDE DEF c
  <2> QED BY <1>5, <2>2, SlotIsOnlyRead DEF ReadRequest, Starts
<1>6. ASSUME NEW b \in Bookings, ReadForRequest(r, b)
      PROVE  SlotInv'
  <2>1. PICK cancel \in BOOLEAN : Go(r, [op |-> "request", booking |-> b, cancel |-> cancel])
    BY <1>6 DEF ReadForRequest
  <2> DEFINE c == [op |-> "request", booking |-> b, cancel |-> cancel]
  <2>2. c \in BookingCall /\ c.op = "request" /\ Go(r, c)  BY <2>1 DEF BookingCall
  <2> HIDE DEF c
  <2> QED BY <1>6, <2>2, SlotIsOnlyRead DEF ReadForRequest, Starts
<1>7. ASSUME Preview(r)
      PROVE  SlotInv'
  <2>1. At(r, "preview") /\ UNCHANGED <<form, sub, booking, ops>>  BY <1>7 DEF Preview
  <2>2. call[r] # NoCall /\ call[r] \in BookingCall /\ call[r].op = "preview" /\ call[r].key \in Keys
    BY <2>1, CallFields DEF At, BookingInv
  <2> DEFINE converts == [call[r] EXCEPT !.op = "convert"]
             cleans == [op |-> "cleanUp", key |-> call[r].key]
  <2>3. converts \in BookingCall /\ converts.op = "convert"
    <3>1. call[r] \in [op : {"preview", "convert"}, key : Keys, inSlot : BOOLEAN]
      BY <2>2 DEF BookingCall
    <3> QED BY <3>1 DEF BookingCall
  <2>4. cleans \in BookingCall /\ cleans.op = "cleanUp"  BY <2>2 DEF BookingCall
  <2>5. Go(r, converts) \/ Go(r, cleans) \/ Go(r, NoCall)  BY <1>7 DEF Preview, Failed, End
  <2> HIDE DEF converts, cleans
  <2>6. CASE Go(r, converts)  BY <2>1, <2>2, <2>3, <2>6, SlotIsOnlyRead
  <2>7. CASE Go(r, cleans)  BY <2>1, <2>2, <2>4, <2>7, SlotIsOnlyRead
  <2>8. CASE Go(r, NoCall)  BY <2>1, <2>2, <2>8, SlotIsOnlyRead
  <2> QED BY <2>5, <2>6, <2>7, <2>8
<1>8. ASSUME Die(r) \/ UpdateWebsiteSubmissionStatus(r) \/ CreateRequest(r)
      PROVE  SlotInv'
  <2>1. call[r] # NoCall /\ Go(r, NoCall) /\ UNCHANGED <<form, sub, booking, ops>>
    BY <1>8 DEF Die, UpdateWebsiteSubmissionStatus, CreateRequest, End, At
  <2> QED BY <2>1, SlotIsOnlyRead
<1> QED BY <1>1, <1>2, <1>3, <1>4, <1>5, <1>6, <1>7, <1>8

LEMMA SlotInvStays ==
  ASSUME BookingInv, BookingAssumption, SlotInv, BookingNext
  PROVE  SlotInv'
<1>0. ops' = ops
  BY DEF BookingNext, UpdateBookingForm, Visit, Desk, Portal, StartSubmission, Submit, EnsureBookingWebsiteSubmission, Preview,
         Convert, CleanUp, Die, StartConversion, ReadSubmission, ReadWebsiteSubmission,
         UpdateSubmissionStatus, UpdateWebsiteSubmissionStatus, StartBooking, CreateBooking,
         ReadBooking, ReadRequest, UpdateBooking, UpdateBookingStatus, DeleteBooking,
         DecideRequest, ReadForRequest, CreateRequest
<1> SUFFICES ASSUME Counted PROVE SlotInv'
  BY <1>0 DEF SlotInv, Counted
<1>1. ~UpdateBookingForm  BY DEF Counted, FillsUnasked, UpdateBookingForm
<1>2. ASSUME NEW r \in Callers
      PROVE  /\ \A k \in Keys : ~ReadSubmission(r, k)
             /\ ~UpdateSubmissionStatus(r) /\ ~StartBooking(r) /\ ~CreateBooking(r)
             /\ ~UpdateBooking(r)
  <2>1. "review" \notin ops /\ "create" \notin ops /\ "update" \notin ops  BY DEF Counted, FillsUnasked
  <2>2. ~At(r, "review") /\ ~At(r, "create") /\ ~At(r, "update")
    BY <2>1 DEF BookingInv, CallsAreTyped, At
  <2> QED BY <2>1, <2>2 DEF ReadSubmission, UpdateSubmissionStatus, StartBooking, CreateBooking,
                          UpdateBooking, Starts
<1>3. ASSUME NEW v \in Visitors, Visit(v)
      PROVE  SlotInv'
  <2>1. v \in Callers  BY DEF Callers
  <2> QED BY <1>3, <2>1, ReadingsKeepTheSlot, SubmitKeepsTheSlot, RepeatKeepsTheSlot,
             ConvertKeepsTheSlot, CleanUpKeepsTheSlot DEF Visit
<1>4. ASSUME NEW o \in Office, Desk(o)
      PROVE  SlotInv'
  <2>1. o \in Callers  BY DEF Callers
  <2>2. ASSUME \E k \in Keys : StartConversion(o, k) \/ ReadWebsiteSubmission(o, k)
        PROVE  SlotInv'
    BY <2>1, <2>2, ReadingsKeepTheSlot
  <2>3. ASSUME \E b \in Bookings : ReadBooking(o, b) \/ ReadRequest(o, b)
        PROVE  SlotInv'
    BY <2>1, <2>3, ReadingsKeepTheSlot
  <2>4. ASSUME Preview(o) \/ UpdateWebsiteSubmissionStatus(o)
        PROVE  SlotInv'
    BY <2>1, <2>4, ReadingsKeepTheSlot
  <2>5. ASSUME Convert(o)
        PROVE  SlotInv'
    BY <2>1, <2>5, ConvertKeepsTheSlot
  <2>6. ASSUME UpdateBookingStatus(o) \/ DecideRequest(o)
        PROVE  SlotInv'
    BY <2>1, <2>6, StatusesKeepTheSlot
  <2>7. ASSUME DeleteBooking(o)
        PROVE  SlotInv'
    BY <2>1, <2>7, DeleteKeepsTheSlot
  <2> QED BY <1>2, <1>4, <2>1, <2>2, <2>3, <2>4, <2>5, <2>6, <2>7 DEF Desk
<1>5. ASSUME NEW p \in Portals, Portal(p)
      PROVE  SlotInv'
  <2>1. p \in Callers  BY DEF Callers
  <2> QED BY <1>5, <2>1, ReadingsKeepTheSlot DEF Portal
<1> QED BY <1>1, <1>3, <1>4, <1>5 DEF BookingNext

LEMMA SlotInvHoldsAtFirst ==
  ASSUME BookingAssumption, Init
  PROVE  SlotInv
<1>1. /\ form.capacity \in Nat
      /\ sub = [k \in Keys |-> NoSubmission] /\ call = [r \in Callers |-> NoCall]
  BY BookingAssumption DEF Init
<1>2. Pending = {} /\ Awaiting = {}  BY <1>1 DEF Pending, Awaiting, NoSubmission
<1>3. \A b \in Bookings : ~booking[b].inSlot
  <2> DEFINE byHand == [NoRow EXCEPT !.status = "SCHEDULED"]
  <2>1. ~NoRow.inSlot /\ ~byHand.inSlot  BY DEF NoRow
  <2>2. \/ booking = [b \in Bookings |-> NoRow]
        \/ \E c \in Bookings : booking = [b \in Bookings |-> IF b = c THEN byHand ELSE NoRow]
    BY DEF Init, Booked
  <2> HIDE DEF byHand
  <2> QED BY <2>1, <2>2
<1>4. Calendar = {}  BY <1>3 DEF Calendar
<1>5. RoomForAll  BY <1>1, <1>2, <1>4, FS_EmptySet DEF RoomForAll
<1>6. BookedIsConverted /\ SlotCallsAreCurrent
  BY <1>1 DEF BookedIsConverted, SlotCallsAreCurrent, At, NoSubmission
<1> QED BY <1>5, <1>6 DEF SlotInv

------------------------
(* Jobs: what a request has read *)

LEMMA VisitFields ==
  ASSUME JobsAreTyped, NEW c \in Crew, visit[c] # NoCall
  PROVE  /\ visit[c] \in JobCall
         /\ visit[c].op = "job" => /\ visit[c].booking \in Bookings \cup {NoBooking}
                                   /\ visit[c].time \in Times /\ visit[c].team \subseteq Staff
         /\ visit[c].op = "move" => visit[c].job \in Jobs /\ visit[c].time \in Times
         /\ visit[c].op = "jobStatus" => visit[c].job \in Jobs /\ visit[c].new \in JobStatus
         /\ visit[c].op \in {"deleteJob", "complete", "lockJob"} => visit[c].job \in Jobs
         /\ visit[c].op \in {"checkIn", "checkOut"} => visit[c].job \in Jobs /\ visit[c].staff \in Staff
         /\ visit[c].op \in {"assign", "bulk"} =>
                visit[c].job \in Jobs /\ visit[c].team \subseteq Staff /\ visit[c].todo \subseteq Jobs
         /\ visit[c].op \in {"renew", "submitReview"} =>
                visit[c].job \in Jobs /\ visit[c].token \in Tokens
         /\ visit[c].op = "lockToken" => visit[c].token \in Tokens
<1>1. visit[c] \in JobCall  BY DEF JobsAreTyped
<1> QED BY <1>1 DEF JobCall

LEMMA VisitsStay ==
  ASSUME JobsAreTyped, NEW c \in Crew, NEW q \in JobCall \cup {NoCall}, Proceed(c, q)
  PROVE  /\ visit' \in [Crew -> JobCall \cup {NoCall}] /\ visit'[c] = q
         /\ \A d \in Crew \ {c} : visit'[d] = visit[d]
BY DEF JobsAreTyped, Proceed

\* Rows of jobs come and go, links and locks stay.
LEMMA LinksStayHeld ==
  ASSUME JobInv, NEW c \in Crew, NEW q \in JobCall \cup {NoCall}, Proceed(c, q),
         UNCHANGED <<link, issued, held>>,
         q # NoCall => q.op \notin {"renew", "submitReview"},
         \A j \in Jobs : job[j].status # "NONE" =>
            job'[j].status # "NONE" /\ (job[j].status = "GONE" => job'[j].status = "GONE")
  PROVE  LinksAreApart' /\ LinksAreHeld'
<1>1. visit'[c] = q /\ \A d \in Crew \ {c} : visit'[d] = visit[d]  BY VisitsStay DEF JobInv
<1>2. LinksAreApart'  BY DEF JobInv, LinksAreApart
<1>3. LinksAreHeld'
  <2> SUFFICES ASSUME NEW d \in Crew, visit'[d] # NoCall, visit'[d].op \in {"renew", "submitReview"}
               PROVE  /\ visit'[d].op = "renew" =>
                          /\ held[visit'[d].job] = d
                          /\ job'[visit'[d].job].status # "NONE"
                          /\ job'[visit'[d].job].status \notin {"NONE", "GONE"} =>
                              /\ link[visit'[d].job].state # "NONE"
                              /\ link[visit'[d].job].token = visit'[d].token
                      /\ visit'[d].op = "submitReview" =>
                          /\ held[visit'[d].token] = d
                          /\ job'[visit'[d].job].status # "NONE"
                          /\ job'[visit'[d].job].status \notin {"NONE", "GONE"} =>
                              /\ link[visit'[d].job].token = visit'[d].token
                              /\ link[visit'[d].job].state \in {"READY", "EXPIRED"}
    BY DEF LinksAreHeld, Is, JobExists
  <2>1. d # c /\ visit'[d] = visit[d] /\ visit[d] # NoCall  BY <1>1
  <2>2. visit[d].job \in Jobs  BY <2>1, VisitFields DEF JobInv
  <2> QED BY <2>1, <2>2 DEF JobInv, LinksAreHeld, Is, JobExists
<1> QED BY <1>2, <1>3

\* It only reads.
LEMMA VisitsOnlyRead ==
  ASSUME JobInv, NEW c \in Crew, NEW q \in JobCall \cup {NoCall}, Proceed(c, q),
         UNCHANGED <<bookingVars, job, assigned, invoiced, reviewVars, staffVars>>,
         q # NoCall => q.op \notin {"renew", "submitReview"} /\ (q.op = "job" => "job" \in ops)
  PROVE  JobInv'
<1>0. /\ UNCHANGED <<form, sub, inbox, booking, change, call, ops>>
      /\ UNCHANGED <<job, assigned, invoiced, link, issued, reviews, held>>
      /\ UNCHANGED <<staff, leave, dayOff, sync>>
  BY DEF bookingVars, reviewVars, staffVars
<1>1. /\ visit' \in [Crew -> JobCall \cup {NoCall}] /\ visit'[c] = q
      /\ \A d \in Crew \ {c} : visit'[d] = visit[d]
  BY VisitsStay DEF JobInv
<1>2. LinksAreApart' /\ LinksAreHeld'  BY <1>0, LinksStayHeld
<1>3. JobsAreTyped' /\ StaffIsTyped'  BY <1>0, <1>1 DEF JobInv, JobsAreTyped, StaffIsTyped
<1>4. JobsAreApart' /\ CompletionIsWhole'
  BY <1>0 DEF JobInv, JobsAreApart, CompletionIsWhole, JobExists, Exists
<1>5. JobsAreCreated'  BY <1>0, <1>1 DEF JobInv, JobsAreCreated, JobExists, Is
<1> QED BY <1>2, <1>3, <1>4, <1>5 DEF JobInv

LEMMA RequestsAreRead ==
  ASSUME JobInv, NEW c \in Crew,
         \/ ReadForJob(c) \/ RefusedToComplete(c)
         \/ \E t \in Tokens : OpenReview(c, t)
         \/ \E j \in Jobs :
              \/ ReadForUpdate(c, j) \/ ReadForStatus(c, j) \/ ReadForDelete(c, j)
              \/ ReadForAssignment(c, j) \/ AskForLink(c, j)
              \/ \E s \in Staff : ReadForCheckIn(c, j, s) \/ ReadForCheckOut(c, j, s)
  PROVE  JobInv'
<1>0. UNCHANGED <<bookingVars, job, assigned, invoiced, reviewVars, staffVars>>
  BY DEF ReadForJob, RefusedToComplete, OpenReview, ReadForUpdate, ReadForStatus, ReadForDelete,
         ReadForAssignment, AskForLink, ReadForCheckIn, ReadForCheckOut
<1>1. Teams \subseteq SUBSET Staff  BY DEF Teams
<1>2. \E q \in JobCall \cup {NoCall} :
        /\ Proceed(c, q)
        /\ q # NoCall => q.op \notin {"renew", "submitReview"} /\ (q.op = "job" => "job" \in ops)
  <2> DEFINE Read == \E q \in JobCall \cup {NoCall} :
        /\ Proceed(c, q)
        /\ q # NoCall => q.op \notin {"renew", "submitReview"} /\ (q.op = "job" => "job" \in ops)
  <2>1. ASSUME ReadForJob(c)
        PROVE  Read
    <3>1. PICK b \in Bookings \cup {NoBooking}, t \in Times, team \in Teams :
            Proceed(c, [op |-> "job", booking |-> b, time |-> t, team |-> team])
      BY <2>1 DEF ReadForJob
    <3> DEFINE q == [op |-> "job", booking |-> b, time |-> t, team |-> team]
    <3>2. q \in JobCall /\ q.op = "job" /\ Proceed(c, q)  BY <1>1, <3>1 DEF JobCall
    <3>3. "job" \in ops  BY <2>1 DEF ReadForJob, Begins
    <3> HIDE DEF q
    <3> QED BY <3>2, <3>3
  <2>2. ASSUME RefusedToComplete(c)
        PROVE  Read
    BY <2>2 DEF RefusedToComplete, Finish
  <2>3. ASSUME NEW t \in Tokens, OpenReview(c, t)
        PROVE  Read
    <3> DEFINE q == [op |-> "lockToken", token |-> t]
    <3>1. q \in JobCall /\ q.op = "lockToken" /\ Proceed(c, q)  BY <2>3 DEF JobCall, OpenReview
    <3> HIDE DEF q
    <3> QED BY <3>1
  <2>4. ASSUME NEW j \in Jobs, ReadForUpdate(c, j)
        PROVE  Read
    <3>1. PICK t \in Times : Proceed(c, [op |-> "move", job |-> j, time |-> t])
      BY <2>4 DEF ReadForUpdate
    <3> DEFINE q == [op |-> "move", job |-> j, time |-> t]
    <3>2. q \in JobCall /\ q.op = "move" /\ Proceed(c, q)  BY <3>1 DEF JobCall
    <3> HIDE DEF q
    <3> QED BY <3>2
  <2>5. ASSUME NEW j \in Jobs, ReadForStatus(c, j)
        PROVE  Read
    <3>1. PICK s \in JobTransitions(job[j].status) : Proceed(c, [op |-> "jobStatus", job |-> j, new |-> s])
      BY <2>5 DEF ReadForStatus
    <3> DEFINE q == [op |-> "jobStatus", job |-> j, new |-> s]
    <3>2. q \in JobCall /\ q.op = "jobStatus" /\ Proceed(c, q)
      BY <3>1 DEF JobCall, JobTransitions, JobStatus
    <3> HIDE DEF q
    <3> QED BY <3>2
  <2>6. ASSUME NEW j \in Jobs, ReadForDelete(c, j)
        PROVE  Read
    <3> DEFINE q == [op |-> "deleteJob", job |-> j]
    <3>1. q \in JobCall /\ q.op = "deleteJob" /\ Proceed(c, q)  BY <2>6 DEF JobCall, ReadForDelete
    <3> HIDE DEF q
    <3> QED BY <3>1
  <2>7. ASSUME NEW j \in Jobs, ReadForAssignment(c, j)
        PROVE  Read
    <3>1. PICK team \in Teams : Proceed(c, [op |-> "assign", job |-> j, team |-> team, todo |-> {}])
      BY <2>7 DEF ReadForAssignment
    <3> DEFINE q == [op |-> "assign", job |-> j, team |-> team, todo |-> {}]
    <3>2. q \in JobCall /\ q.op = "assign" /\ Proceed(c, q)  BY <1>1, <3>1 DEF JobCall
    <3> HIDE DEF q
    <3> QED BY <3>2
  <2>8. ASSUME NEW j \in Jobs, AskForLink(c, j)
        PROVE  Read
    <3> DEFINE q == [op |-> "lockJob", job |-> j]
    <3>1. q \in JobCall /\ q.op = "lockJob" /\ Proceed(c, q)  BY <2>8 DEF JobCall, AskForLink
    <3> HIDE DEF q
    <3> QED BY <3>1
  <2>9. ASSUME NEW j \in Jobs, NEW s \in Staff, ReadForCheckIn(c, j, s)
        PROVE  Read
    <3> DEFINE q == [op |-> "checkIn", job |-> j, staff |-> s]
    <3>1. q \in JobCall /\ q.op = "checkIn" /\ Proceed(c, q)  BY <2>9 DEF JobCall, ReadForCheckIn
    <3> HIDE DEF q
    <3> QED BY <3>1
  <2>10. ASSUME NEW j \in Jobs, NEW s \in Staff, ReadForCheckOut(c, j, s)
        PROVE  Read
    <3> DEFINE q == [op |-> "checkOut", job |-> j, staff |-> s]
    <3>1. q \in JobCall /\ q.op = "checkOut" /\ Proceed(c, q)  BY <2>10 DEF JobCall, ReadForCheckOut
    <3> HIDE DEF q
    <3> QED BY <3>1
  <2> HIDE DEF Read
  <2>11. Read  BY <2>1, <2>2, <2>3, <2>4, <2>5, <2>6, <2>7, <2>8, <2>9, <2>10
  <2> QED BY <2>11 DEF Read
<1> QED BY <1>0, <1>2, VisitsOnlyRead

LEMMA TheAvailableAreStaff ==
  ASSUME NEW j \in Jobs, NEW count
  PROVE  \A team \in Recommended(j, count) : team \subseteq Available(j)
BY DEF Recommended

\* What a dispatch decides on.
LEMMA DispatchFields ==
  ASSUME NEW c \in Crew, NEW j \in Jobs, NEW todo \in SUBSET Jobs, Dispatch(c, j, todo)
  PROVE  \E q \in JobCall \cup {NoCall} :
           /\ Proceed(c, q)
           /\ q # NoCall => q.op \in {"assign", "bulk"} /\ q.job = j /\ q.team \subseteq Available(j)
<1>1. PICK team \in IF ~JobExists(j) THEN {{}} ELSE Recommended(j, 1) :
        Proceed(c, IF team = {} /\ todo = {} THEN NoCall
                   ELSE [op |-> IF team = {} THEN "bulk" ELSE "assign",
                         job |-> j, team |-> team, todo |-> todo])
  BY DEF Dispatch
<1>2. team \subseteq Available(j) /\ team \subseteq Staff  BY <1>1, TheAvailableAreStaff DEF Available
<1> DEFINE sent == [op |-> "assign", job |-> j, team |-> team, todo |-> todo]
           next == [op |-> "bulk", job |-> j, team |-> team, todo |-> todo]
<1>3. Proceed(c, NoCall) \/ Proceed(c, sent) \/ Proceed(c, next)
  <2>1. CASE team = {} /\ todo = {}  BY <1>1, <2>1
  <2>2. CASE team = {} /\ todo # {}  BY <1>1, <2>2
  <2>3. CASE team # {}  BY <1>1, <2>3
  <2> QED BY <2>1, <2>2, <2>3
<1>4. sent \in JobCall /\ sent.op = "assign" /\ sent.job = j /\ sent.team = team  BY <1>2 DEF JobCall
<1>5. next \in JobCall /\ next.op = "bulk" /\ next.job = j /\ next.team = team  BY <1>2 DEF JobCall
<1> HIDE DEF sent, next
<1> QED BY <1>2, <1>3, <1>4, <1>5

LEMMA DispatchingReads ==
  ASSUME JobInv, NEW c \in Crew,
         (\E j \in Jobs : AutoDispatch(c, j)) \/ BulkAutoDispatch(c) \/ BulkGoesOn(c)
  PROVE  JobInv'
<1>1. \E j \in Jobs, todo \in SUBSET Jobs : Dispatch(c, j, todo)
  <2>1. ASSUME BulkGoesOn(c)
        PROVE  \E j \in Jobs, todo \in SUBSET Jobs : Dispatch(c, j, todo)
    <3>1. visit[c].todo \subseteq Jobs  BY <2>1, VisitFields DEF BulkGoesOn, Is, JobInv
    <3>2. PICK j \in visit[c].todo : Dispatch(c, j, visit[c].todo \ {j})  BY <2>1 DEF BulkGoesOn
    <3>3. j \in Jobs /\ visit[c].todo \ {j} \in SUBSET Jobs  BY <3>1
    <3> QED BY <3>2, <3>3
  <2>2. ASSUME NEW j \in Jobs, AutoDispatch(c, j)
        PROVE  Dispatch(c, j, {})
    BY <2>2 DEF AutoDispatch
  <2>3. ASSUME BulkAutoDispatch(c)
        PROVE  \E j \in Jobs, todo \in SUBSET Jobs : Dispatch(c, j, todo)
    <3> DEFINE open == {j \in Jobs : job[j].status = "SCHEDULED" /\ assigned[j] = Unassigned}
    <3>1. PICK j \in open : Dispatch(c, j, open \ {j})  BY <2>3 DEF BulkAutoDispatch
    <3>2. open \ {j} \in SUBSET Jobs /\ j \in Jobs  OBVIOUS
    <3> QED BY <3>1, <3>2
  <2> QED BY <2>1, <2>2, <2>3
<1>2. UNCHANGED <<bookingVars, job, assigned, invoiced, reviewVars, staffVars>>
  BY DEF AutoDispatch, BulkAutoDispatch, BulkGoesOn
<1>3. PICK j \in Jobs, todo \in SUBSET Jobs : Dispatch(c, j, todo)  BY <1>1
<1> QED BY <1>2, <1>3, DispatchFields, VisitsOnlyRead

------------------------
(* Jobs: the writes *)

\* Rows and teams of jobs change, nothing else does.
LEMMA JobRowsAreWritten ==
  ASSUME JobInv, NEW c \in Crew, NEW q \in JobCall \cup {NoCall}, Proceed(c, q),
         UNCHANGED <<bookingVars, invoiced, reviewVars, staffVars>>,
         q # NoCall => q.op \notin {"renew", "submitReview", "job"},
         job' \in [Jobs -> JobRow],
         assigned' \in [Jobs -> [Staff -> {"NONE", "ASSIGNED", "IN", "OUT"}]],
         \A j \in Jobs :
            /\ job[j].status # "NONE" =>
                job'[j].status # "NONE" /\ (job[j].status = "GONE" => job'[j].status = "GONE")
            /\ job'[j].status = "COMPLETED" => job[j].status = "COMPLETED"
            /\ job'[j].status \in {"NONE", "GONE"} => job[j].status \in {"NONE", "GONE"} /\ assigned'[j] = Unassigned
            /\ job'[j].booking = job[j].booking
            /\ "job" \notin ops => job'[j].status \in {"NONE", "GONE"}
  PROVE  JobInv'
<1>0. /\ UNCHANGED <<form, sub, inbox, booking, change, call, ops>>
      /\ UNCHANGED <<invoiced, link, issued, reviews, held>>
      /\ UNCHANGED <<staff, leave, dayOff, sync>>
  BY DEF bookingVars, reviewVars, staffVars
<1>1. /\ visit' \in [Crew -> JobCall \cup {NoCall}] /\ visit'[c] = q
      /\ \A d \in Crew \ {c} : visit'[d] = visit[d]
  BY VisitsStay DEF JobInv
<1>2. LinksAreApart' /\ LinksAreHeld'  BY <1>0, LinksStayHeld
<1>3. JobsAreTyped' /\ StaffIsTyped'  BY <1>0, <1>1 DEF JobInv, JobsAreTyped, StaffIsTyped
<1>4. JobsAreApart'  BY <1>0 DEF JobInv, JobsAreApart, JobExists, Exists
<1>5. CompletionIsWhole'  BY <1>0 DEF JobInv, CompletionIsWhole
<1>6. JobsAreCreated'  BY <1>0, <1>1 DEF JobInv, JobsAreCreated, JobExists, Is
<1> QED BY <1>2, <1>3, <1>4, <1>5, <1>6 DEF JobInv

LEMMA CreateJobKeepsJobInv ==
  ASSUME JobInv, BookingAssumption, NEW c \in Crew, CreateJob(c)
  PROVE  JobInv'
<1> DEFINE b == visit[c].booking
<1>0. /\ UNCHANGED <<form, sub, inbox, booking, change, call, ops>>
      /\ UNCHANGED <<invoiced, link, issued, reviews, held>>
      /\ UNCHANGED <<staff, leave, dayOff, sync>>
  BY DEF CreateJob, bookingVars, reviewVars, staffVars
<1>1. /\ visit[c] # NoCall /\ visit[c].op = "job" /\ Proceed(c, NoCall)
      /\ b \in Bookings \cup {NoBooking} /\ visit[c].time \in Times /\ visit[c].team \subseteq Staff
  BY VisitFields DEF CreateJob, Is, Finish, JobInv
<1>2. /\ visit' \in [Crew -> JobCall \cup {NoCall}] /\ visit'[c] = NoCall
      /\ \A d \in Crew \ {c} : visit'[d] = visit[d]
  BY <1>1, VisitsStay DEF JobInv
<1>3. "job" \in ops  BY <1>1 DEF JobInv, JobsAreCreated, Is
<1>4. CASE UNCHANGED <<job, assigned>>
  BY <1>0, <1>1, <1>4, VisitsOnlyRead DEF bookingVars, reviewVars, staffVars
<1>5. ASSUME b = NoBooking \/ (Exists(b) /\ JobOf(b) = {}),
             NEW j \in Jobs, job[j].status = "NONE",
             job' = [job EXCEPT ![j] = [status |-> "SCHEDULED", booking |-> b, time |-> visit[c].time]],
             assigned' = [assigned EXCEPT ![j] = Only(visit[c].team)]
      PROVE  JobInv'
  <2> DEFINE new == [status |-> "SCHEDULED", booking |-> b, time |-> visit[c].time]
  <2>1. new \in JobRow /\ new.status = "SCHEDULED" /\ new.booking = b  BY <1>1 DEF JobRow, JobStatus
  <2>2. job' = [job EXCEPT ![j] = new]  BY <1>5
  <2> HIDE DEF new, b
  <2>3. job \in [Jobs -> JobRow] /\ assigned \in [Jobs -> [Staff -> {"NONE", "ASSIGNED", "IN", "OUT"}]]
    BY DEF JobInv, JobsAreTyped
  <2>4. Only(visit[c].team) \in [Staff -> {"NONE", "ASSIGNED", "IN", "OUT"}]  BY DEF Only
  <2>5. job' \in [Jobs -> JobRow] /\ job'[j] = new /\ \A i \in Jobs \ {j} : job'[i] = job[i]
    BY <2>1, <2>2, <2>3
  <2>6. /\ assigned' \in [Jobs -> [Staff -> {"NONE", "ASSIGNED", "IN", "OUT"}]]
        /\ \A i \in Jobs \ {j} : assigned'[i] = assigned[i]
    BY <1>5, <2>3, <2>4
  <2>7. JobsAreTyped' /\ StaffIsTyped'  BY <1>0, <1>2, <2>5, <2>6 DEF JobInv, JobsAreTyped, StaffIsTyped
  <2>8. \A i \in Jobs : b # NoBooking => job[i].booking # b  BY <1>5 DEF JobOf
  <2>9. JobsAreApart'
    <3>1. \A i \in Jobs : job'[i].booking # NoBooking =>
            /\ job'[i].booking \in Bookings /\ Exists(job'[i].booking)
      BY <1>1, <1>5, <2>1, <2>3, <2>5 DEF JobInv, JobsAreApart, JobRow
    <3>2. \A i, k \in Jobs : job'[i].booking # NoBooking /\ job'[i].booking = job'[k].booking => i = k
      BY <2>1, <2>5, <2>8 DEF JobInv, JobsAreApart
    <3>3. \A i \in Jobs : job'[i].status \in {"NONE", "GONE"} =>
            i # j /\ assigned'[i] = Unassigned /\ job'[i].booking = NoBooking /\ link[i].state = "NONE"
      BY <2>1, <2>5, <2>6 DEF JobInv, JobsAreApart, JobExists
    <3> QED BY <1>0, <3>1, <3>2, <3>3 DEF JobsAreApart, JobExists, Exists
  <2>10. LinksAreApart' /\ LinksAreHeld'
    <3>1. \A i \in Jobs : job[i].status # "NONE" =>
            job'[i].status # "NONE" /\ (job[i].status = "GONE" => job'[i].status = "GONE")
      BY <1>5, <2>5
    <3> QED BY <1>0, <1>1, <3>1, LinksStayHeld
  <2>11. JobsAreCreated'  BY <1>0, <1>3 DEF JobsAreCreated
  <2>12. CompletionIsWhole'  BY <1>0, <2>1, <2>5 DEF JobInv, CompletionIsWhole
  <2> QED BY <2>7, <2>9, <2>10, <2>11, <2>12 DEF JobInv
<1> QED BY <1>4, <1>5 DEF CreateJob

LEMMA TeamsAreWritten ==
  ASSUME JobInv, NEW c \in Crew, UpdateJob(c) \/ CheckIn(c) \/ CheckOut(c) \/ Assign(c)
  PROVE  JobInv'
<1> DEFINE j == visit[c].job
<1>0. /\ job \in [Jobs -> JobRow] /\ assigned \in [Jobs -> [Staff -> {"NONE", "ASSIGNED", "IN", "OUT"}]]
      /\ UNCHANGED <<bookingVars, invoiced, reviewVars, staffVars>>
      /\ \A i \in Jobs : job[i].status \in {"NONE", "GONE"} => assigned[i] = Unassigned
      /\ \A i \in Jobs : "job" \notin ops => job[i].status \in {"NONE", "GONE"}
  BY DEF JobInv, JobsAreTyped, UpdateJob, CheckIn, CheckOut, Assign, JobsAreApart, JobExists,
         JobsAreCreated
<1>1. ASSUME UpdateJob(c)
      PROVE  JobInv'
  <2>1. visit[c] # NoCall /\ j \in Jobs /\ visit[c].time \in Times /\ Proceed(c, NoCall) /\ UNCHANGED assigned
    BY <1>1, VisitFields DEF UpdateJob, Is, Finish, JobInv
  <2> DEFINE row == [job[j] EXCEPT !.time = visit[c].time]
  <2>2. row \in JobRow /\ row.status = job[j].status /\ row.booking = job[j].booking
    BY <1>0, <2>1 DEF JobRow
  <2>3. job' = job \/ job' = [job EXCEPT ![j] = row]  BY <1>1 DEF UpdateJob
  <2> HIDE DEF row, j
  <2>4. job' \in [Jobs -> JobRow]
        /\ \A i \in Jobs : job'[i].status = job[i].status /\ job'[i].booking = job[i].booking
    BY <1>0, <2>1, <2>2, <2>3
  <2> QED BY <1>0, <2>1, <2>4, JobRowsAreWritten
<1>2. ASSUME CheckIn(c)
      PROVE  JobInv'
  <2>1. visit[c] # NoCall /\ j \in Jobs /\ visit[c].staff \in Staff /\ Proceed(c, NoCall)
    BY <1>2, VisitFields DEF CheckIn, Is, Finish, JobInv
  <2>2. CASE UNCHANGED <<job, assigned>>  BY <1>0, <2>1, <2>2, JobRowsAreWritten
  <2>3. CASE /\ assigned[j][visit[c].staff] # "NONE"
             /\ assigned' = [assigned EXCEPT ![j][visit[c].staff] = "IN"]
             /\ job' = [job EXCEPT ![j].status = "IN_PROGRESS"]
    <3> DEFINE row == [job[j] EXCEPT !.status = "IN_PROGRESS"]
               team == [assigned[j] EXCEPT ![visit[c].staff] = "IN"]
    <3>1. row \in JobRow /\ row.status = "IN_PROGRESS" /\ row.booking = job[j].booking
      BY <1>0, <2>1 DEF JobRow, JobStatus
    <3>2. team \in [Staff -> {"NONE", "ASSIGNED", "IN", "OUT"}]  BY <1>0, <2>1
    <3>3. job' = [job EXCEPT ![j] = row] /\ assigned' = [assigned EXCEPT ![j] = team]  BY <2>3
    <3>4. job[j].status \notin {"NONE", "GONE"}  BY <1>0, <2>1, <2>3 DEF Unassigned
    <3> HIDE DEF row, team, j
    <3>5. job' \in [Jobs -> JobRow] /\ assigned' \in [Jobs -> [Staff -> {"NONE", "ASSIGNED", "IN", "OUT"}]]
      BY <1>0, <2>1, <3>1, <3>2, <3>3
    <3>6. job'[j] = row /\ \A i \in Jobs \ {j} : job'[i] = job[i] /\ assigned'[i] = assigned[i]
      BY <1>0, <2>1, <3>3
    <3>7. \A i \in Jobs :
            /\ job[i].status # "NONE" =>
                job'[i].status # "NONE" /\ (job[i].status = "GONE" => job'[i].status = "GONE")
            /\ job'[i].status = "COMPLETED" => job[i].status = "COMPLETED"
            /\ job'[i].status \in {"NONE", "GONE"} => job[i].status \in {"NONE", "GONE"} /\ assigned'[i] = Unassigned
            /\ job'[i].booking = job[i].booking
            /\ "job" \notin ops => job'[i].status \in {"NONE", "GONE"}
      BY <1>0, <2>1, <3>1, <3>4, <3>6
    <3> QED BY <1>0, <2>1, <3>5, <3>7, JobRowsAreWritten
  <2> QED BY <1>2, <2>2, <2>3 DEF CheckIn
<1>3. ASSUME CheckOut(c)
      PROVE  JobInv'
  <2>1. visit[c] # NoCall /\ j \in Jobs /\ visit[c].staff \in Staff /\ UNCHANGED job
    BY <1>3, VisitFields DEF CheckOut, Is, JobInv
  <2>2. CASE Proceed(c, NoCall) /\ UNCHANGED assigned  BY <1>0, <2>1, <2>2, JobRowsAreWritten
  <2>3. CASE /\ assigned[j][visit[c].staff] # "NONE"
             /\ assigned' = [assigned EXCEPT ![j][visit[c].staff] = "OUT"]
             /\ Proceed(c, [op |-> "complete", job |-> j])
    <3> DEFINE q == [op |-> "complete", job |-> j]
               team == [assigned[j] EXCEPT ![visit[c].staff] = "OUT"]
    <3>1. q \in JobCall /\ q.op = "complete"  BY <2>1 DEF JobCall
    <3>2. team \in [Staff -> {"NONE", "ASSIGNED", "IN", "OUT"}]  BY <1>0, <2>1
    <3>3. assigned' = [assigned EXCEPT ![j] = team] /\ Proceed(c, q)  BY <2>3
    <3>4. job[j].status \notin {"NONE", "GONE"}  BY <1>0, <2>1, <2>3 DEF Unassigned
    <3> HIDE DEF q, team, j
    <3>5. assigned' \in [Jobs -> [Staff -> {"NONE", "ASSIGNED", "IN", "OUT"}]]
          /\ \A i \in Jobs \ {j} : assigned'[i] = assigned[i]
      BY <1>0, <2>1, <3>2, <3>3
    <3>6. \A i \in Jobs : job[i].status \in {"NONE", "GONE"} => assigned'[i] = Unassigned
      BY <1>0, <3>4, <3>5
    <3> QED BY <1>0, <2>1, <3>1, <3>3, <3>5, <3>6, JobRowsAreWritten
  <2> QED BY <1>3, <2>2, <2>3 DEF CheckOut, Finish
<1>4. ASSUME Assign(c)
      PROVE  JobInv'
  <2>1. /\ visit[c] # NoCall /\ visit[c].op = "assign" /\ visit[c] \in JobCall /\ j \in Jobs
        /\ visit[c].team \subseteq Staff /\ visit[c].todo \subseteq Jobs /\ UNCHANGED job
    BY <1>4, VisitFields DEF Assign, Is, JobInv
  <2> DEFINE next == [visit[c] EXCEPT !.op = "bulk"]
  <2>2. next \in JobCall /\ next.op = "bulk"
    <3>1. visit[c] \in [op : {"assign", "bulk"}, job : Jobs, team : SUBSET Staff, todo : SUBSET Jobs]
      BY <2>1 DEF JobCall
    <3> QED BY <3>1 DEF JobCall
  <2>3. Proceed(c, NoCall) \/ Proceed(c, next)  BY <1>4 DEF Assign
  <2>4. Only(visit[c].team) \in [Staff -> {"NONE", "ASSIGNED", "IN", "OUT"}]  BY DEF Only
  <2>5. assigned' = IF ~JobExists(j) THEN assigned ELSE [assigned EXCEPT ![j] = Only(visit[c].team)]
    BY <1>4 DEF Assign
  <2> HIDE DEF next, j
  <2>6. assigned' \in [Jobs -> [Staff -> {"NONE", "ASSIGNED", "IN", "OUT"}]]
        /\ \A i \in Jobs : job[i].status \in {"NONE", "GONE"} => assigned'[i] = Unassigned
    BY <1>0, <2>1, <2>4, <2>5 DEF JobExists
  <2>7. CASE Proceed(c, NoCall)  BY <1>0, <2>1, <2>6, <2>7, JobRowsAreWritten
  <2>8. CASE Proceed(c, next)  BY <1>0, <2>1, <2>2, <2>6, <2>8, JobRowsAreWritten
  <2> QED BY <2>3, <2>7, <2>8
<1> QED BY <1>1, <1>2, <1>3, <1>4

\* The status of a job, and with it its booking, its invoice and its link.
LEMMA UpdateJobStatusKeepsBookings ==
  ASSUME BookingInv, BookingAssumption, SlotInv, JobInv, NEW c \in Crew, UpdateJobStatus(c)
  PROVE  BookingInv' /\ SlotInv'
<1> DEFINE j == visit[c].job
           b == job[j].booking
           s == visit[c].new
           row == [booking[b] EXCEPT !.status = s]
<1>1. /\ visit[c] # NoCall /\ j \in Jobs /\ s \in JobStatus
      /\ UNCHANGED <<form, sub, inbox, change, call, ops>>
  BY VisitFields DEF UpdateJobStatus, Is, JobInv
<1>2. \/ booking' = booking
      \/ /\ JobExists(j) /\ b # NoBooking /\ s \in {"COMPLETED", "CANCELLED"}
         /\ booking' = [booking EXCEPT ![b] = row]
  BY DEF UpdateJobStatus
<1>3. b \in Bookings \cup {NoBooking} /\ (b # NoBooking => Exists(b))
  BY <1>1 DEF JobInv, JobsAreTyped, JobRow, JobsAreApart
<1>4. /\ booking \in [Bookings -> BookingRow]
      /\ change \in [Bookings -> [status : {"NONE", "PENDING", "APPROVED", "REJECTED"},
                                  cancel : BOOLEAN]]
  BY DEF BookingInv, BookingTypeOK, BookingRow
<1> HIDE DEF j, b, row
<1>5. BookingInv'
  <2>1. CallsAreTyped' /\ OneCall' /\ InboxCallIsCurrent'
    BY <1>1 DEF BookingInv, CallsAreTyped, OneCall, InboxCallIsCurrent, At
  <2>2. CASE booking' = booking  BY <1>1, <2>1, <2>2, ReadsChangeNothing DEF BookingInv
  <2>3. CASE /\ JobExists(j) /\ b # NoBooking /\ s \in {"COMPLETED", "CANCELLED"}
             /\ booking' = [booking EXCEPT ![b] = row]
    <3>1. b \in Bookings  BY <1>3, <2>3
    <3>2. row \in BookingRow /\ row.from = booking[b].from /\ row.status \notin {"NONE", "GONE"}
      BY <1>4, <2>3, <3>1 DEF row, BookingRow, BookingStatus
    <3>3. BookingTypeOK' /\ NameEachOther' /\ InboxAgrees'
      BY <1>1, <1>4, <2>3, <3>1, <3>2, RowsAreWritten
    <3> QED BY <2>1, <3>3 DEF BookingInv
  <2> QED BY <1>2, <2>2, <2>3
<1>6. SlotInv'
  <2> SUFFICES ASSUME Counted PROVE SlotInv'
    BY <1>1 DEF SlotInv, Counted
  <2>1. "job" \notin ops  BY DEF Counted, FillsUnasked
  <2>2. booking' = booking  BY <1>1, <1>2, <2>1 DEF JobInv, JobsAreCreated
  <2> QED BY <1>1, <2>2 DEF SlotInv, RoomForAll, BookedIsConverted, SlotCallsAreCurrent, At, Pending,
                           Calendar, Awaiting, Exists
<1> QED BY <1>5, <1>6

\* Only the status of job j is written; it may get its first link.
LEMMA StatusIsWritten ==
  ASSUME JobInv, NEW c \in Crew, NEW j \in Jobs, NEW s \in JobStatus, Proceed(c, NoCall), JobExists(j),
         job' = [job EXCEPT ![j].status = s],
         \/ UNCHANGED <<link, issued>>
         \/ \E t \in Tokens \ issued : Linked(j, t),
         UNCHANGED <<ops, assigned, reviews, held, staffVars>>
  PROVE  /\ job' \in [Jobs -> JobRow] /\ job'[j].status = s /\ job'[j].booking = job[j].booking
         /\ \A i \in Jobs \ {j} : job'[i] = job[i]
         /\ visit' \in [Crew -> JobCall \cup {NoCall}]
         /\ link' \in [Jobs -> Link] /\ issued' \subseteq Tokens
         /\ \A i \in Jobs \ {j} : link'[i] = link[i]
         /\ link[j].state # "NONE" => link'[j] = link[j]
         /\ (link[j].state = "NONE" /\ link'[j] # link[j]) => link'[j].state = "READY"
         /\ StaffIsTyped' /\ JobsAreCreated' /\ LinksAreApart' /\ LinksAreHeld'
<1> DEFINE row == [job[j] EXCEPT !.status = s]
<1>1. /\ job \in [Jobs -> JobRow] /\ link \in [Jobs -> Link] /\ issued \subseteq Tokens
  BY DEF JobInv, JobsAreTyped
<1>2. row \in JobRow /\ row.status = s /\ row.booking = job[j].booking /\ job' = [job EXCEPT ![j] = row]
  BY <1>1 DEF JobRow
<1> HIDE DEF row
<1>3. job' \in [Jobs -> JobRow] /\ job'[j] = row /\ \A i \in Jobs \ {j} : job'[i] = job[i]
  BY <1>1, <1>2
<1>4. /\ visit' \in [Crew -> JobCall \cup {NoCall}] /\ visit'[c] = NoCall
      /\ \A d \in Crew \ {c} : visit'[d] = visit[d]
  BY VisitsStay DEF JobInv
<1>5. /\ link' \in [Jobs -> Link] /\ issued' \subseteq Tokens
      /\ \A i \in Jobs \ {j} : link'[i] = link[i]
      /\ link[j].state # "NONE" => link'[j] = link[j]
      /\ (link[j].state = "NONE" /\ link'[j] # link[j]) => link'[j].state = "READY"
      /\ LinksAreApart'
  <2>1. CASE UNCHANGED <<link, issued>>  BY <1>1, <2>1 DEF JobInv, LinksAreApart
  <2>2. ASSUME NEW t \in Tokens \ issued, Linked(j, t), link[j].state = "NONE"
        PROVE  /\ link' \in [Jobs -> Link] /\ issued' \subseteq Tokens
               /\ \A i \in Jobs \ {j} : link'[i] = link[i]
               /\ link'[j].state = "READY"
               /\ LinksAreApart'
    <3> DEFINE fresh == [state |-> "READY", token |-> t]
    <3>1. fresh \in Link /\ fresh.state = "READY" /\ fresh.token = t  BY DEF Link
    <3>2. link' = [link EXCEPT ![j] = fresh] /\ issued' = issued \cup {t}  BY <2>2 DEF Linked
    <3> HIDE DEF fresh
    <3>3. link' \in [Jobs -> Link] /\ link'[j] = fresh /\ \A i \in Jobs \ {j} : link'[i] = link[i]
      BY <1>1, <3>1, <3>2
    <3>4. LinksAreApart'  BY <3>1, <3>2, <3>3 DEF JobInv, LinksAreApart
    <3> QED BY <1>1, <3>1, <3>2, <3>3, <3>4
  <2>3. CASE link[j].state # "NONE"
    <3>1. UNCHANGED <<link, issued>>  BY <2>3 DEF Linked
    <3> QED BY <2>1, <3>1, <2>3
  <2> QED BY <2>1, <2>2, <2>3
<1>6. LinksAreHeld'
  <2> SUFFICES ASSUME NEW d \in Crew, visit'[d] # NoCall, visit'[d].op \in {"renew", "submitReview"}
               PROVE  /\ visit'[d].op = "renew" =>
                          /\ held[visit'[d].job] = d
                          /\ job'[visit'[d].job].status # "NONE"
                          /\ job'[visit'[d].job].status \notin {"NONE", "GONE"} =>
                              /\ link'[visit'[d].job].state # "NONE"
                              /\ link'[visit'[d].job].token = visit'[d].token
                      /\ visit'[d].op = "submitReview" =>
                          /\ held[visit'[d].token] = d
                          /\ job'[visit'[d].job].status # "NONE"
                          /\ job'[visit'[d].job].status \notin {"NONE", "GONE"} =>
                              /\ link'[visit'[d].job].token = visit'[d].token
                              /\ link'[visit'[d].job].state \in {"READY", "EXPIRED"}
    BY DEF LinksAreHeld, Is, JobExists
  <2>1. visit'[d] = visit[d] /\ visit[d] # NoCall  BY <1>4
  <2>2. visit[d].job \in Jobs  BY <2>1, VisitFields DEF JobInv
  <2>3. s \notin {"NONE", "GONE"} /\ job[j].status \notin {"NONE", "GONE"}  BY DEF JobStatus, JobExists
  <2>4. CASE visit[d].job # j  BY <1>3, <1>5, <2>1, <2>2, <2>4 DEF JobInv, LinksAreHeld, Is, JobExists
  <2>5. CASE visit[d].job = j
    BY <1>2, <1>3, <1>5, <2>1, <2>3, <2>5 DEF JobInv, LinksAreHeld, Is, JobExists
  <2> QED BY <2>4, <2>5
<1>7. JobsAreCreated'  BY <1>3, <1>4 DEF JobInv, JobsAreCreated, JobExists, Is
<1>8. StaffIsTyped'  BY DEF JobInv, StaffIsTyped, staffVars
<1> QED BY <1>2, <1>3, <1>4, <1>5, <1>6, <1>7, <1>8

LEMMA UpdateJobStatusKeepsJobInv ==
  ASSUME BookingInv, BookingAssumption, JobInv, NEW c \in Crew, UpdateJobStatus(c)
  PROVE  JobInv'
<1> DEFINE j == visit[c].job
           b == job[j].booking
           s == visit[c].new
<1>1. /\ visit[c] # NoCall /\ j \in Jobs /\ s \in JobStatus /\ Proceed(c, NoCall)
      /\ UNCHANGED <<form, sub, inbox, change, call, ops, assigned, reviews, held, staffVars>>
  BY VisitFields DEF UpdateJobStatus, Is, JobInv, Finish
<1>2. CASE ~JobExists(j)  BY <1>1, <1>2, VisitsOnlyRead DEF UpdateJobStatus, bookingVars, reviewVars
<1>3. CASE JobExists(j)
  <2>1. /\ job' = [job EXCEPT ![j].status = s]
        /\ booking' = IF b # NoBooking /\ s \in {"COMPLETED", "CANCELLED"}
                      THEN [booking EXCEPT ![b].status = s] ELSE booking
        /\ invoiced' = IF b # NoBooking /\ s = "COMPLETED" THEN Billed(b) ELSE invoiced
        /\ IF s = "COMPLETED" THEN \E t \in Tokens \ issued : Linked(j, t)
           ELSE UNCHANGED <<link, issued>>
    BY <1>3 DEF UpdateJobStatus
  <2>2. b \in Bookings \cup {NoBooking} /\ (b # NoBooking => Exists(b))
    BY <1>1 DEF JobInv, JobsAreTyped, JobRow, JobsAreApart
  <2>3. booking \in [Bookings -> BookingRow] /\ invoiced \subseteq Bookings
    BY DEF BookingInv, BookingTypeOK, BookingRow, JobInv, JobsAreTyped
  <2>4. s \notin {"NONE", "GONE"}  BY <1>1 DEF JobStatus
  <2>5. s = "COMPLETED" => link'[j].state # "NONE"
    <3> SUFFICES ASSUME s = "COMPLETED" PROVE link'[j].state # "NONE"
      OBVIOUS
    <3>1. PICK t \in Tokens \ issued : Linked(j, t)  BY <2>1
    <3>2. link \in [Jobs -> Link]  BY DEF JobInv, JobsAreTyped
    <3> HIDE DEF j
    <3> QED BY <1>1, <3>1, <3>2 DEF Linked
  <2>6. \/ UNCHANGED <<link, issued>>
        \/ \E t \in Tokens \ issued : Linked(j, t)
    BY <2>1
  <2>7. /\ job' = [job EXCEPT ![j].status = s]
        /\ invoiced' = IF b # NoBooking /\ s = "COMPLETED" THEN invoiced \cup {b} ELSE invoiced
    BY <2>1 DEF Billed
  <2>8. \A a \in Bookings :
          /\ booking[a].status \notin {"NONE", "GONE"} => booking'[a].status \notin {"NONE", "GONE"}
          /\ a # b => booking'[a] = booking[a]
          /\ a = b /\ s = "COMPLETED" => booking'[a].status = "COMPLETED"
    BY <2>1, <2>2, <2>3 DEF BookingRow
  <2> HIDE DEF j, b, s
  <2>9. /\ job' \in [Jobs -> JobRow] /\ job'[j].status = s /\ job'[j].booking = job[j].booking
        /\ \A i \in Jobs \ {j} : job'[i] = job[i]
        /\ visit' \in [Crew -> JobCall \cup {NoCall}]
        /\ link' \in [Jobs -> Link] /\ issued' \subseteq Tokens
        /\ \A i \in Jobs \ {j} : link'[i] = link[i]
        /\ link[j].state # "NONE" => link'[j] = link[j]
        /\ (link[j].state = "NONE" /\ link'[j] # link[j]) => link'[j].state = "READY"
        /\ StaffIsTyped' /\ JobsAreCreated' /\ LinksAreApart' /\ LinksAreHeld'
    BY <1>1, <1>3, <2>6, <2>7, StatusIsWritten
  <2>10. JobsAreTyped'  BY <1>1, <2>2, <2>3, <2>7, <2>9 DEF JobInv, JobsAreTyped
  <2>11. \A i \in Jobs : job'[i].booking = job[i].booking  BY <2>9
  <2>12. JobsAreApart'
    <3>1. \A i \in Jobs : job'[i].status \in {"NONE", "GONE"} =>
            assigned'[i] = Unassigned /\ job'[i].booking = NoBooking /\ link'[i].state = "NONE"
      BY <1>1, <2>4, <2>9 DEF JobInv, JobsAreApart, JobExists
    <3>2. \A i \in Jobs : job'[i].booking # NoBooking =>
            booking'[job'[i].booking].status \notin {"NONE", "GONE"}
      <4> SUFFICES ASSUME NEW i \in Jobs, job[i].booking # NoBooking
                   PROVE  booking'[job[i].booking].status \notin {"NONE", "GONE"}
        BY <2>11
      <4>1. job[i].booking \in Bookings /\ Exists(job[i].booking)
        BY DEF JobInv, JobsAreTyped, JobRow, JobsAreApart
      <4> QED BY <4>1, <2>8 DEF Exists
    <3> QED BY <3>1, <3>2, <2>11 DEF JobInv, JobsAreApart, JobExists, Exists
  <2>13. CompletionIsWhole'
    <3>1. job[j].booking = b  BY DEF b
    <3>2. ASSUME NEW i \in Jobs, job'[i].status = "COMPLETED"
          PROVE  /\ link'[i].state # "NONE"
                 /\ job'[i].booking # NoBooking =>
                     /\ job'[i].booking \in invoiced'
                     /\ ops \cap {"status", "decide"} = {} =>
                         booking'[job'[i].booking].status = "COMPLETED"
      <4>1. CASE i = j
        <5>1. s = "COMPLETED" /\ job'[i].booking = b  BY <4>1, <3>2, <3>1, <2>9
        <5> QED BY <4>1, <5>1, <2>2, <2>5, <2>7, <2>8
      <4>2. CASE i # j
        <5>1. job'[i] = job[i] /\ link'[i] = link[i] /\ job[i].booking \in Bookings \cup {NoBooking}
          BY <4>2, <2>9 DEF JobInv, JobsAreTyped, JobRow
        <5>2. job[i].booking # NoBooking => job[i].booking # b
          BY <1>1, <4>2, <3>1 DEF JobInv, JobsAreApart
        <5>3. /\ link[i].state # "NONE"
              /\ job[i].booking # NoBooking =>
                  /\ job[i].booking \in invoiced
                  /\ ops \cap {"status", "decide"} = {} => booking[job[i].booking].status = "COMPLETED"
          BY <3>2, <5>1 DEF JobInv, CompletionIsWhole
        <5>4. invoiced \subseteq invoiced'  BY <2>7
        <5>5. job[i].booking # NoBooking => booking'[job[i].booking] = booking[job[i].booking]
          BY <5>1, <5>2, <2>8
        <5> QED BY <5>1, <5>3, <5>4, <5>5
      <4> QED BY <4>1, <4>2
    <3>3. \A i \in Jobs : reviews[i] = IF link'[i].state = "USED" THEN 1 ELSE 0
      BY <2>9 DEF JobInv, CompletionIsWhole
    <3> QED BY <1>1, <3>2, <3>3 DEF CompletionIsWhole
  <2> QED BY <2>9, <2>10, <2>12, <2>13 DEF JobInv
<1> QED BY <1>2, <1>3

\* What is left of a job that is deleted.
LEMMA DeleteJobKeepsJobInv ==
  ASSUME JobInv, BookingAssumption, NEW c \in Crew, DeleteJob(c)
  PROVE  JobInv'
<1> DEFINE j == visit[c].job
           noLink == [state |-> "NONE", token |-> NoToken]
<1>1. /\ visit[c] # NoCall /\ j \in Jobs /\ Proceed(c, NoCall)
      /\ UNCHANGED <<form, sub, inbox, booking, change, call, ops, invoiced, issued, held>>
      /\ UNCHANGED <<staff, leave, dayOff, sync>>
  BY VisitFields DEF DeleteJob, Is, Finish, JobInv, bookingVars, staffVars
<1>2. /\ job' = [job EXCEPT ![j] = GoneJob] /\ assigned' = [assigned EXCEPT ![j] = Unassigned]
      /\ link' = [link EXCEPT ![j] = noLink] /\ reviews' = [reviews EXCEPT ![j] = 0]
  BY DEF DeleteJob
<1>3. /\ job \in [Jobs -> JobRow] /\ link \in [Jobs -> Link] /\ reviews \in [Jobs -> Nat]
      /\ assigned \in [Jobs -> [Staff -> {"NONE", "ASSIGNED", "IN", "OUT"}]]
  BY DEF JobInv, JobsAreTyped
<1>4. noLink \in Link /\ noLink.state = "NONE"  BY DEF Link
<1>5. GoneJob \in JobRow /\ GoneJob.status = "GONE" /\ GoneJob.booking = NoBooking
  <2>1. job[j].time \in Times  BY <1>1, <1>3 DEF JobRow
  <2>2. (CHOOSE t \in Times : TRUE) \in Times  BY <2>1
  <2> QED BY <2>2 DEF GoneJob, NoJob, JobRow
<1>6. Unassigned \in [Staff -> {"NONE", "ASSIGNED", "IN", "OUT"}]  BY DEF Unassigned
<1> HIDE DEF j, noLink
<1>7. /\ job' \in [Jobs -> JobRow] /\ link' \in [Jobs -> Link] /\ reviews' \in [Jobs -> Nat]
      /\ assigned' \in [Jobs -> [Staff -> {"NONE", "ASSIGNED", "IN", "OUT"}]]
  BY <1>1, <1>2, <1>3, <1>4, <1>5, <1>6
<1>8. /\ job'[j] = GoneJob /\ assigned'[j] = Unassigned /\ link'[j] = noLink /\ reviews'[j] = 0
      /\ \A i \in Jobs \ {j} : /\ job'[i] = job[i] /\ assigned'[i] = assigned[i]
                               /\ link'[i] = link[i] /\ reviews'[i] = reviews[i]
  BY <1>1, <1>2, <1>3
<1>9. /\ visit' \in [Crew -> JobCall \cup {NoCall}] /\ visit'[c] = NoCall
      /\ \A d \in Crew \ {c} : visit'[d] = visit[d]
  BY <1>1, VisitsStay DEF JobInv
<1>10. JobsAreTyped' /\ StaffIsTyped'  BY <1>1, <1>7, <1>9 DEF JobInv, JobsAreTyped, StaffIsTyped
<1>11. JobsAreApart'
  <2>1. \A i \in Jobs : job'[i].booking # NoBooking => i # j  BY <1>5, <1>8
  <2> QED BY <1>1, <1>4, <1>5, <1>8, <2>1 DEF JobInv, JobsAreApart, JobExists, Exists
<1>12. JobsAreCreated'  BY <1>1, <1>5, <1>8, <1>9 DEF JobInv, JobsAreCreated, JobExists, Is
<1>13. LinksAreApart'  BY <1>1, <1>4, <1>8 DEF JobInv, LinksAreApart
<1>14. LinksAreHeld'
  <2> SUFFICES ASSUME NEW d \in Crew, visit'[d] # NoCall, visit'[d].op \in {"renew", "submitReview"}
               PROVE  /\ visit'[d].op = "renew" =>
                          /\ held[visit'[d].job] = d
                          /\ job'[visit'[d].job].status # "NONE"
                          /\ job'[visit'[d].job].status \notin {"NONE", "GONE"} =>
                              /\ link'[visit'[d].job].state # "NONE"
                              /\ link'[visit'[d].job].token = visit'[d].token
                      /\ visit'[d].op = "submitReview" =>
                          /\ held[visit'[d].token] = d
                          /\ job'[visit'[d].job].status # "NONE"
                          /\ job'[visit'[d].job].status \notin {"NONE", "GONE"} =>
                              /\ link'[visit'[d].job].token = visit'[d].token
                              /\ link'[visit'[d].job].state \in {"READY", "EXPIRED"}
    BY <1>1 DEF LinksAreHeld, Is, JobExists
  <2>1. visit'[d] = visit[d] /\ visit[d] # NoCall  BY <1>9
  <2>2. visit[d].job \in Jobs  BY <2>1, VisitFields DEF JobInv
  <2>3. CASE visit[d].job = j  BY <1>5, <1>8, <2>1, <2>3 DEF JobInv, LinksAreHeld, Is
  <2>4. CASE visit[d].job # j  BY <1>8, <2>1, <2>2, <2>4 DEF JobInv, LinksAreHeld, Is, JobExists
  <2> QED BY <2>3, <2>4
<1>15. CompletionIsWhole'
  <2>1. ASSUME NEW i \in Jobs
        PROVE  /\ job'[i].status = "COMPLETED" =>
                   /\ link'[i].state # "NONE"
                   /\ job'[i].booking # NoBooking =>
                       /\ job'[i].booking \in invoiced
                       /\ ops \cap {"status", "decide"} = {} =>
                           booking[job'[i].booking].status = "COMPLETED"
               /\ reviews'[i] = IF link'[i].state = "USED" THEN 1 ELSE 0
    <3>1. CASE i = j  BY <1>4, <1>5, <1>8, <3>1
    <3>2. CASE i # j  BY <1>8, <3>2 DEF JobInv, CompletionIsWhole
    <3> QED BY <3>1, <3>2
  <2> QED BY <1>1, <2>1 DEF CompletionIsWhole
<1> QED BY <1>10, <1>11, <1>12, <1>13, <1>14, <1>15 DEF JobInv

\* Jobs, teams and links stay, locks are taken.
LEMMA LockJobKeepsJobInv ==
  ASSUME JobInv, FieldAssumption, NEW c \in Crew, LockJob(c) \/ LockToken(c)
  PROVE  JobInv'
<1>0. /\ UNCHANGED <<bookingVars, job, assigned, invoiced, link, issued, reviews, staffVars>>
      /\ visit[c] # NoCall
  BY DEF LockJob, LockToken, Is
<1>1. \/ Proceed(c, NoCall) /\ UNCHANGED held
      \/ \E l \in Jobs \cup Tokens, q \in JobCall :
            /\ held[l] = Nobody /\ held' = [held EXCEPT ![l] = c] /\ Proceed(c, q)
            /\ q.op = "renew" =>
                /\ q.job \in Jobs /\ l = q.job /\ JobExists(q.job)
                /\ link[q.job].state # "NONE" /\ link[q.job].token = q.token
            /\ q.op = "submitReview" =>
                /\ q.job \in Jobs /\ l = q.token /\ JobExists(q.job)
                /\ link[q.job].token = q.token /\ link[q.job].state = "READY"
            /\ q.op \in {"renew", "submitReview"}
  <2>1. CASE LockJob(c)
    <3> DEFINE j == visit[c].job
               q == [op |-> "renew", job |-> j, token |-> link[j].token]
    <3>1. j \in Jobs /\ link[j] \in Link  BY <2>1, VisitFields DEF LockJob, Is, JobInv, JobsAreTyped
    <3>2. CASE link[j].state = "NONE"  BY <2>1, <3>2 DEF LockJob, Finish
    <3>3. CASE link[j].state # "NONE"
      <4>1. link[j].token \in Tokens /\ JobExists(j)
        BY <3>1, <3>3 DEF JobInv, JobsAreTyped, JobsAreApart, LinksAreApart
      <4>2. q \in JobCall /\ q.op = "renew" /\ q.job = j /\ q.token = link[j].token
        BY <3>1, <4>1 DEF JobCall
      <4>3. held[j] = Nobody /\ held' = [held EXCEPT ![j] = c] /\ Proceed(c, q)
        BY <2>1, <3>3 DEF LockJob, Take, MayHold
      <4> HIDE DEF q, j
      <4> QED BY <3>1, <3>3, <4>1, <4>2, <4>3
    <3> QED BY <3>2, <3>3
  <2>2. CASE LockToken(c) /\ ~(Proceed(c, NoCall) /\ UNCHANGED held)
    <3>1. PICK j \in Jobs :
            /\ link[j] = [state |-> "READY", token |-> visit[c].token]
            /\ Take(c, visit[c].token)
            /\ Proceed(c, [op |-> "submitReview", job |-> j, token |-> visit[c].token])
      BY <2>2 DEF LockToken, Finish
    <3>2. visit[c].token \in Tokens  BY <2>2, VisitFields DEF LockToken, Is, JobInv
    <3> DEFINE q == [op |-> "submitReview", job |-> j, token |-> visit[c].token]
    <3>3. q \in JobCall /\ q.op = "submitReview" /\ q.job = j /\ q.token = visit[c].token
      BY <3>2 DEF JobCall
    <3>4. link[j].state = "READY" /\ link[j].token = visit[c].token  BY <3>1
    <3>5. JobExists(j)  BY <3>4 DEF JobInv, JobsAreApart
    <3>6. held[visit[c].token] = Nobody /\ held' = [held EXCEPT ![visit[c].token] = c] /\ Proceed(c, q)
      BY <3>1 DEF Take, MayHold
    <3> HIDE DEF q
    <3> QED BY <3>2, <3>3, <3>4, <3>5, <3>6
  <2> QED BY <2>1, <2>2
<1>2. CASE Proceed(c, NoCall) /\ UNCHANGED held  BY <1>0, <1>2, VisitsOnlyRead DEF reviewVars
<1>3. ASSUME NEW l \in Jobs \cup Tokens, NEW q \in JobCall,
             held[l] = Nobody, held' = [held EXCEPT ![l] = c], Proceed(c, q),
             q.op = "renew" =>
                /\ q.job \in Jobs /\ l = q.job /\ JobExists(q.job)
                /\ link[q.job].state # "NONE" /\ link[q.job].token = q.token,
             q.op = "submitReview" =>
                /\ q.job \in Jobs /\ l = q.token /\ JobExists(q.job)
                /\ link[q.job].token = q.token /\ link[q.job].state = "READY",
             q.op \in {"renew", "submitReview"}
      PROVE  JobInv'
  <2>0. /\ UNCHANGED <<form, sub, inbox, booking, change, call, ops>>
        /\ UNCHANGED <<job, assigned, invoiced, link, issued, reviews>>
        /\ UNCHANGED <<staff, leave, dayOff, sync>>
    BY <1>0 DEF bookingVars, staffVars
  <2>1. /\ visit' \in [Crew -> JobCall \cup {NoCall}] /\ visit'[c] = q
        /\ \A d \in Crew \ {c} : visit'[d] = visit[d]
    BY <1>3, VisitsStay DEF JobInv
  <2>2. held \in [Jobs \cup Tokens -> Crew \cup {Nobody}]  BY DEF JobInv, JobsAreTyped
  <2>3. held' \in [Jobs \cup Tokens -> Crew \cup {Nobody}] /\ held'[l] = c
        /\ \A x \in Jobs \cup Tokens, d \in Crew : held[x] = d => held'[x] = d
    BY <1>3, <2>2, FieldAssumption DEF FieldAssumption
  <2>4. JobsAreTyped' /\ StaffIsTyped'  BY <2>0, <2>1, <2>3 DEF JobInv, JobsAreTyped, StaffIsTyped
  <2>5. JobsAreApart' /\ CompletionIsWhole' /\ LinksAreApart'
    BY <2>0 DEF JobInv, JobsAreApart, CompletionIsWhole, LinksAreApart, JobExists, Exists
  <2>6. JobsAreCreated'  BY <1>3, <2>0, <2>1 DEF JobInv, JobsAreCreated, JobExists, Is
  <2>7. LinksAreHeld'
    <3> SUFFICES ASSUME NEW d \in Crew, visit'[d] # NoCall, visit'[d].op \in {"renew", "submitReview"}
                 PROVE  /\ visit'[d].op = "renew" =>
                            /\ held'[visit'[d].job] = d
                            /\ job[visit'[d].job].status # "NONE"
                            /\ JobExists(visit'[d].job) =>
                                /\ link[visit'[d].job].state # "NONE"
                                /\ link[visit'[d].job].token = visit'[d].token
                        /\ visit'[d].op = "submitReview" =>
                            /\ held'[visit'[d].token] = d
                            /\ job[visit'[d].job].status # "NONE"
                            /\ JobExists(visit'[d].job) =>
                                /\ link[visit'[d].job].token = visit'[d].token
                                /\ link[visit'[d].job].state \in {"READY", "EXPIRED"}
      BY <2>0 DEF LinksAreHeld, Is, JobExists
    <3>1. CASE d = c  BY <1>3, <2>1, <2>3, <3>1 DEF JobExists
    <3>2. CASE d # c
      <4>1. visit'[d] = visit[d] /\ visit[d] # NoCall  BY <2>1, <3>2
      <4>2. visit[d].job \in Jobs /\ visit[d].token \in Tokens  BY <4>1, VisitFields DEF JobInv
      <4> QED BY <2>3, <4>1, <4>2 DEF JobInv, LinksAreHeld, Is
    <3> QED BY <3>1, <3>2
  <2> QED BY <2>4, <2>5, <2>6, <2>7 DEF JobInv
<1> QED BY <1>1, <1>2, <1>3

\* The link gets a new token, or is used.
LEMMA LinkIsWritten ==
  ASSUME JobInv, FieldAssumption, NEW c \in Crew, RenewLink(c) \/ SubmitReview(c)
  PROVE  JobInv'
<1> DEFINE j == visit[c].job
<1>0. /\ UNCHANGED <<form, sub, inbox, booking, change, call, ops>>
      /\ UNCHANGED <<job, assigned, invoiced>> /\ UNCHANGED <<staff, leave, dayOff, sync>>
      /\ visit[c] # NoCall /\ visit[c].op \in {"renew", "submitReview"} /\ Proceed(c, NoCall)
  BY DEF RenewLink, SubmitReview, Is, Finish, bookingVars, staffVars
<1>1. j \in Jobs /\ visit[c].token \in Tokens  BY <1>0, VisitFields DEF JobInv
<1>2. /\ visit' \in [Crew -> JobCall \cup {NoCall}] /\ visit'[c] = NoCall
      /\ \A d \in Crew \ {c} : visit'[d] = visit[d]
  BY <1>0, VisitsStay DEF JobInv
<1>3. /\ held \in [Jobs \cup Tokens -> Crew \cup {Nobody}] /\ link \in [Jobs -> Link]
      /\ reviews \in [Jobs -> Nat] /\ issued \subseteq Tokens
  BY DEF JobInv, JobsAreTyped
<1>4. /\ held' \in [Jobs \cup Tokens -> Crew \cup {Nobody}]
      /\ \A x \in Jobs \cup Tokens, d \in Crew \ {c} : held[x] = d => held'[x] = d
  <2>1. held' = [l \in DOMAIN held |-> IF held[l] = c THEN Nobody ELSE held[l]]
    BY DEF RenewLink, SubmitReview, Release
  <2> QED BY <1>3, <2>1
\* What happens to the link: nothing, a new token, or it is used.
<1>5. \/ UNCHANGED <<link, issued, reviews>>
      \/ /\ visit[c].op = "renew" /\ held[visit[c].token] = Nobody /\ link[j].state = "EXPIRED"
         /\ \E t \in Tokens \ issued :
              /\ link' = [link EXCEPT ![j] = [state |-> "READY", token |-> t]]
              /\ issued' = issued \cup {t}
         /\ UNCHANGED reviews
      \/ /\ visit[c].op = "submitReview" /\ link[j].state # "NONE"
         /\ link' = [link EXCEPT ![j].state = "USED"] /\ reviews' = [reviews EXCEPT ![j] = @ + 1]
         /\ UNCHANGED issued
  BY DEF RenewLink, SubmitReview, Is, MayHold
<1>6. link[j].state # "NONE" => JobExists(j)
  BY <1>1 DEF JobInv, JobsAreApart
\* Nobody else is about to use the link that changes.
<1>7. /\ link' \in [Jobs -> Link] /\ reviews' \in [Jobs -> Nat] /\ issued' \subseteq Tokens
      /\ LinksAreApart'
      /\ \A i \in Jobs : /\ (link'[i].state = "NONE") = (link[i].state = "NONE")
                         /\ reviews'[i] = IF link'[i].state = "USED" THEN 1 ELSE 0
      /\ \A i \in Jobs \ {j} : link'[i] = link[i]
      /\ link'[j] # link[j] => visit[c].op = "submitReview" \/ held[link[j].token] = Nobody
  <2>1. CASE UNCHANGED <<link, issued, reviews>>
    BY <1>3, <2>1 DEF JobInv, LinksAreApart, CompletionIsWhole
  <2>2. ASSUME visit[c].op = "renew", held[visit[c].token] = Nobody, link[j].state = "EXPIRED",
               NEW t \in Tokens \ issued,
               link' = [link EXCEPT ![j] = [state |-> "READY", token |-> t]],
               issued' = issued \cup {t}, UNCHANGED reviews
        PROVE  /\ link' \in [Jobs -> Link] /\ reviews' \in [Jobs -> Nat] /\ issued' \subseteq Tokens
               /\ LinksAreApart'
               /\ \A i \in Jobs : /\ (link'[i].state = "NONE") = (link[i].state = "NONE")
                                  /\ reviews'[i] = IF link'[i].state = "USED" THEN 1 ELSE 0
               /\ \A i \in Jobs \ {j} : link'[i] = link[i]
               /\ link'[j] # link[j] => visit[c].op = "submitReview" \/ held[link[j].token] = Nobody
    <3> DEFINE fresh == [state |-> "READY", token |-> t]
    <3>1. fresh \in Link /\ fresh.state = "READY" /\ fresh.token = t /\ link' = [link EXCEPT ![j] = fresh]
      BY <2>2 DEF Link
    <3> HIDE DEF fresh, j
    <3>2. link' \in [Jobs -> Link] /\ link'[j] = fresh /\ \A i \in Jobs \ {j} : link'[i] = link[i]
      BY <1>1, <1>3, <3>1
    <3>3. LinksAreApart'  BY <2>2, <3>1, <3>2 DEF JobInv, LinksAreApart
    <3>4. link[j].token = visit[c].token  BY <2>2, <1>0, <1>6 DEF JobInv, LinksAreHeld, Is, j
    <3>5. \A i \in Jobs : reviews[i] = IF link[i].state = "USED" THEN 1 ELSE 0
      BY DEF JobInv, CompletionIsWhole
    <3>6. \A i \in Jobs : /\ (link'[i].state = "NONE") = (link[i].state = "NONE")
                          /\ reviews'[i] = IF link'[i].state = "USED" THEN 1 ELSE 0
      BY <2>2, <3>1, <3>2, <3>5
    <3> QED BY <1>3, <2>2, <3>2, <3>3, <3>4, <3>6
  <2>3. ASSUME visit[c].op = "submitReview", link[j].state # "NONE",
               link' = [link EXCEPT ![j].state = "USED"], reviews' = [reviews EXCEPT ![j] = @ + 1],
               UNCHANGED issued
        PROVE  /\ link' \in [Jobs -> Link] /\ reviews' \in [Jobs -> Nat] /\ issued' \subseteq Tokens
               /\ LinksAreApart'
               /\ \A i \in Jobs : /\ (link'[i].state = "NONE") = (link[i].state = "NONE")
                                  /\ reviews'[i] = IF link'[i].state = "USED" THEN 1 ELSE 0
               /\ \A i \in Jobs \ {j} : link'[i] = link[i]
               /\ link'[j] # link[j] => visit[c].op = "submitReview" \/ held[link[j].token] = Nobody
    <3> DEFINE used == [link[j] EXCEPT !.state = "USED"]
    <3>1. used \in Link /\ used.state = "USED" /\ used.token = link[j].token
          /\ link' = [link EXCEPT ![j] = used]
      BY <1>1, <1>3, <2>3 DEF Link
    <3> HIDE DEF used, j
    <3>2. link' \in [Jobs -> Link] /\ link'[j] = used /\ \A i \in Jobs \ {j} : link'[i] = link[i]
      BY <1>1, <1>3, <3>1
    <3>3. LinksAreApart'  BY <2>3, <3>1, <3>2 DEF JobInv, LinksAreApart
    <3>4. link[j].state \in {"READY", "EXPIRED"}  BY <2>3, <1>0, <1>6 DEF JobInv, LinksAreHeld, Is, j
    <3>5. \A i \in Jobs : reviews[i] = IF link[i].state = "USED" THEN 1 ELSE 0
      BY DEF JobInv, CompletionIsWhole
    <3>6. reviews[j] = 0  BY <1>1, <3>4, <3>5
    <3>7. reviews' \in [Jobs -> Nat] /\ reviews'[j] = 1 /\ \A i \in Jobs \ {j} : reviews'[i] = reviews[i]
      BY <1>1, <1>3, <2>3, <3>6
    <3>8. \A i \in Jobs : /\ (link'[i].state = "NONE") = (link[i].state = "NONE")
                          /\ reviews'[i] = IF link'[i].state = "USED" THEN 1 ELSE 0
      <4> SUFFICES ASSUME NEW i \in Jobs
                   PROVE  /\ (link'[i].state = "NONE") = (link[i].state = "NONE")
                          /\ reviews'[i] = IF link'[i].state = "USED" THEN 1 ELSE 0
        OBVIOUS
      <4>1. CASE i = j  BY <2>3, <3>1, <3>2, <3>7, <4>1
      <4>2. CASE i # j  BY <3>2, <3>5, <3>7, <4>2
      <4> QED BY <4>1, <4>2
    <3> QED BY <1>3, <2>3, <3>2, <3>3, <3>7, <3>8
  <2> QED BY <1>5, <2>1, <2>2, <2>3
<1> HIDE DEF j
<1>8. JobsAreTyped' /\ StaffIsTyped'  BY <1>0, <1>2, <1>4, <1>7 DEF JobInv, JobsAreTyped, StaffIsTyped
<1>9. JobsAreApart' /\ JobsAreCreated'
  BY <1>0, <1>2, <1>7 DEF JobInv, JobsAreApart, JobsAreCreated, JobExists, Exists, Is
<1>10. CompletionIsWhole'  BY <1>0, <1>7 DEF JobInv, CompletionIsWhole
<1>11. LinksAreHeld'
  <2> SUFFICES ASSUME NEW d \in Crew, visit'[d] # NoCall, visit'[d].op \in {"renew", "submitReview"}
               PROVE  /\ visit'[d].op = "renew" =>
                          /\ held'[visit'[d].job] = d
                          /\ job[visit'[d].job].status # "NONE"
                          /\ JobExists(visit'[d].job) =>
                              /\ link'[visit'[d].job].state # "NONE"
                              /\ link'[visit'[d].job].token = visit'[d].token
                      /\ visit'[d].op = "submitReview" =>
                          /\ held'[visit'[d].token] = d
                          /\ job[visit'[d].job].status # "NONE"
                          /\ JobExists(visit'[d].job) =>
                              /\ link'[visit'[d].job].token = visit'[d].token
                              /\ link'[visit'[d].job].state \in {"READY", "EXPIRED"}
    BY <1>0 DEF LinksAreHeld, Is, JobExists
  <2>1. d # c /\ visit'[d] = visit[d] /\ visit[d] # NoCall  BY <1>2
  <2>2. visit[d].job \in Jobs /\ visit[d].token \in Tokens  BY <2>1, VisitFields DEF JobInv
  <2>3. CASE link'[visit[d].job] = link[visit[d].job]
    BY <1>4, <2>1, <2>2, <2>3 DEF JobInv, LinksAreHeld, Is
  <2>4. CASE visit[d].job = j /\ link'[j] # link[j]
    <3>1. CASE visit[c].op = "submitReview"
      \* the link keeps its token; who submits another review would hold the same lock
      <4>1. link[j].state # "NONE" /\ link'[j].token = link[j].token /\ link'[j].state # "NONE"
        <5>1. link[j].state # "NONE" /\ link' = [link EXCEPT ![j].state = "USED"]  BY <1>5, <2>4, <3>1
        <5> QED BY <1>1, <1>3, <1>7, <5>1 DEF Link
      <4>2. held[visit[c].token] = c /\ link[j].token = visit[c].token
        BY <1>0, <1>6, <3>1, <4>1 DEF JobInv, LinksAreHeld, Is, j
      <4>3. visit[d].op # "submitReview"
        <5> SUFFICES ASSUME visit[d].op = "submitReview" PROVE FALSE
          OBVIOUS
        <5>1. held[visit[d].token] = d /\ link[j].token = visit[d].token
          BY <1>6, <2>1, <2>4, <4>1 DEF JobInv, LinksAreHeld, Is
        <5> QED BY <2>1, <4>2, <5>1
      <4>4. visit[d].op = "renew"  BY <2>1, <4>3
      <4> QED BY <1>4, <1>6, <2>1, <2>2, <2>4, <4>1, <4>4 DEF JobInv, LinksAreHeld, Is
    <3>2. CASE visit[c].op = "renew"
      \* nobody holds the token it had, and c alone the job
      <4>1. held[link[j].token] = Nobody /\ link[j].state # "NONE"  BY <1>5, <1>7, <2>4, <3>2
      <4>2. held[j] = c  BY <1>0, <3>2 DEF JobInv, LinksAreHeld, Is, j
      <4>3. visit[d].op # "submitReview"
        <5> SUFFICES ASSUME visit[d].op = "submitReview" PROVE FALSE
          OBVIOUS
        <5>1. held[visit[d].token] = d /\ link[j].token = visit[d].token
          BY <1>6, <2>1, <2>4, <4>1 DEF JobInv, LinksAreHeld, Is
        <5> QED BY <4>1, <5>1, FieldAssumption DEF FieldAssumption
      <4>4. visit[d].op # "renew"
        <5> SUFFICES ASSUME visit[d].op = "renew" PROVE FALSE
          OBVIOUS
        <5>1. held[j] = d  BY <2>1, <2>4 DEF JobInv, LinksAreHeld, Is
        <5> QED BY <2>1, <4>2, <5>1
      <4> QED BY <2>1, <4>3, <4>4
    <3> QED BY <1>0, <3>1, <3>2
  <2> QED BY <1>7, <2>2, <2>3, <2>4
<1> QED BY <1>7, <1>8, <1>9, <1>10, <1>11 DEF JobInv

LEMMA ExpiryKeepsJobInv ==
  ASSUME JobInv, NEW j \in Jobs, LinkExpires(j)
  PROVE  JobInv'
<1> DEFINE expired == [link[j] EXCEPT !.state = "EXPIRED"]
<1>0. /\ UNCHANGED <<form, sub, inbox, booking, change, call, ops>>
      /\ UNCHANGED <<job, assigned, invoiced, issued, reviews, held, visit>>
      /\ UNCHANGED <<staff, leave, dayOff, sync>>
  BY DEF LinkExpires, bookingVars, staffVars
<1>1. link[j].state = "READY" /\ link' = [link EXCEPT ![j] = expired] /\ link \in [Jobs -> Link]
  BY DEF LinkExpires, JobInv, JobsAreTyped
<1>2. expired \in Link /\ expired.state = "EXPIRED" /\ expired.token = link[j].token  BY <1>1 DEF Link
<1> HIDE DEF expired
<1>3. link' \in [Jobs -> Link] /\ link'[j] = expired /\ \A i \in Jobs \ {j} : link'[i] = link[i]
  BY <1>1, <1>2
<1>4. \A i \in Jobs : /\ link'[i].token = link[i].token
                      /\ (link'[i].state = "NONE") = (link[i].state = "NONE")
                      /\ (link'[i].state = "USED") = (link[i].state = "USED")
                      /\ link[i].state \in {"READY", "EXPIRED"} => link'[i].state \in {"READY", "EXPIRED"}
  BY <1>1, <1>2, <1>3
<1>5. JobsAreTyped' /\ StaffIsTyped'  BY <1>0, <1>3 DEF JobInv, JobsAreTyped, StaffIsTyped
<1>6. JobsAreApart' /\ JobsAreCreated' /\ LinksAreApart' /\ CompletionIsWhole'
  BY <1>0, <1>4 DEF JobInv, JobsAreApart, JobsAreCreated, LinksAreApart, CompletionIsWhole, JobExists,
                    Exists, Is
<1>7. LinksAreHeld'
  <2> SUFFICES ASSUME NEW d \in Crew, visit[d] # NoCall, visit[d].op \in {"renew", "submitReview"}
               PROVE  /\ visit[d].op = "renew" =>
                          /\ held[visit[d].job] = d
                          /\ job[visit[d].job].status # "NONE"
                          /\ JobExists(visit[d].job) =>
                              /\ link'[visit[d].job].state # "NONE"
                              /\ link'[visit[d].job].token = visit[d].token
                      /\ visit[d].op = "submitReview" =>
                          /\ held[visit[d].token] = d
                          /\ job[visit[d].job].status # "NONE"
                          /\ JobExists(visit[d].job) =>
                              /\ link'[visit[d].job].token = visit[d].token
                              /\ link'[visit[d].job].state \in {"READY", "EXPIRED"}
    BY <1>0 DEF LinksAreHeld, Is, JobExists
  <2>1. visit[d].job \in Jobs  BY VisitFields DEF JobInv
  <2> QED BY <1>4, <2>1 DEF JobInv, LinksAreHeld, Is
<1> QED BY <1>5, <1>6, <1>7 DEF JobInv

\* Leave and the staff status job touch nothing of the jobs.
LEMMA StaffStepsKeepJobInv ==
  ASSUME JobInv,
         \/ \E s \in Staff : ChangeLeave(s) \/ ChangeAvailability(s)
         \/ ReadStaff \/ SyncStaff
  PROVE  JobInv'
<1>0. /\ UNCHANGED <<form, sub, inbox, booking, change, call, ops>>
      /\ UNCHANGED <<job, assigned, invoiced, link, issued, reviews, held, visit>>
  BY DEF ChangeLeave, ChangeAvailability, ReadStaff, SyncStaff, bookingVars, reviewVars
<1>1. JobsAreTyped' /\ JobsAreApart' /\ JobsAreCreated' /\ LinksAreApart' /\ LinksAreHeld'
      /\ CompletionIsWhole'
  BY <1>0 DEF JobInv, JobsAreTyped, JobsAreApart, JobsAreCreated, LinksAreApart, LinksAreHeld,
              CompletionIsWhole, JobExists, Exists, Is
<1>2. StaffIsTyped'
  <2>0. StaffIsTyped  BY DEF JobInv
  <2>1. ASSUME NEW s \in Staff, ChangeLeave(s)
        PROVE  StaffIsTyped'
    <3>1. PICK l \in {"NONE", "PENDING", "APPROVED", "DECLINED"} : leave' = [leave EXCEPT ![s] = l]
      BY <2>1 DEF ChangeLeave
    <3> QED BY <2>0, <2>1, <3>1 DEF ChangeLeave, StaffIsTyped
  <2>2. ASSUME NEW s \in Staff, ChangeAvailability(s)
        PROVE  StaffIsTyped'
    BY <2>0, <2>2 DEF ChangeAvailability, StaffIsTyped
  <2>3. \A s \in Staff : Today(s) \in {"ACTIVE", "INACTIVE", "ON_LEAVE"}  BY DEF Today
  <2>4. ASSUME ReadStaff
        PROVE  StaffIsTyped'
    <3>1. sync' = [s \in Changed |-> Today(s)] /\ UNCHANGED <<staff, leave, dayOff>>
      BY <2>4 DEF ReadStaff
    <3>2. Changed \subseteq Staff  BY DEF Changed
    <3> QED BY <2>0, <2>3, <3>1, <3>2 DEF StaffIsTyped
  <2>5. ASSUME SyncStaff
        PROVE  StaffIsTyped'
    BY <2>0, <2>5 DEF SyncStaff, StaffIsTyped
  <2> QED BY <2>1, <2>2, <2>4, <2>5
<1> QED BY <1>1, <1>2 DEF JobInv

\* A deleted booking lets go of its job and its invoice.
LEMMA BookingStepKeepsJobInv ==
  ASSUME BookingInv, BookingAssumption, JobInv, BookingStep
  PROVE  JobInv'
<1>0. /\ BookingNext /\ UNCHANGED <<assigned, link, issued, reviews, held, visit>>
      /\ UNCHANGED <<staff, leave, dayOff, sync>>
  BY DEF BookingStep, reviewVars, staffVars
<1>1. ops' = ops
  BY <1>0 DEF BookingNext, UpdateBookingForm, Visit, Desk, Portal, StartSubmission, Submit, EnsureBookingWebsiteSubmission, Preview,
         Convert, CleanUp, Die, StartConversion, ReadSubmission, ReadWebsiteSubmission,
         UpdateSubmissionStatus, UpdateWebsiteSubmissionStatus, StartBooking, CreateBooking,
         ReadBooking, ReadRequest, UpdateBooking, UpdateBookingStatus, DeleteBooking,
         DecideRequest, ReadForRequest, CreateRequest
<1>2. job \in [Jobs -> JobRow] /\ invoiced \subseteq Bookings  BY DEF JobInv, JobsAreTyped
<1>3. job' = [j \in Jobs |-> IF job[j].booking \in Bookings /\ booking'[job[j].booking].status = "GONE"
                              THEN [job[j] EXCEPT !.booking = NoBooking] ELSE job[j]]
      /\ invoiced' = {b \in invoiced : booking'[b].status # "GONE"}
  BY DEF BookingStep
<1>4. ASSUME NEW j \in Jobs
      PROVE  /\ job'[j] \in JobRow /\ job'[j].status = job[j].status
             /\ job'[j].booking \in {job[j].booking, NoBooking}
             /\ job'[j].booking # NoBooking =>
                 /\ job[j].booking \in Bookings /\ Exists(job[j].booking)
                 /\ booking'[job[j].booking].status \notin {"NONE", "GONE"}
  <2> DEFINE loose == [job[j] EXCEPT !.booking = NoBooking]
  <2>1. job[j] \in JobRow  BY <1>2
  <2>2. loose \in JobRow /\ loose.status = job[j].status /\ loose.booking = NoBooking
    BY <2>1 DEF JobRow
  <2>3. job'[j] = IF job[j].booking \in Bookings /\ booking'[job[j].booking].status = "GONE"
                  THEN loose ELSE job[j]
    BY <1>3
  <2> HIDE DEF loose
  <2>4. job'[j].booking # NoBooking =>
          /\ job[j].booking \in Bookings /\ Exists(job[j].booking)
          /\ booking'[job[j].booking].status # "GONE"
    BY <2>1, <2>2, <2>3 DEF JobInv, JobsAreApart, JobRow
  <2>5. job[j].booking \in Bookings /\ Exists(job[j].booking) => booking'[job[j].booking].status # "NONE"
    BY <1>0, WhatBecomesOfABooking
  <2> QED BY <2>1, <2>2, <2>3, <2>4, <2>5
<1>5. job' \in [Jobs -> JobRow]  BY <1>3, <1>4
<1>6. JobsAreTyped' /\ StaffIsTyped'  BY <1>0, <1>2, <1>3, <1>5 DEF JobInv, JobsAreTyped, StaffIsTyped
<1>7. JobsAreApart'  BY <1>0, <1>4 DEF JobInv, JobsAreApart, JobExists, Exists
<1>8. JobsAreCreated' /\ LinksAreApart'
  BY <1>0, <1>1, <1>4 DEF JobInv, JobsAreCreated, LinksAreApart, JobExists, Is
<1>9. LinksAreHeld'
  <2> SUFFICES ASSUME NEW d \in Crew, visit[d] # NoCall, visit[d].op \in {"renew", "submitReview"}
               PROVE  /\ visit[d].op = "renew" =>
                          /\ held[visit[d].job] = d
                          /\ job'[visit[d].job].status # "NONE"
                          /\ job'[visit[d].job].status \notin {"NONE", "GONE"} =>
                              /\ link[visit[d].job].state # "NONE"
                              /\ link[visit[d].job].token = visit[d].token
                      /\ visit[d].op = "submitReview" =>
                          /\ held[visit[d].token] = d
                          /\ job'[visit[d].job].status # "NONE"
                          /\ job'[visit[d].job].status \notin {"NONE", "GONE"} =>
                              /\ link[visit[d].job].token = visit[d].token
                              /\ link[visit[d].job].state \in {"READY", "EXPIRED"}
    BY <1>0 DEF LinksAreHeld, Is, JobExists
  <2>1. visit[d].job \in Jobs  BY VisitFields DEF JobInv
  <2> QED BY <1>4, <2>1 DEF JobInv, LinksAreHeld, Is, JobExists
<1>10. CompletionIsWhole'
  <2> SUFFICES ASSUME NEW j \in Jobs
               PROVE  /\ job'[j].status = "COMPLETED" =>
                          /\ link[j].state # "NONE"
                          /\ job'[j].booking # NoBooking =>
                              /\ job'[j].booking \in invoiced'
                              /\ ops \cap {"status", "decide"} = {} =>
                                  booking'[job'[j].booking].status = "COMPLETED"
                      /\ reviews[j] = IF link[j].state = "USED" THEN 1 ELSE 0
    BY <1>0, <1>1 DEF CompletionIsWhole
  <2>1. job'[j].status = job[j].status /\ reviews[j] = IF link[j].state = "USED" THEN 1 ELSE 0
    BY <1>4 DEF JobInv, CompletionIsWhole
  <2>2. ASSUME job[j].status = "COMPLETED", job'[j].booking # NoBooking
        PROVE  /\ job'[j].booking \in invoiced'
               /\ ops \cap {"status", "decide"} = {} =>
                   booking'[job'[j].booking].status = "COMPLETED"
    <3>1. /\ job'[j].booking = job[j].booking /\ job[j].booking \in Bookings
          /\ Exists(job[j].booking) /\ booking'[job[j].booking].status \notin {"NONE", "GONE"}
      BY <1>4, <2>2
    <3>2. /\ job[j].booking \in invoiced
          /\ ops \cap {"status", "decide"} = {} => booking[job[j].booking].status = "COMPLETED"
      BY <2>2, <3>1 DEF JobInv, CompletionIsWhole
    <3>3. ops \cap {"status", "decide"} = {} =>
            booking'[job[j].booking].status = booking[job[j].booking].status
      BY <1>0, <3>1, WhatBecomesOfABooking
    <3> QED BY <1>3, <3>1, <3>2, <3>3
  <2> QED BY <2>1, <2>2 DEF JobInv, CompletionIsWhole
<1> QED BY <1>6, <1>7, <1>8, <1>9, <1>10 DEF JobInv

LEMMA JobInvHoldsAtFirst ==
  ASSUME BookingAssumption, FieldAssumption, FieldInit
  PROVE  JobInv
<1> DEFINE noLink == [state |-> "NONE", token |-> NoToken]
<1>1. /\ job = [j \in Jobs |-> NoJob] /\ assigned = [j \in Jobs |-> Unassigned]
      /\ invoiced = {} /\ link = [j \in Jobs |-> noLink] /\ issued = {}
      /\ reviews = [j \in Jobs |-> 0] /\ held = [l \in Jobs \cup Tokens |-> Nobody]
      /\ staff = [s \in Staff |-> "ACTIVE"] /\ dayOff = {} /\ leave = [s \in Staff |-> "NONE"]
      /\ visit = [c \in Crew |-> NoCall] /\ sync = NoCall
  BY DEF FieldInit
<1>2. noLink \in Link /\ noLink.state = "NONE"  BY DEF Link
<1>3. NoJob.status = "NONE" /\ NoJob.booking = NoBooking
      /\ (Times # {} => NoJob \in JobRow)
  BY DEF NoJob, JobRow
<1>4. Unassigned \in [Staff -> {"NONE", "ASSIGNED", "IN", "OUT"}]  BY DEF Unassigned
<1> HIDE DEF noLink
<1>5. JobsAreTyped  BY <1>1, <1>2, <1>3, <1>4, FieldAssumption DEF JobsAreTyped, FieldAssumption
<1>6. StaffIsTyped  BY <1>1 DEF StaffIsTyped
<1>7. JobsAreApart /\ JobsAreCreated /\ LinksAreApart /\ LinksAreHeld /\ CompletionIsWhole
  BY <1>1, <1>2, <1>3 DEF JobsAreApart, JobsAreCreated, LinksAreApart, LinksAreHeld,
                          CompletionIsWhole, JobExists, Is
<1> QED BY <1>5, <1>6, <1>7 DEF JobInv

LEMMA FieldStepsKeepJobInv ==
  ASSUME BookingInv, BookingAssumption, FieldAssumption, JobInv, FieldNext
  PROVE  JobInv'
<1>1. ASSUME NEW c \in Crew, Errand(c)
      PROVE  JobInv'
  BY <1>1, RequestsAreRead, DispatchingReads, CreateJobKeepsJobInv, TeamsAreWritten,
     UpdateJobStatusKeepsJobInv, DeleteJobKeepsJobInv, LockJobKeepsJobInv, LinkIsWritten DEF Errand
<1> QED BY <1>1, BookingStepKeepsJobInv, ExpiryKeepsJobInv, StaffStepsKeepJobInv DEF FieldNext

------------------------
(* Jobs: who is sent *)

Busy(j) == job[j].status \in {"SCHEDULED", "IN_PROGRESS"}

\* Teams only get smaller, and nothing but a new job without a team gets busy.
LEMMA FewerAreSent ==
  ASSUME DispatchInv, OneDispatcher, ops' = ops,
         \A j \in Jobs : job'[j].status \in {"SCHEDULED", "IN_PROGRESS"} =>
            \/ \A s \in Staff : assigned'[j][s] = "NONE"
            \/ /\ Busy(j) /\ job'[j].time = job[j].time
               /\ \A s \in Staff : assigned[j][s] = "NONE" => assigned'[j][s] = "NONE"
  PROVE  NoDoubleDispatch'
<1> SUFFICES ASSUME NEW i \in Jobs, NEW j \in Jobs, i # j,
                    job'[i].status \in {"SCHEDULED", "IN_PROGRESS"},
                    job'[j].status \in {"SCHEDULED", "IN_PROGRESS"},
                    job'[i].time = job'[j].time,
                    NEW s \in Staff, assigned'[i][s] # "NONE", assigned'[j][s] # "NONE"
             PROVE  FALSE
  BY DEF NoDoubleDispatch, Team
<1>1. Busy(i) /\ Busy(j) /\ job[i].time = job[j].time /\ s \in Team(i) \cap Team(j)  BY DEF Team
<1>2. ops \cap {"race", "move", "assign"} = {} /\ NoDoubleDispatch  BY DEF DispatchInv, OneDispatcher
<1>3. {job[i].status, job[j].status} \subseteq {"SCHEDULED", "IN_PROGRESS"}  BY <1>1 DEF Busy
<1>4. job[i].time # job[j].time \/ Team(i) \cap Team(j) = {}  BY <1>2, <1>3 DEF NoDoubleDispatch
<1> QED BY <1>1, <1>4

\* A request that is on its own reads, or writes and ends.
LEMMA OneIsAtIt ==
  ASSUME DispatchInv, OneDispatcher, JobInv, ops' = ops, NoDoubleDispatch',
         NEW c \in Crew, NEW q \in JobCall \cup {NoCall}, Proceed(c, q),
         \A d \in Crew \ {c} : visit[d] = NoCall,
         q # NoCall =>
            /\ q.op = "job" => q.team = {}
            /\ q.op # "move"
            /\ q.op = "jobStatus" => q.new \in JobTransitions(job'[q.job].status)
            /\ q.op = "checkIn" => job'[q.job].status = "SCHEDULED"
            /\ q.op = "assign" =>
                \A s \in q.team, i \in Jobs \ {q.job} :
                    /\ job'[i].status \in {"SCHEDULED", "IN_PROGRESS"}
                    /\ job'[i].time = job'[q.job].time
                    => assigned'[i][s] = "NONE"
  PROVE  DispatchInv'
<1>1. visit'[c] = q /\ \A d \in Crew \ {c} : visit'[d] = NoCall  BY VisitsStay DEF JobInv
<1>2. \A d, e \in Crew : visit'[d] # NoCall /\ visit'[e] # NoCall => d = e  BY <1>1
<1>3. \A d \in Crew : visit'[d] # NoCall => d = c /\ visit'[d] = q  BY <1>1
<1>4. \A d \in Crew :
        /\ visit'[d] # NoCall /\ visit'[d].op = "job" => visit'[d].team = {}
        /\ ~(visit'[d] # NoCall /\ visit'[d].op = "move")
        /\ visit'[d] # NoCall /\ visit'[d].op = "jobStatus" =>
            visit'[d].new \in JobTransitions(job'[visit'[d].job].status)
        /\ visit'[d] # NoCall /\ visit'[d].op = "checkIn" => job'[visit'[d].job].status = "SCHEDULED"
  BY <1>3
<1>5. \A d \in Crew : visit'[d] # NoCall /\ visit'[d].op = "assign" =>
        \A s \in visit'[d].team :
            \A i \in {i \in Jobs \ {visit'[d].job} :
                        /\ job'[i].status \in {"SCHEDULED", "IN_PROGRESS"}
                        /\ job'[i].time = job'[visit'[d].job].time} :
                assigned'[i][s] = "NONE"
  BY <1>3
<1> QED BY <1>2, <1>4, <1>5 DEF DispatchInv, Is, Overlapping

\* Whoever begins is alone, and so is whoever goes on.
LEMMA OthersAreIdle ==
  ASSUME DispatchInv, OneDispatcher, NEW c \in Crew,
         visit[c] # NoCall \/ \E op \in ops : Begins(c, op)
  PROVE  \A d \in Crew \ {c} : visit[d] = NoCall
BY DEF DispatchInv, OneDispatcher, Begins

LEMMA ReadingKeepsDispatchInv ==
  ASSUME DispatchInv, OneDispatcher, JobInv, ops' = ops, UNCHANGED <<job, assigned>>,
         NEW c \in Crew, NEW q \in JobCall \cup {NoCall}, Proceed(c, q),
         \A d \in Crew \ {c} : visit[d] = NoCall,
         q # NoCall =>
            /\ q.op = "job" => q.team = {}
            /\ q.op # "move"
            /\ q.op = "jobStatus" => q.new \in JobTransitions(job[q.job].status)
            /\ q.op = "checkIn" => job[q.job].status = "SCHEDULED"
            /\ q.op = "assign" => q.job \in Jobs /\ q.team \subseteq Available(q.job)
  PROVE  DispatchInv'
<1>1. NoDoubleDispatch'  BY FewerAreSent DEF Busy
<1>2. q # NoCall /\ q.op = "assign" =>
        \A s \in q.team, i \in Jobs \ {q.job} :
            /\ job[i].status \in {"SCHEDULED", "IN_PROGRESS"}
            /\ job[i].time = job[q.job].time
            => assigned[i][s] = "NONE"
  BY DEF Available, Overlapping
<1> QED BY <1>1, <1>2, OneIsAtIt

LEMMA RequestsReadForDispatch ==
  ASSUME DispatchInv, OneDispatcher, JobInv, NEW c \in Crew,
         \/ ReadForJob(c) \/ RefusedToComplete(c)
         \/ \E t \in Tokens : OpenReview(c, t)
         \/ \E j \in Jobs :
              \/ ReadForUpdate(c, j) \/ ReadForStatus(c, j) \/ ReadForDelete(c, j)
              \/ ReadForAssignment(c, j) \/ AskForLink(c, j)
              \/ \E s \in Staff : ReadForCheckIn(c, j, s) \/ ReadForCheckOut(c, j, s)
  PROVE  DispatchInv'
<1>0. ops' = ops /\ UNCHANGED <<job, assigned>>
  BY DEF ReadForJob, RefusedToComplete, OpenReview, ReadForUpdate, ReadForStatus, ReadForDelete,
         ReadForAssignment, AskForLink, ReadForCheckIn, ReadForCheckOut, bookingVars
<1> DEFINE Read == \E q \in JobCall \cup {NoCall} :
             /\ Proceed(c, q)
             /\ \A d \in Crew \ {c} : visit[d] = NoCall
             /\ q # NoCall =>
                  /\ q.op = "job" => q.team = {}
                  /\ q.op # "move"
                  /\ q.op = "jobStatus" => q.new \in JobTransitions(job[q.job].status)
                  /\ q.op = "checkIn" => job[q.job].status = "SCHEDULED"
                  /\ q.op # "assign"
<1>1. ASSUME ReadForJob(c)
      PROVE  Read
  <2>1. Teams = {{}} /\ Begins(c, "job") /\ "job" \in ops
    BY <1>1 DEF Teams, OneDispatcher, ReadForJob, Begins
  <2>2. PICK b \in Bookings \cup {NoBooking}, t \in Times :
          Proceed(c, [op |-> "job", booking |-> b, time |-> t, team |-> {}])
    BY <1>1, <2>1 DEF ReadForJob
  <2> DEFINE q == [op |-> "job", booking |-> b, time |-> t, team |-> {}]
  <2>3. q \in JobCall /\ q.op = "job" /\ q.team = {}  BY DEF JobCall
  <2>4. \A d \in Crew \ {c} : visit[d] = NoCall  BY <2>1, OthersAreIdle
  <2> HIDE DEF q
  <2> QED BY <2>2, <2>3, <2>4 DEF q
<1>2. ASSUME RefusedToComplete(c)
      PROVE  Read
  <2>1. visit[c] # NoCall /\ Proceed(c, NoCall)  BY <1>2 DEF RefusedToComplete, Is, Finish
  <2>2. \A d \in Crew \ {c} : visit[d] = NoCall  BY <2>1, OthersAreIdle
  <2> QED BY <2>1, <2>2
<1>3. ASSUME NEW t \in Tokens, OpenReview(c, t)
      PROVE  Read
  <2> DEFINE q == [op |-> "lockToken", token |-> t]
  <2>1. q \in JobCall /\ q.op = "lockToken"  BY DEF JobCall
  <2>2. Begins(c, "reviews") /\ "reviews" \in ops /\ Proceed(c, q)  BY <1>3 DEF OpenReview, Begins
  <2>3. \A d \in Crew \ {c} : visit[d] = NoCall  BY <2>2, OthersAreIdle
  <2> HIDE DEF q
  <2> QED BY <2>1, <2>2, <2>3
<1>4. ASSUME NEW j \in Jobs, ReadForUpdate(c, j) \/ ReadForAssignment(c, j)
      PROVE  Read
  BY <1>4 DEF ReadForUpdate, ReadForAssignment, Begins, OneDispatcher
<1>5. ASSUME NEW j \in Jobs, ReadForStatus(c, j)
      PROVE  Read
  <2>1. PICK s \in JobTransitions(job[j].status) :
          /\ Begins(c, "jobStatus") \/ Is(c, "complete")
          /\ Proceed(c, [op |-> "jobStatus", job |-> j, new |-> s])
    BY <1>5 DEF ReadForStatus
  <2> DEFINE q == [op |-> "jobStatus", job |-> j, new |-> s]
  <2>2. s \in JobStatus  BY DEF JobTransitions, JobStatus
  <2>3. q \in JobCall /\ q.op = "jobStatus" /\ q.new = s /\ q.job = j  BY <2>2 DEF JobCall
  <2>4. \A d \in Crew \ {c} : visit[d] = NoCall
    <3>1. visit[c] # NoCall \/ (Begins(c, "jobStatus") /\ "jobStatus" \in ops)  BY <2>1 DEF Is, Begins
    <3> QED BY <3>1, OthersAreIdle
  <2> HIDE DEF q
  <2> QED BY <2>1, <2>3, <2>4 DEF q
<1>6. ASSUME NEW j \in Jobs, ReadForDelete(c, j) \/ AskForLink(c, j)
      PROVE  Read
  <2> DEFINE q == [op |-> "deleteJob", job |-> j]
             l == [op |-> "lockJob", job |-> j]
  <2>1. q \in JobCall /\ q.op = "deleteJob" /\ l \in JobCall /\ l.op = "lockJob"  BY DEF JobCall
  <2>2. /\ Proceed(c, q) \/ Proceed(c, l)
        /\ \/ Begins(c, "deleteJob") /\ "deleteJob" \in ops
           \/ Begins(c, "reviews") /\ "reviews" \in ops
    BY <1>6 DEF ReadForDelete, AskForLink, Begins
  <2>3. \A d \in Crew \ {c} : visit[d] = NoCall  BY <2>2, OthersAreIdle
  <2> HIDE DEF q, l
  <2> QED BY <2>1, <2>2, <2>3
<1>7. ASSUME NEW j \in Jobs, NEW s \in Staff, ReadForCheckIn(c, j, s) \/ ReadForCheckOut(c, j, s)
      PROVE  Read
  <2> DEFINE q == [op |-> "checkIn", job |-> j, staff |-> s]
             o == [op |-> "checkOut", job |-> j, staff |-> s]
  <2>1. /\ q \in JobCall /\ q.op = "checkIn" /\ q.job = j
        /\ o \in JobCall /\ o.op = "checkOut"
    BY DEF JobCall
  <2>2. /\ (Proceed(c, q) /\ job[j].status = "SCHEDULED") \/ Proceed(c, o)
        /\ Begins(c, "check") /\ "check" \in ops
    BY <1>7 DEF ReadForCheckIn, ReadForCheckOut, Begins
  <2>3. \A d \in Crew \ {c} : visit[d] = NoCall  BY <2>2, OthersAreIdle
  <2> HIDE DEF q, o
  <2> QED BY <2>1, <2>2, <2>3
<1>8. Read  BY <1>1, <1>2, <1>3, <1>4, <1>5, <1>6, <1>7
<1>9. PICK q \in JobCall \cup {NoCall} :
        /\ Proceed(c, q)
        /\ \A d \in Crew \ {c} : visit[d] = NoCall
        /\ q # NoCall =>
             /\ q.op = "job" => q.team = {}
             /\ q.op # "move"
             /\ q.op = "jobStatus" => q.new \in JobTransitions(job[q.job].status)
             /\ q.op = "checkIn" => job[q.job].status = "SCHEDULED"
             /\ q.op # "assign"
  BY <1>8
<1> HIDE DEF Read
<1> QED BY <1>0, <1>9, ReadingKeepsDispatchInv

LEMMA DispatchingKeepsDispatchInv ==
  ASSUME DispatchInv, OneDispatcher, JobInv, NEW c \in Crew,
         (\E j \in Jobs : AutoDispatch(c, j)) \/ BulkAutoDispatch(c) \/ BulkGoesOn(c)
  PROVE  DispatchInv'
<1>1. PICK j \in Jobs, todo \in SUBSET Jobs : Dispatch(c, j, todo)
  <2>1. ASSUME BulkGoesOn(c)
        PROVE  \E j \in Jobs, todo \in SUBSET Jobs : Dispatch(c, j, todo)
    <3>1. visit[c].todo \subseteq Jobs  BY <2>1, VisitFields DEF BulkGoesOn, Is, JobInv
    <3>2. PICK j \in visit[c].todo : Dispatch(c, j, visit[c].todo \ {j})  BY <2>1 DEF BulkGoesOn
    <3>3. j \in Jobs /\ visit[c].todo \ {j} \in SUBSET Jobs  BY <3>1
    <3> QED BY <3>2, <3>3
  <2>2. ASSUME NEW j \in Jobs, AutoDispatch(c, j)
        PROVE  Dispatch(c, j, {})
    BY <2>2 DEF AutoDispatch
  <2>3. ASSUME BulkAutoDispatch(c)
        PROVE  \E j \in Jobs, todo \in SUBSET Jobs : Dispatch(c, j, todo)
    <3> DEFINE open == {j \in Jobs : job[j].status = "SCHEDULED" /\ assigned[j] = Unassigned}
    <3>1. PICK j \in open : Dispatch(c, j, open \ {j})  BY <2>3 DEF BulkAutoDispatch
    <3>2. open \ {j} \in SUBSET Jobs /\ j \in Jobs  OBVIOUS
    <3> QED BY <3>1, <3>2
  <2> QED BY <2>1, <2>2, <2>3
<1>2. PICK q \in JobCall \cup {NoCall} :
        /\ Proceed(c, q)
        /\ q # NoCall => q.op \in {"assign", "bulk"} /\ q.job = j /\ q.team \subseteq Available(j)
  BY <1>1, DispatchFields
<1>3. ops' = ops /\ UNCHANGED <<job, assigned>>
  BY DEF AutoDispatch, BulkAutoDispatch, BulkGoesOn, bookingVars
<1>4. \A d \in Crew \ {c} : visit[d] = NoCall
  <2>1. visit[c] # NoCall \/ (Begins(c, "dispatch") /\ "dispatch" \in ops)
    BY DEF AutoDispatch, BulkAutoDispatch, BulkGoesOn, Is, Begins
  <2> QED BY <2>1, OthersAreIdle
<1> QED BY <1>2, <1>3, <1>4, ReadingKeepsDispatchInv

LEMMA SendingKeepsDispatchInv ==
  ASSUME DispatchInv, OneDispatcher, JobInv, NEW c \in Crew, Assign(c)
  PROVE  DispatchInv'
<1> DEFINE j == visit[c].job
           next == [visit[c] EXCEPT !.op = "bulk"]
<1>1. /\ visit[c] # NoCall /\ visit[c].op = "assign" /\ visit[c] \in JobCall /\ j \in Jobs
      /\ visit[c].team \subseteq Staff /\ ops' = ops /\ UNCHANGED job
  BY VisitFields DEF Assign, Is, JobInv, bookingVars
<1>2. next \in JobCall /\ next.op = "bulk"
  <2>1. visit[c] \in [op : {"assign", "bulk"}, job : Jobs, team : SUBSET Staff, todo : SUBSET Jobs]
    BY <1>1 DEF JobCall
  <2> QED BY <2>1 DEF JobCall
<1>3. Proceed(c, NoCall) \/ Proceed(c, next)  BY DEF Assign
<1>4. \A d \in Crew \ {c} : visit[d] = NoCall  BY <1>1, OthersAreIdle
<1>5. \A s \in visit[c].team, i \in Jobs \ {j} :
        /\ job[i].status \in {"SCHEDULED", "IN_PROGRESS"} /\ job[i].time = job[j].time
        => assigned[i][s] = "NONE"
  BY <1>1 DEF DispatchInv, Is, Overlapping
<1>6. /\ \A i \in Jobs \ {j} : assigned'[i] = assigned[i]
      /\ assigned'[j] = assigned[j] \/ assigned'[j] = Only(visit[c].team)
  BY <1>1 DEF Assign, JobInv, JobsAreTyped
<1>7. \A s \in Staff : assigned'[j][s] # "NONE" => assigned[j][s] # "NONE" \/ s \in visit[c].team
  BY <1>6 DEF Only
<1> HIDE DEF j, next
<1>8. NoDoubleDispatch'
  <2> SUFFICES ASSUME NEW i \in Jobs, NEW k \in Jobs, i # k, Busy(i), Busy(k),
                      job[i].time = job[k].time,
                      NEW s \in Staff, assigned'[i][s] # "NONE", assigned'[k][s] # "NONE"
               PROVE  FALSE
    BY <1>1 DEF NoDoubleDispatch, Team, Busy
  <2>1. \A m, n \in Jobs : m # n /\ Busy(m) /\ Busy(n) /\ job[m].time = job[n].time =>
          assigned[m][s] = "NONE" \/ assigned[n][s] = "NONE"
    <3> SUFFICES ASSUME NEW m \in Jobs, NEW n \in Jobs, m # n, Busy(m), Busy(n),
                        job[m].time = job[n].time,
                        assigned[m][s] # "NONE", assigned[n][s] # "NONE"
                 PROVE  FALSE
      OBVIOUS
    <3>1. ops \cap {"race", "move", "assign"} = {} /\ NoDoubleDispatch
      BY DEF DispatchInv, OneDispatcher
    <3>2. {job[m].status, job[n].status} \subseteq {"SCHEDULED", "IN_PROGRESS"}  BY DEF Busy
    <3>3. Team(m) \cap Team(n) = {}  BY <3>1, <3>2 DEF NoDoubleDispatch
    <3> QED BY <3>3 DEF Team
  <2>2. CASE s \in visit[c].team /\ (i = j \/ k = j)  BY <1>5, <1>6, <2>2 DEF Busy
  <2>3. CASE ~(s \in visit[c].team /\ (i = j \/ k = j))  BY <1>6, <1>7, <2>1, <2>3
  <2> QED BY <2>2, <2>3
<1>9. CASE Proceed(c, NoCall)  BY <1>1, <1>4, <1>8, <1>9, OneIsAtIt
<1>10. CASE Proceed(c, next)  BY <1>1, <1>2, <1>4, <1>8, <1>10, OneIsAtIt
<1> QED BY <1>3, <1>9, <1>10

\* A request writes; no job gets a team by that.
LEMMA WritingKeepsDispatchInv ==
  ASSUME DispatchInv, OneDispatcher, JobInv, ops' = ops, NEW c \in Crew, visit[c] # NoCall,
         NEW q \in JobCall \cup {NoCall}, Proceed(c, q),
         q # NoCall => q.op \in {"complete", "renew", "submitReview"},
         \A j \in Jobs : job'[j].status \in {"SCHEDULED", "IN_PROGRESS"} =>
            \/ \A s \in Staff : assigned'[j][s] = "NONE"
            \/ /\ Busy(j) /\ job'[j].time = job[j].time
               /\ \A s \in Staff : assigned[j][s] = "NONE" => assigned'[j][s] = "NONE"
  PROVE  DispatchInv'
<1>1. NoDoubleDispatch'  BY FewerAreSent
<1>2. \A d \in Crew \ {c} : visit[d] = NoCall  BY OthersAreIdle
<1> QED BY <1>1, <1>2, OneIsAtIt

LEMMA JobWritesKeepDispatchInv ==
  ASSUME DispatchInv, OneDispatcher, JobInv, BookingAssumption, NEW c \in Crew,
         \/ CreateJob(c) \/ UpdateJob(c) \/ UpdateJobStatus(c) \/ DeleteJob(c)
         \/ CheckIn(c) \/ CheckOut(c)
  PROVE  DispatchInv'
<1>0. /\ job \in [Jobs -> JobRow] /\ assigned \in [Jobs -> [Staff -> {"NONE", "ASSIGNED", "IN", "OUT"}]]
      /\ ops' = ops
  BY DEF JobInv, JobsAreTyped, CreateJob, UpdateJob, UpdateJobStatus, DeleteJob, CheckIn, CheckOut,
         bookingVars
<1>1. ASSUME CreateJob(c)
      PROVE  DispatchInv'
  <2>1. visit[c] # NoCall /\ visit[c].team = {} /\ Proceed(c, NoCall)
    BY <1>1 DEF CreateJob, Is, Finish, DispatchInv
  <2>2. CASE UNCHANGED <<job, assigned>>  BY <1>0, <2>1, <2>2, WritingKeepsDispatchInv DEF Busy
  <2>3. CASE ~UNCHANGED <<job, assigned>>
    <3>1. PICK j \in Jobs :
            /\ \E r : job' = [job EXCEPT ![j] = r]
            /\ assigned' = [assigned EXCEPT ![j] = Only({})]
      <4>1. PICK j \in Jobs :
              /\ job' = [job EXCEPT ![j] = [status |-> "SCHEDULED", booking |-> visit[c].booking,
                                            time |-> visit[c].time]]
              /\ assigned' = [assigned EXCEPT ![j] = Only(visit[c].team)]
        BY <1>1, <2>3 DEF CreateJob
      <4> QED BY <2>1, <4>1
    <3>2. \A s \in Staff : assigned'[j][s] = "NONE"  BY <1>0, <3>1 DEF Only
    <3>3. \A i \in Jobs \ {j} : job'[i] = job[i] /\ assigned'[i] = assigned[i]  BY <1>0, <3>1
    <3> QED BY <1>0, <2>1, <3>2, <3>3, WritingKeepsDispatchInv DEF Busy
  <2> QED BY <2>2, <2>3
<1>2. ASSUME UpdateJob(c)
      PROVE  FALSE
  BY <1>2 DEF UpdateJob, DispatchInv
<1>3. ASSUME UpdateJobStatus(c)
      PROVE  DispatchInv'
  <2> DEFINE j == visit[c].job
             row == [job[j] EXCEPT !.status = visit[c].new]
  <2>1. /\ visit[c] # NoCall /\ j \in Jobs /\ visit[c].new \in JobStatus /\ Proceed(c, NoCall)
        /\ visit[c].new \in JobTransitions(job[j].status) /\ UNCHANGED assigned
    BY <1>3, VisitFields DEF UpdateJobStatus, Is, Finish, JobInv, DispatchInv
  <2>2. job[j].status \in {"SCHEDULED", "IN_PROGRESS"}  BY <2>1 DEF JobTransitions
  <2>3. row.time = job[j].time  BY <1>0, <2>1 DEF JobRow
  <2>4. job' = job \/ job' = [job EXCEPT ![j] = row]  BY <1>3 DEF UpdateJobStatus
  <2> HIDE DEF row, j
  <2>5. \A i \in Jobs : job'[i].status \in {"SCHEDULED", "IN_PROGRESS"} =>
          Busy(i) /\ job'[i].time = job[i].time
    BY <1>0, <2>1, <2>2, <2>3, <2>4 DEF Busy
  <2> QED BY <1>0, <2>1, <2>5, WritingKeepsDispatchInv
<1>4. ASSUME DeleteJob(c)
      PROVE  DispatchInv'
  <2> DEFINE j == visit[c].job
  <2>1. /\ visit[c] # NoCall /\ j \in Jobs /\ Proceed(c, NoCall)
        /\ job' = [job EXCEPT ![j] = GoneJob] /\ assigned' = [assigned EXCEPT ![j] = Unassigned]
    BY <1>4, VisitFields DEF DeleteJob, Is, Finish, JobInv
  <2> HIDE DEF j
  <2>2. \A s \in Staff : assigned'[j][s] = "NONE"  BY <1>0, <2>1 DEF Unassigned
  <2>3. \A i \in Jobs \ {j} : job'[i] = job[i] /\ assigned'[i] = assigned[i]  BY <1>0, <2>1
  <2> QED BY <1>0, <2>1, <2>2, <2>3, WritingKeepsDispatchInv DEF Busy
<1>5. ASSUME CheckIn(c)
      PROVE  DispatchInv'
  <2> DEFINE j == visit[c].job
             row == [job[j] EXCEPT !.status = "IN_PROGRESS"]
             team == [assigned[j] EXCEPT ![visit[c].staff] = "IN"]
  <2>1. /\ visit[c] # NoCall /\ j \in Jobs /\ visit[c].staff \in Staff /\ Proceed(c, NoCall)
        /\ job[j].status = "SCHEDULED"
    BY <1>5, VisitFields DEF CheckIn, Is, Finish, JobInv, DispatchInv
  <2>2. \/ UNCHANGED <<job, assigned>>
        \/ /\ assigned[j][visit[c].staff] # "NONE"
           /\ assigned' = [assigned EXCEPT ![j] = team] /\ job' = [job EXCEPT ![j] = row]
    BY <1>0, <1>5, <2>1 DEF CheckIn
  <2>3. /\ row.time = job[j].time
        /\ assigned[j][visit[c].staff] # "NONE" =>
            \A s \in Staff : assigned[j][s] = "NONE" => team[s] = "NONE"
    BY <1>0, <2>1 DEF JobRow
  <2> HIDE DEF row, team, j
  <2>4. \A i \in Jobs : job'[i].status \in {"SCHEDULED", "IN_PROGRESS"} =>
          /\ Busy(i) /\ job'[i].time = job[i].time
          /\ \A s \in Staff : assigned[i][s] = "NONE" => assigned'[i][s] = "NONE"
    BY <1>0, <2>1, <2>2, <2>3 DEF Busy
  <2> QED BY <1>0, <2>1, <2>4, WritingKeepsDispatchInv
<1>6. ASSUME CheckOut(c)
      PROVE  DispatchInv'
  <2> DEFINE j == visit[c].job
             q == [op |-> "complete", job |-> j]
             team == [assigned[j] EXCEPT ![visit[c].staff] = "OUT"]
  <2>1. visit[c] # NoCall /\ j \in Jobs /\ visit[c].staff \in Staff /\ UNCHANGED job
    BY <1>6, VisitFields DEF CheckOut, Is, JobInv
  <2>2. \/ Proceed(c, NoCall) /\ UNCHANGED assigned
        \/ /\ assigned[j][visit[c].staff] # "NONE"
           /\ assigned' = [assigned EXCEPT ![j] = team] /\ Proceed(c, q)
    BY <1>0, <1>6, <2>1 DEF CheckOut, Finish
  <2>3. assigned[j][visit[c].staff] # "NONE" =>
          \A s \in Staff : assigned[j][s] = "NONE" => team[s] = "NONE"
    BY <1>0, <2>1
  <2>4. q \in JobCall /\ q.op = "complete"  BY <2>1 DEF JobCall
  <2> HIDE DEF team, q, j
  <2>5. \A i \in Jobs : \A s \in Staff : assigned[i][s] = "NONE" => assigned'[i][s] = "NONE"
    BY <1>0, <2>1, <2>2, <2>3
  <2> QED BY <1>0, <2>1, <2>2, <2>4, <2>5, WritingKeepsDispatchInv DEF Busy
<1> QED BY <1>1, <1>2, <1>3, <1>4, <1>5, <1>6

LEMMA LinksKeepDispatchInv ==
  ASSUME DispatchInv, OneDispatcher, JobInv, NEW c \in Crew,
         LockJob(c) \/ RenewLink(c) \/ LockToken(c) \/ SubmitReview(c)
  PROVE  DispatchInv'
<1>1. visit[c] # NoCall /\ ops' = ops /\ UNCHANGED <<job, assigned>>
  BY DEF LockJob, RenewLink, LockToken, SubmitReview, Is, bookingVars
<1>2. ASSUME LockJob(c)
      PROVE  DispatchInv'
  <2> DEFINE j == visit[c].job
             q == [op |-> "renew", job |-> j, token |-> link[j].token]
  <2>1. j \in Jobs  BY <1>2, VisitFields DEF LockJob, Is, JobInv
  <2>2. Proceed(c, NoCall) \/ (link[j].state # "NONE" /\ Proceed(c, q))  BY <1>2 DEF LockJob, Finish
  <2>3. link[j].state # "NONE" => q \in JobCall /\ q.op = "renew"
    <3>1. link[j].state # "NONE" => link[j].token \in Tokens
      BY <2>1 DEF JobInv, LinksAreApart, JobsAreTyped
    <3> QED BY <2>1, <3>1 DEF JobCall
  <2> HIDE DEF q, j
  <2> QED BY <1>1, <2>2, <2>3, WritingKeepsDispatchInv DEF Busy
<1>3. ASSUME LockToken(c)
      PROVE  DispatchInv'
  <2>1. visit[c].token \in Tokens  BY <1>3, VisitFields DEF LockToken, Is, JobInv
  <2>2. CASE Proceed(c, NoCall)  BY <1>1, <2>2, WritingKeepsDispatchInv DEF Busy
  <2>3. CASE \E j \in Jobs : Proceed(c, [op |-> "submitReview", job |-> j, token |-> visit[c].token])
    <3>1. PICK j \in Jobs : Proceed(c, [op |-> "submitReview", job |-> j, token |-> visit[c].token])
      BY <2>3
    <3> DEFINE q == [op |-> "submitReview", job |-> j, token |-> visit[c].token]
    <3>2. q \in JobCall /\ q.op = "submitReview"  BY <2>1 DEF JobCall
    <3>3. Proceed(c, q)  BY <3>1
    <3> HIDE DEF q
    <3> QED BY <1>1, <3>2, <3>3, WritingKeepsDispatchInv DEF Busy
  <2> QED BY <1>3, <2>2, <2>3 DEF LockToken, Finish
<1>4. ASSUME RenewLink(c) \/ SubmitReview(c)
      PROVE  DispatchInv'
  <2>1. Proceed(c, NoCall)  BY <1>4 DEF RenewLink, SubmitReview, Finish
  <2> QED BY <1>1, <2>1, WritingKeepsDispatchInv DEF Busy
<1> QED BY <1>2, <1>3, <1>4

\* Nobody is sent by what is not a request about a job.
LEMMA RestKeepsDispatchInv ==
  ASSUME DispatchInv, ops' = ops, UNCHANGED <<assigned, visit>>,
         \A j \in Jobs : job'[j].status = job[j].status /\ job'[j].time = job[j].time,
         JobsAreTyped
  PROVE  DispatchInv'
<1> SUFFICES ASSUME OneDispatcher PROVE DispatchInv'
  BY DEF DispatchInv, OneDispatcher
<1>1. NoDoubleDispatch'  BY FewerAreSent DEF Busy
<1>2. \A c \in Crew : visit[c] # NoCall /\ visit[c].op \in {"jobStatus", "checkIn", "assign"} =>
        visit[c].job \in Jobs
  BY VisitFields
<1>3. \A d, e \in Crew : visit'[d] # NoCall /\ visit'[e] # NoCall => d = e  BY DEF DispatchInv
<1>4. \A d \in Crew :
        /\ visit'[d] # NoCall /\ visit'[d].op = "job" => visit'[d].team = {}
        /\ ~(visit'[d] # NoCall /\ visit'[d].op = "move")
        /\ visit'[d] # NoCall /\ visit'[d].op = "jobStatus" =>
            visit'[d].new \in JobTransitions(job'[visit'[d].job].status)
        /\ visit'[d] # NoCall /\ visit'[d].op = "checkIn" => job'[visit'[d].job].status = "SCHEDULED"
  BY <1>2 DEF DispatchInv, Is
<1>5. \A d \in Crew : visit'[d] # NoCall /\ visit'[d].op = "assign" =>
        \A s \in visit'[d].team :
            \A i \in {i \in Jobs \ {visit'[d].job} :
                        /\ job'[i].status \in {"SCHEDULED", "IN_PROGRESS"}
                        /\ job'[i].time = job'[visit'[d].job].time} :
                assigned'[i][s] = "NONE"
  BY <1>2 DEF DispatchInv, Is, Overlapping
<1> QED BY <1>1, <1>3, <1>4, <1>5 DEF DispatchInv, Is, Overlapping

LEMMA FieldStepsKeepDispatchInv ==
  ASSUME BookingInv, BookingAssumption, FieldAssumption, JobInv, DispatchInv, FieldNext
  PROVE  DispatchInv'
<1>0. JobsAreTyped /\ job \in [Jobs -> JobRow]  BY DEF JobInv, JobsAreTyped
<1>1. ASSUME NEW c \in Crew, Errand(c)
      PROVE  DispatchInv'
  <2>1. ops' = ops
    BY <1>1 DEF Errand, ReadForJob, CreateJob, UpdateJob, RefusedToComplete, UpdateJobStatus,
           DeleteJob, CheckIn, CheckOut, BulkAutoDispatch, BulkGoesOn, Assign, LockJob, RenewLink,
           LockToken, SubmitReview, OpenReview, ReadForUpdate, ReadForStatus, ReadForDelete,
           ReadForAssignment, AutoDispatch, AskForLink, ReadForCheckIn, ReadForCheckOut, bookingVars
  <2> SUFFICES ASSUME OneDispatcher PROVE DispatchInv'
    BY <2>1 DEF DispatchInv, OneDispatcher
  <2> QED BY <1>1, RequestsReadForDispatch, DispatchingKeepsDispatchInv, SendingKeepsDispatchInv,
             JobWritesKeepDispatchInv, LinksKeepDispatchInv DEF Errand
<1>2. ASSUME BookingStep
      PROVE  DispatchInv'
  <2>1. /\ BookingNext /\ UNCHANGED <<assigned, visit>>
        /\ job' = [j \in Jobs |-> IF job[j].booking \in Bookings /\ booking'[job[j].booking].status = "GONE"
                              THEN [job[j] EXCEPT !.booking = NoBooking] ELSE job[j]]
    BY <1>2 DEF BookingStep
  <2>2. ops' = ops
    BY <2>1 DEF BookingNext, UpdateBookingForm, Visit, Desk, Portal, StartSubmission, Submit, EnsureBookingWebsiteSubmission, Preview,
           Convert, CleanUp, Die, StartConversion, ReadSubmission, ReadWebsiteSubmission,
           UpdateSubmissionStatus, UpdateWebsiteSubmissionStatus, StartBooking, CreateBooking,
           ReadBooking, ReadRequest, UpdateBooking, UpdateBookingStatus, DeleteBooking,
           DecideRequest, ReadForRequest, CreateRequest
  <2>3. ASSUME NEW j \in Jobs
        PROVE  job'[j].status = job[j].status /\ job'[j].time = job[j].time
    <3> DEFINE loose == [job[j] EXCEPT !.booking = NoBooking]
    <3>1. loose.status = job[j].status /\ loose.time = job[j].time  BY <1>0 DEF JobRow
    <3>2. job'[j] \in {loose, job[j]}  BY <2>1
    <3> HIDE DEF loose
    <3> QED BY <3>1, <3>2
  <2> QED BY <1>0, <2>1, <2>2, <2>3, RestKeepsDispatchInv
<1>3. ASSUME NEW j \in Jobs, LinkExpires(j)
      PROVE  DispatchInv'
  BY <1>0, <1>3, RestKeepsDispatchInv DEF LinkExpires, bookingVars
<1>4. ASSUME NEW s \in Staff, ChangeLeave(s) \/ ChangeAvailability(s)
      PROVE  DispatchInv'
  BY <1>0, <1>4, RestKeepsDispatchInv DEF ChangeLeave, ChangeAvailability, bookingVars
<1>5. ASSUME ReadStaff \/ SyncStaff
      PROVE  DispatchInv'
  BY <1>0, <1>5, RestKeepsDispatchInv DEF ReadStaff, SyncStaff, bookingVars
<1> QED BY <1>1, <1>2, <1>3, <1>4, <1>5 DEF FieldNext

------------------------
(* Every step keeps the invariant *)

\* Bookings that stay as they are stay right.
LEMMA UntouchedBookingsStay ==
  ASSUME BookingInv, SlotInv, UNCHANGED bookingVars
  PROVE  BookingInv' /\ SlotInv'
<1>1. UNCHANGED <<form, sub, inbox, booking, change, call, ops>>  BY DEF bookingVars
<1>2. BookingInv'
  BY <1>1 DEF BookingInv, BookingTypeOK, CallsAreTyped, OneCall, NameEachOther, InboxAgrees,
              InboxCallIsCurrent, At, Exists
<1>3. SlotInv'
  BY <1>1 DEF SlotInv, Counted, RoomForAll, BookedIsConverted, SlotCallsAreCurrent, At, Pending,
              Calendar, Awaiting, Exists
<1> QED BY <1>2, <1>3

LEMMA FieldStepsKeepBookings ==
  ASSUME BookingInv, BookingAssumption, SlotInv, JobInv, FieldNext
  PROVE  BookingInv' /\ SlotInv'
<1>1. ASSUME NEW c \in Crew, Errand(c), ~UpdateJobStatus(c)
      PROVE  UNCHANGED bookingVars
  BY <1>1 DEF Errand, ReadForJob, CreateJob, UpdateJob, RefusedToComplete,
         DeleteJob, CheckIn, CheckOut, BulkAutoDispatch, BulkGoesOn, Assign, LockJob, RenewLink,
         LockToken, SubmitReview, OpenReview, ReadForUpdate, ReadForStatus, ReadForDelete,
         ReadForAssignment, AutoDispatch, AskForLink, ReadForCheckIn, ReadForCheckOut
<1>2. ASSUME NEW j \in Jobs, LinkExpires(j)
      PROVE  UNCHANGED bookingVars
  BY <1>2 DEF LinkExpires
<1>3. ASSUME NEW s \in Staff, ChangeLeave(s) \/ ChangeAvailability(s)
      PROVE  UNCHANGED bookingVars
  BY <1>3 DEF ChangeLeave, ChangeAvailability
<1>4. ASSUME ReadStaff \/ SyncStaff
      PROVE  UNCHANGED bookingVars
  BY <1>4 DEF ReadStaff, SyncStaff
<1>5. ASSUME BookingStep
      PROVE  BookingInv' /\ SlotInv'
  BY <1>5, BookingInvStays, SlotInvStays DEF BookingStep
<1> QED BY <1>1, <1>2, <1>3, <1>4, <1>5, UntouchedBookingsStay, UpdateJobStatusKeepsBookings
        DEF FieldNext

LEMMA NothingHappens ==
  ASSUME FieldInv, UNCHANGED workVars
  PROVE  FieldInv'
<1>1. /\ UNCHANGED bookingVars
      /\ UNCHANGED <<form, sub, inbox, booking, change, call, ops>>
      /\ UNCHANGED <<job, assigned, invoiced, link, issued, reviews, held>>
      /\ UNCHANGED <<staff, leave, dayOff, sync, visit>>
  BY DEF workVars, bookingVars, fieldVars, reviewVars, staffVars
<1>2. BookingInv' /\ SlotInv'  BY <1>1, UntouchedBookingsStay DEF FieldInv
<1>3. JobInv'
  BY <1>1 DEF FieldInv, JobInv, JobsAreTyped, StaffIsTyped, JobsAreApart, JobsAreCreated,
              LinksAreApart, LinksAreHeld, CompletionIsWhole, JobExists, Exists, Is
<1>4. DispatchInv'  BY <1>1, RestKeepsDispatchInv DEF FieldInv, JobInv
<1> QED BY <1>2, <1>3, <1>4 DEF FieldInv

LEMMA FieldInvHoldsAtFirst ==
  ASSUME BookingAssumption, FieldAssumption, FieldInit
  PROVE  FieldInv
<1>1. BookingInv /\ SlotInv  BY BookingInvHoldsAtFirst, SlotInvHoldsAtFirst DEF FieldInit
<1>2. JobInv  BY JobInvHoldsAtFirst
<1>3. /\ \A j \in Jobs : job[j].status = "NONE"
      /\ \A c \in Crew : visit[c] = NoCall
  BY DEF FieldInit, NoJob
<1>4. NoDoubleDispatch
  <2> SUFFICES ASSUME NEW i \in Jobs, NEW j \in Jobs,
                      {job[i].status, job[j].status} \subseteq {"SCHEDULED", "IN_PROGRESS"}
               PROVE  FALSE
    BY DEF NoDoubleDispatch
  <2> QED BY <1>3
<1>5. DispatchInv  BY <1>3, <1>4 DEF DispatchInv, Is
<1> QED BY <1>1, <1>2, <1>5 DEF FieldInv

LEMMA FieldInvAlwaysHolds == FieldSpec => []FieldInv
<1>1. FieldInit => FieldInv  BY FieldInvHoldsAtFirst, BookingAssumption, FieldAssumption
<1>2. FieldInv /\ [FieldNext]_workVars => FieldInv'
  <2>1. ASSUME FieldInv, FieldNext
        PROVE  FieldInv'
    BY <2>1, FieldStepsKeepBookings, FieldStepsKeepJobInv, FieldStepsKeepDispatchInv,
       BookingAssumption, FieldAssumption DEF FieldInv
  <2> QED BY <2>1, NothingHappens
<1> QED BY <1>1, <1>2, PTL DEF FieldSpec

------------------------
(* Theorems *)

\* Whatever requests read and write late, the rows of bookings, jobs, links and staff keep
\* their types.
THEOREM FieldTypeCorrect == FieldSpec => []FieldTypeOK
<1>1. FieldInv => FieldTypeOK
  BY DEF FieldInv, BookingInv, JobInv, JobsAreTyped, StaffIsTyped, FieldTypeOK, JobRow, Link
<1> QED BY <1>1, FieldInvAlwaysHolds, PTL

\* What the visitors of a form take of a slot never exceeds its capacity, however many of
\* them submit, retry, convert or die at once: the count and the insert share the lock of
\* the slot, and a conversion moves a submission from one source of the count to the other.
THEOREM SlotIsNeverOverbooked == FieldSpec => []NeverOverbooked
<1>1. FieldInv => NeverOverbooked
  <2> SUFFICES ASSUME FieldInv, Counted
               PROVE  Cardinality(Awaiting) + Cardinality(Calendar) <= form.capacity
    BY DEF NeverOverbooked, Counted
  <2> QED BY DEF FieldInv, SlotInv, RoomForAll
<1> QED BY <1>1, FieldInvAlwaysHolds, PTL

\* A submission becomes at most one booking, and the inbox says so, whichever of the website,
\* its retries and the office converts it first, and however bookings are deleted meanwhile.
THEOREM ASubmissionIsBookedOnce == FieldSpec => []BookedOnceAndSaidSo
<1>1. FieldInv => BookedOnceAndSaidSo  BY BookedOnceFollows, BookingAssumption DEF FieldInv
<1> QED BY <1>1, FieldInvAlwaysHolds, PTL

\* A finished job has left its booking completed and billed and the client a link, and the
\* client reviews it at most once, whatever else is done to jobs, links and bookings.
THEOREM FinishedJobsAreWhole == FieldSpec => []CompletionIsWhole
<1>1. FieldInv => CompletionIsWhole  BY DEF FieldInv, JobInv
<1> QED BY <1>1, FieldInvAlwaysHolds, PTL

\* One request at a time that dispatches, whatever else happens to jobs, bookings and staff,
\* sends nobody to two jobs at the same time.
THEOREM NobodyIsSentTwice == FieldSpec => []NoDoubleDispatch
<1>1. FieldInv => NoDoubleDispatch
  <2> SUFFICES ASSUME FieldInv, OneDispatcher
               PROVE  NoDoubleDispatch
    BY DEF NoDoubleDispatch, OneDispatcher
  <2> QED BY DEF FieldInv, DispatchInv
<1> QED BY <1>1, FieldInvAlwaysHolds, PTL

------------------------
(***************************************************************************)
(* The files of a tenant (MediaStorage).  Without an old lease a file      *)
(* under a lease has one worker, objects are removed only from rows marked *)
(* DELETING or DELETED, and nothing leads back from there; with old leases *)
(* nothing is deleted.  A picture that is being migrated is known to       *)
(* nobody but its ledger.                                                  *)
(***************************************************************************)

\* A finalisation that is taken over after five minutes meets no deletion, and the migration no
\* request that deletes or takes a file by its id.
OldLeasesAreAlone ==
    \A mix \in MediaMixes :
        /\ "old" \in mix.duties => mix.duties \cap {"delete", "clear", "attach", "upload"} = {}
        /\ "migrate" \in mix.duties => mix.duties \cap {"delete", "attach"} = {}

MediaStatuses == {"NONE", "INITIATED", "PROCESSING", "FAILED", "READY", "DELETING", "DELETED"}
MediaRow == [status : MediaStatuses, keyed : BOOLEAN, object : BOOLEAN, upload : BOOLEAN, expired : BOOLEAN,
             late : BOOLEAN, place : Places \cup {Nothing}]
Leased == {"store", "ready", "failed"}
Finalizing == {"claim", "clean"} \cup Leased
Deleting == {"read", "check", "take", "objects", "mark"}
Taking == {"bind", "bindProof", "show"}
MigrationSteps == {"fetch", "migrateRow", "verify", "markFailure", "migrated"}
Migrates(w) == work[w].at \in MigrationSteps
Naming == Finalizing \cup Deleting \cup Taking
Placing == {"create"} \cup Taking \cup MigrationSteps
Harmless == {"rest"} \cup Finalizing \cup MigrationSteps
MediaSteps == {"rest", "create"} \cup Naming \cup MigrationSteps
MediaRequest == [at : MediaSteps, file : Files \cup {Nothing}, place : Places \cup {Nothing},
                 previous : Files \cup {Nothing, Legacy, "gone"}, status : MediaStatuses, same : BOOLEAN]

WellAsked(r) == (r.at # "rest" => r.file \in Files) /\ (r.at \in Placing => r.place \in Places)
WorkIsTyped == work \in [Workers -> MediaRequest] /\ \A w \in Workers : WellAsked(work[w])
MediaTypeOK ==
    /\ file \in [Files -> MediaRow]
    /\ shown \in [Places -> Files \cup {Nothing, Legacy, "gone"}]
    /\ ledger \in [Places -> [status : {"NONE", "PROCESSING", "MIGRATED", "FAILED"}, file : Files \cup {Nothing}]]
    /\ WorkIsTyped

\* What does not meet in a behaviour, and that only the migration migrates.
DutiesAreApart ==
    /\ "old" \in duties => "delete" \notin duties /\ "clear" \notin duties /\ "attach" \notin duties /\ "upload" \notin duties
    /\ "migrate" \in duties => "delete" \notin duties /\ "attach" \notin duties
    /\ \A p \in Places : shown[p] = Legacy => "migrate" \in duties
    /\ \A w \in Workers : Migrates(w) => "migrate" \in duties

\* A request in progress has a file.
RequestsAreNamed == \A w \in Workers : ~Works(w, "rest") => work[w].file \in Files

\* Without a race one request is answered after the other.
OneWorks == "race" \notin duties => \A v, w \in Workers : ~Works(v, "rest") /\ ~Works(w, "rest") => v = w

\* A file that a record shows or a request names has its row.
KnownFilesAreStored ==
    /\ \A p \in Places : shown[p] \in Files => IsStored(shown[p])
    /\ \A w \in Workers : work[w].at \in Naming => IsStored(work[w].file)
    /\ \A w \in Workers : work[w].previous \in Files => IsStored(work[w].previous)

\* Whose lease a row is under.
LeasesAreSingle ==
    /\ \A w \in Workers : Works(w, "ready") => file[work[w].file].object
    /\ "old" \notin duties =>
        /\ \A a \in Files : ~file[a].late
        /\ \A w \in Workers : work[w].at \in Leased => file[work[w].file].status = "PROCESSING"
        /\ \A v, w \in Workers : work[v].at \in Leased /\ work[w].at \in Leased /\ work[v].file = work[w].file => v = w

\* Objects are removed under a mark.
ObjectsGoUnderAMark ==
    /\ \A w \in Workers : work[w].at \in {"check", "take"} => work[w].status \in {"INITIATED", "FAILED", "READY"}
    /\ \A w \in Workers : work[w].at \in {"objects", "mark"} => file[work[w].file].status \in {"DELETING", "DELETED"}
    /\ \A w \in Workers : Works(w, "mark") => ~(file[work[w].file].keyed /\ file[work[w].file].object)
    /\ "old" \in duties =>
        /\ \A a \in Files : file[a].status \notin {"DELETING", "DELETED"}
        /\ \A w \in Workers : work[w].at \in Harmless

\* An object that is being stored with its row is nobody else's.
CreatedAlone ==
    \A w \in Workers : Works(w, "create") =>
        /\ ~IsStored(work[w].file) /\ file[work[w].file].object
        /\ \A p \in Places : ledger[p].file # work[w].file
        /\ \A v \in Workers \ {w} : work[v].file # work[w].file

\* The picture of a record is still to be migrated, or being migrated.
Awaited(p) == shown[p] = Legacy \/ \E w \in Workers : Migrates(w) /\ work[w].place = p
Untouched(a) ==
    /\ file[a].status \in {"NONE", "READY"}
    /\ \A q \in Places : shown[q] # a
    /\ \A w \in Workers : work[w].previous # a /\ (work[w].file = a => Migrates(w))

OneMigrates ==
    /\ \A v, w \in Workers : Migrates(v) /\ Migrates(w) => v = w
    /\ \A w \in Workers : Migrates(w) => work[w].place \in Places /\ work[w].file = ledger[work[w].place].file
    /\ \A w \in Workers : Works(w, "migrateRow") => file[work[w].file].object
    /\ \A w \in Workers : Works(w, "verify") \/ Works(w, "migrated") => IsReady(work[w].file)
LedgersDiffer == \A p, q \in Places : ledger[p].file \in Files /\ ledger[p].file = ledger[q].file => p = q
MigratedAlone == \A p \in Places : ledger[p].file \in Files /\ Awaited(p) => Untouched(ledger[p].file)

\* What is about to be shown is finished, and what is about to be deleted is not shown.
TakenFilesAreReady ==
    "race" \notin duties =>
        /\ \A w \in Workers : work[w].at \in Taking => IsReady(work[w].file)
        /\ \A w \in Workers : Works(w, "take") /\ work[w].status = "READY" => ~InUse(work[w].file)

ReadyFilesHaveObjects == \A a \in Files : IsReady(a) => file[a].object
DeletedFilesHaveNone == \A a \in Files : Deleted(a) /\ file[a].keyed => ~file[a].object
ShownFilesAreReady == "race" \notin duties => \A p \in Places : shown[p] \in Files => IsReady(shown[p])

MediaInv ==
    /\ MediaTypeOK /\ DutiesAreApart /\ RequestsAreNamed /\ OneWorks /\ KnownFilesAreStored /\ LeasesAreSingle /\ ObjectsGoUnderAMark
    /\ CreatedAlone /\ OneMigrates /\ LedgersDiffer /\ MigratedAlone /\ TakenFilesAreReady
    /\ ReadyFilesHaveObjects /\ DeletedFilesHaveNone /\ ShownFilesAreReady

\* What a step does.  Only the step, the file, the record and the former file of a request, and
\* the status, the key and the object of a row, matter to the invariant.
KeepsOn(v) ==
    /\ work'[v].at = work[v].at /\ work'[v].file = work[v].file /\ work'[v].place = work[v].place
    /\ work'[v].previous = work[v].previous /\ work'[v].status = work[v].status
OthersKeepOn(w) == \A v \in Workers \ {w} : KeepsOn(v)
MediaTurn(w) == Works(w, "rest") /\ "race" \notin duties => \A v \in Workers : Works(v, "rest")
AlikeRow(b) ==
    /\ file'[b].status = file[b].status /\ file'[b].keyed = file[b].keyed /\ file'[b].object = file[b].object
    /\ file'[b].late => file[b].late \/ "old" \in duties
AlikeRowsBut(S) == \A b \in Files \ S : AlikeRow(b)
SameLedger == \A p \in Places : ledger'[p].file = ledger[p].file
\* Nothing but the row of a and the request w is moved.
OneRow(w, a) ==
    /\ a \in Files /\ AlikeRowsBut({a}) /\ OthersKeepOn(w) /\ shown' = shown /\ SameLedger
    /\ file'[a].late => file[a].late
Touches(w, a) == OneRow(w, a) /\ work[w].file = a
OnlyRequest(w) == AlikeRowsBut({}) /\ SameLedger /\ OthersKeepOn(w)
ComesToRest(w) == work'[w].at = "rest" /\ work'[w].file = Nothing /\ work'[w].previous = Nothing
GoesOn(w, s) ==
    /\ work'[w].at = s /\ work'[w].file = work[w].file /\ work'[w].place = work[w].place
    /\ work'[w].previous = work[w].previous

BrowserWrites == AlikeRowsBut({}) /\ shown' = shown /\ SameLedger /\ \A v \in Workers : KeepsOn(v)
RowIsMade(a) ==
    /\ a \in Fresh /\ AlikeRowsBut({a}) /\ shown' = shown /\ SameLedger /\ \A v \in Workers : KeepsOn(v)
    /\ file'[a].status = "INITIATED" /\ ~file'[a].keyed /\ ~file'[a].object /\ ~file'[a].late
Rests(w) == OnlyRequest(w) /\ shown' = shown /\ ComesToRest(w)
Calm(w) == OnlyRequest(w) /\ shown' = shown
Ahead(w, s) == Calm(w) /\ work[w].file \in Files /\ GoesOn(w, s)
Reads(w) ==
    /\ Ahead(w, "check") /\ Works(w, "read") /\ work'[w].status = file[work[w].file].status
    /\ file[work[w].file].status \notin {"DELETED", "DELETING", "PROCESSING"}
ReadsMarked(w) == Ahead(w, "objects") /\ Works(w, "read") /\ file[work[w].file].status = "DELETING"
Checks(w) ==
    /\ Ahead(w, "take") /\ Works(w, "check") /\ work'[w].status = work[w].status
    /\ work[w].status = "READY" => ~InUse(work[w].file)
ReadsAgain(w) == Ahead(w, "read") /\ Works(w, "take")
GivesUp(w) ==
    /\ Calm(w) /\ work[w].file \in Files /\ Works(w, "show") /\ work'[w].at = "read"
    /\ work'[w].file = work[w].file /\ work'[w].previous = Nothing
IsRefused(w) == Ahead(w, "failed") /\ (Works(w, "store") \/ Works(w, "ready"))
IsBound(w) == Ahead(w, "show") /\ Works(w, "bind")
FindsCopy(w) == Ahead(w, "verify") /\ Works(w, "fetch") /\ IsReady(work[w].file)
IsNotCopied(w) ==
    Ahead(w, "markFailure") /\ (Works(w, "fetch") \/ Works(w, "migrateRow") \/ Works(w, "verify"))
Verifies(w) == Ahead(w, "migrated") /\ Works(w, "verify")
BeginsAt(w, s) ==
    Calm(w) /\ Works(w, "rest") /\ MediaTurn(w) /\ work'[w].at = s /\ work'[w].file \in Files
Finalizes(w) ==
    /\ BeginsAt(w, "claim") /\ work'[w].previous = Nothing
    /\ file[work'[w].file].status \notin {"NONE", "READY", "DELETED"}
AsksDeletion(w) ==
    /\ BeginsAt(w, "read") /\ work'[w].previous = Nothing /\ IsStored(work'[w].file)
    /\ "delete" \in duties \/ "attach" \in duties
AsksPlace(w, s) ==
    /\ BeginsAt(w, s)
    /\ IsReady(work'[w].file) /\ "attach" \in duties
    /\ work'[w].place \in Places /\ work'[w].previous = shown[work'[w].place]
FindsMigrated(w) ==
    /\ BeginsAt(w, "migrated") /\ work'[w].place \in Places /\ work'[w].previous = Nothing
    /\ IsReady(work'[w].file)
    /\ shown[work'[w].place] = Legacy /\ ledger[work'[w].place].file = work'[w].file
    /\ \A v \in Workers : ~Migrates(v)
Claims(w, a) ==
    /\ Touches(w, a) /\ Works(w, "claim") /\ GoesOn(w, "store") /\ MayClaim(file[a])
    /\ file'[a].status = "PROCESSING" /\ file'[a].keyed = file[a].keyed /\ file'[a].object = file[a].object
Stores(w, a) ==
    /\ Touches(w, a) /\ Works(w, "store") /\ GoesOn(w, "ready")
    /\ file'[a].status = file[a].status /\ file'[a].keyed = file[a].keyed /\ file'[a].object
Finishes(w, a) ==
    /\ Touches(w, a) /\ Works(w, "ready") /\ GoesOn(w, "clean")
    /\ file'[a].status = "READY" /\ file'[a].object = file[a].object
Fails(w, a) ==
    /\ Touches(w, a) /\ Works(w, "failed") /\ ComesToRest(w) /\ file[a].status = "PROCESSING"
    /\ file'[a].status = "FAILED" /\ file'[a].keyed = file[a].keyed /\ file'[a].object = file[a].object
Condemns(w, a) ==
    /\ Touches(w, a) /\ Works(w, "take") /\ GoesOn(w, "objects")
    /\ work[w].status = file[a].status
    /\ file'[a].status = "DELETING" /\ file'[a].keyed = file[a].keyed /\ file'[a].object = file[a].object
Empties(w, a) ==
    /\ Touches(w, a) /\ Works(w, "objects") /\ GoesOn(w, "mark")
    /\ file'[a].status = file[a].status /\ file'[a].keyed = file[a].keyed
    /\ file'[a].object <=> file[a].object /\ ~file[a].keyed
Deletes(w, a) ==
    /\ Touches(w, a) /\ Works(w, "mark") /\ ComesToRest(w) /\ file[a].status = "DELETING"
    /\ file'[a].status = "DELETED" /\ file'[a].keyed = file[a].keyed /\ file'[a].object = file[a].object
Uploads(w, a) ==
    /\ OneRow(w, a) /\ Works(w, "rest") /\ MediaTurn(w) /\ a \in Fresh /\ "upload" \in duties
    /\ work'[w].at = "create" /\ work'[w].file = a /\ work'[w].place \in Places
    /\ work'[w].previous = shown[work'[w].place]
    /\ file'[a].status = file[a].status /\ file'[a].keyed = file[a].keyed /\ file'[a].object
Creates(w, a) ==
    /\ Touches(w, a) /\ Works(w, "create") /\ GoesOn(w, "show")
    /\ file'[a].status = "READY" /\ file'[a].object = file[a].object
Fetches(w, a) ==
    /\ Touches(w, a) /\ Works(w, "fetch") /\ GoesOn(w, "migrateRow") /\ ~IsReady(a)
    /\ file'[a].status = file[a].status /\ file'[a].keyed = file[a].keyed /\ file'[a].object
Copies(w, a) ==
    /\ Touches(w, a) /\ Works(w, "migrateRow") /\ GoesOn(w, "verify") /\ ~IsStored(a)
    /\ file'[a].status = "READY" /\ file'[a].object = file[a].object
Shows(p, a) == \A q \in Places : shown'[q] = IF q = p THEN a ELSE shown[q]
Forgets(w, p) ==
    /\ OnlyRequest(w)
    /\ Works(w, "rest") /\ MediaTurn(w) /\ p \in Places /\ shown[p] \in Files /\ "clear" \in duties
    /\ \E left \in {Nothing, "gone"} : Shows(p, left)
    /\ work'[w].at = "read" /\ work'[w].file = shown[p] /\ work'[w].previous = Nothing
Displays(w, p, a) ==
    /\ OnlyRequest(w)
    /\ Works(w, "show") /\ p = work[w].place /\ p \in Places /\ a = work[w].file /\ a \in Files
    /\ Shows(p, a)
    /\ \/ ComesToRest(w)
       \/ /\ work'[w].at = "read" /\ work'[w].file = work[w].previous /\ work'[w].previous = Nothing
          /\ work[w].previous \in Files \ {a}
Takes(w, p, a) ==
    /\ OnlyRequest(w)
    /\ Works(w, "rest") /\ MediaTurn(w) /\ p \in Places /\ a \in Files /\ IsReady(a) /\ shown[p] = Nothing
    /\ Shows(p, a) /\ "attach" \in duties
    /\ \/ ComesToRest(w)
       \/ work'[w].at = "bindProof" /\ work'[w].file = a /\ work'[w].previous = Nothing
Delivers(w, p, a) ==
    /\ OnlyRequest(w)
    /\ Works(w, "migrated") /\ p = work[w].place /\ p \in Places /\ a = work[w].file /\ a \in Files
    /\ Shows(p, a) /\ ComesToRest(w)
Plans(w, p, a) ==
    /\ AlikeRowsBut({}) /\ shown' = shown /\ OthersKeepOn(w)
    /\ Works(w, "rest") /\ MediaTurn(w) /\ p \in Places /\ a \in Files /\ shown[p] = Legacy /\ MayMigrateTo(p, a)
    /\ "migrate" \in duties /\ \A v \in Workers : ~Migrates(v)
    /\ \A q \in Places : ledger'[q].file = IF q = p THEN a ELSE ledger[q].file
    /\ work'[w].at = "fetch" /\ work'[w].file = a /\ work'[w].place = p /\ work'[w].previous = Nothing

MediaStep ==
    \/ BrowserWrites \/ \E a \in Files : RowIsMade(a)
    \/ \E w \in Workers :
          \/ Rests(w) \/ Reads(w) \/ ReadsMarked(w) \/ Checks(w) \/ ReadsAgain(w) \/ GivesUp(w)
          \/ IsRefused(w) \/ IsBound(w) \/ FindsCopy(w) \/ IsNotCopied(w) \/ Verifies(w)
          \/ Finalizes(w) \/ AsksDeletion(w) \/ AsksPlace(w, "bind") \/ AsksPlace(w, "show")
          \/ FindsMigrated(w)
    \/ \E w \in Workers, a \in Files :
          \/ Claims(w, a) \/ Stores(w, a) \/ Finishes(w, a) \/ Fails(w, a)
          \/ Condemns(w, a) \/ Empties(w, a) \/ Deletes(w, a)
          \/ Uploads(w, a) \/ Creates(w, a) \/ Fetches(w, a) \/ Copies(w, a)
    \/ \E w \in Workers, p \in Places : Forgets(w, p)
    \/ \E w \in Workers, p \in Places, a \in Files :
          Displays(w, p, a) \/ Takes(w, p, a) \/ Delivers(w, p, a) \/ Plans(w, p, a)

\* Which steps are of which sort.
LEMMA SortRest ==
  "rest" \in MediaSteps /\ "rest" \notin Naming /\ "rest" \notin Leased /\ "rest" \notin Taking /\ "rest" \notin MigrationSteps /\ "rest" \in Harmless /\ "rest" \notin Placing
  BY DEF MediaSteps, Naming, Leased, Taking, MigrationSteps, Harmless, Placing, Finalizing, Deleting
LEMMA SortCreate ==
  "create" \in MediaSteps /\ "create" \notin Naming /\ "create" \notin Leased /\ "create" \notin Taking /\ "create" \notin MigrationSteps /\ "create" \notin Harmless /\ "create" \in Placing
  BY DEF MediaSteps, Naming, Leased, Taking, MigrationSteps, Harmless, Placing, Finalizing, Deleting
LEMMA SortClaim ==
  "claim" \in MediaSteps /\ "claim" \in Naming /\ "claim" \notin Leased /\ "claim" \notin Taking /\ "claim" \notin MigrationSteps /\ "claim" \in Harmless /\ "claim" \notin Placing
  BY DEF MediaSteps, Naming, Leased, Taking, MigrationSteps, Harmless, Placing, Finalizing, Deleting
LEMMA SortClean ==
  "clean" \in MediaSteps /\ "clean" \in Naming /\ "clean" \notin Leased /\ "clean" \notin Taking /\ "clean" \notin MigrationSteps /\ "clean" \in Harmless /\ "clean" \notin Placing
  BY DEF MediaSteps, Naming, Leased, Taking, MigrationSteps, Harmless, Placing, Finalizing, Deleting
LEMMA SortStore ==
  "store" \in MediaSteps /\ "store" \in Naming /\ "store" \in Leased /\ "store" \notin Taking /\ "store" \notin MigrationSteps /\ "store" \in Harmless /\ "store" \notin Placing
  BY DEF MediaSteps, Naming, Leased, Taking, MigrationSteps, Harmless, Placing, Finalizing, Deleting
LEMMA SortReady ==
  "ready" \in MediaSteps /\ "ready" \in Naming /\ "ready" \in Leased /\ "ready" \notin Taking /\ "ready" \notin MigrationSteps /\ "ready" \in Harmless /\ "ready" \notin Placing
  BY DEF MediaSteps, Naming, Leased, Taking, MigrationSteps, Harmless, Placing, Finalizing, Deleting
LEMMA SortFailed ==
  "failed" \in MediaSteps /\ "failed" \in Naming /\ "failed" \in Leased /\ "failed" \notin Taking /\ "failed" \notin MigrationSteps /\ "failed" \in Harmless /\ "failed" \notin Placing
  BY DEF MediaSteps, Naming, Leased, Taking, MigrationSteps, Harmless, Placing, Finalizing, Deleting
LEMMA SortRead ==
  "read" \in MediaSteps /\ "read" \in Naming /\ "read" \notin Leased /\ "read" \notin Taking /\ "read" \notin MigrationSteps /\ "read" \notin Harmless /\ "read" \notin Placing
  BY DEF MediaSteps, Naming, Leased, Taking, MigrationSteps, Harmless, Placing, Finalizing, Deleting
LEMMA SortCheck ==
  "check" \in MediaSteps /\ "check" \in Naming /\ "check" \notin Leased /\ "check" \notin Taking /\ "check" \notin MigrationSteps /\ "check" \notin Harmless /\ "check" \notin Placing
  BY DEF MediaSteps, Naming, Leased, Taking, MigrationSteps, Harmless, Placing, Finalizing, Deleting
LEMMA SortTake ==
  "take" \in MediaSteps /\ "take" \in Naming /\ "take" \notin Leased /\ "take" \notin Taking /\ "take" \notin MigrationSteps /\ "take" \notin Harmless /\ "take" \notin Placing
  BY DEF MediaSteps, Naming, Leased, Taking, MigrationSteps, Harmless, Placing, Finalizing, Deleting
LEMMA SortObjects ==
  "objects" \in MediaSteps /\ "objects" \in Naming /\ "objects" \notin Leased /\ "objects" \notin Taking /\ "objects" \notin MigrationSteps /\ "objects" \notin Harmless /\ "objects" \notin Placing
  BY DEF MediaSteps, Naming, Leased, Taking, MigrationSteps, Harmless, Placing, Finalizing, Deleting
LEMMA SortMark ==
  "mark" \in MediaSteps /\ "mark" \in Naming /\ "mark" \notin Leased /\ "mark" \notin Taking /\ "mark" \notin MigrationSteps /\ "mark" \notin Harmless /\ "mark" \notin Placing
  BY DEF MediaSteps, Naming, Leased, Taking, MigrationSteps, Harmless, Placing, Finalizing, Deleting
LEMMA SortBind ==
  "bind" \in MediaSteps /\ "bind" \in Naming /\ "bind" \notin Leased /\ "bind" \in Taking /\ "bind" \notin MigrationSteps /\ "bind" \notin Harmless /\ "bind" \in Placing
  BY DEF MediaSteps, Naming, Leased, Taking, MigrationSteps, Harmless, Placing, Finalizing, Deleting
LEMMA SortBindProof ==
  "bindProof" \in MediaSteps /\ "bindProof" \in Naming /\ "bindProof" \notin Leased /\ "bindProof" \in Taking /\ "bindProof" \notin MigrationSteps /\ "bindProof" \notin Harmless /\ "bindProof" \in Placing
  BY DEF MediaSteps, Naming, Leased, Taking, MigrationSteps, Harmless, Placing, Finalizing, Deleting
LEMMA SortShow ==
  "show" \in MediaSteps /\ "show" \in Naming /\ "show" \notin Leased /\ "show" \in Taking /\ "show" \notin MigrationSteps /\ "show" \notin Harmless /\ "show" \in Placing
  BY DEF MediaSteps, Naming, Leased, Taking, MigrationSteps, Harmless, Placing, Finalizing, Deleting
LEMMA SortFetch ==
  "fetch" \in MediaSteps /\ "fetch" \notin Naming /\ "fetch" \notin Leased /\ "fetch" \notin Taking /\ "fetch" \in MigrationSteps /\ "fetch" \in Harmless /\ "fetch" \in Placing
  BY DEF MediaSteps, Naming, Leased, Taking, MigrationSteps, Harmless, Placing, Finalizing, Deleting
LEMMA SortMigrateRow ==
  "migrateRow" \in MediaSteps /\ "migrateRow" \notin Naming /\ "migrateRow" \notin Leased /\ "migrateRow" \notin Taking /\ "migrateRow" \in MigrationSteps /\ "migrateRow" \in Harmless /\ "migrateRow" \in Placing
  BY DEF MediaSteps, Naming, Leased, Taking, MigrationSteps, Harmless, Placing, Finalizing, Deleting
LEMMA SortVerify ==
  "verify" \in MediaSteps /\ "verify" \notin Naming /\ "verify" \notin Leased /\ "verify" \notin Taking /\ "verify" \in MigrationSteps /\ "verify" \in Harmless /\ "verify" \in Placing
  BY DEF MediaSteps, Naming, Leased, Taking, MigrationSteps, Harmless, Placing, Finalizing, Deleting
LEMMA SortMarkFailure ==
  "markFailure" \in MediaSteps /\ "markFailure" \notin Naming /\ "markFailure" \notin Leased /\ "markFailure" \notin Taking /\ "markFailure" \in MigrationSteps /\ "markFailure" \in Harmless /\ "markFailure" \in Placing
  BY DEF MediaSteps, Naming, Leased, Taking, MigrationSteps, Harmless, Placing, Finalizing, Deleting
LEMMA SortMigrated ==
  "migrated" \in MediaSteps /\ "migrated" \notin Naming /\ "migrated" \notin Leased /\ "migrated" \notin Taking /\ "migrated" \in MigrationSteps /\ "migrated" \in Harmless /\ "migrated" \in Placing
  BY DEF MediaSteps, Naming, Leased, Taking, MigrationSteps, Harmless, Placing, Finalizing, Deleting

\* The pieces a step is made of.
LEMMA RestIsTyped == AtRestWork \in MediaRequest /\ WellAsked(AtRestWork) /\ AtRestWork.at = "rest"
                     /\ AtRestWork.file = Nothing /\ AtRestWork.previous = Nothing
  BY SortRest DEF AtRestWork, MediaRequest, WellAsked, MediaStatuses

LEMMA WorkingDoes ==
  ASSUME MediaTypeOK, NEW w \in Workers, NEW r \in MediaRequest, WellAsked(r), Working(w, r)
  PROVE  WorkIsTyped' /\ work'[w] = r /\ OthersKeepOn(w)
<1>1. work \in [Workers -> MediaRequest] /\ work' = [work EXCEPT ![w] = r]
  BY DEF MediaTypeOK, WorkIsTyped, Working
<1>2. work' \in [Workers -> MediaRequest] /\ work'[w] = r /\ \A v \in Workers \ {w} : work'[v] = work[v]
  BY <1>1
<1>3. \A v \in Workers : WellAsked(work'[v])  BY <1>2 DEF MediaTypeOK, WorkIsTyped
<1> QED BY <1>2, <1>3 DEF WorkIsTyped, OthersKeepOn, KeepsOn

LEMMA OverDoes ==
  ASSUME MediaTypeOK, NEW w \in Workers, Over(w)
  PROVE  WorkIsTyped' /\ ComesToRest(w) /\ OthersKeepOn(w)
  BY WorkingDoes, RestIsTyped DEF Over, ComesToRest

LEMMA WriteDoes ==
  ASSUME MediaTypeOK, NEW w \in Workers, NEW a \in Files, NEW r \in MediaRequest, WellAsked(r),
         NEW f \in MediaRow, Write(w, a, r, f)
  PROVE  /\ WorkIsTyped' /\ work'[w] = r /\ OthersKeepOn(w)
         /\ file' \in [Files -> MediaRow] /\ file'[a] = f /\ AlikeRowsBut({a})
<1>1. work \in [Workers -> MediaRequest] /\ file \in [Files -> MediaRow]
  BY DEF MediaTypeOK, WorkIsTyped
<1> DEFINE other(v) == [work[v] EXCEPT !.same = @ /\ work[v].file # a]
<1>2. work' = [v \in Workers |-> IF v = w THEN r ELSE other(v)] /\ file' = [file EXCEPT ![a] = f]
  BY DEF Write
<1>3. ASSUME NEW v \in Workers
      PROVE  /\ other(v) \in MediaRequest /\ other(v).at = work[v].at /\ other(v).file = work[v].file
             /\ other(v).place = work[v].place /\ other(v).previous = work[v].previous
             /\ other(v).status = work[v].status
  <2>1. work[v] \in MediaRequest  BY <1>1
  <2> QED BY <2>1 DEF MediaRequest
<1> HIDE DEF other
<1>4. /\ work' \in [Workers -> MediaRequest] /\ work'[w] = r
      /\ \A v \in Workers \ {w} : work'[v] = other(v)
  BY <1>2, <1>3
<1>5. \A v \in Workers : WellAsked(work'[v])  BY <1>3, <1>4 DEF MediaTypeOK, WorkIsTyped, WellAsked
<1>6. file' \in [Files -> MediaRow] /\ file'[a] = f /\ \A b \in Files \ {a} : file'[b] = file[b]
  BY <1>1, <1>2
<1> QED BY <1>3, <1>4, <1>5, <1>6 DEF WorkIsTyped, OthersKeepOn, KeepsOn, AlikeRowsBut, AlikeRow

LEMMA RowIsWritten ==
  ASSUME MediaTypeOK, NEW a \in Files, NEW f \in MediaRow, file' = [file EXCEPT ![a] = f]
  PROVE  file' \in [Files -> MediaRow] /\ file'[a] = f /\ AlikeRowsBut({a})
<1>1. file \in [Files -> MediaRow]  BY DEF MediaTypeOK
<1>2. file' \in [Files -> MediaRow] /\ file'[a] = f /\ \A b \in Files \ {a} : file'[b] = file[b]
  BY <1>1
<1> QED BY <1>2 DEF AlikeRowsBut, AlikeRow

LEMMA NothingIsWritten ==
  /\ UNCHANGED file => AlikeRowsBut({})
  /\ UNCHANGED ledger => SameLedger
  BY DEF AlikeRowsBut, AlikeRow, SameLedger

\* The request of w goes on to another step.
LEMMA AskGoesOn ==
  ASSUME MediaTypeOK, NEW w \in Workers, ~Works(w, "rest"), NEW s \in MediaSteps,
         s \in Placing => work[w].place \in Places
  PROVE  LET r == [work[w] EXCEPT !.at = s] IN
         /\ r \in MediaRequest /\ WellAsked(r) /\ r.at = s /\ r.file = work[w].file
         /\ r.place = work[w].place /\ r.previous = work[w].previous /\ r.status = work[w].status
<1>1. work[w] \in MediaRequest /\ work[w].file \in Files
  BY DEF MediaTypeOK, WorkIsTyped, WellAsked, Works
<1> QED BY <1>1 DEF MediaRequest, WellAsked

LEMMA StepDoes ==
  ASSUME MediaTypeOK, NEW w \in Workers, ~Works(w, "rest"), NEW s \in MediaSteps,
         s \in Placing => work[w].place \in Places, Step(w, s)
  PROVE  /\ WorkIsTyped' /\ OthersKeepOn(w) /\ GoesOn(w, s) /\ work'[w].status = work[w].status
         /\ work[w].file \in Files
<1> DEFINE r == [work[w] EXCEPT !.at = s]
<1>1. /\ r \in MediaRequest /\ WellAsked(r) /\ r.at = s /\ r.file = work[w].file
      /\ r.place = work[w].place /\ r.previous = work[w].previous /\ r.status = work[w].status
  BY AskGoesOn
<1>2. Working(w, r)  BY DEF Step
<1> HIDE DEF r
<1>3. WorkIsTyped' /\ work'[w] = r /\ OthersKeepOn(w)  BY <1>1, <1>2, WorkingDoes
<1>4. work[w].file \in Files  BY DEF MediaTypeOK, WorkIsTyped, WellAsked, Works
<1> QED BY <1>1, <1>3, <1>4 DEF GoesOn

LEMMA ThenDeleteDoes ==
  ASSUME MediaTypeOK, NEW w \in Workers, NEW a, Working(w, ThenDelete(w, a))
  PROVE  /\ WorkIsTyped' /\ OthersKeepOn(w)
         /\ a \notin Files => ComesToRest(w)
         /\ a \in Files => work'[w].at = "read" /\ work'[w].file = a /\ work'[w].previous = Nothing
<1>1. CASE a \in Files
  <2> DEFINE r == [AtRestWork EXCEPT !.at = "read", !.file = a]
  <2>1. r \in MediaRequest /\ r.at = "read" /\ r.file = a /\ r.previous = Nothing /\ WellAsked(r)
    BY <1>1, SortRead, SortRest DEF AtRestWork, MediaRequest, WellAsked, MediaStatuses
  <2>2. Working(w, r)  BY <1>1 DEF ThenDelete
  <2> HIDE DEF r
  <2> QED BY <1>1, <2>1, <2>2, WorkingDoes
<1>2. CASE a \notin Files  BY <1>2, OverDoes DEF ThenDelete, Over
<1> QED BY <1>1, <1>2

\* The actions.
LEMMA BrowserDoes ==
  ASSUME MediaTypeOK, NEW a \in Files, PutTemporaryObject(a) \/ SessionExpires(a) \/ LeaseGetsOld(a)
  PROVE  MediaTypeOK' /\ MediaStep
<1>1. file[a] \in MediaRow  BY DEF MediaTypeOK
<1>2. PICK f \in MediaRow : /\ file' = [file EXCEPT ![a] = f] /\ f.status = file[a].status /\ f.keyed = file[a].keyed
                            /\ f.object = file[a].object /\ (f.late => file[a].late \/ "old" \in duties)
  <2>1. CASE PutTemporaryObject(a)
    <3> DEFINE f == [file[a] EXCEPT !.upload = TRUE]
    <3>1. f \in MediaRow /\ f.status = file[a].status /\ f.keyed = file[a].keyed /\ f.object = file[a].object /\ f.late = file[a].late
      BY <1>1 DEF MediaRow
    <3>2. file' = [file EXCEPT ![a] = f]  BY <2>1 DEF PutTemporaryObject
    <3> QED BY <3>1, <3>2
  <2>2. CASE SessionExpires(a)
    <3> DEFINE f == [file[a] EXCEPT !.expired = TRUE]
    <3>1. f \in MediaRow /\ f.status = file[a].status /\ f.keyed = file[a].keyed /\ f.object = file[a].object /\ f.late = file[a].late
      BY <1>1 DEF MediaRow
    <3>2. file' = [file EXCEPT ![a] = f]  BY <2>2 DEF SessionExpires
    <3> QED BY <3>1, <3>2
  <2>3. CASE LeaseGetsOld(a)
    <3> DEFINE f == [file[a] EXCEPT !.late = TRUE]
    <3>1. f \in MediaRow /\ f.status = file[a].status /\ f.keyed = file[a].keyed /\ f.object = file[a].object
      BY <1>1 DEF MediaRow
    <3>2. file' = [file EXCEPT ![a] = f] /\ "old" \in duties  BY <2>3 DEF LeaseGetsOld
    <3> QED BY <3>1, <3>2
  <2> QED BY <2>1, <2>2, <2>3
<1>3. UNCHANGED <<shown, ledger, work>>  BY DEF PutTemporaryObject, SessionExpires, LeaseGetsOld
<1>4. file' \in [Files -> MediaRow] /\ file'[a] = f /\ AlikeRowsBut({a})  BY <1>2, RowIsWritten
<1>5. AlikeRowsBut({})  BY <1>2, <1>4 DEF AlikeRowsBut, AlikeRow
<1>6. BrowserWrites  BY <1>3, <1>5, NothingIsWritten DEF BrowserWrites, KeepsOn
<1> QED BY <1>3, <1>4, <1>6 DEF MediaTypeOK, WorkIsTyped, MediaStep

LEMMA CreateUploadSessionDoes ==
  ASSUME MediaTypeOK, NEW a \in Files, NEW p \in Places \cup {Nothing}, CreateUploadSession(a, p)
  PROVE  MediaTypeOK' /\ MediaStep
<1> DEFINE f == [NoFile EXCEPT !.status = "INITIATED", !.place = EntityOf(p)]
<1>1. f \in MediaRow /\ f.status = "INITIATED" /\ ~f.keyed /\ ~f.object /\ ~f.late
  BY DEF NoFile, MediaRow, MediaStatuses, EntityOf
<1>2. file' = [file EXCEPT ![a] = f] /\ a \in Fresh /\ UNCHANGED <<shown, ledger, work>>
  BY DEF CreateUploadSession
<1> HIDE DEF f
<1>3. file' \in [Files -> MediaRow] /\ file'[a] = f /\ AlikeRowsBut({a})  BY <1>1, <1>2, RowIsWritten
<1>4. RowIsMade(a)  BY <1>1, <1>2, <1>3, NothingIsWritten DEF RowIsMade, KeepsOn
<1> QED BY <1>2, <1>3, <1>4 DEF MediaTypeOK, WorkIsTyped, MediaStep
LEMMA ClaimProcessingDoes ==
  ASSUME MediaTypeOK, NEW w \in Workers, ClaimProcessing(w)
  PROVE  MediaTypeOK' /\ MediaStep
<1> DEFINE a == work[w].file
           r == [work[w] EXCEPT !.at = "store", !.same = TRUE]
           f == [file[a] EXCEPT !.status = "PROCESSING", !.late = FALSE]
<1>1. Works(w, "claim") /\ UNCHANGED <<shown, ledger>>  BY DEF ClaimProcessing
<1>2. work[w] \in MediaRequest /\ a \in Files /\ file[a] \in MediaRow
  BY <1>1 DEF MediaTypeOK, WorkIsTyped, WellAsked, Works
<1>3. CASE MayClaim(file[a]) /\ Write(w, a, r, f)
  <2>1. /\ r \in MediaRequest /\ r.at = "store" /\ r.file = work[w].file /\ r.place = work[w].place
        /\ r.previous = work[w].previous /\ WellAsked(r)
    BY <1>2, SortStore DEF MediaRequest, WellAsked
  <2>2. f \in MediaRow /\ f.status = "PROCESSING" /\ ~f.late /\ f.keyed = file[a].keyed /\ f.object = file[a].object
    BY <1>2 DEF MediaRow, MediaStatuses
  <2> HIDE DEF r, f
  <2>3. /\ WorkIsTyped' /\ work'[w] = r /\ OthersKeepOn(w)
        /\ file' \in [Files -> MediaRow] /\ file'[a] = f /\ AlikeRowsBut({a})
    BY <1>2, <1>3, <2>1, <2>2, WriteDoes
  <2>4. Claims(w, a)
    BY <1>1, <1>2, <1>3, <2>1, <2>2, <2>3, NothingIsWritten DEF Claims, Touches, OneRow, GoesOn
  <2> QED BY <1>1, <1>2, <2>3, <2>4 DEF MediaTypeOK, MediaStep
<1>4. CASE Over(w) /\ UNCHANGED file
  BY <1>1, <1>4, OverDoes, NothingIsWritten DEF MediaTypeOK, MediaStep, Rests, Calm, OnlyRequest
<1> QED BY <1>3, <1>4 DEF ClaimProcessing

LEMMA StoreFinalObjectDoes ==
  ASSUME MediaTypeOK, NEW w \in Workers, StoreFinalObject(w)
  PROVE  MediaTypeOK' /\ MediaStep
<1> DEFINE a == work[w].file
           f == [file[a] EXCEPT !.object = TRUE]
<1>1. Works(w, "store") /\ ~Works(w, "rest") /\ UNCHANGED <<shown, ledger>>
  BY DEF StoreFinalObject, Works
<1>2. a \in Files /\ file[a] \in MediaRow  BY <1>1 DEF MediaTypeOK, WorkIsTyped, WellAsked, Works
<1>3. CASE file' = [file EXCEPT ![a].object = TRUE] /\ Step(w, "ready")
  <2>1. f \in MediaRow /\ f.status = file[a].status /\ f.late = file[a].late /\ f.keyed = file[a].keyed /\ f.object
    BY <1>2 DEF MediaRow
  <2>2. file' = [file EXCEPT ![a] = f]  BY <1>3
  <2> HIDE DEF f
  <2>3. file' \in [Files -> MediaRow] /\ file'[a] = f /\ AlikeRowsBut({a})
    BY <1>2, <2>1, <2>2, RowIsWritten
  <2>4. WorkIsTyped' /\ OthersKeepOn(w) /\ GoesOn(w, "ready")  BY <1>1, <1>3, SortReady, StepDoes
  <2>5. Stores(w, a)  BY <1>1, <1>2, <2>1, <2>3, <2>4, NothingIsWritten DEF Stores, Touches, OneRow
  <2> QED BY <1>1, <1>2, <2>3, <2>4, <2>5 DEF MediaTypeOK, MediaStep
<1>4. CASE Step(w, "failed") /\ UNCHANGED file
  <2>1. WorkIsTyped' /\ OthersKeepOn(w) /\ GoesOn(w, "failed")  BY <1>1, <1>4, SortFailed, StepDoes
  <2>2. IsRefused(w)
    BY <1>1, <1>2, <1>4, <2>1, NothingIsWritten DEF IsRefused, Ahead, Calm, OnlyRequest
  <2> QED BY <1>1, <1>4, <2>1, <2>2 DEF MediaTypeOK, MediaStep
<1> QED BY <1>3, <1>4 DEF StoreFinalObject

LEMMA MarkReadyDoes ==
  ASSUME MediaTypeOK, NEW w \in Workers, MarkReady(w)
  PROVE  MediaTypeOK' /\ MediaStep
<1> DEFINE a == work[w].file
           r == [work[w] EXCEPT !.at = "clean"]
           f == [file[a] EXCEPT !.status = "READY", !.keyed = TRUE, !.late = FALSE]
<1>1. Works(w, "ready") /\ ~Works(w, "rest") /\ UNCHANGED <<shown, ledger>>  BY DEF MarkReady, Works
<1>2. a \in Files /\ file[a] \in MediaRow  BY <1>1 DEF MediaTypeOK, WorkIsTyped, WellAsked, Works
<1>3. CASE Write(w, a, r, f)
  <2>1. /\ r \in MediaRequest /\ r.at = "clean" /\ r.file = work[w].file /\ r.place = work[w].place
        /\ r.previous = work[w].previous /\ WellAsked(r)
    BY <1>1, SortClean, AskGoesOn
  <2>2. f \in MediaRow /\ f.status = "READY" /\ ~f.late /\ f.object = file[a].object
    BY <1>2 DEF MediaRow, MediaStatuses
  <2> HIDE DEF r, f
  <2>3. /\ WorkIsTyped' /\ work'[w] = r /\ OthersKeepOn(w)
        /\ file' \in [Files -> MediaRow] /\ file'[a] = f /\ AlikeRowsBut({a})
    BY <1>2, <1>3, <2>1, <2>2, WriteDoes
  <2>4. Finishes(w, a)
    BY <1>1, <1>2, <2>1, <2>2, <2>3, NothingIsWritten DEF Finishes, Touches, OneRow, GoesOn
  <2> QED BY <1>1, <1>2, <2>3, <2>4 DEF MediaTypeOK, MediaStep
<1>4. CASE Step(w, "failed") /\ UNCHANGED file
  <2>1. WorkIsTyped' /\ OthersKeepOn(w) /\ GoesOn(w, "failed")  BY <1>1, <1>4, SortFailed, StepDoes
  <2>2. IsRefused(w)
    BY <1>1, <1>2, <1>4, <2>1, NothingIsWritten DEF IsRefused, Ahead, Calm, OnlyRequest
  <2> QED BY <1>1, <1>4, <2>1, <2>2 DEF MediaTypeOK, MediaStep
<1> QED BY <1>3, <1>4 DEF MarkReady

LEMMA DeleteTemporaryObjectDoes ==
  ASSUME MediaTypeOK, NEW w \in Workers, DeleteTemporaryObject(w)
  PROVE  MediaTypeOK' /\ MediaStep
<1> DEFINE a == work[w].file
           f == [file[a] EXCEPT !.upload = FALSE]
<1>1. Works(w, "clean") /\ UNCHANGED <<shown, ledger>> /\ Over(w)  BY DEF DeleteTemporaryObject
<1>2. a \in Files /\ file[a] \in MediaRow  BY <1>1 DEF MediaTypeOK, WorkIsTyped, WellAsked, Works
<1>3. f \in MediaRow /\ f.status = file[a].status /\ f.late = file[a].late /\ f.keyed = file[a].keyed /\ f.object = file[a].object
  BY <1>2 DEF MediaRow
<1>4. file' = [file EXCEPT ![a] = f]  BY DEF DeleteTemporaryObject
<1> HIDE DEF f
<1>5. file' \in [Files -> MediaRow] /\ file'[a] = f /\ AlikeRowsBut({a})
  BY <1>2, <1>3, <1>4, RowIsWritten
<1>6. AlikeRowsBut({})  BY <1>3, <1>5 DEF AlikeRowsBut, AlikeRow
<1> QED BY <1>1, <1>5, <1>6, OverDoes, NothingIsWritten DEF MediaTypeOK, MediaStep, Rests, Calm, OnlyRequest

LEMMA MarkFailedDoes ==
  ASSUME MediaTypeOK, NEW w \in Workers, MarkFailed(w)
  PROVE  MediaTypeOK' /\ MediaStep
<1> DEFINE a == work[w].file
           f == [file[a] EXCEPT !.status = "FAILED", !.late = FALSE]
<1>1. Works(w, "failed") /\ UNCHANGED <<shown, ledger>>  BY DEF MarkFailed
<1>2. a \in Files /\ file[a] \in MediaRow  BY <1>1 DEF MediaTypeOK, WorkIsTyped, WellAsked, Works
<1>3. CASE file[a].status = "PROCESSING" /\ Write(w, a, AtRestWork, f)
  <2>2. f \in MediaRow /\ f.status = "FAILED" /\ ~f.late /\ f.keyed = file[a].keyed /\ f.object = file[a].object
    BY <1>2 DEF MediaRow, MediaStatuses
  <2> HIDE DEF f
  <2>3. /\ WorkIsTyped' /\ work'[w] = AtRestWork /\ OthersKeepOn(w)
        /\ file' \in [Files -> MediaRow] /\ file'[a] = f /\ AlikeRowsBut({a})
    BY <1>2, <1>3, <2>2, WriteDoes, RestIsTyped
  <2>4. Fails(w, a)
    BY <1>1, <1>2, <1>3, <2>2, <2>3, NothingIsWritten, RestIsTyped DEF Fails, Touches, OneRow, ComesToRest
  <2> QED BY <1>1, <1>2, <2>3, <2>4 DEF MediaTypeOK, MediaStep
<1>4. CASE Over(w) /\ UNCHANGED file
  BY <1>1, <1>4, OverDoes, NothingIsWritten DEF MediaTypeOK, MediaStep, Rests, Calm, OnlyRequest
<1> QED BY <1>3, <1>4 DEF MarkFailed

LEMMA ReadAssetDoes ==
  ASSUME MediaTypeOK, NEW w \in Workers, ReadAsset(w)
  PROVE  MediaTypeOK' /\ MediaStep
<1> DEFINE a == work[w].file
<1>1. Works(w, "read") /\ UNCHANGED <<file, shown, ledger>>  BY DEF ReadAsset
<1>2. work[w] \in MediaRequest /\ a \in Files /\ file[a] \in MediaRow
  BY <1>1 DEF MediaTypeOK, WorkIsTyped, WellAsked, Works
<1>3. CASE Over(w)
  BY <1>1, <1>3, OverDoes, NothingIsWritten DEF MediaTypeOK, MediaStep, Rests, Calm, OnlyRequest
<1>4. ASSUME NEW s \in {"objects", "check"}, s = "objects" <=> file[a].status = "DELETING",
             file[a].status \notin {"DELETED", "PROCESSING"},
             Working(w, [work[w] EXCEPT !.at = s, !.status = file[a].status, !.same = TRUE])
      PROVE  MediaTypeOK' /\ MediaStep
  <2> DEFINE r == [work[w] EXCEPT !.at = s, !.status = file[a].status, !.same = TRUE]
  <2>1. /\ r \in MediaRequest /\ r.at = s /\ r.file = work[w].file /\ r.place = work[w].place
        /\ r.previous = work[w].previous /\ r.status = file[a].status /\ WellAsked(r)
    BY <1>2, SortObjects, SortCheck DEF MediaRequest, MediaRow, WellAsked
  <2> HIDE DEF r
  <2>2. WorkIsTyped' /\ work'[w] = r /\ OthersKeepOn(w)  BY <1>4, <2>1, WorkingDoes DEF r
  <2>3. Ahead(w, s)
    BY <1>1, <1>2, <2>1, <2>2, NothingIsWritten DEF Ahead, Calm, OnlyRequest, GoesOn
  <2>4. Reads(w) \/ ReadsMarked(w)  BY <1>1, <1>2, <1>4, <2>1, <2>2, <2>3 DEF Reads, ReadsMarked
  <2> QED BY <1>1, <2>2, <2>4 DEF MediaTypeOK, MediaStep
<1>5. CASE ~(Deleted(a) \/ file[a].status = "PROCESSING") /\ file[a].status = "DELETING"
  <2>1. Working(w, [work[w] EXCEPT !.at = "objects", !.status = file[a].status, !.same = TRUE])
    BY <1>5 DEF ReadAsset
  <2> QED BY <1>4, <1>5, <2>1 DEF Deleted
<1>6. CASE ~(Deleted(a) \/ file[a].status = "PROCESSING") /\ file[a].status # "DELETING"
  <2>1. Working(w, [work[w] EXCEPT !.at = "check", !.status = file[a].status, !.same = TRUE])
    BY <1>6 DEF ReadAsset
  <2> QED BY <1>4, <1>6, <2>1 DEF Deleted
<1> QED BY <1>3, <1>5, <1>6 DEF ReadAsset

LEMMA CheckUsesDoes ==
  ASSUME MediaTypeOK, NEW w \in Workers, CheckUses(w)
  PROVE  MediaTypeOK' /\ MediaStep
<1>1. Works(w, "check") /\ ~Works(w, "rest") /\ UNCHANGED <<file, shown, ledger>>
  BY DEF CheckUses, Works
<1>2. CASE Over(w)
  BY <1>1, <1>2, OverDoes, NothingIsWritten DEF MediaTypeOK, MediaStep, Rests, Calm, OnlyRequest
<1>3. CASE (work[w].status = "READY" => ~InUse(work[w].file)) /\ Step(w, "take")
  <2>1. WorkIsTyped' /\ OthersKeepOn(w) /\ GoesOn(w, "take") /\ work'[w].status = work[w].status /\ work[w].file \in Files
    BY <1>1, <1>3, SortTake, StepDoes
  <2>2. Checks(w)  BY <1>1, <1>3, <2>1, NothingIsWritten DEF Checks, Ahead, Calm, OnlyRequest
  <2> QED BY <1>1, <2>1, <2>2 DEF MediaTypeOK, MediaStep
<1> QED BY <1>2, <1>3 DEF CheckUses, AssertAssetNotInUse

LEMMA ClaimDeletionDoes ==
  ASSUME MediaTypeOK, NEW w \in Workers, ClaimDeletion(w)
  PROVE  MediaTypeOK' /\ MediaStep
<1> DEFINE a == work[w].file
           r == [work[w] EXCEPT !.at = "objects"]
           f == [file[a] EXCEPT !.status = "DELETING"]
<1>1. Works(w, "take") /\ ~Works(w, "rest") /\ UNCHANGED <<shown, ledger>>  BY DEF ClaimDeletion, Works
<1>2. a \in Files /\ file[a] \in MediaRow  BY <1>1 DEF MediaTypeOK, WorkIsTyped, WellAsked, Works
<1>3. CASE file[a].status = work[w].status /\ Write(w, a, r, f)
  <2>1. /\ r \in MediaRequest /\ r.at = "objects" /\ r.file = work[w].file /\ r.place = work[w].place
        /\ r.previous = work[w].previous /\ WellAsked(r)
    BY <1>1, SortObjects, AskGoesOn
  <2>2. /\ f \in MediaRow /\ f.status = "DELETING" /\ f.late = file[a].late /\ f.object = file[a].object
        /\ f.keyed = file[a].keyed
    BY <1>2 DEF MediaRow, MediaStatuses
  <2> HIDE DEF r, f
  <2>3. /\ WorkIsTyped' /\ work'[w] = r /\ OthersKeepOn(w)
        /\ file' \in [Files -> MediaRow] /\ file'[a] = f /\ AlikeRowsBut({a})
    BY <1>2, <1>3, <2>1, <2>2, WriteDoes
  <2>4. Condemns(w, a)
    BY <1>1, <1>2, <1>3, <2>1, <2>2, <2>3, NothingIsWritten DEF Condemns, Touches, OneRow, GoesOn
  <2> QED BY <1>1, <1>2, <2>3, <2>4 DEF MediaTypeOK, MediaStep
<1>4. CASE Step(w, "read") /\ UNCHANGED file
  <2>1. WorkIsTyped' /\ OthersKeepOn(w) /\ GoesOn(w, "read")  BY <1>1, <1>4, SortRead, StepDoes
  <2>2. ReadsAgain(w)
    BY <1>1, <1>2, <1>4, <2>1, NothingIsWritten DEF ReadsAgain, Ahead, Calm, OnlyRequest
  <2> QED BY <1>1, <1>4, <2>1, <2>2 DEF MediaTypeOK, MediaStep
<1> QED BY <1>3, <1>4 DEF ClaimDeletion

LEMMA DeleteObjectsDoes ==
  ASSUME MediaTypeOK, NEW w \in Workers, DeleteObjects(w)
  PROVE  MediaTypeOK' /\ MediaStep
<1> DEFINE a == work[w].file
           f == [file[a] EXCEPT !.object = file[a].object /\ ~file[a].keyed, !.upload = FALSE]
<1>1. Works(w, "objects") /\ ~Works(w, "rest") /\ UNCHANGED <<shown, ledger>>
  BY DEF DeleteObjects, Works
<1>2. a \in Files /\ file[a] \in MediaRow /\ file \in [Files -> MediaRow]
  BY <1>1 DEF MediaTypeOK, WorkIsTyped, WellAsked, Works
<1>3. CASE file' = [file EXCEPT ![a].object = @ /\ ~file[a].keyed, ![a].upload = FALSE] /\ Step(w, "mark")
  <2>1. /\ f \in MediaRow /\ f.status = file[a].status /\ f.late = file[a].late /\ f.keyed = file[a].keyed
        /\ f.object <=> (file[a].object /\ ~file[a].keyed)
    BY <1>2 DEF MediaRow
  <2>2. file' = [file EXCEPT ![a] = f]  BY <1>2, <1>3
  <2> HIDE DEF f
  <2>3. file' \in [Files -> MediaRow] /\ file'[a] = f /\ AlikeRowsBut({a})
    BY <1>2, <2>1, <2>2, RowIsWritten
  <2>4. WorkIsTyped' /\ OthersKeepOn(w) /\ GoesOn(w, "mark")  BY <1>1, <1>3, SortMark, StepDoes
  <2>5. Empties(w, a)  BY <1>1, <1>2, <2>1, <2>3, <2>4, NothingIsWritten DEF Empties, Touches, OneRow
  <2> QED BY <1>1, <1>2, <2>3, <2>4, <2>5 DEF MediaTypeOK, MediaStep
<1>4. CASE Over(w) /\ UNCHANGED file
  BY <1>1, <1>4, OverDoes, NothingIsWritten DEF MediaTypeOK, MediaStep, Rests, Calm, OnlyRequest
<1> QED BY <1>3, <1>4 DEF DeleteObjects

LEMMA MarkDeletedDoes ==
  ASSUME MediaTypeOK, NEW w \in Workers, MarkDeleted(w)
  PROVE  MediaTypeOK' /\ MediaStep
<1> DEFINE a == work[w].file
           f == [file[a] EXCEPT !.status = "DELETED"]
<1>1. Works(w, "mark") /\ UNCHANGED <<shown, ledger>>  BY DEF MarkDeleted
<1>2. a \in Files /\ file[a] \in MediaRow  BY <1>1 DEF MediaTypeOK, WorkIsTyped, WellAsked, Works
<1>3. CASE file[a].status = "DELETING" /\ Write(w, a, AtRestWork, f)
  <2>2. /\ f \in MediaRow /\ f.status = "DELETED" /\ f.late = file[a].late /\ f.keyed = file[a].keyed
        /\ f.object = file[a].object
    BY <1>2 DEF MediaRow, MediaStatuses
  <2> HIDE DEF f
  <2>3. /\ WorkIsTyped' /\ work'[w] = AtRestWork /\ OthersKeepOn(w)
        /\ file' \in [Files -> MediaRow] /\ file'[a] = f /\ AlikeRowsBut({a})
    BY <1>2, <1>3, <2>2, WriteDoes, RestIsTyped
  <2>4. Deletes(w, a)
    BY <1>1, <1>2, <1>3, <2>2, <2>3, NothingIsWritten, RestIsTyped DEF Deletes, Touches, OneRow, ComesToRest
  <2> QED BY <1>1, <1>2, <2>3, <2>4 DEF MediaTypeOK, MediaStep
<1>4. CASE Over(w) /\ UNCHANGED file
  BY <1>1, <1>4, OverDoes, NothingIsWritten DEF MediaTypeOK, MediaStep, Rests, Calm, OnlyRequest
<1> QED BY <1>3, <1>4 DEF MarkDeleted

LEMMA FinalizeUploadDoes ==
  ASSUME MediaTypeOK, NEW w \in Workers, NEW a \in Files, FinalizeUpload(w, a)
  PROVE  MediaTypeOK' /\ MediaStep
<1> DEFINE r == [AtRestWork EXCEPT !.at = "claim", !.file = a]
<1>1. /\ r \in MediaRequest /\ r.at = "claim" /\ r.file = a /\ r.previous = Nothing /\ WellAsked(r)
  BY SortClaim, SortRest DEF AtRestWork, MediaRequest, WellAsked, MediaStatuses
<1>2. Begun(w, "finalize") /\ Working(w, r) /\ UNCHANGED <<file, shown, ledger>>
      /\ file[a].status \notin {"NONE", "READY", "DELETED"}
  BY DEF FinalizeUpload, IsStored, IsReady, Deleted
<1> HIDE DEF r
<1>3. WorkIsTyped' /\ work'[w] = r /\ OthersKeepOn(w)  BY <1>1, <1>2, WorkingDoes
<1>4. Finalizes(w)
  BY <1>1, <1>2, <1>3, NothingIsWritten DEF Finalizes, BeginsAt, Calm, OnlyRequest, Begun, MediaTurn
<1> QED BY <1>2, <1>3, <1>4 DEF MediaTypeOK, MediaStep

LEMMA DeleteAssetOfDoes ==
  ASSUME MediaTypeOK, NEW w \in Workers, NEW a \in Files, DeleteAssetOf(w, a)
  PROVE  MediaTypeOK' /\ MediaStep
<1>1. Begun(w, "delete") /\ Working(w, ThenDelete(w, a)) /\ UNCHANGED <<file, shown, ledger>> /\ IsStored(a)
  BY DEF DeleteAssetOf
<1>2. WorkIsTyped' /\ OthersKeepOn(w) /\ work'[w].at = "read" /\ work'[w].file = a /\ work'[w].previous = Nothing
  BY <1>1, ThenDeleteDoes
<1>3. AsksDeletion(w)
  BY <1>1, <1>2, NothingIsWritten DEF AsksDeletion, BeginsAt, Calm, OnlyRequest, Begun, MediaTurn
<1> QED BY <1>1, <1>2, <1>3 DEF MediaTypeOK, MediaStep

LEMMA StartAttachDoes ==
  ASSUME MediaTypeOK, NEW w \in Workers, NEW p \in Places, NEW a \in Files, StartAttach(w, p, a)
  PROVE  MediaTypeOK' /\ MediaStep
<1> DEFINE s == IF EntityOf(p) # Nothing /\ file[a].place # p THEN "bind" ELSE "show"
           r == [AtRestWork EXCEPT !.file = a, !.place = p, !.previous = shown[p], !.at = s]
<1>1. shown[p] \in Files \cup {Nothing, Legacy, "gone"} /\ s \in MediaSteps /\ (s = "bind" \/ s = "show")
  BY SortBind, SortShow DEF MediaTypeOK
<1>2. Begun(w, "attach") /\ Working(w, r) /\ UNCHANGED <<file, shown, ledger>> /\ IsReady(a)
  BY DEF StartAttach, BindReadyAsset
<1> HIDE DEF s
<1>3. /\ r \in MediaRequest /\ r.at = s /\ r.file = a /\ r.place = p /\ r.previous = shown[p] /\ WellAsked(r)
  BY <1>1, SortBind, SortShow, SortRest DEF AtRestWork, MediaRequest, WellAsked, MediaStatuses
<1> HIDE DEF r
<1>4. WorkIsTyped' /\ work'[w] = r /\ OthersKeepOn(w)  BY <1>2, <1>3, WorkingDoes
<1>5. AsksPlace(w, s)
  BY <1>1, <1>2, <1>3, <1>4, NothingIsWritten DEF AsksPlace, BeginsAt, Calm, OnlyRequest, Begun, MediaTurn
<1>6. AsksPlace(w, "bind") \/ AsksPlace(w, "show")  BY <1>1, <1>5
<1> QED BY <1>2, <1>4, <1>6 DEF MediaTypeOK, MediaStep

LEMMA BindEntityDoes ==
  ASSUME MediaTypeOK, NEW w \in Workers, BindEntity(w)
  PROVE  MediaTypeOK' /\ MediaStep
<1> DEFINE a == work[w].file
           r == [work[w] EXCEPT !.at = "show"]
           f == [file[a] EXCEPT !.place = work[w].place]
<1>1. Works(w, "bind") /\ ~Works(w, "rest") /\ UNCHANGED <<shown, ledger>> /\ Write(w, a, r, f)
  BY DEF BindEntity, Works
<1>2. a \in Files /\ file[a] \in MediaRow /\ work[w].place \in Places
  BY <1>1, SortBind DEF MediaTypeOK, WorkIsTyped, WellAsked, Works
<1>3. /\ r \in MediaRequest /\ r.at = "show" /\ r.file = work[w].file /\ r.place = work[w].place
      /\ r.previous = work[w].previous /\ WellAsked(r)
  BY <1>1, <1>2, SortShow, AskGoesOn
<1>4. /\ f \in MediaRow /\ f.status = file[a].status /\ f.late = file[a].late /\ f.object = file[a].object
      /\ f.keyed = file[a].keyed
  BY <1>2 DEF MediaRow
<1> HIDE DEF r, f
<1>5. /\ WorkIsTyped' /\ work'[w] = r /\ OthersKeepOn(w)
      /\ file' \in [Files -> MediaRow] /\ file'[a] = f /\ AlikeRowsBut({a})
  BY <1>1, <1>2, <1>3, <1>4, WriteDoes
<1>6. AlikeRowsBut({})  BY <1>4, <1>5 DEF AlikeRowsBut, AlikeRow
<1>7. IsBound(w)
  BY <1>1, <1>2, <1>3, <1>5, <1>6, NothingIsWritten DEF IsBound, Ahead, Calm, OnlyRequest, GoesOn
<1> QED BY <1>1, <1>5, <1>7 DEF MediaTypeOK, MediaStep

LEMMA ShowIsTyped ==
  ASSUME MediaTypeOK, NEW p \in Places, NEW a \in Files \cup {Nothing, "gone"}, shown' = [shown EXCEPT ![p] = a]
  PROVE  shown' \in [Places -> Files \cup {Nothing, Legacy, "gone"}] /\ Shows(p, a)
  BY DEF MediaTypeOK, Shows

LEMMA CreateExpenseDoes ==
  ASSUME MediaTypeOK, NEW w \in Workers, NEW p \in Places, NEW a \in Files, CreateExpense(w, p, a)
  PROVE  MediaTypeOK' /\ MediaStep
<1> DEFINE f == [file[a] EXCEPT !.place = p]
<1>1. Begun(w, "attach") /\ UNCHANGED ledger /\ shown[p] = Nothing /\ IsReady(a)  BY DEF CreateExpense
<1>2. file[a] \in MediaRow  BY DEF MediaTypeOK
<1>3. CASE shown' = [shown EXCEPT ![p] = a] /\ Write(w, a, AtRestWork, f)
  <2>1. /\ f \in MediaRow /\ f.status = file[a].status /\ f.late = file[a].late /\ f.object = file[a].object
        /\ f.keyed = file[a].keyed
    BY <1>2 DEF MediaRow
  <2> HIDE DEF f
  <2>2. /\ WorkIsTyped' /\ work'[w] = AtRestWork /\ OthersKeepOn(w)
        /\ file' \in [Files -> MediaRow] /\ file'[a] = f /\ AlikeRowsBut({a})
    BY <1>3, <2>1, WriteDoes, RestIsTyped
  <2>3. AlikeRowsBut({})  BY <2>1, <2>2 DEF AlikeRowsBut, AlikeRow
  <2>4. shown' \in [Places -> Files \cup {Nothing, Legacy, "gone"}] /\ Shows(p, a)  BY <1>3, ShowIsTyped
  <2>5. Takes(w, p, a)
    BY <1>1, <2>2, <2>3, <2>4, NothingIsWritten, RestIsTyped DEF Takes, OnlyRequest, Begun, MediaTurn, ComesToRest
  <2> QED BY <1>1, <2>2, <2>4, <2>5 DEF MediaTypeOK, MediaStep
<1>4. CASE Working(w, ThenDelete(w, a)) /\ UNCHANGED <<file, shown>>
  <2>1. WorkIsTyped' /\ OthersKeepOn(w) /\ work'[w].at = "read" /\ work'[w].file = a /\ work'[w].previous = Nothing
    BY <1>4, ThenDeleteDoes
  <2>2. AsksDeletion(w)
    BY <1>1, <1>4, <2>1, NothingIsWritten DEF AsksDeletion, BeginsAt, Calm, OnlyRequest, Begun, MediaTurn, IsReady, IsStored
  <2> QED BY <1>1, <1>4, <2>1, <2>2 DEF MediaTypeOK, MediaStep
<1> QED BY <1>3, <1>4 DEF CreateExpense

LEMMA SubmitPaymentProofDoes ==
  ASSUME MediaTypeOK, NEW w \in Workers, NEW p \in Places, NEW a \in Files, SubmitPaymentProof(w, p, a)
  PROVE  MediaTypeOK' /\ MediaStep
<1> DEFINE r == [AtRestWork EXCEPT !.at = "bindProof", !.file = a, !.place = p]
<1>1. Begun(w, "attach") /\ UNCHANGED <<file, ledger>> /\ shown[p] = Nothing /\ IsReady(a)
  BY DEF SubmitPaymentProof
<1>3. CASE shown' = [shown EXCEPT ![p] = a] /\ Working(w, r)
  <2>1. /\ r \in MediaRequest /\ r.at = "bindProof" /\ r.file = a /\ r.place = p /\ r.previous = Nothing /\ WellAsked(r)
    BY SortBindProof, SortRest DEF AtRestWork, MediaRequest, WellAsked, MediaStatuses
  <2> HIDE DEF r
  <2>2. WorkIsTyped' /\ work'[w] = r /\ OthersKeepOn(w)  BY <1>3, <2>1, WorkingDoes
  <2>4. shown' \in [Places -> Files \cup {Nothing, Legacy, "gone"}] /\ Shows(p, a)  BY <1>3, ShowIsTyped
  <2>5. Takes(w, p, a)
    BY <1>1, <2>1, <2>2, <2>4, NothingIsWritten DEF Takes, OnlyRequest, Begun, MediaTurn
  <2> QED BY <1>1, <2>2, <2>4, <2>5 DEF MediaTypeOK, MediaStep
<1>4. CASE Working(w, ThenDelete(w, a)) /\ UNCHANGED shown
  <2>1. WorkIsTyped' /\ OthersKeepOn(w) /\ work'[w].at = "read" /\ work'[w].file = a /\ work'[w].previous = Nothing
    BY <1>4, ThenDeleteDoes
  <2>2. AsksDeletion(w)
    BY <1>1, <1>4, <2>1, NothingIsWritten DEF AsksDeletion, BeginsAt, Calm, OnlyRequest, Begun, MediaTurn, IsReady, IsStored
  <2> QED BY <1>1, <1>4, <2>1, <2>2 DEF MediaTypeOK, MediaStep
<1> QED BY <1>3, <1>4 DEF SubmitPaymentProof

LEMMA BindProofDoes ==
  ASSUME MediaTypeOK, NEW w \in Workers, BindProof(w)
  PROVE  MediaTypeOK' /\ MediaStep
<1> DEFINE a == work[w].file
           f == [file[a] EXCEPT !.place = work[w].place]
<1>1. Works(w, "bindProof") /\ ~Works(w, "rest") /\ UNCHANGED <<shown, ledger>>  BY DEF BindProof, Works
<1>2. a \in Files /\ file[a] \in MediaRow /\ work[w].place \in Places
  BY <1>1, SortBindProof DEF MediaTypeOK, WorkIsTyped, WellAsked, Works
<1>3. CASE Write(w, a, AtRestWork, f)
  <2>1. /\ f \in MediaRow /\ f.status = file[a].status /\ f.late = file[a].late /\ f.object = file[a].object
        /\ f.keyed = file[a].keyed
    BY <1>2 DEF MediaRow
  <2> HIDE DEF f
  <2>2. /\ WorkIsTyped' /\ work'[w] = AtRestWork /\ OthersKeepOn(w)
        /\ file' \in [Files -> MediaRow] /\ file'[a] = f /\ AlikeRowsBut({a})
    BY <1>2, <1>3, <2>1, WriteDoes, RestIsTyped
  <2>3. AlikeRowsBut({})  BY <2>1, <2>2 DEF AlikeRowsBut, AlikeRow
  <2>4. Rests(w)
    BY <1>1, <2>2, <2>3, NothingIsWritten, RestIsTyped DEF Rests, Calm, OnlyRequest, ComesToRest
  <2> QED BY <1>1, <2>2, <2>4 DEF MediaTypeOK, MediaStep
<1>4. CASE Over(w) /\ UNCHANGED file
  BY <1>1, <1>4, OverDoes, NothingIsWritten DEF MediaTypeOK, MediaStep, Rests, Calm, OnlyRequest
<1> QED BY <1>3, <1>4 DEF BindProof

LEMMA UploadFromServerDoes ==
  ASSUME MediaTypeOK, NEW w \in Workers, NEW p \in Places, NEW a \in Files, UploadFromServer(w, p, a)
  PROVE  MediaTypeOK' /\ MediaStep
<1> DEFINE r == [AtRestWork EXCEPT !.at = "create", !.file = a, !.place = p, !.previous = shown[p]]
           f == [file[a] EXCEPT !.object = TRUE]
<1>1. /\ Begun(w, "upload") /\ a \in Fresh /\ Working(w, r) /\ file' = [file EXCEPT ![a].object = TRUE]
      /\ UNCHANGED <<shown, ledger>>
  BY DEF UploadFromServer
<1>2. shown[p] \in Files \cup {Nothing, Legacy, "gone"} /\ file[a] \in MediaRow  BY DEF MediaTypeOK
<1>3. /\ r \in MediaRequest /\ r.at = "create" /\ r.file = a /\ r.place = p /\ r.previous = shown[p] /\ WellAsked(r)
  BY <1>2, SortCreate, SortRest DEF AtRestWork, MediaRequest, WellAsked, MediaStatuses
<1>4. /\ f \in MediaRow /\ f.status = file[a].status /\ f.late = file[a].late /\ f.object
      /\ f.keyed = file[a].keyed
  BY <1>2 DEF MediaRow
<1>5. file' = [file EXCEPT ![a] = f]  BY <1>1
<1> HIDE DEF r, f
<1>6. WorkIsTyped' /\ work'[w] = r /\ OthersKeepOn(w)  BY <1>1, <1>3, WorkingDoes
<1>7. file' \in [Files -> MediaRow] /\ file'[a] = f /\ AlikeRowsBut({a})  BY <1>4, <1>5, RowIsWritten
<1>8. Uploads(w, a)
  BY <1>1, <1>3, <1>4, <1>6, <1>7, NothingIsWritten DEF Uploads, OneRow, Begun, MediaTurn
<1> QED BY <1>1, <1>6, <1>7, <1>8 DEF MediaTypeOK, MediaStep

LEMMA CreateReadyRowDoes ==
  ASSUME MediaTypeOK, NEW w \in Workers, CreateReadyRow(w)
  PROVE  MediaTypeOK' /\ MediaStep
<1> DEFINE a == work[w].file
           r == [work[w] EXCEPT !.at = "show"]
           f == [file[a] EXCEPT !.status = "READY", !.keyed = TRUE, !.place = EntityOf(work[w].place)]
<1>1. Works(w, "create") /\ ~Works(w, "rest") /\ UNCHANGED <<shown, ledger>>
  BY DEF CreateReadyRow, Works
<1>2. a \in Files /\ file[a] \in MediaRow /\ work[w].place \in Places
  BY <1>1, SortCreate DEF MediaTypeOK, WorkIsTyped, WellAsked, Works
<1>3. CASE Write(w, a, r, f)
  <2>1. /\ r \in MediaRequest /\ r.at = "show" /\ r.file = work[w].file /\ r.place = work[w].place
        /\ r.previous = work[w].previous /\ WellAsked(r)
    BY <1>1, <1>2, SortShow, AskGoesOn
  <2>2. f \in MediaRow /\ f.status = "READY" /\ f.late = file[a].late /\ f.object = file[a].object
    BY <1>2 DEF MediaRow, MediaStatuses, EntityOf
  <2> HIDE DEF r, f
  <2>3. /\ WorkIsTyped' /\ work'[w] = r /\ OthersKeepOn(w)
        /\ file' \in [Files -> MediaRow] /\ file'[a] = f /\ AlikeRowsBut({a})
    BY <1>2, <1>3, <2>1, <2>2, WriteDoes
  <2>4. Creates(w, a)
    BY <1>1, <1>2, <2>1, <2>2, <2>3, NothingIsWritten DEF Creates, Touches, OneRow, GoesOn
  <2> QED BY <1>1, <1>2, <2>3, <2>4 DEF MediaTypeOK, MediaStep
<1>4. CASE Over(w) /\ UNCHANGED file
  BY <1>1, <1>4, OverDoes, NothingIsWritten DEF MediaTypeOK, MediaStep, Rests, Calm, OnlyRequest
<1> QED BY <1>3, <1>4 DEF CreateReadyRow

LEMMA ShowFileDoes ==
  ASSUME MediaTypeOK, NEW w \in Workers, ShowFile(w)
  PROVE  MediaTypeOK' /\ MediaStep
<1> DEFINE a == work[w].file
           p == work[w].place
<1>1. Works(w, "show") /\ ~Works(w, "rest") /\ UNCHANGED <<file, ledger>>  BY DEF ShowFile, Works
<1>2. a \in Files /\ p \in Places  BY <1>1, SortShow DEF MediaTypeOK, WorkIsTyped, WellAsked, Works
<1>3. CASE shown' = [shown EXCEPT ![p] = a] /\ Working(w, Replaced(w))
  <2>1. /\ WorkIsTyped' /\ OthersKeepOn(w)
        /\ \/ ComesToRest(w)
           \/ /\ work'[w].at = "read" /\ work'[w].file = work[w].previous /\ work'[w].previous = Nothing
              /\ work[w].previous \in Files \ {a}
    <3>1. CASE work[w].previous # a  BY <1>3, <3>1, ThenDeleteDoes DEF Replaced
    <3>2. CASE work[w].previous = a  BY <1>3, <3>2, OverDoes DEF Replaced, Over
    <3> QED BY <3>1, <3>2
  <2>2. shown' \in [Places -> Files \cup {Nothing, Legacy, "gone"}] /\ Shows(p, a)
    BY <1>2, <1>3, ShowIsTyped
  <2>3. Displays(w, p, a)  BY <1>1, <1>2, <2>1, <2>2, NothingIsWritten DEF Displays, OnlyRequest
  <2> QED BY <1>1, <1>2, <2>1, <2>2, <2>3 DEF MediaTypeOK, MediaStep
<1>4. CASE Working(w, ThenDelete(w, a)) /\ UNCHANGED shown
  <2>1. WorkIsTyped' /\ OthersKeepOn(w) /\ work'[w].at = "read" /\ work'[w].file = a /\ work'[w].previous = Nothing
    BY <1>2, <1>4, ThenDeleteDoes
  <2>2. GivesUp(w)  BY <1>1, <1>2, <1>4, <2>1, NothingIsWritten DEF GivesUp, Calm, OnlyRequest
  <2> QED BY <1>1, <1>4, <2>1, <2>2 DEF MediaTypeOK, MediaStep
<1> QED BY <1>3, <1>4 DEF ShowFile

LEMMA ForgetDoes ==
  ASSUME MediaTypeOK, NEW w \in Workers, NEW p \in Places, NEW left \in {Nothing, "gone"}, Forget(w, p, left)
  PROVE  MediaTypeOK' /\ MediaStep
<1>1. Begun(w, "clear") /\ shown[p] \in Files /\ UNCHANGED <<file, ledger>> /\ Working(w, ThenDelete(w, shown[p]))
  BY DEF Forget
<1>2. /\ WorkIsTyped' /\ OthersKeepOn(w) /\ work'[w].at = "read" /\ work'[w].file = shown[p]
      /\ work'[w].previous = Nothing
  BY <1>1, ThenDeleteDoes
<1>3. shown' \in [Places -> Files \cup {Nothing, Legacy, "gone"}] /\ Shows(p, left)
  BY ShowIsTyped DEF Forget
<1>4. Forgets(w, p)
  BY <1>1, <1>2, <1>3, NothingIsWritten DEF Forgets, OnlyRequest, Begun, MediaTurn
<1> QED BY <1>1, <1>2, <1>3, <1>4 DEF MediaTypeOK, MediaStep

LEMMA MigrateSourceDoes ==
  ASSUME MediaTypeOK, NEW w \in Workers, NEW p \in Places, NEW a \in Files, MigrateSource(w, p, a)
  PROVE  MediaTypeOK' /\ MediaStep
<1>1. /\ Begun(w, "migrate") /\ shown[p] = Legacy /\ MayMigrateTo(p, a) /\ UNCHANGED <<file, shown>>
      /\ \A v \in Workers : ~Migrates(v)
  BY DEF MigrateSource, Migrating, Migrates, MigrationSteps
<1>2. CASE /\ ledger[p].status = "MIGRATED" /\ IsReady(a) /\ UNCHANGED ledger
           /\ Working(w, [AtRestWork EXCEPT !.at = "migrated", !.file = a, !.place = p])
  <2> DEFINE r == [AtRestWork EXCEPT !.at = "migrated", !.file = a, !.place = p]
  <2>1. /\ r \in MediaRequest /\ r.at = "migrated" /\ r.file = a /\ r.place = p /\ r.previous = Nothing /\ WellAsked(r)
    BY SortMigrated, SortRest DEF AtRestWork, MediaRequest, WellAsked, MediaStatuses
  <2>2. Working(w, r)  BY <1>2
  <2> HIDE DEF r
  <2>3. WorkIsTyped' /\ work'[w] = r /\ OthersKeepOn(w)  BY <2>1, <2>2, WorkingDoes
  <2>4. ledger[p].file = a
    <3>1. CASE ledger[p].file # Nothing  BY <1>1, <3>1 DEF MayMigrateTo
    <3>2. CASE ledger[p].file = Nothing  BY <1>1, <1>2, <3>2 DEF MayMigrateTo, Fresh, IsStored, IsReady
    <3> QED BY <3>1, <3>2
  <2>5. FindsMigrated(w)
    BY <1>1, <1>2, <2>1, <2>3, <2>4, NothingIsWritten
    DEF FindsMigrated, BeginsAt, Calm, OnlyRequest, Begun, MediaTurn
  <2> QED BY <1>1, <1>2, <2>3, <2>5 DEF MediaTypeOK, MediaStep
<1>3. CASE /\ ledger' = [ledger EXCEPT ![p] = [status |-> "PROCESSING", file |-> a]]
           /\ Working(w, [AtRestWork EXCEPT !.at = "fetch", !.file = a, !.place = p])
  <2> DEFINE r == [AtRestWork EXCEPT !.at = "fetch", !.file = a, !.place = p]
  <2>1. /\ r \in MediaRequest /\ r.at = "fetch" /\ r.file = a /\ r.place = p /\ r.previous = Nothing /\ WellAsked(r)
    BY SortFetch, SortRest DEF AtRestWork, MediaRequest, WellAsked, MediaStatuses
  <2>2. Working(w, r)  BY <1>3
  <2> HIDE DEF r
  <2>3. WorkIsTyped' /\ work'[w] = r /\ OthersKeepOn(w)  BY <2>1, <2>2, WorkingDoes
  <2>4. ledger' \in [Places -> [status : {"NONE", "PROCESSING", "MIGRATED", "FAILED"}, file : Files \cup {Nothing}]]
    BY <1>3 DEF MediaTypeOK
  <2>5. \A q \in Places : ledger'[q].file = IF q = p THEN a ELSE ledger[q].file  BY <1>3 DEF MediaTypeOK
  <2>6. Plans(w, p, a)  BY <1>1, <2>1, <2>3, <2>5, NothingIsWritten DEF Plans, Begun, MediaTurn
  <2> QED BY <1>1, <2>3, <2>4, <2>6 DEF MediaTypeOK, MediaStep
<1> QED BY <1>2, <1>3 DEF MigrateSource

LEMMA FetchLegacyObjectDoes ==
  ASSUME MediaTypeOK, NEW w \in Workers, FetchLegacyObject(w)
  PROVE  MediaTypeOK' /\ MediaStep
<1> DEFINE a == work[w].file
           f == [file[a] EXCEPT !.object = TRUE]
<1>1. Works(w, "fetch") /\ ~Works(w, "rest") /\ UNCHANGED <<shown, ledger>>
  BY DEF FetchLegacyObject, Works
<1>2. a \in Files /\ file[a] \in MediaRow /\ work[w].place \in Places
  BY <1>1, SortFetch DEF MediaTypeOK, WorkIsTyped, WellAsked, Works
<1>3. CASE ~IsReady(a) /\ file' = [file EXCEPT ![a].object = TRUE] /\ Step(w, "migrateRow")
  <2>1. f \in MediaRow /\ f.status = file[a].status /\ f.late = file[a].late /\ f.keyed = file[a].keyed /\ f.object
    BY <1>2 DEF MediaRow
  <2>2. file' = [file EXCEPT ![a] = f]  BY <1>3
  <2> HIDE DEF f
  <2>3. file' \in [Files -> MediaRow] /\ file'[a] = f /\ AlikeRowsBut({a})
    BY <1>2, <2>1, <2>2, RowIsWritten
  <2>4. WorkIsTyped' /\ OthersKeepOn(w) /\ GoesOn(w, "migrateRow")
    BY <1>1, <1>2, <1>3, SortMigrateRow, StepDoes
  <2>5. Fetches(w, a)
    BY <1>1, <1>2, <1>3, <2>1, <2>3, <2>4, NothingIsWritten DEF Fetches, Touches, OneRow
  <2> QED BY <1>1, <1>2, <2>3, <2>4, <2>5 DEF MediaTypeOK, MediaStep
<1>4. CASE IsReady(a) /\ UNCHANGED file /\ Step(w, "verify")
  <2>1. WorkIsTyped' /\ OthersKeepOn(w) /\ GoesOn(w, "verify")
    BY <1>1, <1>2, <1>4, SortVerify, StepDoes
  <2>2. FindsCopy(w)
    BY <1>1, <1>2, <1>4, <2>1, NothingIsWritten DEF FindsCopy, Ahead, Calm, OnlyRequest
  <2> QED BY <1>1, <1>4, <2>1, <2>2 DEF MediaTypeOK, MediaStep
<1>5. CASE Step(w, "markFailure") /\ UNCHANGED file
  <2>1. WorkIsTyped' /\ OthersKeepOn(w) /\ GoesOn(w, "markFailure")
    BY <1>1, <1>2, <1>5, SortMarkFailure, StepDoes
  <2>2. IsNotCopied(w)
    BY <1>1, <1>2, <1>5, <2>1, NothingIsWritten DEF IsNotCopied, Ahead, Calm, OnlyRequest
  <2> QED BY <1>1, <1>5, <2>1, <2>2 DEF MediaTypeOK, MediaStep
<1> QED BY <1>3, <1>4, <1>5 DEF FetchLegacyObject

LEMMA CreateMigratedRowDoes ==
  ASSUME MediaTypeOK, NEW w \in Workers, CreateMigratedRow(w)
  PROVE  MediaTypeOK' /\ MediaStep
<1> DEFINE a == work[w].file
           r == [work[w] EXCEPT !.at = "verify"]
           f == [file[a] EXCEPT !.status = "READY", !.keyed = TRUE, !.place = work[w].place]
<1>1. Works(w, "migrateRow") /\ ~Works(w, "rest") /\ UNCHANGED <<shown, ledger>>
  BY DEF CreateMigratedRow, Works
<1>2. a \in Files /\ file[a] \in MediaRow /\ work[w].place \in Places
  BY <1>1, SortMigrateRow DEF MediaTypeOK, WorkIsTyped, WellAsked, Works
<1>3. CASE ~IsStored(a) /\ Write(w, a, r, f)
  <2>1. /\ r \in MediaRequest /\ r.at = "verify" /\ r.file = work[w].file /\ r.place = work[w].place
        /\ r.previous = work[w].previous /\ WellAsked(r)
    BY <1>1, <1>2, SortVerify, AskGoesOn
  <2>2. f \in MediaRow /\ f.status = "READY" /\ f.late = file[a].late /\ f.object = file[a].object
    BY <1>2 DEF MediaRow, MediaStatuses
  <2> HIDE DEF r, f
  <2>3. /\ WorkIsTyped' /\ work'[w] = r /\ OthersKeepOn(w)
        /\ file' \in [Files -> MediaRow] /\ file'[a] = f /\ AlikeRowsBut({a})
    BY <1>2, <1>3, <2>1, <2>2, WriteDoes
  <2>4. Copies(w, a)
    BY <1>1, <1>2, <1>3, <2>1, <2>2, <2>3, NothingIsWritten DEF Copies, Touches, OneRow, GoesOn
  <2> QED BY <1>1, <1>2, <2>3, <2>4 DEF MediaTypeOK, MediaStep
<1>4. CASE Step(w, "markFailure") /\ UNCHANGED file
  <2>1. WorkIsTyped' /\ OthersKeepOn(w) /\ GoesOn(w, "markFailure")
    BY <1>1, <1>2, <1>4, SortMarkFailure, StepDoes
  <2>2. IsNotCopied(w)
    BY <1>1, <1>2, <1>4, <2>1, NothingIsWritten DEF IsNotCopied, Ahead, Calm, OnlyRequest
  <2> QED BY <1>1, <1>4, <2>1, <2>2 DEF MediaTypeOK, MediaStep
<1> QED BY <1>3, <1>4 DEF CreateMigratedRow

LEMMA LedgerIsMarked ==
  ASSUME MediaTypeOK, NEW p \in Places, NEW s \in {"MIGRATED", "FAILED"}, ledger' = [ledger EXCEPT ![p].status = s]
  PROVE  /\ ledger' \in [Places -> [status : {"NONE", "PROCESSING", "MIGRATED", "FAILED"}, file : Files \cup {Nothing}]]
         /\ SameLedger
  BY DEF MediaTypeOK, SameLedger

LEMMA VerifyMigratedDoes ==
  ASSUME MediaTypeOK, NEW w \in Workers, VerifyMigrated(w)
  PROVE  MediaTypeOK' /\ MediaStep
<1>1. Works(w, "verify") /\ ~Works(w, "rest") /\ UNCHANGED <<file, shown>>  BY DEF VerifyMigrated, Works
<1>2. work[w].file \in Files /\ work[w].place \in Places
  BY <1>1, SortVerify DEF MediaTypeOK, WorkIsTyped, WellAsked, Works
<1>3. CASE ledger' = [ledger EXCEPT ![work[w].place].status = "MIGRATED"] /\ Step(w, "migrated")
  <2>1. WorkIsTyped' /\ OthersKeepOn(w) /\ GoesOn(w, "migrated")
    BY <1>1, <1>2, <1>3, SortMigrated, StepDoes
  <2>2. /\ ledger' \in [Places -> [status : {"NONE", "PROCESSING", "MIGRATED", "FAILED"}, file : Files \cup {Nothing}]]
        /\ SameLedger
    BY <1>2, <1>3, LedgerIsMarked
  <2>3. Verifies(w)
    BY <1>1, <1>2, <2>1, <2>2, NothingIsWritten DEF Verifies, Ahead, Calm, OnlyRequest
  <2> QED BY <1>1, <2>1, <2>2, <2>3 DEF MediaTypeOK, MediaStep
<1>4. CASE Step(w, "markFailure") /\ UNCHANGED ledger
  <2>1. WorkIsTyped' /\ OthersKeepOn(w) /\ GoesOn(w, "markFailure")
    BY <1>1, <1>2, <1>4, SortMarkFailure, StepDoes
  <2>2. IsNotCopied(w)
    BY <1>1, <1>2, <1>4, <2>1, NothingIsWritten DEF IsNotCopied, Ahead, Calm, OnlyRequest
  <2> QED BY <1>1, <1>4, <2>1, <2>2 DEF MediaTypeOK, MediaStep
<1> QED BY <1>3, <1>4 DEF VerifyMigrated

LEMMA MarkFailureDoes ==
  ASSUME MediaTypeOK, NEW w \in Workers, MarkFailure(w)
  PROVE  MediaTypeOK' /\ MediaStep
<1>1. /\ Works(w, "markFailure") /\ UNCHANGED <<file, shown>> /\ Over(w)
      /\ ledger' = [ledger EXCEPT ![work[w].place].status = "FAILED"]
  BY DEF MarkFailure
<1>2. work[w].place \in Places  BY <1>1, SortMarkFailure DEF MediaTypeOK, WorkIsTyped, WellAsked, Works
<1>3. /\ ledger' \in [Places -> [status : {"NONE", "PROCESSING", "MIGRATED", "FAILED"}, file : Files \cup {Nothing}]]
      /\ SameLedger
  BY <1>1, <1>2, LedgerIsMarked
<1> QED BY <1>1, <1>3, OverDoes, NothingIsWritten DEF MediaTypeOK, MediaStep, Rests, Calm, OnlyRequest

LEMMA MigrateRecordDoes ==
  ASSUME MediaTypeOK, NEW w \in Workers, MigrateRecord(w)
  PROVE  MediaTypeOK' /\ MediaStep
<1> DEFINE a == work[w].file
           p == work[w].place
<1>1. Works(w, "migrated") /\ UNCHANGED <<file, ledger>> /\ Over(w) /\ shown' = [shown EXCEPT ![p] = a]
  BY DEF MigrateRecord
<1>2. a \in Files /\ p \in Places  BY <1>1, SortMigrated DEF MediaTypeOK, WorkIsTyped, WellAsked, Works
<1>3. shown' \in [Places -> Files \cup {Nothing, Legacy, "gone"}] /\ Shows(p, a)
  BY <1>1, <1>2, ShowIsTyped
<1>4. WorkIsTyped' /\ ComesToRest(w) /\ OthersKeepOn(w)  BY <1>1, OverDoes
<1>5. Delivers(w, p, a)  BY <1>1, <1>2, <1>3, <1>4, NothingIsWritten DEF Delivers, OnlyRequest
<1> QED BY <1>1, <1>2, <1>3, <1>4, <1>5 DEF MediaTypeOK, MediaStep

LEMMA CrashDoes ==
  ASSUME MediaTypeOK, NEW w \in Workers, Crash(w)
  PROVE  MediaTypeOK' /\ MediaStep
  BY OverDoes, NothingIsWritten DEF Crash, MediaTypeOK, MediaStep, Rests, Calm, OnlyRequest

\* Every step is one of these, or changes nothing.
LEMMA StepsAreKnown ==
  ASSUME MediaTypeOK, [MediaNext]_fileVars
  PROVE  MediaTypeOK' /\ MediaStep /\ duties' = duties
<1>1. CASE UNCHANGED fileVars
  <2>1. UNCHANGED <<file, shown, ledger, work, duties>>  BY <1>1 DEF fileVars
  <2>2. BrowserWrites  BY <2>1, NothingIsWritten DEF BrowserWrites, KeepsOn
  <2> QED BY <2>1, <2>2 DEF MediaTypeOK, WorkIsTyped, MediaStep
<1>2. ASSUME NEW a \in Files, PutTemporaryObject(a) \/ SessionExpires(a) \/ LeaseGetsOld(a)
      PROVE  MediaTypeOK' /\ MediaStep /\ duties' = duties
  BY <1>2, BrowserDoes DEF PutTemporaryObject, SessionExpires, LeaseGetsOld
<1>3. ASSUME NEW a \in Files, NEW p \in Places \cup {Nothing}, CreateUploadSession(a, p)
      PROVE  MediaTypeOK' /\ MediaStep /\ duties' = duties
  BY <1>3, CreateUploadSessionDoes DEF CreateUploadSession
<1>4. ASSUME NEW w \in Workers, FinalizeSteps(w)
      PROVE  MediaTypeOK' /\ MediaStep /\ duties' = duties
  BY <1>4, ClaimProcessingDoes, StoreFinalObjectDoes, MarkReadyDoes, DeleteTemporaryObjectDoes, MarkFailedDoes
  DEF FinalizeSteps, ClaimProcessing, StoreFinalObject, MarkReady, DeleteTemporaryObject, MarkFailed
<1>5. ASSUME NEW w \in Workers, DeleteSteps(w)
      PROVE  MediaTypeOK' /\ MediaStep /\ duties' = duties
  BY <1>5, ReadAssetDoes, CheckUsesDoes, ClaimDeletionDoes, DeleteObjectsDoes, MarkDeletedDoes
  DEF DeleteSteps, ReadAsset, CheckUses, ClaimDeletion, DeleteObjects, MarkDeleted
<1>6. ASSUME NEW w \in Workers, AttachSteps(w)
      PROVE  MediaTypeOK' /\ MediaStep /\ duties' = duties
  BY <1>6, BindEntityDoes, BindProofDoes, CreateReadyRowDoes, ShowFileDoes
  DEF AttachSteps, BindEntity, BindProof, CreateReadyRow, ShowFile
<1>7. ASSUME NEW w \in Workers, MigrateSteps(w)
      PROVE  MediaTypeOK' /\ MediaStep /\ duties' = duties
  BY <1>7, FetchLegacyObjectDoes, CreateMigratedRowDoes, VerifyMigratedDoes, MarkFailureDoes, MigrateRecordDoes
  DEF MigrateSteps, FetchLegacyObject, CreateMigratedRow, VerifyMigrated, MarkFailure, MigrateRecord
<1>8. ASSUME NEW w \in Workers, Crash(w)
      PROVE  MediaTypeOK' /\ MediaStep /\ duties' = duties
  BY <1>8, CrashDoes DEF Crash
<1>9. ASSUME NEW w \in Workers, NEW a \in Files, FinalizeUpload(w, a) \/ DeleteAssetOf(w, a)
      PROVE  MediaTypeOK' /\ MediaStep /\ duties' = duties
  BY <1>9, FinalizeUploadDoes, DeleteAssetOfDoes DEF FinalizeUpload, DeleteAssetOf
<1>10. ASSUME NEW w \in Workers, NEW p \in Places, Clearing(w, p)
       PROVE  MediaTypeOK' /\ MediaStep /\ duties' = duties
  <2>1. PICK left \in {Nothing, "gone"} : Forget(w, p, left)
    BY <1>10 DEF Clearing, DeleteExpense, ClearExpenseReceipt, DeletePayment, DeleteAttachment
  <2> QED BY <2>1, ForgetDoes DEF Forget
<1>11. ASSUME NEW w \in Workers, NEW p \in Places, NEW a \in Files,
              \/ AttachMyAvatarAsset(w, p, a) \/ UpdateAdminLogo(w, p, a) \/ UploadReceiptAsset(w, p, a)
              \/ UpdateExpenseReceipt(w, p, a) \/ CreateAttachmentFromAsset(w, p, a)
       PROVE  MediaTypeOK' /\ MediaStep /\ duties' = duties
  <2>1. StartAttach(w, p, a)
    BY <1>11 DEF AttachMyAvatarAsset, UpdateAdminLogo, UploadReceiptAsset, UpdateExpenseReceipt, CreateAttachmentFromAsset
  <2> QED BY <2>1, StartAttachDoes DEF StartAttach
<1>12. ASSUME NEW w \in Workers, NEW p \in Places, NEW a \in Files,
              \/ CreateExpense(w, p, a) \/ SubmitPaymentProof(w, p, a)
              \/ UploadFromServer(w, p, a) \/ MigrateSource(w, p, a)
       PROVE  MediaTypeOK' /\ MediaStep /\ duties' = duties
  BY <1>12, CreateExpenseDoes, SubmitPaymentProofDoes, UploadFromServerDoes, MigrateSourceDoes
  DEF CreateExpense, SubmitPaymentProof, UploadFromServer, MigrateSource
<1> QED BY <1>1, <1>2, <1>3, <1>4, <1>5, <1>6, <1>7, <1>8, <1>9, <1>10, <1>11, <1>12 DEF MediaNext

LEMMA RowsHaveStatuses ==
  ASSUME MediaInv
  PROVE  \A a \in Files : file[a].status \in MediaStatuses
  BY DEF MediaInv, MediaTypeOK, MediaRow

LEMMA MigratorsAreAlone ==
  ASSUME MediaInv
  PROVE  \A v, w \in Workers : Migrates(v) /\ work[v].file = work[w].file =>
            v = w /\ (IsReady(work[v].file) \/ ~IsStored(work[v].file))
<1> SUFFICES ASSUME NEW v \in Workers, NEW w \in Workers, Migrates(v), work[v].file = work[w].file
             PROVE  v = w /\ (IsReady(work[v].file) \/ ~IsStored(work[v].file))
  OBVIOUS
<1>1. work[v].file \in Files /\ work[v].place \in Places /\ work[v].file = ledger[work[v].place].file
  BY SortRest DEF MediaInv, OneMigrates, RequestsAreNamed, Migrates, Works
<1>2. Untouched(ledger[work[v].place].file)
  <2>1. Awaited(work[v].place)  BY DEF Awaited
  <2> QED BY <1>1, <2>1 DEF MediaInv, MigratedAlone
<1> QED BY <1>1, <1>2 DEF Untouched, MediaInv, OneMigrates, IsReady, IsStored

LEMMA StepKeepsDutiesAreApart ==
  ASSUME MediaInv, RequestsAreNamed', duties' = duties, MediaStep
  PROVE  DutiesAreApart'
<1> USE SortRest, MediaAssumption DEF MediaInv, DutiesAreApart, KeepsOn, OthersKeepOn, OnlyRequest, Calm, Ahead, BeginsAt, OneRow, Touches, AlikeRow, AlikeRowsBut, SameLedger, ComesToRest, GoesOn, Works, IsStored, IsReady, RequestsAreNamed, Migrates
<1>m. \A v, w \in Workers : Migrates(v) /\ work[v].file = work[w].file => v = w /\ (IsReady(work[v].file) \/ ~IsStored(work[v].file))
  BY MigratorsAreAlone
<1>t. \A a \in Files : file[a].status \in MediaStatuses  BY RowsHaveStatuses
<1>1. CASE BrowserWrites  BY <1>1 DEF BrowserWrites
<1>2. \A a \in Files : RowIsMade(a) => DutiesAreApart'  BY DEF RowIsMade, Fresh
<1>3. \A w \in Workers : Rests(w) => DutiesAreApart'  BY DEF Rests
<1>4. \A w \in Workers, a \in Files : Claims(w, a) => DutiesAreApart'
  BY SortClaim, SortStore DEF Claims, Deleted, MayClaim
<1>5. \A w \in Workers, a \in Files : Stores(w, a) => DutiesAreApart'
  BY SortStore, SortReady DEF Stores
<1>6. \A w \in Workers, a \in Files : Finishes(w, a) => DutiesAreApart'
  BY SortReady, SortClean DEF Finishes
<1>7. \A w \in Workers, a \in Files : Fails(w, a) => DutiesAreApart'  BY SortFailed DEF Fails
<1>8. \A w \in Workers, a \in Files : Condemns(w, a) => DutiesAreApart'
  BY SortTake, SortObjects DEF Condemns
<1>9. \A w \in Workers, a \in Files : Empties(w, a) => DutiesAreApart'
  BY SortObjects, SortMark DEF Empties
<1>10. \A w \in Workers, a \in Files : Deletes(w, a) => DutiesAreApart'  BY SortMark DEF Deletes
<1>11. \A w \in Workers, a \in Files : Uploads(w, a) => DutiesAreApart'
  BY SortCreate DEF Uploads, MediaTurn, Fresh
<1>12. \A w \in Workers, a \in Files : Creates(w, a) => DutiesAreApart'
  BY SortCreate, SortShow DEF Creates
<1>13. \A w \in Workers, a \in Files : Fetches(w, a) => DutiesAreApart'
  BY SortFetch, SortMigrateRow DEF Fetches
<1>14. \A w \in Workers, a \in Files : Copies(w, a) => DutiesAreApart'
  BY SortMigrateRow, SortVerify DEF Copies
<1>15. \A w \in Workers, p \in Places : Forgets(w, p) => DutiesAreApart'
  BY SortRead DEF Forgets, MediaTurn, Shows
<1>16. \A w \in Workers, p \in Places, a \in Files : Displays(w, p, a) => DutiesAreApart'
  BY SortShow, SortRead DEF Displays, Shows
<1>17. \A w \in Workers, p \in Places, a \in Files : Takes(w, p, a) => DutiesAreApart'
  BY SortBindProof DEF Takes, MediaTurn, Shows
<1>18. \A w \in Workers, p \in Places, a \in Files : Delivers(w, p, a) => DutiesAreApart'
  BY SortMigrated DEF Delivers, Shows
<1>19. \A w \in Workers, p \in Places, a \in Files : Plans(w, p, a) => DutiesAreApart'
  BY SortFetch DEF Plans, MediaTurn, Fresh, MayMigrateTo
<1>20. \A w \in Workers : Reads(w) => DutiesAreApart'  BY SortRead, SortCheck DEF Reads
<1>21. \A w \in Workers : ReadsMarked(w) => DutiesAreApart'  BY SortRead, SortObjects DEF ReadsMarked
<1>22. \A w \in Workers : Checks(w) => DutiesAreApart'  BY SortCheck, SortTake DEF Checks
<1>23. \A w \in Workers : ReadsAgain(w) => DutiesAreApart'  BY SortTake, SortRead DEF ReadsAgain
<1>24. \A w \in Workers : GivesUp(w) => DutiesAreApart'  BY SortShow, SortRead DEF GivesUp
<1>25. \A w \in Workers : IsRefused(w) => DutiesAreApart'
  BY SortStore, SortReady, SortFailed DEF IsRefused
<1>26. \A w \in Workers : IsBound(w) => DutiesAreApart'  BY SortBind, SortShow DEF IsBound
<1>27. \A w \in Workers : FindsCopy(w) => DutiesAreApart'  BY SortFetch, SortVerify DEF FindsCopy
<1>28. \A w \in Workers : IsNotCopied(w) => DutiesAreApart'
  BY SortFetch, SortMigrateRow, SortVerify, SortMarkFailure DEF IsNotCopied
<1>29. \A w \in Workers : Verifies(w) => DutiesAreApart'  BY SortVerify, SortMigrated DEF Verifies
<1>30. \A w \in Workers : Finalizes(w) => DutiesAreApart'  BY SortClaim DEF Finalizes, MediaTurn
<1>31. \A w \in Workers : AsksDeletion(w) => DutiesAreApart'  BY SortRead DEF AsksDeletion, MediaTurn
<1>32. \A w \in Workers : AsksPlace(w, "bind") => DutiesAreApart'  BY SortBind DEF AsksPlace, MediaTurn
<1>34. \A w \in Workers : AsksPlace(w, "show") => DutiesAreApart'  BY SortShow DEF AsksPlace, MediaTurn
<1>33. \A w \in Workers : FindsMigrated(w) => DutiesAreApart'
  BY SortMigrated DEF FindsMigrated, MediaTurn
<1> QED
  BY <1>1, <1>2, <1>3, <1>4, <1>5, <1>6, <1>7, <1>8, <1>9, <1>10, <1>11, <1>12, <1>13, <1>14, <1>15, <1>16, <1>17, <1>18, <1>19, <1>20, <1>21, <1>22, <1>23, <1>24, <1>25, <1>26, <1>27, <1>28, <1>29, <1>30, <1>31, <1>32, <1>33, <1>34 DEF MediaStep

LEMMA StepKeepsOneWorks ==
  ASSUME MediaInv, RequestsAreNamed', duties' = duties, MediaStep
  PROVE  OneWorks'
<1> USE SortRest, MediaAssumption DEF MediaInv, OneWorks, KeepsOn, OthersKeepOn, OnlyRequest, Calm, Ahead, BeginsAt, OneRow, Touches, AlikeRow, AlikeRowsBut, SameLedger, ComesToRest, GoesOn, Works, IsStored, IsReady, RequestsAreNamed
<1>m. \A v, w \in Workers : Migrates(v) /\ work[v].file = work[w].file => v = w /\ (IsReady(work[v].file) \/ ~IsStored(work[v].file))
  BY MigratorsAreAlone
<1>t. \A a \in Files : file[a].status \in MediaStatuses  BY RowsHaveStatuses
<1>1. CASE BrowserWrites  BY <1>1 DEF BrowserWrites
<1>2. \A a \in Files : RowIsMade(a) => OneWorks'  BY DEF RowIsMade, Fresh
<1>3. \A w \in Workers : Rests(w) => OneWorks'  BY DEF Rests
<1>4. \A w \in Workers, a \in Files : Claims(w, a) => OneWorks'
  BY SortClaim, SortStore DEF Claims, Deleted, MayClaim
<1>5. \A w \in Workers, a \in Files : Stores(w, a) => OneWorks'  BY SortStore, SortReady DEF Stores
<1>6. \A w \in Workers, a \in Files : Finishes(w, a) => OneWorks'  BY SortReady, SortClean DEF Finishes
<1>7. \A w \in Workers, a \in Files : Fails(w, a) => OneWorks'  BY SortFailed DEF Fails
<1>8. \A w \in Workers, a \in Files : Condemns(w, a) => OneWorks'  BY SortTake, SortObjects DEF Condemns
<1>9. \A w \in Workers, a \in Files : Empties(w, a) => OneWorks'  BY SortObjects, SortMark DEF Empties
<1>10. \A w \in Workers, a \in Files : Deletes(w, a) => OneWorks'  BY SortMark DEF Deletes
<1>11. \A w \in Workers, a \in Files : Uploads(w, a) => OneWorks'
  BY SortCreate DEF Uploads, MediaTurn, Fresh
<1>12. \A w \in Workers, a \in Files : Creates(w, a) => OneWorks'  BY SortCreate, SortShow DEF Creates
<1>13. \A w \in Workers, a \in Files : Fetches(w, a) => OneWorks'
  BY SortFetch, SortMigrateRow DEF Fetches
<1>14. \A w \in Workers, a \in Files : Copies(w, a) => OneWorks'
  BY SortMigrateRow, SortVerify DEF Copies
<1>15. \A w \in Workers, p \in Places : Forgets(w, p) => OneWorks'
  BY SortRead DEF Forgets, MediaTurn, Shows
<1>16. \A w \in Workers, p \in Places, a \in Files : Displays(w, p, a) => OneWorks'
  BY SortShow, SortRead DEF Displays, Shows
<1>17. \A w \in Workers, p \in Places, a \in Files : Takes(w, p, a) => OneWorks'
  BY SortBindProof DEF Takes, MediaTurn, Shows
<1>18. \A w \in Workers, p \in Places, a \in Files : Delivers(w, p, a) => OneWorks'
  BY SortMigrated DEF Delivers, Shows
<1>19. \A w \in Workers, p \in Places, a \in Files : Plans(w, p, a) => OneWorks'
  BY SortFetch DEF Plans, MediaTurn, Fresh, MayMigrateTo
<1>20. \A w \in Workers : Reads(w) => OneWorks'  BY SortRead, SortCheck DEF Reads
<1>21. \A w \in Workers : ReadsMarked(w) => OneWorks'  BY SortRead, SortObjects DEF ReadsMarked
<1>22. \A w \in Workers : Checks(w) => OneWorks'  BY SortCheck, SortTake DEF Checks
<1>23. \A w \in Workers : ReadsAgain(w) => OneWorks'  BY SortTake, SortRead DEF ReadsAgain
<1>24. \A w \in Workers : GivesUp(w) => OneWorks'  BY SortShow, SortRead DEF GivesUp
<1>25. \A w \in Workers : IsRefused(w) => OneWorks'  BY SortStore, SortReady, SortFailed DEF IsRefused
<1>26. \A w \in Workers : IsBound(w) => OneWorks'  BY SortBind, SortShow DEF IsBound
<1>27. \A w \in Workers : FindsCopy(w) => OneWorks'  BY SortFetch, SortVerify DEF FindsCopy
<1>28. \A w \in Workers : IsNotCopied(w) => OneWorks'
  BY SortFetch, SortMigrateRow, SortVerify, SortMarkFailure DEF IsNotCopied
<1>29. \A w \in Workers : Verifies(w) => OneWorks'  BY SortVerify, SortMigrated DEF Verifies
<1>30. \A w \in Workers : Finalizes(w) => OneWorks'  BY SortClaim DEF Finalizes, MediaTurn
<1>31. \A w \in Workers : AsksDeletion(w) => OneWorks'  BY SortRead DEF AsksDeletion, MediaTurn
<1>32. \A w \in Workers : AsksPlace(w, "bind") => OneWorks'  BY SortBind DEF AsksPlace, MediaTurn
<1>34. \A w \in Workers : AsksPlace(w, "show") => OneWorks'  BY SortShow DEF AsksPlace, MediaTurn
<1>33. \A w \in Workers : FindsMigrated(w) => OneWorks'  BY SortMigrated DEF FindsMigrated, MediaTurn
<1> QED
  BY <1>1, <1>2, <1>3, <1>4, <1>5, <1>6, <1>7, <1>8, <1>9, <1>10, <1>11, <1>12, <1>13, <1>14, <1>15, <1>16, <1>17, <1>18, <1>19, <1>20, <1>21, <1>22, <1>23, <1>24, <1>25, <1>26, <1>27, <1>28, <1>29, <1>30, <1>31, <1>32, <1>33, <1>34 DEF MediaStep

LEMMA StepKeepsKnownFilesAreStored ==
  ASSUME MediaInv, RequestsAreNamed', duties' = duties, MediaStep
  PROVE  KnownFilesAreStored'
<1> USE SortRest, MediaAssumption DEF MediaInv, KnownFilesAreStored, KeepsOn, OthersKeepOn, OnlyRequest, Calm, Ahead, BeginsAt, OneRow, Touches, AlikeRow, AlikeRowsBut, SameLedger, ComesToRest, GoesOn, Works, IsStored, IsReady, RequestsAreNamed, OneMigrates
<1>m. \A v, w \in Workers : Migrates(v) /\ work[v].file = work[w].file => v = w /\ (IsReady(work[v].file) \/ ~IsStored(work[v].file))
  BY MigratorsAreAlone
<1>t. \A a \in Files : file[a].status \in MediaStatuses  BY RowsHaveStatuses
<1>1. CASE BrowserWrites  BY <1>1 DEF BrowserWrites
<1>2. \A a \in Files : RowIsMade(a) => KnownFilesAreStored'  BY DEF RowIsMade, Fresh
<1>3. \A w \in Workers : Rests(w) => KnownFilesAreStored'  BY DEF Rests
<1>4. \A w \in Workers, a \in Files : Claims(w, a) => KnownFilesAreStored'
  BY SortClaim, SortStore DEF Claims, Deleted, MayClaim
<1>5. \A w \in Workers, a \in Files : Stores(w, a) => KnownFilesAreStored'
  BY SortStore, SortReady DEF Stores
<1>6. \A w \in Workers, a \in Files : Finishes(w, a) => KnownFilesAreStored'
  BY SortReady, SortClean DEF Finishes
<1>7. \A w \in Workers, a \in Files : Fails(w, a) => KnownFilesAreStored'  BY SortFailed DEF Fails
<1>8. \A w \in Workers, a \in Files : Condemns(w, a) => KnownFilesAreStored'
  BY SortTake, SortObjects DEF Condemns
<1>9. \A w \in Workers, a \in Files : Empties(w, a) => KnownFilesAreStored'
  BY SortObjects, SortMark DEF Empties
<1>10. \A w \in Workers, a \in Files : Deletes(w, a) => KnownFilesAreStored'  BY SortMark DEF Deletes
<1>11. \A w \in Workers, a \in Files : Uploads(w, a) => KnownFilesAreStored'
  BY SortCreate DEF Uploads, MediaTurn, Fresh
<1>12. \A w \in Workers, a \in Files : Creates(w, a) => KnownFilesAreStored'
  BY SortCreate, SortShow DEF Creates
<1>13. \A w \in Workers, a \in Files : Fetches(w, a) => KnownFilesAreStored'
  BY SortFetch, SortMigrateRow DEF Fetches
<1>14. \A w \in Workers, a \in Files : Copies(w, a) => KnownFilesAreStored'
  BY SortMigrateRow, SortVerify DEF Copies
<1>15. \A w \in Workers, p \in Places : Forgets(w, p) => KnownFilesAreStored'
  BY SortRead DEF Forgets, MediaTurn, Shows
<1>16. \A w \in Workers, p \in Places, a \in Files : Displays(w, p, a) => KnownFilesAreStored'
  BY SortShow, SortRead DEF Displays, Shows
<1>17. \A w \in Workers, p \in Places, a \in Files : Takes(w, p, a) => KnownFilesAreStored'
  BY SortBindProof DEF Takes, MediaTurn, Shows
<1>18. \A w \in Workers, p \in Places, a \in Files : Delivers(w, p, a) => KnownFilesAreStored'
  BY SortMigrated DEF Delivers, Shows
<1>19. \A w \in Workers, p \in Places, a \in Files : Plans(w, p, a) => KnownFilesAreStored'
  BY SortFetch DEF Plans, MediaTurn, Fresh, MayMigrateTo
<1>20. \A w \in Workers : Reads(w) => KnownFilesAreStored'  BY SortRead, SortCheck DEF Reads
<1>21. \A w \in Workers : ReadsMarked(w) => KnownFilesAreStored'
  BY SortRead, SortObjects DEF ReadsMarked
<1>22. \A w \in Workers : Checks(w) => KnownFilesAreStored'  BY SortCheck, SortTake DEF Checks
<1>23. \A w \in Workers : ReadsAgain(w) => KnownFilesAreStored'  BY SortTake, SortRead DEF ReadsAgain
<1>24. \A w \in Workers : GivesUp(w) => KnownFilesAreStored'  BY SortShow, SortRead DEF GivesUp
<1>25. \A w \in Workers : IsRefused(w) => KnownFilesAreStored'
  BY SortStore, SortReady, SortFailed DEF IsRefused
<1>26. \A w \in Workers : IsBound(w) => KnownFilesAreStored'  BY SortBind, SortShow DEF IsBound
<1>27. \A w \in Workers : FindsCopy(w) => KnownFilesAreStored'  BY SortFetch, SortVerify DEF FindsCopy
<1>28. \A w \in Workers : IsNotCopied(w) => KnownFilesAreStored'
  BY SortFetch, SortMigrateRow, SortVerify, SortMarkFailure DEF IsNotCopied
<1>29. \A w \in Workers : Verifies(w) => KnownFilesAreStored'  BY SortVerify, SortMigrated DEF Verifies
<1>30. \A w \in Workers : Finalizes(w) => KnownFilesAreStored'  BY SortClaim DEF Finalizes, MediaTurn
<1>31. \A w \in Workers : AsksDeletion(w) => KnownFilesAreStored'
  BY SortRead DEF AsksDeletion, MediaTurn
<1>32. \A w \in Workers : AsksPlace(w, "bind") => KnownFilesAreStored'
  BY SortBind DEF AsksPlace, MediaTurn
<1>34. \A w \in Workers : AsksPlace(w, "show") => KnownFilesAreStored'
  BY SortShow DEF AsksPlace, MediaTurn
<1>33. \A w \in Workers : FindsMigrated(w) => KnownFilesAreStored'
  BY SortMigrated DEF FindsMigrated, MediaTurn
<1> QED
  BY <1>1, <1>2, <1>3, <1>4, <1>5, <1>6, <1>7, <1>8, <1>9, <1>10, <1>11, <1>12, <1>13, <1>14, <1>15, <1>16, <1>17, <1>18, <1>19, <1>20, <1>21, <1>22, <1>23, <1>24, <1>25, <1>26, <1>27, <1>28, <1>29, <1>30, <1>31, <1>32, <1>33, <1>34 DEF MediaStep

LEMMA StepKeepsLeasesAreSingle ==
  ASSUME MediaInv, RequestsAreNamed', duties' = duties, MediaStep
  PROVE  LeasesAreSingle'
<1> USE SortRest, MediaAssumption DEF MediaInv, LeasesAreSingle, KeepsOn, OthersKeepOn, OnlyRequest, Calm, Ahead, BeginsAt, OneRow, Touches, AlikeRow, AlikeRowsBut, SameLedger, ComesToRest, GoesOn, Works, IsStored, IsReady, RequestsAreNamed, ObjectsGoUnderAMark, KnownFilesAreStored, CreatedAlone
<1>m. \A v, w \in Workers : Migrates(v) /\ work[v].file = work[w].file => v = w /\ (IsReady(work[v].file) \/ ~IsStored(work[v].file))
  BY MigratorsAreAlone
<1>t. \A a \in Files : file[a].status \in MediaStatuses  BY RowsHaveStatuses
<1>1. CASE BrowserWrites  BY <1>1 DEF BrowserWrites
<1>2. \A a \in Files : RowIsMade(a) => LeasesAreSingle'  BY DEF RowIsMade, Fresh
<1>3. \A w \in Workers : Rests(w) => LeasesAreSingle'  BY DEF Rests
<1>4. \A w \in Workers, a \in Files : Claims(w, a) => LeasesAreSingle'
  BY SortClaim, SortStore DEF Claims, Deleted, MayClaim
<1>5. \A w \in Workers, a \in Files : Stores(w, a) => LeasesAreSingle'
  BY SortStore, SortReady DEF Stores
<1>6. \A w \in Workers, a \in Files : Finishes(w, a) => LeasesAreSingle'
  BY SortReady, SortClean DEF Finishes
<1>7. \A w \in Workers, a \in Files : Fails(w, a) => LeasesAreSingle'  BY SortFailed DEF Fails
<1>8. \A w \in Workers, a \in Files : Condemns(w, a) => LeasesAreSingle'
  BY SortTake, SortObjects DEF Condemns
<1>9. \A w \in Workers, a \in Files : Empties(w, a) => LeasesAreSingle'
  BY SortReady, SortObjects, SortMark DEF Empties
<1>10. \A w \in Workers, a \in Files : Deletes(w, a) => LeasesAreSingle'  BY SortMark DEF Deletes
<1>11. \A w \in Workers, a \in Files : Uploads(w, a) => LeasesAreSingle'
  BY SortCreate DEF Uploads, MediaTurn, Fresh
<1>12. \A w \in Workers, a \in Files : Creates(w, a) => LeasesAreSingle'
  BY SortCreate, SortShow DEF Creates
<1>13. \A w \in Workers, a \in Files : Fetches(w, a) => LeasesAreSingle'
  BY SortFetch, SortMigrateRow DEF Fetches
<1>14. \A w \in Workers, a \in Files : Copies(w, a) => LeasesAreSingle'
  BY SortMigrateRow, SortVerify DEF Copies
<1>15. \A w \in Workers, p \in Places : Forgets(w, p) => LeasesAreSingle'
  BY SortRead DEF Forgets, MediaTurn, Shows
<1>16. \A w \in Workers, p \in Places, a \in Files : Displays(w, p, a) => LeasesAreSingle'
  BY SortShow, SortRead DEF Displays, Shows
<1>17. \A w \in Workers, p \in Places, a \in Files : Takes(w, p, a) => LeasesAreSingle'
  BY SortBindProof DEF Takes, MediaTurn, Shows
<1>18. \A w \in Workers, p \in Places, a \in Files : Delivers(w, p, a) => LeasesAreSingle'
  BY SortMigrated DEF Delivers, Shows
<1>19. \A w \in Workers, p \in Places, a \in Files : Plans(w, p, a) => LeasesAreSingle'
  BY SortFetch DEF Plans, MediaTurn, Fresh, MayMigrateTo
<1>20. \A w \in Workers : Reads(w) => LeasesAreSingle'  BY SortRead, SortCheck DEF Reads
<1>21. \A w \in Workers : ReadsMarked(w) => LeasesAreSingle'  BY SortRead, SortObjects DEF ReadsMarked
<1>22. \A w \in Workers : Checks(w) => LeasesAreSingle'  BY SortCheck, SortTake DEF Checks
<1>23. \A w \in Workers : ReadsAgain(w) => LeasesAreSingle'  BY SortTake, SortRead DEF ReadsAgain
<1>24. \A w \in Workers : GivesUp(w) => LeasesAreSingle'  BY SortShow, SortRead DEF GivesUp
<1>25. \A w \in Workers : IsRefused(w) => LeasesAreSingle'
  BY SortStore, SortReady, SortFailed DEF IsRefused
<1>26. \A w \in Workers : IsBound(w) => LeasesAreSingle'  BY SortBind, SortShow DEF IsBound
<1>27. \A w \in Workers : FindsCopy(w) => LeasesAreSingle'  BY SortFetch, SortVerify DEF FindsCopy
<1>28. \A w \in Workers : IsNotCopied(w) => LeasesAreSingle'
  BY SortFetch, SortMigrateRow, SortVerify, SortMarkFailure DEF IsNotCopied
<1>29. \A w \in Workers : Verifies(w) => LeasesAreSingle'  BY SortVerify, SortMigrated DEF Verifies
<1>30. \A w \in Workers : Finalizes(w) => LeasesAreSingle'  BY SortClaim DEF Finalizes, MediaTurn
<1>31. \A w \in Workers : AsksDeletion(w) => LeasesAreSingle'  BY SortRead DEF AsksDeletion, MediaTurn
<1>32. \A w \in Workers : AsksPlace(w, "bind") => LeasesAreSingle'  BY SortBind DEF AsksPlace, MediaTurn
<1>34. \A w \in Workers : AsksPlace(w, "show") => LeasesAreSingle'  BY SortShow DEF AsksPlace, MediaTurn
<1>33. \A w \in Workers : FindsMigrated(w) => LeasesAreSingle'
  BY SortMigrated DEF FindsMigrated, MediaTurn
<1> QED
  BY <1>1, <1>2, <1>3, <1>4, <1>5, <1>6, <1>7, <1>8, <1>9, <1>10, <1>11, <1>12, <1>13, <1>14, <1>15, <1>16, <1>17, <1>18, <1>19, <1>20, <1>21, <1>22, <1>23, <1>24, <1>25, <1>26, <1>27, <1>28, <1>29, <1>30, <1>31, <1>32, <1>33, <1>34 DEF MediaStep

LEMMA StepKeepsObjectsGoUnderAMark ==
  ASSUME MediaInv, RequestsAreNamed', duties' = duties, MediaStep
  PROVE  ObjectsGoUnderAMark'
<1> USE SortRest, MediaAssumption DEF MediaInv, ObjectsGoUnderAMark, KeepsOn, OthersKeepOn, OnlyRequest, Calm, Ahead, BeginsAt, OneRow, Touches, AlikeRow, AlikeRowsBut, SameLedger, ComesToRest, GoesOn, Works, IsStored, IsReady, RequestsAreNamed, LeasesAreSingle, KnownFilesAreStored, DutiesAreApart, CreatedAlone, Migrates, MediaStatuses
<1>m. \A v, w \in Workers : Migrates(v) /\ work[v].file = work[w].file => v = w /\ (IsReady(work[v].file) \/ ~IsStored(work[v].file))
  BY MigratorsAreAlone
<1>t. \A a \in Files : file[a].status \in MediaStatuses  BY RowsHaveStatuses
<1>1. CASE BrowserWrites  BY <1>1, <1>m, SortRest, MediaAssumption DEF BrowserWrites
<1>2. \A a \in Files : RowIsMade(a) => ObjectsGoUnderAMark'  BY <1>m DEF RowIsMade, Fresh
<1>3. \A w \in Workers : Rests(w) => ObjectsGoUnderAMark'  BY <1>m DEF Rests
<1>4. \A w \in Workers, a \in Files : Claims(w, a) => ObjectsGoUnderAMark'
  BY <1>m, SortClaim, SortStore DEF Claims, Deleted, MayClaim
<1>5. \A w \in Workers, a \in Files : Stores(w, a) => ObjectsGoUnderAMark'
  BY <1>m, SortStore, SortReady DEF Stores
<1>6. \A w \in Workers, a \in Files : Finishes(w, a) => ObjectsGoUnderAMark'
  BY <1>m, SortReady, SortClean DEF Finishes
<1>7. \A w \in Workers, a \in Files : Fails(w, a) => ObjectsGoUnderAMark'  BY <1>m, SortFailed DEF Fails
<1>8. \A w \in Workers, a \in Files : Condemns(w, a) => ObjectsGoUnderAMark'
  BY <1>m, SortTake, SortObjects DEF Condemns
<1>9. \A w \in Workers, a \in Files : Empties(w, a) => ObjectsGoUnderAMark'
  BY <1>m, SortObjects, SortMark DEF Empties
<1>10. \A w \in Workers, a \in Files : Deletes(w, a) => ObjectsGoUnderAMark'
  BY <1>m, SortMark DEF Deletes
<1>11. \A w \in Workers, a \in Files : Uploads(w, a) => ObjectsGoUnderAMark'
  BY <1>m, SortCreate DEF Uploads, MediaTurn, Fresh
<1>12. \A w \in Workers, a \in Files : Creates(w, a) => ObjectsGoUnderAMark'
  BY <1>m, SortCreate, SortShow DEF Creates
<1>13. \A w \in Workers, a \in Files : Fetches(w, a) => ObjectsGoUnderAMark'
  BY <1>m, SortFetch, SortMigrateRow DEF Fetches
<1>14. \A w \in Workers, a \in Files : Copies(w, a) => ObjectsGoUnderAMark'
  BY <1>m, SortMigrateRow, SortVerify DEF Copies
<1>15. \A w \in Workers, p \in Places : Forgets(w, p) => ObjectsGoUnderAMark'
  BY <1>m, SortRead DEF Forgets, MediaTurn, Shows
<1>16. \A w \in Workers, p \in Places, a \in Files : Displays(w, p, a) => ObjectsGoUnderAMark'
  BY <1>m, SortShow, SortRead DEF Displays, Shows
<1>17. \A w \in Workers, p \in Places, a \in Files : Takes(w, p, a) => ObjectsGoUnderAMark'
  BY <1>m, SortBindProof DEF Takes, MediaTurn, Shows
<1>18. \A w \in Workers, p \in Places, a \in Files : Delivers(w, p, a) => ObjectsGoUnderAMark'
  BY <1>m, SortMigrated DEF Delivers, Shows
<1>19. \A w \in Workers, p \in Places, a \in Files : Plans(w, p, a) => ObjectsGoUnderAMark'
  BY <1>m, SortFetch DEF Plans, MediaTurn, Fresh, MayMigrateTo
<1>20. \A w \in Workers : Reads(w) => ObjectsGoUnderAMark'  BY <1>m, <1>t, SortRead, SortCheck DEF Reads
<1>21. \A w \in Workers : ReadsMarked(w) => ObjectsGoUnderAMark'
  BY <1>m, SortRead, SortObjects DEF ReadsMarked
<1>22. \A w \in Workers : Checks(w) => ObjectsGoUnderAMark'  BY <1>m, SortCheck, SortTake DEF Checks
<1>23. \A w \in Workers : ReadsAgain(w) => ObjectsGoUnderAMark'
  BY <1>m, SortTake, SortRead DEF ReadsAgain
<1>24. \A w \in Workers : GivesUp(w) => ObjectsGoUnderAMark'  BY <1>m, SortShow, SortRead DEF GivesUp
<1>25. \A w \in Workers : IsRefused(w) => ObjectsGoUnderAMark'
  BY <1>m, SortStore, SortReady, SortFailed DEF IsRefused
<1>26. \A w \in Workers : IsBound(w) => ObjectsGoUnderAMark'  BY <1>m, SortBind, SortShow DEF IsBound
<1>27. \A w \in Workers : FindsCopy(w) => ObjectsGoUnderAMark'
  BY <1>m, SortFetch, SortVerify DEF FindsCopy
<1>28. \A w \in Workers : IsNotCopied(w) => ObjectsGoUnderAMark'
  BY <1>m, SortFetch, SortMigrateRow, SortVerify, SortMarkFailure DEF IsNotCopied
<1>29. \A w \in Workers : Verifies(w) => ObjectsGoUnderAMark'
  BY <1>m, SortVerify, SortMigrated DEF Verifies
<1>30. \A w \in Workers : Finalizes(w) => ObjectsGoUnderAMark'
  BY <1>m, SortClaim DEF Finalizes, MediaTurn
<1>31. \A w \in Workers : AsksDeletion(w) => ObjectsGoUnderAMark'
  BY <1>m, SortRead DEF AsksDeletion, MediaTurn
<1>32. \A w \in Workers : AsksPlace(w, "bind") => ObjectsGoUnderAMark'
  BY <1>m, SortBind DEF AsksPlace, MediaTurn
<1>34. \A w \in Workers : AsksPlace(w, "show") => ObjectsGoUnderAMark'
  BY <1>m, SortShow DEF AsksPlace, MediaTurn
<1>33. \A w \in Workers : FindsMigrated(w) => ObjectsGoUnderAMark'
  BY <1>m, SortMigrated DEF FindsMigrated, MediaTurn
<1> QED
  BY <1>1, <1>2, <1>3, <1>4, <1>5, <1>6, <1>7, <1>8, <1>9, <1>10, <1>11, <1>12, <1>13, <1>14, <1>15, <1>16, <1>17, <1>18, <1>19, <1>20, <1>21, <1>22, <1>23, <1>24, <1>25, <1>26, <1>27, <1>28, <1>29, <1>30, <1>31, <1>32, <1>33, <1>34 DEF MediaStep

LEMMA StepKeepsCreatedAlone ==
  ASSUME MediaInv, RequestsAreNamed', duties' = duties, MediaStep
  PROVE  CreatedAlone'
<1> USE SortRest, MediaAssumption DEF MediaInv, CreatedAlone, KeepsOn, OthersKeepOn, OnlyRequest, Calm, Ahead, BeginsAt, OneRow, Touches, AlikeRow, AlikeRowsBut, SameLedger, ComesToRest, GoesOn, Works, IsStored, IsReady, RequestsAreNamed, KnownFilesAreStored
<1>m. \A v, w \in Workers : Migrates(v) /\ work[v].file = work[w].file => v = w /\ (IsReady(work[v].file) \/ ~IsStored(work[v].file))
  BY MigratorsAreAlone
<1>t. \A a \in Files : file[a].status \in MediaStatuses  BY RowsHaveStatuses
<1>1. CASE BrowserWrites  BY <1>1 DEF BrowserWrites
<1>2. \A a \in Files : RowIsMade(a) => CreatedAlone'  BY DEF RowIsMade, Fresh
<1>3. \A w \in Workers : Rests(w) => CreatedAlone'  BY DEF Rests
<1>4. \A w \in Workers, a \in Files : Claims(w, a) => CreatedAlone'
  BY SortClaim, SortStore DEF Claims, Deleted, MayClaim
<1>5. \A w \in Workers, a \in Files : Stores(w, a) => CreatedAlone'  BY SortStore, SortReady DEF Stores
<1>6. \A w \in Workers, a \in Files : Finishes(w, a) => CreatedAlone'
  BY SortReady, SortClean DEF Finishes
<1>7. \A w \in Workers, a \in Files : Fails(w, a) => CreatedAlone'  BY SortFailed DEF Fails
<1>8. \A w \in Workers, a \in Files : Condemns(w, a) => CreatedAlone'
  BY SortTake, SortObjects DEF Condemns
<1>9. \A w \in Workers, a \in Files : Empties(w, a) => CreatedAlone'
  BY SortObjects, SortMark DEF Empties
<1>10. \A w \in Workers, a \in Files : Deletes(w, a) => CreatedAlone'  BY SortMark DEF Deletes
<1>11. \A w \in Workers, a \in Files : Uploads(w, a) => CreatedAlone'
  BY SortCreate DEF Uploads, MediaTurn, Fresh
<1>12. \A w \in Workers, a \in Files : Creates(w, a) => CreatedAlone'
  BY SortCreate, SortShow DEF Creates
<1>13. \A w \in Workers, a \in Files : Fetches(w, a) => CreatedAlone'
  BY SortFetch, SortMigrateRow DEF Fetches
<1>14. \A w \in Workers, a \in Files : Copies(w, a) => CreatedAlone'
  BY SortMigrateRow, SortVerify DEF Copies
<1>15. \A w \in Workers, p \in Places : Forgets(w, p) => CreatedAlone'
  BY SortRead DEF Forgets, MediaTurn, Shows
<1>16. \A w \in Workers, p \in Places, a \in Files : Displays(w, p, a) => CreatedAlone'
  BY SortShow, SortRead DEF Displays, Shows
<1>17. \A w \in Workers, p \in Places, a \in Files : Takes(w, p, a) => CreatedAlone'
  BY SortBindProof DEF Takes, MediaTurn, Shows
<1>18. \A w \in Workers, p \in Places, a \in Files : Delivers(w, p, a) => CreatedAlone'
  BY SortMigrated DEF Delivers, Shows
<1>19. \A w \in Workers, p \in Places, a \in Files : Plans(w, p, a) => CreatedAlone'
  BY SortFetch DEF Plans, MediaTurn, Fresh, MayMigrateTo
<1>20. \A w \in Workers : Reads(w) => CreatedAlone'  BY SortRead, SortCheck DEF Reads
<1>21. \A w \in Workers : ReadsMarked(w) => CreatedAlone'  BY SortRead, SortObjects DEF ReadsMarked
<1>22. \A w \in Workers : Checks(w) => CreatedAlone'  BY SortCheck, SortTake DEF Checks
<1>23. \A w \in Workers : ReadsAgain(w) => CreatedAlone'  BY SortTake, SortRead DEF ReadsAgain
<1>24. \A w \in Workers : GivesUp(w) => CreatedAlone'  BY SortShow, SortRead DEF GivesUp
<1>25. \A w \in Workers : IsRefused(w) => CreatedAlone'
  BY SortStore, SortReady, SortFailed DEF IsRefused
<1>26. \A w \in Workers : IsBound(w) => CreatedAlone'  BY SortBind, SortShow DEF IsBound
<1>27. \A w \in Workers : FindsCopy(w) => CreatedAlone'  BY SortFetch, SortVerify DEF FindsCopy
<1>28. \A w \in Workers : IsNotCopied(w) => CreatedAlone'
  BY SortFetch, SortMigrateRow, SortVerify, SortMarkFailure DEF IsNotCopied
<1>29. \A w \in Workers : Verifies(w) => CreatedAlone'  BY SortVerify, SortMigrated DEF Verifies
<1>30. \A w \in Workers : Finalizes(w) => CreatedAlone'  BY SortClaim DEF Finalizes, MediaTurn
<1>31. \A w \in Workers : AsksDeletion(w) => CreatedAlone'  BY SortRead DEF AsksDeletion, MediaTurn
<1>32. \A w \in Workers : AsksPlace(w, "bind") => CreatedAlone'  BY SortBind DEF AsksPlace, MediaTurn
<1>34. \A w \in Workers : AsksPlace(w, "show") => CreatedAlone'  BY SortShow DEF AsksPlace, MediaTurn
<1>33. \A w \in Workers : FindsMigrated(w) => CreatedAlone'
  BY SortMigrated DEF FindsMigrated, MediaTurn
<1> QED
  BY <1>1, <1>2, <1>3, <1>4, <1>5, <1>6, <1>7, <1>8, <1>9, <1>10, <1>11, <1>12, <1>13, <1>14, <1>15, <1>16, <1>17, <1>18, <1>19, <1>20, <1>21, <1>22, <1>23, <1>24, <1>25, <1>26, <1>27, <1>28, <1>29, <1>30, <1>31, <1>32, <1>33, <1>34 DEF MediaStep

LEMMA StepKeepsOneMigrates ==
  ASSUME MediaInv, RequestsAreNamed', duties' = duties, MediaStep
  PROVE  OneMigrates'
<1> USE SortRest, MediaAssumption DEF MediaInv, OneMigrates, KeepsOn, OthersKeepOn, OnlyRequest, Calm, Ahead, BeginsAt, OneRow, Touches, AlikeRow, AlikeRowsBut, SameLedger, ComesToRest, GoesOn, Works, IsStored, IsReady, RequestsAreNamed, Migrates, CreatedAlone, ObjectsGoUnderAMark
<1>m. \A v, w \in Workers : Migrates(v) /\ work[v].file = work[w].file => v = w /\ (IsReady(work[v].file) \/ ~IsStored(work[v].file))
  BY MigratorsAreAlone
<1>t. \A a \in Files : file[a].status \in MediaStatuses  BY RowsHaveStatuses
<1>1. CASE BrowserWrites  BY <1>1, <1>m, SortRest, MediaAssumption DEF BrowserWrites
<1>2. \A a \in Files : RowIsMade(a) => OneMigrates'  BY <1>m DEF RowIsMade, Fresh
<1>3. \A w \in Workers : Rests(w) => OneMigrates'  BY <1>m DEF Rests
<1>4. \A w \in Workers, a \in Files : Claims(w, a) => OneMigrates'
  BY <1>m, SortClaim, SortStore DEF Claims, Deleted, MayClaim
<1>5. \A w \in Workers, a \in Files : Stores(w, a) => OneMigrates'
  BY <1>m, SortStore, SortReady DEF Stores
<1>6. \A w \in Workers, a \in Files : Finishes(w, a) => OneMigrates'
  BY <1>m, SortReady, SortClean DEF Finishes
<1>7. \A w \in Workers, a \in Files : Fails(w, a) => OneMigrates'  BY <1>m, SortFailed DEF Fails
<1>8. \A w \in Workers, a \in Files : Condemns(w, a) => OneMigrates'
  BY SortMigrateRow, SortVerify, SortMigrated, <1>m, SortTake, SortObjects DEF Condemns
<1>9. \A w \in Workers, a \in Files : Empties(w, a) => OneMigrates'
  BY SortMigrateRow, SortVerify, SortMigrated, <1>m, SortObjects, SortMark DEF Empties
<1>10. \A w \in Workers, a \in Files : Deletes(w, a) => OneMigrates'  BY <1>m, SortMark DEF Deletes
<1>11. \A w \in Workers, a \in Files : Uploads(w, a) => OneMigrates'
  BY <1>m, SortCreate DEF Uploads, MediaTurn, Fresh
<1>12. \A w \in Workers, a \in Files : Creates(w, a) => OneMigrates'
  BY <1>m, SortCreate, SortShow DEF Creates
<1>13. \A w \in Workers, a \in Files : Fetches(w, a) => OneMigrates'
  BY <1>m, SortFetch, SortMigrateRow DEF Fetches
<1>14. \A w \in Workers, a \in Files : Copies(w, a) => OneMigrates'
  BY <1>m, SortMigrateRow, SortVerify DEF Copies
<1>15. \A w \in Workers, p \in Places : Forgets(w, p) => OneMigrates'
  BY <1>m, SortRead DEF Forgets, MediaTurn, Shows
<1>16. \A w \in Workers, p \in Places, a \in Files : Displays(w, p, a) => OneMigrates'
  BY <1>m, SortShow, SortRead DEF Displays, Shows
<1>17. \A w \in Workers, p \in Places, a \in Files : Takes(w, p, a) => OneMigrates'
  BY <1>m, SortBindProof DEF Takes, MediaTurn, Shows
<1>18. \A w \in Workers, p \in Places, a \in Files : Delivers(w, p, a) => OneMigrates'
  BY <1>m, SortMigrated DEF Delivers, Shows
<1>19. \A w \in Workers, p \in Places, a \in Files : Plans(w, p, a) => OneMigrates'
  BY <1>m, SortFetch DEF Plans, MediaTurn, Fresh, MayMigrateTo
<1>20. \A w \in Workers : Reads(w) => OneMigrates'  BY <1>m, SortRead, SortCheck DEF Reads
<1>21. \A w \in Workers : ReadsMarked(w) => OneMigrates'  BY <1>m, SortRead, SortObjects DEF ReadsMarked
<1>22. \A w \in Workers : Checks(w) => OneMigrates'  BY <1>m, SortCheck, SortTake DEF Checks
<1>23. \A w \in Workers : ReadsAgain(w) => OneMigrates'  BY <1>m, SortTake, SortRead DEF ReadsAgain
<1>24. \A w \in Workers : GivesUp(w) => OneMigrates'  BY <1>m, SortShow, SortRead DEF GivesUp
<1>25. \A w \in Workers : IsRefused(w) => OneMigrates'
  BY <1>m, SortStore, SortReady, SortFailed DEF IsRefused
<1>26. \A w \in Workers : IsBound(w) => OneMigrates'  BY <1>m, SortBind, SortShow DEF IsBound
<1>27. \A w \in Workers : FindsCopy(w) => OneMigrates'  BY <1>m, SortFetch, SortVerify DEF FindsCopy
<1>28. \A w \in Workers : IsNotCopied(w) => OneMigrates'
  BY <1>m, SortFetch, SortMigrateRow, SortVerify, SortMarkFailure DEF IsNotCopied
<1>29. \A w \in Workers : Verifies(w) => OneMigrates'  BY <1>m, SortVerify, SortMigrated DEF Verifies
<1>30. \A w \in Workers : Finalizes(w) => OneMigrates'  BY <1>m, SortClaim DEF Finalizes, MediaTurn
<1>31. \A w \in Workers : AsksDeletion(w) => OneMigrates'  BY <1>m, SortRead DEF AsksDeletion, MediaTurn
<1>32. \A w \in Workers : AsksPlace(w, "bind") => OneMigrates'
  BY <1>m, SortBind DEF AsksPlace, MediaTurn
<1>34. \A w \in Workers : AsksPlace(w, "show") => OneMigrates'
  BY <1>m, SortShow DEF AsksPlace, MediaTurn
<1>33. \A w \in Workers : FindsMigrated(w) => OneMigrates'
  BY <1>m, SortMigrated DEF FindsMigrated, MediaTurn
<1> QED
  BY <1>1, <1>2, <1>3, <1>4, <1>5, <1>6, <1>7, <1>8, <1>9, <1>10, <1>11, <1>12, <1>13, <1>14, <1>15, <1>16, <1>17, <1>18, <1>19, <1>20, <1>21, <1>22, <1>23, <1>24, <1>25, <1>26, <1>27, <1>28, <1>29, <1>30, <1>31, <1>32, <1>33, <1>34 DEF MediaStep

LEMMA StepKeepsLedgersDiffer ==
  ASSUME MediaInv, RequestsAreNamed', duties' = duties, MediaStep
  PROVE  LedgersDiffer'
<1> USE SortRest, MediaAssumption DEF MediaInv, LedgersDiffer, KeepsOn, OthersKeepOn, OnlyRequest, Calm, Ahead, BeginsAt, OneRow, Touches, AlikeRow, AlikeRowsBut, SameLedger, ComesToRest, GoesOn, Works, IsStored, IsReady, RequestsAreNamed
<1>m. \A v, w \in Workers : Migrates(v) /\ work[v].file = work[w].file => v = w /\ (IsReady(work[v].file) \/ ~IsStored(work[v].file))
  BY MigratorsAreAlone
<1>t. \A a \in Files : file[a].status \in MediaStatuses  BY RowsHaveStatuses
<1>1. CASE BrowserWrites  BY <1>1 DEF BrowserWrites
<1>2. \A a \in Files : RowIsMade(a) => LedgersDiffer'  BY DEF RowIsMade, Fresh
<1>3. \A w \in Workers : Rests(w) => LedgersDiffer'  BY DEF Rests
<1>4. \A w \in Workers, a \in Files : Claims(w, a) => LedgersDiffer'
  BY SortClaim, SortStore DEF Claims, Deleted, MayClaim
<1>5. \A w \in Workers, a \in Files : Stores(w, a) => LedgersDiffer'  BY SortStore, SortReady DEF Stores
<1>6. \A w \in Workers, a \in Files : Finishes(w, a) => LedgersDiffer'
  BY SortReady, SortClean DEF Finishes
<1>7. \A w \in Workers, a \in Files : Fails(w, a) => LedgersDiffer'  BY SortFailed DEF Fails
<1>8. \A w \in Workers, a \in Files : Condemns(w, a) => LedgersDiffer'
  BY SortTake, SortObjects DEF Condemns
<1>9. \A w \in Workers, a \in Files : Empties(w, a) => LedgersDiffer'
  BY SortObjects, SortMark DEF Empties
<1>10. \A w \in Workers, a \in Files : Deletes(w, a) => LedgersDiffer'  BY SortMark DEF Deletes
<1>11. \A w \in Workers, a \in Files : Uploads(w, a) => LedgersDiffer'
  BY SortCreate DEF Uploads, MediaTurn, Fresh
<1>12. \A w \in Workers, a \in Files : Creates(w, a) => LedgersDiffer'
  BY SortCreate, SortShow DEF Creates
<1>13. \A w \in Workers, a \in Files : Fetches(w, a) => LedgersDiffer'
  BY SortFetch, SortMigrateRow DEF Fetches
<1>14. \A w \in Workers, a \in Files : Copies(w, a) => LedgersDiffer'
  BY SortMigrateRow, SortVerify DEF Copies
<1>15. \A w \in Workers, p \in Places : Forgets(w, p) => LedgersDiffer'
  BY SortRead DEF Forgets, MediaTurn, Shows
<1>16. \A w \in Workers, p \in Places, a \in Files : Displays(w, p, a) => LedgersDiffer'
  BY SortShow, SortRead DEF Displays, Shows
<1>17. \A w \in Workers, p \in Places, a \in Files : Takes(w, p, a) => LedgersDiffer'
  BY SortBindProof DEF Takes, MediaTurn, Shows
<1>18. \A w \in Workers, p \in Places, a \in Files : Delivers(w, p, a) => LedgersDiffer'
  BY SortMigrated DEF Delivers, Shows
<1>19. \A w \in Workers, p \in Places, a \in Files : Plans(w, p, a) => LedgersDiffer'
  BY SortFetch DEF Plans, MediaTurn, Fresh, MayMigrateTo
<1>20. \A w \in Workers : Reads(w) => LedgersDiffer'  BY SortRead, SortCheck DEF Reads
<1>21. \A w \in Workers : ReadsMarked(w) => LedgersDiffer'  BY SortRead, SortObjects DEF ReadsMarked
<1>22. \A w \in Workers : Checks(w) => LedgersDiffer'  BY SortCheck, SortTake DEF Checks
<1>23. \A w \in Workers : ReadsAgain(w) => LedgersDiffer'  BY SortTake, SortRead DEF ReadsAgain
<1>24. \A w \in Workers : GivesUp(w) => LedgersDiffer'  BY SortShow, SortRead DEF GivesUp
<1>25. \A w \in Workers : IsRefused(w) => LedgersDiffer'
  BY SortStore, SortReady, SortFailed DEF IsRefused
<1>26. \A w \in Workers : IsBound(w) => LedgersDiffer'  BY SortBind, SortShow DEF IsBound
<1>27. \A w \in Workers : FindsCopy(w) => LedgersDiffer'  BY SortFetch, SortVerify DEF FindsCopy
<1>28. \A w \in Workers : IsNotCopied(w) => LedgersDiffer'
  BY SortFetch, SortMigrateRow, SortVerify, SortMarkFailure DEF IsNotCopied
<1>29. \A w \in Workers : Verifies(w) => LedgersDiffer'  BY SortVerify, SortMigrated DEF Verifies
<1>30. \A w \in Workers : Finalizes(w) => LedgersDiffer'  BY SortClaim DEF Finalizes, MediaTurn
<1>31. \A w \in Workers : AsksDeletion(w) => LedgersDiffer'  BY SortRead DEF AsksDeletion, MediaTurn
<1>32. \A w \in Workers : AsksPlace(w, "bind") => LedgersDiffer'  BY SortBind DEF AsksPlace, MediaTurn
<1>34. \A w \in Workers : AsksPlace(w, "show") => LedgersDiffer'  BY SortShow DEF AsksPlace, MediaTurn
<1>33. \A w \in Workers : FindsMigrated(w) => LedgersDiffer'
  BY SortMigrated DEF FindsMigrated, MediaTurn
<1> QED
  BY <1>1, <1>2, <1>3, <1>4, <1>5, <1>6, <1>7, <1>8, <1>9, <1>10, <1>11, <1>12, <1>13, <1>14, <1>15, <1>16, <1>17, <1>18, <1>19, <1>20, <1>21, <1>22, <1>23, <1>24, <1>25, <1>26, <1>27, <1>28, <1>29, <1>30, <1>31, <1>32, <1>33, <1>34 DEF MediaStep

LEMMA StepKeepsMigratedAlone ==
  ASSUME MediaInv, RequestsAreNamed', duties' = duties, MediaStep
  PROVE  MigratedAlone'
<1> USE SortRest, MediaAssumption DEF MediaInv, MigratedAlone, KeepsOn, OthersKeepOn, OnlyRequest, Calm, Ahead, BeginsAt, OneRow, Touches, AlikeRow, AlikeRowsBut, SameLedger, ComesToRest, GoesOn, Works, IsStored, IsReady, RequestsAreNamed, Awaited, Untouched, Migrates, KnownFilesAreStored, CreatedAlone, OneMigrates, DutiesAreApart, LedgersDiffer
<1>m. \A v, w \in Workers : Migrates(v) /\ work[v].file = work[w].file => v = w /\ (IsReady(work[v].file) \/ ~IsStored(work[v].file))
  BY MigratorsAreAlone
<1>t. \A a \in Files : file[a].status \in MediaStatuses  BY RowsHaveStatuses
<1>1. CASE BrowserWrites  BY <1>1 DEF BrowserWrites
<1>2. \A a \in Files : RowIsMade(a) => MigratedAlone'  BY DEF RowIsMade, Fresh
<1>3. \A w \in Workers : Rests(w) => MigratedAlone'  BY DEF Rests
<1>4. \A w \in Workers, a \in Files : Claims(w, a) => MigratedAlone'
  BY SortClaim, SortStore DEF Claims, Deleted, MayClaim
<1>5. \A w \in Workers, a \in Files : Stores(w, a) => MigratedAlone'  BY SortStore, SortReady DEF Stores
<1>6. \A w \in Workers, a \in Files : Finishes(w, a) => MigratedAlone'
  BY SortReady, SortClean DEF Finishes
<1>7. \A w \in Workers, a \in Files : Fails(w, a) => MigratedAlone'  BY SortFailed DEF Fails
<1>8. \A w \in Workers, a \in Files : Condemns(w, a) => MigratedAlone'
  BY SortTake, SortObjects DEF Condemns
<1>9. \A w \in Workers, a \in Files : Empties(w, a) => MigratedAlone'
  BY SortObjects, SortMark DEF Empties
<1>10. \A w \in Workers, a \in Files : Deletes(w, a) => MigratedAlone'  BY SortMark DEF Deletes
<1>11. \A w \in Workers, a \in Files : Uploads(w, a) => MigratedAlone'
  BY SortCreate DEF Uploads, MediaTurn, Fresh
<1>12. \A w \in Workers, a \in Files : Creates(w, a) => MigratedAlone'
  BY SortCreate, SortShow DEF Creates
<1>13. \A w \in Workers, a \in Files : Fetches(w, a) => MigratedAlone'
  BY SortFetch, SortMigrateRow DEF Fetches
<1>14. \A w \in Workers, a \in Files : Copies(w, a) => MigratedAlone'
  BY SortMigrateRow, SortVerify DEF Copies
<1>15. \A w \in Workers, p \in Places : Forgets(w, p) => MigratedAlone'
  BY SortRead DEF Forgets, MediaTurn, Shows
<1>16. \A w \in Workers, p \in Places, a \in Files : Displays(w, p, a) => MigratedAlone'
  BY SortShow, SortRead DEF Displays, Shows
<1>17. \A w \in Workers, p \in Places, a \in Files : Takes(w, p, a) => MigratedAlone'
  BY SortBindProof DEF Takes, MediaTurn, Shows
<1>18. \A w \in Workers, p \in Places, a \in Files : Delivers(w, p, a) => MigratedAlone'
  BY SortMigrated DEF Delivers, Shows
<1>19. \A w \in Workers, p \in Places, a \in Files : Plans(w, p, a) => MigratedAlone'
  BY SortFetch DEF Plans, MediaTurn, Fresh, MayMigrateTo
<1>20. \A w \in Workers : Reads(w) => MigratedAlone'  BY SortRead, SortCheck DEF Reads
<1>21. \A w \in Workers : ReadsMarked(w) => MigratedAlone'  BY SortRead, SortObjects DEF ReadsMarked
<1>22. \A w \in Workers : Checks(w) => MigratedAlone'  BY SortCheck, SortTake DEF Checks
<1>23. \A w \in Workers : ReadsAgain(w) => MigratedAlone'  BY SortTake, SortRead DEF ReadsAgain
<1>24. \A w \in Workers : GivesUp(w) => MigratedAlone'  BY SortShow, SortRead DEF GivesUp
<1>25. \A w \in Workers : IsRefused(w) => MigratedAlone'
  BY SortStore, SortReady, SortFailed DEF IsRefused
<1>26. \A w \in Workers : IsBound(w) => MigratedAlone'  BY SortBind, SortShow DEF IsBound
<1>27. \A w \in Workers : FindsCopy(w) => MigratedAlone'  BY SortFetch, SortVerify DEF FindsCopy
<1>28. \A w \in Workers : IsNotCopied(w) => MigratedAlone'
  BY SortFetch, SortMigrateRow, SortVerify, SortMarkFailure DEF IsNotCopied
<1>29. \A w \in Workers : Verifies(w) => MigratedAlone'  BY SortVerify, SortMigrated DEF Verifies
<1>30. \A w \in Workers : Finalizes(w) => MigratedAlone'  BY SortClaim DEF Finalizes, MediaTurn
<1>31. \A w \in Workers : AsksDeletion(w) => MigratedAlone'  BY SortRead DEF AsksDeletion, MediaTurn
<1>32. \A w \in Workers : AsksPlace(w, "bind") => MigratedAlone'  BY SortBind DEF AsksPlace, MediaTurn
<1>34. \A w \in Workers : AsksPlace(w, "show") => MigratedAlone'  BY SortShow DEF AsksPlace, MediaTurn
<1>33. \A w \in Workers : FindsMigrated(w) => MigratedAlone'
  BY SortMigrated DEF FindsMigrated, MediaTurn
<1> QED
  BY ZenonT(40), <1>1, <1>2, <1>3, <1>4, <1>5, <1>6, <1>7, <1>8, <1>9, <1>10, <1>11, <1>12, <1>13, <1>14, <1>15, <1>16, <1>17, <1>18, <1>19, <1>20, <1>21, <1>22, <1>23, <1>24, <1>25, <1>26, <1>27, <1>28, <1>29, <1>30, <1>31, <1>32, <1>33, <1>34 DEF MediaStep

LEMMA StepKeepsTakenFilesAreReady ==
  ASSUME MediaInv, RequestsAreNamed', duties' = duties, MediaStep
  PROVE  TakenFilesAreReady'
<1> USE SortRest, MediaAssumption DEF MediaInv, TakenFilesAreReady, KeepsOn, OthersKeepOn, OnlyRequest, Calm, Ahead, BeginsAt, OneRow, Touches, AlikeRow, AlikeRowsBut, SameLedger, ComesToRest, GoesOn, Works, IsStored, IsReady, RequestsAreNamed, InUse, OneWorks, ShownFilesAreReady, OneMigrates
<1>m. \A v, w \in Workers : Migrates(v) /\ work[v].file = work[w].file => v = w /\ (IsReady(work[v].file) \/ ~IsStored(work[v].file))
  BY MigratorsAreAlone
<1>t. \A a \in Files : file[a].status \in MediaStatuses  BY RowsHaveStatuses
<1>1. CASE BrowserWrites  BY <1>1 DEF BrowserWrites
<1>2. \A a \in Files : RowIsMade(a) => TakenFilesAreReady'  BY DEF RowIsMade, Fresh
<1>3. \A w \in Workers : Rests(w) => TakenFilesAreReady'  BY DEF Rests
<1>4. \A w \in Workers, a \in Files : Claims(w, a) => TakenFilesAreReady'
  BY SortClaim, SortStore DEF Claims, Deleted, MayClaim
<1>5. \A w \in Workers, a \in Files : Stores(w, a) => TakenFilesAreReady'
  BY SortStore, SortReady DEF Stores
<1>6. \A w \in Workers, a \in Files : Finishes(w, a) => TakenFilesAreReady'
  BY SortReady, SortClean DEF Finishes
<1>7. \A w \in Workers, a \in Files : Fails(w, a) => TakenFilesAreReady'  BY SortFailed DEF Fails
<1>8. \A w \in Workers, a \in Files : Condemns(w, a) => TakenFilesAreReady'
  BY SortTake, SortObjects DEF Condemns
<1>9. \A w \in Workers, a \in Files : Empties(w, a) => TakenFilesAreReady'
  BY SortObjects, SortMark DEF Empties
<1>10. \A w \in Workers, a \in Files : Deletes(w, a) => TakenFilesAreReady'  BY SortMark DEF Deletes
<1>11. \A w \in Workers, a \in Files : Uploads(w, a) => TakenFilesAreReady'
  BY SortCreate DEF Uploads, MediaTurn, Fresh
<1>12. \A w \in Workers, a \in Files : Creates(w, a) => TakenFilesAreReady'
  BY SortCreate, SortShow DEF Creates
<1>13. \A w \in Workers, a \in Files : Fetches(w, a) => TakenFilesAreReady'
  BY SortFetch, SortMigrateRow DEF Fetches
<1>14. \A w \in Workers, a \in Files : Copies(w, a) => TakenFilesAreReady'
  BY SortMigrateRow, SortVerify DEF Copies
<1>15. \A w \in Workers, p \in Places : Forgets(w, p) => TakenFilesAreReady'
  BY SortRead DEF Forgets, MediaTurn, Shows
<1>16. \A w \in Workers, p \in Places, a \in Files : Displays(w, p, a) => TakenFilesAreReady'
  BY SortShow, SortRead DEF Displays, Shows
<1>17. \A w \in Workers, p \in Places, a \in Files : Takes(w, p, a) => TakenFilesAreReady'
  BY SortBindProof DEF Takes, MediaTurn, Shows
<1>18. \A w \in Workers, p \in Places, a \in Files : Delivers(w, p, a) => TakenFilesAreReady'
  BY SortMigrated DEF Delivers, Shows
<1>19. \A w \in Workers, p \in Places, a \in Files : Plans(w, p, a) => TakenFilesAreReady'
  BY SortFetch DEF Plans, MediaTurn, Fresh, MayMigrateTo
<1>20. \A w \in Workers : Reads(w) => TakenFilesAreReady'  BY SortRead, SortCheck DEF Reads
<1>21. \A w \in Workers : ReadsMarked(w) => TakenFilesAreReady'
  BY SortRead, SortObjects DEF ReadsMarked
<1>22. \A w \in Workers : Checks(w) => TakenFilesAreReady'  BY SortCheck, SortTake DEF Checks
<1>23. \A w \in Workers : ReadsAgain(w) => TakenFilesAreReady'  BY SortTake, SortRead DEF ReadsAgain
<1>24. \A w \in Workers : GivesUp(w) => TakenFilesAreReady'  BY SortShow, SortRead DEF GivesUp
<1>25. \A w \in Workers : IsRefused(w) => TakenFilesAreReady'
  BY SortStore, SortReady, SortFailed DEF IsRefused
<1>26. \A w \in Workers : IsBound(w) => TakenFilesAreReady'  BY SortBind, SortShow DEF IsBound
<1>27. \A w \in Workers : FindsCopy(w) => TakenFilesAreReady'  BY SortFetch, SortVerify DEF FindsCopy
<1>28. \A w \in Workers : IsNotCopied(w) => TakenFilesAreReady'
  BY SortFetch, SortMigrateRow, SortVerify, SortMarkFailure DEF IsNotCopied
<1>29. \A w \in Workers : Verifies(w) => TakenFilesAreReady'  BY SortVerify, SortMigrated DEF Verifies
<1>30. \A w \in Workers : Finalizes(w) => TakenFilesAreReady'  BY SortClaim DEF Finalizes, MediaTurn
<1>31. \A w \in Workers : AsksDeletion(w) => TakenFilesAreReady'
  BY SortRead DEF AsksDeletion, MediaTurn
<1>32. \A w \in Workers : AsksPlace(w, "bind") => TakenFilesAreReady'
  BY SortBind DEF AsksPlace, MediaTurn
<1>34. \A w \in Workers : AsksPlace(w, "show") => TakenFilesAreReady'
  BY SortShow DEF AsksPlace, MediaTurn
<1>33. \A w \in Workers : FindsMigrated(w) => TakenFilesAreReady'
  BY SortMigrated DEF FindsMigrated, MediaTurn
<1> QED
  BY <1>1, <1>2, <1>3, <1>4, <1>5, <1>6, <1>7, <1>8, <1>9, <1>10, <1>11, <1>12, <1>13, <1>14, <1>15, <1>16, <1>17, <1>18, <1>19, <1>20, <1>21, <1>22, <1>23, <1>24, <1>25, <1>26, <1>27, <1>28, <1>29, <1>30, <1>31, <1>32, <1>33, <1>34 DEF MediaStep

LEMMA StepKeepsReadyFilesHaveObjects ==
  ASSUME MediaInv, RequestsAreNamed', duties' = duties, MediaStep
  PROVE  ReadyFilesHaveObjects'
<1> USE SortRest, MediaAssumption DEF MediaInv, ReadyFilesHaveObjects, KeepsOn, OthersKeepOn, OnlyRequest, Calm, Ahead, BeginsAt, OneRow, Touches, AlikeRow, AlikeRowsBut, SameLedger, ComesToRest, GoesOn, Works, IsStored, IsReady, RequestsAreNamed, LeasesAreSingle, ObjectsGoUnderAMark, CreatedAlone, OneMigrates
<1>m. \A v, w \in Workers : Migrates(v) /\ work[v].file = work[w].file => v = w /\ (IsReady(work[v].file) \/ ~IsStored(work[v].file))
  BY MigratorsAreAlone
<1>t. \A a \in Files : file[a].status \in MediaStatuses  BY RowsHaveStatuses
<1>1. CASE BrowserWrites  BY <1>1, <1>m, SortRest, MediaAssumption DEF BrowserWrites
<1>2. \A a \in Files : RowIsMade(a) => ReadyFilesHaveObjects'  BY <1>m DEF RowIsMade, Fresh
<1>3. \A w \in Workers : Rests(w) => ReadyFilesHaveObjects'  BY <1>m DEF Rests
<1>4. \A w \in Workers, a \in Files : Claims(w, a) => ReadyFilesHaveObjects'
  BY <1>m, SortClaim, SortStore DEF Claims, Deleted, MayClaim
<1>5. \A w \in Workers, a \in Files : Stores(w, a) => ReadyFilesHaveObjects'
  BY <1>m, SortStore, SortReady DEF Stores
<1>6. \A w \in Workers, a \in Files : Finishes(w, a) => ReadyFilesHaveObjects'
  BY <1>m, SortReady, SortClean DEF Finishes
<1>7. \A w \in Workers, a \in Files : Fails(w, a) => ReadyFilesHaveObjects'
  BY <1>m, SortFailed DEF Fails
<1>8. \A w \in Workers, a \in Files : Condemns(w, a) => ReadyFilesHaveObjects'
  BY <1>m, SortTake, SortObjects DEF Condemns
<1>9. \A w \in Workers, a \in Files : Empties(w, a) => ReadyFilesHaveObjects'
  BY <1>m, SortObjects, SortMark DEF Empties
<1>10. \A w \in Workers, a \in Files : Deletes(w, a) => ReadyFilesHaveObjects'
  BY <1>m, SortMark DEF Deletes
<1>11. \A w \in Workers, a \in Files : Uploads(w, a) => ReadyFilesHaveObjects'
  BY <1>m, SortCreate DEF Uploads, MediaTurn, Fresh
<1>12. \A w \in Workers, a \in Files : Creates(w, a) => ReadyFilesHaveObjects'
  BY <1>m, SortCreate, SortShow DEF Creates
<1>13. \A w \in Workers, a \in Files : Fetches(w, a) => ReadyFilesHaveObjects'
  BY <1>m, SortFetch, SortMigrateRow DEF Fetches
<1>14. \A w \in Workers, a \in Files : Copies(w, a) => ReadyFilesHaveObjects'
  BY <1>m, SortMigrateRow, SortVerify DEF Copies
<1>15. \A w \in Workers, p \in Places : Forgets(w, p) => ReadyFilesHaveObjects'
  BY <1>m, SortRead DEF Forgets, MediaTurn, Shows
<1>16. \A w \in Workers, p \in Places, a \in Files : Displays(w, p, a) => ReadyFilesHaveObjects'
  BY <1>m, SortShow, SortRead DEF Displays, Shows
<1>17. \A w \in Workers, p \in Places, a \in Files : Takes(w, p, a) => ReadyFilesHaveObjects'
  BY <1>m, SortBindProof DEF Takes, MediaTurn, Shows
<1>18. \A w \in Workers, p \in Places, a \in Files : Delivers(w, p, a) => ReadyFilesHaveObjects'
  BY <1>m, SortMigrated DEF Delivers, Shows
<1>19. \A w \in Workers, p \in Places, a \in Files : Plans(w, p, a) => ReadyFilesHaveObjects'
  BY <1>m, SortFetch DEF Plans, MediaTurn, Fresh, MayMigrateTo
<1>20. \A w \in Workers : Reads(w) => ReadyFilesHaveObjects'  BY <1>m, SortRead, SortCheck DEF Reads
<1>21. \A w \in Workers : ReadsMarked(w) => ReadyFilesHaveObjects'
  BY <1>m, SortRead, SortObjects DEF ReadsMarked
<1>22. \A w \in Workers : Checks(w) => ReadyFilesHaveObjects'  BY <1>m, SortCheck, SortTake DEF Checks
<1>23. \A w \in Workers : ReadsAgain(w) => ReadyFilesHaveObjects'
  BY <1>m, SortTake, SortRead DEF ReadsAgain
<1>24. \A w \in Workers : GivesUp(w) => ReadyFilesHaveObjects'  BY <1>m, SortShow, SortRead DEF GivesUp
<1>25. \A w \in Workers : IsRefused(w) => ReadyFilesHaveObjects'
  BY <1>m, SortStore, SortReady, SortFailed DEF IsRefused
<1>26. \A w \in Workers : IsBound(w) => ReadyFilesHaveObjects'  BY <1>m, SortBind, SortShow DEF IsBound
<1>27. \A w \in Workers : FindsCopy(w) => ReadyFilesHaveObjects'
  BY <1>m, SortFetch, SortVerify DEF FindsCopy
<1>28. \A w \in Workers : IsNotCopied(w) => ReadyFilesHaveObjects'
  BY <1>m, SortFetch, SortMigrateRow, SortVerify, SortMarkFailure DEF IsNotCopied
<1>29. \A w \in Workers : Verifies(w) => ReadyFilesHaveObjects'
  BY <1>m, SortVerify, SortMigrated DEF Verifies
<1>30. \A w \in Workers : Finalizes(w) => ReadyFilesHaveObjects'
  BY <1>m, SortClaim DEF Finalizes, MediaTurn
<1>31. \A w \in Workers : AsksDeletion(w) => ReadyFilesHaveObjects'
  BY <1>m, SortRead DEF AsksDeletion, MediaTurn
<1>32. \A w \in Workers : AsksPlace(w, "bind") => ReadyFilesHaveObjects'
  BY <1>m, SortBind DEF AsksPlace, MediaTurn
<1>34. \A w \in Workers : AsksPlace(w, "show") => ReadyFilesHaveObjects'
  BY <1>m, SortShow DEF AsksPlace, MediaTurn
<1>33. \A w \in Workers : FindsMigrated(w) => ReadyFilesHaveObjects'
  BY <1>m, SortMigrated DEF FindsMigrated, MediaTurn
<1> QED
  BY <1>1, <1>2, <1>3, <1>4, <1>5, <1>6, <1>7, <1>8, <1>9, <1>10, <1>11, <1>12, <1>13, <1>14, <1>15, <1>16, <1>17, <1>18, <1>19, <1>20, <1>21, <1>22, <1>23, <1>24, <1>25, <1>26, <1>27, <1>28, <1>29, <1>30, <1>31, <1>32, <1>33, <1>34 DEF MediaStep

LEMMA StepKeepsDeletedFilesHaveNone ==
  ASSUME MediaInv, RequestsAreNamed', duties' = duties, MediaStep
  PROVE  DeletedFilesHaveNone'
<1> USE SortRest, MediaAssumption DEF MediaInv, DeletedFilesHaveNone, KeepsOn, OthersKeepOn, OnlyRequest, Calm, Ahead, BeginsAt, OneRow, Touches, AlikeRow, AlikeRowsBut, SameLedger, ComesToRest, GoesOn, Works, IsStored, IsReady, RequestsAreNamed, Deleted, LeasesAreSingle, ObjectsGoUnderAMark, CreatedAlone, Migrates
<1>m. \A v, w \in Workers : Migrates(v) /\ work[v].file = work[w].file => v = w /\ (IsReady(work[v].file) \/ ~IsStored(work[v].file))
  BY MigratorsAreAlone
<1>t. \A a \in Files : file[a].status \in MediaStatuses  BY RowsHaveStatuses
<1>1. CASE BrowserWrites  BY <1>1, <1>m, SortRest, MediaAssumption DEF BrowserWrites
<1>2. \A a \in Files : RowIsMade(a) => DeletedFilesHaveNone'  BY <1>m DEF RowIsMade, Fresh
<1>3. \A w \in Workers : Rests(w) => DeletedFilesHaveNone'  BY <1>m DEF Rests
<1>4. \A w \in Workers, a \in Files : Claims(w, a) => DeletedFilesHaveNone'
  BY <1>m, SortClaim, SortStore DEF Claims, Deleted, MayClaim
<1>5. \A w \in Workers, a \in Files : Stores(w, a) => DeletedFilesHaveNone'
  BY <1>m, SortStore, SortReady DEF Stores
<1>6. \A w \in Workers, a \in Files : Finishes(w, a) => DeletedFilesHaveNone'
  BY <1>m, SortReady, SortClean DEF Finishes
<1>7. \A w \in Workers, a \in Files : Fails(w, a) => DeletedFilesHaveNone'
  BY <1>m, SortFailed DEF Fails
<1>8. \A w \in Workers, a \in Files : Condemns(w, a) => DeletedFilesHaveNone'
  BY <1>m, SortTake, SortObjects DEF Condemns
<1>9. \A w \in Workers, a \in Files : Empties(w, a) => DeletedFilesHaveNone'
  BY <1>m, SortObjects, SortMark DEF Empties
<1>10. \A w \in Workers, a \in Files : Deletes(w, a) => DeletedFilesHaveNone'
  BY <1>m, SortMark DEF Deletes
<1>11. \A w \in Workers, a \in Files : Uploads(w, a) => DeletedFilesHaveNone'
  BY <1>m, SortCreate DEF Uploads, MediaTurn, Fresh
<1>12. \A w \in Workers, a \in Files : Creates(w, a) => DeletedFilesHaveNone'
  BY <1>m, SortCreate, SortShow DEF Creates
<1>13. \A w \in Workers, a \in Files : Fetches(w, a) => DeletedFilesHaveNone'
  BY <1>m, SortFetch, SortMigrateRow DEF Fetches
<1>14. \A w \in Workers, a \in Files : Copies(w, a) => DeletedFilesHaveNone'
  BY <1>m, SortMigrateRow, SortVerify DEF Copies
<1>15. \A w \in Workers, p \in Places : Forgets(w, p) => DeletedFilesHaveNone'
  BY <1>m, SortRead DEF Forgets, MediaTurn, Shows
<1>16. \A w \in Workers, p \in Places, a \in Files : Displays(w, p, a) => DeletedFilesHaveNone'
  BY <1>m, SortShow, SortRead DEF Displays, Shows
<1>17. \A w \in Workers, p \in Places, a \in Files : Takes(w, p, a) => DeletedFilesHaveNone'
  BY <1>m, SortBindProof DEF Takes, MediaTurn, Shows
<1>18. \A w \in Workers, p \in Places, a \in Files : Delivers(w, p, a) => DeletedFilesHaveNone'
  BY <1>m, SortMigrated DEF Delivers, Shows
<1>19. \A w \in Workers, p \in Places, a \in Files : Plans(w, p, a) => DeletedFilesHaveNone'
  BY <1>m, SortFetch DEF Plans, MediaTurn, Fresh, MayMigrateTo
<1>20. \A w \in Workers : Reads(w) => DeletedFilesHaveNone'  BY <1>m, SortRead, SortCheck DEF Reads
<1>21. \A w \in Workers : ReadsMarked(w) => DeletedFilesHaveNone'
  BY <1>m, SortRead, SortObjects DEF ReadsMarked
<1>22. \A w \in Workers : Checks(w) => DeletedFilesHaveNone'  BY <1>m, SortCheck, SortTake DEF Checks
<1>23. \A w \in Workers : ReadsAgain(w) => DeletedFilesHaveNone'
  BY <1>m, SortTake, SortRead DEF ReadsAgain
<1>24. \A w \in Workers : GivesUp(w) => DeletedFilesHaveNone'  BY <1>m, SortShow, SortRead DEF GivesUp
<1>25. \A w \in Workers : IsRefused(w) => DeletedFilesHaveNone'
  BY <1>m, SortStore, SortReady, SortFailed DEF IsRefused
<1>26. \A w \in Workers : IsBound(w) => DeletedFilesHaveNone'  BY <1>m, SortBind, SortShow DEF IsBound
<1>27. \A w \in Workers : FindsCopy(w) => DeletedFilesHaveNone'
  BY <1>m, SortFetch, SortVerify DEF FindsCopy
<1>28. \A w \in Workers : IsNotCopied(w) => DeletedFilesHaveNone'
  BY <1>m, SortFetch, SortMigrateRow, SortVerify, SortMarkFailure DEF IsNotCopied
<1>29. \A w \in Workers : Verifies(w) => DeletedFilesHaveNone'
  BY <1>m, SortVerify, SortMigrated DEF Verifies
<1>30. \A w \in Workers : Finalizes(w) => DeletedFilesHaveNone'
  BY <1>m, SortClaim DEF Finalizes, MediaTurn
<1>31. \A w \in Workers : AsksDeletion(w) => DeletedFilesHaveNone'
  BY <1>m, SortRead DEF AsksDeletion, MediaTurn
<1>32. \A w \in Workers : AsksPlace(w, "bind") => DeletedFilesHaveNone'
  BY <1>m, SortBind DEF AsksPlace, MediaTurn
<1>34. \A w \in Workers : AsksPlace(w, "show") => DeletedFilesHaveNone'
  BY <1>m, SortShow DEF AsksPlace, MediaTurn
<1>33. \A w \in Workers : FindsMigrated(w) => DeletedFilesHaveNone'
  BY <1>m, SortMigrated DEF FindsMigrated, MediaTurn
<1> QED
  BY <1>1, <1>2, <1>3, <1>4, <1>5, <1>6, <1>7, <1>8, <1>9, <1>10, <1>11, <1>12, <1>13, <1>14, <1>15, <1>16, <1>17, <1>18, <1>19, <1>20, <1>21, <1>22, <1>23, <1>24, <1>25, <1>26, <1>27, <1>28, <1>29, <1>30, <1>31, <1>32, <1>33, <1>34 DEF MediaStep

LEMMA StepKeepsShownFilesAreReady ==
  ASSUME MediaInv, RequestsAreNamed', duties' = duties, MediaStep
  PROVE  ShownFilesAreReady'
<1> USE SortRest, MediaAssumption DEF MediaInv, ShownFilesAreReady, KeepsOn, OthersKeepOn, OnlyRequest, Calm, Ahead, BeginsAt, OneRow, Touches, AlikeRow, AlikeRowsBut, SameLedger, ComesToRest, GoesOn, Works, IsStored, IsReady, RequestsAreNamed, OneWorks, TakenFilesAreReady, OneMigrates, ObjectsGoUnderAMark, LeasesAreSingle, InUse
<1>m. \A v, w \in Workers : Migrates(v) /\ work[v].file = work[w].file => v = w /\ (IsReady(work[v].file) \/ ~IsStored(work[v].file))
  BY MigratorsAreAlone
<1>t. \A a \in Files : file[a].status \in MediaStatuses  BY RowsHaveStatuses
<1>1. CASE BrowserWrites  BY <1>1 DEF BrowserWrites
<1>2. \A a \in Files : RowIsMade(a) => ShownFilesAreReady'  BY DEF RowIsMade, Fresh
<1>3. \A w \in Workers : Rests(w) => ShownFilesAreReady'  BY DEF Rests
<1>4. \A w \in Workers, a \in Files : Claims(w, a) => ShownFilesAreReady'
  BY SortClaim, SortStore DEF Claims, Deleted, MayClaim
<1>5. \A w \in Workers, a \in Files : Stores(w, a) => ShownFilesAreReady'
  BY SortStore, SortReady DEF Stores
<1>6. \A w \in Workers, a \in Files : Finishes(w, a) => ShownFilesAreReady'
  BY SortReady, SortClean DEF Finishes
<1>7. \A w \in Workers, a \in Files : Fails(w, a) => ShownFilesAreReady'  BY SortFailed DEF Fails
<1>8. \A w \in Workers, a \in Files : Condemns(w, a) => ShownFilesAreReady'
  BY SortTake, SortObjects DEF Condemns
<1>9. \A w \in Workers, a \in Files : Empties(w, a) => ShownFilesAreReady'
  BY SortObjects, SortMark DEF Empties
<1>10. \A w \in Workers, a \in Files : Deletes(w, a) => ShownFilesAreReady'  BY SortMark DEF Deletes
<1>11. \A w \in Workers, a \in Files : Uploads(w, a) => ShownFilesAreReady'
  BY SortCreate DEF Uploads, MediaTurn, Fresh
<1>12. \A w \in Workers, a \in Files : Creates(w, a) => ShownFilesAreReady'
  BY SortCreate, SortShow DEF Creates
<1>13. \A w \in Workers, a \in Files : Fetches(w, a) => ShownFilesAreReady'
  BY SortFetch, SortMigrateRow DEF Fetches
<1>14. \A w \in Workers, a \in Files : Copies(w, a) => ShownFilesAreReady'
  BY SortMigrateRow, SortVerify DEF Copies
<1>15. \A w \in Workers, p \in Places : Forgets(w, p) => ShownFilesAreReady'
  BY SortRead DEF Forgets, MediaTurn, Shows
<1>16. \A w \in Workers, p \in Places, a \in Files : Displays(w, p, a) => ShownFilesAreReady'
  BY SortShow, SortRead DEF Displays, Shows
<1>17. \A w \in Workers, p \in Places, a \in Files : Takes(w, p, a) => ShownFilesAreReady'
  BY SortBindProof DEF Takes, MediaTurn, Shows
<1>18. \A w \in Workers, p \in Places, a \in Files : Delivers(w, p, a) => ShownFilesAreReady'
  BY SortMigrated DEF Delivers, Shows
<1>19. \A w \in Workers, p \in Places, a \in Files : Plans(w, p, a) => ShownFilesAreReady'
  BY SortFetch DEF Plans, MediaTurn, Fresh, MayMigrateTo
<1>20. \A w \in Workers : Reads(w) => ShownFilesAreReady'  BY SortRead, SortCheck DEF Reads
<1>21. \A w \in Workers : ReadsMarked(w) => ShownFilesAreReady'
  BY SortRead, SortObjects DEF ReadsMarked
<1>22. \A w \in Workers : Checks(w) => ShownFilesAreReady'  BY SortCheck, SortTake DEF Checks
<1>23. \A w \in Workers : ReadsAgain(w) => ShownFilesAreReady'  BY SortTake, SortRead DEF ReadsAgain
<1>24. \A w \in Workers : GivesUp(w) => ShownFilesAreReady'  BY SortShow, SortRead DEF GivesUp
<1>25. \A w \in Workers : IsRefused(w) => ShownFilesAreReady'
  BY SortStore, SortReady, SortFailed DEF IsRefused
<1>26. \A w \in Workers : IsBound(w) => ShownFilesAreReady'  BY SortBind, SortShow DEF IsBound
<1>27. \A w \in Workers : FindsCopy(w) => ShownFilesAreReady'  BY SortFetch, SortVerify DEF FindsCopy
<1>28. \A w \in Workers : IsNotCopied(w) => ShownFilesAreReady'
  BY SortFetch, SortMigrateRow, SortVerify, SortMarkFailure DEF IsNotCopied
<1>29. \A w \in Workers : Verifies(w) => ShownFilesAreReady'  BY SortVerify, SortMigrated DEF Verifies
<1>30. \A w \in Workers : Finalizes(w) => ShownFilesAreReady'  BY SortClaim DEF Finalizes, MediaTurn
<1>31. \A w \in Workers : AsksDeletion(w) => ShownFilesAreReady'
  BY SortRead DEF AsksDeletion, MediaTurn
<1>32. \A w \in Workers : AsksPlace(w, "bind") => ShownFilesAreReady'
  BY SortBind DEF AsksPlace, MediaTurn
<1>34. \A w \in Workers : AsksPlace(w, "show") => ShownFilesAreReady'
  BY SortShow DEF AsksPlace, MediaTurn
<1>33. \A w \in Workers : FindsMigrated(w) => ShownFilesAreReady'
  BY SortMigrated DEF FindsMigrated, MediaTurn
<1> QED
  BY <1>1, <1>2, <1>3, <1>4, <1>5, <1>6, <1>7, <1>8, <1>9, <1>10, <1>11, <1>12, <1>13, <1>14, <1>15, <1>16, <1>17, <1>18, <1>19, <1>20, <1>21, <1>22, <1>23, <1>24, <1>25, <1>26, <1>27, <1>28, <1>29, <1>30, <1>31, <1>32, <1>33, <1>34 DEF MediaStep

LEMMA InitMediaTypes ==
  ASSUME NEW mixes, MediaInit(mixes)
  PROVE  MediaTypeOK
<1>1. NoFile \in MediaRow  BY DEF NoFile, MediaRow, MediaStatuses
<1> QED BY <1>1, RestIsTyped DEF MediaInit, MediaTypeOK, WorkIsTyped

LEMMA InitMediaInv ==
  ASSUME OldLeasesAreAlone, MediaInit(MediaMixes)
  PROVE  MediaInv
<1>1. MediaTypeOK  BY InitMediaTypes
<1>2. \A w \in Workers : /\ Works(w, "rest") /\ work[w].at = "rest"
                         /\ work[w].file = Nothing /\ work[w].previous = Nothing
  BY RestIsTyped DEF MediaInit, Works
<1>3. \A a \in Files : file[a].status = "NONE" /\ ~file[a].late /\ ~file[a].keyed
  BY DEF MediaInit, NoFile
<1>4. /\ \A p \in Places : shown[p] = IF "migrate" \in duties THEN Legacy ELSE Nothing
      /\ \A p \in Places : ledger[p].file = Nothing
  BY DEF MediaInit
<1>5. /\ "old" \in duties => duties \cap {"delete", "clear", "attach", "upload"} = {}
      /\ "migrate" \in duties => duties \cap {"delete", "attach"} = {}
  BY DEF MediaInit, OldLeasesAreAlone
<1>6. Legacy # Nothing /\ Nothing \notin Files /\ Legacy \notin Files  BY MediaAssumption
<1>7. \A w \in Workers : ~Migrates(w)  BY <1>2, SortRest DEF Migrates
<1>8. DutiesAreApart  BY <1>4, <1>5, <1>6, <1>7 DEF DutiesAreApart
<1>9. RequestsAreNamed /\ OneWorks  BY <1>2 DEF RequestsAreNamed, OneWorks
<1>10. KnownFilesAreStored /\ LeasesAreSingle
  BY <1>2, <1>3, <1>4, <1>6, SortRest DEF KnownFilesAreStored, LeasesAreSingle, Works
<1>11. ObjectsGoUnderAMark  BY <1>2, <1>3, SortRest DEF ObjectsGoUnderAMark, Works
<1>12. CreatedAlone /\ OneMigrates  BY <1>2, <1>7 DEF CreatedAlone, OneMigrates, Works
<1>13. LedgersDiffer /\ MigratedAlone  BY <1>4, <1>6 DEF LedgersDiffer, MigratedAlone
<1>14. TakenFilesAreReady  BY <1>2, SortRest DEF TakenFilesAreReady, Works
<1>15. ReadyFilesHaveObjects /\ DeletedFilesHaveNone /\ ShownFilesAreReady
  BY <1>3, <1>4, <1>6 DEF ReadyFilesHaveObjects, DeletedFilesHaveNone, ShownFilesAreReady, IsReady, Deleted
<1> QED BY <1>1, <1>8, <1>9, <1>10, <1>11, <1>12, <1>13, <1>14, <1>15 DEF MediaInv

LEMMA StepKeepsMediaInv ==
  ASSUME MediaInv, [MediaNext]_fileVars
  PROVE  MediaInv'
<1>1. MediaTypeOK' /\ MediaStep /\ duties' = duties  BY StepsAreKnown DEF MediaInv
<1>2. RequestsAreNamed'  BY <1>1 DEF MediaTypeOK, WorkIsTyped, WellAsked, RequestsAreNamed, Works
<1>3. DutiesAreApart' /\ OneWorks' /\ KnownFilesAreStored' /\ LeasesAreSingle'
  BY <1>1, <1>2, StepKeepsDutiesAreApart, StepKeepsOneWorks, StepKeepsKnownFilesAreStored, StepKeepsLeasesAreSingle
<1>4. ObjectsGoUnderAMark' /\ CreatedAlone' /\ OneMigrates' /\ LedgersDiffer' /\ MigratedAlone'
  BY <1>1, <1>2, StepKeepsObjectsGoUnderAMark, StepKeepsCreatedAlone, StepKeepsOneMigrates, StepKeepsLedgersDiffer,
     StepKeepsMigratedAlone
<1>5. TakenFilesAreReady' /\ ReadyFilesHaveObjects' /\ DeletedFilesHaveNone' /\ ShownFilesAreReady'
  BY <1>1, <1>2, StepKeepsTakenFilesAreReady, StepKeepsReadyFilesHaveObjects, StepKeepsDeletedFilesHaveNone,
     StepKeepsShownFilesAreReady
<1> QED BY <1>1, <1>2, <1>3, <1>4, <1>5 DEF MediaInv

\* The rows, records, ledgers and requests of the media keep their types: a request in progress
\* names a file, and a record where it is about to write one.
THEOREM MediaTypeCorrect == MediaSpec => []MediaTypeOK
<1>1. MediaInit(MediaMixes) => MediaTypeOK  BY InitMediaTypes
<1>2. MediaTypeOK /\ [MediaNext]_fileVars => MediaTypeOK'  BY StepsAreKnown
<1> QED BY <1>1, <1>2, PTL DEF MediaSpec

\* A finished file has its object in the bucket, a deleted one has left none under the key its row
\* names, and without a race records show finished files: finalising under a lease, deleting,
\* attaching, replacing, failing half-way and migrating keep rows and bucket together
\* (finalizeUpload, deleteAsset and their callers, migrateSource).
THEOREM FilesStayThere ==
  ASSUME OldLeasesAreAlone
  PROVE  MediaSpec => []FilesAreThere
<1>1. MediaInit(MediaMixes) => MediaInv  BY InitMediaInv
<1>2. MediaInv /\ [MediaNext]_fileVars => MediaInv'  BY StepKeepsMediaInv
<1>3. MediaInv => FilesAreThere
  BY DEF MediaInv, FilesAreThere, ReadyFilesHaveObjects, DeletedFilesHaveNone, ShownFilesAreReady
<1> QED BY <1>1, <1>2, <1>3, PTL DEF MediaSpec

------------------------
(* The public page of a form *)

\* The parts of a form that a request may change.
FormParts == {"entries", "timetable", "asks", "addOns", "areas", "published"}
IsEntry(e) ==
    /\ e = [service |-> e.service, type |-> e.type, enabled |-> e.enabled, price |-> e.price]
    /\ e.service \in Offerings \cup {Missing}
IsForm(f) ==
    f = [stage |-> f.stage, published |-> f.published, entries |-> f.entries, timetable |-> f.timetable,
         asks |-> f.asks, addOns |-> f.addOns, areas |-> f.areas]
IsCatalogue(c) ==
    /\ c = [s \in Offerings |-> c[s]]
    /\ \A s \in Offerings : c[s] = [active |-> c[s].active, online |-> c[s].online, type |-> c[s].type, terms |-> c[s].terms]

ViewerIsRecord ==
    /\ viewer = [step |-> viewer.step, page |-> viewer.page, sound |-> viewer.sound, clean |-> viewer.clean,
                 times |-> viewer.times, timely |-> viewer.timely]
    /\ viewer.sound \in BOOLEAN /\ viewer.clean \in BOOLEAN /\ viewer.timely \in BOOLEAN
CopyIsRecord ==
    /\ kept = [page |-> kept.page, listed |-> kept.listed, clean |-> kept.clean]
    /\ kept.listed \in BOOLEAN /\ kept.clean \in BOOLEAN
DesksAreRecords ==
    /\ desk = [d \in Desks |-> desk[d]]
    /\ \A d \in Desks : /\ desk[d] = [step |-> desk[d].step, part |-> desk[d].part, value |-> desk[d].value, saw |-> desk[d].saw]
                        /\ desk[d].step \in {"idle", "read", "changed", "listed", "dropped"}
                        /\ desk[d].step = "read" => desk[d].part \in FormParts \cup {"create", "delete"}
FormsAreRecords == ViewerIsRecord /\ CopyIsRecord /\ DesksAreRecords /\ IsForm(publicForm) /\ IsCatalogue(catalogue)

\* Only the pages of booking forms are kept.
CopiesAreOfBookings == viewer.step = "filling" \/ Given(kept.page) => IsBooking

\* A page is current as long as nothing was changed since.
Shown == publicForm.stage = "there" /\ publicForm.published
SoundPageIsCurrent == viewer.sound => viewer.page = PublicPage /\ Reachable
CleanPageIsCurrent == viewer.clean => viewer.page = PublicPage /\ Shown
Dropping == \E d \in Desks : desk[d].step \in {"changed", "listed"}
CleanCopyIsCurrent == Given(kept.page) /\ kept.clean /\ ~Dropping => kept.page = PublicPage /\ Shown
TimesAreOpen == viewer.timely => viewer.times = GetPublicSlotAvailability

\* The entries of a booking form that are told apart by a submission.
ToldApartBy(list, services) ==
    /\ \A i, j \in DOMAIN list : i # j => Identity(list[i]) # Identity(list[j])
    /\ \A i, j \in DOMAIN list :
         ~Given(list[i].service) /\ Given(list[i].type) /\ Given(list[j].service) =>
            /\ list[j].service \in Offerings
            /\ list[j].type # list[i].type /\ services[list[j].service].type # list[i].type
ToldApart(list) == ToldApartBy(list, catalogue)
EntriesAreToldApart ==
    IsBooking /\ "retype" \notin affairs =>
        /\ ToldApart(publicForm.entries)
        /\ \A d \in Desks : desk[d].step = "read" /\ desk[d].part = "entries" => ToldApart(desk[d].value)

PublicInv ==
    /\ FormsAreRecords /\ CopiesAreOfBookings /\ SoundPageIsCurrent /\ CleanPageIsCurrent /\ CleanCopyIsCurrent
    /\ TimesAreOpen /\ EntriesAreToldApart

\* The form that is created first, and the lists of the office: an entry that names a service leaves
\* its type to the catalogue.
LeavesTypeToTheCatalogue(list) == \A i \in DOMAIN list : IsEntry(list[i]) /\ (Given(list[i].service) => list[i].type = Missing)
OfficeIsConsistent == Missing \notin Offerings /\ \A list \in EntryLists : LeavesTypeToTheCatalogue(list)
StartsConsistent(rows, catalogues) ==
    /\ \A row \in rows : IsForm(row)
    /\ \A c \in catalogues : IsCatalogue(c)
    /\ \A row \in rows, c \in catalogues : ToldApartBy(row.entries, c)

LEMMA PagesStay ==
  ASSUME UNCHANGED <<catalogue, publicForm, affairs>>
  PROVE  /\ PublicPage' = PublicPage /\ Shown' = Shown /\ IsBooking' = IsBooking
         /\ \A list : ToldApart(list)' <=> ToldApart(list)
<1>1. \A e : BasePrice(e)' = BasePrice(e) /\ AddOnsOf(e)' = AddOnsOf(e)
  BY DEF BasePrice, AddOnsOf, IsBooking
<1>2. IsBooking' = IsBooking /\ Shown' = Shown  BY DEF IsBooking, Shown
<1>3. PublicServices' = PublicServices  BY <1>2 DEF PublicServices, Entries
<1>4. BuildPublicFields' = BuildPublicFields  BY <1>2 DEF BuildPublicFields
<1>5. PublicPage' = PublicPage  BY <1>1, <1>3, <1>4 DEF PublicPage
<1>6. \A list : ToldApart(list)' <=> ToldApart(list)  BY DEF ToldApart, ToldApartBy
<1> QED BY <1>2, <1>5, <1>6

LEMMA SlotsStay ==
  ASSUME UNCHANGED <<publicForm, taken, appointment>>
  PROVE  GetPublicSlotAvailability' = GetPublicSlotAvailability
  BY DEF GetPublicSlotAvailability, TakenAt, Overlapped

\* A page that is shown offers what a submission takes.
LEMMA OffersAreMatched ==
  ASSUME IF IsBooking THEN ToldApart(publicForm.entries) ELSE NamesEachOnce,
         NEW e \in PublicServices, NEW order, order.service = e.service,
         order.type = IF Given(e.service) THEN Missing ELSE e.type
  PROVE  MatchingServices(order) = {e}
<1>1. e \in Entries /\ e.enabled /\ (~Given(e.service) => Given(e.type))  BY DEF PublicServices
<1>2. e \in MatchingServices(order)  BY <1>1 DEF MatchingServices, Given
<1>3. ASSUME NEW f \in MatchingServices(order) PROVE f = e
  <2>1. /\ f \in Entries
        /\ IF Given(e.service) THEN f.service = e.service
           ELSE f.type = e.type \/ (IsBooking /\ Given(f.service) /\ catalogue[f.service].type = e.type)
    BY <1>1, <1>3 DEF MatchingServices, Given
  <2>2. CASE ~IsBooking  BY <1>1, <2>1, <2>2 DEF NamesEachOnce
  <2>3. CASE IsBooking
    <3>1. PICK i \in DOMAIN publicForm.entries, j \in DOMAIN publicForm.entries :
            e = publicForm.entries[i] /\ f = publicForm.entries[j]
      BY <1>1, <2>1 DEF Entries
    <3>2. Identity(e) # Identity(f) => i = j \/ Identity(e) # Identity(f)  OBVIOUS
    <3>3. Identity(e) = Identity(f) => e = f  BY <2>3, <3>1 DEF ToldApart, ToldApartBy
    <3>4. Given(e.service) => Identity(e) = Identity(f)  BY <2>1 DEF Identity
    <3>5. ~Given(e.service) => ~Given(f.service)  BY <1>1, <2>1, <2>3, <3>1 DEF ToldApart, ToldApartBy
    <3>6. ~Given(e.service) => Identity(e) = Identity(f)  BY <2>1, <3>5 DEF Identity
    <3> QED BY <3>3, <3>4, <3>6
  <2> QED BY <2>2, <2>3
<1> QED BY <1>2, <1>3

LEMMA SingletonsAreSmall == \A e : ~(Cardinality({e}) > 1)
<1> SUFFICES ASSUME NEW e PROVE Cardinality({e}) = 1
  OBVIOUS
<1> QED BY FS_Singleton

LEMMA OffersAreTaken ==
  ASSUME Reachable, viewer.page = PublicPage, IF IsBooking THEN ToldApart(publicForm.entries) ELSE NamesEachOnce,
         NEW offer \in viewer.page.offers, NEW order \in OrdersFor(offer)
  PROVE  LET asShown == PriceOf(offer.price, offer.addOns, order)
         IN IF IsBooking THEN SubmitPublicForm(order) = {asShown}
            ELSE /\ CalculatePublicEstimate(order) = SubmitPublicForm(order)
                 /\ EvaluateCoverage(order.spot) => SubmitPublicForm(order) = {asShown}
<1>1. PICK e \in PublicServices : offer = [service |-> e.service, type |-> e.type, price |-> BasePrice(e), addOns |-> AddOnsOf(e)]
  BY DEF PublicPage
<1>2. viewer.page.asks = BuildPublicFields  BY DEF PublicPage
<1>3. /\ offer.service = e.service /\ offer.type = e.type /\ offer.price = BasePrice(e) /\ offer.addOns = AddOnsOf(e)
  BY <1>1
<1>4. /\ order.service = e.service /\ order.type = IF Given(e.service) THEN Missing ELSE e.type
      /\ order.addOns \subseteq DOMAIN AddOnsOf(e) /\ order.answers = BuildPublicFields \cup Contact
  BY <1>2, <1>3 DEF OrdersFor
<1>5. MatchingServices(order) = {e} /\ ~(Cardinality({e}) > 1)
  BY <1>4, OffersAreMatched, SingletonsAreSmall
<1>6. SubmitPublicForm(order) = {SubmittedFor(e, order)}  BY <1>5 DEF SubmitPublicForm
<1>7. CalculatePublicEstimate(order) = {CalculatedFor(e, order)}  BY <1>5 DEF CalculatePublicEstimate
<1>8. Given(e.service) => catalogue[e.service].active /\ (IsBooking => catalogue[e.service].online)
  BY DEF PublicServices
<1>9. ValidateCustomAnswers(order) /\ ValidateAnswers(order)
  BY <1>4 DEF ValidateCustomAnswers, ValidateAnswers
<1>10. SubmittedFor(e, order) = IF ~IsBooking /\ ~EvaluateCoverage(order.spot) THEN Refused
                                ELSE PriceOf(offer.price, offer.addOns, order)
  BY <1>3, <1>4, <1>8, <1>9 DEF SubmittedFor
<1>11. CalculatedFor(e, order) = IF ~EvaluateCoverage(order.spot) THEN Refused ELSE PriceOf(offer.price, offer.addOns, order)
  BY <1>3, <1>4, <1>8 DEF CalculatedFor
<1> QED BY <1>6, <1>7, <1>10, <1>11

\* A list that was resolved has no entry that could mean another one.
LEMMA ResolvedEntries ==
  ASSUME FormsAreRecords, OfficeIsConsistent, IsBooking, NEW e, IsEntry(e), Given(e.service) => e.type = Missing
  PROVE  /\ Resolved(e).service \in Offerings \cup {Missing}
         /\ Given(e.service) => Resolved(e).service = e.service
         /\ ~Given(e.service) /\ Given(Resolved(e).service) => Resolved(e).service \in Promoted(e) /\ Given(e.type)
         /\ ~Given(Resolved(e).service) => Resolved(e).type = e.type /\ (Given(e.type) => Promoted(e) = {})
         /\ Given(Resolved(e).service) => Resolved(e).type = catalogue[Resolved(e).service].type
<1> DEFINE s == ServiceOf(e)
           t == IF Given(s) /\ Given(catalogue[s].type) THEN catalogue[s].type ELSE e.type
<1>1. Promoted(e) \subseteq Offerings /\ Missing \notin Offerings  BY DEF Promoted, OfficeIsConsistent
<1>2. /\ s \in Offerings \cup {Missing} /\ (Given(e.service) => s = e.service)
      /\ ~Given(e.service) /\ Given(s) => s \in Promoted(e) /\ Given(e.type)
      /\ ~Given(s) /\ Given(e.type) => Promoted(e) = {}
  BY <1>1 DEF ServiceOf, IsEntry, Given
<1>3. Given(s) => t = catalogue[s].type  BY <1>1, <1>2 DEF Given, Promoted
<1>4. ~Given(s) => t = e.type  OBVIOUS
<1> HIDE DEF s, t
<1>5. Resolved(e).service = s /\ Resolved(e).type = t  BY DEF Resolved, IsEntry, s, t
<1> QED BY <1>2, <1>3, <1>4, <1>5

LEMMA ResolvedListsAreToldApart ==
  ASSUME FormsAreRecords, OfficeIsConsistent, IsBooking, NEW list \in EntryLists, ResolveFormServices(list)
  PROVE  ToldApart([i \in DOMAIN list |-> Resolved(list[i])])
<1> DEFINE v == [i \in DOMAIN list |-> Resolved(list[i])]
<1>1. \A i \in DOMAIN list : IsEntry(list[i]) /\ (Given(list[i].service) => list[i].type = Missing)
  BY DEF OfficeIsConsistent, LeavesTypeToTheCatalogue
<1>2. DOMAIN v = DOMAIN list /\ \A i \in DOMAIN list : v[i] = Resolved(list[i])  OBVIOUS
<1> HIDE DEF v
<1>3. \A i, j \in DOMAIN v : i # j => Identity(v[i]) # Identity(v[j])  BY <1>2 DEF ResolveFormServices
<1>4. ASSUME NEW i \in DOMAIN list, NEW j \in DOMAIN list,
             ~Given(v[i].service), Given(v[i].type), Given(v[j].service)
      PROVE  v[j].service \in Offerings /\ v[j].type # v[i].type /\ catalogue[v[j].service].type # v[i].type
  <2>1. v[i].type = list[i].type /\ Promoted(list[i]) = {}  BY <1>1, <1>2, <1>4, ResolvedEntries
  <2>2. v[j].service \in Offerings /\ v[j].type = catalogue[v[j].service].type
    BY <1>1, <1>2, <1>4, ResolvedEntries DEF Given
  <2>3. catalogue[v[j].service].active
    <3>1. CASE Given(list[j].service)  BY <1>1, <1>2, <3>1, ResolvedEntries DEF ResolveFormServices
    <3>2. CASE ~Given(list[j].service)  BY <1>1, <1>2, <1>4, <3>2, ResolvedEntries DEF Promoted
    <3> QED BY <3>1, <3>2
  <2>4. catalogue[v[j].service].type # list[i].type  BY <2>1, <2>2, <2>3 DEF Promoted
  <2> QED BY <2>1, <2>2, <2>4
<1>5. ToldApart(v)  BY <1>2, <1>3, <1>4 DEF ToldApart, ToldApartBy
<1> QED BY <1>5 DEF v

\* The steps that change rows: nobody has been shown what they leave, and copies are to be dropped.
Writes == \E d \in Desks : UpdateForm(d) \/ DeleteForm(d) \/ CreateForm(d) \/ \E s \in Offerings : ChangeService(d, s)
LEMMA WritesAreSeen ==
  ASSUME FormsAreRecords, Writes
  PROVE  /\ UNCHANGED affairs /\ viewer' = Shaken /\ kept' = kept
         /\ IsBooking => \E d \in Desks : desk'[d].step = "changed"
<1>1. ASSUME NEW d \in Desks, NEW row, WriteForm(d, row)
      PROVE  /\ UNCHANGED affairs /\ viewer' = Shaken /\ kept' = kept
             /\ IsBooking => \E o \in Desks : desk'[o].step = "changed"
  BY <1>1 DEF WriteForm, Follows, FormsAreRecords, DesksAreRecords
<1>2. ASSUME NEW d \in Desks, NEW s \in Offerings, ChangeService(d, s)
      PROVE  /\ UNCHANGED affairs /\ viewer' = Shaken /\ kept' = kept
             /\ IsBooking => \E o \in Desks : desk'[o].step = "changed"
  BY <1>2 DEF ChangeService, Request, FormsAreRecords, DesksAreRecords
<1>3. ASSUME NEW d \in Desks, UpdateForm(d) \/ DeleteForm(d) \/ CreateForm(d) PROVE \E row : WriteForm(d, row)
  BY <1>3 DEF UpdateForm, DeleteForm, CreateForm
<1> QED BY <1>1, <1>2, <1>3 DEF Writes

LEMMA ElseNoRowChanges == FormsNext /\ ~Writes => UNCHANGED <<catalogue, publicForm, affairs>>
  BY DEF FormsNext, Writes, GetCachedBookingForm, AskForTimes, Leave, ExpireCopy, ChangeAdmission, GetPublicForm,
     CacheBookingForm, SubmitForTime, ChangeAppointment, PrepareUpdate, PrepareDelete, PrepareCreate, Goes, FailToWrite,
     ListCopies, InvalidateCopies, DropIndex, rowsOfForm

PageParts == SoundPageIsCurrent /\ CleanPageIsCurrent /\ TimesAreOpen
CopyParts == CopiesAreOfBookings /\ CleanCopyIsCurrent
AtTheDesk(d) == \/ PrepareUpdate(d) \/ PrepareDelete(d) \/ PrepareCreate(d) \/ FailToWrite(d) \/ ListCopies(d) \/ DropIndex(d)

\* The requests of the office that change no row: what is yet to be dropped stays so.
LEMMA OfficeSteps ==
  ASSUME FormsAreRecords, NEW d \in Desks, AtTheDesk(d)
  PROVE  /\ UNCHANGED <<viewer, admits, taken, appointment, affairs, publicForm, catalogue>> /\ (Dropping' <=> Dropping)
         /\ kept'.page = kept.page /\ kept'.clean = kept.clean
<1> USE DEF FormsAreRecords, CopyIsRecord, DesksAreRecords, rowsOfForm, Dropping
<1>1. CASE PrepareUpdate(d) \/ PrepareDelete(d) \/ PrepareCreate(d)
  <2>1. \A part, value : Request(part, value).step = "read"  BY DEF Request
  <2>2. PICK request : Goes(d, request) /\ request.step = "read"
    <3> HIDE DEF FormsAreRecords, Dropping
    <3>1. CASE PrepareUpdate(d)  BY <2>1, <3>1, Zenon DEF PrepareUpdate
    <3>2. CASE PrepareDelete(d) \/ PrepareCreate(d)  BY <2>1, <3>2 DEF PrepareDelete, PrepareCreate
    <3> QED BY <1>1, <3>1, <3>2
  <2>3. /\ desk' = [desk EXCEPT ![d] = request] /\ desk[d].step = "idle"
        /\ UNCHANGED <<rowsOfForm, kept, viewer, affairs>>
    BY <2>2 DEF Goes, Turn
  <2> QED BY <2>2, <2>3
<1>2. CASE FailToWrite(d)  BY <1>2 DEF FailToWrite
<1>3. CASE ListCopies(d)  BY <1>3 DEF ListCopies
<1>4. CASE DropIndex(d)  BY <1>4 DEF DropIndex, AtRest, Request
<1> QED BY <1>1, <1>2, <1>3, <1>4 DEF AtTheDesk

\* What visitors were shown stays as it is while no row is changed.
LEMMA PagesAreKept ==
  ASSUME PublicInv, OfficeIsConsistent, FormsNext
  PROVE  PageParts' /\ CopyParts'
<1> USE DEF PublicInv, PageParts, CopyParts, SoundPageIsCurrent, CleanPageIsCurrent, TimesAreOpen, CopiesAreOfBookings,
            CleanCopyIsCurrent
<1>1. CASE Writes
  <2>1. /\ UNCHANGED affairs /\ viewer' = Shaken /\ kept' = kept
        /\ IsBooking => \E d \in Desks : desk'[d].step = "changed"
    BY <1>1, WritesAreSeen
  <2>2. ~viewer'.sound /\ ~viewer'.clean /\ ~viewer'.timely /\ viewer'.step = viewer.step
    BY <2>1 DEF Shaken, FormsAreRecords, ViewerIsRecord
  <2> QED BY <2>1, <2>2 DEF IsBooking, Dropping
<1>2. CASE ~Writes
  <2>0. UNCHANGED <<catalogue, publicForm, affairs>>  BY <1>2, ElseNoRowChanges
  <2>1. PublicPage' = PublicPage /\ Shown' = Shown /\ IsBooking' = IsBooking  BY <2>0, PagesStay
  <2>2. UNCHANGED <<taken, appointment>> => GetPublicSlotAvailability' = GetPublicSlotAvailability
    BY <2>0, SlotsStay
  <2>3. Reachable <=> Shown /\ admits  BY DEF Reachable, Shown
  <2>4. Reachable' <=> Shown' /\ admits'  BY DEF Reachable, Shown
  <2>5. ~InFlight => ~Dropping  BY DEF InFlight, Dropping
  <2>6. UNCHANGED desk => Dropping' = Dropping  BY DEF Dropping
  <2> USE DEF FormsAreRecords, ViewerIsRecord, CopyIsRecord, DesksAreRecords, rowsOfForm
  <2> HIDE DEF Dropping, Shown, Reachable
  <2>7. CASE \E d \in Desks : AtTheDesk(d)  BY <2>1, <2>2, <2>3, <2>4, <2>7, OfficeSteps
  <2>8. CASE \E d \in Desks : InvalidateCopies(d)
    <3>1. PICK d \in Desks : InvalidateCopies(d)  BY <2>8
    <3>2. UNCHANGED <<viewer, admits, taken, appointment>>  BY <3>1 DEF InvalidateCopies
    <3>3. Given(kept'.page) => kept'.page = kept.page /\ ~kept'.clean
      BY <3>1 DEF InvalidateCopies, Given
    <3> QED BY <2>1, <2>2, <2>3, <2>4, <3>2, <3>3
  <2>9. CASE GetCachedBookingForm
    BY <2>1, <2>2, <2>3, <2>4, <2>5, <2>6, <2>9 DEF GetCachedBookingForm, Away
  <2>10. ASSUME NEW byId \in BOOLEAN, GetPublicForm(byId) PROVE PageParts' /\ CopyParts'
    BY <2>1, <2>2, <2>3, <2>4, <2>5, <2>6, <2>10 DEF GetPublicForm, Away
  <2>11. ASSUME NEW stored \in BOOLEAN, NEW listed \in BOOLEAN, CacheBookingForm(stored, listed) PROVE PageParts' /\ CopyParts'
    BY <2>1, <2>2, <2>3, <2>4, <2>5, <2>6, <2>11 DEF CacheBookingForm
  <2>12. CASE AskForTimes  BY <2>1, <2>2, <2>3, <2>4, <2>6, <2>12 DEF AskForTimes
  <2>13. CASE Leave  BY <2>1, <2>2, <2>3, <2>4, <2>6, <2>13 DEF Leave, Away
  <2>15. CASE ExpireCopy
    <3>1. ~Given(kept'.page) /\ UNCHANGED <<viewer, admits, taken, appointment>>
      BY <2>15 DEF ExpireCopy, Given
    <3> QED BY <2>1, <2>2, <2>3, <2>4, <3>1
  <2>14. CASE ChangeAdmission \/ (\E t \in TimesOfDay : SubmitForTime(t)) \/ \E to \in {Missing} \cup Spans : ChangeAppointment(to)
    BY <2>1, <2>3, <2>4, <2>6, <2>14 DEF ChangeAdmission, SubmitForTime, ChangeAppointment, Shaken
  <2> QED BY <1>2, <2>7, <2>8, <2>9, <2>10, <2>11, <2>12, <2>13, <2>14, <2>15 DEF FormsNext, AtTheDesk, Writes
<1> QED BY <1>1, <1>2

\* Records stay records.
LEMMA FormRecordsAreKept ==
  ASSUME FormsAreRecords, OfficeIsConsistent, FormsNext
  PROVE  FormsAreRecords'
<1> USE DEF FormsAreRecords, rowsOfForm
<1>1. ViewerIsRecord'
  <2> USE DEF ViewerIsRecord
  <2>1. CASE GetCachedBookingForm
    <3>1. (kept.clean /\ ~InFlight) \in BOOLEAN  OBVIOUS
    <3> QED BY <2>1, <3>1 DEF GetCachedBookingForm, Away
  <2>6. CASE Leave  BY <2>6 DEF Leave, Away
  <2>5. ASSUME NEW byId \in BOOLEAN, GetPublicForm(byId) PROVE ViewerIsRecord'
    BY <2>5 DEF GetPublicForm, Away
  <2>2. CASE \/ AskForTimes \/ ChangeAdmission \/ (\E stored, listed \in BOOLEAN : CacheBookingForm(stored, listed))
             \/ (\E t \in TimesOfDay : SubmitForTime(t)) \/ \E to \in {Missing} \cup Spans : ChangeAppointment(to)
    BY <2>2 DEF AskForTimes, ChangeAdmission, CacheBookingForm, SubmitForTime, ChangeAppointment, Shaken
  <2>3. CASE Writes  BY <2>3, WritesAreSeen DEF Shaken
  <2>4. CASE \E d \in Desks : AtTheDesk(d) \/ InvalidateCopies(d)
    BY <2>4, OfficeSteps DEF InvalidateCopies
  <2> QED BY <2>1, <2>2, <2>3, <2>4, <2>5, <2>6 DEF FormsNext, Writes, AtTheDesk, ExpireCopy
<1>2. CopyIsRecord'
  <2> USE DEF CopyIsRecord
  <2>1. CASE ExpireCopy  BY <2>1 DEF ExpireCopy
  <2>5. ASSUME NEW stored \in BOOLEAN, NEW listed \in BOOLEAN, CacheBookingForm(stored, listed) PROVE CopyIsRecord'
    BY <2>5 DEF CacheBookingForm, ViewerIsRecord
  <2>3. CASE \E d \in Desks : InvalidateCopies(d)  BY <2>3 DEF InvalidateCopies
  <2>4. CASE \E d \in Desks : DropIndex(d)  BY <2>4 DEF DropIndex
  <2>2. CASE Writes  BY <2>2, WritesAreSeen
  <2> QED
    BY <2>1, <2>2, <2>3, <2>4, <2>5 DEF FormsNext, Writes, GetCachedBookingForm, AskForTimes, Leave, ChangeAdmission, GetPublicForm, SubmitForTime,
       ChangeAppointment, PrepareUpdate, PrepareDelete, PrepareCreate, Goes, FailToWrite, ListCopies
<1>3. DesksAreRecords'
  <2> USE DEF DesksAreRecords
  <2>1. ASSUME NEW d \in Desks, NEW request, desk' = [desk EXCEPT ![d] = request],
               request = [step |-> request.step, part |-> request.part, value |-> request.value, saw |-> request.saw],
               request.step \in {"idle", "read", "changed", "listed", "dropped"},
               request.step = "read" => request.part \in FormParts \cup {"create", "delete"}
        PROVE  DesksAreRecords'
    BY <2>1
  <2>2. ASSUME NEW d \in Desks, NEW part, NEW value, part \in FormParts \cup {"create", "delete"}, Goes(d, Request(part, value))
        PROVE  DesksAreRecords'
    BY <2>1, <2>2 DEF Goes, Request
  <2>3. ASSUME NEW d \in Desks, PrepareUpdate(d) \/ PrepareDelete(d) \/ PrepareCreate(d) PROVE DesksAreRecords'
    BY <2>2, <2>3, Zenon DEF PrepareUpdate, PrepareDelete, PrepareCreate, FormParts
  <2>4. ASSUME NEW d \in Desks, UpdateForm(d) \/ DeleteForm(d) \/ CreateForm(d) PROVE DesksAreRecords'
    <3>1. desk' = [desk EXCEPT ![d] = Follows(d)]
      BY <2>4 DEF UpdateForm, DeleteForm, CreateForm, WriteForm
    <3> QED BY <2>1, <3>1 DEF Follows
  <2>5. ASSUME NEW d \in Desks, NEW s \in Offerings, ChangeService(d, s) PROVE DesksAreRecords'
    BY <2>1, <2>5 DEF ChangeService, Request
  <2>6. ASSUME NEW d \in Desks, FailToWrite(d) \/ InvalidateCopies(d) \/ DropIndex(d) PROVE DesksAreRecords'
    <3>1. \/ desk' = [desk EXCEPT ![d].step = "idle"] \/ desk' = [desk EXCEPT ![d].step = "dropped"]
          \/ desk' = [desk EXCEPT ![d] = AtRest]
      BY <2>6 DEF FailToWrite, InvalidateCopies, DropIndex
    <3>2. CASE desk' = [desk EXCEPT ![d] = AtRest]  BY <2>1, <3>2 DEF AtRest, Request
    <3> QED BY <3>1, <3>2
  <2>7. ASSUME NEW d \in Desks, ListCopies(d) PROVE DesksAreRecords'
    <3>1. PICK saw : desk' = [desk EXCEPT ![d] = [desk[d] EXCEPT !.step = "listed", !.saw = saw]]
      BY <2>7 DEF ListCopies
    <3> DEFINE r == desk[d]
    <3> HIDE DEF r
    <3>2. r = [step |-> r.step, part |-> r.part, value |-> r.value, saw |-> r.saw]  BY DEF r
    <3> DEFINE q == [r EXCEPT !.step = "listed"]
    <3>4. q = [step |-> "listed", part |-> r.part, value |-> r.value, saw |-> r.saw]  BY <3>2
    <3>5. [r EXCEPT !.step = "listed", !.saw = saw] = [q EXCEPT !.saw = saw]  OBVIOUS
    <3> HIDE DEF q
    <3>3. [r EXCEPT !.step = "listed", !.saw = saw] = [step |-> "listed", part |-> r.part, value |-> r.value, saw |-> saw]
      BY <3>4, <3>5
    <3> QED BY <2>1, <3>1, <3>3 DEF r
  <2> QED
    BY <2>3, <2>4, <2>5, <2>6, <2>7 DEF FormsNext, GetCachedBookingForm, AskForTimes, Leave, ExpireCopy, ChangeAdmission, GetPublicForm,
       CacheBookingForm, SubmitForTime, ChangeAppointment
<1>4. IsForm(publicForm)' /\ IsCatalogue(catalogue)'
  <2> USE DEF IsForm, IsCatalogue
  <2>1. ASSUME NEW d \in Desks, UpdateForm(d) PROVE IsForm(publicForm)' /\ catalogue' = catalogue
    <3>1. publicForm' = [publicForm EXCEPT ![desk[d].part] = desk[d].value] /\ desk[d].part \in FormParts /\ catalogue' = catalogue
      BY <2>1 DEF UpdateForm, WriteForm, DesksAreRecords
    <3> QED BY <3>1 DEF FormParts
  <2>2. ASSUME NEW d \in Desks, DeleteForm(d) \/ CreateForm(d) PROVE IsForm(publicForm)' /\ catalogue' = catalogue
    BY <2>2 DEF DeleteForm, CreateForm, WriteForm
  <2>3. ASSUME NEW d \in Desks, NEW s \in Offerings, ChangeService(d, s) PROVE IsCatalogue(catalogue)' /\ publicForm' = publicForm
    BY <2>3 DEF ChangeService
  <2> QED BY <2>1, <2>2, <2>3, ElseNoRowChanges DEF Writes
<1> QED BY <1>1, <1>2, <1>3, <1>4

\* Entries stay told apart.
LEMMA EntriesAreKeptApart ==
  ASSUME PublicInv, OfficeIsConsistent, FormsNext
  PROVE  EntriesAreToldApart'
<1> SUFFICES ASSUME IsBooking', "retype" \notin affairs' PROVE EntriesAreToldApart'
  BY DEF EntriesAreToldApart
<1> USE DEF PublicInv, FormsAreRecords, DesksAreRecords
<1>0. affairs' = affairs /\ IsBooking  BY WritesAreSeen, ElseNoRowChanges DEF IsBooking
<1>1. ToldApart(publicForm.entries) /\ \A d \in Desks : desk[d].step = "read" /\ desk[d].part = "entries" => ToldApart(desk[d].value)
  BY <1>0 DEF EntriesAreToldApart
<1>2. ASSUME \A s \in Offerings : catalogue'[s].type = catalogue[s].type, NEW list PROVE ToldApart(list)' <=> ToldApart(list)
  BY <1>2 DEF ToldApart, ToldApartBy
<1>3. ASSUME \A list : ToldApart(list)' <=> ToldApart(list), ToldApart(publicForm'.entries),
             \A d \in Desks : desk'[d].step = "read" /\ desk'[d].part = "entries" => ToldApart(desk'[d].value)
      PROVE  EntriesAreToldApart'
  BY <1>3 DEF EntriesAreToldApart
<1> HIDE DEF PublicInv
<1>4. ASSUME NEW d \in Desks, NEW s \in Offerings, ChangeService(d, s) PROVE EntriesAreToldApart'
  <2>1. \A o \in Offerings : catalogue'[o].type = catalogue[o].type
    <3>1. \/ catalogue' = [catalogue EXCEPT ![s].active = ~@] \/ catalogue' = [catalogue EXCEPT ![s].online = ~@]
          \/ \E terms \in TermSets : catalogue' = [catalogue EXCEPT ![s].terms = terms]
      BY <1>0, <1>4 DEF ChangeService
    <3> QED BY <3>1, SMTT(30) DEF IsCatalogue, PublicInv
  <2>2. publicForm' = publicForm /\ \A o \in Desks : desk'[o].step = "read" => desk'[o] = desk[o]
    BY <1>4 DEF ChangeService, Request, PublicInv
  <2> QED BY <1>1, <1>2, <1>3, <2>1, <2>2
<1>5. ASSUME NEW d \in Desks, UpdateForm(d) \/ DeleteForm(d) \/ CreateForm(d) PROVE EntriesAreToldApart'
  <2>1. /\ catalogue' = catalogue
        /\ publicForm'.entries = publicForm.entries \/ (desk[d].step = "read" /\ desk[d].part = "entries" /\ publicForm'.entries = desk[d].value)
    BY <1>5 DEF UpdateForm, DeleteForm, CreateForm, WriteForm, IsForm, FormParts, PublicInv
  <2>2. \A o \in Desks : desk'[o].step = "read" => desk'[o] = desk[o]
    BY <1>5 DEF UpdateForm, DeleteForm, CreateForm, WriteForm, Follows, PublicInv
  <2> QED BY <1>1, <1>2, <1>3, <2>1, <2>2
<1>6. ASSUME ~Writes PROVE EntriesAreToldApart'
  <2>1. UNCHANGED <<catalogue, publicForm>>  BY <1>6, ElseNoRowChanges
  <2>2. ASSUME NEW d \in Desks, NEW part, NEW value, Goes(d, Request(part, value)), part = "entries" => ToldApart(value)
        PROVE  EntriesAreToldApart'
    <3>1. \A o \in Desks : desk'[o].step = "read" => desk'[o] = desk[o] \/ (desk'[o].part = part /\ desk'[o].value = value)
      BY <2>2 DEF Goes, Request, PublicInv
    <3> QED BY <1>1, <1>2, <1>3, <2>1, <2>2, <3>1
  <2>3. ASSUME NEW d \in Desks, PrepareUpdate(d) \/ PrepareDelete(d) \/ PrepareCreate(d) PROVE EntriesAreToldApart'
    <3>1. \A list \in EntryLists : ResolveFormServices(list) => ToldApart([i \in DOMAIN list |-> Resolved(list[i])])
      BY <1>0, ResolvedListsAreToldApart DEF PublicInv
    <3> QED BY <1>0, <2>2, <2>3, <3>1, Zenon DEF PrepareUpdate, PrepareDelete, PrepareCreate
  <2>4. ASSUME \A o \in Desks : desk'[o].step = "read" => desk'[o] = desk[o] PROVE EntriesAreToldApart'
    BY <1>1, <1>2, <1>3, <2>1, <2>4
  <2>5. ASSUME NEW d \in Desks, FailToWrite(d) \/ ListCopies(d) \/ InvalidateCopies(d) \/ DropIndex(d) PROVE EntriesAreToldApart'
    <3>1. \A o \in Desks : desk'[o].step = "read" => desk'[o] = desk[o]
      <4>1. CASE ListCopies(d)  BY <4>1 DEF ListCopies, PublicInv
      <4>2. CASE FailToWrite(d) \/ InvalidateCopies(d)
        BY <4>2 DEF FailToWrite, InvalidateCopies, PublicInv
      <4>3. CASE DropIndex(d)  BY <4>3 DEF DropIndex, AtRest, Request, PublicInv
      <4> QED BY <2>5, <4>1, <4>2, <4>3
    <3> QED BY <2>4, <3>1
  <2>6. CASE desk' = desk  BY <2>4, <2>6
  <2> QED
    BY <1>6, <2>3, <2>5, <2>6 DEF FormsNext, Writes, GetCachedBookingForm, AskForTimes, Leave, ExpireCopy, ChangeAdmission, GetPublicForm,
       CacheBookingForm, SubmitForTime, ChangeAppointment
<1> QED BY <1>4, <1>5, <1>6 DEF Writes

\* Whatever is offered is accepted, for the price it was offered at (OfferedIsAccepted), for every office, catalogue
\* and number of concurrent requests.
THEOREM OffersAreAccepted ==
  ASSUME NEW CONSTANT rows, NEW CONSTANT catalogues, OfficeIsConsistent, StartsConsistent(rows, catalogues)
  PROVE  FormsInit(FormMixes, catalogues, rows) /\ [][FormsNext]_formVars => []OfferedIsAccepted
<1>1. FormsInit(FormMixes, catalogues, rows) => PublicInv
  <2> SUFFICES ASSUME FormsInit(FormMixes, catalogues, rows) PROVE PublicInv
    OBVIOUS
  <2> USE DEF FormsInit, NoPage, Away, AtRest, Request
  <2>1. IsForm(publicForm) /\ IsCatalogue(catalogue) /\ ToldApart(publicForm.entries)
    BY DEF StartsConsistent, ToldApart
  <2>2. ViewerIsRecord /\ CopyIsRecord /\ DesksAreRecords
    BY DEF ViewerIsRecord, CopyIsRecord, DesksAreRecords
  <2>3. \A d \in Desks : desk[d].step = "idle"  OBVIOUS
  <2> QED
    BY <2>1, <2>2, <2>3 DEF PublicInv, FormsAreRecords, CopiesAreOfBookings, SoundPageIsCurrent, CleanPageIsCurrent,
       CleanCopyIsCurrent, TimesAreOpen, EntriesAreToldApart, Given
<1>2. PublicInv /\ [FormsNext]_formVars => PublicInv'
  <2> SUFFICES ASSUME PublicInv, [FormsNext]_formVars PROVE PublicInv'
    OBVIOUS
  <2>1. CASE FormsNext
    BY <2>1, PagesAreKept, FormRecordsAreKept, EntriesAreKeptApart DEF PublicInv, PageParts, CopyParts
  <2>2. CASE UNCHANGED formVars
    <3>1. UNCHANGED <<viewer, kept, desk, catalogue, publicForm, taken, appointment, admits, affairs>>
      BY <2>2 DEF formVars
    <3>2. /\ PublicPage' = PublicPage /\ Shown' = Shown /\ IsBooking' = IsBooking
          /\ GetPublicSlotAvailability' = GetPublicSlotAvailability /\ \A list : ToldApart(list)' <=> ToldApart(list)
      BY <3>1, PagesStay, SlotsStay
    <3>3. Reachable' = Reachable /\ Dropping' = Dropping /\ FormsAreRecords' = FormsAreRecords
      BY <3>1 DEF Reachable, Dropping, FormsAreRecords, ViewerIsRecord, CopyIsRecord, DesksAreRecords
    <3> QED
      BY <3>1, <3>2, <3>3 DEF PublicInv, CopiesAreOfBookings, SoundPageIsCurrent, CleanPageIsCurrent, CleanCopyIsCurrent,
         TimesAreOpen, EntriesAreToldApart
  <2> QED BY <2>1, <2>2
<1>3. PublicInv => OfferedIsAccepted
  <2> SUFFICES ASSUME PublicInv PROVE OfferedIsAccepted
    OBVIOUS
  <2>1. viewer.timely => \A t \in viewer.times : TimeAccepted(t)
    BY DEF PublicInv, TimesAreOpen, GetPublicSlotAvailability, TimeAccepted
  <2>2. ASSUME viewer.sound, "retype" \notin affairs, IsBooking \/ NamesEachOnce
        PROVE  /\ viewer.page = PublicPage /\ Reachable
               /\ IF IsBooking THEN ToldApart(publicForm.entries) ELSE NamesEachOnce
    BY <2>2 DEF PublicInv, SoundPageIsCurrent, EntriesAreToldApart
  <2> QED BY <2>1, <2>2, OffersAreTaken DEF OfferedIsAccepted
<1> QED BY <1>1, <1>2, <1>3, PTL
================================================================================
