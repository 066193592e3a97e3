------------------------------ MODULE ClientOffers ------------------------------
(***************************************************************************)
(* An estimate and a quote: edited and published by the office, answered   *)
(* by the client on a public page, and turned into bookings and jobs       *)
(* (Estimate, Quote and the publication service they share).               *)
(*                                                                         *)
(* Every handler reads the document, checks it, and writes later by id.    *)
(* The client's answer and the expiry alone repeat their check in the      *)
(* WHERE clause.  publishQuote and publishEstimate read inside their       *)
(* transaction, but without a lock (READ COMMITTED).                       *)
(***************************************************************************)
EXTENDS Naturals, FiniteSets

CONSTANTS
    Office,       \* concurrent requests of the office
    Clients,      \* concurrent requests on the public pages
    Prices,       \* totals a document may have
    OfferMixes,        \* sets of handlers, one of which is in use in a behaviour
    MaxJobs,      \* bound: jobs made from the quote
    NoOffer

ASSUME OffersAssumption ==
    /\ Prices \subseteq Nat \ {0}
    /\ MaxJobs \in Nat
    /\ Office \cap Clients = {}

VARIABLES
    doc,          \* [Kinds -> Document]
    bookings,     \* bookings made from a document
    jobs,         \* number of jobs made from the quote
    agreed,       \* history: the price that was accepted, 0 if none
    request,         \* [Office \cup Clients -> what the handler has read, or NoOffer]
    offerOps           \* never changes: the handlers in use

offerVars == <<doc, bookings, jobs, agreed, request, offerOps>>

Kinds == {"estimate", "quote"}

QuoteStatus == {"DRAFT", "SENT", "ACCEPTED", "DECLINED", "EXPIRED"}

EstimateStatus == {"DRAFT", "SENT", "APPROVED", "REJECTED", "CONVERTED"}

StatusOf(kind) == IF kind = "quote" THEN QuoteStatus ELSE EstimateStatus

\* What a client's yes and no are called.
QuoteAnswer(yes) == IF yes THEN "ACCEPTED" ELSE "DECLINED"

EstimateAnswer(yes) == IF yes THEN "APPROVED" ELSE "REJECTED"

Answer(kind, yes) == IF kind = "quote" THEN QuoteAnswer(yes) ELSE EstimateAnswer(yes)

\* publicToken is reduced to how often it was generated: 0 is a document that has
\* none.  valid is validUntil >= now.
Absent == [status |-> "NONE", price |-> 0, link |-> 0, valid |-> TRUE]

OffersInit ==
    /\ doc = [k \in Kinds |-> Absent]
    /\ bookings = {}
    /\ jobs = 0
    /\ agreed = [k \in Kinds |-> 0]
    /\ request = [r \in Office \cup Clients |-> NoOffer]
    /\ offerOps \in OfferMixes

Exists(kind) == doc[kind].status \in StatusOf(kind)

BookingsFrom(kind) == {b \in bookings : b.from = kind}

--------------------------------------------------------------------------------
(* Creation and time *)

\* Creation as a draft, or published at once.
Create(kind, price) ==
    /\ doc[kind] = Absent
    /\ \E published \in BOOLEAN :
        doc' = [doc EXCEPT ![kind] =
            [status |-> IF published THEN "SENT" ELSE "DRAFT", price |-> price,
             link |-> IF published THEN 1 ELSE 0, valid |-> TRUE]]

CreateQuote ==
    /\ \E p \in Prices : Create("quote", p)
    /\ UNCHANGED <<bookings, jobs, agreed, request, offerOps>>

CreateEstimate ==
    /\ \E p \in Prices : Create("estimate", p)
    /\ UNCHANGED <<bookings, jobs, agreed, request, offerOps>>

\* validUntil passes.
Lapse(kind) ==
    /\ Exists(kind) /\ doc[kind].valid
    /\ doc' = [doc EXCEPT ![kind].valid = FALSE]
    /\ UNCHANGED <<bookings, jobs, agreed, request, offerOps>>

\* A look at the public page expires a quote; an estimate is only shown as expired.
ExpireOnRead ==
    /\ doc["quote"].status = "SENT" /\ ~doc["quote"].valid
    /\ doc' = [doc EXCEPT !["quote"].status = "EXPIRED"]
    /\ UNCHANGED <<bookings, jobs, agreed, request, offerOps>>

--------------------------------------------------------------------------------
(* Reading: the checks in front of every write *)

\* ALLOWED_TRANSITIONS, without SENT, which goes to publishQuote.
QuoteTransitions(s) ==
    IF s = "DRAFT" THEN {"EXPIRED"}
    ELSE IF s = "SENT" THEN {"ACCEPTED", "DECLINED", "EXPIRED"}
    ELSE {}

EstimateTransitions(s) ==
    IF s = "DRAFT" THEN {"REJECTED"}
    ELSE IF s = "SENT" THEN {"APPROVED", "REJECTED"}
    ELSE IF s = "APPROVED" THEN {"CONVERTED"}
    ELSE {}

Transitions(kind, s) == IF kind = "quote" THEN QuoteTransitions(s) ELSE EstimateTransitions(s)

Editable(d) == d.status = "DRAFT"

\* ensureQuoteCanPublish.  A decided document is returned as it is.
Publishable(d) == d.status \in {"DRAFT", "SENT"} /\ d.valid

Deletable(kind, d) == d.status # (IF kind = "quote" THEN "ACCEPTED" ELSE "CONVERTED")

\* What the public page lets a client answer.
Answerable(d) == d.status = "SENT" /\ d.valid /\ d.link > 0

\* Mutation of MayBook: a quote that has a booking is not refused.
MayBookAgain(kind, d) == d.status = Answer(kind, TRUE)

\* An estimate that was booked is CONVERTED; of a quote the bookings are looked up.
MayBook(kind, d) ==
    /\ d.status = Answer(kind, TRUE)
    /\ kind = "quote" => BookingsFrom(kind) = {}

\* A handler takes along what it read, and the status it was asked to write.
Take(r, op, kind, new) ==
    /\ op \in offerOps
    /\ request' = [request EXCEPT ![r] = [op |-> op, kind |-> kind, new |-> new, seen |-> doc[kind]]]

ReadOffer(r, kind) ==
    LET d == doc[kind] IN
    /\ request[r] = NoOffer
    /\ Exists(kind)
    /\ \/ /\ r \in Office
          /\ \/ Editable(d) /\ Take(r, "update", kind, d.status)
             \/ Publishable(d) /\ Take(r, "publish", kind, "SENT")
             \/ \E s \in Transitions(kind, d.status) : Take(r, "updateStatus", kind, s)
             \/ Deletable(kind, d) /\ Take(r, "delete", kind, "DELETED")
             \/ MayBook(kind, d) /\ Take(r, "convertToBooking", kind, d.status)
             \/ /\ d.status = Answer(kind, TRUE)
                /\ Take(r, IF kind = "quote" THEN "convertToJob" ELSE "convertToQuote", kind, d.status)
       \/ /\ r \in Clients
          /\ Answerable(d)
          /\ \E yes \in BOOLEAN : Take(r, "answer", kind, Answer(kind, yes))
    /\ UNCHANGED <<doc, bookings, jobs, agreed, offerOps>>

--------------------------------------------------------------------------------
(* Writing *)

\* The handler returns, or throws because the row is gone or was refused.
FinishOffer(r) == request' = [request EXCEPT ![r] = NoOffer]

\* An update of the row by id.
Write(r, op, kind, d) ==
    /\ request[r] # NoOffer /\ request[r].op = op /\ request[r].kind = kind
    /\ doc' = IF Exists(kind) THEN [doc EXCEPT ![kind] = d] ELSE doc
    /\ FinishOffer(r)

\* New line items, a new total, perhaps another validUntil.
Update(r, kind) ==
    /\ \E p \in Prices, valid \in BOOLEAN :
        Write(r, "update", kind, [doc[kind] EXCEPT !.price = p, !.valid = valid])
    /\ UNCHANGED <<bookings, jobs, agreed, offerOps>>

UpdateQuote(r) == Update(r, "quote")
UpdateEstimate(r) == Update(r, "estimate")

\* The office may also accept on the client's behalf.
Accept(kind, d, new) ==
    agreed' = IF Exists(kind) /\ new = Answer(kind, TRUE)
              THEN [agreed EXCEPT ![kind] = d.price] ELSE agreed

UpdateStatus(r, kind) ==
    /\ Write(r, "updateStatus", kind, [doc[kind] EXCEPT !.status = request[r].new])
    /\ Accept(kind, doc[kind], request[r].new)
    /\ UNCHANGED <<bookings, jobs, offerOps>>

UpdateQuoteStatus(r) == UpdateStatus(r, "quote")
UpdateEstimateStatus(r) == UpdateStatus(r, "estimate")

NewLink(seen) == seen.link = 0

\* What is written depends on what was read: a link for a document without one,
\* SENT for a draft.
Publish(r, kind) ==
    LET seen == request[r].seen
        d == doc[kind]
    IN  /\ Write(r, "publish", kind,
              [d EXCEPT !.link = IF NewLink(seen) THEN @ + 1 ELSE @,
                        !.status = IF seen.status = "DRAFT" THEN "SENT" ELSE @])
        /\ UNCHANGED <<bookings, jobs, agreed, offerOps>>

PublishQuote(r) == Publish(r, "quote")
PublishEstimate(r) == Publish(r, "estimate")

\* Mutation of StillOpen: the answer is written without looking again.
StillOpenAlways(d) == d.status # "NONE"

\* The WHERE clause of the client's answer; the time was taken before.
StillOpen(d) == d.status = "SENT"

PublicAction(r, kind) ==
    LET d == doc[kind]
        new == IF StillOpen(d) THEN request[r].new ELSE d.status
    IN  /\ Write(r, "answer", kind, [d EXCEPT !.status = new])
        /\ IF StillOpen(d) THEN Accept(kind, d, new) ELSE UNCHANGED agreed
        /\ UNCHANGED <<bookings, jobs, offerOps>>

PublicQuoteAction(r) == PublicAction(r, "quote")
PublicEstimateAction(r) == PublicAction(r, "estimate")

\* Bookings and jobs stay, without their link.
Delete(r, kind) ==
    /\ Write(r, "delete", kind, [doc[kind] EXCEPT !.status = "DELETED"])
    /\ UNCHANGED <<bookings, jobs, agreed, offerOps>>

DeleteQuote(r) == Delete(r, "quote")
DeleteEstimate(r) == Delete(r, "estimate")

--------------------------------------------------------------------------------
(* Conversions *)

\* The booking takes the total that was read before the transaction.
Book(r, kind) ==
    bookings' = IF Exists(kind)
                THEN bookings \cup {[from |-> kind, price |-> request[r].seen.price,
                                     number |-> Cardinality(bookings) + 1]}
                ELSE bookings

ConvertQuoteToBooking(r) ==
    /\ Write(r, "convertToBooking", "quote", doc["quote"])
    /\ Book(r, "quote")
    /\ UNCHANGED <<jobs, agreed, offerOps>>

ConvertEstimateToBooking(r) ==
    /\ Write(r, "convertToBooking", "estimate", [doc["estimate"] EXCEPT !.status = "CONVERTED"])
    /\ Book(r, "estimate")
    /\ UNCHANGED <<jobs, agreed, offerOps>>

\* The estimate stays APPROVED.  It may be converted again; there is room for one
\* quote here.
ConvertEstimateToQuote(r) ==
    /\ request[r] # NoOffer /\ request[r].op = "convertToQuote"
    /\ doc["quote"] = Absent \/ ~Exists("estimate")
    /\ doc' = IF Exists("estimate")
              THEN [doc EXCEPT !["quote"] =
                       [status |-> "DRAFT", price |-> request[r].seen.price, link |-> 0, valid |-> TRUE]]
              ELSE doc
    /\ FinishOffer(r)
    /\ UNCHANGED <<bookings, jobs, agreed, offerOps>>

\* Unlike a booking, a job may be made from a quote any number of times.
ConvertQuoteToJob(r) ==
    /\ jobs < MaxJobs
    /\ Write(r, "convertToJob", "quote", doc["quote"])
    /\ jobs' = IF Exists("quote") THEN jobs + 1 ELSE jobs
    /\ UNCHANGED <<bookings, agreed, offerOps>>

--------------------------------------------------------------------------------
HandleOffer(r) ==
    \/ \E k \in Kinds : ReadOffer(r, k)
    \/ UpdateQuote(r) \/ UpdateEstimate(r)
    \/ UpdateQuoteStatus(r) \/ UpdateEstimateStatus(r)
    \/ PublishQuote(r) \/ PublishEstimate(r)
    \/ PublicQuoteAction(r) \/ PublicEstimateAction(r)
    \/ DeleteQuote(r) \/ DeleteEstimate(r)
    \/ ConvertQuoteToBooking(r) \/ ConvertEstimateToBooking(r)
    \/ ConvertEstimateToQuote(r) \/ ConvertQuoteToJob(r)

OffersNext ==
    \/ CreateQuote \/ CreateEstimate
    \/ ExpireOnRead
    \/ \E k \in Kinds : Lapse(k)
    \/ \E r \in Office \cup Clients : HandleOffer(r)

OffersSpec == OffersInit /\ [][OffersNext]_offerVars

--------------------------------------------------------------------------------
(* Properties *)

Decided(kind) == {Answer(kind, TRUE), Answer(kind, FALSE), "EXPIRED", "CONVERTED"}

\* Every variable has its type; a quote never gets the status of an estimate.
OffersTypeOK ==
    /\ \A k \in Kinds : doc[k] \in
        [status : StatusOf(k) \cup {"NONE", "DELETED"}, price : Prices \cup {0},
         link : Nat, valid : BOOLEAN]
    /\ bookings \subseteq [from : Kinds, price : Prices, number : Nat]
    /\ jobs \in 0 .. MaxJobs
    /\ agreed \in [Kinds -> Prices \cup {0}]
    /\ offerOps \in OfferMixes
    /\ \A r \in Office \cup Clients : request[r] # NoOffer => request[r].op \in offerOps

\* With one request of the office at a time and any number of clients: a document
\* is booked at most once, at the very price that was accepted, although the
\* conversions read it before their transaction and edits are written by id.
BookedOnceAsAgreed ==
    /\ \A b \in bookings : b.price = agreed[b.from]
    /\ \A k \in Kinds : Cardinality(BookingsFrom(k)) <= 1

\* As long as the office neither sets statuses by hand nor deletes, the first
\* answer of the client stands, and so does expiry: of an accept and a decline
\* submitted at once exactly one wins (publicQuoteAction, publicEstimateAction).
DecisionStands ==
    [][\A k \in Kinds :
        offerOps \cap {"updateStatus", "delete"} = {} /\ doc[k].status \in Decided(k) =>
            \/ doc'[k].status = doc[k].status
            \/ doc[k].status = "APPROVED" /\ doc'[k].status = "CONVERTED"]_offerVars

\* With one request of the office at a time: the link the client was given keeps
\* working, and what the client can answer or has answered has one.
LinksKeepWorking ==
    [][\A k \in Kinds :
        /\ doc[k].link > 0 => doc'[k].link = doc[k].link
        /\ doc'[k].status \in {"SENT", "ACCEPTED", "DECLINED", "APPROVED"} => doc'[k].link > 0]_offerVars

--------------------------------------------------------------------------------
(* Claims the code does not keep: see the README. *)

\* ACCEPTED, DECLINED and EXPIRED are terminal for a quote (ALLOWED_TRANSITIONS).
TerminalStatusesStay ==
    [][doc["quote"].status \in {"ACCEPTED", "DECLINED", "EXPIRED"} =>
        doc'["quote"].status \in {doc["quote"].status, "DELETED"}]_offerVars
================================================================================
