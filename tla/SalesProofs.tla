------------------------------ MODULE SalesProofs ------------------------------
(***************************************************************************)
(* Theorems about ClientOffers, Billing and Intake, for any clients,       *)
(* requests, prices, payments, amounts, bound on references, people and    *)
(* leads, and any mix of handlers.                                         *)
(*                                                                         *)
(* Offers.  A handler of the office writes by id what it decided on a copy *)
(* it read earlier.  What makes the result right, as long as the office    *)
(* sends one request at a time, is that nothing else invalidates what was  *)
(* read: the clients and the expiry only move a document out of SENT.  The *)
(* invariant says so for every handler that is on its way (Pending), next  *)
(* to what it is needed for: an accepted document has the agreed price     *)
(* (AsAgreed) and a booked document stays in the status it was booked in   *)
(* (StaysBooked).                                                          *)
(*                                                                         *)
(* Invoices.  PaidSum adds up over a set of rows, so the proofs first need *)
(* what a sum over a finite set is: that it exists, that it depends only   *)
(* on what is added, and that one row more adds its amount.  The library's *)
(* induction rules take an operator, which the provers cannot instantiate; *)
(* the same is done here with a least counterexample (LeastNatural).       *)
(*                                                                         *)
(* Enquiries.  The invariant follows the locks of a caller (KeepsItsLocks) *)
(* and what its locks let it rely on (KnowsNoTwin).                        *)
(***************************************************************************)
EXTENDS ClientOffers, Billing, Intake, FiniteSetTheorems, WellFoundedInduction, TLAPS

------------------------
(* Offers *)

Statuses == QuoteStatus \cup EstimateStatus \cup {"NONE", "DELETED"}

Document == [status : Statuses, price : Prices \cup {0}, link : Nat, valid : BOOLEAN]

OfficeOp == {"update", "publish", "updateStatus", "delete", "convertToBooking",
             "convertToQuote", "convertToJob"}

Request == [op : OfficeOp \cup {"answer"}, kind : Kinds, new : Statuses, seen : Document]

Everyone == Office \cup Clients

\* An existing document has a price, and the statuses of its kind.
DocumentShape(kind, d) ==
    /\ d \in Document
    /\ d.status \in StatusOf(kind) \cup {"NONE", "DELETED"}
    /\ d.status \in StatusOf(kind) => d.price \in Prices

\* What a handler has read and is about to write.
RequestShape(r, q) ==
    q # NoOffer =>
        /\ q \in Request
        /\ q.op \in offerOps
        /\ q.op = "answer" <=> r \in Clients
        /\ q.seen.status \in StatusOf(q.kind) /\ q.seen.price \in Prices
        /\ q.op = "answer" => q.new \in {Answer(q.kind, TRUE), Answer(q.kind, FALSE)}
        /\ q.op = "updateStatus" => q.new \in Transitions(q.kind, q.seen.status)

Shapes ==
    /\ doc \in [Kinds -> Document]
    /\ \A k \in Kinds : DocumentShape(k, doc[k])
    /\ bookings \subseteq [from : Kinds, price : Prices, number : Nat]
    /\ IsFiniteSet(bookings)
    /\ jobs \in 0 .. MaxJobs
    /\ agreed \in [Kinds -> Prices \cup {0}]
    /\ offerOps \in OfferMixes
    /\ request \in [Everyone -> Request \cup {NoOffer}]
    /\ \A r \in Everyone : RequestShape(r, request[r])

------------------------
(* The shape of the state, for any number of requests *)

LEMMA StatusFacts ==
  ASSUME NEW kind \in Kinds
  PROVE  /\ StatusOf(kind) \subseteq Statuses
         /\ "NONE" \notin StatusOf(kind) /\ "DELETED" \notin StatusOf(kind)
         /\ {"DRAFT", "SENT"} \subseteq StatusOf(kind)
         /\ {Answer(kind, TRUE), Answer(kind, FALSE)} \subseteq StatusOf(kind)
         /\ \A s \in StatusOf(kind) : Transitions(kind, s) \subseteq StatusOf(kind)
  BY DEF Kinds, StatusOf, Statuses, QuoteStatus, EstimateStatus, Answer, QuoteAnswer,
         EstimateAnswer, Transitions, QuoteTransitions, EstimateTransitions

LEMMA InitShapes == OffersInit => Shapes
<1> SUFFICES ASSUME OffersInit PROVE Shapes
  OBVIOUS
<1>1. ASSUME NEW k \in Kinds PROVE DocumentShape(k, Absent)
  <2>1. Absent \in Document /\ Absent.status = "NONE"  BY DEF Document, Absent, Statuses
  <2> QED BY <2>1, StatusFacts DEF DocumentShape
<1>2. doc \in [Kinds -> Document] /\ \A k \in Kinds : DocumentShape(k, doc[k])
  BY <1>1 DEF OffersInit, DocumentShape
<1>3. IsFiniteSet(bookings)  BY FS_EmptySet DEF OffersInit
<1>4. \A r \in Everyone : request[r] = NoOffer  BY DEF OffersInit, Everyone
<1>5. request \in [Everyone -> Request \cup {NoOffer}]  BY DEF OffersInit, Everyone
<1>6. \A r \in Everyone : RequestShape(r, request[r])  BY <1>4 DEF RequestShape
<1>7. /\ bookings = {} /\ jobs \in 0 .. MaxJobs /\ offerOps \in OfferMixes
      /\ agreed \in [Kinds -> Prices \cup {0}]
  BY OffersAssumption DEF OffersInit
<1> QED BY <1>2, <1>3, <1>5, <1>6, <1>7 DEF Shapes

\* Replacing one document.
LEMMA DocShape ==
  ASSUME Shapes, NEW kind \in Kinds, NEW d, DocumentShape(kind, d),
         doc' = [doc EXCEPT ![kind] = d]
  PROVE  /\ doc' \in [Kinds -> Document]
         /\ \A k \in Kinds : DocumentShape(k, doc'[k])
         /\ doc'[kind] = d
         /\ \A k \in Kinds \ {kind} : doc'[k] = doc[k]
  BY DEF Shapes, DocumentShape

\* Replacing one request.
LEMMA RequestsShape ==
  ASSUME Shapes, offerOps' = offerOps, NEW r \in Everyone, NEW q \in Request \cup {NoOffer},
         RequestShape(r, q), request' = [request EXCEPT ![r] = q]
  PROVE  /\ request' \in [Everyone -> Request \cup {NoOffer}]
         /\ \A s \in Everyone : RequestShape(s, request[s])'
         /\ request'[r] = q
         /\ \A s \in Everyone \ {r} : request'[s] = request[s]
<1>1. /\ request' \in [Everyone -> Request \cup {NoOffer}]
      /\ request'[r] = q
      /\ \A s \in Everyone \ {r} : request'[s] = request[s]
  BY DEF Shapes
<1>2. \A s \in Everyone : RequestShape(s, request[s])  BY DEF Shapes
<1>3. \A s \in Everyone : RequestShape(s, request'[s])  BY <1>1, <1>2
<1> QED BY <1>1, <1>3 DEF RequestShape

LEMMA FinishShape ==
  ASSUME Shapes, offerOps' = offerOps, NEW r \in Everyone, FinishOffer(r)
  PROVE  /\ request' \in [Everyone -> Request \cup {NoOffer}]
         /\ \A s \in Everyone : RequestShape(s, request[s])'
         /\ request'[r] = NoOffer
         /\ \A s \in Everyone \ {r} : request'[s] = request[s]
  BY RequestsShape DEF FinishOffer, RequestShape

\* A write by id replaces the document, if it is still there, by another one.
LEMMA WriteShape ==
  ASSUME Shapes, offerOps' = offerOps, NEW r \in Everyone, NEW op, NEW kind \in Kinds, NEW d,
         Exists(kind) => DocumentShape(kind, d), Write(r, op, kind, d)
  PROVE  /\ doc' \in [Kinds -> Document]
         /\ \A k \in Kinds : DocumentShape(k, doc'[k])
         /\ doc'[kind] = IF Exists(kind) THEN d ELSE doc[kind]
         /\ \A k \in Kinds \ {kind} : doc'[k] = doc[k]
         /\ request' \in [Everyone -> Request \cup {NoOffer}]
         /\ \A s \in Everyone : RequestShape(s, request[s])'
         /\ request'[r] = NoOffer
         /\ \A s \in Everyone \ {r} : request'[s] = request[s]
         /\ request[r] # NoOffer /\ request[r].op = op /\ request[r].kind = kind
<1>1. /\ request[r] # NoOffer /\ request[r].op = op /\ request[r].kind = kind
      /\ FinishOffer(r)
      /\ doc' = IF Exists(kind) THEN [doc EXCEPT ![kind] = d] ELSE doc
  BY DEF Write
<1>2. /\ doc' \in [Kinds -> Document]
      /\ \A k \in Kinds : DocumentShape(k, doc'[k])
      /\ doc'[kind] = IF Exists(kind) THEN d ELSE doc[kind]
      /\ \A k \in Kinds \ {kind} : doc'[k] = doc[k]
  <2>1. CASE Exists(kind)  BY <1>1, <2>1, DocShape
  <2>2. CASE ~Exists(kind)  BY <1>1, <2>2 DEF Shapes
  <2> QED BY <2>1, <2>2
<1> QED BY <1>1, <1>2, FinishShape

\* A request that has just read the document of its kind.
Taken(r, kind, op, new) ==
    /\ Take(r, op, kind, new)
    /\ op \in OfficeOp \cup {"answer"} /\ new \in Statuses
    /\ op = "answer" <=> r \in Clients
    /\ op = "answer" => new \in {Answer(kind, TRUE), Answer(kind, FALSE)}
    /\ op = "updateStatus" => new \in Transitions(kind, doc[kind].status)
    /\ op = "update" => Editable(doc[kind])
    /\ op = "publish" => Publishable(doc[kind])
    /\ op = "delete" => Deletable(kind, doc[kind])
    /\ op = "convertToBooking" => MayBook(kind, doc[kind])

LEMMA ReadTakes ==
  ASSUME Shapes, NEW r \in Everyone, NEW kind \in Kinds, ReadOffer(r, kind)
  PROVE  Exists(kind) /\ \E op, new : Taken(r, kind, op, new)
<1>1. /\ Exists(kind) /\ doc[kind].status \in Statuses
      /\ "DELETED" \in Statuses /\ "SENT" \in Statuses
      /\ {Answer(kind, TRUE), Answer(kind, FALSE)} \subseteq Statuses
      /\ Transitions(kind, doc[kind].status) \subseteq Statuses
  BY StatusFacts DEF ReadOffer, Exists, Statuses
<1>2. CASE r \in Office
  <2>1. r \notin Clients  BY <1>2, OffersAssumption
  <2>2. CASE Editable(doc[kind]) /\ Take(r, "update", kind, doc[kind].status)
    <3>1. Taken(r, kind, "update", doc[kind].status)  BY <1>1, <2>1, <2>2 DEF Taken, OfficeOp
    <3> QED BY <1>1, <3>1
  <2>3. CASE Publishable(doc[kind]) /\ Take(r, "publish", kind, "SENT")
    <3>1. Taken(r, kind, "publish", "SENT")  BY <1>1, <2>1, <2>3 DEF Taken, OfficeOp
    <3> QED BY <1>1, <3>1
  <2>4. ASSUME NEW new \in Transitions(kind, doc[kind].status), Take(r, "updateStatus", kind, new)
        PROVE  Exists(kind) /\ \E op, n : Taken(r, kind, op, n)
    <3>1. Taken(r, kind, "updateStatus", new)  BY <1>1, <2>1, <2>4 DEF Taken, OfficeOp
    <3> QED BY <1>1, <3>1
  <2>5. CASE Deletable(kind, doc[kind]) /\ Take(r, "delete", kind, "DELETED")
    <3>1. Taken(r, kind, "delete", "DELETED")  BY <1>1, <2>1, <2>5 DEF Taken, OfficeOp
    <3> QED BY <1>1, <3>1
  <2>6. CASE MayBook(kind, doc[kind]) /\ Take(r, "convertToBooking", kind, doc[kind].status)
    <3>1. Taken(r, kind, "convertToBooking", doc[kind].status)  BY <1>1, <2>1, <2>6 DEF Taken, OfficeOp
    <3> QED BY <1>1, <3>1
  <2>7. CASE Take(r, IF kind = "quote" THEN "convertToJob" ELSE "convertToQuote", kind,
                  doc[kind].status)
    <3> DEFINE op == IF kind = "quote" THEN "convertToJob" ELSE "convertToQuote"
    <3>1. op \in {"convertToJob", "convertToQuote"}  OBVIOUS
    <3>2. Taken(r, kind, op, doc[kind].status)  BY <1>1, <2>1, <2>7, <3>1 DEF Taken, OfficeOp
    <3> QED BY <1>1, <3>2
  <2> QED BY <1>2, <2>1, <2>2, <2>3, <2>4, <2>5, <2>6, <2>7 DEF ReadOffer
<1>3. CASE r \in Clients
  <2>1. PICK yes \in BOOLEAN : Take(r, "answer", kind, Answer(kind, yes))
    BY <1>3, OffersAssumption DEF ReadOffer
  <2>2. Answer(kind, yes) \in {Answer(kind, TRUE), Answer(kind, FALSE)}  OBVIOUS
  <2>3. Taken(r, kind, "answer", Answer(kind, yes))  BY <1>1, <1>3, <2>1, <2>2 DEF Taken
  <2> QED BY <1>1, <2>3
<1> QED BY <1>2, <1>3 DEF Everyone

LEMMA TakenShape ==
  ASSUME Shapes, offerOps' = offerOps, NEW r \in Everyone, NEW kind \in Kinds, Exists(kind),
         NEW op, NEW new, Taken(r, kind, op, new)
  PROVE  LET q == [op |-> op, kind |-> kind, new |-> new, seen |-> doc[kind]] IN
         /\ q \in Request
         /\ request' \in [Everyone -> Request \cup {NoOffer}]
         /\ \A s \in Everyone : RequestShape(s, request[s])'
         /\ request'[r] = q
         /\ \A s \in Everyone \ {r} : request'[s] = request[s]
<1> DEFINE q == [op |-> op, kind |-> kind, new |-> new, seen |-> doc[kind]]
<1>1. /\ q \in Request /\ q.op = op /\ q.kind = kind /\ q.new = new /\ q.seen = doc[kind]
      /\ request' = [request EXCEPT ![r] = q] /\ op \in offerOps
  BY DEF Taken, Take, Request, Shapes
<1> HIDE DEF q
<1>2. doc[kind].status \in StatusOf(kind) /\ doc[kind].price \in Prices
  BY DEF Shapes, DocumentShape, Exists
<1>3. RequestShape(r, q)  BY <1>1, <1>2 DEF RequestShape, Taken
<1> QED BY <1>1, <1>3, RequestsShape DEF q

\* What the writing handlers make of an existing document.
LEMMA PriceEdit ==
  ASSUME NEW kind \in Kinds, NEW d, DocumentShape(kind, d), d.status \in StatusOf(kind),
         NEW price \in Prices, NEW valid \in BOOLEAN
  PROVE  /\ DocumentShape(kind, [d EXCEPT !.price = price, !.valid = valid])
         /\ [d EXCEPT !.price = price, !.valid = valid].status = d.status
  BY DEF DocumentShape, Document

LEMMA StatusEdit ==
  ASSUME NEW kind \in Kinds, NEW d, DocumentShape(kind, d), d.status \in StatusOf(kind),
         NEW status \in StatusOf(kind) \cup {"DELETED"}
  PROVE  /\ DocumentShape(kind, [d EXCEPT !.status = status])
         /\ [d EXCEPT !.status = status].status = status
         /\ [d EXCEPT !.status = status].price = d.price
<1>1. status \in Statuses  BY StatusFacts DEF Statuses
<1> QED BY <1>1 DEF DocumentShape, Document

LEMMA LinkEdit ==
  ASSUME NEW kind \in Kinds, NEW d, DocumentShape(kind, d), d.status \in StatusOf(kind),
         NEW link \in Nat, NEW status \in StatusOf(kind)
  PROVE  /\ DocumentShape(kind, [d EXCEPT !.link = link, !.status = status])
         /\ [d EXCEPT !.link = link, !.status = status].status = status
         /\ [d EXCEPT !.link = link, !.status = status].price = d.price
<1>1. status \in Statuses  BY StatusFacts
<1> QED BY <1>1 DEF DocumentShape, Document

LEMMA RequestFacts ==
  ASSUME Shapes, NEW r \in Everyone, request[r] # NoOffer
  PROVE  /\ request[r].kind \in Kinds /\ request[r].seen \in Document
         /\ RequestShape(r, request[r])
         /\ request[r].op = "updateStatus" => request[r].new \in StatusOf(request[r].kind)
         /\ request[r].op = "answer" => request[r].new \in StatusOf(request[r].kind)
<1>1. RequestShape(r, request[r]) /\ request[r] \in Request  BY DEF Shapes, RequestShape
<1>2. request[r].kind \in Kinds /\ request[r].seen \in Document  BY <1>1 DEF Request
<1> QED BY <1>1, <1>2, StatusFacts DEF RequestShape

\* Each handler of the document, and the one document it may change.
Handles(r, kind) ==
    \/ Update(r, kind) \/ UpdateStatus(r, kind) \/ Publish(r, kind)
    \/ PublicAction(r, kind) \/ Delete(r, kind)

LEMMA HandlesShape ==
  ASSUME Shapes, NEW r \in Everyone, NEW kind \in Kinds, Handles(r, kind)
  PROVE  Shapes'
<1>1. /\ offerOps' = offerOps /\ bookings' = bookings /\ jobs' = jobs
  BY DEF Handles, Update, UpdateStatus, Publish, PublicAction, Delete
<1>2. ASSUME Exists(kind)
      PROVE  /\ DocumentShape(kind, doc[kind]) /\ doc[kind].status \in StatusOf(kind)
             /\ doc[kind].price \in Prices /\ doc[kind].link \in Nat /\ doc[kind].valid \in BOOLEAN
  BY <1>2 DEF Shapes, DocumentShape, Document, Exists
<1>3. ASSUME NEW op, NEW d, Exists(kind) => DocumentShape(kind, d), Write(r, op, kind, d),
             agreed' \in [Kinds -> Prices \cup {0}]
      PROVE  Shapes'
  <2>1. /\ doc' \in [Kinds -> Document]
        /\ \A k \in Kinds : DocumentShape(k, doc'[k])
        /\ request' \in [Everyone -> Request \cup {NoOffer}]
        /\ \A s \in Everyone : RequestShape(s, request[s])'
    BY <1>1, <1>3, WriteShape
  <2> QED BY <1>1, <1>3, <2>1 DEF Shapes, DocumentShape
<1>4. agreed \in [Kinds -> Prices \cup {0}]  BY DEF Shapes
<1>5. ASSUME NEW new, Accept(kind, doc[kind], new) PROVE agreed' \in [Kinds -> Prices \cup {0}]
  BY <1>2, <1>4, <1>5 DEF Accept
<1>6. ASSUME NEW op, NEW d, Write(r, op, kind, d)
      PROVE  request[r] # NoOffer /\ request[r].op = op /\ request[r].kind = kind
  BY <1>6 DEF Write
<1>7. CASE Update(r, kind)
  <2>1. PICK p \in Prices, valid \in BOOLEAN :
          Write(r, "update", kind, [doc[kind] EXCEPT !.price = p, !.valid = valid])
    BY <1>7 DEF Update
  <2>2. Exists(kind) => DocumentShape(kind, [doc[kind] EXCEPT !.price = p, !.valid = valid])
    BY <1>2, PriceEdit
  <2> QED BY <1>3, <1>4, <1>7, <2>1, <2>2 DEF Update
<1>8. CASE UpdateStatus(r, kind)
  <2>1. Write(r, "updateStatus", kind, [doc[kind] EXCEPT !.status = request[r].new])
    BY <1>8 DEF UpdateStatus
  <2>2. request[r].new \in StatusOf(kind)  BY <1>6, <2>1, RequestFacts
  <2>3. Exists(kind) => DocumentShape(kind, [doc[kind] EXCEPT !.status = request[r].new])
    BY <1>2, <2>2, StatusEdit
  <2> QED BY <1>3, <1>5, <1>8, <2>1, <2>3 DEF UpdateStatus
<1>9. CASE Publish(r, kind)
  <2> DEFINE link == IF NewLink(request[r].seen) THEN doc[kind].link + 1 ELSE doc[kind].link
             status == IF request[r].seen.status = "DRAFT" THEN "SENT" ELSE doc[kind].status
  <2>1. Write(r, "publish", kind, [doc[kind] EXCEPT !.link = link, !.status = status])
    BY <1>9 DEF Publish
  <2>2. ASSUME Exists(kind) PROVE link \in Nat /\ status \in StatusOf(kind)
    <3>1. link \in {doc[kind].link + 1, doc[kind].link}
          /\ status \in {"SENT", doc[kind].status}
      OBVIOUS
    <3>2. doc[kind].link + 1 \in Nat /\ doc[kind].link \in Nat  BY <1>2, <2>2
    <3>3. "SENT" \in StatusOf(kind)  BY StatusFacts
    <3> QED BY <1>2, <2>2, <3>1, <3>2, <3>3
  <2>3. Exists(kind) => DocumentShape(kind, [doc[kind] EXCEPT !.link = link, !.status = status])
    BY <1>2, <2>2, LinkEdit
  <2> QED BY <1>3, <1>4, <1>9, <2>1, <2>3 DEF Publish
<1>10. CASE PublicAction(r, kind)
  <2> DEFINE status == IF StillOpen(doc[kind]) THEN request[r].new ELSE doc[kind].status
  <2>1. Write(r, "answer", kind, [doc[kind] EXCEPT !.status = status])  BY <1>10 DEF PublicAction
  <2>2. request[r].new \in StatusOf(kind)  BY <1>6, <2>1, RequestFacts
  <2>3. Exists(kind) => DocumentShape(kind, [doc[kind] EXCEPT !.status = status])
    BY <1>2, <2>2, StatusEdit
  <2>4. agreed' \in [Kinds -> Prices \cup {0}]
    <3>1. CASE StillOpen(doc[kind])  BY <1>5, <1>10, <3>1 DEF PublicAction
    <3>2. CASE ~StillOpen(doc[kind])  BY <1>4, <1>10, <3>2 DEF PublicAction
    <3> QED BY <3>1, <3>2
  <2> QED BY <1>3, <2>1, <2>3, <2>4
<1>11. CASE Delete(r, kind)
  <2>1. Write(r, "delete", kind, [doc[kind] EXCEPT !.status = "DELETED"])  BY <1>11 DEF Delete
  <2>2. Exists(kind) => DocumentShape(kind, [doc[kind] EXCEPT !.status = "DELETED"])
    BY <1>2, StatusEdit
  <2> QED BY <1>3, <1>4, <1>11, <2>1, <2>2 DEF Delete
<1> QED BY <1>7, <1>8, <1>9, <1>10, <1>11 DEF Handles

\* A booking made from what the handler read.
LEMMA BookShape ==
  ASSUME Shapes, NEW r \in Everyone, NEW kind \in Kinds, request[r] # NoOffer,
         request[r].kind = kind, Book(r, kind)
  PROVE  /\ bookings' \subseteq [from : Kinds, price : Prices, number : Nat]
         /\ IsFiniteSet(bookings')
<1>1. request[r].seen.price \in Prices  BY RequestFacts DEF RequestShape
<1>2. Cardinality(bookings) + 1 \in Nat  BY FS_CardinalityType DEF Shapes
<1>3. bookings \subseteq [from : Kinds, price : Prices, number : Nat] /\ IsFiniteSet(bookings)
  BY DEF Shapes
<1> DEFINE b == [from |-> kind, price |-> request[r].seen.price,
                 number |-> Cardinality(bookings) + 1]
<1>4. b \in [from : Kinds, price : Prices, number : Nat]  BY <1>1, <1>2
<1>5. bookings' \in {bookings, bookings \cup {b}}  BY DEF Book
<1> HIDE DEF b
<1> QED BY <1>3, <1>4, <1>5, FS_AddElement

LEMMA ConvertsShape ==
  ASSUME Shapes, NEW r \in Everyone,
         \/ ConvertQuoteToBooking(r) \/ ConvertEstimateToBooking(r)
         \/ ConvertEstimateToQuote(r) \/ ConvertQuoteToJob(r)
  PROVE  Shapes'
<1>1. offerOps' = offerOps /\ agreed' = agreed
  BY DEF ConvertQuoteToBooking, ConvertEstimateToBooking, ConvertEstimateToQuote, ConvertQuoteToJob
<1>2. "quote" \in Kinds /\ "estimate" \in Kinds  BY DEF Kinds
<1>3. ASSUME NEW op, NEW kind \in Kinds, NEW d, Exists(kind) => DocumentShape(kind, d),
             Write(r, op, kind, d), Book(r, kind) \/ bookings' = bookings,
             jobs' \in 0 .. MaxJobs
      PROVE  Shapes'
  <2>1. /\ doc' \in [Kinds -> Document]
        /\ \A k \in Kinds : DocumentShape(k, doc'[k])
        /\ request' \in [Everyone -> Request \cup {NoOffer}]
        /\ \A s \in Everyone : RequestShape(s, request[s])'
        /\ request[r] # NoOffer /\ request[r].kind = kind
    BY <1>1, <1>3, WriteShape
  <2>2. /\ bookings' \subseteq [from : Kinds, price : Prices, number : Nat]
        /\ IsFiniteSet(bookings')
    BY <1>3, <2>1, BookShape DEF Shapes
  <2> QED BY <1>1, <1>3, <2>1, <2>2 DEF Shapes, DocumentShape
<1>4. \A k \in Kinds : DocumentShape(k, doc[k])  BY DEF Shapes
<1>5. CASE ConvertQuoteToBooking(r)
  <2>1. jobs' \in 0 .. MaxJobs  BY <1>5 DEF ConvertQuoteToBooking, Shapes
  <2> QED BY <1>2, <1>3, <1>4, <1>5, <2>1 DEF ConvertQuoteToBooking
<1>6. CASE ConvertEstimateToBooking(r)
  <2>1. jobs' \in 0 .. MaxJobs  BY <1>6 DEF ConvertEstimateToBooking, Shapes
  <2>2. Exists("estimate") =>
          DocumentShape("estimate", [doc["estimate"] EXCEPT !.status = "CONVERTED"])
    <3>1. "CONVERTED" \in Statuses /\ "CONVERTED" \in StatusOf("estimate")
      BY DEF Statuses, EstimateStatus, StatusOf
    <3> QED BY <1>2, <1>4, <3>1 DEF DocumentShape, Document, Exists
  <2> QED BY <1>2, <1>3, <1>6, <2>1, <2>2 DEF ConvertEstimateToBooking
<1>7. CASE ConvertQuoteToJob(r)
  <2>1. jobs' \in 0 .. MaxJobs  BY <1>7, OffersAssumption DEF ConvertQuoteToJob, Shapes
  <2> QED BY <1>2, <1>3, <1>4, <1>7, <2>1 DEF ConvertQuoteToJob
<1>8. CASE ConvertEstimateToQuote(r)
  <2> DEFINE d == [status |-> "DRAFT", price |-> request[r].seen.price, link |-> 0, valid |-> TRUE]
  <2>1. /\ request[r] # NoOffer /\ FinishOffer(r)
        /\ doc' = IF Exists("estimate") THEN [doc EXCEPT !["quote"] = d] ELSE doc
        /\ bookings' = bookings /\ jobs' = jobs
    BY <1>8 DEF ConvertEstimateToQuote
  <2>2. request[r].seen.price \in Prices  BY <2>1, RequestFacts DEF RequestShape
  <2>3. d \in Document /\ d.status = "DRAFT" /\ d.price \in Prices
    BY <2>2 DEF Document, Statuses, QuoteStatus
  <2> HIDE DEF d
  <2>4. DocumentShape("quote", d)  BY <1>2, <2>3, StatusFacts DEF DocumentShape
  <2>5. /\ doc' \in [Kinds -> Document]
        /\ \A k \in Kinds : DocumentShape(k, doc'[k])
    <3>1. CASE Exists("estimate")  BY <1>2, <2>1, <2>4, <3>1, DocShape
    <3>2. CASE ~Exists("estimate")  BY <2>1, <3>2 DEF Shapes
    <3> QED BY <3>1, <3>2
  <2>6. /\ request' \in [Everyone -> Request \cup {NoOffer}]
        /\ \A s \in Everyone : RequestShape(s, request[s])'
    BY <1>1, <2>1, FinishShape
  <2> QED BY <1>1, <2>1, <2>5, <2>6 DEF Shapes, DocumentShape
<1> QED BY <1>5, <1>6, <1>7, <1>8

LEMMA CreateShape ==
  ASSUME Shapes, NEW kind \in Kinds, NEW p \in Prices, Create(kind, p),
         UNCHANGED <<bookings, jobs, agreed, request, offerOps>>
  PROVE  /\ Shapes'
         /\ doc[kind] = Absent
         /\ doc'[kind].status \in {"DRAFT", "SENT"}
         /\ \A k \in Kinds \ {kind} : doc'[k] = doc[k]
<1>1. PICK published \in BOOLEAN :
        doc' = [doc EXCEPT ![kind] =
          [status |-> IF published THEN "SENT" ELSE "DRAFT", price |-> p,
           link |-> IF published THEN 1 ELSE 0, valid |-> TRUE]]
  BY DEF Create
<1> DEFINE d == [status |-> IF published THEN "SENT" ELSE "DRAFT", price |-> p,
                 link |-> IF published THEN 1 ELSE 0, valid |-> TRUE]
<1>2. d \in Document /\ d.status \in {"DRAFT", "SENT"} /\ d.price \in Prices
  BY DEF Document, Statuses, QuoteStatus
<1>3. DocumentShape(kind, d)  BY <1>2, StatusFacts DEF DocumentShape
<1> HIDE DEF d
<1>4. /\ doc' \in [Kinds -> Document]
      /\ \A k \in Kinds : DocumentShape(k, doc'[k])
      /\ doc'[kind] = d
      /\ \A k \in Kinds \ {kind} : doc'[k] = doc[k]
  BY <1>1, <1>3, DocShape DEF d
<1>5. Shapes'  BY <1>4 DEF Shapes, DocumentShape, RequestShape
<1> QED BY <1>2, <1>4, <1>5 DEF Create

LEMMA TimeShape ==
  ASSUME Shapes, ExpireOnRead \/ \E k \in Kinds : Lapse(k)
  PROVE  /\ Shapes'
         /\ UNCHANGED <<bookings, jobs, agreed, request, offerOps>>
         /\ \A k \in Kinds : /\ doc'[k].price = doc[k].price
                             /\ \/ doc'[k].status = doc[k].status
                                \/ doc[k].status = "SENT" /\ doc'[k].status = "EXPIRED" /\ k = "quote"
<1>1. UNCHANGED <<bookings, jobs, agreed, request, offerOps>>  BY DEF ExpireOnRead, Lapse
<1>2. ASSUME NEW kind \in Kinds, NEW d, doc' = [doc EXCEPT ![kind] = d], DocumentShape(kind, d)
      PROVE  /\ Shapes' /\ doc'[kind] = d
             /\ \A k \in Kinds \ {kind} : doc'[k] = doc[k]
  <2>1. /\ doc' \in [Kinds -> Document]
        /\ \A k \in Kinds : DocumentShape(k, doc'[k])
        /\ doc'[kind] = d
        /\ \A k \in Kinds \ {kind} : doc'[k] = doc[k]
    BY <1>2, DocShape
  <2> QED BY <1>1, <2>1 DEF Shapes, DocumentShape, RequestShape
<1>3. \A k \in Kinds : DocumentShape(k, doc[k]) /\ doc[k] \in Document  BY DEF Shapes, DocumentShape
<1>4. CASE ExpireOnRead
  <2> DEFINE d == [doc["quote"] EXCEPT !.status = "EXPIRED"]
  <2>1. "quote" \in Kinds /\ "EXPIRED" \in StatusOf("quote") /\ "EXPIRED" \in Statuses
        /\ doc["quote"].status = "SENT"
    BY <1>4 DEF Kinds, StatusOf, QuoteStatus, Statuses, ExpireOnRead
  <2>2. /\ d \in Document /\ d.status = "EXPIRED" /\ d.price = doc["quote"].price
    BY <1>3, <2>1 DEF Document
  <2>3. DocumentShape("quote", d)  BY <1>3, <2>1, <2>2, StatusFacts DEF DocumentShape
  <2>4. doc' = [doc EXCEPT !["quote"] = d]  BY <1>4 DEF ExpireOnRead
  <2> HIDE DEF d
  <2> QED BY ZenonT(40), <1>1, <1>2, <2>1, <2>2, <2>3, <2>4
<1>5. ASSUME NEW kind \in Kinds, Lapse(kind)
      PROVE  /\ Shapes'
             /\ \A k \in Kinds : doc'[k].price = doc[k].price /\ doc'[k].status = doc[k].status
  <2> DEFINE d == [doc[kind] EXCEPT !.valid = FALSE]
  <2>1. d \in Document /\ d.status = doc[kind].status /\ d.price = doc[kind].price  BY <1>3 DEF Document
  <2>2. DocumentShape(kind, d)  BY <1>3, <2>1 DEF DocumentShape
  <2>3. doc' = [doc EXCEPT ![kind] = d]  BY <1>5 DEF Lapse
  <2> HIDE DEF d
  <2> QED BY ZenonT(40), <1>2, <2>1, <2>2, <2>3
<1> QED BY <1>1, <1>4, <1>5

LEMMA ReadShape ==
  ASSUME Shapes, NEW r \in Everyone, NEW kind \in Kinds, ReadOffer(r, kind)
  PROVE  Shapes'
<1>1. UNCHANGED <<doc, bookings, jobs, agreed, offerOps>>  BY DEF ReadOffer
<1>2. /\ request' \in [Everyone -> Request \cup {NoOffer}]
      /\ \A s \in Everyone : RequestShape(s, request[s])'
  BY <1>1, ReadTakes, TakenShape
<1> QED BY <1>1, <1>2 DEF Shapes, DocumentShape

LEMMA NextShapes == Shapes /\ [OffersNext]_offerVars => Shapes'
<1> SUFFICES ASSUME Shapes, [OffersNext]_offerVars PROVE Shapes'
  OBVIOUS
<1>1. CASE CreateQuote \/ CreateEstimate
  <2>1. PICK kind \in Kinds, p \in Prices :
          Create(kind, p) /\ UNCHANGED <<bookings, jobs, agreed, request, offerOps>>
    BY <1>1 DEF CreateQuote, CreateEstimate, Kinds
  <2> QED BY <2>1, CreateShape
<1>2. CASE ExpireOnRead \/ \E k \in Kinds : Lapse(k)  BY <1>2, TimeShape
<1>3. ASSUME NEW r \in Everyone, HandleOffer(r) PROVE Shapes'
  <2>1. \/ \E k \in Kinds : ReadOffer(r, k) \/ Handles(r, k)
        \/ ConvertQuoteToBooking(r) \/ ConvertEstimateToBooking(r)
        \/ ConvertEstimateToQuote(r) \/ ConvertQuoteToJob(r)
    BY <1>3 DEF HandleOffer, Handles, UpdateQuote, UpdateEstimate, UpdateQuoteStatus,
       UpdateEstimateStatus, PublishQuote, PublishEstimate, PublicQuoteAction,
       PublicEstimateAction, DeleteQuote, DeleteEstimate, Kinds
  <2> QED BY <2>1, ReadShape, HandlesShape, ConvertsShape
<1>4. CASE UNCHANGED offerVars  BY <1>4 DEF offerVars, Shapes, DocumentShape, RequestShape
<1> QED BY <1>1, <1>2, <1>3, <1>4 DEF OffersNext, Everyone

LEMMA ShapesHold == OffersSpec => []Shapes
  BY InitShapes, NextShapes, PTL DEF OffersSpec

\* Every variable keeps its type, for any number of requests of the office and of
\* clients; a quote never gets the status of an estimate, nor the other way round.
THEOREM OffersTypeCorrect == OffersSpec => []OffersTypeOK
<1>1. Shapes => OffersTypeOK
  <2> SUFFICES ASSUME Shapes PROVE OffersTypeOK
    OBVIOUS
  <2>1. \A k \in Kinds : doc[k] \in [status : StatusOf(k) \cup {"NONE", "DELETED"},
                                     price : Prices \cup {0}, link : Nat, valid : BOOLEAN]
    BY DEF Shapes, DocumentShape, Document
  <2>2. \A r \in Office \cup Clients : request[r] # NoOffer => request[r].op \in offerOps
    BY DEF Shapes, RequestShape, Everyone
  <2> QED BY <2>1, <2>2 DEF OffersTypeOK, Shapes
<1> QED BY <1>1, ShapesHold, PTL

------------------------
(* The invariant, for an office that sends one request at a time *)

OneAtATime == \A r, s \in Office : r = s

\* The status in which a document that was booked stays.
BookedAs(kind) == IF kind = "quote" THEN "ACCEPTED" ELSE "CONVERTED"

StaysBooked == \A b \in bookings : doc[b.from].status = BookedAs(b.from)

BookedOnce == \A a, b \in bookings : a.from = b.from => a = b

AsAgreed ==
    \A k \in Kinds : doc[k].status \in {Answer(k, TRUE), BookedAs(k)} => agreed[k] = doc[k].price

BookedAtThatPrice == \A b \in bookings : b.price = agreed[b.from]

BookingsAreRight == StaysBooked /\ BookedOnce /\ AsAgreed /\ BookedAtThatPrice

\* Where a document that was seen in status s may be while the office waits.
Since(kind, s) ==
    IF s = "SENT" THEN {"SENT", "EXPIRED", Answer(kind, TRUE), Answer(kind, FALSE)} ELSE {s}

\* A request of the office finds the document as it saw it, or answered meanwhile.
Pending(r) ==
    LET q == request[r] IN
    q # NoOffer =>
        /\ doc[q.kind].status \in Since(q.kind, q.seen.status)
        /\ doc[q.kind].price = q.seen.price
        /\ q.op = "update" => q.seen.status = "DRAFT"
        /\ q.op = "publish" => q.seen.status \in {"DRAFT", "SENT"}
        /\ q.op = "convertToBooking" => q.seen.status = Answer(q.kind, TRUE)
        /\ q.op \in {"update", "updateStatus", "delete", "convertToBooking"} =>
              BookingsFrom(q.kind) = {}

OfferInv ==
    /\ Shapes
    /\ BookingsAreRight
    /\ \A r \in Office : Pending(r)

LEMMA InitOfferInv == OffersInit => OfferInv
<1> SUFFICES ASSUME OffersInit PROVE OfferInv
  OBVIOUS
<1>1. Shapes  BY InitShapes
<1>2. BookingsAreRight
  <2>1. \A k \in Kinds : doc[k].status \notin {Answer(k, TRUE), BookedAs(k)}
    BY DEF OffersInit, Absent, Answer, QuoteAnswer, EstimateAnswer, BookedAs
  <2>2. bookings = {}  BY DEF OffersInit
  <2> QED BY <2>1, <2>2 DEF BookingsAreRight, StaysBooked, BookedOnce, AsAgreed, BookedAtThatPrice
<1>3. \A r \in Office : Pending(r)  BY DEF OffersInit, Pending
<1> QED BY <1>1, <1>2, <1>3 DEF OfferInv

LEMMA NoBookings ==
  ASSUME StaysBooked, NEW kind, doc[kind].status # BookedAs(kind)
  PROVE  BookingsFrom(kind) = {}
  BY DEF StaysBooked, BookingsFrom

\* Without a new booking, one document may change as long as it was not booked and
\* what becomes accepted has the agreed price.
LEMMA DocumentMoves ==
  ASSUME Shapes, BookingsAreRight, NEW kind \in Kinds, bookings' = bookings,
         \A k \in Kinds \ {kind} : doc'[k] = doc[k] /\ agreed'[k] = agreed[k],
         \/ /\ doc'[kind].status = doc[kind].status /\ doc'[kind].price = doc[kind].price
            /\ agreed'[kind] = agreed[kind]
         \/ /\ BookingsFrom(kind) = {}
            /\ doc'[kind].status \in {Answer(kind, TRUE), BookedAs(kind)} =>
                  agreed'[kind] = doc'[kind].price
  PROVE  BookingsAreRight'
<1>1. \A b \in bookings : b.from \in Kinds  BY DEF Shapes
<1>2. \A b \in bookings : b.from = kind => BookingsFrom(kind) # {}  BY DEF BookingsFrom
<1>3. StaysBooked' /\ BookedAtThatPrice'
  BY <1>1, <1>2 DEF BookingsAreRight, StaysBooked, BookedAtThatPrice
<1>4. AsAgreed'  BY DEF BookingsAreRight, AsAgreed
<1>5. BookedOnce'  BY DEF BookingsAreRight, BookedOnce
<1> QED BY <1>3, <1>4, <1>5 DEF BookingsAreRight

LEMMA SinceFacts ==
  ASSUME NEW kind \in Kinds, NEW s \in StatusOf(kind)
  PROVE  "NONE" \notin Since(kind, s) /\ "DELETED" \notin Since(kind, s)
  BY DEF Kinds, StatusOf, QuoteStatus, EstimateStatus, Since, Answer, QuoteAnswer, EstimateAnswer

\* What clients and time do to a document, a waiting request can live with.
LEMMA PendingKept ==
  ASSUME Shapes, NEW r \in Office, Pending(r), request'[r] = request[r], bookings' = bookings,
         \A k \in Kinds : doc[k].status \in StatusOf(k) =>
            /\ doc'[k].price = doc[k].price
            /\ \/ doc'[k].status = doc[k].status
               \/ doc[k].status = "SENT" /\ doc'[k].status \in Since(k, "SENT")
  PROVE  Pending(r)'
<1> SUFFICES ASSUME request[r] # NoOffer PROVE Pending(r)'
  BY DEF Pending
<1> DEFINE k == request[r].kind
           s == request[r].seen.status
<1>1. k \in Kinds /\ s \in StatusOf(k)  BY RequestFacts DEF RequestShape, Everyone
<1>2. doc[k].status \in Since(k, s)  BY DEF Pending
<1>3. doc[k].status \in StatusOf(k)
  <2>1. doc[k].status # "NONE" /\ doc[k].status # "DELETED"  BY <1>1, <1>2, SinceFacts
  <2> QED BY <1>1, <2>1 DEF Shapes, DocumentShape
<1>4. doc'[k].price = doc[k].price /\ doc'[k].status \in Since(k, s)  BY <1>1, <1>2, <1>3 DEF Since
<1> QED BY <1>4 DEF Pending, BookingsFrom

\* A request of an office that waits for one answer at a time leaves none waiting.
LEMMA NonePending ==
  ASSUME OneAtATime, NEW r \in Office, request'[r] = NoOffer
  PROVE  \A s \in Office : Pending(s)'
  BY DEF OneAtATime, Pending

LEMMA CreateKeepsOfferInv ==
  ASSUME OfferInv, CreateQuote \/ CreateEstimate
  PROVE  OfferInv'
<1>1. PICK kind \in Kinds, p \in Prices :
        Create(kind, p) /\ UNCHANGED <<bookings, jobs, agreed, request, offerOps>>
  BY DEF CreateQuote, CreateEstimate, Kinds
<1>2. /\ Shapes'
      /\ doc[kind].status = "NONE"
      /\ doc'[kind].status \in {"DRAFT", "SENT"}
      /\ \A k \in Kinds \ {kind} : doc'[k] = doc[k]
  BY <1>1, CreateShape DEF OfferInv, Absent
<1>3. BookingsFrom(kind) = {}  BY <1>2, NoBookings DEF BookedAs, OfferInv, BookingsAreRight
<1>4. doc'[kind].status \notin {Answer(kind, TRUE), BookedAs(kind)}
  BY <1>2 DEF Answer, QuoteAnswer, EstimateAnswer, BookedAs
<1>5. BookingsAreRight'  BY <1>1, <1>2, <1>3, <1>4, DocumentMoves DEF OfferInv
<1>6. \A r \in Office : Pending(r)'  BY <1>1, <1>2, PendingKept, StatusFacts DEF OfferInv
<1> QED BY <1>2, <1>5, <1>6 DEF OfferInv

LEMMA TimeKeepsOfferInv ==
  ASSUME OfferInv, ExpireOnRead \/ \E k \in Kinds : Lapse(k)
  PROVE  OfferInv'
<1>1. /\ Shapes'
      /\ UNCHANGED <<bookings, jobs, agreed, request, offerOps>>
      /\ \A k \in Kinds : /\ doc'[k].price = doc[k].price
                          /\ \/ doc'[k].status = doc[k].status
                             \/ doc[k].status = "SENT" /\ doc'[k].status = "EXPIRED" /\ k = "quote"
  BY TimeShape DEF OfferInv
<1>2. \A b \in bookings : b.from \in Kinds  BY DEF OfferInv, Shapes
<1>3. BookingsAreRight'
  BY <1>1, <1>2 DEF OfferInv, BookingsAreRight, StaysBooked, BookedOnce, AsAgreed,
     BookedAtThatPrice, BookedAs, Answer, QuoteAnswer, EstimateAnswer
<1>4. \A r \in Office : Pending(r)'  BY <1>1, PendingKept DEF OfferInv, Since
<1> QED BY <1>1, <1>3, <1>4 DEF OfferInv

LEMMA ReadKeepsOfferInv ==
  ASSUME OfferInv, OneAtATime, NEW r \in Everyone, NEW kind \in Kinds, ReadOffer(r, kind)
  PROVE  OfferInv'
<1>1. UNCHANGED <<doc, bookings, jobs, agreed, offerOps>>  BY DEF ReadOffer
<1>2. Shapes'  BY ReadShape DEF OfferInv
<1>3. BookingsAreRight'
  BY <1>1 DEF OfferInv, BookingsAreRight, StaysBooked, BookedOnce, AsAgreed, BookedAtThatPrice
<1>4. PICK op, new : Taken(r, kind, op, new)  BY ReadTakes DEF OfferInv
<1> DEFINE q == [op |-> op, kind |-> kind, new |-> new, seen |-> doc[kind]]
<1>5. /\ request'[r] = q
      /\ \A s \in Everyone \ {r} : request'[s] = request[s]
      /\ doc[kind].status \in StatusOf(kind)
  BY <1>1, <1>4, ReadTakes, TakenShape DEF OfferInv, Exists
<1>6. /\ q.op = op /\ q.kind = kind /\ q.new = new /\ q.seen = doc[kind]  OBVIOUS
<1> HIDE DEF q
<1>7. doc[kind].status \in Since(kind, doc[kind].status)  BY DEF Since
<1>8. op = "update" => doc[kind].status = "DRAFT"  BY <1>4 DEF Taken, Editable
<1>9. op = "publish" => doc[kind].status \in {"DRAFT", "SENT"}  BY <1>4 DEF Taken, Publishable
<1>10. op = "convertToBooking" => doc[kind].status = Answer(kind, TRUE)  BY <1>4 DEF Taken, MayBook
<1>11. op \in {"update", "updateStatus", "delete", "convertToBooking"} => BookingsFrom(kind) = {}
  <2>1. op = "update" => doc[kind].status # BookedAs(kind)  BY <1>8 DEF BookedAs
  <2>2. op = "updateStatus" => doc[kind].status # BookedAs(kind)
    BY <1>4 DEF Taken, Transitions, QuoteTransitions, EstimateTransitions, BookedAs
  <2>3. op = "delete" => doc[kind].status # BookedAs(kind)  BY <1>4 DEF Taken, Deletable, BookedAs
  <2>4. op = "convertToBooking" => kind = "quote" \/ doc[kind].status # BookedAs(kind)
    BY <1>10 DEF BookedAs, Answer, EstimateAnswer
  <2>5. op = "convertToBooking" /\ kind = "quote" => BookingsFrom(kind) = {}  BY <1>4 DEF Taken, MayBook
  <2> QED BY <2>1, <2>2, <2>3, <2>4, <2>5, NoBookings DEF OfferInv, BookingsAreRight
<1>12. ASSUME NEW s \in Office PROVE Pending(s)'
  <2>1. CASE s = r
    <3>1. request'[s] = q /\ doc' = doc /\ BookingsFrom(kind)' = BookingsFrom(kind)
      BY <1>1, <1>5, <2>1 DEF BookingsFrom
    <3>2. /\ doc'[q.kind].status \in Since(q.kind, q.seen.status)
          /\ doc'[q.kind].price = q.seen.price
      BY <1>6, <1>7, <3>1
    <3>3. {b \in bookings' : b.from = q.kind} = BookingsFrom(kind)  BY <1>1, <1>6 DEF BookingsFrom
    <3> QED BY <1>6, <1>8, <1>9, <1>10, <1>11, <3>1, <3>2, <3>3 DEF Pending, BookingsFrom
  <2>2. CASE s # r  BY <1>1, <1>5, <2>2 DEF Pending, BookingsFrom, OfferInv, Everyone
  <2> QED BY <2>1, <2>2
<1> QED BY <1>2, <1>3, <1>12 DEF OfferInv

\* What a request of the office knows when it writes.
LEMMA OfficeFacts ==
  ASSUME OfferInv, NEW r \in Everyone, request[r] # NoOffer, request[r].op # "answer"
  PROVE  LET q == request[r] IN
         /\ r \in Office /\ q.kind \in Kinds
         /\ doc[q.kind].status \in Since(q.kind, q.seen.status)
         /\ doc[q.kind].status \in StatusOf(q.kind)
         /\ doc[q.kind].price = q.seen.price
         /\ q.op = "update" => doc[q.kind].status = "DRAFT"
         /\ q.op = "updateStatus" =>
               /\ q.new \in Transitions(q.kind, q.seen.status)
               /\ q.new = "CONVERTED" =>
                     q.kind = "estimate" /\ doc[q.kind].status = "APPROVED"
         /\ q.op = "publish" /\ q.seen.status = "DRAFT" => doc[q.kind].status = "DRAFT"
         /\ q.op = "convertToBooking" => doc[q.kind].status = Answer(q.kind, TRUE)
         /\ q.op \in {"update", "updateStatus", "delete", "convertToBooking"} =>
               BookingsFrom(q.kind) = {}
<1> DEFINE q == request[r]
<1>1. /\ RequestShape(r, q) /\ q.kind \in Kinds /\ q.seen.status \in StatusOf(q.kind)
  BY RequestFacts DEF OfferInv, RequestShape
<1>2. r \in Office  BY <1>1 DEF RequestShape, Everyone
<1>3. Pending(r)  BY <1>2 DEF OfferInv
<1>4. doc[q.kind].status \in StatusOf(q.kind)
  BY <1>1, <1>3, SinceFacts DEF Pending, OfferInv, Shapes, DocumentShape
<1>5. q.op = "updateStatus" /\ q.new = "CONVERTED" =>
         q.kind = "estimate" /\ q.seen.status = "APPROVED"
  BY <1>1 DEF RequestShape, Transitions, QuoteTransitions, EstimateTransitions, Kinds
<1>6. \A s \in {"DRAFT", "APPROVED", "ACCEPTED"} : Since(q.kind, s) = {s}  BY DEF Since
<1>7. q.op = "convertToBooking" => q.seen.status \in {"APPROVED", "ACCEPTED"}
  BY <1>3 DEF Pending, Answer, QuoteAnswer, EstimateAnswer
<1> QED BY <1>1, <1>2, <1>3, <1>4, <1>5, <1>6, <1>7 DEF Pending, RequestShape

LEMMA HandlesKeepsOfferInv ==
  ASSUME OfferInv, OneAtATime, NEW r \in Everyone, NEW kind \in Kinds, Handles(r, kind)
  PROVE  OfferInv'
<1>1. Shapes'  BY HandlesShape DEF OfferInv
<1>2. /\ offerOps' = offerOps /\ bookings' = bookings
  BY DEF Handles, Update, UpdateStatus, Publish, PublicAction, Delete
<1>3. DocumentShape(kind, doc[kind]) /\ Shapes /\ BookingsAreRight
      /\ agreed \in [Kinds -> Prices \cup {0}]
  BY DEF OfferInv, Shapes
<1>4. ASSUME NEW op, NEW d, Exists(kind) => DocumentShape(kind, d), Write(r, op, kind, d)
      PROVE  /\ doc'[kind] = IF Exists(kind) THEN d ELSE doc[kind]
             /\ \A k \in Kinds \ {kind} : doc'[k] = doc[k]
             /\ request'[r] = NoOffer
             /\ \A s \in Everyone \ {r} : request'[s] = request[s]
             /\ request[r] # NoOffer /\ request[r].op = op /\ request[r].kind = kind
  BY <1>2, <1>4, WriteShape DEF OfferInv
<1>5. ASSUME Exists(kind)
      PROVE  /\ DocumentShape(kind, doc[kind]) /\ doc[kind].status \in StatusOf(kind)
             /\ doc[kind].price \in Prices /\ doc[kind].link \in Nat /\ doc[kind].valid \in BOOLEAN
  BY <1>3, <1>5 DEF DocumentShape, Document, Exists
\* A handler of the office: the document was not booked, or stays as it was.
<1>6. ASSUME NEW op, op # "answer", NEW d, Write(r, op, kind, d), DocumentShape(kind, d),
             \A k \in Kinds \ {kind} : agreed'[k] = agreed[k],
             \/ /\ BookingsFrom(kind) = {}
                /\ d.status \in {Answer(kind, TRUE), BookedAs(kind)} => agreed'[kind] = d.price
             \/ d.status = doc[kind].status /\ d.price = doc[kind].price /\ agreed'[kind] = agreed[kind]
      PROVE  OfferInv'
  <2>1. /\ request[r] # NoOffer /\ request[r].op = op /\ request[r].kind = kind
        /\ request'[r] = NoOffer
        /\ \A k \in Kinds \ {kind} : doc'[k] = doc[k]
        /\ doc'[kind] = IF Exists(kind) THEN d ELSE doc[kind]
    BY <1>4, <1>6
  <2>2. r \in Office /\ doc'[kind] = d  BY <1>6, <2>1, OfficeFacts DEF Exists
  <2>3. BookingsAreRight'  BY <1>2, <1>3, <1>6, <2>1, <2>2, DocumentMoves
  <2> QED BY <1>1, <2>1, <2>2, <2>3, NonePending DEF OfferInv
<1>7. ASSUME NEW op, op # "answer", NEW d, Write(r, op, kind, d)
      PROVE  /\ Exists(kind) /\ request[r] # NoOffer /\ request[r].op = op /\ request[r].kind = kind
  BY <1>7, OfficeFacts DEF Write, Exists
<1>8. CASE Update(r, kind)
  <2>1. PICK p \in Prices, valid \in BOOLEAN :
          Write(r, "update", kind, [doc[kind] EXCEPT !.price = p, !.valid = valid])
    BY <1>8 DEF Update
  <2> DEFINE d == [doc[kind] EXCEPT !.price = p, !.valid = valid]
  <2>2. /\ Exists(kind) /\ request[r] # NoOffer /\ request[r].op = "update" /\ request[r].kind = kind
    BY <1>7, <2>1
  <2>3. doc[kind].status = "DRAFT" /\ BookingsFrom(kind) = {}  BY <2>2, OfficeFacts
  <2>4. DocumentShape(kind, d) /\ d.status = "DRAFT"
    <3>1. DocumentShape(kind, doc[kind]) /\ doc[kind].status \in StatusOf(kind)  BY <1>5, <2>2
    <3> QED BY <2>3, <3>1 DEF DocumentShape, Document
  <2>5. d.status \notin {Answer(kind, TRUE), BookedAs(kind)} /\ agreed' = agreed
    BY <1>8, <2>4 DEF Update, Answer, QuoteAnswer, EstimateAnswer, BookedAs
  <2> QED BY <1>6, <2>1, <2>3, <2>4, <2>5
<1>9. CASE UpdateStatus(r, kind)
  <2> DEFINE d == [doc[kind] EXCEPT !.status = request[r].new]
  <2>1. Write(r, "updateStatus", kind, d)  BY <1>9 DEF UpdateStatus
  <2>2. /\ Exists(kind) /\ request[r] # NoOffer /\ request[r].op = "updateStatus"
        /\ request[r].kind = kind
    BY <1>7, <2>1
  <2>3. /\ BookingsFrom(kind) = {} /\ request[r].new \in StatusOf(kind)
        /\ request[r].new = "CONVERTED" => kind = "estimate" /\ doc[kind].status = "APPROVED"
    BY <1>3, <2>2, OfficeFacts, RequestFacts
  <2>4. DocumentShape(kind, d) /\ d.status = request[r].new /\ d.price = doc[kind].price
    BY <1>5, <2>2, <2>3, StatusEdit
  <2>5. agreed' = IF request[r].new = Answer(kind, TRUE)
                  THEN [agreed EXCEPT ![kind] = doc[kind].price] ELSE agreed
    BY <1>9, <2>2 DEF UpdateStatus, Accept
  <2>6. d.status \in {Answer(kind, TRUE), BookedAs(kind)} => agreed'[kind] = d.price
    <3>1. CASE request[r].new = Answer(kind, TRUE)  BY <1>3, <2>4, <2>5, <3>1
    <3>2. CASE request[r].new = BookedAs(kind) /\ request[r].new # Answer(kind, TRUE)
      <4>1. request[r].new = "CONVERTED"  BY <3>2 DEF BookedAs, Answer, QuoteAnswer
      <4>2. doc[kind].status = Answer(kind, TRUE)  BY <2>3, <4>1 DEF Answer, EstimateAnswer
      <4> QED BY <1>3, <2>4, <2>5, <3>2, <4>2 DEF BookingsAreRight, AsAgreed
    <3> QED BY <2>4, <3>1, <3>2
  <2>7. \A k \in Kinds \ {kind} : agreed'[k] = agreed[k]  BY <1>3, <2>5
  <2> HIDE DEF d
  <2> QED BY <1>6, <2>1, <2>3, <2>4, <2>6, <2>7
<1>10. CASE Publish(r, kind)
  <2> DEFINE link == IF NewLink(request[r].seen) THEN doc[kind].link + 1 ELSE doc[kind].link
             status == IF request[r].seen.status = "DRAFT" THEN "SENT" ELSE doc[kind].status
             d == [doc[kind] EXCEPT !.link = link, !.status = status]
  <2>1. Write(r, "publish", kind, d)  BY <1>10 DEF Publish
  <2>2. /\ Exists(kind) /\ request[r] # NoOffer /\ request[r].op = "publish" /\ request[r].kind = kind
    BY <1>7, <2>1
  <2>3. request[r].seen.status = "DRAFT" => doc[kind].status = "DRAFT"  BY <2>2, OfficeFacts
  <2>4. link \in Nat /\ status \in StatusOf(kind)
    <3>1. link \in {doc[kind].link + 1, doc[kind].link} /\ status \in {"SENT", doc[kind].status}
      OBVIOUS
    <3>2. doc[kind].link + 1 \in Nat /\ doc[kind].link \in Nat  BY <1>5, <2>2
    <3> QED BY <1>5, <2>2, <3>1, <3>2, StatusFacts
  <2> HIDE DEF link, status
  <2>5. DocumentShape(kind, d) /\ d.status = status /\ d.price = doc[kind].price
    <3>1. DocumentShape(kind, doc[kind]) /\ doc[kind].status \in StatusOf(kind)  BY <1>5, <2>2
    <3> QED BY <2>4, <3>1, StatusFacts DEF DocumentShape, Document
  <2>6. agreed' = agreed  BY <1>10 DEF Publish
  <2> HIDE DEF d
  <2>7. CASE request[r].seen.status = "DRAFT"
    <3>1. doc[kind].status = "DRAFT" /\ d.status = "SENT"  BY <2>3, <2>5, <2>7 DEF status
    <3>2. BookingsFrom(kind) = {}  BY <1>3, <3>1, NoBookings DEF BookedAs, BookingsAreRight
    <3>3. d.status \notin {Answer(kind, TRUE), BookedAs(kind)}
      BY <3>1 DEF Answer, QuoteAnswer, EstimateAnswer, BookedAs
    <3> QED BY <1>6, <2>1, <2>5, <2>6, <3>2, <3>3
  <2>8. CASE request[r].seen.status # "DRAFT"
    <3>1. d.status = doc[kind].status  BY <2>5, <2>8 DEF status
    <3> QED BY <1>6, <2>1, <2>5, <2>6, <3>1
  <2> QED BY <2>7, <2>8
<1>11. CASE Delete(r, kind)
  <2> DEFINE d == [doc[kind] EXCEPT !.status = "DELETED"]
  <2>1. Write(r, "delete", kind, d) /\ agreed' = agreed  BY <1>11 DEF Delete
  <2>2. /\ Exists(kind) /\ request[r] # NoOffer /\ request[r].op = "delete" /\ request[r].kind = kind
    BY <1>7, <2>1
  <2>3. BookingsFrom(kind) = {}  BY <2>2, OfficeFacts
  <2>4. DocumentShape(kind, d) /\ d.status = "DELETED"  BY <1>5, <2>2, StatusEdit
  <2>5. d.status \notin {Answer(kind, TRUE), BookedAs(kind)}
    BY <2>4 DEF Answer, QuoteAnswer, EstimateAnswer, BookedAs
  <2> HIDE DEF d
  <2> QED BY <1>6, <2>1, <2>3, <2>4, <2>5
\* A client: only what was sent is answered, and nothing sent was booked.
<1>12. CASE PublicAction(r, kind)
  <2> DEFINE status == IF StillOpen(doc[kind]) THEN request[r].new ELSE doc[kind].status
             d == [doc[kind] EXCEPT !.status = status]
  <2>1. Write(r, "answer", kind, d)  BY <1>12 DEF PublicAction
  <2>2. request[r] # NoOffer /\ request[r].op = "answer" /\ request[r].kind = kind  BY <2>1 DEF Write
  <2>3. /\ r \in Clients /\ request[r].new \in StatusOf(kind)
        /\ request[r].new \in {Answer(kind, TRUE), Answer(kind, FALSE)}
    BY <1>3, <2>2, RequestFacts DEF RequestShape
  <2>4. ASSUME Exists(kind)
        PROVE  DocumentShape(kind, d) /\ d.status = status /\ d.price = doc[kind].price
    <3>1. status \in StatusOf(kind)  BY <1>5, <2>3, <2>4
    <3> HIDE DEF status
    <3> QED BY <1>5, <2>4, <3>1, StatusEdit
  <2> HIDE DEF d
  <2>5. /\ doc'[kind] = IF Exists(kind) THEN d ELSE doc[kind]
        /\ \A k \in Kinds \ {kind} : doc'[k] = doc[k]
        /\ \A s \in Everyone \ {r} : request'[s] = request[s]
    BY <1>4, <2>1, <2>4
  <2>6. CASE StillOpen(doc[kind])
    <3>1. doc[kind].status = "SENT" /\ Exists(kind)  BY <2>6, StatusFacts DEF StillOpen, Exists
    <3>2. doc'[kind].status = request[r].new /\ doc'[kind].price = doc[kind].price
      BY <2>4, <2>5, <2>6, <3>1
    <3>3. agreed' = IF request[r].new = Answer(kind, TRUE)
                    THEN [agreed EXCEPT ![kind] = doc[kind].price] ELSE agreed
      BY <1>12, <2>6, <3>1 DEF PublicAction, Accept
    <3>4. BookingsFrom(kind) = {}  BY <1>3, <3>1, NoBookings DEF BookedAs, BookingsAreRight
    <3>5. request[r].new # Answer(kind, TRUE) => request[r].new # BookedAs(kind)
      BY <2>3 DEF Answer, QuoteAnswer, EstimateAnswer, BookedAs
    <3>6. BookingsAreRight'  BY <1>2, <1>3, <2>5, <3>2, <3>3, <3>4, <3>5, DocumentMoves
    <3>7. \A s \in Office : Pending(s)'
      <4>1. \A s \in Office : s \in Everyone /\ s # r  BY <2>3, OffersAssumption DEF Everyone
      <4>2. request[r].new \in Since(kind, "SENT")  BY <2>3 DEF Since
      <4> QED BY <1>2, <1>3, <2>5, <3>1, <3>2, <4>1, <4>2, PendingKept DEF OfferInv
    <3> QED BY <1>1, <3>6, <3>7 DEF OfferInv
  <2>7. CASE ~StillOpen(doc[kind])
    <3>1. agreed' = agreed  BY <1>12, <2>7 DEF PublicAction
    <3>2. doc'[kind].status = doc[kind].status /\ doc'[kind].price = doc[kind].price
      BY <2>4, <2>5, <2>7
    <3>3. BookingsAreRight'  BY <1>2, <1>3, <2>5, <3>1, <3>2, DocumentMoves
    <3>4. \A s \in Office : Pending(s)'
      <4>1. \A s \in Office : s \in Everyone /\ s # r  BY <2>3, OffersAssumption DEF Everyone
      <4> QED BY <1>2, <1>3, <2>5, <3>2, <4>1, PendingKept DEF OfferInv
    <3> QED BY <1>1, <3>3, <3>4 DEF OfferInv
  <2> QED BY <2>6, <2>7
<1> QED BY <1>8, <1>9, <1>10, <1>11, <1>12 DEF Handles

LEMMA ConvertsKeepsOfferInv ==
  ASSUME OfferInv, OneAtATime, NEW r \in Everyone,
         \/ ConvertQuoteToBooking(r) \/ ConvertEstimateToBooking(r)
         \/ ConvertEstimateToQuote(r) \/ ConvertQuoteToJob(r)
  PROVE  OfferInv'
<1>1. Shapes'  BY ConvertsShape DEF OfferInv
<1>2. offerOps' = offerOps /\ agreed' = agreed
  BY DEF ConvertQuoteToBooking, ConvertEstimateToBooking, ConvertEstimateToQuote, ConvertQuoteToJob
<1>3. /\ "quote" \in Kinds /\ "estimate" \in Kinds /\ Shapes /\ BookingsAreRight
      /\ \A k \in Kinds : DocumentShape(k, doc[k])
  BY DEF OfferInv, Shapes, Kinds
\* The office is done; nothing else was waiting.
<1>4. ASSUME NEW op, op # "answer", request[r] # NoOffer, request[r].op = op, FinishOffer(r),
             BookingsAreRight'
      PROVE  OfferInv'
  <2>1. request'[r] = NoOffer  BY <1>2, <1>3, <1>4, FinishShape
  <2>2. r \in Office  BY <1>4, OfficeFacts
  <2> QED BY <1>1, <1>4, <2>1, <2>2, NonePending DEF OfferInv
\* A booking of a document whose accepted price is the one that was read.
<1>5. ASSUME NEW kind \in Kinds, NEW d, Write(r, "convertToBooking", kind, d), Book(r, kind),
             d.status = BookedAs(kind), d.price = doc[kind].price, DocumentShape(kind, d)
      PROVE  OfferInv'
  <2> DEFINE b == [from |-> kind, price |-> request[r].seen.price,
                   number |-> Cardinality(bookings) + 1]
  <2>1. /\ request[r] # NoOffer /\ request[r].op = "convertToBooking" /\ request[r].kind = kind
        /\ FinishOffer(r)
    BY <1>5 DEF Write
  <2>2. /\ BookingsFrom(kind) = {} /\ doc[kind].price = request[r].seen.price /\ Exists(kind)
        /\ doc[kind].status = Answer(kind, TRUE)
    BY <2>1, OfficeFacts DEF OfferInv, Exists
  <2>3. b.from = kind /\ b.price = doc[kind].price  BY <2>2
  <2>4. bookings' = bookings \cup {b}  BY <1>5, <2>2 DEF Book
  <2> HIDE DEF b
  <2>5. agreed[kind] = doc[kind].price  BY <1>3, <2>2 DEF BookingsAreRight, AsAgreed
  <2>6. doc'[kind] = d /\ \A k \in Kinds \ {kind} : doc'[k] = doc[k]
    BY <1>2, <1>3, <1>5, <2>2, WriteShape
  <2>7. \A c \in bookings : c.from # kind /\ c.from \in Kinds  BY <1>3, <2>2 DEF BookingsFrom, Shapes
  <2>8. StaysBooked'  BY <1>3, <1>5, <2>3, <2>4, <2>6, <2>7 DEF BookingsAreRight, StaysBooked
  <2>9. BookedOnce'  BY <1>3, <2>3, <2>4, <2>7 DEF BookingsAreRight, BookedOnce
  <2>10. AsAgreed'  BY <1>2, <1>3, <1>5, <2>5, <2>6 DEF BookingsAreRight, AsAgreed
  <2>11. BookedAtThatPrice'  BY <1>2, <1>3, <2>3, <2>4, <2>5 DEF BookingsAreRight, BookedAtThatPrice
  <2>12. BookingsAreRight'  BY <2>8, <2>9, <2>10, <2>11 DEF BookingsAreRight
  <2> QED BY <1>4, <2>1, <2>12
<1>6. CASE ConvertQuoteToBooking(r)
  <2>1. Write(r, "convertToBooking", "quote", doc["quote"]) /\ Book(r, "quote")
    BY <1>6 DEF ConvertQuoteToBooking
  <2>2. request[r] # NoOffer /\ request[r].op = "convertToBooking" /\ request[r].kind = "quote"
    BY <2>1 DEF Write
  <2>3. doc["quote"].status = BookedAs("quote")  BY <2>2, OfficeFacts DEF Answer, QuoteAnswer, BookedAs
  <2> QED BY <1>3, <1>5, <2>1, <2>3
<1>7. CASE ConvertEstimateToBooking(r)
  <2> DEFINE d == [doc["estimate"] EXCEPT !.status = "CONVERTED"]
  <2>1. Write(r, "convertToBooking", "estimate", d) /\ Book(r, "estimate")
    BY <1>7 DEF ConvertEstimateToBooking
  <2>2. request[r] # NoOffer /\ request[r].op = "convertToBooking" /\ request[r].kind = "estimate"
    BY <2>1 DEF Write
  <2>3. doc["estimate"].status \in StatusOf("estimate") /\ "CONVERTED" \in StatusOf("estimate")
    BY <2>2, OfficeFacts DEF StatusOf, EstimateStatus
  <2>4. DocumentShape("estimate", d) /\ d.status = "CONVERTED" /\ d.price = doc["estimate"].price
    BY <1>3, <2>3, StatusEdit
  <2> HIDE DEF d
  <2> QED BY <1>3, <1>5, <2>1, <2>4 DEF BookedAs
<1>8. CASE ConvertEstimateToQuote(r)
  <2> DEFINE d == [status |-> "DRAFT", price |-> request[r].seen.price, link |-> 0, valid |-> TRUE]
  <2>1. /\ request[r] # NoOffer /\ request[r].op = "convertToQuote" /\ FinishOffer(r)
        /\ doc["quote"] = Absent \/ ~Exists("estimate")
        /\ doc' = IF Exists("estimate") THEN [doc EXCEPT !["quote"] = d] ELSE doc
        /\ bookings' = bookings
    BY <1>8 DEF ConvertEstimateToQuote
  <2>2. BookingsAreRight'
    <3>1. CASE Exists("estimate")
      <4>1. doc["quote"].status = "NONE" /\ d.status = "DRAFT"  BY <2>1, <3>1 DEF Absent
      <4> HIDE DEF d
      <4>2. BookingsFrom("quote") = {}  BY <1>3, <4>1, NoBookings DEF BookedAs, BookingsAreRight
      <4>3. doc'["quote"] = d /\ \A k \in Kinds \ {"quote"} : doc'[k] = doc[k]
        BY <1>3, <2>1, <3>1 DEF Shapes
      <4>4. doc'["quote"].status \notin {Answer("quote", TRUE), BookedAs("quote")}
        BY <4>1, <4>3 DEF Answer, QuoteAnswer, BookedAs
      <4> QED BY <1>2, <1>3, <2>1, <4>2, <4>3, <4>4, DocumentMoves
    <3>2. CASE ~Exists("estimate")  BY <1>2, <1>3, <2>1, <3>2, DocumentMoves
    <3> QED BY <3>1, <3>2
  <2> QED BY <1>4, <2>1, <2>2
<1>9. CASE ConvertQuoteToJob(r)
  <2>1. Write(r, "convertToJob", "quote", doc["quote"]) /\ bookings' = bookings
    BY <1>9 DEF ConvertQuoteToJob
  <2>2. /\ request[r] # NoOffer /\ request[r].op = "convertToJob" /\ FinishOffer(r)  BY <2>1 DEF Write
  <2>3. \A k \in Kinds : doc'[k] = doc[k]  BY <1>3, <2>1 DEF Write, Shapes
  <2>4. BookingsAreRight'  BY <1>2, <1>3, <2>1, <2>3, DocumentMoves
  <2> QED BY <1>4, <2>2, <2>4
<1> QED BY <1>6, <1>7, <1>8, <1>9

LEMMA Handlers ==
  ASSUME NEW r, HandleOffer(r)
  PROVE  \/ \E k \in Kinds : ReadOffer(r, k) \/ Handles(r, k)
         \/ ConvertQuoteToBooking(r) \/ ConvertEstimateToBooking(r)
         \/ ConvertEstimateToQuote(r) \/ ConvertQuoteToJob(r)
  BY DEF HandleOffer, Handles, UpdateQuote, UpdateEstimate, UpdateQuoteStatus,
     UpdateEstimateStatus, PublishQuote, PublishEstimate, PublicQuoteAction,
     PublicEstimateAction, DeleteQuote, DeleteEstimate, Kinds

LEMMA NextOfferInv == OneAtATime /\ OfferInv /\ [OffersNext]_offerVars => OfferInv'
<1> SUFFICES ASSUME OneAtATime, OfferInv, [OffersNext]_offerVars PROVE OfferInv'
  OBVIOUS
<1>1. ASSUME NEW r \in Everyone, HandleOffer(r) PROVE OfferInv'
  BY <1>1, Handlers, ReadKeepsOfferInv, HandlesKeepsOfferInv, ConvertsKeepsOfferInv
<1>2. CASE UNCHANGED offerVars
  <2>1. Shapes'  BY <1>2, NextShapes DEF OfferInv
  <2>2. BookingsAreRight'
    BY <1>2 DEF offerVars, OfferInv, BookingsAreRight, StaysBooked, BookedOnce, AsAgreed,
       BookedAtThatPrice
  <2>3. \A r \in Office : Pending(r)'  BY <1>2 DEF offerVars, OfferInv, Pending, BookingsFrom
  <2> QED BY <2>1, <2>2, <2>3 DEF OfferInv
<1> QED BY <1>1, <1>2, CreateKeepsOfferInv, TimeKeepsOfferInv DEF OffersNext, Everyone

LEMMA OfferInvHolds ==
  ASSUME OneAtATime
  PROVE  OffersSpec => []OfferInv
<1>1. OfferInv /\ [OffersNext]_offerVars => OfferInv'  BY NextOfferInv
<1> QED BY <1>1, InitOfferInv, PTL DEF OffersSpec

\* However many clients answer and however their answers, the expiry and the
\* requests of the office interleave, as long as the office sends one request at a
\* time: an estimate or a quote is booked at most once, at the price that was
\* accepted.
THEOREM BookedOnceAtTheAgreedPrice ==
  ASSUME OneAtATime
  PROVE  OffersSpec => []BookedOnceAsAgreed
<1>1. OfferInv => BookedOnceAsAgreed
  <2> SUFFICES ASSUME OfferInv PROVE BookedOnceAsAgreed
    OBVIOUS
  <2>1. \A b \in bookings : b.price = agreed[b.from]
    BY DEF OfferInv, BookingsAreRight, BookedAtThatPrice
  <2>2. ASSUME NEW k \in Kinds PROVE Cardinality(BookingsFrom(k)) <= 1
    <3>1. CASE BookingsFrom(k) = {}  BY <3>1, FS_EmptySet
    <3>2. CASE BookingsFrom(k) # {}
      <4>1. PICK b \in bookings : BookingsFrom(k) = {b}
        <5>1. PICK b \in BookingsFrom(k) : TRUE  BY <3>2
        <5>2. \A c \in BookingsFrom(k) : c = b
          BY DEF BookingsFrom, OfferInv, BookingsAreRight, BookedOnce
        <5> QED BY <5>1, <5>2 DEF BookingsFrom
      <4> QED BY <4>1, FS_Singleton
    <3> QED BY <3>1, <3>2
  <2> QED BY <2>1, <2>2 DEF BookedOnceAsAgreed
<1> QED BY <1>1, OfferInvHolds, PTL

------------------------
(* The first answer stands *)

\* What may become of a document, the office neither deciding nor deleting.
Stands(k) ==
    doc[k].status \in Decided(k) =>
        \/ doc'[k].status = doc[k].status
        \/ doc[k].status = "APPROVED" /\ doc'[k].status = "CONVERTED"

LEMMA DecidedFacts ==
  ASSUME NEW k \in Kinds
  PROVE  {"NONE", "DRAFT", "SENT"} \cap Decided(k) = {}
  BY DEF Kinds, Decided, Answer, QuoteAnswer, EstimateAnswer

LEMMA HandlesLetsStand ==
  ASSUME OfferInv, offerOps \cap {"updateStatus", "delete"} = {}, NEW r \in Everyone,
         NEW kind \in Kinds, Handles(r, kind)
  PROVE  \A k \in Kinds : Stands(k)
<1>1. DocumentShape(kind, doc[kind]) /\ Shapes  BY DEF OfferInv, Shapes
<1>2. ASSUME NEW op, NEW d, Write(r, op, kind, d)
      PROVE  /\ request[r] # NoOffer /\ request[r].op = op /\ request[r].kind = kind
             /\ op \in offerOps
             /\ doc'[kind] \in {d, doc[kind]}
             /\ \A k \in Kinds \ {kind} : doc'[k] = doc[k]
  <2>1. /\ request[r] # NoOffer /\ request[r].op = op /\ request[r].kind = kind
        /\ doc' = IF Exists(kind) THEN [doc EXCEPT ![kind] = d] ELSE doc
    BY <1>2 DEF Write
  <2>2. op \in offerOps  BY <1>1, <2>1, RequestFacts DEF RequestShape
  <2> QED BY <1>1, <2>1, <2>2 DEF Shapes
<1>3. ASSUME NEW op, NEW d, Write(r, op, kind, d),
             d.status = doc[kind].status \/ doc[kind].status \in {"DRAFT", "SENT"}
      PROVE  \A k \in Kinds : Stands(k)
  BY <1>2, <1>3, DecidedFacts DEF Stands
<1>4. CASE Update(r, kind)
  <2>1. PICK p \in Prices, valid \in BOOLEAN :
          Write(r, "update", kind, [doc[kind] EXCEPT !.price = p, !.valid = valid])
    BY <1>4 DEF Update
  <2>2. [doc[kind] EXCEPT !.price = p, !.valid = valid].status = doc[kind].status
    BY <1>1 DEF DocumentShape, Document
  <2> QED BY <1>3, <2>1, <2>2
<1>5. CASE Publish(r, kind)
  <2> DEFINE link == IF NewLink(request[r].seen) THEN doc[kind].link + 1 ELSE doc[kind].link
             status == IF request[r].seen.status = "DRAFT" THEN "SENT" ELSE doc[kind].status
             d == [doc[kind] EXCEPT !.link = link, !.status = status]
  <2>1. Write(r, "publish", kind, d)  BY <1>5 DEF Publish
  <2>2. d.status = status
    <3>1. doc[kind] \in Document  BY <1>1 DEF DocumentShape
    <3> HIDE DEF link, status
    <3> QED BY <3>1 DEF Document
  <2>3. request[r].seen.status = "DRAFT" => doc[kind].status = "DRAFT"
    <3>1. request[r] # NoOffer /\ request[r].op = "publish" /\ request[r].kind = kind  BY <2>1 DEF Write
    <3> QED BY <3>1, OfficeFacts
  <2>4. d.status = doc[kind].status \/ doc[kind].status \in {"DRAFT", "SENT"}  BY <2>2, <2>3
  <2> HIDE DEF d
  <2> QED BY <1>3, <2>1, <2>4
<1>6. CASE PublicAction(r, kind)
  <2> DEFINE status == IF StillOpen(doc[kind]) THEN request[r].new ELSE doc[kind].status
             d == [doc[kind] EXCEPT !.status = status]
  <2>1. Write(r, "answer", kind, d)  BY <1>6 DEF PublicAction
  <2>2. d.status = status  BY <1>1 DEF DocumentShape, Document
  <2>3. d.status = doc[kind].status \/ doc[kind].status = "SENT"  BY <2>2 DEF StillOpen
  <2> HIDE DEF d
  <2> QED BY <1>3, <2>1, <2>3
<1>7. ~UpdateStatus(r, kind) /\ ~Delete(r, kind)  BY <1>2 DEF UpdateStatus, Delete
<1> QED BY <1>4, <1>5, <1>6, <1>7 DEF Handles

LEMMA ConvertsLetStand ==
  ASSUME OfferInv, NEW r \in Everyone,
         \/ ConvertQuoteToBooking(r) \/ ConvertEstimateToBooking(r)
         \/ ConvertEstimateToQuote(r) \/ ConvertQuoteToJob(r)
  PROVE  \A k \in Kinds : Stands(k)
<1>1. /\ "quote" \in Kinds /\ "estimate" \in Kinds /\ doc \in [Kinds -> Document]
      /\ \A k \in Kinds : DocumentShape(k, doc[k])
  BY DEF OfferInv, Shapes, Kinds
<1>2. CASE ConvertQuoteToBooking(r) \/ ConvertQuoteToJob(r)
  <2>1. \A k \in Kinds : doc'[k] = doc[k]
    BY <1>1, <1>2 DEF ConvertQuoteToBooking, ConvertQuoteToJob, Write
  <2> QED BY <2>1 DEF Stands
<1>3. CASE ConvertEstimateToBooking(r)
  <2> DEFINE d == [doc["estimate"] EXCEPT !.status = "CONVERTED"]
  <2>1. Write(r, "convertToBooking", "estimate", d)  BY <1>3 DEF ConvertEstimateToBooking
  <2>2. request[r] # NoOffer /\ request[r].op = "convertToBooking" /\ request[r].kind = "estimate"
    BY <2>1 DEF Write
  <2>3. doc["estimate"].status = "APPROVED"  BY <2>2, OfficeFacts DEF Answer, EstimateAnswer
  <2>4. d.status = "CONVERTED"  BY <1>1 DEF Document
  <2>5. doc'["estimate"] \in {d, doc["estimate"]} /\ \A k \in Kinds \ {"estimate"} : doc'[k] = doc[k]
    BY <1>1, <2>1 DEF Write
  <2> HIDE DEF d
  <2> QED BY <2>3, <2>4, <2>5 DEF Stands
<1>4. CASE ConvertEstimateToQuote(r)
  <2>1. /\ doc["quote"] = Absent \/ ~Exists("estimate")
        /\ doc["quote"] # Absent => doc' = doc
        /\ \A k \in Kinds \ {"quote"} : doc'[k] = doc[k]
    BY <1>1, <1>4 DEF ConvertEstimateToQuote
  <2>2. doc["quote"] = Absent => doc["quote"].status \notin Decided("quote")
    BY <1>1, DecidedFacts DEF Absent
  <2> QED BY <2>1, <2>2 DEF Stands
<1> QED BY <1>2, <1>3, <1>4

\* With an office that sends one request at a time and leaves the decision to the
\* client, the first answer stands for ever, and so does expiry: no second answer,
\* late publication, edit or conversion takes it back.
THEOREM FirstDecisionStands ==
  ASSUME OneAtATime
  PROVE  OffersSpec => DecisionStands
<1> DEFINE LeftToClient == offerOps \cap {"updateStatus", "delete"} = {}
           Claim == \A k \in Kinds : LeftToClient /\ doc[k].status \in Decided(k) =>
                       \/ doc'[k].status = doc[k].status
                       \/ doc[k].status = "APPROVED" /\ doc'[k].status = "CONVERTED"
<1>1. OfferInv /\ [OffersNext]_offerVars => [Claim]_offerVars
  <2> SUFFICES ASSUME OfferInv, OffersNext PROVE Claim
    OBVIOUS
  <2> SUFFICES ASSUME LeftToClient, NEW kind \in Kinds PROVE Stands(kind)
    BY DEF Stands
  <2>1. CASE CreateQuote \/ CreateEstimate
    <3>1. PICK k \in Kinds, p \in Prices :
            Create(k, p) /\ UNCHANGED <<bookings, jobs, agreed, request, offerOps>>
      BY <2>1 DEF CreateQuote, CreateEstimate, Kinds
    <3>2. doc[k].status = "NONE" /\ \A l \in Kinds \ {k} : doc'[l] = doc[l]
      BY <3>1, CreateShape DEF OfferInv, Absent
    <3> QED BY <3>2, DecidedFacts DEF Stands
  <2>2. CASE ExpireOnRead \/ \E k \in Kinds : Lapse(k)
    BY <2>2, TimeShape, DecidedFacts DEF Stands, OfferInv
  <2>3. ASSUME NEW r \in Everyone, NEW k \in Kinds, ReadOffer(r, k) PROVE Stands(kind)
    BY <2>3 DEF ReadOffer, Stands
  <2>4. ASSUME NEW r \in Everyone, HandleOffer(r) PROVE Stands(kind)
    BY <2>3, <2>4, Handlers, HandlesLetsStand, ConvertsLetStand
  <2> QED BY <2>1, <2>2, <2>4 DEF OffersNext, Everyone
<1>2. OffersSpec => []OfferInv  BY OfferInvHolds
<1> QED BY <1>1, <1>2, PTL DEF OffersSpec, DecisionStands

------------------------
(* Sums over finite sets *)

LEMMA LeastNatural ==
  ASSUME NEW T \in SUBSET Nat, T # {}
  PROVE  \E m \in T : \A k \in T : m <= k
<1> DEFINE R == OpToRel(<, Nat)
<1>1. \A k, m \in Nat : <<k, m>> \in R <=> k < m  BY DEF OpToRel
<1>2. IsWellFoundedOn(R, Nat)  BY NatLessThanWellFounded
<1> HIDE DEF R
<1>3. \E m \in T : \A k \in T : ~(<<k, m>> \in R)  BY <1>2, WFMin
<1>4. PICK m \in T : \A k \in T : ~(<<k, m>> \in R)  BY <1>3
<1>5. ASSUME NEW k \in T PROVE m <= k
  <2>1. k \in Nat /\ m \in Nat /\ ~(<<k, m>> \in R)  BY <1>4
  <2>2. ~(k < m)  BY <1>1, <2>1
  <2> QED BY <2>1, <2>2
<1> QED BY <1>5

Pick(s) == CHOOSE x \in s : TRUE

\* g adds up f over the subsets of X.
Adds(g, f, s) == g[s] = IF s = {} THEN 0 ELSE f[Pick(s)] + g[s \ {Pick(s)}]
IsSum(g, f, X) == g = [s \in SUBSET X |-> IF s = {} THEN 0 ELSE f[Pick(s)] + g[s \ {Pick(s)}]]

LEMMA PickIsElement == ASSUME NEW s, s # {} PROVE Pick(s) \in s
  BY DEF Pick

LEMMA SumExists ==
  ASSUME NEW X, IsFiniteSet(X), NEW f \in [X -> Int]
  PROVE  \E g \in [SUBSET X -> Int] : IsSum(g, f, X)
<1> DEFINE SumsUpTo(n) == \E g \in [SUBSET X -> Int] :
             \A s \in SUBSET X : Cardinality(s) <= n => Adds(g, f, s)
           Bad == {n \in Nat : ~SumsUpTo(n)}
<1>0. \A s \in SUBSET X : IsFiniteSet(s) /\ Cardinality(s) \in Nat  BY FS_Subset, FS_CardinalityType
<1>1. SumsUpTo(0)
  <2> DEFINE g == [s \in SUBSET X |-> 0]
  <2>1. g \in [SUBSET X -> Int]  OBVIOUS
  <2>2. \A s \in SUBSET X : Cardinality(s) <= 0 => s = {}  BY <1>0, FS_EmptySet
  <2>3. \A s \in SUBSET X : Cardinality(s) <= 0 => Adds(g, f, s)  BY <2>2 DEF Adds
  <2> QED BY <2>1, <2>3
<1>2. ASSUME NEW n \in Nat, SumsUpTo(n) PROVE SumsUpTo(n + 1)
  <2>1. PICK g \in [SUBSET X -> Int] : \A s \in SUBSET X : Cardinality(s) <= n => Adds(g, f, s)  BY <1>2
  <2> DEFINE h == [s \in SUBSET X |-> IF s = {} THEN 0 ELSE f[Pick(s)] + g[s \ {Pick(s)}]]
  <2>2. h \in [SUBSET X -> Int]
    <3>1. \A s \in SUBSET X : s # {} => f[Pick(s)] \in Int /\ g[s \ {Pick(s)}] \in Int  BY PickIsElement
    <3> QED BY <3>1
  <2>3. ASSUME NEW s \in SUBSET X, Cardinality(s) <= n + 1 PROVE Adds(h, f, s)
    <3>1. CASE s = {}  BY <3>1 DEF Adds
    <3>2. CASE s # {}
      <4> DEFINE x == Pick(s)
                 t == s \ {x}
      <4>1. x \in s  BY <3>2, PickIsElement
      <4>2. t \in SUBSET X /\ Cardinality(t) = Cardinality(s) - 1  BY <1>0, <4>1, FS_RemoveElement
      <4>3. Cardinality(t) <= n  BY <1>0, <2>3, <4>2
      <4>4. Adds(g, f, t)  BY <2>1, <4>2, <4>3
      <4>5. g[t] = h[t]  BY <4>2, <4>4 DEF Adds
      <4> QED BY <3>2, <4>5 DEF Adds
    <3> QED BY <3>1, <3>2
  <2> HIDE DEF h
  <2> QED BY <2>2, <2>3
<1> HIDE DEF SumsUpTo
<1>3. Bad = {}
  <2> SUFFICES ASSUME Bad # {} PROVE FALSE
    OBVIOUS
  <2>1. PICK m \in Bad : \A k \in Bad : m <= k
    <3>1. Bad \in SUBSET Nat  OBVIOUS
    <3> HIDE DEF Bad
    <3> QED BY <3>1, LeastNatural
  <2>2. m \in Nat /\ ~SumsUpTo(m) /\ m # 0  BY <1>1
  <2>3. m - 1 \in Nat /\ m - 1 \notin Bad  BY <2>1, <2>2
  <2>4. SumsUpTo(m - 1)  BY <2>3
  <2>5. SumsUpTo((m - 1) + 1)  BY <1>2, <2>3, <2>4
  <2>6. (m - 1) + 1 = m  BY <2>2
  <2> QED BY <2>2, <2>5, <2>6
<1>4. Cardinality(X) \in Nat /\ SumsUpTo(Cardinality(X))  BY <1>0, <1>3
<1>5. PICK g \in [SUBSET X -> Int] : \A s \in SUBSET X : Cardinality(s) <= Cardinality(X) => Adds(g, f, s)
  BY <1>4 DEF SumsUpTo
<1>6. \A s \in SUBSET X : Adds(g, f, s)  BY <1>5, FS_Subset
<1>7. g = [s \in SUBSET X |-> IF s = {} THEN 0 ELSE f[Pick(s)] + g[s \ {Pick(s)}]]  BY <1>6 DEF Adds
<1> QED BY <1>7 DEF IsSum

\* Sums of the same numbers are the same, whatever larger sets they are taken in.
LEMMA SumsAgree ==
  ASSUME NEW Y, IsFiniteSet(Y), NEW X \in SUBSET Y, NEW f, NEW e, NEW g, NEW h,
         IsSum(g, f, X), IsSum(h, e, Y), \A x \in X : f[x] = e[x]
  PROVE  \A s \in SUBSET X : g[s] = h[s]
<1> DEFINE Bad == {n \in Nat : \E s \in SUBSET X : Cardinality(s) = n /\ g[s] # h[s]}
<1>1. \A s \in SUBSET X : IsFiniteSet(s) /\ Cardinality(s) \in Nat  BY FS_Subset, FS_CardinalityType
<1>2. Bad = {}
  <2> SUFFICES ASSUME Bad # {} PROVE FALSE
    OBVIOUS
  <2>1. PICK m \in Bad : \A k \in Bad : m <= k
    <3>1. Bad \in SUBSET Nat  OBVIOUS
    <3> HIDE DEF Bad
    <3> QED BY <3>1, LeastNatural
  <2>2. PICK s \in SUBSET X : Cardinality(s) = m /\ g[s] # h[s]  BY <2>1
  <2> DEFINE x == Pick(s)
             t == s \ {x}
  <2>3. s # {}  BY <2>2 DEF IsSum
  <2>4. x \in s /\ t \in SUBSET X  BY <2>3, PickIsElement
  <2>5. Cardinality(t) = m - 1 /\ Cardinality(t) \in Nat  BY <1>1, <2>2, <2>4, FS_RemoveElement
  <2>6. g[t] = h[t]
    <3>1. m \in Nat /\ ~(m <= m - 1)  BY <1>1, <2>2
    <3>2. m - 1 \notin Bad  BY <2>1, <3>1
    <3> QED BY <2>4, <2>5, <3>2
  <2>7. g[s] = f[x] + g[t] /\ h[s] = e[x] + h[t]  BY <2>3 DEF IsSum
  <2>8. f[x] = e[x]  BY <2>4
  <2> QED BY <2>2, <2>6, <2>7, <2>8
<1> QED BY <1>1, <1>2

\* Any element may be added last.
LastAdds(g, f, s, q) == g[s] = f[q] + g[s \ {q}]

LEMMA SumOfOneMore ==
  ASSUME NEW X, IsFiniteSet(X), NEW f, f \in [X -> Int], NEW g, g \in [SUBSET X -> Int],
         IsSum(g, f, X), NEW S \in SUBSET X, NEW q \in S
  PROVE  LastAdds(g, f, S, q)
<1> DEFINE Commutes(s) == \A p \in s : g[s] = f[p] + g[s \ {p}]
           Bad == {n \in Nat : \E s \in SUBSET X : Cardinality(s) = n /\ ~Commutes(s)}
<1>1. \A s \in SUBSET X : IsFiniteSet(s) /\ Cardinality(s) \in Nat  BY FS_Subset, FS_CardinalityType
<1>2. Bad = {}
  <2> SUFFICES ASSUME Bad # {} PROVE FALSE
    OBVIOUS
  <2>1. PICK m \in Bad : \A k \in Bad : m <= k
    <3>1. Bad \in SUBSET Nat  OBVIOUS
    <3> HIDE DEF Bad
    <3> QED BY <3>1, LeastNatural
  <2>2. PICK s \in SUBSET X : Cardinality(s) = m /\ ~Commutes(s)  BY <2>1
  <2>3. PICK p \in s : g[s] # f[p] + g[s \ {p}]  BY <2>2
  <2> DEFINE x == Pick(s)
             t == s \ {x}
             u == s \ {p}
  <2>4. x \in s /\ t \in SUBSET X /\ u \in SUBSET X /\ s # {}  BY <2>3, PickIsElement
  <2>5. g[s] = f[x] + g[t]  BY <2>4 DEF IsSum
  <2>6. x # p  BY <2>3, <2>5
  <2>7. Cardinality(t) = m - 1 /\ Cardinality(u) = m - 1 /\ m \in Nat /\ m - 1 \in Nat
    <3>1. IsFiniteSet(s) /\ m \in Nat  BY <1>1, <2>2
    <3>2. Cardinality(t) = m - 1  BY <2>2, <2>4, <3>1, FS_RemoveElement
    <3>3. Cardinality(u) = m - 1  BY <2>2, <2>3, <3>1, FS_RemoveElement
    <3>4. Cardinality(u) \in Nat  BY <1>1, <2>4
    <3> QED BY <3>1, <3>2, <3>3, <3>4
  <2>8. Commutes(t) /\ Commutes(u)
    <3>1. m - 1 \notin Bad
      <4>1. ~(m <= m - 1)  BY <2>7
      <4> QED BY <2>1, <4>1
    <3> HIDE DEF Commutes
    <3> QED BY <2>4, <2>7, <3>1
  <2>9. g[t] = f[p] + g[t \ {p}] /\ g[u] = f[x] + g[u \ {x}]  BY <2>3, <2>4, <2>6, <2>8
  <2>10. t \ {p} = u \ {x} /\ t \ {p} \in SUBSET X  BY <2>4
  <2>11. f[x] \in Int /\ f[p] \in Int /\ g[t \ {p}] \in Int  BY <2>3, <2>4, <2>10
  <2>12. g[s] = f[x] + (f[p] + g[t \ {p}]) /\ g[u] = f[x] + g[t \ {p}]  BY <2>5, <2>9, <2>10
  <2>13. \A a, b, c \in Int : a + (b + c) = b + (a + c)  OBVIOUS
  <2>14. g[s] = f[p] + g[u]  BY <2>11, <2>12, <2>13
  <2> QED BY <2>3, <2>14
<1> HIDE DEF Commutes
<1>3. Commutes(S)  BY <1>1, <1>2
<1> QED BY <1>3 DEF Commutes, LastAdds

------------------------
(* PaidSum *)

RowsOf(pay) == {p \in Payments : pay[p] # NoRow}

PaidOf(pay) == {p \in RowsOf(pay) : pay[p].linked /\ pay[p].status = "PAID"}

AmountsOf(pay) == [p \in PaidOf(pay) |-> pay[p].amount]

TotalOf(pay) == MapThenSumSet(LAMBDA p : pay[p].amount, PaidOf(pay))

LEMMA PaidSumIsTotal == PaidSum = TotalOf(payment)
  BY DEF PaidSum, TotalOf, PaidOf, RowsOf, Rows, MapThenSumSet, MapThenFoldSet

LEMMA PaidSumIsTotalAfterwards == PaidSum' = TotalOf(payment')
  BY DEF PaidSum, TotalOf, PaidOf, RowsOf, Rows, MapThenSumSet, MapThenFoldSet

LEMMA AmountsAreNumbers == \A a \in Amounts : a \in Int /\ a > 0
<1>1. Amounts \subseteq Nat \ {0}  BY BillingAssumption
<1> QED BY <1>1

LEMMA PaidRowsAreFinite ==
  ASSUME NEW pay \in [Payments -> PaymentRow \cup {NoRow}]
  PROVE  /\ IsFiniteSet(PaidOf(pay))
         /\ AmountsOf(pay) \in [PaidOf(pay) -> Int]
<1>1. PaidOf(pay) \in SUBSET Payments  BY DEF PaidOf, RowsOf
<1>2. IsFiniteSet(PaidOf(pay))  BY <1>1, BillingAssumption, FS_Subset
<1>3. ASSUME NEW p \in PaidOf(pay) PROVE pay[p].amount \in Int
  <2>1. pay[p] \in PaymentRow  BY DEF PaidOf, RowsOf
  <2>2. pay[p].amount \in Amounts  BY <2>1 DEF PaymentRow
  <2> QED BY <2>2, AmountsAreNumbers
<1> QED BY <1>2, <1>3 DEF AmountsOf

\* What the fold computes is the sum of the amounts.
LEMMA TotalIsTheSum ==
  ASSUME NEW pay \in [Payments -> PaymentRow \cup {NoRow}],
         NEW g, IsSum(g, AmountsOf(pay), PaidOf(pay))
  PROVE  TotalOf(pay) = g[PaidOf(pay)]
<1> DEFINE IsFold(i) == i = [s \in SUBSET PaidOf(pay) |->
                               IF s = {} THEN 0 ELSE pay[Pick(s)].amount + i[s \ {Pick(s)}]]
<1>1. \A i : IsFold(i) <=> IsSum(i, AmountsOf(pay), PaidOf(pay))
  <2>1. \A s \in SUBSET PaidOf(pay) : s # {} => pay[Pick(s)].amount = AmountsOf(pay)[Pick(s)]
    BY PickIsElement DEF AmountsOf
  <2> QED BY <2>1 DEF IsSum
<1>2. \E i : IsFold(i)  BY <1>1
<1>3. \E i : IsFold(i) /\ TotalOf(pay) = i[PaidOf(pay)]
  BY <1>2 DEF TotalOf, MapThenSumSet, MapThenFoldSet, Pick
<1>4. PICK i : IsFold(i) /\ TotalOf(pay) = i[PaidOf(pay)]  BY <1>3
<1>5. IsSum(i, AmountsOf(pay), PaidOf(pay))  BY <1>1, <1>4
<1> HIDE DEF IsFold
<1>6. \A s \in SUBSET PaidOf(pay) : i[s] = g[s]  BY <1>5, SumsAgree, PaidRowsAreFinite
<1> QED BY <1>4, <1>6

LEMMA TotalExists ==
  ASSUME NEW pay \in [Payments -> PaymentRow \cup {NoRow}]
  PROVE  \E g \in [SUBSET PaidOf(pay) -> Int] :
            IsSum(g, AmountsOf(pay), PaidOf(pay)) /\ TotalOf(pay) = g[PaidOf(pay)]
<1>1. PICK g \in [SUBSET PaidOf(pay) -> Int] : IsSum(g, AmountsOf(pay), PaidOf(pay))
  BY PaidRowsAreFinite, SumExists
<1>2. TotalOf(pay) = g[PaidOf(pay)]  BY <1>1, TotalIsTheSum
<1> QED BY <1>1, <1>2

LEMMA TotalIsNumber ==
  ASSUME NEW pay \in [Payments -> PaymentRow \cup {NoRow}]
  PROVE  TotalOf(pay) \in Int
<1>1. PICK g \in [SUBSET PaidOf(pay) -> Int] : TotalOf(pay) = g[PaidOf(pay)]  BY TotalExists
<1> QED BY <1>1

LEMMA NothingPaidIsNothing ==
  ASSUME NEW pay \in [Payments -> PaymentRow \cup {NoRow}], RowsOf(pay) = {}
  PROVE  TotalOf(pay) = 0
<1>1. PICK g : IsSum(g, AmountsOf(pay), PaidOf(pay)) /\ TotalOf(pay) = g[PaidOf(pay)]  BY TotalExists
<1>2. PaidOf(pay) = {}  BY DEF PaidOf
<1>3. g[PaidOf(pay)] = 0  BY <1>1, <1>2 DEF IsSum
<1> QED BY <1>1, <1>3

LEMMA TotalOfOneMore ==
  ASSUME NEW pay \in [Payments -> PaymentRow \cup {NoRow}],
         NEW after \in [Payments -> PaymentRow \cup {NoRow}],
         NEW p, p \notin PaidOf(pay), PaidOf(after) = PaidOf(pay) \cup {p},
         \A q \in PaidOf(pay) : pay[q].amount = after[q].amount
  PROVE  TotalOf(after) = TotalOf(pay) + after[p].amount
<1>1. PICK g \in [SUBSET PaidOf(pay) -> Int] :
          IsSum(g, AmountsOf(pay), PaidOf(pay)) /\ TotalOf(pay) = g[PaidOf(pay)]
  BY TotalExists
<1>2. PICK h \in [SUBSET PaidOf(after) -> Int] :
          IsSum(h, AmountsOf(after), PaidOf(after)) /\ TotalOf(after) = h[PaidOf(after)]
  BY TotalExists
<1> DEFINE X == PaidOf(pay)
           Y == PaidOf(after)
           f == AmountsOf(pay)
           e == AmountsOf(after)
<1>3. IsFiniteSet(Y) /\ e \in [Y -> Int] /\ e[p] = after[p].amount  BY PaidRowsAreFinite DEF AmountsOf
<1>4. X \in SUBSET Y /\ Y \in SUBSET Y /\ p \in Y /\ Y \ {p} = X  OBVIOUS
<1>5. \A q \in X : f[q] = e[q]  BY DEF AmountsOf
<1>6. IsSum(g, f, X) /\ IsSum(h, e, Y) /\ g \in [SUBSET X -> Int] /\ h \in [SUBSET Y -> Int]
  BY <1>1, <1>2
<1>7. TotalOf(pay) = g[X] /\ TotalOf(after) = h[Y]  BY <1>1, <1>2
<1> HIDE DEF X, Y, f, e
<1>8. \A s \in SUBSET X : g[s] = h[s]  BY <1>3, <1>4, <1>5, <1>6, SumsAgree
<1>9. h[Y] = e[p] + h[Y \ {p}]
  <2>1. /\ IsFiniteSet(Y) /\ e \in [Y -> Int] /\ h \in [SUBSET Y -> Int] /\ IsSum(h, e, Y)
        /\ Y \in SUBSET Y /\ p \in Y
    BY <1>3, <1>4, <1>6
  <2>2. LastAdds(h, e, Y, p)  BY <2>1, SumOfOneMore
  <2> QED BY <2>2 DEF LastAdds
<1>10. h[Y] = e[p] + g[X] /\ e[p] \in Int /\ g[X] \in Int
  <2>1. X \in SUBSET X  OBVIOUS
  <2>2. h[X] = g[X] /\ g[X] \in Int  BY <1>6, <1>8, <2>1
  <2>3. e[p] \in Int  BY <1>3, <1>4
  <2> QED BY <1>4, <1>9, <2>2, <2>3
<1>11. \A a, b \in Int : a + b = b + a  OBVIOUS
<1> QED BY <1>3, <1>7, <1>10, <1>11

LEMMA TotalOfTheSame ==
  ASSUME NEW pay \in [Payments -> PaymentRow \cup {NoRow}],
         NEW after \in [Payments -> PaymentRow \cup {NoRow}],
         PaidOf(after) = PaidOf(pay),
         \A q \in PaidOf(pay) : pay[q].amount = after[q].amount
  PROVE  TotalOf(after) = TotalOf(pay)
<1>1. AmountsOf(after) = AmountsOf(pay)  BY DEF AmountsOf
<1>2. PICK g \in [SUBSET PaidOf(pay) -> Int] :
          IsSum(g, AmountsOf(pay), PaidOf(pay)) /\ TotalOf(pay) = g[PaidOf(pay)]
  BY TotalExists
<1>3. TotalOf(after) = g[PaidOf(after)]  BY <1>1, <1>2, TotalIsTheSum
<1> QED BY <1>2, <1>3

\* A linked payment that is new adds its amount if it is PAID, and nothing else.
AddsUp(pay, after, row) ==
    /\ row.status = "PAID" => TotalOf(after) = TotalOf(pay) + row.amount
    /\ row.status # "PAID" => TotalOf(after) = TotalOf(pay)

LEMMA TotalAfterAdding ==
  ASSUME NEW pay \in [Payments -> PaymentRow \cup {NoRow}],
         NEW p \in Payments, pay[p] = NoRow,
         NEW row \in PaymentRow, row.linked = TRUE,
         NEW after, after = [pay EXCEPT ![p] = row]
  PROVE  AddsUp(pay, after, row)
<1>1. after \in [Payments -> PaymentRow \cup {NoRow}] /\ after[p] = row /\ row # NoRow
  BY NoRowAssumption
<1>2. \A q \in Payments \ {p} : after[q] = pay[q]  OBVIOUS
<1>3. p \notin PaidOf(pay)  BY DEF PaidOf, RowsOf
<1>4. \A q \in PaidOf(pay) : pay[q].amount = after[q].amount  BY <1>2, <1>3 DEF PaidOf, RowsOf
<1>5. CASE row.status = "PAID"
  <2>1. PaidOf(after) = PaidOf(pay) \cup {p}  BY <1>1, <1>2, <1>3, <1>5 DEF PaidOf, RowsOf
  <2>2. TotalOf(after) = TotalOf(pay) + after[p].amount  BY <1>1, <1>3, <1>4, <2>1, TotalOfOneMore
  <2> QED BY <1>1, <1>5, <2>2, Zenon DEF AddsUp
<1>6. CASE row.status # "PAID"
  <2>1. PaidOf(after) = PaidOf(pay)  BY <1>1, <1>2, <1>3, <1>6 DEF PaidOf, RowsOf
  <2>2. TotalOf(after) = TotalOf(pay)  BY <1>1, <1>4, <2>1, TotalOfTheSame
  <2> QED BY <1>6, <2>2, Zenon DEF AddsUp
<1> QED BY <1>5, <1>6

------------------------
(* The ledger, whatever the handlers in use *)

CallRecord ==
    [op : TwoStep \cup {"none"}, at : {"idle", "read", "inserted", "summed"},
     target : Payments \cup {NoPayment}, amount : Amounts \cup {0},
     status : InvoiceStatus \cup {"NONE"}, total : Amounts \cup {0},
     ref : 0 .. MaxRef, covered : BOOLEAN]

InTransaction(c) == c.at \in {"inserted", "summed"}

CallsAreTyped ==
    /\ call \in [Requests -> CallRecord]
    /\ lock \in Requests \cup {NoRequest}
    /\ \A r \in Requests :
        /\ InTransaction(call[r]) <=> lock = r
        /\ call[r].op # "none" => call[r].status \in InvoiceStatus
        /\ call[r].op \in Creations => call[r].amount \in Amounts
        /\ InTransaction(call[r]) => call[r].op \in Creations /\ call[r].ref > 0

InvoiceIsTyped ==
    /\ invoice \in [status : InvoiceStatus \cup {"NONE", "DELETED"}, total : Amounts \cup {0}]
    /\ InvoiceExists => invoice.total \in Amounts

\* The foreign key of the inserted payment keeps the invoice.
InvoiceIsKept == lock # NoRequest => InvoiceExists

PaymentsAreTyped == payment \in [Payments -> PaymentRow \cup {NoRow}]

LedgerInv ==
    /\ CallsAreTyped
    /\ InvoiceIsTyped
    /\ PaymentsAreTyped
    /\ issued \in 0 .. MaxRef
    /\ ops \in Mixes
    /\ ReferenceStaysFree
    /\ InvoiceIsKept

LEMMA LedgerIsTyped == LedgerInv => TypeOK
  BY DEF LedgerInv, TypeOK, CallsAreTyped, InvoiceIsTyped, PaymentsAreTyped, InTransaction, CallRecord

LEMMA IdleIsTyped == Idle \in CallRecord /\ ~InTransaction(Idle) /\ Idle.op = "none" /\ Idle.at = "idle"
  BY BillingAssumption DEF Idle, CallRecord, InTransaction, InvoiceStatus

LEMMA LedgerHolds == Init => LedgerInv
<1> SUFFICES ASSUME Init PROVE LedgerInv
  OBVIOUS
<1>1. CallsAreTyped  BY IdleIsTyped, BillingAssumption DEF Init, CallsAreTyped, Creations
<1>2. InvoiceIsTyped  BY DEF Init, InvoiceIsTyped, InvoiceExists, InvoiceStatus
<1>3. PaymentsAreTyped  BY DEF Init, PaymentsAreTyped
<1>4. ReferenceStaysFree  BY DEF Init, ReferenceStaysFree, Refs, Rows
<1>5. InvoiceIsKept  BY DEF Init, InvoiceIsKept
<1> QED BY <1>1, <1>2, <1>3, <1>4, <1>5, BillingAssumption DEF Init, LedgerInv

\* A handler that ends leaves the others as they are.
LEMMA FinishIsTyped ==
  ASSUME LedgerInv, NEW r \in Requests, Finish(r)
  PROVE  /\ CallsAreTyped'
         /\ call'[r] = Idle
         /\ \A q \in Requests \ {r} : call'[q] = call[q]
<1>1. call' \in [Requests -> CallRecord] /\ call'[r] = Idle /\ \A q \in Requests \ {r} : call'[q] = call[q]
  BY IdleIsTyped DEF LedgerInv, CallsAreTyped, Finish
<1>2. lock' \in Requests \cup {NoRequest}  BY DEF LedgerInv, CallsAreTyped, Finish
<1>3. ASSUME NEW q \in Requests
      PROVE  /\ InTransaction(call'[q]) <=> lock' = q
             /\ call'[q].op # "none" => call'[q].status \in InvoiceStatus
             /\ call'[q].op \in Creations => call'[q].amount \in Amounts
             /\ InTransaction(call'[q]) => call'[q].op \in Creations /\ call'[q].ref > 0
  <2>1. CASE q = r
    <3>1. lock' # r  BY BillingAssumption DEF Finish
    <3> QED BY <1>1, <2>1, <3>1, IdleIsTyped DEF Creations
  <2>2. CASE q # r
    <3>1. call'[q] = call[q]  BY <1>1, <2>2
    <3>2. lock' = q <=> lock = q  BY <2>2, BillingAssumption DEF Finish
    <3> QED BY <3>1, <3>2 DEF LedgerInv, CallsAreTyped
  <2> QED BY <2>1, <2>2
<1> QED BY <1>1, <1>2, <1>3 DEF CallsAreTyped

\* References that are free stay free while no payment comes in.
LEMMA FreeWhileNoneComesIn ==
  ASSUME LedgerInv, Refs' \subseteq Refs,
         \A r \in Requests : call'[r] = call[r] \/ ~InTransaction(call'[r])
  PROVE  ReferenceStaysFree'
  BY DEF LedgerInv, ReferenceStaysFree, InTransaction

\* A new status leaves the references and the types as they are.
LEMMA StatusIsSet ==
  ASSUME LedgerInv, NEW p \in Rows, NEW s \in PaymentStatus, SetPayment(p, s)
  PROVE  PaymentsAreTyped' /\ Refs' = Refs
<1>1. payment[p] \in PaymentRow  BY DEF LedgerInv, PaymentsAreTyped, Rows
<1> DEFINE row == [payment[p] EXCEPT !.status = s]
<1>2. row \in PaymentRow /\ row.ref = payment[p].ref  BY <1>1 DEF PaymentRow
<1>3. payment' = [payment EXCEPT ![p] = row]  BY DEF SetPayment
<1> HIDE DEF row
<1>4. payment' \in [Payments -> PaymentRow \cup {NoRow}]  BY <1>2, <1>3 DEF LedgerInv, PaymentsAreTyped
<1>5. Rows' = Rows  BY <1>2, <1>3, NoRowAssumption DEF Rows, LedgerInv, PaymentsAreTyped
<1>6. \A q \in Rows : payment'[q].ref = payment[q].ref
  BY <1>2, <1>3 DEF Rows, LedgerInv, PaymentsAreTyped
<1> QED BY <1>4, <1>5, <1>6 DEF PaymentsAreTyped, Refs

LEMMA InvoiceIsSet ==
  ASSUME LedgerInv, InvoiceExists, NEW s \in InvoiceStatus, SetInvoice(s)
  PROVE  InvoiceIsTyped' /\ invoice'.total = invoice.total /\ invoice'.status = s
  BY DEF LedgerInv, InvoiceIsTyped, InvoiceExists, SetInvoice

\* The reference of nextReference is new.
LEMMA NextReferenceIsNew ==
  ASSUME LedgerInv
  PROVE  LET ref == Max(Refs \cup {0}) + 1 IN
         ref \in Int /\ ref > 0 /\ ref \notin Refs
<1> DEFINE T == Refs \cup {0}
           below == {n \in Nat : \E x \in T : n = MaxRef - x}
<1>1. T \subseteq 0 .. MaxRef
  <2>1. \A p \in Rows : payment[p] \in PaymentRow  BY DEF LedgerInv, PaymentsAreTyped, Rows
  <2>2. \A p \in Rows : payment[p].ref \in 1 .. MaxRef  BY <2>1 DEF PaymentRow
  <2> QED BY <2>2, BillingAssumption DEF Refs
<1>2. below \in SUBSET Nat /\ below # {}
  <2>1. MaxRef \in below  BY BillingAssumption
  <2> QED BY <2>1
<1>3. PICK m \in below : \A k \in below : m <= k
  <2> HIDE DEF below
  <2> QED BY <1>2, LeastNatural
<1>4. PICK x \in T : m = MaxRef - x  BY <1>3
<1>5. \A y \in T : x >= y
  <2> TAKE y \in T
  <2>1. y \in 0 .. MaxRef /\ x \in 0 .. MaxRef /\ MaxRef \in Nat  BY <1>1, <1>4, BillingAssumption
  <2>2. MaxRef - y \in below  BY <2>1
  <2>3. MaxRef - x <= MaxRef - y  BY <1>3, <1>4, <2>2
  <2> QED BY <2>1, <2>3
<1> HIDE DEF T
<1>6. Max(T) \in T /\ \A y \in T : Max(T) >= y  BY <1>4, <1>5 DEF Max
<1>7. Max(T) \in Int /\ Max(T) >= 0 /\ Max(T) + 1 \notin T
  <2>0. \A y \in T : y \in Nat  BY <1>1, BillingAssumption
  <2>1. Max(T) \in Nat  BY <1>6, <2>0
  <2>2. PICK n \in Nat : n = Max(T)  BY <2>1
  <2>3. n + 1 \notin T
    <3>1. \A y \in T : n >= y  BY <1>6, <2>2
    <3>2. ~(n >= n + 1)  OBVIOUS
    <3> QED BY <3>1, <3>2
  <2> QED BY <2>2, <2>3
<1> QED BY <1>7 DEF T

LEMMA ReadKeepsLedger ==
  ASSUME LedgerInv, NEW r \in Requests, Read(r)
  PROVE  LedgerInv'
<1>0. PICK op \in ops \cap TwoStep : \E p \in Targets(op), a \in AmountsFor(op) :
          call' = [call EXCEPT ![r] =
              [Idle EXCEPT !.op = op, !.at = "read", !.target = p, !.amount = a,
                           !.status = invoice.status, !.total = invoice.total]]
  BY DEF Read
<1>1. PICK p \in Targets(op), a \in AmountsFor(op) :
          call' = [call EXCEPT ![r] =
              [Idle EXCEPT !.op = op, !.at = "read", !.target = p, !.amount = a,
                           !.status = invoice.status, !.total = invoice.total]]
  BY <1>0
<1> DEFINE c == [Idle EXCEPT !.op = op, !.at = "read", !.target = p, !.amount = a,
                             !.status = invoice.status, !.total = invoice.total]
<1>2. call[r] = Idle /\ InvoiceExists /\ UNCHANGED <<invoice, payment, lock, issued, ops>>  BY DEF Read
<1>3. invoice.status \in InvoiceStatus /\ invoice.total \in Amounts
  BY <1>2 DEF LedgerInv, InvoiceIsTyped, InvoiceExists
<1>4. p \in Payments \cup {NoPayment}  BY DEF Targets, Rows
<1>5. a \in Amounts \cup {0} /\ (op \in Creations => a \in Amounts)  BY <1>3 DEF AmountsFor, Creations
<1>6. c \in CallRecord /\ c.op = op /\ c.at = "read" /\ c.amount = a /\ c.status = invoice.status
  BY <1>3, <1>4, <1>5, IdleIsTyped DEF CallRecord
<1> HIDE DEF c
<1>7. call' = [call EXCEPT ![r] = c]  BY <1>1 DEF c
<1>8. CallsAreTyped'
  <2>1. call' \in [Requests -> CallRecord] /\ call'[r] = c /\ \A q \in Requests \ {r} : call'[q] = call[q]
    BY <1>6, <1>7 DEF LedgerInv, CallsAreTyped
  <2>2. ~InTransaction(c) /\ lock # r
    BY <1>2, <1>6, IdleIsTyped DEF LedgerInv, CallsAreTyped, InTransaction
  <2>3. \A q \in Requests :
          /\ InTransaction(call'[q]) <=> lock = q
          /\ call'[q].op # "none" => call'[q].status \in InvoiceStatus
          /\ call'[q].op \in Creations => call'[q].amount \in Amounts
          /\ InTransaction(call'[q]) => call'[q].op \in Creations /\ call'[q].ref > 0
    BY <1>3, <1>5, <1>6, <2>1, <2>2 DEF LedgerInv, CallsAreTyped
  <2> QED BY <1>2, <2>1, <2>3 DEF LedgerInv, CallsAreTyped
<1>9. ReferenceStaysFree'
  <2>1. Refs' = Refs  BY <1>2 DEF Refs, Rows
  <2>2. \A q \in Requests : call'[q] = call[q] \/ ~InTransaction(call'[q])
    BY <1>6, <1>7 DEF LedgerInv, CallsAreTyped, InTransaction
  <2> QED BY <2>1, <2>2, FreeWhileNoneComesIn
<1> QED BY <1>2, <1>8, <1>9 DEF LedgerInv, InvoiceIsTyped, InvoiceExists, PaymentsAreTyped, InvoiceIsKept

LEMMA InsertKeepsLedger ==
  ASSUME LedgerInv, NEW r \in Requests, Insert(r)
  PROVE  LedgerInv'
<1> DEFINE ref == Max(Refs \cup {0}) + 1
<1>1. ref \in 1 .. MaxRef /\ ref \notin Refs  BY NextReferenceIsNew, BillingAssumption DEF Insert
<1>2. call[r].at = "read" /\ call[r].op \in Creations /\ lock = NoRequest /\ UNCHANGED <<invoice, payment, ops>>
  BY DEF Insert, MayLock
<1>3. CASE ~InvoiceExists
  <2>1. Finish(r) /\ issued' = issued  BY <1>3 DEF Insert
  <2>2. CallsAreTyped' /\ \A q \in Requests : call'[q] = call[q] \/ ~InTransaction(call'[q])
    BY <2>1, FinishIsTyped, IdleIsTyped
  <2>3. Refs' = Refs  BY <1>2 DEF Refs, Rows
  <2>4. ReferenceStaysFree'  BY <2>2, <2>3, FreeWhileNoneComesIn
  <2>5. InvoiceIsKept'  BY <1>2, <2>1 DEF Finish, InvoiceIsKept
  <2> QED BY <1>2, <2>1, <2>2, <2>4, <2>5 DEF LedgerInv, InvoiceIsTyped, InvoiceExists, PaymentsAreTyped
<1>4. CASE InvoiceExists
  <2> DEFINE c == [call[r] EXCEPT !.at = IF call[r].op = "newProof" THEN "summed" ELSE "inserted",
                                  !.ref = ref]
  <2>1. lock' = r /\ issued' = Max({issued, ref}) /\ call' = [call EXCEPT ![r] = c]
    BY <1>4 DEF Insert, LedgerInv, CallsAreTyped
  <2>2. c \in CallRecord /\ InTransaction(c) /\ c.op = call[r].op /\ c.status = call[r].status /\ c.amount = call[r].amount /\ c.ref = ref
    <3>1. call[r] \in CallRecord  BY DEF LedgerInv, CallsAreTyped
    <3>2. ref \in 0 .. MaxRef  BY <1>1, BillingAssumption
    <3> HIDE DEF ref
    <3> QED BY <3>1, <3>2 DEF CallRecord, InTransaction
  <2> HIDE DEF c, ref
  <2>3. call' \in [Requests -> CallRecord] /\ call'[r] = c /\ \A q \in Requests \ {r} : call'[q] = call[q]
    BY <2>1, <2>2 DEF LedgerInv, CallsAreTyped
  <2>4. \A q \in Requests : ~InTransaction(call[q])
    BY <1>2, BillingAssumption DEF LedgerInv, CallsAreTyped
  <2>5. c.ref > 0  BY <1>1, <2>2, BillingAssumption
  <2>6. CallsAreTyped'
    <3>1. \A q \in Requests :
            /\ InTransaction(call'[q]) <=> r = q
            /\ call'[q].op # "none" => call'[q].status \in InvoiceStatus
            /\ call'[q].op \in Creations => call'[q].amount \in Amounts
            /\ InTransaction(call'[q]) => call'[q].op \in Creations /\ call'[q].ref > 0
      BY <1>2, <2>2, <2>3, <2>4, <2>5 DEF LedgerInv, CallsAreTyped
    <3> QED BY <2>1, <2>3, <3>1 DEF CallsAreTyped
  <2>7. ReferenceStaysFree'
    <3>1. Refs' = Refs  BY <1>2 DEF Refs, Rows
    <3>2. \A q \in Requests : InTransaction(call'[q]) => call'[q].ref \notin Refs
      BY <1>1, <2>2, <2>3, <2>4
    <3> QED BY <3>1, <3>2 DEF ReferenceStaysFree, InTransaction
  <2>8. issued' \in 0 .. MaxRef
    <3>1. issued \in 0 .. MaxRef /\ ref \in 0 .. MaxRef  BY <1>1, BillingAssumption DEF LedgerInv
    <3>2. \E x \in {issued, ref} : \A y \in {issued, ref} : x >= y  BY <3>1
    <3>3. Max({issued, ref}) \in {issued, ref}  BY <3>2 DEF Max
    <3> QED BY <2>1, <3>1, <3>3
  <2> QED BY <1>2, <1>4, <2>6, <2>7, <2>8
    DEF LedgerInv, InvoiceIsTyped, InvoiceExists, PaymentsAreTyped, InvoiceIsKept
<1> QED BY <1>3, <1>4

LEMMA SumKeepsLedger ==
  ASSUME LedgerInv, NEW r \in Requests, Sum(r)
  PROVE  LedgerInv'
<1>1. Covers(call[r]) \in BOOLEAN
  <2>1. PaidSum \in Int  BY PaidSumIsTotal, TotalIsNumber DEF LedgerInv, PaymentsAreTyped
  <2>2. call[r].amount \in Int /\ call[r].total \in Int /\ invoice.total \in Int
    <3>1. /\ call[r].amount \in Amounts \cup {0}
          /\ call[r].total \in Amounts \cup {0}
          /\ invoice.total \in Amounts \cup {0}
      BY DEF LedgerInv, CallsAreTyped, InvoiceIsTyped, CallRecord
    <3> QED BY <3>1, AmountsAreNumbers
  <2>3. /\ (PaidSum + call[r].amount >= call[r].total) \in BOOLEAN
        /\ (PaidSum + call[r].amount >= invoice.total) \in BOOLEAN
    BY <2>1, <2>2
  <2> QED BY <2>3 DEF Covers
<1> DEFINE b == Covers(call[r])
           c == [call[r] EXCEPT !.at = "summed", !.covered = b]
<1>2. call' = [call EXCEPT ![r] = c] /\ call[r].at = "inserted" /\ UNCHANGED <<invoice, payment, lock, issued, ops>>
  BY DEF Sum, LedgerInv, CallsAreTyped
<1> HIDE DEF b
<1>3. c \in CallRecord /\ InTransaction(c) /\ c.op = call[r].op /\ c.status = call[r].status /\ c.amount = call[r].amount /\ c.ref = call[r].ref
  <2>1. call[r] \in CallRecord /\ b \in BOOLEAN  BY <1>1 DEF LedgerInv, CallsAreTyped, b
  <2> QED BY <2>1 DEF CallRecord, InTransaction
<1> HIDE DEF c
<1>4. call' \in [Requests -> CallRecord] /\ call'[r] = c /\ \A q \in Requests \ {r} : call'[q] = call[q]
  BY <1>2, <1>3 DEF LedgerInv, CallsAreTyped
<1>5. InTransaction(call[r])  BY <1>2 DEF InTransaction
<1>6. CallsAreTyped'
  <2>1. \A q \in Requests :
          /\ InTransaction(call'[q]) <=> lock = q
          /\ call'[q].op # "none" => call'[q].status \in InvoiceStatus
          /\ call'[q].op \in Creations => call'[q].amount \in Amounts
          /\ InTransaction(call'[q]) => call'[q].op \in Creations /\ call'[q].ref > 0
    BY <1>3, <1>4, <1>5 DEF LedgerInv, CallsAreTyped
  <2> QED BY <1>2, <1>4, <2>1 DEF LedgerInv, CallsAreTyped
<1>7. ReferenceStaysFree'
  <2>1. Refs' = Refs  BY <1>2 DEF Refs, Rows
  <2>2. \A q \in Requests : InTransaction(call'[q]) => call'[q].ref \notin Refs
    BY <1>3, <1>4, <1>5 DEF LedgerInv, ReferenceStaysFree, InTransaction
  <2> QED BY <2>1, <2>2 DEF ReferenceStaysFree, InTransaction
<1> QED BY <1>2, <1>6, <1>7 DEF LedgerInv, InvoiceIsTyped, InvoiceExists, PaymentsAreTyped, InvoiceIsKept

\* The row a transaction commits.
NewRow(c) == [ref |-> c.ref, amount |-> c.amount, linked |-> TRUE,
              status |-> IF c.op = "newProof" THEN "PENDING_APPROVAL" ELSE "PAID"]

LEMMA NewRowIsTyped ==
  ASSUME LedgerInv, NEW r \in Requests, InTransaction(call[r])
  PROVE  /\ NewRow(call[r]) \in PaymentRow
         /\ NewRow(call[r]).ref = call[r].ref
<1>1. call[r].amount \in Amounts /\ call[r].ref \in 1 .. MaxRef
  <2>1. call[r] \in CallRecord /\ call[r].op \in Creations /\ call[r].ref > 0
    BY DEF LedgerInv, CallsAreTyped
  <2>2. call[r].ref \in 0 .. MaxRef  BY <2>1 DEF CallRecord
  <2> QED BY <2>1, <2>2, BillingAssumption DEF LedgerInv, CallsAreTyped
<1> QED BY <1>1 DEF NewRow, PaymentRow, PaymentStatus

LEMMA CommitKeepsLedger ==
  ASSUME LedgerInv, NEW r \in Requests, Commit(r)
  PROVE  LedgerInv'
<1>1. call[r].at = "summed" /\ InTransaction(call[r]) /\ lock = r /\ Finish(r) /\ UNCHANGED <<issued, ops>>
  BY DEF Commit, InTransaction, LedgerInv, CallsAreTyped
<1>2. call[r].ref \notin Refs  BY <1>1 DEF LedgerInv, ReferenceStaysFree, InTransaction
<1>3. PICK p \in Payments \ Rows : payment' = [payment EXCEPT ![p] = NewRow(call[r])]
  BY <1>2 DEF Commit, NewRow
<1>4. /\ CallsAreTyped'
      /\ \A q \in Requests : ~InTransaction(call'[q])
  <2>1. \A q \in Requests \ {r} : ~InTransaction(call[q])  BY <1>1 DEF LedgerInv, CallsAreTyped
  <2> QED BY <1>1, <2>1, FinishIsTyped, IdleIsTyped
<1>5. PaymentsAreTyped'  BY <1>1, <1>3, NewRowIsTyped DEF LedgerInv, PaymentsAreTyped
<1>6. ReferenceStaysFree'  BY <1>4 DEF ReferenceStaysFree, InTransaction
<1>7. InvoiceIsTyped'
  <2>1. CASE UNCHANGED invoice  BY <2>1 DEF LedgerInv, InvoiceIsTyped, InvoiceExists
  <2>2. CASE SetInvoice("PAID") \/ SetInvoice("SENT")
    <3>1. InvoiceExists  BY <1>1, BillingAssumption DEF LedgerInv, InvoiceIsKept
    <3> QED BY <2>2, <3>1, InvoiceIsSet DEF InvoiceStatus
  <2> QED BY <1>2, <2>1, <2>2 DEF Commit
<1>8. InvoiceIsKept'  BY <1>1 DEF Finish, InvoiceIsKept
<1> QED BY <1>1, <1>4, <1>5, <1>6, <1>7, <1>8 DEF LedgerInv

\* The writes that follow a single read: a status, or nothing.
LEMMA DecisionsKeepLedger ==
  ASSUME LedgerInv, NEW r \in Requests, ResubmitProof(r) \/ Approve(r) \/ Reject(r) \/ Send(r)
  PROVE  LedgerInv'
<1>1. Finish(r) /\ UNCHANGED <<issued, ops>>  BY DEF ResubmitProof, Approve, Reject, Send
<1>2. CallsAreTyped' /\ \A q \in Requests : call'[q] = call[q] \/ ~InTransaction(call'[q])
  BY <1>1, FinishIsTyped, IdleIsTyped
<1>3. PaymentsAreTyped' /\ Refs' = Refs
  <2>1. CASE UNCHANGED payment  BY <2>1 DEF LedgerInv, PaymentsAreTyped, Refs, Rows
  <2>2. CASE /\ call[r].target \in Rows
             /\ \E s \in PaymentStatus : SetPayment(call[r].target, s)
    BY <2>2, StatusIsSet
  <2> QED BY <2>1, <2>2 DEF ResubmitProof, Approve, Reject, Send, PaymentStatus
<1>4. InvoiceIsTyped' /\ (InvoiceExists => InvoiceExists')
  <2>1. CASE UNCHANGED invoice  BY <2>1 DEF LedgerInv, InvoiceIsTyped, InvoiceExists
  <2>2. CASE InvoiceExists /\ \E s \in InvoiceStatus : SetInvoice(s)
    BY <2>2, InvoiceIsSet DEF InvoiceExists
  <2>3. Send(r) => call[r].status \in InvoiceStatus  BY DEF Send, LedgerInv, CallsAreTyped
  <2> QED BY <2>1, <2>2, <2>3 DEF ResubmitProof, Approve, Reject, Send, InvoiceStatus
<1>5. InvoiceIsKept'  BY <1>1, <1>4 DEF LedgerInv, InvoiceIsKept, Finish
<1>6. ReferenceStaysFree'  BY <1>2, <1>3, FreeWhileNoneComesIn
<1> QED BY <1>1, <1>2, <1>3, <1>4, <1>5, <1>6 DEF LedgerInv

\* The handlers that write at once.
LEMMA InvoiceChangesKeepLedger ==
  ASSUME LedgerInv, CreateInvoice \/ UpdateInvoice \/ UpdateInvoiceStatus \/ MarkOverdue
  PROVE  LedgerInv'
<1>1. UNCHANGED <<payment, lock, call, issued, ops>>
  BY DEF CreateInvoice, UpdateInvoice, UpdateInvoiceStatus, MarkOverdue
<1>2. InvoiceIsTyped' /\ InvoiceExists'
  <2>1. CASE CreateInvoice  BY <2>1 DEF CreateInvoice, InvoiceIsTyped, InvoiceExists, InvoiceStatus
  <2>2. CASE UpdateInvoice  BY <2>2 DEF UpdateInvoice, InvoiceIsTyped, InvoiceExists
  <2>3. CASE InvoiceExists /\ \E s \in InvoiceStatus : SetInvoice(s)
    BY <2>3, InvoiceIsSet DEF InvoiceExists
  <2> QED BY <2>1, <2>2, <2>3 DEF UpdateInvoiceStatus, MarkOverdue, InvoiceExists, InvoiceStatus
<1>3. CallsAreTyped' /\ PaymentsAreTyped' /\ ReferenceStaysFree' /\ InvoiceIsKept'
  BY <1>1, <1>2
  DEF LedgerInv, CallsAreTyped, PaymentsAreTyped, ReferenceStaysFree, Refs, Rows, InvoiceIsKept
<1> QED BY <1>1, <1>2, <1>3 DEF LedgerInv

LEMMA DeleteInvoiceKeepsLedger ==
  ASSUME LedgerInv, DeleteInvoice
  PROVE  LedgerInv'
<1>1. UNCHANGED <<lock, call, issued, ops>>  BY DEF DeleteInvoice
<1>2. InvoiceIsTyped'  BY DEF DeleteInvoice, LedgerInv, InvoiceIsTyped, InvoiceExists, InvoiceStatus
<1>3. PaymentsAreTyped' /\ Refs' \subseteq Refs
  <2> DEFINE row(p) == [payment[p] EXCEPT !.linked = FALSE]
  <2>1. \A p \in Rows : row(p) \in PaymentRow /\ row(p).ref = payment[p].ref
    BY DEF LedgerInv, PaymentsAreTyped, Rows, PaymentRow
  <2>2. payment' = [p \in Payments |-> IF p \in Rows THEN row(p) ELSE NoRow]  BY DEF DeleteInvoice
  <2> HIDE DEF row
  <2>3. Rows' \subseteq Rows /\ \A p \in Rows : payment'[p].ref = payment[p].ref  BY <2>1, <2>2 DEF Rows
  <2> QED BY <2>1, <2>2, <2>3 DEF PaymentsAreTyped, Refs
<1>4. \A q \in Requests : ~InTransaction(call[q])  BY DEF DeleteInvoice, InTransaction
<1>5. lock = NoRequest  BY <1>4 DEF LedgerInv, CallsAreTyped
<1> QED BY <1>1, <1>2, <1>3, <1>4, <1>5
  DEF LedgerInv, CallsAreTyped, ReferenceStaysFree, InTransaction, InvoiceIsKept

LEMMA PaymentChangesKeepLedger ==
  ASSUME LedgerInv, UpdatePayment \/ DeletePayment
  PROVE  LedgerInv'
<1>1. UNCHANGED <<invoice, lock, call, issued, ops>>  BY DEF UpdatePayment, DeletePayment
<1>2. PaymentsAreTyped' /\ Refs' \subseteq Refs
  <2>1. CASE UpdatePayment
    <3>1. PICK p \in Rows, s \in PaymentStatus, a \in Amounts :
              payment' = [payment EXCEPT ![p].status = s, ![p].amount = a]
      BY <2>1 DEF UpdatePayment
    <3> DEFINE row == [payment[p] EXCEPT !.status = s, !.amount = a]
    <3>2. payment[p] \in PaymentRow  BY DEF LedgerInv, PaymentsAreTyped, Rows
    <3>3. row \in PaymentRow /\ row.ref = payment[p].ref  BY <3>2 DEF PaymentRow
    <3>4. payment' = [payment EXCEPT ![p] = row]  BY <3>1 DEF LedgerInv, PaymentsAreTyped, Rows
    <3> HIDE DEF row
    <3>5. PaymentsAreTyped'  BY <3>3, <3>4 DEF LedgerInv, PaymentsAreTyped
    <3>6. Rows' = Rows /\ \A q \in Rows : payment'[q].ref = payment[q].ref
      BY <3>3, <3>4, NoRowAssumption DEF Rows, LedgerInv, PaymentsAreTyped
    <3> QED BY <3>5, <3>6 DEF Refs
  <2>2. CASE DeletePayment  BY <2>2 DEF DeletePayment, LedgerInv, PaymentsAreTyped, Refs, Rows
  <2> QED BY <2>1, <2>2
<1>3. ReferenceStaysFree'  BY <1>1, <1>2, FreeWhileNoneComesIn
<1> QED BY <1>1, <1>2, <1>3 DEF LedgerInv, CallsAreTyped, InvoiceIsTyped, InvoiceExists, InvoiceIsKept

LEMMA StepKeepsLedger == LedgerInv /\ [Next]_vars => LedgerInv'
<1> SUFFICES ASSUME LedgerInv, [Next]_vars PROVE LedgerInv'
  OBVIOUS
<1>1. ASSUME NEW r \in Requests, Handle(r) PROVE LedgerInv'
  BY <1>1, ReadKeepsLedger, InsertKeepsLedger, SumKeepsLedger, CommitKeepsLedger, DecisionsKeepLedger
  DEF Handle
<1>2. CASE CreateInvoice \/ UpdateInvoice \/ UpdateInvoiceStatus \/ MarkOverdue
  BY <1>2, InvoiceChangesKeepLedger
<1>3. CASE DeleteInvoice  BY <1>3, DeleteInvoiceKeepsLedger
<1>4. CASE UpdatePayment \/ DeletePayment  BY <1>4, PaymentChangesKeepLedger
<1>5. CASE UNCHANGED vars
  BY <1>5 DEF vars, LedgerInv, CallsAreTyped, InvoiceIsTyped, InvoiceExists, PaymentsAreTyped,
              ReferenceStaysFree, Refs, Rows, InvoiceIsKept
<1> QED BY <1>1, <1>2, <1>3, <1>4, <1>5 DEF Next

LEMMA LedgerAlwaysHolds == Spec => []LedgerInv
  BY LedgerHolds, StepKeepsLedger, PTL DEF Spec

\* In every state the invoice, the payments, the lock and the running handlers
\* have their types, and only a transaction holds the lock of the references.
THEOREM LedgerTypeCorrect == Spec => []TypeOK
  BY LedgerAlwaysHolds, LedgerIsTyped, PTL

\* nextReference's number is free when its transaction commits, whatever else is
\* written in between: the unique index on references never turns a payment away.
THEOREM ReferencesStayFree == Spec => []ReferenceStaysFree
<1>1. LedgerInv => ReferenceStaysFree  BY DEF LedgerInv
<1> QED BY <1>1, LedgerAlwaysHolds, PTL

------------------------
(* Payments that only come in.  PaidExactlyWhenCovered is not inductive: it *)
(* says nothing of a transaction that has already compared its sum.  While  *)
(* payments only come in nothing can change that sum under the lock, so     *)
(* what a transaction has found is still true when it writes the invoice.   *)

Knows(c, inv, sum) ==
    /\ c.op \in Creations \cup {"none"}
    /\ c.at # "idle" => c.op \in Creations /\ c.total = inv.total
    /\ c.at = "read" => c.covered = FALSE
    /\ c.at = "inserted" => c.op # "newProof"
    /\ c.at = "summed" /\ c.op = "newProof" => c.covered = FALSE
    /\ c.at = "summed" /\ c.op # "newProof" =>
          (c.covered = TRUE <=> /\ sum + c.amount >= inv.total
                                /\ c.op = "recordPayment" \/ inv.status # "PAID")

CoverInv ==
    /\ invoice.status # "DELETED"
    /\ invoice.status = "NONE" => Rows = {} /\ \A r \in Requests : call[r].at = "idle"
    /\ InvoiceExists => (invoice.status = "PAID" <=> PaidSum >= invoice.total)
    /\ \A r \in Requests : Knows(call[r], invoice, PaidSum)

LEMMA IdleKnows == \A inv, sum : Knows(Idle, inv, sum)
  BY DEF Knows, Idle

LEMMA CoverHolds == Init => CoverInv
  BY IdleKnows, IdleIsTyped DEF Init, CoverInv, Rows, InvoiceExists, InvoiceStatus

LEMMA SumUnchanged == ASSUME UNCHANGED payment PROVE PaidSum' = PaidSum
  BY PaidSumIsTotal, PaidSumIsTotalAfterwards

LEMMA NumbersOfACall ==
  ASSUME LedgerInv, NEW r \in Requests
  PROVE  /\ PaidSum \in Int /\ invoice.total \in Int /\ call[r].total \in Int
         /\ call[r].op \in Creations => call[r].amount \in Int /\ call[r].amount > 0
         /\ call[r].covered \in BOOLEAN
<1>1. PaidSum \in Int  BY PaidSumIsTotal, TotalIsNumber DEF LedgerInv, PaymentsAreTyped
<1>2. call[r] \in CallRecord /\ invoice.total \in Amounts \cup {0}
  BY DEF LedgerInv, CallsAreTyped, InvoiceIsTyped
<1>3. call[r].total \in Amounts \cup {0} /\ call[r].covered \in BOOLEAN  BY <1>2 DEF CallRecord
<1>4. call[r].op \in Creations => call[r].amount \in Amounts  BY DEF LedgerInv, CallsAreTyped
<1> QED BY <1>1, <1>2, <1>3, <1>4, AmountsAreNumbers

\* A step of one handler that leaves the rows alone keeps what the others know.
LEMMA OneCallChanges ==
  ASSUME LedgerInv, CoverInv, InvoiceExists, UNCHANGED <<invoice, payment>>,
         NEW r \in Requests, NEW c, call' = [call EXCEPT ![r] = c], Knows(c, invoice, PaidSum)
  PROVE  CoverInv'
<1>1. PaidSum' = PaidSum /\ Rows' = Rows /\ invoice' = invoice  BY SumUnchanged DEF Rows
<1>2. \A q \in Requests : Knows(call'[q], invoice, PaidSum)  BY DEF CoverInv, LedgerInv, CallsAreTyped
<1>3. invoice.status # "NONE"  BY DEF InvoiceExists, InvoiceStatus
<1> QED BY <1>1, <1>2, <1>3 DEF CoverInv, InvoiceExists

LEMMA ReadKeepsCover ==
  ASSUME LedgerInv, CoverInv, ops \subseteq Creations, NEW r \in Requests, Read(r)
  PROVE  CoverInv'
<1>1. PICK op \in ops \cap TwoStep : \E p \in Targets(op), a \in AmountsFor(op) :
          call' = [call EXCEPT ![r] =
              [Idle EXCEPT !.op = op, !.at = "read", !.target = p, !.amount = a,
                           !.status = invoice.status, !.total = invoice.total]]
  BY DEF Read
<1>2. PICK p \in Targets(op), a \in AmountsFor(op) :
          call' = [call EXCEPT ![r] =
              [Idle EXCEPT !.op = op, !.at = "read", !.target = p, !.amount = a,
                           !.status = invoice.status, !.total = invoice.total]]
  BY <1>1
<1> DEFINE c == [Idle EXCEPT !.op = op, !.at = "read", !.target = p, !.amount = a,
                             !.status = invoice.status, !.total = invoice.total]
<1>3. c.op = op /\ c.at = "read" /\ c.total = invoice.total /\ c.covered = FALSE  BY DEF Idle
<1> HIDE DEF c
<1>4. Knows(c, invoice, PaidSum)  BY <1>3 DEF Knows
<1>5. call' = [call EXCEPT ![r] = c] /\ InvoiceExists /\ UNCHANGED <<invoice, payment>>
  BY <1>2 DEF Read, c
<1> QED BY <1>4, <1>5, OneCallChanges

LEMMA InsertKeepsCover ==
  ASSUME LedgerInv, CoverInv, NEW r \in Requests, Insert(r)
  PROVE  CoverInv'
<1> DEFINE c == [call[r] EXCEPT !.at = IF call[r].op = "newProof" THEN "summed" ELSE "inserted",
                                !.ref = Max(Refs \cup {0}) + 1]
<1>1. call[r].at = "read" /\ UNCHANGED <<invoice, payment>>  BY DEF Insert
<1>2. InvoiceExists  BY <1>1 DEF CoverInv, LedgerInv, InvoiceIsTyped, InvoiceExists
<1>3. call' = [call EXCEPT ![r] = c]  BY <1>2 DEF Insert, LedgerInv, CallsAreTyped
<1>4. Knows(c, invoice, PaidSum)
  <2>1. /\ c.op = call[r].op /\ c.total = call[r].total /\ c.covered = call[r].covered
        /\ c.at = IF call[r].op = "newProof" THEN "summed" ELSE "inserted"
    BY DEF LedgerInv, CallsAreTyped, CallRecord
  <2>2. Knows(call[r], invoice, PaidSum)  BY DEF CoverInv
  <2> HIDE DEF c
  <2> QED BY <1>1, <2>1, <2>2 DEF Knows
<1> HIDE DEF c
<1> QED BY <1>1, <1>2, <1>3, <1>4, OneCallChanges

LEMMA SumKeepsCover ==
  ASSUME LedgerInv, CoverInv, NEW r \in Requests, Sum(r)
  PROVE  CoverInv'
<1> DEFINE b == Covers(call[r])
           c == [call[r] EXCEPT !.at = "summed", !.covered = b]
<1>1. call[r].at = "inserted" /\ UNCHANGED <<invoice, payment>>  BY DEF Sum
<1>2. InvoiceExists  BY <1>1 DEF CoverInv, LedgerInv, InvoiceIsTyped, InvoiceExists
<1>3. call' = [call EXCEPT ![r] = c]  BY DEF Sum, LedgerInv, CallsAreTyped
<1>4. Knows(call[r], invoice, PaidSum)  BY DEF CoverInv
<1>5. /\ call[r].op \in Creations /\ call[r].op # "newProof" /\ call[r].total = invoice.total
  BY <1>1, <1>4 DEF Knows
<1>6. b <=> /\ PaidSum + call[r].amount >= invoice.total
            /\ call[r].op = "recordPayment" \/ invoice.status # "PAID"
  BY <1>5 DEF Covers
<1>7. b \in BOOLEAN
  <2>1. (PaidSum + call[r].amount >= invoice.total) \in BOOLEAN  BY <1>5, NumbersOfACall
  <2> QED BY <1>5, <2>1 DEF Covers
<1> HIDE DEF b
<1>8. /\ c.at = "summed" /\ c.op = call[r].op /\ c.total = call[r].total /\ c.amount = call[r].amount
      /\ c.covered = b
  BY DEF LedgerInv, CallsAreTyped, CallRecord
<1> HIDE DEF c
<1>9. c.covered = TRUE <=> b  BY <1>7, <1>8
<1>10. Knows(c, invoice, PaidSum)  BY <1>5, <1>6, <1>8, <1>9 DEF Knows
<1> QED BY <1>1, <1>2, <1>3, <1>10, OneCallChanges

\* What the sum and the invoice are after a payment has come in.
LEMMA CommitPays ==
  ASSUME LedgerInv, CoverInv, NEW r \in Requests, Commit(r)
  PROVE  /\ InvoiceExists /\ InvoiceExists' /\ invoice'.total = invoice.total
         /\ invoice'.status = "PAID" <=> PaidSum' >= invoice.total
         /\ invoice.status = "PAID" => invoice'.status = "PAID"
<1> DEFINE a == call[r].amount
           row == NewRow(call[r])
<1>1. call[r].at = "summed" /\ InTransaction(call[r]) /\ lock = r
  BY DEF Commit, InTransaction, LedgerInv, CallsAreTyped
<1>2. InvoiceExists /\ invoice.status # "NONE"
  BY <1>1, BillingAssumption DEF LedgerInv, InvoiceIsKept, InvoiceExists, InvoiceStatus
<1>3. call[r].ref \notin Refs  BY <1>1 DEF LedgerInv, ReferenceStaysFree, InTransaction
<1>4. PICK p \in Payments \ Rows : payment' = [payment EXCEPT ![p] = row]  BY <1>3 DEF Commit, NewRow
<1>5. Knows(call[r], invoice, PaidSum) /\ call[r].op \in Creations  BY <1>1 DEF CoverInv, Knows
<1>6. PaidSum \in Int /\ invoice.total \in Int /\ a \in Int /\ a > 0 /\ call[r].covered \in BOOLEAN
  BY <1>5, NumbersOfACall
<1>7. invoice.status = "PAID" <=> PaidSum >= invoice.total  BY <1>2 DEF CoverInv
<1>8. row \in PaymentRow /\ row.linked = TRUE /\ row.amount = a
      /\ row.status = IF call[r].op = "newProof" THEN "PENDING_APPROVAL" ELSE "PAID"
  BY <1>1, NewRowIsTyped DEF NewRow
<1> HIDE DEF row
<1>9. AddsUp(payment, payment', row)
  <2>1. payment[p] = NoRow /\ payment \in [Payments -> PaymentRow \cup {NoRow}]
    BY DEF Rows, LedgerInv, PaymentsAreTyped
  <2> QED BY <1>4, <1>8, <2>1, TotalAfterAdding
<1>10. /\ call[r].op = "newProof" => PaidSum' = PaidSum
       /\ call[r].op # "newProof" => PaidSum' = PaidSum + a
  BY <1>8, <1>9, PaidSumIsTotal, PaidSumIsTotalAfterwards DEF AddsUp
<1> HIDE DEF a
<1>11. CASE call[r].covered = TRUE
  <2>1. SetInvoice("PAID")  BY <1>3, <1>11 DEF Commit
  <2>2. invoice'.status = "PAID" /\ invoice'.total = invoice.total /\ InvoiceExists'
    BY <1>2, <2>1, InvoiceIsSet DEF InvoiceStatus, InvoiceExists
  <2>3. call[r].op # "newProof" /\ PaidSum + a >= invoice.total  BY <1>1, <1>5, <1>11 DEF Knows, a
  <2> QED BY <1>2, <1>10, <2>2, <2>3
<1>12. CASE call[r].covered = FALSE /\ call[r].op = "recordPayment"
  <2>1. SetInvoice("SENT")  BY <1>3, <1>12 DEF Commit
  <2>2. invoice'.status = "SENT" /\ invoice'.total = invoice.total /\ InvoiceExists'
    BY <1>2, <2>1, InvoiceIsSet DEF InvoiceStatus, InvoiceExists
  <2>3. ~(PaidSum + a >= invoice.total)  BY <1>1, <1>5, <1>12 DEF Knows, a
  <2>4. invoice.status # "PAID"  BY <1>6, <1>7, <2>3
  <2> QED BY <1>2, <1>10, <1>12, <2>2, <2>3, <2>4
<1>13. CASE call[r].covered = FALSE /\ call[r].op # "recordPayment"
  <2>1. invoice' = invoice  BY <1>3, <1>13 DEF Commit
  <2>2. CASE call[r].op = "newProof"  BY <1>2, <1>7, <1>10, <2>1, <2>2 DEF InvoiceExists
  <2>3. CASE call[r].op # "newProof" /\ invoice.status = "PAID"
    <3>1. PaidSum + a >= invoice.total  BY <1>6, <1>7, <2>3
    <3> QED BY <1>2, <1>10, <2>1, <2>3, <3>1 DEF InvoiceExists
  <2>4. CASE call[r].op # "newProof" /\ invoice.status # "PAID"
    <3>1. ~(PaidSum + a >= invoice.total)  BY <1>1, <1>5, <1>13, <2>4 DEF Knows, a
    <3> QED BY <1>2, <1>10, <2>1, <2>4, <3>1 DEF InvoiceExists
  <2> QED BY <2>2, <2>3, <2>4
<1> QED BY <1>6, <1>11, <1>12, <1>13

LEMMA CommitKeepsCover ==
  ASSUME LedgerInv, CoverInv, NEW r \in Requests, Commit(r)
  PROVE  CoverInv'
<1>1. lock = r /\ Finish(r)  BY DEF Commit, InTransaction, LedgerInv, CallsAreTyped
<1>2. call'[r] = Idle /\ \A q \in Requests \ {r} : call'[q] = call[q] /\ ~InTransaction(call[q])
  BY <1>1, FinishIsTyped DEF LedgerInv, CallsAreTyped
<1>3. \A q \in Requests \ {r} : Knows(call[q], invoice', PaidSum')
  <2>1. \A q \in Requests : Knows(call[q], invoice, PaidSum)  BY DEF CoverInv
  <2> QED BY <1>2, <2>1, CommitPays DEF Knows, InTransaction
<1>4. \A q \in Requests : Knows(call'[q], invoice', PaidSum')  BY <1>2, <1>3, IdleKnows
<1>5. invoice'.status \notin {"NONE", "DELETED"}  BY CommitPays DEF InvoiceExists, InvoiceStatus
<1> QED BY <1>4, <1>5, CommitPays DEF CoverInv

LEMMA CreateKeepsCover ==
  ASSUME LedgerInv, CoverInv, CreateInvoice
  PROVE  CoverInv'
<1>1. invoice.status = "NONE" /\ UNCHANGED <<payment, call>>  BY DEF CreateInvoice
<1>2. PICK a \in Amounts : invoice' = [status |-> "DRAFT", total |-> a]  BY DEF CreateInvoice
<1>3. PaidSum' = 0
  <2>1. RowsOf(payment) = {}  BY <1>1 DEF CoverInv, Rows, RowsOf
  <2>2. PaidSum = 0  BY <2>1, PaidSumIsTotal, NothingPaidIsNothing DEF LedgerInv, PaymentsAreTyped
  <2> QED BY <1>1, <2>2, SumUnchanged
<1>4. ~(0 >= a)  BY AmountsAreNumbers
<1>5. \A q \in Requests : Knows(call[q], invoice', PaidSum')  BY <1>1 DEF CoverInv, Knows
<1> QED BY <1>1, <1>2, <1>3, <1>4, <1>5 DEF CoverInv

LEMMA OverdueKeepsCover ==
  ASSUME LedgerInv, CoverInv, MarkOverdue
  PROVE  CoverInv'
<1>1. invoice.status = "SENT" /\ UNCHANGED <<payment, call>>  BY DEF MarkOverdue
<1>2. InvoiceExists /\ invoice'.status = "OVERDUE" /\ invoice'.total = invoice.total
  BY <1>1, InvoiceIsSet DEF MarkOverdue, InvoiceExists, InvoiceStatus
<1>3. PaidSum' = PaidSum /\ Rows' = Rows  BY <1>1, SumUnchanged DEF Rows
<1>4. \A q \in Requests : Knows(call[q], invoice', PaidSum)  BY <1>1, <1>2 DEF CoverInv, Knows
<1> QED BY <1>1, <1>2, <1>3, <1>4 DEF CoverInv

LEMMA StepKeepsCover ==
  LedgerInv /\ (ops \subseteq Creations => CoverInv) /\ [Next]_vars => (ops \subseteq Creations => CoverInv)'
<1> SUFFICES ASSUME LedgerInv, CoverInv, ops \subseteq Creations, [Next]_vars
             PROVE  CoverInv'
  <2>1. [Next]_vars => ops' = ops
    BY DEF Next, vars, Handle, Read, Insert, Sum, Commit, ResubmitProof, Approve, Reject, Send,
           CreateInvoice, UpdateInvoice, UpdateInvoiceStatus, DeleteInvoice, UpdatePayment,
           DeletePayment, MarkOverdue
  <2> QED BY <2>1
<1>1. ASSUME NEW r \in Requests, Handle(r) PROVE CoverInv'
  <2>1. call[r].op \in Creations \cup {"none"}  BY DEF CoverInv, Knows
  <2>2. ~(ResubmitProof(r) \/ Approve(r) \/ Reject(r) \/ Send(r))
    BY <2>1 DEF ResubmitProof, Approve, Reject, Send, Creations
  <2> QED BY <1>1, <2>2, ReadKeepsCover, InsertKeepsCover, SumKeepsCover, CommitKeepsCover DEF Handle
<1>2. CASE CreateInvoice  BY <1>2, CreateKeepsCover
<1>3. CASE MarkOverdue  BY <1>3, OverdueKeepsCover
<1>4. ~(UpdateInvoice \/ UpdateInvoiceStatus \/ DeleteInvoice \/ UpdatePayment \/ DeletePayment)
  BY DEF UpdateInvoice, UpdateInvoiceStatus, DeleteInvoice, UpdatePayment, DeletePayment, Creations
<1>5. CASE UNCHANGED vars
  <2>1. PaidSum' = PaidSum /\ Rows' = Rows  BY <1>5, SumUnchanged DEF vars, Rows
  <2> QED BY <1>5, <2>1 DEF vars, CoverInv, InvoiceExists
<1> QED BY <1>1, <1>2, <1>3, <1>4, <1>5 DEF Next

LEMMA CoverAlwaysHolds == Spec => [](LedgerInv /\ (ops \subseteq Creations => CoverInv))
  BY LedgerHolds, CoverHolds, StepKeepsLedger, StepKeepsCover, PTL DEF Spec

\* However many payments and proofs come in at once, the invoice is PAID exactly
\* when the PAID payments cover it: the lock of nextReference also keeps two part
\* payments from both missing the other.
THEOREM PaidWhenCovered == Spec => []PaidExactlyWhenCovered
<1>1. (ops \subseteq Creations => CoverInv) => PaidExactlyWhenCovered
  BY DEF CoverInv, PaidExactlyWhenCovered
<1> QED BY <1>1, CoverAlwaysHolds, PTL

\* ... and no payment that comes late, whatever it read, takes PAID back.
THEOREM PaidStaysPaid == Spec => PaidIsNeverUndone
<1>1. ASSUME LedgerInv, CoverInv, ops \subseteq Creations, invoice.status = "PAID", [Next]_vars
      PROVE  invoice'.status = "PAID"
  <2>1. ASSUME NEW r \in Requests, Handle(r) PROVE invoice'.status = "PAID"
    <3>1. call[r].op \in Creations \cup {"none"}  BY <1>1 DEF CoverInv, Knows
    <3>2. ~(ResubmitProof(r) \/ Approve(r) \/ Reject(r) \/ Send(r))
      BY <3>1 DEF ResubmitProof, Approve, Reject, Send, Creations
    <3> QED BY <1>1, <2>1, <3>2, CommitPays DEF Handle, Read, Insert, Sum
  <2>2. ~(CreateInvoice \/ MarkOverdue)  BY <1>1 DEF CreateInvoice, MarkOverdue
  <2>3. ~(UpdateInvoice \/ UpdateInvoiceStatus \/ DeleteInvoice \/ UpdatePayment \/ DeletePayment)
    BY <1>1 DEF UpdateInvoice, UpdateInvoiceStatus, DeleteInvoice, UpdatePayment, DeletePayment, Creations
  <2> QED BY <1>1, <2>1, <2>2, <2>3 DEF Next, vars
<1>2. LedgerInv /\ (ops \subseteq Creations => CoverInv) /\ [Next]_vars
        => [ops \subseteq Creations /\ invoice.status = "PAID" => invoice'.status = "PAID"]_vars
  BY <1>1
<1> QED BY <1>2, CoverAlwaysHolds, PTL DEF Spec, PaidIsNeverUndone

------------------------
(* Enquiries.  Two enquiries of one person meet at a lock, whatever order the *)
(* callers come in: KeepsItsLocks says for every step which locks a caller    *)
(* holds and which it is still to take, and KnowsNoTwin what the holder has   *)
(* read and nobody else may change meanwhile.                                 *)

LeadRow == [email : Emails, phone : Phones \cup {NoRecord}, ref : Nat, won : BOOLEAN,
            client : Customers \cup {NoRecord}, edited : BOOLEAN]

Reviews == {"NEW", "QUOTED", "CONVERTED", "DISMISSED"}
OfLead == {"locks", "ref", "insert", "merge"}
Steps == {"rest", "delete", "convert", "file", "key", "submit"} \cup OfLead
Entries == 1 .. MaxCalls \cup Attempts

CallerRow == [kind : {"none", "contact", "create", "delete", "convert", "inbox", "submit"}, step : Steps, number : Nat,
              email : Emails \cup {NoRecord}, phone : Phones \cup {NoRecord}, wants : Seq(Locks),
              row : Leads \cup Entries \cup {NoRecord}, seen : Emails \cup Reviews \cup {NoRecord}, ref : Nat]

LeadsAreTyped ==
    /\ lead \in [Leads -> LeadRow \cup {NoRecord}]
    /\ locked \in [Locks -> Callers \cup {NoRecord}]
    /\ caller \in [Callers -> CallerRow] /\ calls \in Nat
    /\ submission \in [Attempts -> Reviews \cup {NoRecord}] /\ DOMAIN inbox = Entries

KeysOf(c) == {<<"email", caller[c].email>>} \cup (IF caller[c].phone = NoRecord THEN {} ELSE {<<"phone", caller[c].phone>>})
HeldBy(c) == {k \in Locks : locked[k] = c}

\* What a caller holds, and what it is still to take.
KeepsItsLocks(c) ==
    LET first == <<"email", caller[c].email>>
        second == <<"phone", caller[c].phone>> IN
    /\ caller[c].step \in OfLead => caller[c].email \in Emails /\ caller[c].phone \in Phones \cup {NoRecord}
    /\ At(c, "locks") =>
          \/ caller[c].phone = NoRecord /\ caller[c].wants = <<first>> /\ HeldBy(c) = {}
          \/ caller[c].phone # NoRecord /\ caller[c].wants = <<first, second>> /\ HeldBy(c) = {}
          \/ caller[c].phone # NoRecord /\ caller[c].wants = <<second>> /\ HeldBy(c) = {first}
          \/ caller[c].wants = <<>> /\ HeldBy(c) = KeysOf(c)
    /\ At(c, "ref") \/ At(c, "merge") => HeldBy(c) = KeysOf(c)
    /\ At(c, "insert") => HeldBy(c) = KeysOf(c) \cup {Ref}
    /\ At(c, "submit") => HeldBy(c) = {<<"attempt", caller[c].row>>}
    /\ At(c, "key") \/ At(c, "submit") => caller[c].row \in Attempts
    /\ caller[c].step \in Steps \ (OfLead \cup {"submit"}) => HeldBy(c) = {}
    /\ At(c, "merge") => caller[c].seen \in Emails

\* No lead that was entered, and not edited, has the phone; the reference and the
\* attempt are new.
KnowsNoTwin(c) ==
    /\ At(c, "ref") \/ At(c, "insert") =>
          \A l \in KnownLeads : ~lead[l].edited => caller[c].phone = NoRecord \/ lead[l].phone # caller[c].phone
    /\ At(c, "insert") => caller[c].ref \in Nat /\ caller[c].ref \notin LeadRefs
    /\ At(c, "submit") /\ caller[c].seen = NoRecord => submission[caller[c].row] = NoRecord

IntakeInv ==
    /\ LeadsAreTyped
    /\ \A c \in Callers : KeepsItsLocks(c) /\ KnowsNoTwin(c)
    /\ OneLeadPerPerson

------------------------
(* Locks *)

\* What one caller does to its locks is no business of the others.
Apart(c) ==
    /\ caller' \in [Callers -> CallerRow]
    /\ \A b \in Callers \ {c} : caller'[b] = caller[b] /\ HeldBy(b)' = HeldBy(b)
    /\ locked' \in [Locks -> Callers \cup {NoRecord}]

LEMMA LocksAreLocks ==
  /\ Ref \in Locks
  /\ \A e \in Emails : <<"email", e>> \in Locks
  /\ \A p \in Phones : <<"phone", p>> \in Locks
  /\ \A a \in Attempts : <<"attempt", a>> \in Locks
  BY DEF Locks, Ref

LEMMA QuietIsTyped ==
  /\ Quiet \in CallerRow
  /\ [Quiet EXCEPT !.step = "rest"] = Quiet
<1>1. <<>> \in Seq(Locks)  OBVIOUS
<1> QED BY <1>1 DEF Quiet, CallerRow, Steps

LEMMA ConcludesEnds ==
  ASSUME LeadsAreTyped, NEW c \in Callers, Concludes(c, "rest")
  PROVE  Apart(c) /\ caller'[c].step = "rest" /\ HeldBy(c)' = {}
<1>1. caller' = [caller EXCEPT ![c] = [Quiet EXCEPT !.step = "rest"]]  BY DEF Concludes, Becomes
<1>2. locked' = [k \in Locks |-> IF locked[k] = c THEN NoRecord ELSE locked[k]]
  BY DEF Concludes, Release
<1>3. caller'[c].step = "rest" /\ [Quiet EXCEPT !.step = "rest"] \in CallerRow
  <2>1. caller'[c] = Quiet /\ Quiet.step = "rest"  BY <1>1, QuietIsTyped DEF LeadsAreTyped, Quiet
  <2> QED BY <2>1, QuietIsTyped
<1>4. HeldBy(c)' = {} /\ \A b \in Callers \ {c} : HeldBy(b)' = HeldBy(b)
  BY <1>2, IntakeAssumption DEF HeldBy
<1> QED BY <1>1, <1>2, <1>3, <1>4 DEF Apart, LeadsAreTyped

\* A handler that goes on without a lock, or takes none.
LEMMA GoesOn ==
  ASSUME LeadsAreTyped, NEW c \in Callers, NEW r \in CallerRow, Becomes(c, r), UNCHANGED locked
  PROVE  Apart(c) /\ caller'[c] = r /\ HeldBy(c)' = HeldBy(c)
  BY DEF LeadsAreTyped, Becomes, Apart, HeldBy

LEMMA TakesLock ==
  ASSUME LeadsAreTyped, NEW c \in Callers, NEW r \in CallerRow, NEW k \in Locks, Becomes(c, r), MayHold(k),
         locked' = [locked EXCEPT ![k] = c]
  PROVE  Apart(c) /\ caller'[c] = r /\ HeldBy(c)' = HeldBy(c) \cup {k}
<1>1. \A b \in Callers \ {c} : HeldBy(b)' = HeldBy(b)
  BY IntakeAssumption DEF HeldBy, MayHold, LeadsAreTyped
<1>2. HeldBy(c)' = HeldBy(c) \cup {k}  BY DEF HeldBy, LeadsAreTyped
<1> QED BY <1>1, <1>2 DEF LeadsAreTyped, Becomes, Apart

LEMMA BystanderKeepsLocks ==
  ASSUME NEW b \in Callers, caller'[b] = caller[b], HeldBy(b)' = HeldBy(b), KeepsItsLocks(b)
  PROVE  KeepsItsLocks(b)'
  BY DEF KeepsItsLocks, At, KeysOf

LEMMA EndingKeepsLocks ==
  ASSUME NEW c \in Callers, caller'[c].step = "rest", HeldBy(c)' = {}
  PROVE  KeepsItsLocks(c)' /\ KnowsNoTwin(c)'
<1>1. KeepsItsLocks(c)'  BY DEF KeepsItsLocks, At, Steps, OfLead
<1>2. KnowsNoTwin(c)'  BY DEF KnowsNoTwin, At
<1> QED BY <1>1, <1>2

------------------------
(* Leads *)

\* No lead is new, and those that stay untouched stay as they are.
NothingNew ==
    /\ \A l \in KnownLeads' :
          /\ l \in KnownLeads /\ lead'[l].ref = lead[l].ref
          /\ ~lead'[l].edited => ~lead[l].edited /\ lead'[l].email = lead[l].email /\ lead'[l].phone = lead[l].phone
    /\ \A a \in Attempts : submission[a] = NoRecord => submission'[a] = NoRecord

LEMMA NothingNewKeeps ==
  ASSUME NothingNew, OneLeadPerPerson
  PROVE  OneLeadPerPerson'
  BY DEF NothingNew, OneLeadPerPerson

LEMMA NothingNewIsNoTwin ==
  ASSUME NothingNew, NEW b \in Callers, caller'[b] = caller[b], KnowsNoTwin(b), KeepsItsLocks(b)
  PROVE  KnowsNoTwin(b)'
<1>1. LeadRefs' \subseteq LeadRefs  BY DEF LeadRefs, NothingNew
<1>2. At(b, "submit") => caller[b].row \in Attempts  BY DEF KeepsItsLocks
<1> QED BY <1>1, <1>2 DEF KnowsNoTwin, NothingNew, At

\* A step of c that adds no lead: it remains to say what c itself holds and knows.
LEMMA StepOfOne ==
  ASSUME IntakeInv, NEW c \in Callers, Apart(c), NothingNew, lead' \in [Leads -> LeadRow \cup {NoRecord}],
         submission' \in [Attempts -> Reviews \cup {NoRecord}], calls' \in {calls, calls + 1}, DOMAIN inbox' = Entries,
         KeepsItsLocks(c)' /\ KnowsNoTwin(c)'
  PROVE  IntakeInv'
<1>1. LeadsAreTyped'  BY DEF LeadsAreTyped, Apart, IntakeInv
<1>2. ASSUME NEW b \in Callers PROVE KeepsItsLocks(b)' /\ KnowsNoTwin(b)'
  BY BystanderKeepsLocks, NothingNewIsNoTwin DEF IntakeInv, Apart
<1>3. OneLeadPerPerson'  BY NothingNewKeeps DEF IntakeInv
<1> QED BY <1>1, <1>2, <1>3 DEF IntakeInv

LEMMA Untouched ==
  ASSUME IntakeInv, UNCHANGED <<lead, submission, inbox>>
  PROVE  /\ NothingNew /\ lead' \in [Leads -> LeadRow \cup {NoRecord}]
         /\ submission' \in [Attempts -> Reviews \cup {NoRecord}] /\ DOMAIN inbox' = Entries
  BY DEF IntakeInv, LeadsAreTyped, NothingNew, KnownLeads

------------------------
(* Enquiries *)

LEMMA StartLeadKeeps ==
  ASSUME IntakeInv, NEW c \in Callers, NEW e \in Emails, NEW p \in Phones \cup {NoRecord},
         NEW kind \in {"contact", "create"}, StartLead(c, kind, e, p)
  PROVE  IntakeInv'
<1>1. LeadsAreTyped /\ KeepsItsLocks(c)  BY DEF IntakeInv
<1>2. HeldBy(c) = {}
  BY <1>1 DEF StartLead, AtRest, KeepsItsLocks, Steps, OfLead, LeadsAreTyped, CallerRow
<1> DEFINE q == [Quiet EXCEPT !.kind = kind, !.step = "locks", !.number = calls', !.email = e, !.phone = p,
                              !.wants = LockKeys(kind, e, p)]
<1>3. q.step = "locks" /\ q.email = e /\ q.phone = p /\ q.wants = LockKeys(kind, e, p)  BY DEF Quiet
<1>9. LockKeys(kind, e, p) = IF p = NoRecord THEN <<<<"email", e>>>> ELSE <<<<"email", e>>, <<"phone", p>>>>
  <2>1. p = NoRecord => LockKeys(kind, e, p) = <<<<"email", e>>>>  BY DEF LockKeys
  <2>2. p # NoRecord => LockKeys(kind, e, p) = <<<<"email", e>>>> \o <<<<"phone", p>>>>  BY DEF LockKeys
  <2> QED BY <2>1, <2>2
<1>8. LockKeys(kind, e, p) \in Seq(Locks)  BY <1>9, LocksAreLocks
<1>10. q \in CallerRow
  <2>1. calls' \in Nat  BY <1>1 DEF StartLead, Calls, LeadsAreTyped
  <2> QED BY <1>8, <2>1 DEF Quiet, CallerRow, Steps, OfLead
<1>4. Becomes(c, q) /\ UNCHANGED <<locked, lead, submission, inbox>> /\ calls' = calls + 1
  BY DEF StartLead, Calls, records
<1> HIDE DEF q
<1>5. Apart(c) /\ caller'[c] = q /\ HeldBy(c)' = {}  BY <1>1, <1>2, <1>4, <1>10, GoesOn
<1>7. KeepsItsLocks(c)' /\ KnowsNoTwin(c)'
  BY <1>3, <1>5, <1>9 DEF KeepsItsLocks, KnowsNoTwin, At, Steps, OfLead
<1> QED BY <1>4, <1>5, <1>7, Untouched, StepOfOne

\* The locks are taken in one order, e-mail before phone.
LEMMA TakeLockKeeps ==
  ASSUME IntakeInv, NEW c \in Callers, TakeLock(c)
  PROVE  IntakeInv'
<1> DEFINE q == [caller[c] EXCEPT !.wants = Tail(@)]
           k == Head(caller[c].wants)
           first == <<"email", caller[c].email>>
           second == <<"phone", caller[c].phone>>
<1>1. LeadsAreTyped /\ KeepsItsLocks(c) /\ At(c, "locks") /\ caller[c].wants # <<>> /\ MayHold(k)
  BY DEF IntakeInv, TakeLock
<1>2. Becomes(c, q) /\ locked' = [locked EXCEPT ![k] = c] /\ UNCHANGED <<lead, submission, inbox, calls>>
  BY DEF TakeLock, records
<1>3. \/ caller[c].phone = NoRecord /\ caller[c].wants = <<first>> /\ HeldBy(c) = {}
      \/ caller[c].phone # NoRecord /\ caller[c].wants = <<first, second>> /\ HeldBy(c) = {}
      \/ caller[c].phone # NoRecord /\ caller[c].wants = <<second>> /\ HeldBy(c) = {first}
  BY <1>1 DEF KeepsItsLocks
<1>4. \/ caller[c].phone = NoRecord /\ k = first /\ Tail(caller[c].wants) = <<>> /\ HeldBy(c) = {}
      \/ caller[c].phone # NoRecord /\ k = first /\ Tail(caller[c].wants) = <<second>> /\ HeldBy(c) = {}
      \/ caller[c].phone # NoRecord /\ k = second /\ Tail(caller[c].wants) = <<>> /\ HeldBy(c) = {first}
  <2>1. Head(<<first>>) = first /\ Tail(<<first>>) = <<>> /\ Head(<<second>>) = second /\ Tail(<<second>>) = <<>>
    OBVIOUS
  <2>2. Head(<<first, second>>) = first /\ Tail(<<first, second>>) = <<second>>  OBVIOUS
  <2> QED BY <1>3, <2>1, <2>2
<1>5. caller[c].email \in Emails /\ caller[c].phone \in Phones \cup {NoRecord}
  BY <1>1 DEF KeepsItsLocks, At, OfLead
<1>6. k \in Locks  BY <1>4, <1>5, LocksAreLocks
<1>7. q.step = "locks" /\ q.email = caller[c].email /\ q.phone = caller[c].phone /\ q.wants = Tail(caller[c].wants)
  BY <1>1 DEF At, LeadsAreTyped, CallerRow
<1>11. q \in CallerRow
  <2>1. Tail(caller[c].wants) \in Seq(Locks)  BY <1>1 DEF LeadsAreTyped, CallerRow
  <2> QED BY ZenonT(40), <1>1, <2>1 DEF LeadsAreTyped, CallerRow
<1> HIDE DEF q, k
<1>8. Apart(c) /\ caller'[c] = q /\ HeldBy(c)' = HeldBy(c) \cup {k}
  BY <1>1, <1>2, <1>6, <1>11, TakesLock
<1>9. KnowsNoTwin(c)'  BY <1>7, <1>8 DEF KnowsNoTwin, At
<1>10. KeepsItsLocks(c)'  BY <1>4, <1>5, <1>7, <1>8 DEF KeepsItsLocks, KeysOf, At, Steps, OfLead
<1> QED BY <1>2, <1>8, <1>9, <1>10, Untouched, StepOfOne

LEMMA AbortKeeps ==
  ASSUME IntakeInv, NEW c \in Callers, Abort(c)
  PROVE  IntakeInv'
<1>1. Apart(c) /\ KeepsItsLocks(c)' /\ KnowsNoTwin(c)'
  BY ConcludesEnds, EndingKeepsLocks DEF Abort, IntakeInv
<1>2. UNCHANGED <<lead, submission, inbox, calls>>  BY DEF Abort, records
<1> QED BY <1>1, <1>2, Untouched, StepOfOne

LEMMA OldestIsOne ==
  ASSUME LeadsAreTyped, NEW L \in SUBSET KnownLeads, L # {}
  PROVE  Oldest(L) \in L
<1>1. \A l \in L : lead[l].ref \in Nat  BY DEF LeadsAreTyped, KnownLeads, LeadRow
<1>2. PICK m \in {lead[l].ref : l \in L} : \A k \in {lead[l].ref : l \in L} : m <= k
  <2> DEFINE T == {lead[l].ref : l \in L}
  <2>1. T \in SUBSET Nat /\ T # {}  BY <1>1
  <2> HIDE DEF T
  <2>2. \E m \in T : \A k \in T : m <= k  BY <2>1, LeastNatural
  <2> QED BY <2>2 DEF T
<1>3. \E l \in L : \A n \in L : lead[l].ref <= lead[n].ref  BY <1>2
<1> QED BY <1>3 DEF Oldest

LEMMA MatchLeadKeeps ==
  ASSUME IntakeInv, NEW c \in Callers, MatchLead(c)
  PROVE  IntakeInv'
<1>1. LeadsAreTyped /\ KeepsItsLocks(c) /\ caller[c].step = "locks" /\ caller[c].wants = <<>>
  BY DEF IntakeInv, MatchLead, At
<1>2. UNCHANGED <<lead, submission, inbox, calls>>  BY DEF MatchLead, records
<1>3. HeldBy(c) = KeysOf(c) /\ caller[c].email \in Emails /\ caller[c].phone \in Phones \cup {NoRecord}
  BY <1>1 DEF KeepsItsLocks, At, OfLead
<1>4. CASE ByEmail(c) \cup ByPhone(c) = {}
  <2> DEFINE q == [caller[c] EXCEPT !.step = "ref"]
  <2>1. Becomes(c, q) /\ UNCHANGED locked  BY <1>4 DEF MatchLead
  <2>2. q.step = "ref" /\ q.email = caller[c].email /\ q.phone = caller[c].phone /\ q \in CallerRow
    <3>1. caller[c] \in CallerRow /\ "ref" \in Steps  BY <1>1 DEF LeadsAreTyped, Steps, OfLead
    <3> QED BY <3>1 DEF CallerRow
  <2> HIDE DEF q
  <2>3. Apart(c) /\ caller'[c] = q /\ HeldBy(c)' = HeldBy(c)  BY <1>1, <2>1, <2>2, GoesOn
  <2>4. KeepsItsLocks(c)'  BY <1>3, <2>2, <2>3 DEF KeepsItsLocks, KeysOf, At, Steps, OfLead
  <2>5. \A l \in KnownLeads : caller[c].phone = NoRecord \/ lead[l].phone # caller[c].phone
    BY <1>4 DEF ByPhone
  <2>6. KnowsNoTwin(c)'  BY <1>2, <2>2, <2>3, <2>5 DEF KnowsNoTwin, At, KnownLeads
  <2> QED BY <1>2, <2>3, <2>4, <2>6, Untouched, StepOfOne
<1>5. CASE ByEmail(c) \cup ByPhone(c) # {} /\ caller[c].kind = "create"
  <2>1. Concludes(c, "rest")  BY <1>5 DEF MatchLead
  <2> QED BY <1>1, <1>2, <2>1, ConcludesEnds, EndingKeepsLocks, Untouched, StepOfOne
<1>6. CASE ByEmail(c) \cup ByPhone(c) # {} /\ caller[c].kind # "create"
  <2> DEFINE x == lead[Existing(c)].email
             q == [caller[c] EXCEPT !.step = "merge", !.row = Existing(c), !.seen = x]
  <2>1. Becomes(c, q) /\ UNCHANGED locked  BY <1>6 DEF MatchLead
  <2>2. Existing(c) \in KnownLeads
    <3>1. ByEmail(c) \in SUBSET KnownLeads /\ ByPhone(c) \in SUBSET KnownLeads  BY DEF ByEmail, ByPhone
    <3> QED BY <1>1, <1>6, <3>1, OldestIsOne DEF Existing
  <2>3. x \in Emails  BY <1>1, <2>2 DEF LeadsAreTyped, KnownLeads, LeadRow
  <2> HIDE DEF x
  <2>4. q.step = "merge" /\ q.email = caller[c].email /\ q.phone = caller[c].phone /\ q.seen = x
    BY <1>1 DEF LeadsAreTyped, CallerRow
  <2>5. q \in CallerRow
    <3>1. Existing(c) \in Leads  BY <2>2 DEF KnownLeads
    <3>2. caller[c] \in CallerRow /\ "merge" \in Steps  BY <1>1 DEF LeadsAreTyped, Steps, OfLead
    <3> QED BY <2>3, <3>1, <3>2 DEF CallerRow
  <2> HIDE DEF q
  <2>6. Apart(c) /\ caller'[c] = q /\ HeldBy(c)' = HeldBy(c)  BY <1>1, <2>1, <2>5, GoesOn
  <2>7. KeepsItsLocks(c)'  BY <1>3, <2>3, <2>4, <2>5, <2>6 DEF KeepsItsLocks, KeysOf, At, Steps, OfLead
  <2>8. KnowsNoTwin(c)'  BY <2>4, <2>6 DEF KnowsNoTwin, At
  <2> QED BY <1>2, <2>6, <2>7, <2>8, Untouched, StepOfOne
<1> QED BY <1>4, <1>5, <1>6

------------------------
(* References *)

LEMMA FiniteHasGreatest ==
  ASSUME NEW T \in SUBSET Nat, T # {}, IsFiniteSet(T)
  PROVE  \E x \in T : \A y \in T : x >= y
<1> DEFINE HasGreatest(U) == \E x \in U : \A y \in U : x >= y
           Without == {U \in SUBSET T : U # {} /\ ~HasGreatest(U)}
           Sizes == {Cardinality(U) : U \in Without}
<1>1. \A U \in SUBSET T : IsFiniteSet(U) /\ Cardinality(U) \in Nat  BY FS_Subset, FS_CardinalityType
<1>2. ASSUME Without # {} PROVE FALSE
  <2>1. Sizes \in SUBSET Nat /\ Sizes # {}  BY <1>1, <1>2
  <2> HIDE DEF Sizes
  <2>2. PICK m \in Sizes : \A k \in Sizes : m <= k  BY <2>1, LeastNatural
  <2>3. PICK U \in Without : m = Cardinality(U)  BY <2>2 DEF Sizes
  <2>4. PICK x \in U : TRUE  BY <2>3
  <2>5. Cardinality(U \ {x}) = m - 1 /\ m \in Nat /\ U \ {x} \in SUBSET T
    BY <1>1, <2>3, <2>4, FS_RemoveElement
  <2>6. U \ {x} \notin Without
    <3>1. m - 1 \notin Sizes  BY <2>1, <2>2, <2>5
    <3> QED BY <2>5, <3>1 DEF Sizes
  <2>7. CASE U \ {x} = {}  BY <2>3, <2>4, <2>7
  <2>8. CASE HasGreatest(U \ {x})
    <3>1. PICK z \in U \ {x} : \A y \in U \ {x} : z >= y  BY <2>8
    <3>2. U \subseteq Nat  BY <2>3
    <3>3. \A y \in U : x >= y \/ z >= y  BY <2>4, <3>1, <3>2
    <3>4. CASE x >= z
      <4>1. \A y \in U : x >= y  BY <2>4, <3>1, <3>2, <3>4
      <4> QED BY <2>3, <2>4, <4>1
    <3>5. CASE ~(x >= z)
      <4>1. \A y \in U : z >= y  BY <2>4, <3>1, <3>2, <3>5
      <4> QED BY <2>3, <3>1, <4>1
    <3> QED BY <3>4, <3>5
  <2> QED BY <2>5, <2>6, <2>7, <2>8
<1> QED BY <1>2

LEMMA NextLeadRefIsNew ==
  ASSUME LeadsAreTyped, LeadRefs # {}
  PROVE  Max(LeadRefs) + 1 \in Nat /\ Max(LeadRefs) + 1 \notin LeadRefs
<1>1. LeadRefs \in SUBSET Nat  BY DEF LeadsAreTyped, LeadRefs, KnownLeads, LeadRow
<1>2. IsFiniteSet(LeadRefs)
  <2> DEFINE f == [l \in KnownLeads |-> lead[l].ref]
  <2>1. IsFiniteSet(KnownLeads)  BY IntakeAssumption, FS_Subset DEF KnownLeads
  <2>2. f \in Surjection(KnownLeads, LeadRefs)  BY DEF Surjection, LeadRefs
  <2> HIDE DEF f
  <2> QED BY <2>1, <2>2, FS_Surjection
<1>3. Max(LeadRefs) \in LeadRefs /\ \A y \in LeadRefs : Max(LeadRefs) >= y
  BY <1>1, <1>2, FiniteHasGreatest DEF Max
<1>4. PICK n \in Nat : n = Max(LeadRefs)  BY <1>1, <1>3
<1>5. n + 1 \notin LeadRefs
  <2>1. \A y \in LeadRefs : n >= y  BY <1>3, <1>4
  <2>2. ~(n >= n + 1)  OBVIOUS
  <2> QED BY <2>1, <2>2
<1> QED BY <1>4, <1>5

LEMMA AllocateLeadRefKeeps ==
  ASSUME IntakeInv, NEW c \in Callers, AllocateLeadRef(c)
  PROVE  IntakeInv'
<1> DEFINE n == IF LeadRefs = {} THEN 1 ELSE Max(LeadRefs) + 1
           q == [caller[c] EXCEPT !.step = "insert", !.ref = n]
<1>1. LeadsAreTyped /\ KeepsItsLocks(c) /\ caller[c].step = "ref" /\ MayHold(Ref)
  BY DEF IntakeInv, AllocateLeadRef, At
<1>2. Becomes(c, q) /\ locked' = [locked EXCEPT ![Ref] = c] /\ UNCHANGED <<lead, submission, inbox, calls>>
  BY DEF AllocateLeadRef, records
<1>3. n \in Nat /\ n \notin LeadRefs  BY <1>1, NextLeadRefIsNew
<1> HIDE DEF n
<1>4. q \in CallerRow
  <2>1. caller[c] \in CallerRow /\ "insert" \in Steps  BY <1>1 DEF LeadsAreTyped, Steps, OfLead
  <2> QED BY <1>3, <2>1 DEF CallerRow
<1>5. q.step = "insert" /\ q.email = caller[c].email /\ q.phone = caller[c].phone /\ q.ref = n
  BY <1>1 DEF LeadsAreTyped, CallerRow
<1> HIDE DEF q
<1>6. Apart(c) /\ caller'[c] = q /\ HeldBy(c)' = HeldBy(c) \cup {Ref}
  BY <1>1, <1>2, <1>4, TakesLock, LocksAreLocks
<1>7. HeldBy(c) = KeysOf(c) /\ caller[c].email \in Emails /\ caller[c].phone \in Phones \cup {NoRecord}
  BY <1>1 DEF KeepsItsLocks, At, OfLead
<1>8. KeepsItsLocks(c)'  BY <1>5, <1>6, <1>7 DEF KeepsItsLocks, KeysOf, At, Steps, OfLead
<1>9. KnowsNoTwin(c)'
  <2>1. \A l \in KnownLeads : ~lead[l].edited => caller[c].phone = NoRecord \/ lead[l].phone # caller[c].phone
    BY <1>1 DEF IntakeInv, KnowsNoTwin, At
  <2> QED BY <1>2, <1>3, <1>5, <1>6, <2>1 DEF KnowsNoTwin, At, KnownLeads, LeadRefs
<1> QED BY <1>2, <1>6, <1>8, <1>9, Untouched, StepOfOne

------------------------
(* Rows of leads *)

\* A lead of an enquiry is new, and so are its reference, its e-mail and its phone.
LEMMA InsertLeadKeeps ==
  ASSUME IntakeInv, NEW c \in Callers, InsertLead(c)
  PROVE  IntakeInv'
<1>1. /\ LeadsAreTyped /\ KeepsItsLocks(c) /\ KnowsNoTwin(c) /\ At(c, "insert")
      /\ caller[c].ref \in Nat /\ caller[c].ref \notin LeadRefs
      /\ caller[c].email \in Emails /\ caller[c].phone \in Phones \cup {NoRecord}
      /\ HeldBy(c) = KeysOf(c) \cup {Ref}
  BY DEF IntakeInv, InsertLead, KnowsNoTwin, KeepsItsLocks, OfLead, At
<1>2. Concludes(c, "rest") /\ UNCHANGED <<submission, calls>>  BY <1>1 DEF InsertLead
<1>3. Apart(c) /\ caller'[c].step = "rest" /\ HeldBy(c)' = {}  BY <1>1, <1>2, ConcludesEnds
<1>4. KeepsItsLocks(c)' /\ KnowsNoTwin(c)'  BY <1>3, EndingKeepsLocks
<1>5. CASE ByEmail(c) # {}
  <2>1. UNCHANGED <<lead, inbox>>  BY <1>1, <1>5 DEF InsertLead
  <2> QED BY <1>2, <1>3, <1>4, <2>1, Untouched, StepOfOne
<1>6. CASE ByEmail(c) = {}
  <2> DEFINE l == CHOOSE l \in Leads : l \notin KnownLeads
             new == [email |-> caller[c].email, phone |-> caller[c].phone, ref |-> caller[c].ref,
                     won |-> FALSE, client |-> NoRecord, edited |-> FALSE]
  <2>1. lead' = [lead EXCEPT ![l] = new] /\ Files(c, l) /\ Leads # KnownLeads
    BY <1>1, <1>6 DEF InsertLead
  <2>2. l \in Leads /\ l \notin KnownLeads  BY <2>1 DEF KnownLeads
  <2>3. new \in LeadRow  BY <1>1 DEF LeadRow
  <2>4. /\ new.email = caller[c].email /\ new.phone = caller[c].phone /\ new.ref = caller[c].ref /\ ~new.edited
    OBVIOUS
  <2> HIDE DEF l, new
  <2>5. LeadsAreTyped'
    <3>1. DOMAIN inbox' = Entries  BY <1>1, <2>1 DEF Files, LeadsAreTyped
    <3> QED BY <1>1, <1>2, <1>3, <2>1, <2>3, <3>1 DEF LeadsAreTyped, Apart
  <2>6. \A m \in KnownLeads' : (m \in KnownLeads /\ lead'[m] = lead[m]) \/ (m = l /\ lead'[m] = new)
    BY <1>1, <2>1, <2>2 DEF KnownLeads, LeadsAreTyped
  <2>7. OneLeadPerPerson'
    <3>1. \A m \in KnownLeads : lead[m].email # caller[c].email  BY <1>6 DEF ByEmail
    <3>2. \A m \in KnownLeads : ~lead[m].edited => caller[c].phone = NoRecord \/ lead[m].phone # caller[c].phone
      BY <1>1 DEF KnowsNoTwin
    <3> QED BY <2>4, <2>6, <3>1, <3>2 DEF OneLeadPerPerson, IntakeInv
  <2>8. ASSUME NEW b \in Callers \ {c} PROVE KeepsItsLocks(b)' /\ KnowsNoTwin(b)'
    <3>1. KeepsItsLocks(b) /\ KnowsNoTwin(b) /\ caller'[b] = caller[b] /\ HeldBy(b)' = HeldBy(b)
      BY <1>3 DEF IntakeInv, Apart
    <3>2. ~At(b, "insert")  BY <1>1, <3>1 DEF KeepsItsLocks, HeldBy
    <3>3. ASSUME At(b, "ref"), caller[b].phone # NoRecord PROVE caller[b].phone # caller[c].phone
      <4>1. <<"phone", caller[b].phone>> \in HeldBy(b)  BY <3>1, <3>3 DEF KeepsItsLocks, KeysOf
      <4>2. caller[c].phone = caller[b].phone => <<"phone", caller[b].phone>> \in HeldBy(c)
        BY <1>1, <3>3 DEF KeysOf
      <4> QED BY <4>1, <4>2 DEF HeldBy
    <3>4. KnowsNoTwin(b)'
      <4>1. ~At(b, "insert")' /\ (At(b, "submit")' <=> At(b, "submit")) /\ (At(b, "ref")' <=> At(b, "ref"))
        BY <3>1, <3>2 DEF At
      <4>2. At(b, "ref") => \A m \in KnownLeads' : ~lead'[m].edited =>
              caller[b].phone = NoRecord \/ lead'[m].phone # caller[b].phone
        BY <2>4, <2>6, <3>1, <3>3 DEF KnowsNoTwin
      <4> QED BY <1>2, <3>1, <4>1, <4>2 DEF KnowsNoTwin
    <3> QED BY <3>1, <3>4, BystanderKeepsLocks
  <2> QED BY <1>4, <2>5, <2>7, <2>8 DEF IntakeInv
<1> QED BY <1>5, <1>6

\* The row of l becomes r, and no other changes.
LEMMA RowChanges ==
  ASSUME LeadsAreTyped, NEW l \in KnownLeads, NEW r \in LeadRow, lead' = [lead EXCEPT ![l] = r], r.ref = lead[l].ref,
         r.edited \/ (r.edited = lead[l].edited /\ r.email = lead[l].email /\ r.phone = lead[l].phone),
         \A a \in Attempts : submission[a] = NoRecord => submission'[a] = NoRecord
  PROVE  NothingNew /\ lead' \in [Leads -> LeadRow \cup {NoRecord}]
<1>1. lead' \in [Leads -> LeadRow \cup {NoRecord}]  BY DEF LeadsAreTyped, KnownLeads
<1>2. lead'[l] = r /\ l \in Leads  BY DEF LeadsAreTyped, KnownLeads
<1>3. \A m \in Leads \ {l} : lead'[m] = lead[m]  BY DEF LeadsAreTyped
<1>4. \A m \in KnownLeads' : m \in KnownLeads /\ (m # l => lead'[m] = lead[m])  BY <1>3 DEF KnownLeads
<1> QED BY <1>1, <1>2, <1>4 DEF NothingNew

LEMMA KnownRow ==
  ASSUME LeadsAreTyped, NEW l \in KnownLeads
  PROVE  l \in Leads /\ lead[l] \in LeadRow
  BY DEF LeadsAreTyped, KnownLeads

LEMMA MergeContactKeeps ==
  ASSUME IntakeInv, NEW c \in Callers, MergeContact(c)
  PROVE  IntakeInv'
<1> DEFINE l == caller[c].row
<1>1. /\ LeadsAreTyped /\ Concludes(c, "rest") /\ UNCHANGED <<submission, calls>>
      /\ caller[c].seen \in Emails /\ caller[c].phone \in Phones \cup {NoRecord}
  BY DEF MergeContact, IntakeInv, KeepsItsLocks, At, OfLead
<1>2. Apart(c) /\ KeepsItsLocks(c)' /\ KnowsNoTwin(c)'  BY <1>1, ConcludesEnds, EndingKeepsLocks
<1>3. CASE UNCHANGED <<lead, inbox>>  BY <1>1, <1>2, <1>3, Untouched, StepOfOne
<1>4. CASE ~UNCHANGED <<lead, inbox>>
  <2> DEFINE phone == IF caller[c].phone = NoRecord THEN lead[l].phone ELSE caller[c].phone
             r == [lead[l] EXCEPT !.email = caller[c].seen, !.edited = TRUE, !.phone = phone]
  <2>1. l \in KnownLeads /\ Files(c, l)  BY <1>4 DEF MergeContact
  <2>2. lead' = [lead EXCEPT ![l].email = caller[c].seen, ![l].edited = TRUE,
                             ![l].phone = IF caller[c].phone = NoRecord THEN @ ELSE caller[c].phone]
    BY <1>4 DEF MergeContact
  <2>3. lead[l] \in LeadRow /\ l \in Leads  BY <1>1, <2>1, KnownRow
  <2>4. phone \in Phones \cup {NoRecord}  BY <1>1, <2>3 DEF LeadRow
  <2>5. lead' = [lead EXCEPT ![l] = r]  BY <1>1, <2>2, <2>3 DEF LeadsAreTyped, LeadRow
  <2> HIDE DEF phone
  <2>6. r \in LeadRow /\ r.edited /\ r.ref = lead[l].ref  BY <1>1, <2>3, <2>4 DEF LeadRow
  <2> HIDE DEF r
  <2>7. NothingNew /\ lead' \in [Leads -> LeadRow \cup {NoRecord}]
    BY <1>1, <2>1, <2>5, <2>6, RowChanges
  <2>8. DOMAIN inbox' = Entries  BY <1>1, <2>1 DEF Files, LeadsAreTyped
  <2> QED BY <1>1, <1>2, <2>7, <2>8, StepOfOne DEF LeadsAreTyped
<1> QED BY <1>3, <1>4

------------------------
(* The office and the estimate requests *)

\* A step of no caller.
LEMMA StepOfNone ==
  ASSUME IntakeInv, UNCHANGED <<caller, locked>>, NothingNew, lead' \in [Leads -> LeadRow \cup {NoRecord}],
         submission' \in [Attempts -> Reviews \cup {NoRecord}], calls' \in {calls, calls + 1}, DOMAIN inbox' = Entries
  PROVE  IntakeInv'
<1>1. LeadsAreTyped'  BY DEF LeadsAreTyped, IntakeInv
<1>2. ASSUME NEW b \in Callers PROVE KeepsItsLocks(b)' /\ KnowsNoTwin(b)'
  <2>1. HeldBy(b)' = HeldBy(b)  BY DEF HeldBy
  <2> QED BY <2>1, BystanderKeepsLocks, NothingNewIsNoTwin DEF IntakeInv
<1>3. OneLeadPerPerson'  BY NothingNewKeeps DEF IntakeInv
<1> QED BY <1>1, <1>2, <1>3 DEF IntakeInv

LEMMA UpdateLeadKeeps ==
  ASSUME IntakeInv, NEW l \in Leads, NEW e \in Emails, NEW p \in Phones, UpdateLead(l, e, p)
  PROVE  IntakeInv'
<1> DEFINE r == [lead[l] EXCEPT !.email = e, !.phone = p, !.edited = TRUE]
<1>1. LeadsAreTyped /\ l \in KnownLeads /\ UNCHANGED <<caller, locked, inbox, submission>> /\ calls' = calls + 1
  BY DEF UpdateLead, Calls, IntakeInv
<1>2. lead[l] \in LeadRow /\ l \in Leads  BY <1>1, KnownRow
<1>3. lead' = [lead EXCEPT ![l] = r]  BY <1>1, <1>2 DEF UpdateLead, LeadsAreTyped, LeadRow
<1>4. r \in LeadRow /\ r.edited /\ r.ref = lead[l].ref  BY <1>2 DEF LeadRow
<1> HIDE DEF r
<1>5. NothingNew /\ lead' \in [Leads -> LeadRow \cup {NoRecord}]  BY <1>1, <1>3, <1>4, RowChanges
<1> QED BY <1>1, <1>5, StepOfNone DEF LeadsAreTyped

LEMMA UpdateLeadStageKeeps ==
  ASSUME IntakeInv, NEW l \in Leads, UpdateLeadStage(l)
  PROVE  IntakeInv'
<1> DEFINE r == [lead[l] EXCEPT !.won = ~@]
<1>1. LeadsAreTyped /\ l \in KnownLeads /\ UNCHANGED <<caller, locked, inbox, submission, calls>>
  BY DEF UpdateLeadStage, IntakeInv
<1>2. lead[l] \in LeadRow  BY <1>1, KnownRow
<1>3. lead' = [lead EXCEPT ![l] = r]  BY <1>1 DEF UpdateLeadStage, LeadsAreTyped
<1>4. r \in LeadRow /\ r.edited = lead[l].edited /\ r.email = lead[l].email /\ r.phone = lead[l].phone /\ r.ref = lead[l].ref
  BY <1>2 DEF LeadRow
<1> HIDE DEF r
<1>5. NothingNew /\ lead' \in [Leads -> LeadRow \cup {NoRecord}]  BY <1>1, <1>3, <1>4, RowChanges
<1> QED BY <1>1, <1>5, StepOfNone DEF LeadsAreTyped

\* A handler that has looked at a row, and holds no lock yet.
LEMMA LooksKeeps ==
  ASSUME IntakeInv, NEW c \in Callers, NEW kind \in {"delete", "convert", "inbox", "submit"},
         NEW step \in {"delete", "convert", "file", "key"}, NEW l \in Leads \cup Entries,
         NEW seen \in Emails \cup {NoRecord}, step = "key" => l \in Attempts, Looks(c, kind, step, l, seen)
  PROVE  IntakeInv'
<1> DEFINE q == [Quiet EXCEPT !.kind = kind, !.step = step, !.row = l, !.seen = seen]
<1>1. LeadsAreTyped /\ KeepsItsLocks(c)  BY DEF IntakeInv
<1>2. HeldBy(c) = {}
  BY <1>1 DEF Looks, AtRest, KeepsItsLocks, Steps, OfLead, LeadsAreTyped, CallerRow
<1>3. Becomes(c, q) /\ UNCHANGED <<locked, lead, inbox, submission>> /\ calls' = calls + 1
  BY DEF Looks, Calls, records
<1>4. q \in CallerRow /\ q.step = step /\ q.row = l
  <2>1. step \in Steps  BY DEF Steps
  <2> QED BY ZenonT(40), <2>1, QuietIsTyped DEF CallerRow
<1> HIDE DEF q
<1>5. Apart(c) /\ caller'[c] = q /\ HeldBy(c)' = {}  BY <1>1, <1>2, <1>3, <1>4, GoesOn
<1>6. KeepsItsLocks(c)' /\ KnowsNoTwin(c)'
  BY <1>4, <1>5 DEF KeepsItsLocks, KnowsNoTwin, At, Steps, OfLead
<1> QED BY <1>3, <1>5, <1>6, Untouched, StepOfOne

LEMMA DeleteLeadKeeps ==
  ASSUME IntakeInv, NEW c \in Callers, DeleteLead(c)
  PROVE  IntakeInv'
<1>1. /\ LeadsAreTyped /\ Concludes(c, "rest") /\ UNCHANGED <<submission, calls>>
      /\ lead' = [lead EXCEPT ![caller[c].row] = NoRecord] /\ DOMAIN inbox' = Entries
  BY DEF DeleteLead, IntakeInv, LeadsAreTyped
<1>2. Apart(c) /\ KeepsItsLocks(c)' /\ KnowsNoTwin(c)'  BY <1>1, ConcludesEnds, EndingKeepsLocks
<1>3. NothingNew /\ lead' \in [Leads -> LeadRow \cup {NoRecord}]
  BY <1>1 DEF NothingNew, KnownLeads, LeadsAreTyped
<1> QED BY <1>1, <1>2, <1>3, StepOfOne DEF LeadsAreTyped

LEMMA ConvertLeadToClientKeeps ==
  ASSUME IntakeInv, NEW c \in Callers, ConvertLeadToClient(c)
  PROVE  IntakeInv'
<1> DEFINE l == caller[c].row
           pool == IF Holders(caller[c].seen) # {} THEN Holders(caller[c].seen) ELSE Free
           x == CHOOSE x \in pool : TRUE
           r == [lead[l] EXCEPT !.client = x]
<1>1. LeadsAreTyped /\ Concludes(c, "rest") /\ UNCHANGED <<submission, calls>>
  BY DEF ConvertLeadToClient, IntakeInv
<1>2. Apart(c) /\ KeepsItsLocks(c)' /\ KnowsNoTwin(c)'  BY <1>1, ConcludesEnds, EndingKeepsLocks
<1>3. CASE l \notin KnownLeads
  <2>1. UNCHANGED <<lead, inbox>>  BY <1>3 DEF ConvertLeadToClient
  <2> QED BY <1>1, <1>2, <2>1, Untouched, StepOfOne
<1>4. CASE l \in KnownLeads
  <2>1. lead[l] \in LeadRow /\ l \in Leads  BY <1>1, <1>4, KnownRow
  <2>2. pool # {} /\ lead' = [lead EXCEPT ![l].client = x] /\ DOMAIN inbox' = DOMAIN inbox
    BY <1>4 DEF ConvertLeadToClient
  <2>3. x \in Customers
    <3>1. pool \subseteq Customers  BY DEF Holders, Free
    <3> HIDE DEF pool
    <3> QED BY <2>2, <3>1
  <2>4. lead' = [lead EXCEPT ![l] = r]  BY <1>1, <2>1, <2>2 DEF LeadsAreTyped
  <2> HIDE DEF x
  <2>5. r \in LeadRow /\ r.edited = lead[l].edited /\ r.email = lead[l].email /\ r.phone = lead[l].phone /\ r.ref = lead[l].ref
    BY <2>1, <2>3 DEF LeadRow
  <2> HIDE DEF r
  <2>6. NothingNew /\ lead' \in [Leads -> LeadRow \cup {NoRecord}]
    BY <1>1, <1>4, <2>4, <2>5, RowChanges
  <2> QED BY <1>1, <1>2, <2>2, <2>6, StepOfOne DEF LeadsAreTyped
<1> QED BY <1>3, <1>4

LEMMA DeleteClientKeeps ==
  ASSUME IntakeInv, NEW x \in Customers, DeleteClient(x)
  PROVE  IntakeInv'
<1>1. LeadsAreTyped /\ UNCHANGED <<caller, locked, inbox, submission>> /\ calls' = calls + 1
  BY DEF DeleteClient, Calls, IntakeInv
<1>2. \A l \in Leads : lead'[l] = lead[l] \/ (l \in KnownLeads /\ lead'[l] = [lead[l] EXCEPT !.client = NoRecord])
  BY DEF DeleteClient
<1>3. \A l \in KnownLeads : lead[l] \in LeadRow  BY <1>1, KnownRow
<1>4. \A r \in LeadRow :
         LET s == [r EXCEPT !.client = NoRecord] IN
         s \in LeadRow /\ s.ref = r.ref /\ s.edited = r.edited /\ s.email = r.email /\ s.phone = r.phone
  BY DEF LeadRow
<1>5. DOMAIN lead' = Leads /\ lead' = [l \in Leads |-> lead'[l]]  BY DEF DeleteClient
<1>6. \A l \in Leads : lead'[l] \in LeadRow \cup {NoRecord}
  BY ZenonT(40), <1>1, <1>2, <1>3, <1>4 DEF LeadsAreTyped
<1>7. \A l \in KnownLeads' : l \in KnownLeads /\ lead'[l].ref = lead[l].ref /\ lead'[l].edited = lead[l].edited
                             /\ lead'[l].email = lead[l].email /\ lead'[l].phone = lead[l].phone
  <2> TAKE l \in KnownLeads'
  <2>1. l \in Leads /\ lead'[l] # NoRecord  BY DEF KnownLeads
  <2>2. CASE lead'[l] = lead[l]  BY <2>1, <2>2 DEF KnownLeads
  <2>3. CASE l \in KnownLeads /\ lead'[l] = [lead[l] EXCEPT !.client = NoRecord]  BY <1>3, <1>4, <2>3
  <2> QED BY <1>2, <2>1, <2>2, <2>3
<1>8. NothingNew  BY <1>1, <1>7 DEF NothingNew
<1>9. lead' \in [Leads -> LeadRow \cup {NoRecord}]  BY <1>5, <1>6
<1> QED BY <1>1, <1>8, <1>9, StepOfNone DEF LeadsAreTyped

LEMMA UpdateInboxKeeps ==
  ASSUME IntakeInv, NEW c \in Callers, UpdateInbox(c)
  PROVE  IntakeInv'
<1>1. /\ LeadsAreTyped /\ Concludes(c, "rest") /\ UNCHANGED <<lead, submission, calls>>
      /\ DOMAIN inbox' = Entries
  BY DEF UpdateInbox, IntakeInv, LeadsAreTyped
<1>2. Apart(c) /\ KeepsItsLocks(c)' /\ KnowsNoTwin(c)'  BY <1>1, ConcludesEnds, EndingKeepsLocks
<1>3. NothingNew /\ lead' \in [Leads -> LeadRow \cup {NoRecord}]
  BY <1>1 DEF NothingNew, KnownLeads, LeadsAreTyped
<1> QED BY <1>1, <1>2, <1>3, StepOfOne DEF LeadsAreTyped

LEMMA FindAttemptKeeps ==
  ASSUME IntakeInv, NEW c \in Callers, FindAttempt(c)
  PROVE  IntakeInv'
<1> DEFINE a == caller[c].row
           q == [caller[c] EXCEPT !.step = "submit", !.seen = submission[a]]
<1>1. LeadsAreTyped /\ KeepsItsLocks(c) /\ caller[c].step = "key" /\ MayHold(<<"attempt", a>>)
  BY DEF IntakeInv, FindAttempt, At
<1>2. a \in Attempts /\ HeldBy(c) = {}  BY <1>1 DEF KeepsItsLocks, At, Steps, OfLead
<1>3. /\ Becomes(c, q) /\ locked' = [locked EXCEPT ![<<"attempt", a>>] = c]
      /\ UNCHANGED <<lead, submission, inbox, calls>>
  BY DEF FindAttempt, records
<1>4. q \in CallerRow /\ q.step = "submit" /\ q.row = a /\ q.seen = submission[a]
  <2>1. caller[c] \in CallerRow /\ "submit" \in Steps /\ submission[a] \in Reviews \cup {NoRecord}
    BY <1>1, <1>2 DEF LeadsAreTyped, Steps
  <2> QED BY <2>1 DEF CallerRow
<1> HIDE DEF q, a
<1>5. Apart(c) /\ caller'[c] = q /\ HeldBy(c)' = HeldBy(c) \cup {<<"attempt", a>>}
  BY <1>1, <1>2, <1>3, <1>4, TakesLock, LocksAreLocks
<1>6. KeepsItsLocks(c)'  BY <1>2, <1>4, <1>5 DEF KeepsItsLocks, At, Steps, OfLead
<1>7. KnowsNoTwin(c)'  BY <1>3, <1>4, <1>5 DEF KnowsNoTwin, At
<1> QED BY <1>3, <1>5, <1>6, <1>7, Untouched, StepOfOne

\* Only the holder of the attempt's lock enters its request.
LEMMA SubmitEstimateKeeps ==
  ASSUME IntakeInv, NEW c \in Callers, SubmitEstimate(c)
  PROVE  IntakeInv'
<1> DEFINE a == caller[c].row
<1>1. /\ LeadsAreTyped /\ KeepsItsLocks(c) /\ KnowsNoTwin(c) /\ At(c, "submit") /\ UNCHANGED <<lead, calls>>
      /\ a \in Attempts /\ HeldBy(c) = {<<"attempt", a>>}
      /\ caller[c].seen = NoRecord => submission[a] = NoRecord
  BY DEF IntakeInv, SubmitEstimate, KeepsItsLocks, KnowsNoTwin
<1>2. Concludes(c, "rest")  BY <1>1 DEF SubmitEstimate
<1>3. Apart(c) /\ KeepsItsLocks(c)' /\ KnowsNoTwin(c)'  BY <1>1, <1>2, ConcludesEnds, EndingKeepsLocks
<1>4. DOMAIN inbox' = Entries  BY <1>1 DEF SubmitEstimate, LeadsAreTyped
<1>5. CASE UNCHANGED submission
  <2>1. NothingNew /\ lead' \in [Leads -> LeadRow \cup {NoRecord}]
    BY <1>1, <1>5 DEF NothingNew, KnownLeads, LeadsAreTyped
  <2> QED BY <1>1, <1>3, <1>4, <1>5, <2>1, StepOfOne DEF LeadsAreTyped
<1>6. CASE submission' = [submission EXCEPT ![a] = "NEW"]
  <2>1. LeadsAreTyped'  BY <1>1, <1>3, <1>4, <1>6 DEF LeadsAreTyped, Apart, Reviews
  <2>2. KnownLeads' = KnownLeads /\ LeadRefs' = LeadRefs  BY <1>1 DEF KnownLeads, LeadRefs
  <2>3. OneLeadPerPerson'  BY <1>1, <2>2 DEF OneLeadPerPerson, IntakeInv
  <2>4. ASSUME NEW b \in Callers \ {c} PROVE KeepsItsLocks(b)' /\ KnowsNoTwin(b)'
    <3>1. KeepsItsLocks(b) /\ KnowsNoTwin(b) /\ caller'[b] = caller[b] /\ HeldBy(b)' = HeldBy(b)
      BY <1>3 DEF IntakeInv, Apart
    <3>2. At(b, "submit") => caller[b].row # a /\ caller[b].row \in Attempts
      BY <1>1, <3>1 DEF KeepsItsLocks, HeldBy
    <3>3. At(b, "submit") => submission'[caller[b].row] = submission[caller[b].row]
      BY <1>1, <1>6, <3>2 DEF LeadsAreTyped
    <3>4. KnowsNoTwin(b)'  BY <1>1, <2>2, <3>1, <3>3 DEF KnowsNoTwin, At
    <3> QED BY <3>1, <3>4, BystanderKeepsLocks
  <2> QED BY <1>3, <2>1, <2>3, <2>4 DEF IntakeInv
<1> QED BY <1>5, <1>6 DEF SubmitEstimate

\* What the office does without a lock, other than with a lead.
LEMMA OfficeKeeps ==
  ASSUME IntakeInv,
         \/ \E e \in Emails : CreateClient(e)
         \/ \E e \in Emails, x \in Customers : UpdateClient(x, e)
         \/ \E a \in Attempts, s \in Reviews : UpdateSubmissionStatus(a, s)
         \/ ToggleForm \/ DeleteEstimateForm
  PROVE  IntakeInv'
<1>1. /\ UNCHANGED <<lead, caller, locked>> /\ calls' = calls + 1 /\ DOMAIN inbox' = DOMAIN inbox
      /\ \/ UNCHANGED submission
         \/ submission' = [a \in Attempts |-> NoRecord]
         \/ \E a \in Attempts, s \in Reviews : submission[a] # NoRecord /\ submission' = [submission EXCEPT ![a] = s]
  BY DEF CreateClient, UpdateClient, UpdateSubmissionStatus, ToggleForm, DeleteEstimateForm, Calls
<1>2. LeadsAreTyped  BY DEF IntakeInv
<1>3. submission' \in [Attempts -> Reviews \cup {NoRecord}]  BY <1>1, <1>2 DEF LeadsAreTyped
<1>4. \A a \in Attempts : submission[a] = NoRecord => submission'[a] = NoRecord
  BY <1>1, <1>2 DEF LeadsAreTyped
<1>5. NothingNew /\ lead' \in [Leads -> LeadRow \cup {NoRecord}]
  BY <1>1, <1>2, <1>4 DEF NothingNew, KnownLeads, LeadsAreTyped
<1> QED BY <1>1, <1>2, <1>3, <1>5, StepOfNone DEF LeadsAreTyped

LEMMA CallerKeeps ==
  ASSUME IntakeInv, NEW c \in Callers,
         \/ \E e \in Emails, p \in Phones \cup {NoRecord}, kind \in {"contact", "create"} : StartLead(c, kind, e, p)
         \/ TakeLock(c) \/ Abort(c) \/ MatchLead(c) \/ AllocateLeadRef(c) \/ InsertLead(c) \/ MergeContact(c)
         \/ \E l \in Leads : CheckDeleteLead(c, l) \/ CheckConvert(c, l)
         \/ DeleteLead(c) \/ ConvertLeadToClient(c)
         \/ \E n \in DOMAIN inbox : CheckInbox(c, n)
         \/ UpdateInbox(c)
         \/ \E a \in Attempts : LoadPublished(c, a)
         \/ FindAttempt(c) \/ SubmitEstimate(c)
  PROVE  IntakeInv'
<1>0. LeadsAreTyped  BY DEF IntakeInv
<1>1. CASE \E e \in Emails, p \in Phones \cup {NoRecord}, kind \in {"contact", "create"} : StartLead(c, kind, e, p)
  BY <1>1, StartLeadKeeps
<1>2. CASE TakeLock(c)  BY <1>2, TakeLockKeeps
<1>3. CASE Abort(c)  BY <1>3, AbortKeeps
<1>4. CASE MatchLead(c)  BY <1>4, MatchLeadKeeps
<1>5. CASE AllocateLeadRef(c)  BY <1>5, AllocateLeadRefKeeps
<1>6. CASE InsertLead(c)  BY <1>6, InsertLeadKeeps
<1>7. CASE MergeContact(c)  BY <1>7, MergeContactKeeps
<1>8. ASSUME NEW l \in Leads, CheckDeleteLead(c, l) PROVE IntakeInv'
  <2>1. Looks(c, "delete", "delete", l, NoRecord)  BY <1>8 DEF CheckDeleteLead
  <2> QED BY <2>1, LooksKeeps
<1>9. ASSUME NEW l \in Leads, CheckConvert(c, l) PROVE IntakeInv'
  <2>1. Looks(c, "convert", "convert", l, lead[l].email) /\ l \in KnownLeads  BY <1>9 DEF CheckConvert
  <2>2. lead[l].email \in Emails  BY <1>0, <2>1, KnownRow DEF LeadRow
  <2> DEFINE e == lead[l].email
  <2>3. Looks(c, "convert", "convert", l, e) /\ e \in Emails  BY <2>1, <2>2
  <2> HIDE DEF e
  <2> QED BY <2>3, LooksKeeps
<1>10. CASE DeleteLead(c)  BY <1>10, DeleteLeadKeeps
<1>11. CASE ConvertLeadToClient(c)  BY <1>11, ConvertLeadToClientKeeps
<1>12. ASSUME NEW n \in DOMAIN inbox, CheckInbox(c, n) PROVE IntakeInv'
  <2>1. Looks(c, "inbox", "file", n, NoRecord) /\ n \in Entries
    BY <1>0, <1>12 DEF CheckInbox, LeadsAreTyped
  <2> QED BY <2>1, LooksKeeps
<1>13. CASE UpdateInbox(c)  BY <1>13, UpdateInboxKeeps
<1>14. ASSUME NEW a \in Attempts, LoadPublished(c, a) PROVE IntakeInv'
  <2>1. Looks(c, "submit", "key", a, NoRecord) /\ a \in Entries  BY <1>14 DEF LoadPublished, Entries
  <2> QED BY <2>1, LooksKeeps
<1>15. CASE FindAttempt(c)  BY <1>15, FindAttemptKeeps
<1>16. CASE SubmitEstimate(c)  BY <1>16, SubmitEstimateKeeps
<1> QED BY <1>1, <1>2, <1>3, <1>4, <1>5, <1>6, <1>7, <1>8, <1>9, <1>10, <1>11, <1>12, <1>13, <1>14, <1>15, <1>16

LEMMA IntakeInvHolds == IntakeSpec => []IntakeInv
<1>1. InitIntake => IntakeInv
  <2> SUFFICES ASSUME InitIntake PROVE IntakeInv
    OBVIOUS
  <2>1. LeadsAreTyped  BY QuietIsTyped, IntakeAssumption DEF InitIntake, LeadsAreTyped, Entries
  <2>2. KnownLeads = {}  BY DEF InitIntake, KnownLeads
  <2>3. \A c \in Callers : caller[c].step = "rest" /\ HeldBy(c) = {}
    BY IntakeAssumption DEF InitIntake, HeldBy, Quiet
  <2> QED BY <2>1, <2>2, <2>3 DEF IntakeInv, KeepsItsLocks, KnowsNoTwin, OneLeadPerPerson, At, Steps, OfLead
<1>2. IntakeInv /\ [IntakeNext]_intakeVars => IntakeInv'
  <2> SUFFICES ASSUME IntakeInv, [IntakeNext]_intakeVars PROVE IntakeInv'
    OBVIOUS
  <2>1. CASE UNCHANGED intakeVars
    <3>1. UNCHANGED <<lead, submission, inbox, caller, locked, calls>>  BY <2>1 DEF intakeVars
    <3> QED BY <3>1, Untouched, StepOfNone
  <2>2. CASE IntakeNext
    BY <2>2, CallerKeeps, OfficeKeeps, UpdateLeadKeeps, UpdateLeadStageKeeps, DeleteClientKeeps DEF IntakeNext, Reviews
  <2> QED BY <2>1, <2>2
<1> QED BY <1>1, <1>2, PTL DEF IntakeSpec

\* Leads, requests, locks and estimate requests keep their types.
THEOREM IntakeTypeCorrect == IntakeSpec => []LeadsAreTyped
<1>1. IntakeInv => LeadsAreTyped  BY DEF IntakeInv
<1> QED BY <1>1, IntakeInvHolds, PTL

\* A visitor's enquiry and a lead that the office enters never make two leads of one
\* e-mail or phone (the advisory locks of submitContact and createLead), for any
\* callers, people, rows and mix of requests, aborted at any point.
THEOREM PeopleHaveOneLead == IntakeSpec => []OneLeadPerPerson
<1>1. IntakeInv => OneLeadPerPerson  BY DEF IntakeInv
<1> QED BY <1>1, IntakeInvHolds, PTL

------------------------
(* Nobody waits in a circle *)

\* How many more locks a caller may have to wait for.
Waits(c) ==
    IF At(c, "locks") /\ caller[c].wants # <<>>
    THEN IF caller[c].wants = <<<<"phone", caller[c].phone>>>> THEN 2 ELSE 3
    ELSE IF At(c, "ref") \/ At(c, "key") THEN 1 ELSE 0

\* The holder of a lock waits for less than who waits for the lock: a phone is taken
\* after the e-mail, the reference after both, and nothing after it or an attempt.
LEMMA HolderWaitsForLess ==
  ASSUME IntakeInv, NEW c \in Callers, NEW b \in Callers, b \in Awaited(c)
  PROVE  Waits(b) < Waits(c)
<1> DEFINE wants == caller[c].wants
           email == <<"email", caller[c].email>>
           phone == <<"phone", caller[c].phone>>
<1>1. KeepsItsLocks(c) /\ KeepsItsLocks(b) /\ LeadsAreTyped  BY DEF IntakeInv
<1>2. CASE At(c, "locks") /\ wants # <<>>
  <2>1. b = locked[Head(wants)]  BY <1>2 DEF Awaited, At
  <2>2. wants = <<email>> \/ wants = <<email, phone>> \/ wants = <<phone>>
    BY <1>1, <1>2 DEF KeepsItsLocks
  <2>3. caller[c].email \in Emails /\ caller[c].phone \in Phones \cup {NoRecord}
    BY <1>1, <1>2 DEF KeepsItsLocks, At, OfLead
  <2>4. CASE wants = <<email>> \/ wants = <<email, phone>>
    <3>1. Head(<<email>>) = email /\ Head(<<email, phone>>) = email /\ wants # <<phone>>  BY <2>4
    <3>2. email \in HeldBy(b)  BY <2>1, <2>3, <2>4, <3>1, LocksAreLocks DEF HeldBy
    <3>3. Waits(c) = 3  BY <1>2, <3>1 DEF Waits
    <3>4. CASE At(b, "locks") /\ caller[b].wants # <<>>
      <4>1. caller[b].wants = <<<<"phone", caller[b].phone>>>>  BY <1>1, <3>2, <3>4 DEF KeepsItsLocks
      <4> QED BY <3>3, <3>4, <4>1 DEF Waits
    <3>5. CASE ~(At(b, "locks") /\ caller[b].wants # <<>>)  BY <3>3, <3>5 DEF Waits
    <3> QED BY <3>4, <3>5
  <2>5. CASE wants = <<phone>>
    <3>1. Head(<<phone>>) = phone /\ caller[c].phone # NoRecord  BY <1>1, <1>2, <2>5 DEF KeepsItsLocks
    <3>2. phone \in HeldBy(b)  BY <2>1, <2>3, <2>5, <3>1, LocksAreLocks DEF HeldBy
    <3>3. Waits(c) = 2  BY <1>2, <2>5 DEF Waits
    <3>4. ~(At(b, "locks") /\ caller[b].wants # <<>>)  BY <1>1, <3>2 DEF KeepsItsLocks
    <3> QED BY <3>3, <3>4 DEF Waits
  <2> QED BY <2>2, <2>4, <2>5
<1>3. CASE At(c, "ref")
  <2>1. Ref \in HeldBy(b)  BY <1>3, LocksAreLocks DEF Awaited, HeldBy, At
  <2>2. At(b, "insert")
    <3>1. Ref # <<"email", caller[b].email>> /\ Ref # <<"phone", caller[b].phone>> /\ Ref # <<"attempt", caller[b].row>>
      BY DEF Ref
    <3>2. Ref \notin KeysOf(b)  BY <3>1 DEF KeysOf
    <3>3. caller[b].step \in Steps  BY <1>1 DEF LeadsAreTyped, CallerRow
    <3> QED BY <1>1, <2>1, <3>1, <3>2, <3>3 DEF KeepsItsLocks, At, Steps, OfLead
  <2> QED BY <1>3, <2>2 DEF Waits, At
<1>4. CASE At(c, "key")
  <2> DEFINE k == <<"attempt", caller[c].row>>
  <2>1. k \in HeldBy(b)  BY <1>1, <1>4, LocksAreLocks DEF Awaited, HeldBy, At, KeepsItsLocks
  <2>2. At(b, "submit")
    <3>1. k # <<"email", caller[b].email>> /\ k # <<"phone", caller[b].phone>> /\ k # Ref  BY DEF Ref
    <3>2. k \notin KeysOf(b)  BY <3>1 DEF KeysOf
    <3>3. caller[b].step \in Steps  BY <1>1 DEF LeadsAreTyped, CallerRow
    <3> HIDE DEF k
    <3> QED BY <1>1, <2>1, <3>1, <3>2, <3>3 DEF KeepsItsLocks, At, Steps, OfLead
  <2> QED BY <1>4, <2>2 DEF Waits, At
<1> QED BY <1>2, <1>3, <1>4 DEF Awaited

\* Of any callers that are in progress one can go on, and none fails on a reference or on
\* an idempotency key that another one has taken meanwhile (allocateLeadRef, the attempt's
\* lock of submitPublicEstimateFormFor).
THEOREM EnquiriesGoThrough == IntakeSpec => []RequestsGoThrough
<1>1. IntakeInv => RequestsGoThrough
  <2> SUFFICES ASSUME IntakeInv PROVE RequestsGoThrough
    OBVIOUS
  <2>1. ASSUME NEW S \in SUBSET Callers, S # {} PROVE \E c \in S : Awaited(c) \cap S = {}
    <3> DEFINE T == {Waits(c) : c \in S}
    <3>0. \A c \in Callers : Waits(c) \in Nat  BY DEF Waits
    <3>1. T \in SUBSET Nat /\ T # {}  BY <2>1, <3>0
    <3> HIDE DEF T
    <3>2. PICK m \in T : \A k \in T : m <= k  BY <3>1, LeastNatural
    <3>3. PICK c \in S : m = Waits(c)  BY <3>2 DEF T
    <3>4. ASSUME NEW b \in Awaited(c) \cap S PROVE FALSE
      <4>1. Waits(b) < m  BY <3>3, HolderWaitsForLess
      <4>2. Waits(b) \in T  BY DEF T
      <4>3. m <= Waits(b) /\ m \in Nat /\ Waits(b) \in Nat  BY <3>0, <3>1, <3>2, <4>2
      <4> QED BY <4>1, <4>3
    <3> QED BY <3>4
  <2>2. \A c \in Callers : ~At(c, "collided")
    BY DEF IntakeInv, LeadsAreTyped, CallerRow, Steps, OfLead, At
  <2> QED BY <2>1, <2>2 DEF RequestsGoThrough
<1> QED BY <1>1, IntakeInvHolds, PTL
================================================================================
