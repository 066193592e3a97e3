------------------------------ MODULE PublicForms ------------------------------
(* The page of one booking or estimate form: what the office puts on it, what  *)
(* a visitor is shown, and what a submission accepts.  The page, the calendar, *)
(* the live price and the submission each decide from rows they read           *)
(* themselves, and the page of a booking form may come from a copy in Redis    *)
(* that others have to drop.  Idempotency, the locks and the conversion of a   *)
(* submission are in OnlineBooking and Intake.                                 *)
EXTENDS Integers, Sequences, FiniteSets
LOCAL Sets == INSTANCE FiniteSetsExt

CONSTANTS
    Offerings,    \* services of the catalogue
    TermSets,     \* what a service costs: [price, addOns: ids -> price]
    EntryLists,   \* the services the office may put on the form
    Timetables,   \* [windows, duration, buffer, capacity, closed]: one date
    Latest,       \* the last time of that date
    Spans,     \* [from, length]: what may be in the calendar
    AddOnLists,   \* add-ons of an estimate form: ids -> price
    AreaLists,    \* [postcodes, cities]: where the business works
    Spots,        \* [area, district, city]: where visitors live
    Houses,       \* [bedrooms, bathrooms]
    Contact,      \* the questions every estimate asks
    AskLists,     \* the required questions of a form
    Desks,        \* concurrent requests of the office
    MaxChanges,   \* bound on its changes
    FormMixes,    \* what happens in a behaviour
    Missing

ASSUME PublicFormAssumption ==
    /\ Latest \in Nat /\ MaxChanges \in Nat /\ Missing \notin Spans
    /\ \A tt \in Timetables : tt.duration \in Nat \ {0} /\ tt.buffer \in Nat

VARIABLES
    catalogue,    \* Offerings -> [active, online, type, terms]
    publicForm,   \* the form's row, with its services, questions and add-ons
    kept,         \* [page, listed, clean]: the copy in Redis, and whether the index names it
    viewer,       \* what a visitor was shown
    desk,         \* Desks -> the request in progress
    taken,        \* times -> open submissions
    appointment,  \* a booking of the calendar: [from, length], or Missing
    admits,       \* whether the plan and the state of the tenant allow the page
    affairs,      \* the kind of the form and what happens in this behaviour
    changes

formVars == <<catalogue, publicForm, kept, viewer, desk, taken, appointment, admits, affairs, changes>>

IsBooking == "booking" \in affairs
Given(x) == x # Missing
TimesOfDay == 0..Latest
Refused == <<>>

(* ------------------------- The services of a form ------------------------- *)

\* Requests of old clients name a type only: the services it may mean.
Promoted(e) == {s \in Offerings : catalogue[s].active /\ catalogue[s].type = e.type}
ServiceOf(e) ==
    IF Given(e.service) \/ ~Given(e.type) \/ Promoted(e) = {} THEN e.service
    ELSE CHOOSE s \in Promoted(e) : TRUE

Resolved(e) ==
    LET s == IF IsBooking THEN ServiceOf(e) ELSE e.service
    IN [e EXCEPT !.service = s,
                 !.type = IF Given(s) /\ Given(catalogue[s].type) THEN catalogue[s].type ELSE e.type]

Identity(e) == IF Given(e.service) THEN <<"catalog", e.service>> ELSE <<"legacy", e.type>>

\* A booking form has each service once, and no type that could mean several.
ResolveFormServices(list) ==
    /\ \A i \in DOMAIN list : Given(list[i].service) => catalogue[list[i].service].active
    /\ \A i \in DOMAIN list : ~Given(list[i].service) => Cardinality(Promoted(list[i])) <= 1
    /\ \A i, j \in DOMAIN list : i # j => Identity(Resolved(list[i])) # Identity(Resolved(list[j]))
ResolveEstimateFormServices(list) ==
    \A i \in DOMAIN list : Given(list[i].service) => catalogue[list[i].service].active

Entries == {publicForm.entries[i] : i \in DOMAIN publicForm.entries}

\* Add-ons of the catalogue without a valid price are left out.
ProjectBookingAddOns(terms) ==
    [a \in {a \in DOMAIN terms.addOns : terms.addOns[a] >= 0} |-> terms.addOns[a]]
AddOnsOf(e) ==
    IF ~IsBooking THEN publicForm.addOns
    ELSE IF Given(e.service) THEN ProjectBookingAddOns(catalogue[e.service].terms) ELSE <<>>

BasePrice(e) ==
    IF ~IsBooking /\ Given(e.price) THEN e.price
    ELSE IF Given(e.service) THEN catalogue[e.service].terms.price ELSE Missing

AddOnTotal(prices, chosen) == Sets!MapThenSumSet(LAMBDA a : prices[a], chosen)

\* The price of an estimate lies between 90 and 180 per cent of the base, for the size of the house.
Percent(house) == Sets!Max({10, 100 + 22 * (house.bedrooms - 1) + 10 * (house.bathrooms - 1)})
Rounded(thousandths) == (thousandths + 500) \div 1000
CalculatePricing(base, extra, house) ==
    IF ~Given(base) THEN <<-1, extra>>
    ELSE <<Rounded(base * 9 * Percent(house)) + extra, Rounded(base * 18 * Percent(house)) + extra>>

\* A booking costs the price of the service and of the add-ons.
TotalOf(base, extra) == LET t == (IF Given(base) THEN base ELSE 0) + extra IN <<t, t>>

PriceOf(base, prices, order) ==
    LET extra == AddOnTotal(prices, order.addOns)
    IN IF IsBooking THEN TotalOf(base, extra) ELSE CalculatePricing(base, extra, order.house)

(* -------------------------- The page, when loaded ------------------------- *)

Reachable == publicForm.stage = "there" /\ publicForm.published /\ admits

\* Which services the page offers.
PublicServices ==
    {e \in Entries :
        /\ e.enabled
        /\ IF Given(e.service)
           THEN catalogue[e.service].active /\ (IsBooking => catalogue[e.service].online)
           ELSE Given(e.type)}

\* An estimate asks for name, e-mail and telephone whether the form has such fields or not.
BuildPublicFields == IF IsBooking THEN publicForm.asks ELSE publicForm.asks \cup Contact

PublicPage ==
    [offers |-> {[service |-> e.service, type |-> e.type, price |-> BasePrice(e), addOns |-> AddOnsOf(e)] :
                    e \in PublicServices},
     asks |-> BuildPublicFields]

(* ------------------------------- The calendar ----------------------------- *)

\* Within a window, slots follow each other with the buffer between them.
GenerateSlotsFromWindows(tt) ==
    {t \in TimesOfDay :
        \E w \in tt.windows, k \in TimesOfDay :
            t = w.from + k * (tt.duration + tt.buffer) /\ t + tt.duration <= w.to}

Longest(n) == IF n < 1 THEN 1 ELSE n
Overlapped(t, tt) ==
    IF Given(appointment) /\ appointment.from < t + tt.duration
                          /\ appointment.from + Longest(appointment.length) > t
    THEN 1 ELSE 0
TakenAt(t) == taken[t] + Overlapped(t, publicForm.timetable)

\* Mutation of GetPublicSlotAvailability: bookings of the calendar do not count.
SlotsWithoutSubmission ==
    {t \in GenerateSlotsFromWindows(publicForm.timetable) :
        ~publicForm.timetable.closed /\ taken[t] < publicForm.timetable.capacity}

GetPublicSlotAvailability ==
    {t \in GenerateSlotsFromWindows(publicForm.timetable) :
        ~publicForm.timetable.closed /\ TakenAt(t) < publicForm.timetable.capacity}

(* ------------------------- Coverage of an estimate ------------------------ *)

\* "AB1" stands for AB1 and AB10 to AB19, "AB1-3" for exactly these districts.
PostcodeRuleMatches(spot, rule) ==
    /\ spot.area = rule.area
    /\ IF rule.range THEN spot.district \in rule.from..rule.to
       ELSE spot.district = rule.from \/ spot.district \div 10 = rule.from

EvaluateCoverage(spot) ==
    \/ publicForm.areas.postcodes = {} /\ publicForm.areas.cities = {}
    \/ \E rule \in publicForm.areas.postcodes : PostcodeRuleMatches(spot, rule)
    \/ spot.city \in publicForm.areas.cities

(* ----------------------- What a submission accepts ------------------------ *)

\* Old clients send the type alone.
MatchingServices(order) ==
    {e \in Entries :
        /\ e.enabled
        /\ IF Given(order.service) THEN e.service = order.service
           ELSE /\ Given(order.type)
                /\ \/ e.type = order.type
                   \/ IsBooking /\ Given(e.service) /\ catalogue[e.service].type = order.type}

\* Questions of a booking form about the person are answered by the request itself.
ValidateCustomAnswers(order) == BuildPublicFields \ Contact \subseteq order.answers
ValidateAnswers(order) == BuildPublicFields \subseteq order.answers

SubmittedFor(e, order) ==
    IF \/ Given(e.service) /\ ~(catalogue[e.service].active /\ (IsBooking => catalogue[e.service].online))
       \/ ~(order.addOns \subseteq DOMAIN AddOnsOf(e))
       \/ ~IsBooking /\ ~EvaluateCoverage(order.spot)
       \/ ~(IF IsBooking THEN ValidateCustomAnswers(order) ELSE ValidateAnswers(order))
    THEN Refused ELSE PriceOf(BasePrice(e), AddOnsOf(e), order)

\* The code takes the first match in an order the query leaves open.
SubmitPublicForm(order) ==
    LET found == MatchingServices(order)
    IN IF ~Reachable \/ found = {} \/ (IsBooking /\ ~Given(order.service) /\ Cardinality(found) > 1)
       THEN {Refused} ELSE {SubmittedFor(e, order) : e \in found}

\* The live price of an estimate asks for no answers.
CalculatedFor(e, order) ==
    IF \/ Given(e.service) /\ ~catalogue[e.service].active
       \/ ~(order.addOns \subseteq DOMAIN AddOnsOf(e)) \/ ~EvaluateCoverage(order.spot)
    THEN Refused ELSE PriceOf(BasePrice(e), AddOnsOf(e), order)
CalculatePublicEstimate(order) ==
    LET found == MatchingServices(order)
    IN IF ~Reachable \/ found = {} THEN {Refused} ELSE {CalculatedFor(e, order) : e \in found}

TimeAccepted(t) ==
    /\ ~publicForm.timetable.closed
    /\ t \in GenerateSlotsFromWindows(publicForm.timetable)
    /\ TakenAt(t) < publicForm.timetable.capacity

(* --------------------------------- Visitors ------------------------------- *)

Away == [step |-> "away", page |-> Missing, sound |-> FALSE, clean |-> FALSE,
         times |-> {}, timely |-> FALSE]
NoPage == [page |-> Missing, listed |-> FALSE, clean |-> TRUE]

\* The office has changed rows and the copy has yet to be dropped.
InFlight == \E d \in Desks : desk[d].step \in {"changed", "listed", "dropped"}

rowsOfForm == <<catalogue, publicForm, taken, appointment, admits>>

\* A copy is served once the tenant's access has been checked.
GetCachedBookingForm ==
    /\ IsBooking /\ viewer.step = "away" /\ Given(kept.page) /\ admits
    /\ viewer' = [Away EXCEPT !.step = "open", !.page = kept.page, !.sound = kept.clean /\ ~InFlight]
    /\ UNCHANGED <<rowsOfForm, kept, desk, affairs, changes>>

\* Pages of a website are asked for by id and kept; others are asked for by their slug.
GetPublicForm(byId) ==
    /\ viewer.step = "away" /\ Reachable
    /\ byId => IsBooking /\ ~Given(kept.page)
    /\ viewer' = [Away EXCEPT !.step = IF byId THEN "filling" ELSE "open",
                              !.page = PublicPage, !.sound = TRUE, !.clean = ~InFlight]
    /\ UNCHANGED <<rowsOfForm, kept, desk, affairs, changes>>

\* The copy and its entry in the index are written by two calls nobody waits for.
CacheBookingForm(stored, listed) ==
    /\ viewer.step = "filling"
    /\ "errors" \notin affairs => stored /\ listed
    /\ kept' = [page |-> IF stored THEN viewer.page ELSE kept.page,
                listed |-> kept.listed \/ listed,
                clean |-> IF stored THEN viewer.clean /\ ~InFlight /\ listed ELSE kept.clean]
    /\ viewer' = [viewer EXCEPT !.step = "open"]
    /\ UNCHANGED <<rowsOfForm, desk, affairs, changes>>

AskForTimes ==
    /\ IsBooking /\ viewer.step = "open" /\ Reachable /\ "hours" \in affairs
    /\ viewer' = [viewer EXCEPT !.times = GetPublicSlotAvailability, !.timely = TRUE]
    /\ UNCHANGED <<rowsOfForm, kept, desk, affairs, changes>>

Leave ==
    /\ viewer.step = "open"
    /\ viewer' = Away
    /\ UNCHANGED <<rowsOfForm, kept, desk, affairs, changes>>

\* Somebody, perhaps this visitor, books an open time.
SubmitForTime(t) ==
    /\ IsBooking /\ "hours" \in affairs /\ Reachable /\ TimeAccepted(t)
    /\ taken' = [taken EXCEPT ![t] = @ + 1]
    /\ viewer' = [viewer EXCEPT !.timely = FALSE]
    /\ UNCHANGED <<catalogue, publicForm, appointment, admits, kept, desk, affairs, changes>>

ExpireCopy ==
    /\ Given(kept.page)
    /\ kept' = [kept EXCEPT !.page = Missing, !.clean = TRUE]
    /\ UNCHANGED <<rowsOfForm, viewer, desk, affairs, changes>>

(* --------------------------------- The office ----------------------------- *)

\* What visitors have been shown may no longer be so.
Shaken == [viewer EXCEPT !.sound = FALSE, !.timely = FALSE, !.clean = FALSE]
Counting == changes < MaxChanges /\ changes' = changes + 1

\* A booking entered elsewhere, moved or cancelled.
ChangeAppointment(to) ==
    /\ "hours" \in affairs /\ to # appointment /\ Counting
    /\ appointment' = to
    /\ viewer' = [viewer EXCEPT !.timely = FALSE]
    /\ UNCHANGED <<catalogue, publicForm, taken, admits, kept, desk, affairs>>

ChangeAdmission ==
    /\ "access" \in affairs /\ Counting
    /\ admits' = ~admits
    /\ viewer' = Shaken
    /\ UNCHANGED <<catalogue, publicForm, taken, appointment, kept, desk, affairs>>

\* The office may be one person who does one thing after the other.
Turn(d) == desk[d].step = "idle" /\ ("alone" \in affairs => \A other \in Desks : desk[other].step = "idle")
Goes(d, request) ==
    /\ Turn(d) /\ request.part \in affairs
    /\ desk' = [desk EXCEPT ![d] = request]
    /\ UNCHANGED <<rowsOfForm, kept, viewer, affairs, changes>>
Request(part, value) == [step |-> "read", part |-> part, value |-> value, saw |-> FALSE]
AtRest == [Request("none", Missing) EXCEPT !.step = "idle"]

\* The services are resolved, and the other parts checked, before the transaction.
PrepareUpdate(d) ==
    /\ publicForm.stage = "there"
    /\ \/ \E list \in EntryLists :
            /\ IF IsBooking THEN ResolveFormServices(list) ELSE ResolveEstimateFormServices(list)
            /\ Goes(d, Request("entries", [i \in DOMAIN list |-> Resolved(list[i])]))
       \/ \E tt \in Timetables : Goes(d, Request("timetable", tt))
       \/ \E asks \in AskLists : Goes(d, Request("asks", asks))
       \/ \E prices \in AddOnLists : Goes(d, Request("addOns", prices))
       \/ \E areas \in AreaLists : Goes(d, Request("areas", areas))
       \/ Goes(d, Request("published", ~publicForm.published))
PrepareDelete(d) == publicForm.stage = "there" /\ Goes(d, Request("delete", Missing))
PrepareCreate(d) == publicForm.stage = "never" /\ Goes(d, Request("create", Missing))

\* A booking form has a copy to drop, an estimate form has none.
Follows(d) == [desk[d] EXCEPT !.step = IF IsBooking THEN "changed" ELSE "idle"]

WriteForm(d, row) ==
    /\ Counting
    /\ publicForm' = row
    /\ viewer' = Shaken
    /\ desk' = [desk EXCEPT ![d] = Follows(d)]
    /\ UNCHANGED <<catalogue, taken, appointment, admits, kept, affairs>>

UpdateForm(d) ==
    /\ desk[d].step = "read" /\ desk[d].part \notin {"create", "delete"} /\ publicForm.stage = "there"
    /\ WriteForm(d, [publicForm EXCEPT ![desk[d].part] = desk[d].value])
DeleteForm(d) ==
    /\ desk[d].step = "read" /\ desk[d].part = "delete" /\ publicForm.stage = "there"
    /\ WriteForm(d, [publicForm EXCEPT !.stage = "gone"])
\* A new form is not published.
CreateForm(d) ==
    /\ desk[d].step = "read" /\ desk[d].part = "create" /\ publicForm.stage = "never"
    /\ WriteForm(d, [publicForm EXCEPT !.stage = "there", !.published = FALSE])
\* The form has gone or has been created meanwhile: the write fails.
FailToWrite(d) ==
    /\ desk[d].step = "read"
    /\ publicForm.stage # (IF desk[d].part = "create" THEN "never" ELSE "there")
    /\ desk' = [desk EXCEPT ![d].step = "idle"]
    /\ UNCHANGED <<rowsOfForm, kept, viewer, affairs, changes>>

\* A service is changed in one transaction; the copies of all forms are dropped by the index.
ChangeService(d, s) ==
    /\ Turn(d) /\ "service" \in affairs /\ Counting
    /\ \/ catalogue' = [catalogue EXCEPT ![s].active = ~@]
       \/ catalogue' = [catalogue EXCEPT ![s].online = ~@]
       \/ \E terms \in TermSets : catalogue' = [catalogue EXCEPT ![s].terms = terms]
       \/ "retype" \in affairs /\ \E other \in Offerings : catalogue' = [catalogue EXCEPT ![s].type = catalogue[other].type]
    /\ viewer' = Shaken
    /\ desk' = [desk EXCEPT ![d] = [Request("service", Missing) EXCEPT !.step = "changed"]]
    /\ UNCHANGED <<publicForm, taken, appointment, admits, kept, affairs>>

\* The index is read, what it names and the form itself are dropped, the index is dropped.
ListCopies(d) ==
    /\ desk[d].step = "changed"
    /\ \E heard \in (IF "errors" \in affairs THEN BOOLEAN ELSE {TRUE}) :
         desk' = [desk EXCEPT ![d].step = "listed", ![d].saw = heard /\ kept.listed]
    /\ UNCHANGED <<rowsOfForm, kept, viewer, affairs, changes>>
\* Creating a form and changing a service drop what the index names and no more.
Named(d) == desk[d].saw \/ desk[d].part \notin {"service", "create"}
InvalidateCopies(d) ==
    /\ desk[d].step = "listed"
    /\ \E heard \in (IF "errors" \in affairs THEN BOOLEAN ELSE {TRUE}) :
         kept' = IF heard /\ Named(d) THEN [kept EXCEPT !.page = Missing, !.clean = TRUE]
                 ELSE [kept EXCEPT !.clean = @ /\ ~Given(kept.page)]
    /\ desk' = [desk EXCEPT ![d].step = "dropped"]
    /\ UNCHANGED <<rowsOfForm, viewer, affairs, changes>>
DropIndex(d) ==
    /\ desk[d].step = "dropped"
    /\ \E heard \in (IF "errors" \in affairs THEN BOOLEAN ELSE {TRUE}) :
         kept' = [kept EXCEPT !.listed = @ /\ ~heard]
    /\ desk' = [desk EXCEPT ![d] = AtRest]
    /\ UNCHANGED <<rowsOfForm, viewer, affairs, changes>>

(* ------------------------------- Specification ---------------------------- *)

FormsInit(mixes, catalogues, rows) ==
    /\ affairs \in mixes
    /\ catalogue \in catalogues
    /\ publicForm \in rows
    /\ kept = NoPage /\ viewer = Away
    /\ desk = [d \in Desks |-> AtRest]
    /\ taken = [t \in TimesOfDay |-> 0] /\ appointment = Missing
    /\ admits = TRUE /\ changes = 0

FormsNext ==
    \/ GetCachedBookingForm \/ AskForTimes \/ Leave \/ ExpireCopy \/ ChangeAdmission
    \/ \E byId \in BOOLEAN : GetPublicForm(byId)
    \/ \E stored, listed \in BOOLEAN : CacheBookingForm(stored, listed)
    \/ \E t \in TimesOfDay : SubmitForTime(t)
    \/ \E to \in {Missing} \cup Spans : ChangeAppointment(to)
    \/ \E d \in Desks :
         \/ PrepareUpdate(d) \/ PrepareDelete(d) \/ PrepareCreate(d)
         \/ UpdateForm(d) \/ DeleteForm(d) \/ CreateForm(d) \/ FailToWrite(d)
         \/ \E s \in Offerings : ChangeService(d, s)
         \/ ListCopies(d) \/ InvalidateCopies(d) \/ DropIndex(d)

(* -------------------------------- Properties ------------------------------ *)

\* A visitor who takes an offer answers what the page asks.
OrdersFor(offer) ==
    {[service |-> offer.service, type |-> IF Given(offer.service) THEN Missing ELSE offer.type,
      addOns |-> chosen, answers |-> viewer.page.asks \cup Contact, spot |-> spot, house |-> house] :
        chosen \in SUBSET DOMAIN offer.addOns, spot \in Spots, house \in Houses}

\* An estimate form may name a service or a type several times, and takes any of them.
NamesEachOnce ==
    \A e, f \in Entries :
        /\ e # f /\ Given(e.service) => e.service # f.service
        /\ e # f /\ Given(e.type) => e.type # f.type

\* Everything a visitor is offered is accepted, and at the price he was shown, unless something
\* was changed after he was shown it: the services and add-ons of the page (bookingForm.service.ts
\* 742-766, estimateForm.service.ts 816-827), whether read or kept, the open times of the calendar
\* (851-866) and the live price of an estimate (907-912).  Excluded are copies whose filling met an
\* invalidation or a failing Redis, services that change their type, and estimate forms with a
\* service or type named twice.
OfferedIsAccepted ==
    /\ viewer.sound /\ "retype" \notin affairs /\ (IsBooking \/ NamesEachOnce) =>
         \A offer \in viewer.page.offers : \A order \in OrdersFor(offer) :
            LET shown == PriceOf(offer.price, offer.addOns, order)
            IN IF IsBooking THEN SubmitPublicForm(order) = {shown}
               ELSE /\ CalculatePublicEstimate(order) = SubmitPublicForm(order)
                    /\ EvaluateCoverage(order.spot) => SubmitPublicForm(order) = {shown}
    /\ viewer.timely => \A t \in viewer.times : TimeAccepted(t)
================================================================================
