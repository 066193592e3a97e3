------------------------------ MODULE MCFieldWork ------------------------------
(* Each mix is one setting: the website by itself with retries and crashes, the
   office at its desk, jobs raced by their crews, dispatching, reviews, leave;
   or, in a behaviour of its own, what happens to the files of a tenant, or the
   page of a public form.                                                      *)
EXTENDS FieldWork, MediaStorage, PublicForms, TLC

MCMixes == {
    {},
    {"submit", "convert", "die", "race"},
    {"submit", "decide", "request", "status", "delete"},
    {"submit", "inbox", "review", "convert", "elsewhere"},
    {"submit", "updateForm", "die"},
    {"create", "update", "delete", "status", "race"},
    {"booked", "job", "jobStatus", "check", "assign", "race"},
    {"create", "job", "jobStatus", "delete"},
    {"job", "assign", "move", "check", "dispatch", "jobStatus"},
    {"job", "dispatch", "leave"},
    {"booked", "job", "jobStatus", "reviews", "race", "deleteJob"}}

Records(does, of) == [duties |-> does, kinds |-> of]
MCMediaMixes == {
    Records({"initiate", "finalize", "delete", "race", "fail"}, {"logo"}),
    Records({"initiate", "finalize", "old", "race", "fail", "crash"}, {"logo"}),
    Records({"initiate", "finalize", "attach", "clear", "fail"}, {"receipt", "attachment"}),
    Records({"upload", "attach", "clear", "delete", "fail", "crash"},
            {"avatar", "logo", "receipt", "expense", "attachment"}),
    Records({"upload", "attach", "clear", "race"}, {"attachment"}),
    Records({"migrate", "clear", "fail", "crash"}, {"expense"}),
    Records({"migrate", "upload", "race"}, {"avatar"})}
NoRecords == {Records({}, {"logo"})}

Entry(service, type, price) == [service |-> service, type |-> type, enabled |-> TRUE, price |-> price]
Terms(price, addOns) == [price |-> price, addOns |-> addOns]
MCTermSets == {Terms(3, [a1 |-> 1]), Terms(5, [a1 |-> -1, a2 |-> 2])}
MCEntryLists == {
    <<Entry("x", Missing, Missing)>>,
    <<Entry("x", Missing, 4), Entry("y", Missing, Missing)>>,
    <<Entry("x", Missing, 4), Entry("x", Missing, 2)>>,
    <<Entry("y", Missing, Missing), Entry(Missing, "T", Missing)>>,
    <<[Entry("x", Missing, Missing) EXCEPT !.enabled = FALSE], Entry(Missing, "U", Missing)>>}

Window(from, to) == [from |-> from, to |-> to]
Hours(windows, duration, buffer, capacity, closed) ==
    [windows |-> windows, duration |-> duration, buffer |-> buffer, capacity |-> capacity, closed |-> closed]
Morning == Hours({Window(0, 2)}, 1, 0, 1, FALSE)
MCTimetables == {Morning, [Morning EXCEPT !.closed = TRUE], Hours({Window(0, 3)}, 2, 1, 1, FALSE),
                 Hours({Window(0, 2), Window(1, 3)}, 1, 1, 2, FALSE)}
MCSpans == {[from |-> 0, length |-> 2], [from |-> 1, length |-> 0]}
MCAddOnLists == {<<>>, [e1 |-> 1], [e2 |-> 2]}

Rule(from, to, range) == [area |-> "N", from |-> from, to |-> to, range |-> range]
Areas(rules, cities) == [postcodes |-> rules, cities |-> cities]
MCAreaLists == {Areas({}, {}), Areas({Rule(1, 1, FALSE)}, {"Bath"}), Areas({Rule(1, 3, TRUE)}, {})}
Spot(area, district, city) == [area |-> area, district |-> district, city |-> city]
MCSpots == {Spot("N", 1, Missing), Spot("N", 11, Missing), Spot("S", 1, "Bath")}
MCHouses == {[bedrooms |-> 1, bathrooms |-> 1], [bedrooms |-> 3, bathrooms |-> 0]}
MCAskLists == {{}, {"name", "pets"}}

MCFormMixes == {
    {"booking", "entries", "service", "alone"},
    {"booking", "hours", "timetable", "alone"},
    {"booking", "published", "delete", "access"},
    {"booking", "create", "published", "service", "errors", "alone"},
    {"booking", "service", "retype", "alone"},
    {"booking", "asks", "errors", "published", "alone"},
    {"booking", "service"},
    {"estimate", "entries", "service", "alone"},
    {"estimate", "areas", "addOns", "asks", "alone"},
    {"estimate", "published", "access", "delete"}}
MCCatalogue ==
    [s \in Offerings |-> [active |-> TRUE, online |-> TRUE, type |-> IF s = "x" THEN "T" ELSE Missing,
                          terms |-> Terms(3, [a1 |-> 1])]]
MCForm(stage) ==
    [stage |-> stage, published |-> TRUE, entries |-> <<Entry("x", "T", Missing)>>, timetable |-> Morning,
     asks |-> {}, addOns |-> <<>>, areas |-> Areas({}, {})]

MCInit ==
    /\ FieldInit
    /\ MediaInit(IF ops = {} THEN MCMediaMixes \cup NoRecords ELSE NoRecords)
    /\ FormsInit(IF ops = {} /\ duties = {} THEN MCFormMixes ELSE {{}}, {MCCatalogue},
                 {MCForm(IF "create" \in affairs THEN "never" ELSE "there")})

MCNext ==
    \/ ops # {} /\ FieldNext /\ UNCHANGED <<fileVars, formVars>>
    \/ duties # {} /\ MediaNext /\ UNCHANGED <<workVars, formVars>>
    \/ affairs # {} /\ FormsNext /\ UNCHANGED <<workVars, fileVars>>

MCSpec == MCInit /\ [][MCNext]_<<workVars, fileVars, formVars>>

\* No behaviour has two of files, jobs and forms: they share the model values of these sets.
Symmetric == Permutations(Visitors) \cup Permutations(Crew) \cup Permutations(Bookings)
             \cup Permutations(Jobs) \cup Permutations(Staff)
================================================================================
