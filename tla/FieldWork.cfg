SPECIFICATION MCSpec
CONSTANTS
  Visitors = {v1, v2}
  Office = {o1}
  Portals = {p1}
  Keys = {k1, k2}
  Bookings = {b1, b2}
  Capacities = {1, 2}
  Limit = 2
  Mixes <- MCMixes
  NoCall = NoCall
  NoBooking = NoBooking
  NoKey = NoKey
  Crew = {c1, c2}
  Jobs = {j1, j2}
  Staff = {s1, s2}
  Times = {1, 2}
  Tokens = {t1, t2, t3}
  NoToken = NoToken
  Nobody = Nobody
  Files = {b1, b2}
  Places = {j1, j2}
  Workers = {c1, c2}
  MediaMixes <- MCMediaMixes
  Nothing = Nothing
  Legacy = Legacy
  Offerings = {"x", "y"}
  TermSets <- MCTermSets
  EntryLists <- MCEntryLists
  Timetables <- MCTimetables
  Latest = 2
  Spans <- MCSpans
  AddOnLists <- MCAddOnLists
  AreaLists <- MCAreaLists
  Spots <- MCSpots
  Houses <- MCHouses
  Contact = {"name", "email"}
  AskLists <- MCAskLists
  Desks = {c1, c2}
  MaxChanges = 2
  FormMixes <- MCFormMixes
  Missing = Missing
SYMMETRY Symmetric
INVARIANTS NeverOverbooked BookedOnceAndSaidSo CompletionIsWhole NoDoubleDispatch FilesAreThere OfferedIsAccepted
CHECK_DEADLOCK FALSE
