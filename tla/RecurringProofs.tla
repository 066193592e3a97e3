----------------------------- MODULE RecurringProofs -----------------------------
(***************************************************************************)
(* Theorems about recurring schedules: the engine that books occurrences   *)
(* (RecurringBooking) and the calendar their dates come from               *)
(* (RecurringCalendar).                                                    *)
(*                                                                         *)
(* The engine books from a selection it made before an await, without      *)
(* reading the schedule again, and resumeSchedule writes an occurrence it  *)
(* computed earlier.  With one engine and one handler at a time that is    *)
(* harmless, for any period, horizon and number of bookings: whatever lies *)
(* in somebody's hands is later than everything booked.  That is the       *)
(* invariant; with two of either it does not hold, see the README.         *)
(*                                                                         *)
(* About the calendar: weekly and biweekly schedules keep their day of the *)
(* week, and a monthly schedule has an occurrence in every month, whatever *)
(* the lengths of the months.                                              *)
(***************************************************************************)
EXTENDS RecurringBooking, RecurringCalendar, TLAPS

(* The engine *)

\* Runs do not overlap, and neither do the office's requests.
OneEngine == \A d, e \in Engines : d = e
OneHandler == \A q, r \in Requests : q = r

\* Nothing but pausing, resuming, cancelling and deleting.
OnlyStopped == mode.ops \cap {"updateSchedule", "generateNextBooking"} = {}

BookedBefore(t) == \A i \in 1 .. Len(bookings) : bookings[i].at < t

IsRunning(e) == run[e] # NoRun

Resumes(r) == call[r] # NoCall /\ call[r].op = "resumeSchedule"

BookingShapes ==
    /\ now \in Nat
    /\ schedule \in [status : RecurringStatus \cup {"DELETED"}, next : Int]
    /\ bookings \in Seq([at : Int, linked : BOOLEAN])
    /\ run \in [Engines -> Int \cup {NoRun}]
    /\ call \in [Requests -> [op : mode.ops, next : Int] \cup {NoCall}]

\* What has been booked lies behind whatever may be booked next.
BookedIsBehind ==
    /\ \A i \in 1 .. Len(bookings) - 1 : bookings[i].at < bookings[i + 1].at
    /\ BookedBefore(now + 1)
    /\ BookedBefore(schedule.next)
    /\ \A e \in Engines : IsRunning(e) => run[e] <= now /\ BookedBefore(run[e])
    /\ \A r \in Requests : Resumes(r) =>
        /\ schedule.status # "ACTIVE"
        /\ BookedBefore(call[r].next)
        /\ \A e \in Engines : IsRunning(e) => run[e] < call[r].next

\* A schedule nobody touches is exactly as far as its bookings.
NoneIsLeftOut ==
    /\ schedule.next = Period * (Len(bookings) + 1)
    /\ \A i \in 1 .. Len(bookings) : bookings[i].at = Period * i
    /\ \A e \in Engines : IsRunning(e) => run[e] = Period * (Len(bookings) + 1)

BookingInv ==
    /\ BookingShapes
    /\ OnlyStopped => BookedIsBehind
    /\ mode.ops = {} => NoneIsLeftOut

------------------------
LEMMA NextMultiple ==
  ASSUME NEW t \in Nat, NEW p \in Nat, p > 0
  PROVE  p * (t \div p + 1) \in Int /\ t < p * (t \div p + 1)
  OBVIOUS

\* computeNextRunAt never answers with an occurrence whose time has come.
LEMMA OccurrenceAfterIsLater ==
  ASSUME NEW t \in Nat
  PROVE  OccurrenceAfter(t) \in Int /\ t < OccurrenceAfter(t)
  BY NextMultiple, RecurringAssumption DEF OccurrenceAfter

LEMMA FirstOccurrence == OccurrenceAfter(0) = Period
<1>1. Period \in Nat /\ Period > 0  BY RecurringAssumption
<1>2. 0 \div Period = 0  BY <1>1
<1> QED BY <1>1, <1>2 DEF OccurrenceAfter

LEMMA ElementInSeq ==
  ASSUME NEW S, NEW s \in Seq(S), NEW i \in 1 .. Len(s)
  PROVE  s[i] \in S
  OBVIOUS

LEMMA BookedAtSomeTime ==
  ASSUME BookingShapes
  PROVE  /\ Len(bookings) \in Nat
         /\ \A i \in 1 .. Len(bookings) : bookings[i].at \in Int
<1>1. bookings \in Seq([at : Int, linked : BOOLEAN])  BY DEF BookingShapes
<1>2. ASSUME NEW i \in 1 .. Len(bookings) PROVE bookings[i].at \in Int
  <2>1. bookings[i] \in [at : Int, linked : BOOLEAN]  BY <1>1, ElementInSeq
  <2> QED BY <2>1
<1>3. Len(bookings) \in Nat  BY <1>1
<1> QED BY <1>2, <1>3

\* What BookFrom leaves behind: one more booking, at the occurrence.
LEMMA BookFromAppends ==
  ASSUME BookingShapes, NEW occurrence \in Int, NEW isLinked \in BOOLEAN,
         BookFrom(occurrence, isLinked)
  PROVE  /\ bookings' \in Seq([at : Int, linked : BOOLEAN])
         /\ Len(bookings') = Len(bookings) + 1
         /\ \A i \in 1 .. Len(bookings) : bookings'[i] = bookings[i]
         /\ bookings'[Len(bookings) + 1].at = occurrence
         /\ schedule' = [schedule EXCEPT !.next = occurrence + Period]
         /\ schedule' \in [status : RecurringStatus \cup {"DELETED"}, next : Int]
         /\ schedule'.next = occurrence + Period
         /\ schedule'.status = schedule.status
<1> DEFINE b == [at |-> occurrence, linked |-> isLinked]
<1>1. b \in [at : Int, linked : BOOLEAN] /\ b.at = occurrence  OBVIOUS
<1>2. bookings' = Append(bookings, b) /\ schedule' = [schedule EXCEPT !.next = occurrence + Period]
  BY DEF BookFrom, NextAfter, Following
<1>3. bookings \in Seq([at : Int, linked : BOOLEAN]) /\ Period \in Int
  BY RecurringAssumption DEF BookingShapes
<1> HIDE DEF b
<1>4. /\ bookings' \in Seq([at : Int, linked : BOOLEAN])
      /\ Len(bookings') = Len(bookings) + 1
      /\ \A i \in 1 .. Len(bookings) : bookings'[i] = bookings[i]
      /\ bookings'[Len(bookings) + 1] = b
  BY <1>1, <1>2, <1>3
<1>5. /\ schedule' \in [status : RecurringStatus \cup {"DELETED"}, next : Int]
      /\ schedule'.next = occurrence + Period
      /\ schedule'.status = schedule.status
  <2> DEFINE t == occurrence + Period
  <2>1. t \in Int /\ schedule' = [schedule EXCEPT !.next = t]  BY <1>2, <1>3
  <2>2. schedule \in [status : RecurringStatus \cup {"DELETED"}, next : Int]  BY DEF BookingShapes
  <2> HIDE DEF t
  <2>3. /\ schedule' \in [status : RecurringStatus \cup {"DELETED"}, next : Int]
        /\ schedule'.next = t
        /\ schedule'.status = schedule.status
    BY <2>1, <2>2
  <2> QED BY <2>3 DEF t
<1> QED BY <1>1, <1>2, <1>4, <1>5

LEMMA InitBookingInv ==
  ASSUME RecurringInit
  PROVE  BookingInv
<1>1. Period \in Nat /\ Len(<<>>) = 0  BY RecurringAssumption
<1>2. /\ now = 0 /\ bookings = <<>> /\ schedule = [status |-> "ACTIVE", next |-> Period]
      /\ run = [e \in Engines |-> NoRun] /\ call = [r \in Requests |-> NoCall]
  BY FirstOccurrence DEF RecurringInit
<1>3. BookingShapes  BY <1>1, <1>2 DEF BookingShapes, RecurringStatus
<1>4. BookedIsBehind  BY <1>1, <1>2 DEF BookedIsBehind, BookedBefore, IsRunning, Resumes
<1>5. NoneIsLeftOut  BY <1>1, <1>2 DEF NoneIsLeftOut, IsRunning
<1> QED BY <1>3, <1>4, <1>5 DEF BookingInv

\* The clock, the tenant's access, deletion, and an engine that selects or drops.
LEMMA TickKeepsBookingInv ==
  ASSUME BookingInv, Tick
  PROVE  BookingInv'
<1>1. /\ now' = now + 1 /\ now \in Nat
      /\ UNCHANGED <<schedule, bookings, run, call, mode>>
  BY DEF Tick, BookingInv, BookingShapes
<1>2. BookingShapes'  BY <1>1 DEF BookingInv, BookingShapes
<1>3. ASSUME BookedIsBehind PROVE BookedIsBehind'
  <2>1. \A i \in 1 .. Len(bookings) : bookings[i].at \in Int  BY BookedAtSomeTime DEF BookingInv
  <2>2. \A e \in Engines : IsRunning(e) => run[e] \in Int  BY DEF BookingInv, BookingShapes, IsRunning
  <2> QED BY <1>1, <1>3, <2>1, <2>2 DEF BookedIsBehind, BookedBefore, IsRunning, Resumes
<1>4. ASSUME NoneIsLeftOut PROVE NoneIsLeftOut'  BY <1>1, <1>4 DEF NoneIsLeftOut, IsRunning
<1> QED BY <1>1, <1>2, <1>3, <1>4 DEF BookingInv, OnlyStopped

LEMMA ToggleAccessKeepsBookingInv ==
  ASSUME BookingInv, ToggleAccess
  PROVE  BookingInv'
  BY DEF ToggleAccess, BookingInv, BookingShapes, OnlyStopped, BookedIsBehind, NoneIsLeftOut, BookedBefore,
         IsRunning, Resumes

LEMMA DeleteKeepsBookingInv ==
  ASSUME BookingInv, DeleteSchedule
  PROVE  BookingInv'
<1>1. /\ "deleteSchedule" \in mode.ops
      /\ schedule' = [schedule EXCEPT !.status = "DELETED"]
      /\ UNCHANGED <<now, bookings, run, call, mode>>
  BY DEF DeleteSchedule
<1>2. /\ schedule' \in [status : RecurringStatus \cup {"DELETED"}, next : Int]
      /\ schedule'.next = schedule.next /\ schedule'.status = "DELETED"
  BY <1>1 DEF BookingInv, BookingShapes
<1>3. BookingShapes'  BY <1>1, <1>2 DEF BookingInv, BookingShapes
<1>4. ASSUME BookedIsBehind PROVE BookedIsBehind'
  BY <1>1, <1>2, <1>4 DEF BookedIsBehind, BookedBefore, IsRunning, Resumes
<1>5. mode.ops # {} /\ mode' = mode  BY <1>1
<1> QED BY <1>3, <1>4, <1>5 DEF BookingInv, OnlyStopped

LEMMA SelectKeepsBookingInv ==
  ASSUME BookingInv, NEW e \in Engines, Select(e)
  PROVE  BookingInv'
<1>1. /\ schedule.status = "ACTIVE" /\ schedule.next <= now
      /\ run' = [run EXCEPT ![e] = schedule.next]
      /\ UNCHANGED <<now, schedule, bookings, call, mode>>
  BY DEF Select, Due
<1>2. /\ run' \in [Engines -> Int \cup {NoRun}]
      /\ run'[e] = schedule.next
      /\ \A d \in Engines \ {e} : run'[d] = run[d]
  BY <1>1 DEF BookingInv, BookingShapes
<1>3. BookingShapes'  BY <1>1, <1>2 DEF BookingInv, BookingShapes
<1>4. ASSUME BookedIsBehind PROVE BookedIsBehind'
  <2>1. \A r \in Requests : ~Resumes(r)  BY <1>1, <1>4 DEF BookedIsBehind
  <2> QED BY <1>1, <1>2, <1>4, <2>1 DEF BookedIsBehind, BookedBefore, IsRunning, Resumes
<1>5. ASSUME NoneIsLeftOut PROVE NoneIsLeftOut'  BY <1>1, <1>2, <1>5 DEF NoneIsLeftOut, IsRunning
<1> QED BY <1>1, <1>3, <1>4, <1>5 DEF BookingInv, OnlyStopped

LEMMA DropKeepsBookingInv ==
  ASSUME BookingInv, NEW e \in Engines, Drop(e)
  PROVE  BookingInv'
<1>1. /\ run' = [run EXCEPT ![e] = NoRun]
      /\ UNCHANGED <<now, schedule, bookings, call, mode>>
  BY DEF Drop
<1>2. /\ run' \in [Engines -> Int \cup {NoRun}]
      /\ run'[e] = NoRun
      /\ \A d \in Engines \ {e} : run'[d] = run[d]
  BY <1>1 DEF BookingInv, BookingShapes
<1>3. BookingShapes'  BY <1>1, <1>2 DEF BookingInv, BookingShapes
<1>4. ASSUME BookedIsBehind PROVE BookedIsBehind'
  BY <1>1, <1>2, <1>4 DEF BookedIsBehind, BookedBefore, IsRunning, Resumes
<1>5. ASSUME NoneIsLeftOut PROVE NoneIsLeftOut'  BY <1>1, <1>2, <1>5 DEF NoneIsLeftOut, IsRunning
<1> QED BY <1>1, <1>3, <1>4, <1>5 DEF BookingInv, OnlyStopped

\* The engine books the occurrence it selected, which nobody has booked since:
\* it is the only one.
LEMMA GenerateKeepsBookingInv ==
  ASSUME BookingInv, OneEngine, NEW e \in Engines, Generate(e)
  PROVE  BookingInv'
<1> DEFINE n == Len(bookings)
<1>1. /\ run[e] # NoRun /\ BookFrom(run[e], FALSE)
      /\ run' = [run EXCEPT ![e] = NoRun]
      /\ UNCHANGED <<now, call, mode>>
  BY DEF Generate
<1>2. run[e] \in Int /\ n \in Nat /\ Period \in Nat /\ Period > 0 /\ now \in Nat
  BY <1>1, RecurringAssumption DEF BookingInv, BookingShapes
<1>3. /\ bookings' \in Seq([at : Int, linked : BOOLEAN])
      /\ Len(bookings') = n + 1
      /\ \A i \in 1 .. n : bookings'[i] = bookings[i] /\ bookings'[i].at \in Int
      /\ bookings'[n + 1].at = run[e]
      /\ schedule' \in [status : RecurringStatus \cup {"DELETED"}, next : Int]
      /\ schedule'.next = run[e] + Period
      /\ schedule'.status = schedule.status
  BY <1>1, <1>2, BookFromAppends, BookedAtSomeTime DEF BookingInv
<1>4. run' \in [Engines -> Int \cup {NoRun}] /\ \A d \in Engines : run'[d] = NoRun
  BY <1>1 DEF OneEngine, BookingInv, BookingShapes
<1>5. BookingShapes'  BY <1>1, <1>3, <1>4 DEF BookingInv, BookingShapes
<1> HIDE DEF n
<1>6. ASSUME BookedIsBehind PROVE BookedIsBehind'
  <2>1. run[e] <= now /\ \A i \in 1 .. n : bookings[i].at < run[e]
    BY <1>1, <1>6 DEF BookedIsBehind, BookedBefore, IsRunning, n
  <2>2. \A i \in 1 .. n + 1 : bookings'[i].at <= run[e] /\ bookings'[i].at \in Int
    <3> SUFFICES ASSUME NEW i \in 1 .. n + 1
                 PROVE  bookings'[i].at <= run[e] /\ bookings'[i].at \in Int
      OBVIOUS
    <3>1. CASE i = n + 1  BY <1>2, <1>3, <3>1
    <3>2. CASE i # n + 1
      <4>1. i \in 1 .. n  BY <1>2, <3>2
      <4>2. bookings'[i] = bookings[i] /\ bookings'[i].at \in Int /\ bookings[i].at < run[e]
        BY <1>3, <2>1, <4>1
      <4> QED BY <1>2, <4>2
    <3> QED BY <3>1, <3>2
  <2>3. \A i \in 1 .. n : bookings'[i].at < bookings'[i + 1].at
    <3> SUFFICES ASSUME NEW i \in 1 .. n PROVE bookings'[i].at < bookings'[i + 1].at
      OBVIOUS
    <3>1. CASE i = n  BY <1>2, <1>3, <2>1, <3>1
    <3>2. CASE i # n
      <4>1. i \in 1 .. n - 1 /\ i + 1 \in 1 .. n  BY <1>2, <3>2
      <4>2. bookings[i].at < bookings[i + 1].at  BY <1>6, <4>1 DEF BookedIsBehind, n
      <4> QED BY <1>3, <4>1, <4>2
    <3> QED BY <3>1, <3>2
  <2>4. \A r \in Requests : Resumes(r) => run[e] < call[r].next /\ call[r].next \in Int
    BY <1>1, <1>6 DEF BookedIsBehind, IsRunning, Resumes, BookingInv, BookingShapes
  <2>5. \A t \in Int : run[e] < t => \A i \in 1 .. n + 1 : bookings'[i].at < t  BY <1>2, <2>2
  <2>6. \A r \in Requests : Resumes(r)' => Resumes(r) /\ call'[r] = call[r] /\ schedule.status # "ACTIVE"
    BY <1>1, <1>6 DEF Resumes, BookedIsBehind
  <2>7. run[e] < now' + 1 /\ now' + 1 \in Int /\ run[e] < schedule'.next /\ schedule'.next \in Int
    BY <1>1, <1>2, <1>3, <2>1
  <2>8. BookedBefore(now + 1)' /\ BookedBefore(schedule.next)'  BY <1>3, <2>5, <2>7 DEF BookedBefore
  <2>9. \A r \in Requests : Resumes(r)' =>
          schedule'.status # "ACTIVE" /\ \A i \in 1 .. Len(bookings') : bookings'[i].at < call'[r].next
    BY <1>3, <2>4, <2>5, <2>6
  <2>10. \A d \in Engines : ~IsRunning(d)'  BY <1>4 DEF IsRunning
  <2>11. \A i \in 1 .. Len(bookings') - 1 : bookings'[i].at < bookings'[i + 1].at
    <3>1. Len(bookings') - 1 = n  BY <1>2, <1>3
    <3> QED BY <2>3, <3>1
  <2> QED BY <2>8, <2>9, <2>10, <2>11 DEF BookedIsBehind, BookedBefore
<1>7. ASSUME NoneIsLeftOut PROVE NoneIsLeftOut'
  <2>1. run[e] = Period * (n + 1)  BY <1>1, <1>7 DEF NoneIsLeftOut, IsRunning, n
  <2>2. Period * (n + 1) + Period = Period * (n + 1 + 1)  BY <1>2
  <2>3. \A i \in 1 .. n + 1 : bookings'[i].at = Period * i
    <3> SUFFICES ASSUME NEW i \in 1 .. n + 1 PROVE bookings'[i].at = Period * i
      OBVIOUS
    <3>1. CASE i = n + 1  BY <1>3, <2>1, <3>1
    <3>2. CASE i # n + 1
      <4>1. i \in 1 .. n  BY <1>2, <3>2
      <4> QED BY <1>3, <1>7, <4>1 DEF NoneIsLeftOut, n
    <3> QED BY <3>1, <3>2
  <2> QED BY <1>2, <1>3, <1>4, <2>1, <2>2, <2>3 DEF NoneIsLeftOut, IsRunning
<1>8. mode' = mode  BY <1>1
<1> QED BY <1>5, <1>6, <1>7, <1>8 DEF BookingInv, OnlyStopped

\* A handler checks what it reads; resumeSchedule takes along an occurrence that
\* lies ahead, and nothing becomes ACTIVE before it writes.
LEMMA ReadKeepsBookingInv ==
  ASSUME BookingInv, OneHandler, NEW r \in Requests, Read(r)
  PROVE  BookingInv'
<1>1. PICK op \in mode.ops \ {"deleteSchedule"} :
        /\ schedule.status \in Accepts(op)
        /\ call' = [call EXCEPT ![r] = [op |-> op, next |-> Takes(op)]]
  BY DEF Read
<1>2. UNCHANGED <<now, schedule, bookings, run, mode>>  BY DEF Read
<1>3. Takes(op) \in Int /\ (op = "resumeSchedule" => now < Takes(op))
  BY OccurrenceAfterIsLater DEF Takes, BookingInv, BookingShapes
<1>4. /\ call' \in [Requests -> [op : mode.ops, next : Int] \cup {NoCall}]
      /\ call'[r] = [op |-> op, next |-> Takes(op)]
      /\ \A q \in Requests : q = r
  BY <1>1, <1>3 DEF BookingInv, BookingShapes, OneHandler
<1>5. BookingShapes'  BY <1>2, <1>4 DEF BookingInv, BookingShapes
<1>6. ASSUME BookedIsBehind PROVE BookedIsBehind'
  <2>1. ASSUME NEW q \in Requests, Resumes(q)'
        PROVE  /\ schedule.status # "ACTIVE"
               /\ BookedBefore(call'[q].next)
               /\ \A e \in Engines : IsRunning(e) => run[e] < call'[q].next
    <3>1. q = r /\ op = "resumeSchedule" /\ call'[q].next = Takes(op)  BY <1>4, <2>1 DEF Resumes
    <3>2. schedule.status # "ACTIVE"  BY <1>1, <3>1 DEF Accepts
    <3>3. \A i \in 1 .. Len(bookings) : bookings[i].at < now + 1 /\ bookings[i].at \in Int
      BY <1>6, BookedAtSomeTime DEF BookedIsBehind, BookedBefore, BookingInv
    <3>4. \A e \in Engines : IsRunning(e) => run[e] <= now /\ run[e] \in Int
      BY <1>6 DEF BookedIsBehind, IsRunning, BookingInv, BookingShapes
    <3>5. now \in Int /\ now < Takes(op) /\ Takes(op) \in Int
      BY <1>3, <3>1 DEF BookingInv, BookingShapes
    <3> QED BY <3>1, <3>2, <3>3, <3>4, <3>5 DEF BookedBefore
  <2> QED BY <1>2, <1>6, <2>1 DEF BookedIsBehind, BookedBefore, IsRunning
<1>7. ASSUME NoneIsLeftOut PROVE NoneIsLeftOut'  BY <1>2, <1>7 DEF NoneIsLeftOut, IsRunning
<1> QED BY <1>2, <1>5, <1>6, <1>7 DEF BookingInv, OnlyStopped

\* A handler's update by id.  Its operation is one of the mode's, so where nobody
\* touches the schedule there is none, and where it is only stopped the status or
\* the occurrence of resumeSchedule is written.
LEMMA WriteKeepsBookingInv ==
  ASSUME BookingInv, OneHandler, NEW r \in Requests, NEW op,
         NEW s \in [status : RecurringStatus \cup {"DELETED"}, next : Int],
         Write(r, op, s),
         \/ op \in {"pauseSchedule", "cancelSchedule"} /\ s.next = schedule.next
         \/ op = "resumeSchedule" /\ s.next = call[r].next
         \/ op = "updateSchedule"
  PROVE  BookingInv'
<1>1. /\ call[r] # NoCall /\ call[r].op = op
      /\ schedule' = schedule \/ schedule' = s
      /\ call' = [call EXCEPT ![r] = NoCall]
      /\ UNCHANGED <<now, bookings, run, mode>>
  BY DEF Write, Finish
<1>2. op \in mode.ops  BY <1>1 DEF BookingInv, BookingShapes
<1>3. /\ call' \in [Requests -> [op : mode.ops, next : Int] \cup {NoCall}]
      /\ \A q \in Requests : call'[q] = NoCall
  BY <1>1 DEF BookingInv, BookingShapes, OneHandler
<1>4. BookingShapes'  BY <1>1, <1>3 DEF BookingInv, BookingShapes
<1>5. ASSUME OnlyStopped, BookedIsBehind PROVE BookedIsBehind'
  <2>1. op # "updateSchedule"  BY <1>2, <1>5 DEF OnlyStopped
  <2>2. BookedBefore(schedule'.next)
    <3>1. BookedBefore(schedule.next)  BY <1>5 DEF BookedIsBehind
    <3>2. CASE op = "resumeSchedule"
      <4>1. Resumes(r)  BY <1>1, <3>2 DEF Resumes
      <4>2. BookedBefore(call[r].next)  BY <1>5, <4>1 DEF BookedIsBehind
      <4>3. schedule'.next = schedule.next \/ schedule'.next = call[r].next  BY <1>1, <3>2
      <4> QED BY <3>1, <4>2, <4>3
    <3>3. CASE op # "resumeSchedule"
      <4>1. schedule'.next = schedule.next  BY <1>1, <2>1, <3>3
      <4> QED BY <3>1, <4>1
    <3> QED BY <3>2, <3>3
  <2> QED BY <1>1, <1>3, <1>5, <2>2 DEF BookedIsBehind, BookedBefore, IsRunning, Resumes
<1>6. mode' = mode /\ mode.ops # {}  BY <1>1, <1>2
<1> QED BY <1>4, <1>5, <1>6 DEF BookingInv, OnlyStopped

LEMMA HandleKeepsBookingInv ==
  ASSUME BookingInv, OneHandler, NEW r \in Requests, Handle(r)
  PROVE  BookingInv'
<1>1. schedule \in [status : RecurringStatus \cup {"DELETED"}, next : Int]
  BY DEF BookingInv, BookingShapes
<1>2. CASE Read(r)  BY <1>2, ReadKeepsBookingInv
<1>3. CASE PauseSchedule(r)
  <2> DEFINE s == [schedule EXCEPT !.status = "PAUSED"]
  <2>1. s \in [status : RecurringStatus \cup {"DELETED"}, next : Int] /\ s.next = schedule.next
    BY <1>1 DEF RecurringStatus
  <2>2. Write(r, "pauseSchedule", s)  BY <1>3 DEF PauseSchedule
  <2> HIDE DEF s
  <2> QED BY <2>1, <2>2, WriteKeepsBookingInv
<1>4. CASE CancelSchedule(r)
  <2> DEFINE s == [schedule EXCEPT !.status = "CANCELLED"]
  <2>1. s \in [status : RecurringStatus \cup {"DELETED"}, next : Int] /\ s.next = schedule.next
    BY <1>1 DEF RecurringStatus
  <2>2. Write(r, "cancelSchedule", s)  BY <1>4 DEF CancelSchedule
  <2> HIDE DEF s
  <2> QED BY <2>1, <2>2, WriteKeepsBookingInv
<1>5. CASE ResumeSchedule(r)
  <2> DEFINE s == [schedule EXCEPT !.status = "ACTIVE", !.next = call[r].next]
  <2>1. Write(r, "resumeSchedule", s)  BY <1>5 DEF ResumeSchedule
  <2>2. call[r].next \in Int  BY <2>1 DEF Write, BookingInv, BookingShapes
  <2>3. s \in [status : RecurringStatus \cup {"DELETED"}, next : Int] /\ s.next = call[r].next
    BY <1>1, <2>2 DEF RecurringStatus
  <2> HIDE DEF s
  <2> QED BY <2>1, <2>3, WriteKeepsBookingInv
<1>6. CASE UpdateSchedule(r)
  <2> DEFINE s == [schedule EXCEPT !.next = call[r].next]
  <2>1. Write(r, "updateSchedule", s)  BY <1>6 DEF UpdateSchedule
  <2>2. call[r].next \in Int  BY <2>1 DEF Write, BookingInv, BookingShapes
  <2>3. s \in [status : RecurringStatus \cup {"DELETED"}, next : Int]  BY <1>1, <2>2
  <2> HIDE DEF s
  <2> QED BY <2>1, <2>3, WriteKeepsBookingInv
<1>7. CASE GenerateNextBooking(r)
  <2>1. /\ call[r] # NoCall /\ call[r].op = "generateNextBooking"
        /\ call' = [call EXCEPT ![r] = NoCall]
        /\ UNCHANGED <<now, run, mode>>
    BY <1>7 DEF GenerateNextBooking, Finish
  <2>2. "generateNextBooking" \in mode.ops /\ call[r].next \in Int
    BY <2>1 DEF BookingInv, BookingShapes
  <2>3. call' \in [Requests -> [op : mode.ops, next : Int] \cup {NoCall}]
    BY <2>1 DEF BookingInv, BookingShapes
  <2>4. /\ bookings' \in Seq([at : Int, linked : BOOLEAN])
        /\ schedule' \in [status : RecurringStatus \cup {"DELETED"}, next : Int]
    <3>1. CASE BookFrom(call[r].next, TRUE)  BY <2>2, <3>1, BookFromAppends DEF BookingInv
    <3>2. CASE UNCHANGED <<bookings, schedule>>  BY <3>2 DEF BookingInv, BookingShapes
    <3> QED BY <1>7, <3>1, <3>2 DEF GenerateNextBooking
  <2>5. BookingShapes'  BY <2>1, <2>3, <2>4 DEF BookingInv, BookingShapes
  <2>6. ~OnlyStopped' /\ mode'.ops # {}  BY <2>1, <2>2 DEF OnlyStopped
  <2> QED BY <2>5, <2>6 DEF BookingInv
<1> QED BY <1>2, <1>3, <1>4, <1>5, <1>6, <1>7 DEF Handle

LEMMA StepKeepsBookingInv ==
  ASSUME OneEngine, OneHandler, BookingInv, [RecurringNext]_recurringVars
  PROVE  BookingInv'
<1>1. CASE Tick \/ ToggleAccess \/ DeleteSchedule
  BY <1>1, TickKeepsBookingInv, ToggleAccessKeepsBookingInv, DeleteKeepsBookingInv
<1>2. CASE \E e \in Engines : RunEngine(e)
  BY <1>2, SelectKeepsBookingInv, GenerateKeepsBookingInv, DropKeepsBookingInv DEF RunEngine
<1>3. CASE \E r \in Requests : Handle(r)  BY <1>3, HandleKeepsBookingInv
<1>4. CASE UNCHANGED recurringVars
  BY <1>4
  DEF recurringVars, BookingInv, BookingShapes, OnlyStopped, BookedIsBehind, NoneIsLeftOut, BookedBefore,
      IsRunning, Resumes
<1> QED BY <1>1, <1>2, <1>3, <1>4 DEF RecurringNext

\* One engine and one handler at a time: no occurrence is booked twice and they
\* are booked in order, however the engine fails and however the schedule is
\* paused, resumed, cancelled or deleted between the steps of a run; and where
\* nobody touches it, none is left out (runRecurringBookingEngine).
THEOREM OneEngineBooksInOrder ==
  ASSUME OneEngine, OneHandler
  PROVE  RecurringSpec => []OccurrencesBookedInOrder
<1>1. RecurringInit => BookingInv  BY InitBookingInv
<1>2. BookingInv /\ [RecurringNext]_recurringVars => BookingInv'  BY StepKeepsBookingInv
<1>3. BookingInv => OccurrencesBookedInOrder
  BY DEF BookingInv, OnlyStopped, BookedIsBehind, NoneIsLeftOut, OccurrencesBookedInOrder
<1> QED BY <1>1, <1>2, <1>3, PTL DEF RecurringSpec

------------------------
(* Dates *)

\* The days computeNextRunAt adds lead from any day to the day of the week.
LEMMA DaysUntilReachesWeekday ==
    ASSUME NEW i \in Instant, NEW r \in Rule, r.frequency # "MONTHLY"
    PROVE  /\ DaysUntil(i, r) \in Nat
           /\ DayOfWeek(i.day + DaysUntil(i, r)) = r.dayOfWeek
<1> DEFINE days == (r.dayOfWeek - DayOfWeek(i.day) + 7) % 7
<1>1. /\ i.day \in Nat /\ i.time \in Nat
      /\ r.dayOfWeek \in 0 .. 6 /\ r.frequency \in {"WEEKLY", "BIWEEKLY"}
    BY DEF Instant, Rule, Frequency, WeekDay
<1>2. days \in 0 .. 6 /\ (i.day + days) % 7 = r.dayOfWeek
    <2> DEFINE today == i.day % 7
    <2>1. today \in 0 .. 6 /\ i.day % 7 = today  BY <1>1
    <2>2. days = (r.dayOfWeek - today + 7) % 7  BY DEF DayOfWeek
    <2> HIDE DEF today, days
    <2>3. days \in 0 .. 6 /\ (days = r.dayOfWeek - today \/ days = r.dayOfWeek - today + 7)
        BY <1>1, <2>1, <2>2
    <2>4. \A n \in Nat, a, b \in 0 .. 6 :
            /\ n % 7 = a /\ a <= b => (n + (b - a)) % 7 = b
            /\ n % 7 = a /\ b < a => (n + (b - a + 7)) % 7 = b
        OBVIOUS
    <2>5. days \in {r.dayOfWeek - today, r.dayOfWeek - today + 7} /\ days \in 0 .. 6  BY <2>3
    <2>6. CASE today <= r.dayOfWeek
        <3>1. days = r.dayOfWeek - today  BY <1>1, <2>1, <2>5, <2>6
        <3> QED BY <1>1, <2>1, <2>3, <2>4, <2>6, <3>1
    <2>7. CASE r.dayOfWeek < today
        <3>1. days = r.dayOfWeek - today + 7  BY <1>1, <2>1, <2>5, <2>7
        <3> QED BY <1>1, <2>1, <2>3, <2>4, <2>7, <3>1
    <2> QED BY <1>1, <2>1, <2>6, <2>7
<1>3. CASE days = 0 /\ i.time >= r.time
    <2>1. DaysUntil(i, r) \in {7, 14}  BY <1>1, <1>3 DEF DaysUntil, FrequencyToDays
    <2>2. i.day % 7 = r.dayOfWeek  BY <1>1, <1>2, <1>3
    <2>3. (i.day + 7) % 7 = i.day % 7 /\ (i.day + 14) % 7 = i.day % 7  BY <1>1
    <2> QED BY <2>1, <2>2, <2>3 DEF DayOfWeek
<1>4. CASE ~(days = 0 /\ i.time >= r.time)
    <2>1. DaysUntil(i, r) = days  BY <1>4 DEF DaysUntil
    <2> QED BY <2>1, <1>2 DEF DayOfWeek
<1> QED BY <1>3, <1>4

\* A schedule keeps its time, and a weekly or biweekly one its day of the week.
KeepsItsRule ==
    /\ rule \in Rule
    /\ nextRunAt.time = rule.time
    /\ rule.frequency # "MONTHLY" => nextRunAt.day \in Nat
    /\ WeekdayIsKept

LEMMA InitKeepsRule == Init => KeepsItsRule
<1> SUFFICES ASSUME Init PROVE KeepsItsRule
    OBVIOUS
<1>1. PICK f \in Frequency, w \in WeekDay, t \in TimesOfDay, d \in 0 .. 40, s \in TimesOfDay \cup {0} :
        /\ rule = [frequency |-> f, dayOfWeek |-> w, time |-> t]
        /\ from = [day |-> d, time |-> s]
        /\ nextRunAt = ComputeNextRunAt(from, rule)
    BY DEF Init
<1>2. rule \in Rule /\ from \in Instant  BY <1>1, CalendarAssumption DEF Rule, Instant
<1>3. nextRunAt.time = rule.time /\ nextRunAt.day = from.day + DaysUntil(from, rule)
    BY <1>1 DEF ComputeNextRunAt
<1>4. ASSUME rule.frequency # "MONTHLY"
      PROVE  nextRunAt.day \in Nat /\ DayOfWeek(nextRunAt.day) = rule.dayOfWeek
    BY <1>2, <1>3, <1>4, DaysUntilReachesWeekday DEF Instant
<1> QED BY <1>2, <1>3, <1>4 DEF KeepsItsRule, WeekdayIsKept

LEMMA NextKeepsRule == KeepsItsRule /\ [Next]_vars => KeepsItsRule'
<1> SUFFICES ASSUME KeepsItsRule, [Next]_vars PROVE KeepsItsRule'
    OBVIOUS
<1>1. CASE Advance
    <2>1. rule' = rule /\ nextRunAt' = AdvanceNextRunAt(nextRunAt, rule)  BY <1>1 DEF Advance
    <2>2. nextRunAt'.time = rule'.time  BY <2>1 DEF AdvanceNextRunAt
    <2>3. ASSUME rule'.frequency # "MONTHLY"
          PROVE  nextRunAt'.day \in Nat /\ DayOfWeek(nextRunAt'.day) = rule'.dayOfWeek
        <3>1. rule.frequency \in {"WEEKLY", "BIWEEKLY"}  BY <2>1, <2>3 DEF KeepsItsRule, Rule, Frequency
        <3>2. nextRunAt.day \in Nat /\ nextRunAt.day % 7 = rule.dayOfWeek
            BY <3>1 DEF KeepsItsRule, WeekdayIsKept, DayOfWeek
        <3>3. nextRunAt'.day \in {nextRunAt.day + 7, nextRunAt.day + 14}
            BY <2>1, <3>1 DEF AdvanceNextRunAt, FrequencyToDays
        <3>4. /\ (nextRunAt.day + 7) % 7 = nextRunAt.day % 7
              /\ (nextRunAt.day + 14) % 7 = nextRunAt.day % 7
            BY <3>2
        <3> QED BY <2>1, <3>2, <3>3, <3>4 DEF DayOfWeek
    <2> QED BY <2>1, <2>2, <2>3 DEF KeepsItsRule, WeekdayIsKept
<1>2. CASE UNCHANGED vars  BY <1>2 DEF vars, KeepsItsRule, WeekdayIsKept
<1> QED BY <1>1, <1>2 DEF Next

\* However long a weekly or biweekly schedule runs, its occurrences stay on its
\* day of the week.
THEOREM WeekdayKeptForever == Spec => []WeekdayIsKept
<1>1. KeepsItsRule => WeekdayIsKept  BY DEF KeepsItsRule
<1> QED BY <1>1, InitKeepsRule, NextKeepsRule, PTL DEF Spec

------------------------
(* Monthly schedules *)

\* A day lies in one month only.
LEMMA MonthIsUnique ==
    ASSUME NEW m \in 1 .. Months, NEW d \in Int, FirstOf[m] <= d, d < FirstOf[m + 1]
    PROVE  MonthOf(d) = m
<1>1. Months \in Nat /\ \A n \in 1 .. Months + 1 : FirstOf[n] \in Int  BY CalendarAssumption
<1>2. ASSUME NEW n \in 1 .. Months, FirstOf[n] <= d, d < FirstOf[n + 1]
      PROVE  n = m
    <2>1. CASE n < m
        <3>1. n + 1 = m \/ FirstOf[n + 1] < FirstOf[m]  BY <1>1, <2>1, CalendarAssumption
        <3> QED BY <1>1, <1>2, <2>1, <3>1
    <2>2. CASE m < n
        <3>1. m + 1 = n \/ FirstOf[m + 1] < FirstOf[n]  BY <1>1, <2>2, CalendarAssumption
        <3> QED BY <1>1, <1>2, <2>2, <3>1
    <2> QED BY <1>1, <2>1, <2>2
<1> QED BY <1>2 DEF MonthOf

\* advanceNextRunAt goes from a day of a month to a later day, in the next month.
LEMMA AdvanceReachesNextMonth ==
    ASSUME NEW d \in Nat, HasNextMonth(d)
    PROVE  LET next == InMonth(MonthOf(d) + 1, DayOfMonth(d))
           IN  next \in Nat /\ d < next /\ MonthOf(next) = MonthOf(d) + 1
<1>1. /\ Months \in Nat /\ Months > 0
      /\ \A n \in 1 .. Months + 1 : FirstOf[n] \in Int
      /\ FirstOf[1] <= d /\ d < FirstOf[Months]
    BY CalendarAssumption DEF HasNextMonth
<1>2. d \in FirstOf[1] .. FirstOf[Months] - 1  BY <1>1
<1>3. PICK m \in 1 .. Months - 1 : FirstOf[m] <= d /\ d < FirstOf[m + 1]  BY <1>2, CalendarAssumption
<1>4. m \in 1 .. Months /\ m + 1 \in 1 .. Months /\ m + 2 \in 1 .. Months + 1  BY <1>1, <1>3
<1>5. MonthOf(d) = m  BY <1>3, <1>4, MonthIsUnique
<1> DEFINE k == d - FirstOf[m] + 1
           f == FirstOf[m + 1]
           g == FirstOf[m + 2]
           next == InMonth(m + 1, k)
<1>6. k \in Nat /\ k >= 1 /\ f \in Int /\ g \in Int /\ d < f  BY <1>1, <1>3, <1>4
<1>7. g - f \in 28 .. 31
    <2>1. FirstOf[(m + 1) + 1] - FirstOf[m + 1] \in 28 .. 31  BY <1>4, CalendarAssumption
    <2>2. (m + 1) + 1 = m + 2  BY <1>4
    <2> QED BY <2>1, <2>2
<1>8. next = IF k <= g - f THEN f + k - 1 ELSE g - 1
    <2>1. (m + 1) + 1 = m + 2  BY <1>4
    <2> QED BY <2>1 DEF InMonth
<1> HIDE DEF k, f, g, next
<1>9. next \in Nat /\ f <= next /\ next < g /\ d < next  BY <1>6, <1>7, <1>8
<1>10. MonthOf(next) = m + 1
    <2>1. FirstOf[m + 1] <= next /\ next < FirstOf[(m + 1) + 1]  BY <1>4, <1>9 DEF f, g
    <2> QED BY <1>4, <1>9, <2>1, MonthIsUnique
<1> QED BY <1>5, <1>9, <1>10 DEF DayOfMonth, next, k

OccurrencesHaveType ==
    /\ TypeOK
    /\ from \in Instant

LEMMA InitHasType == Init => OccurrencesHaveType
<1> SUFFICES ASSUME Init PROVE OccurrencesHaveType
    OBVIOUS
<1>1. PICK f \in Frequency, w \in WeekDay, t \in TimesOfDay, d \in 0 .. 40, s \in TimesOfDay \cup {0} :
        /\ rule = [frequency |-> f, dayOfWeek |-> w, time |-> t]
        /\ from = [day |-> d, time |-> s]
        /\ nextRunAt = ComputeNextRunAt(from, rule)
    BY DEF Init
<1>2. rule \in Rule /\ from \in Instant /\ rule.time \in Nat
    BY <1>1, CalendarAssumption DEF Rule, Instant
<1>3. DaysUntil(from, rule) \in Nat
    <2> DEFINE days == (rule.dayOfWeek - DayOfWeek(from.day) + 7) % 7
    <2>1. rule.dayOfWeek \in 0 .. 6 /\ from.day \in Nat  BY <1>2 DEF Rule, Instant, WeekDay
    <2>2. from.day % 7 \in 0 .. 6  BY <2>1
    <2>3. days \in Nat  BY <2>1, <2>2 DEF DayOfWeek
    <2>4. FrequencyToDays(rule.frequency) \in Nat  BY DEF FrequencyToDays
    <2> QED BY <2>3, <2>4 DEF DaysUntil
<1>4. nextRunAt \in Instant /\ nextRunAt.time = rule.time
    BY <1>1, <1>2, <1>3 DEF ComputeNextRunAt, Instant
<1> QED BY <1>2, <1>4 DEF OccurrencesHaveType, TypeOK

LEMMA NextHasType == OccurrencesHaveType /\ [Next]_vars => OccurrencesHaveType'
<1> SUFFICES ASSUME OccurrencesHaveType, [Next]_vars PROVE OccurrencesHaveType'
    OBVIOUS
<1>1. CASE Advance
    <2>1. /\ HasNextMonth(nextRunAt.day) /\ nextRunAt.day \in Nat
          /\ rule' = rule /\ from' = from
          /\ nextRunAt' = AdvanceNextRunAt(nextRunAt, rule)
          /\ rule \in Rule /\ rule.time \in Nat
        BY <1>1 DEF Advance, OccurrencesHaveType, TypeOK, Instant, Rule
    <2> DEFINE day == IF rule.frequency = "MONTHLY"
                      THEN InMonth(MonthOf(nextRunAt.day) + 1, DayOfMonth(nextRunAt.day))
                      ELSE nextRunAt.day + FrequencyToDays(rule.frequency)
    <2>2. day \in Nat
        <3>1. FrequencyToDays(rule.frequency) \in Nat  BY DEF FrequencyToDays
        <3>2. InMonth(MonthOf(nextRunAt.day) + 1, DayOfMonth(nextRunAt.day)) \in Nat
            BY <2>1, AdvanceReachesNextMonth
        <3> QED BY <2>1, <3>1, <3>2
    <2>3. nextRunAt' = [day |-> day, time |-> rule.time]  BY <2>1 DEF AdvanceNextRunAt
    <2> HIDE DEF day
    <2>4. nextRunAt' \in Instant /\ nextRunAt'.time = rule'.time  BY <2>1, <2>2, <2>3 DEF Instant
    <2> QED BY <2>1, <2>4 DEF OccurrencesHaveType, TypeOK
<1>2. CASE UNCHANGED vars  BY <1>2 DEF vars, OccurrencesHaveType, TypeOK
<1> QED BY <1>1, <1>2 DEF Next

\* Whatever the calendar: an occurrence is an instant at the schedule's time.
THEOREM OccurrencesTypeCorrect == Spec => []TypeOK
<1>1. OccurrencesHaveType => TypeOK  BY DEF OccurrencesHaveType
<1> QED BY <1>1, InitHasType, NextHasType, PTL DEF Spec

\* A monthly schedule has exactly one occurrence in every month, also when it
\* comes out of a shorter one: advanceNextRunAt keeps to the last day of a month
\* rather than running over into the one after it.
THEOREM EveryMonthHasItsOccurrence == Spec => NoMonthIsSkipped
<1>1. OccurrencesHaveType /\ [Next]_vars
        => [rule.frequency = "MONTHLY" => MonthOf(nextRunAt'.day) = MonthOf(nextRunAt.day) + 1]_vars
    <2> SUFFICES ASSUME OccurrencesHaveType, Advance, rule.frequency = "MONTHLY"
                 PROVE  MonthOf(nextRunAt'.day) = MonthOf(nextRunAt.day) + 1
        BY DEF Next
    <2>1. HasNextMonth(nextRunAt.day) /\ nextRunAt.day \in Nat
        BY DEF Advance, OccurrencesHaveType, TypeOK, Instant
    <2>2. nextRunAt'.day = InMonth(MonthOf(nextRunAt.day) + 1, DayOfMonth(nextRunAt.day))
        BY DEF Advance, AdvanceNextRunAt
    <2> QED BY <2>1, <2>2, AdvanceReachesNextMonth
<1> QED BY <1>1, InitHasType, NextHasType, PTL DEF Spec, NoMonthIsSkipped
================================================================================
