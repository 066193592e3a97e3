------------------------------ MODULE OutboxProofs ------------------------------
(***************************************************************************)
(* Theorems about OutboxQueue and about PublicationDelivery, which works   *)
(* on such a table: for any rows, workers, requests, attempts, batch size, *)
(* revisions and retries, with or without crashes and with workers that    *)
(* outlive their lock.                                                     *)
(*                                                                         *)
(* The queue rests on one inductive invariant, IInv.  ClaimsAreFenced is   *)
(* not inductive alone: it needs the types, and WaitingRowsAreClaimable    *)
(* needs to know that a row not yet inserted was never claimed.            *)
(*                                                                         *)
(* A receipt vouches for the website as it is now.  recordReceipt compares *)
(* only the event pointer and the revision, never the state of access, so  *)
(* what has to be shown is that the pointer stands for "nothing changed    *)
(* since": whoever works on the row the website points to has read the     *)
(* website after that row was inserted.  The row is new when it becomes    *)
(* the pointer, so no delivery of it is under way, and every later change  *)
(* moves the pointer on.  The fencing of the queue is not available there: *)
(* RecordNow starts the attempts of a failed row over, so an old claim may *)
(* match again.  The argument does without it.                             *)
(***************************************************************************)
EXTENDS PublicationDelivery, TLAPS

------------------------
(* The queue *)

AbsentRowsAreUntouched ==
    \A e \in Events : status[e] = "ABSENT" => attempts[e] = 0 /\ lockedAt[e] = "null"

IInv ==
    /\ TypeOK
    /\ ClaimsAreFenced
    /\ WaitingRowsAreClaimable
    /\ AbsentRowsAreUntouched

------------------------
(* The invariant *)

LEMMA InitIInv == Init => IInv
  BY OutboxAssumption
  DEF Init, IInv, TypeOK, ClaimsAreFenced, WaitingRowsAreClaimable,
      AbsentRowsAreUntouched, Status

\* A producer's insert and the passing of time touch no claim.
LEMMA RowStepsKeepIInv ==
  ASSUME IInv, NEW e \in Events, Enqueue(e) \/ ReachNextAttempt(e) \/ LockTimesOut(e)
  PROVE  IInv'
<1>1. attempts' = attempts /\ claims' = claims /\ due' \in [Events -> BOOLEAN]
  BY DEF IInv, TypeOK, Enqueue, ReachNextAttempt, LockTimesOut
<1>2. TypeOK'  BY <1>1 DEF IInv, TypeOK, Status, Enqueue, ReachNextAttempt, LockTimesOut
<1>3. ClaimsAreFenced'  BY <1>1 DEF IInv, ClaimsAreFenced
<1>4. WaitingRowsAreClaimable' /\ AbsentRowsAreUntouched'
  BY <1>1, OutboxAssumption
  DEF IInv, TypeOK, WaitingRowsAreClaimable, AbsentRowsAreUntouched,
      Enqueue, ReachNextAttempt, LockTimesOut
<1> QED BY <1>2, <1>3, <1>4 DEF IInv

\* A batch is claimed with attempt numbers nobody has seen.
LEMMA ClaimKeepsIInv ==
  ASSUME IInv, NEW w \in Workers, ClaimBatch(w)
  PROVE  IInv'
<1>1. PICK rows \in SUBSET {e \in Events : Claimable(e)} :
        /\ status' = [e \in Events |-> IF e \in rows THEN "PROCESSING" ELSE status[e]]
        /\ lockedAt' = [e \in Events |-> IF e \in rows THEN "fresh" ELSE lockedAt[e]]
        /\ attempts' = [e \in Events |-> IF e \in rows THEN attempts[e] + 1 ELSE attempts[e]]
        /\ claims' = [claims EXCEPT ![w] = {ClaimOn(e, attempts[e] + 1) : e \in rows}]
  BY DEF ClaimBatch, NextAttempt
<1>2. due' = due  BY DEF ClaimBatch
<1>3. \A e \in rows : e \in Events /\ attempts[e] < MaxAttempts  BY <1>1 DEF Claimable
<1>4. TypeOK'
  <2>1. \A e \in rows : ClaimOn(e, attempts[e] + 1) \in Claim
    BY <1>3, OutboxAssumption DEF IInv, TypeOK, Claim, ClaimOn
  <2>2. claims' \in [Workers -> SUBSET Claim]  BY <1>1, <2>1 DEF IInv, TypeOK
  <2> QED BY <1>1, <1>2, <1>3, <2>2, OutboxAssumption DEF IInv, TypeOK, Status
<1>5. ClaimsAreFenced'
  <2> SUFFICES ASSUME NEW v \in Workers, NEW c \in claims'[v]
               PROVE  /\ c.attempt <= attempts'[c.event]
                      /\ \A u \in Workers : c \in claims'[u] => u = v
    BY DEF ClaimsAreFenced
  <2>1. \A d \in claims'[w] :
          \E e \in rows : d = ClaimOn(e, attempts[e] + 1)
    BY <1>1 DEF IInv, TypeOK
  <2>2. \A u \in Workers \ {w} : claims'[u] = claims[u]  BY <1>1 DEF IInv, TypeOK
  <2>3. \A u \in Workers : \A d \in claims[u] :
          d.event \in Events /\ d.attempt \in Nat /\ d.attempt <= attempts[d.event]
    BY DEF IInv, TypeOK, ClaimsAreFenced, Claim
  <2>4. \A d \in claims'[w] :
          /\ d.event \in Events
          /\ d.attempt = attempts[d.event] + 1
          /\ attempts'[d.event] = attempts[d.event] + 1
    BY <1>1, <1>3, <2>1 DEF ClaimOn, IInv, TypeOK
  <2>5. CASE v = w
    <3>1. \A u \in Workers \ {w} : c \notin claims'[u]  BY <2>2, <2>3, <2>4, <2>5 DEF IInv, TypeOK
    <3> QED BY <2>4, <2>5, <3>1 DEF IInv, TypeOK
  <2>6. CASE v # w
    <3>1. c \in claims[v] /\ c \notin claims'[w]  BY <2>2, <2>3, <2>4, <2>6 DEF IInv, TypeOK
    <3>2. c.attempt <= attempts'[c.event]  BY <1>1, <2>3, <3>1 DEF IInv, TypeOK
    <3> QED BY <2>2, <3>1, <3>2 DEF IInv, ClaimsAreFenced
  <2> QED BY <2>5, <2>6
<1>6. WaitingRowsAreClaimable' /\ AbsentRowsAreUntouched'
  BY <1>1 DEF IInv, TypeOK, WaitingRowsAreClaimable, AbsentRowsAreUntouched
<1> QED BY <1>4, <1>5, <1>6 DEF IInv

\* Settling drops one claim and changes only a row that is PROCESSING.
LEMMA SettlingKeepsIInv ==
  ASSUME IInv, NEW w \in Workers, NEW c \in claims[w], MarkProcessed(w, c) \/ MarkFailed(w, c)
  PROVE  IInv'
<1>1. c \in Claim /\ c.event \in Events /\ c.attempt \in 1..MaxAttempts  BY DEF IInv, TypeOK, Claim
<1>2. claims' = [claims EXCEPT ![w] = claims[w] \ {c}] /\ attempts' = attempts
  BY DEF MarkProcessed, MarkFailed, tableVars
<1>3. claims' \in [Workers -> SUBSET Claim] /\ \A u \in Workers : claims'[u] \subseteq claims[u]
  BY <1>2 DEF IInv, TypeOK
<1>4. TypeOK'
  BY <1>1, <1>2, <1>3 DEF IInv, TypeOK, MarkProcessed, MarkFailed, tableVars, Status
<1>5. ClaimsAreFenced'  BY <1>2, <1>3 DEF IInv, ClaimsAreFenced
<1>6. WaitingRowsAreClaimable' /\ AbsentRowsAreUntouched'
  BY <1>1, <1>2, OutboxAssumption
  DEF IInv, TypeOK, WaitingRowsAreClaimable, AbsentRowsAreUntouched,
      MarkProcessed, MarkFailed, tableVars, Matches, IsLastAttempt
<1> QED BY <1>4, <1>5, <1>6 DEF IInv

LEMMA AbortKeepsIInv ==
  ASSUME IInv, NEW w \in Workers, AbortBatch(w)
  PROVE  IInv'
<1>1. claims' \in [Workers -> SUBSET Claim] /\ \A u \in Workers : claims'[u] \subseteq claims[u]
  BY DEF AbortBatch, IInv, TypeOK
<1> QED BY <1>1
  DEF AbortBatch, tableVars, IInv, TypeOK, ClaimsAreFenced,
      WaitingRowsAreClaimable, AbsentRowsAreUntouched

LEMMA StepKeepsIInv == IInv /\ [Next]_vars => IInv'
<1> SUFFICES ASSUME IInv, [Next]_vars PROVE IInv'
  OBVIOUS
<1>1. CASE \E e \in Events : Enqueue(e) \/ ReachNextAttempt(e) \/ LockTimesOut(e)
  BY <1>1, RowStepsKeepIInv
<1>2. CASE \E w \in Workers : ClaimBatch(w)  BY <1>2, ClaimKeepsIInv
<1>3. CASE \E w \in Workers : \E c \in claims[w] : MarkProcessed(w, c) \/ MarkFailed(w, c)
  BY <1>3, SettlingKeepsIInv
<1>4. CASE \E w \in Workers : AbortBatch(w)  BY <1>4, AbortKeepsIInv
<1>5. CASE UNCHANGED vars
  BY <1>5
  DEF vars, IInv, TypeOK, ClaimsAreFenced, WaitingRowsAreClaimable, AbsentRowsAreUntouched
<1> QED BY <1>1, <1>2, <1>3, <1>4, <1>5 DEF Next

LEMMA IInvHolds == Spec => []IInv
  BY InitIInv, StepKeepsIInv, PTL DEF Spec

\* Type correctness of the table and of what the workers remember.
THEOREM TypeCorrect == Spec => []TypeOK
<1>1. IInv => TypeOK  BY DEF IInv
<1> QED BY <1>1, IInvHolds, PTL

\* The attempt number is a fencing token: no two workers of claimBatch ever
\* remember the same claim, and none remembers one newer than the row.
THEOREM Fencing == Spec => []ClaimsAreFenced
<1>1. IInv => ClaimsAreFenced  BY DEF IInv
<1> QED BY <1>1, IInvHolds, PTL

\* markFailed never leaves a row waiting that the claim query would not take,
\* and dead-letters a row only after its last attempt.
THEOREM WaitingIsClaimable == Spec => []WaitingRowsAreClaimable
<1>1. IInv => WaitingRowsAreClaimable  BY DEF IInv
<1> QED BY <1>1, IInvHolds, PTL

------------------------
(* What a step may never do *)

LEMMA StepSettlesByLatestClaimant ==
  ASSUME IInv, Next, NEW e \in Events, status[e] = "PROCESSING", status'[e] # "PROCESSING"
  PROVE  \E w \in Workers :
           /\ ClaimOn(e, attempts[e]) \in claims[w] \ claims'[w]
           /\ \A v \in Workers \ {w} : ClaimOn(e, attempts[e]) \notin claims[v]
<1>1. PICK w \in Workers : \E c \in claims[w] : MarkProcessed(w, c) \/ MarkFailed(w, c)
  BY DEF Next, IInv, TypeOK, Enqueue, ReachNextAttempt, LockTimesOut, ClaimBatch,
         AbortBatch, tableVars
<1>2. PICK c \in claims[w] : MarkProcessed(w, c) \/ MarkFailed(w, c)  BY <1>1
<1>3. c.event = e /\ c.attempt = attempts[e]
  BY <1>2 DEF IInv, TypeOK, MarkProcessed, MarkFailed, tableVars, Matches
<1>4. c = ClaimOn(e, attempts[e])  BY <1>2, <1>3 DEF ClaimOn, Claim, IInv, TypeOK
<1>5. c \notin claims'[w]  BY <1>2 DEF MarkProcessed, MarkFailed, IInv, TypeOK
<1>6. \A v \in Workers \ {w} : c \notin claims[v]  BY <1>2 DEF IInv, ClaimsAreFenced
<1> QED BY <1>2, <1>4, <1>5, <1>6

\* Only the worker with the latest claim takes a row out of PROCESSING: the
\* compare-and-set of markProcessed and markFailed shuts out expired claimants.
THEOREM LatestClaimantSettles == Spec => SettledByLatestClaimant
<1>1. IInv /\ [Next]_vars =>
        [\A e \in Events :
           status[e] = "PROCESSING" /\ status'[e] # "PROCESSING" =>
             \E w \in Workers :
               /\ ClaimOn(e, attempts[e]) \in claims[w] \ claims'[w]
               /\ \A v \in Workers \ {w} : ClaimOn(e, attempts[e]) \notin claims[v]]_vars
  BY StepSettlesByLatestClaimant
<1> QED BY <1>1, IInvHolds, PTL DEF Spec, SettledByLatestClaimant

\* PROCESSED and DEAD rows are never touched again.
THEOREM SettledForever == Spec => SettledIsFinal
<1>1. IInv /\ [Next]_vars =>
        [\A e \in Events : status[e] \in {"PROCESSED", "DEAD"} => status'[e] = status[e]]_vars
  <2> SUFFICES ASSUME IInv, Next, NEW e \in Events, status[e] \in {"PROCESSED", "DEAD"}
               PROVE  status'[e] = status[e]
    OBVIOUS
  <2> QED BY DEF Next, IInv, TypeOK, Enqueue, ReachNextAttempt, LockTimesOut, ClaimBatch, Claimable,
           MarkProcessed, MarkFailed, Matches, AbortBatch, tableVars
<1> QED BY <1>1, IInvHolds, PTL DEF Spec, SettledIsFinal

------------------------
(* The table with its compare-and-set updates implements the abstract lease *)

LEMMA InitRefines == Init => Lease!LeaseInit
  BY DEF Init, Lease!LeaseInit, leaseStage, leaseHolder

\* Inserting a row submits it; the clock is invisible to the lease.
LEMMA RowStepsRefine ==
  ASSUME IInv, NEW e \in Events, Enqueue(e) \/ ReachNextAttempt(e) \/ LockTimesOut(e)
  PROVE  Lease!Submit(e) \/ UNCHANGED Lease!leaseVars
<1>1. CASE Enqueue(e)
  <2>1. leaseStage[e] = "none" /\ leaseStage' = [leaseStage EXCEPT ![e] = "waiting"]
    BY <1>1 DEF leaseStage, Enqueue, IInv, TypeOK
  <2>2. leaseHolder' = leaseHolder /\ attempts' = attempts
    BY <1>1 DEF leaseHolder, Enqueue, IInv, TypeOK
  <2> QED BY <2>1, <2>2 DEF Lease!Submit
<1>2. CASE ReachNextAttempt(e) \/ LockTimesOut(e)
  BY <1>2 DEF ReachNextAttempt, LockTimesOut, Lease!leaseVars, leaseStage, leaseHolder
<1> QED BY <1>1, <1>2

\* A claimed batch is a grant: the former claimants lose the rows at once,
\* because their attempt number no longer is the row's.
LEMMA ClaimRefines ==
  ASSUME IInv, NEW w \in Workers, ClaimBatch(w)
  PROVE  \E rows \in SUBSET Events : Lease!Grant(w, rows)
<1>1. PICK rows \in SUBSET {e \in Events : Claimable(e)} :
        /\ status' = [e \in Events |-> IF e \in rows THEN "PROCESSING" ELSE status[e]]
        /\ attempts' = [e \in Events |-> IF e \in rows THEN attempts[e] + 1 ELSE attempts[e]]
        /\ claims' = [claims EXCEPT ![w] = {ClaimOn(e, attempts[e] + 1) : e \in rows}]
  BY DEF ClaimBatch, NextAttempt
<1>2. rows \in SUBSET Events  OBVIOUS
<1>3. claims[w] = {}  BY DEF ClaimBatch
<1>4. \A e \in rows : leaseStage[e] \in {"waiting", "granted"} /\ attempts[e] < MaxAttempts
  BY DEF Claimable, leaseStage
<1>5. leaseStage' = [e \in Events |-> IF e \in rows THEN "granted" ELSE leaseStage[e]]
  BY <1>1 DEF leaseStage, IInv, TypeOK
<1>6. leaseHolder' = [e \in Events |-> IF e \in rows THEN {w} ELSE leaseHolder[e]]
  <2> SUFFICES ASSUME NEW e \in Events
               PROVE  leaseHolder'[e] = IF e \in rows THEN {w} ELSE leaseHolder[e]
    BY DEF leaseHolder
  <2>1. \A v \in Workers \ {w} : claims'[v] = claims[v]  BY <1>1 DEF IInv, TypeOK
  <2>2. claims'[w] = {ClaimOn(f, attempts[f] + 1) : f \in rows}  BY <1>1 DEF IInv, TypeOK
  <2>3. leaseHolder'[e] =
          {v \in Workers : status'[e] = "PROCESSING" /\ ClaimOn(e, attempts'[e]) \in claims'[v]}
    BY DEF leaseHolder
  <2>4. CASE e \in rows
    <3>1. status'[e] = "PROCESSING" /\ attempts'[e] = attempts[e] + 1  BY <1>1, <2>4
    <3>2. ClaimOn(e, attempts'[e]) \in claims'[w]  BY <2>2, <2>4, <3>1
    <3>3. \A v \in Workers \ {w} : ClaimOn(e, attempts'[e]) \notin claims[v]
      BY <3>1 DEF IInv, TypeOK, ClaimsAreFenced, ClaimOn
    <3> QED BY <2>1, <2>3, <2>4, <3>1, <3>2, <3>3
  <2>5. CASE e \notin rows
    <3>1. status'[e] = status[e] /\ attempts'[e] = attempts[e]  BY <1>1, <2>5
    <3>2. ClaimOn(e, attempts[e]) \notin claims'[w]  BY <2>2, <2>5 DEF ClaimOn
    <3>3. \A v \in Workers : ClaimOn(e, attempts[e]) \in claims'[v] <=> ClaimOn(e, attempts[e]) \in claims[v]
      BY <1>3, <2>1, <3>2
    <3>4. leaseHolder[e] = {v \in Workers : status[e] = "PROCESSING" /\ ClaimOn(e, attempts[e]) \in claims[v]}
      BY DEF leaseHolder
    <3> QED BY <2>3, <2>5, <3>1, <3>3, <3>4
  <2> QED BY <2>4, <2>5
<1> QED BY <1>1, <1>2, <1>4, <1>5, <1>6 DEF Lease!Grant

\* A settling update that matches is made by the holder; one that does not
\* match leaves the lease alone.
LEMMA SettlingRefines ==
  ASSUME IInv, NEW w \in Workers, NEW c \in claims[w], MarkProcessed(w, c) \/ MarkFailed(w, c)
  PROVE  Lease!Settle(c.event, w) \/ UNCHANGED Lease!leaseVars
<1>1. c.event \in Events /\ c.attempt \in 1..MaxAttempts /\ c = ClaimOn(c.event, c.attempt)
  BY DEF IInv, TypeOK, Claim, ClaimOn
<1>2. claims' = [claims EXCEPT ![w] = claims[w] \ {c}] /\ attempts' = attempts
  BY DEF MarkProcessed, MarkFailed, tableVars
<1>3. \A v \in Workers, e \in Events :
        e # c.event \/ c.attempt # attempts[e] =>
          (ClaimOn(e, attempts[e]) \in claims'[v] <=> ClaimOn(e, attempts[e]) \in claims[v])
  <2>1. \A e \in Events : e # c.event \/ c.attempt # attempts[e] => ClaimOn(e, attempts[e]) # c
    BY DEF ClaimOn
  <2>2. \A v \in Workers : claims'[v] = IF v = w THEN claims[v] \ {c} ELSE claims[v]
    BY <1>2 DEF IInv, TypeOK
  <2> QED BY <2>1, <2>2
<1>4. CASE ~Matches(c)
  <2>1. status' = status  BY <1>4 DEF MarkProcessed, MarkFailed, tableVars
  <2>2. \A e \in Events, v \in Workers :
          status[e] = "PROCESSING" =>
            (ClaimOn(e, attempts[e]) \in claims'[v] <=> ClaimOn(e, attempts[e]) \in claims[v])
    BY <1>3, <1>4 DEF Matches
  <2>3. leaseHolder' = leaseHolder  BY <1>2, <2>1, <2>2 DEF leaseHolder
  <2>4. leaseStage' = leaseStage  BY <2>1 DEF leaseStage
  <2> QED BY <1>2, <2>3, <2>4 DEF Lease!leaseVars
<1>5. CASE Matches(c)
  <2>1. status[c.event] = "PROCESSING" /\ c.attempt = attempts[c.event]  BY <1>5 DEF Matches
  <2>2. leaseStage[c.event] = "granted"  BY <1>1, <2>1 DEF leaseStage
  <2>3. leaseHolder[c.event] = {w}  BY <1>1, <2>1 DEF leaseHolder, IInv, ClaimsAreFenced
  <2>4. \/ status' = [status EXCEPT ![c.event] = "PROCESSED"]
        \/ status' = [status EXCEPT ![c.event] = "DEAD"]
        \/ /\ c.attempt < MaxAttempts
           /\ status' = [status EXCEPT ![c.event] = "RETRY"]
    BY <1>1, <1>5, OutboxAssumption DEF MarkProcessed, MarkFailed, IsLastAttempt
  <2>5. \/ leaseStage' = [leaseStage EXCEPT ![c.event] = "settled"]
        \/ /\ attempts[c.event] < MaxAttempts
           /\ leaseStage' = [leaseStage EXCEPT ![c.event] = "waiting"]
    <3>1. CASE status' = [status EXCEPT ![c.event] = "PROCESSED"]
      BY <1>1, <3>1 DEF leaseStage, IInv, TypeOK
    <3>2. CASE status' = [status EXCEPT ![c.event] = "DEAD"]  BY <1>1, <3>2 DEF leaseStage, IInv, TypeOK
    <3>3. CASE c.attempt < MaxAttempts /\ status' = [status EXCEPT ![c.event] = "RETRY"]
      BY <1>1, <2>1, <3>3 DEF leaseStage, IInv, TypeOK
    <3> QED BY <2>4, <3>1, <3>2, <3>3
  <2>6. leaseHolder' = [leaseHolder EXCEPT ![c.event] = {}]
    <3>1. status'[c.event] # "PROCESSING" /\ \A e \in Events \ {c.event} : status'[e] = status[e]
      BY <1>1, <2>4 DEF IInv, TypeOK
    <3>2. \A e \in Events :
            {v \in Workers : status'[e] = "PROCESSING" /\ ClaimOn(e, attempts'[e]) \in claims'[v]} =
            IF e = c.event THEN {}
            ELSE {v \in Workers : status[e] = "PROCESSING" /\ ClaimOn(e, attempts[e]) \in claims[v]}
      BY <1>2, <1>3, <3>1
    <3> QED BY <1>1, <3>2 DEF leaseHolder
  <2> QED BY <1>2, <2>2, <2>3, <2>5, <2>6 DEF Lease!Settle
<1> QED BY <1>4, <1>5

LEMMA AbortRefines ==
  ASSUME IInv, NEW w \in Workers, AbortBatch(w)
  PROVE  Lease!Forfeit(w)
<1>1. status' = status /\ attempts' = attempts /\ claims' = [claims EXCEPT ![w] = {}]
  BY DEF AbortBatch, tableVars
<1>2. \A v \in Workers : claims'[v] = IF v = w THEN {} ELSE claims[v]  BY <1>1 DEF IInv, TypeOK
<1>3. leaseHolder' = [e \in Events |-> leaseHolder[e] \ {w}]  BY <1>1, <1>2 DEF leaseHolder
<1> QED BY <1>1, <1>3 DEF Lease!Forfeit, leaseStage

LEMMA StepRefines == IInv /\ [Next]_vars => [Lease!LeaseNext]_Lease!leaseVars
<1> SUFFICES ASSUME IInv, [Next]_vars PROVE [Lease!LeaseNext]_Lease!leaseVars
  OBVIOUS
<1>1. CASE \E e \in Events : Enqueue(e) \/ ReachNextAttempt(e) \/ LockTimesOut(e)
  BY <1>1, RowStepsRefine DEF Lease!LeaseNext
<1>2. CASE \E w \in Workers : ClaimBatch(w)  BY <1>2, ClaimRefines DEF Lease!LeaseNext
<1>3. CASE \E w \in Workers : \E c \in claims[w] : MarkProcessed(w, c) \/ MarkFailed(w, c)
  <2>1. \A w \in Workers : \A c \in claims[w] : c.event \in Events  BY DEF IInv, TypeOK, Claim
  <2> QED BY <1>3, <2>1, SettlingRefines DEF Lease!LeaseNext
<1>4. CASE \E w \in Workers : AbortBatch(w)  BY <1>4, AbortRefines DEF Lease!LeaseNext
<1>5. CASE UNCHANGED vars  BY <1>5 DEF vars, Lease!leaseVars, leaseStage, leaseHolder
<1> QED BY <1>1, <1>2, <1>3, <1>4, <1>5 DEF Next

\* claimBatch, markProcessed and markFailed implement the abstract lease, for any
\* number of rows, workers and attempts: a lost lock costs at most a grant.
THEOREM QueueImplementsLease == Spec => ImplementsLease
  BY InitRefines, StepRefines, IInvHolds, PTL DEF Spec, ImplementsLease, Lease!LeaseSpec

------------------------
(* The receipts *)

Inserted(e) == e \in Events /\ status[e] # "ABSENT"

\* The columns PublicationTypeOK leaves out.
RowsAreTyped ==
    /\ due \in [Events -> BOOLEAN]
    /\ rowRevision \in [Events -> 0..MaxRevision]
    /\ changes \in Nat

\* Nobody knows a row before it is inserted.
KnownRowsAreInserted ==
    /\ \A e \in Events : rowRevision[e] > 0 => Inserted(e)
    /\ \A w \in Workers : \A c \in claims[w] : Inserted(c.event)
    /\ \A r \in Requests : call[r].step # "idle" => Inserted(call[r].event)

\* Whoever has read the website for the row it points to, has read it as it is.
DeliveriesOfThePointerAreCurrent ==
    /\ \A r \in Requests :
        call[r].step \in {"loaded", "judged"} /\ call[r].event = pointer
            => call[r].outcome.seenChanges = changes
    /\ \A w \in Workers :
        work[w].step \in {"loaded", "judged"} /\ work[w].claim.event = pointer
            => work[w].outcome.seenChanges = changes

DeliveryInv ==
    /\ PublicationTypeOK
    /\ RowsAreTyped
    /\ KnownRowsAreInserted
    /\ DeliveriesOfThePointerAreCurrent
    /\ ReceiptIsCurrent

------------------------
(* Operators *)

LEMMA NothingIsAnOutcome == Nothing \in Outcome
  BY PublicationAssumption DEF Nothing, Outcome, Verdict

\* loadIdentity reads the website as it is.
LEMMA SeenIsCurrent ==
  ASSUME revision \in 0..MaxRevision, changes \in Nat, NEW o \in Seen
  PROVE  o \in Outcome /\ o.seenChanges = changes /\ o.verdict = "none"
<1>1. PICK open \in {FALSE, revision > 0} :
        o = [revision |-> revision, seenChanges |-> changes, mayOpen |-> open, verdict |-> "none"]
  BY DEF Seen
<1>2. open \in BOOLEAN
  <2>1. (revision > 0) \in BOOLEAN  OBVIOUS
  <2>2. open = FALSE \/ open = (revision > 0)  BY <1>1, Zenon
  <2> QED BY <2>1, <2>2, Zenon
<1>3. o \in Outcome  BY <1>1, <1>2 DEF Outcome, Verdict
<1>4. o.seenChanges = changes /\ o.verdict = "none"  BY <1>1
<1> QED BY <1>3, <1>4

LEMMA VerdictsAreVerdicts ==
  ASSUME NEW o, NEW v \in Verdicts(o)
  PROVE  v \in Verdict
  BY DEF Verdicts, Verdict

\* What recordReceipt writes agrees with the website, as long as the delivery
\* of the row it points to has read the website as it is.
LEMMA RecordedReceiptIsCurrent ==
  ASSUME ReceiptIsCurrent, receipt \in Outcome,
         UNCHANGED <<revision, changes>>,
         NEW e, NEW o \in Outcome,
         e = pointer => o.seenChanges = changes,
         RecordReceipt(e, o)
  PROVE  receipt' \in Outcome /\ ReceiptIsCurrent'
<1>1. CASE AcceptsReceipt(e, o)
  <2>1. receipt' = o  BY <1>1 DEF RecordReceipt
  <2>2. o.revision = revision /\ o.seenChanges = changes  BY <1>1 DEF AcceptsReceipt
  <2> QED BY <2>1, <2>2 DEF ReceiptIsCurrent
<1>2. CASE ~AcceptsReceipt(e, o)
  <2>1. receipt' = receipt  BY <1>2 DEF RecordReceipt
  <2> QED BY <2>1 DEF ReceiptIsCurrent
<1> QED BY <1>1, <1>2

------------------------
(* The invariant *)

LEMMA InitDeliveryInv ==
  ASSUME PublicationInit
  PROVE  DeliveryInv
<1>1. /\ \A w \in Workers : work[w] = [step |-> "idle", claim |-> NoClaim, outcome |-> Nothing]
      /\ \A r \in Requests : call[r] = [step |-> "idle", event |-> NoEvent, outcome |-> Nothing]
  BY DEF PublicationInit, IdleWork, IdleCall
<1>2. PublicationTypeOK
  <2>1. /\ work \in [Workers -> [step : Step, claim : Claim \cup {NoClaim}, outcome : Outcome]]
        /\ call \in [Requests -> [step : Step, event : Events \cup {NoEvent}, outcome : Outcome]]
    BY NothingIsAnOutcome DEF PublicationInit, IdleWork, IdleCall, Step
  <2> QED BY <1>1, <2>1, NothingIsAnOutcome, PublicationAssumption, OutboxAssumption
    DEF PublicationInit, Init, PublicationTypeOK, Status
<1>3. RowsAreTyped  BY PublicationAssumption DEF PublicationInit, Init, RowsAreTyped
<1>4. KnownRowsAreInserted /\ DeliveriesOfThePointerAreCurrent /\ ReceiptIsCurrent
  <2>1. \A e \in Events : rowRevision[e] = 0  BY DEF PublicationInit
  <2> QED BY <1>1, <2>1
    DEF PublicationInit, Init, KnownRowsAreInserted, DeliveriesOfThePointerAreCurrent,
        ReceiptIsCurrent, Nothing
<1> QED BY <1>2, <1>3, <1>4 DEF DeliveryInv

\* A change of the website or of its access: the row it inserts is new to
\* everybody, so nobody has read anything for it.
LEMMA EnqueueKeepsInv ==
  ASSUME DeliveryInv, NEW r \in Requests, NEW e \in Events, EnqueueDelivery(r, e),
         \/ UNCHANGED <<revision, rowRevision>>
         \/ /\ revision < MaxRevision
            /\ revision' = revision + 1
            /\ rowRevision' = [rowRevision EXCEPT ![e] = revision + 1]
  PROVE  DeliveryInv'
<1> USE DEF DeliveryInv
<1>1. /\ status[e] = "ABSENT"
      /\ status' = [status EXCEPT ![e] = "PENDING"]
      /\ changes' = changes + 1
      /\ pointer' = e
      /\ receipt' = Nothing
      /\ UNCHANGED <<attempts, lockedAt, due, claims, work, retries>>
  BY DEF EnqueueDelivery
<1>2. \/ call' = [call EXCEPT ![r] = [IdleCall EXCEPT !.step = "returned", !.event = e]]
      \/ call' = call
  BY DEF EnqueueDelivery
<1>3. /\ revision' \in 0..MaxRevision
      /\ rowRevision' \in [Events -> 0..MaxRevision]
      /\ \A x \in Events \ {e} : rowRevision'[x] = rowRevision[x]
  BY PublicationAssumption DEF PublicationTypeOK, RowsAreTyped
<1>4. \A x : Inserted(x) => x # e /\ status'[x] = status[x]  BY <1>1 DEF Inserted, PublicationTypeOK
<1>5. status'[e] = "PENDING" /\ \A x \in Events : Inserted(x) \/ x = e <=> Inserted(x)'
  BY <1>1 DEF Inserted, PublicationTypeOK
<1>6. [IdleCall EXCEPT !.step = "returned", !.event = e]
        = [step |-> "returned", event |-> e, outcome |-> Nothing]
  <2>1. [IdleCall EXCEPT !.step = "returned"]
          = [step |-> "returned", event |-> NoEvent, outcome |-> Nothing]
    BY DEF IdleCall
  <2>2. [[step |-> "returned", event |-> NoEvent, outcome |-> Nothing] EXCEPT !.event = e]
          = [step |-> "returned", event |-> e, outcome |-> Nothing]
    OBVIOUS
  <2> QED BY <2>1, <2>2
<1>7. call' \in [Requests -> [step : Step, event : Events \cup {NoEvent}, outcome : Outcome]]
  BY <1>2, <1>6, NothingIsAnOutcome DEF PublicationTypeOK, Step
<1>8. PublicationTypeOK' /\ RowsAreTyped'
  <2>1. status' \in [Events -> Status] /\ receipt' \in Outcome
    BY <1>1, NothingIsAnOutcome DEF PublicationTypeOK, Status
  <2>2. \A w \in Workers : work'[w].step # "idle" => work'[w].claim \in claims'[w]
    BY <1>1 DEF PublicationTypeOK
  <2>3. changes' \in Nat  BY <1>1 DEF RowsAreTyped
  <2> QED BY <1>1, <1>3, <1>7, <2>1, <2>2, <2>3 DEF PublicationTypeOK, RowsAreTyped
<1>9. KnownRowsAreInserted'
  <2>1. \A x \in Events : rowRevision'[x] > 0 => Inserted(x)'  BY <1>3, <1>5 DEF KnownRowsAreInserted
  <2>2. \A w \in Workers : \A c \in claims'[w] : Inserted(c.event)'
    <3> SUFFICES ASSUME NEW w \in Workers, NEW c \in claims'[w] PROVE Inserted(c.event)'
      OBVIOUS
    <3>1. Inserted(c.event)  BY <1>1 DEF KnownRowsAreInserted
    <3> QED BY <1>5, <3>1 DEF Inserted
  <2>3. \A q \in Requests :
          call'[q].step # "idle" => call'[q].event \in Events /\ status'[call'[q].event] # "ABSENT"
    <3> SUFFICES ASSUME NEW q \in Requests, call'[q].step # "idle"
                 PROVE  call'[q].event \in Events /\ status'[call'[q].event] # "ABSENT"
      OBVIOUS
    <3>1. CASE call'[q] = [step |-> "returned", event |-> e, outcome |-> Nothing]
      <4>1. call'[q].event = e  BY <3>1
      <4> QED BY <1>5, <4>1
    <3>2. CASE call'[q] = call[q]
      <4>1. Inserted(call[q].event)  BY <3>2 DEF KnownRowsAreInserted
      <4> QED BY <1>4, <3>2, <4>1 DEF Inserted
    <3>3. call'[q] = call[q] \/ call'[q] = [step |-> "returned", event |-> e, outcome |-> Nothing]
      BY <1>2, <1>6 DEF PublicationTypeOK
    <3> QED BY <3>1, <3>2, <3>3
  <2> QED BY <2>1, <2>2, <2>3 DEF KnownRowsAreInserted, Inserted
<1>10. DeliveriesOfThePointerAreCurrent'
  <2>1. \A q \in Requests : ~(call'[q].step \in {"loaded", "judged"} /\ call'[q].event = e)
    <3> SUFFICES ASSUME NEW q \in Requests, call'[q].step \in {"loaded", "judged"}
                 PROVE  call'[q].event # e
      OBVIOUS
    <3>1. call'[q] = call[q] \/ call'[q] = [step |-> "returned", event |-> e, outcome |-> Nothing]
      BY <1>2, <1>6 DEF PublicationTypeOK
    <3>2. call'[q] = call[q]  BY <3>1
    <3>3. Inserted(call[q].event)  BY <3>2 DEF KnownRowsAreInserted
    <3> QED BY <1>4, <3>2, <3>3
  <2>2. \A w \in Workers : ~(work'[w].step \in {"loaded", "judged"} /\ work'[w].claim.event = e)
    BY <1>1, <1>4 DEF KnownRowsAreInserted, PublicationTypeOK
  <2> QED BY <1>1, <2>1, <2>2 DEF DeliveriesOfThePointerAreCurrent
<1>11. ReceiptIsCurrent'  BY <1>1 DEF ReceiptIsCurrent, Nothing
<1> QED BY <1>8, <1>9, <1>10, <1>11

\* What holds of one request and of one worker that holds the claims held.
CallIsRight(x) ==
    /\ x \in [step : Step, event : Events \cup {NoEvent}, outcome : Outcome]
    /\ x.step # "idle" => Inserted(x.event)
    /\ x.step \in {"loaded", "judged"} /\ x.event = pointer => x.outcome.seenChanges = changes

WorkIsRight(x, held) ==
    /\ x \in [step : Step, claim : Claim \cup {NoClaim}, outcome : Outcome]
    /\ x.step # "idle" => x.claim \in held
    /\ x.step \in {"loaded", "judged"} /\ x.claim.event = pointer => x.outcome.seenChanges = changes

HeldAreRight(held) == held \subseteq Claim /\ \A c \in held : Inserted(c.event)

LEMMA EachIsRight ==
  ASSUME DeliveryInv
  PROVE  /\ \A r \in Requests : CallIsRight(call[r])
         /\ \A w \in Workers : WorkIsRight(work[w], claims[w]) /\ HeldAreRight(claims[w])
  BY DEF DeliveryInv, PublicationTypeOK, KnownRowsAreInserted, DeliveriesOfThePointerAreCurrent,
         CallIsRight, WorkIsRight, HeldAreRight

LEMMA IdleIsRight ==
  /\ CallIsRight(IdleCall)
  /\ \A held : WorkIsRight(IdleWork, held)
  BY NothingIsAnOutcome DEF CallIsRight, WorkIsRight, IdleCall, IdleWork, Step

\* A step that leaves the website where it is: it is enough that the table keeps
\* its types and its rows, and that everybody is right afterwards.
LEMMA DeliveryStepKeepsInv ==
  ASSUME DeliveryInv,
         UNCHANGED <<revision, changes, pointer, rowRevision>>,
         /\ status' \in [Events -> Status]
         /\ attempts' \in [Events -> 0..MaxAttempts]
         /\ lockedAt' \in [Events -> {"null", "fresh", "stale"}]
         /\ due' \in [Events -> BOOLEAN],
         \A e \in Events : Inserted(e) => status'[e] # "ABSENT",
         claims' = [w \in Workers |-> claims'[w]],
         work' = [w \in Workers |-> work'[w]],
         call' = [r \in Requests |-> call'[r]],
         \A r \in Requests : CallIsRight(call'[r]),
         \A w \in Workers : WorkIsRight(work'[w], claims'[w]) /\ HeldAreRight(claims'[w]),
         receipt' \in Outcome, ReceiptIsCurrent'
  PROVE  DeliveryInv'
<1>1. /\ claims' \in [Workers -> SUBSET Claim]
      /\ work' \in [Workers -> [step : Step, claim : Claim \cup {NoClaim}, outcome : Outcome]]
      /\ call' \in [Requests -> [step : Step, event : Events \cup {NoEvent}, outcome : Outcome]]
  BY DEF HeldAreRight, WorkIsRight, CallIsRight
<1>2. PublicationTypeOK' /\ RowsAreTyped'
  BY <1>1 DEF DeliveryInv, PublicationTypeOK, RowsAreTyped, WorkIsRight
<1>3. KnownRowsAreInserted'
  BY DEF DeliveryInv, KnownRowsAreInserted, HeldAreRight, CallIsRight, Inserted
<1>4. DeliveriesOfThePointerAreCurrent'
  BY DEF DeliveriesOfThePointerAreCurrent, WorkIsRight, CallIsRight
<1> QED BY <1>2, <1>3, <1>4 DEF DeliveryInv

\* A request takes a step of its own.
LEMMA CallStepKeepsInv ==
  ASSUME DeliveryInv, NEW r \in Requests, NEW x, CallIsRight(x),
         call' = [call EXCEPT ![r] = x],
         UNCHANGED <<vars, siteVars, work>>
  PROVE  DeliveryInv'
<1>1. UNCHANGED <<status, attempts, lockedAt, due, claims, revision, changes, pointer, rowRevision,
                  receipt, work>>
  BY DEF vars, siteVars
<1>2. call' = [q \in Requests |-> call'[q]] /\ \A q \in Requests : call'[q] = IF q = r THEN x ELSE call[q]
  BY DEF DeliveryInv, PublicationTypeOK
<1>3. \A q \in Requests : CallIsRight(call'[q])  BY <1>2, EachIsRight
<1>4. /\ claims' = [w \in Workers |-> claims'[w]]
      /\ work' = [w \in Workers |-> work'[w]]
      /\ \A w \in Workers : WorkIsRight(work'[w], claims'[w]) /\ HeldAreRight(claims'[w])
  BY <1>1, EachIsRight DEF DeliveryInv, PublicationTypeOK
<1>5. receipt' \in Outcome /\ ReceiptIsCurrent'
  BY <1>1 DEF DeliveryInv, PublicationTypeOK, ReceiptIsCurrent
<1>6. /\ status' \in [Events -> Status]
      /\ attempts' \in [Events -> 0..MaxAttempts]
      /\ lockedAt' \in [Events -> {"null", "fresh", "stale"}]
      /\ due' \in [Events -> BOOLEAN]
      /\ \A e \in Events : Inserted(e) => status'[e] # "ABSENT"
  BY <1>1 DEF DeliveryInv, PublicationTypeOK, RowsAreTyped, Inserted
<1> QED BY <1>1, <1>2, <1>3, <1>4, <1>5, <1>6, DeliveryStepKeepsInv

\* A worker takes a step of its own.
LEMMA WorkStepKeepsInv ==
  ASSUME DeliveryInv, NEW w \in Workers, NEW x, WorkIsRight(x, claims[w]),
         work' = [work EXCEPT ![w] = x],
         UNCHANGED <<vars, revision, changes, pointer, rowRevision, call>>,
         receipt' \in Outcome, ReceiptIsCurrent'
  PROVE  DeliveryInv'
<1>1. UNCHANGED <<status, attempts, lockedAt, due, claims, revision, changes, pointer, rowRevision,
                  call>>
  BY DEF vars
<1>2. work' = [v \in Workers |-> work'[v]] /\ \A v \in Workers : work'[v] = IF v = w THEN x ELSE work[v]
  BY DEF DeliveryInv, PublicationTypeOK
<1>3. \A v \in Workers : WorkIsRight(work'[v], claims'[v]) /\ HeldAreRight(claims'[v])
  BY <1>1, <1>2, EachIsRight
<1>4. /\ claims' = [v \in Workers |-> claims'[v]]
      /\ call' = [r \in Requests |-> call'[r]]
      /\ \A r \in Requests : CallIsRight(call'[r])
  BY <1>1, EachIsRight DEF DeliveryInv, PublicationTypeOK
<1>5. /\ status' \in [Events -> Status]
      /\ attempts' \in [Events -> 0..MaxAttempts]
      /\ lockedAt' \in [Events -> {"null", "fresh", "stale"}]
      /\ due' \in [Events -> BOOLEAN]
      /\ \A e \in Events : Inserted(e) => status'[e] # "ABSENT"
  BY <1>1 DEF DeliveryInv, PublicationTypeOK, RowsAreTyped, Inserted
<1> QED BY <1>1, <1>2, <1>3, <1>4, <1>5, DeliveryStepKeepsInv

------------------------
(* One lemma per action *)

LEMMA RetryLaunchKeepsInv ==
  ASSUME DeliveryInv, NEW r \in Requests, NEW e \in Events, RetryLaunch(r, e)
  PROVE  DeliveryInv'
<1> DEFINE x == [IdleCall EXCEPT !.step = "returned", !.event = e]
<1>1. rowRevision[e] > 0  BY DEF RetryLaunch
<1>2. Inserted(e)  BY <1>1 DEF DeliveryInv, KnownRowsAreInserted
<1>3. x = [step |-> "returned", event |-> e, outcome |-> Nothing]
  <2>1. [IdleCall EXCEPT !.step = "returned"]
          = [step |-> "returned", event |-> NoEvent, outcome |-> Nothing]
    BY DEF IdleCall
  <2>2. [[step |-> "returned", event |-> NoEvent, outcome |-> Nothing] EXCEPT !.event = e]
          = [step |-> "returned", event |-> e, outcome |-> Nothing]
    OBVIOUS
  <2> QED BY <2>1, <2>2
<1>4. CallIsRight(x)
  <2> HIDE DEF x
  <2> QED BY <1>2, <1>3, NothingIsAnOutcome DEF CallIsRight, Step
<1>5. call' = [call EXCEPT ![r] = x] /\ UNCHANGED <<vars, siteVars, work>>  BY DEF RetryLaunch
<1> HIDE DEF x
<1> QED BY <1>4, <1>5, CallStepKeepsInv

LEMMA LoadNowKeepsInv ==
  ASSUME DeliveryInv, NEW r \in Requests, LoadNow(r)
  PROVE  DeliveryInv'
<1>1. call[r].step = "returned" /\ UNCHANGED <<vars, siteVars, work>>  BY DEF LoadNow
<1>2. PICK o \in Seen : call' = [call EXCEPT ![r].step = "loaded", ![r].outcome = o]  BY DEF LoadNow
<1>3. o \in Outcome /\ o.seenChanges = changes
  BY SeenIsCurrent DEF DeliveryInv, PublicationTypeOK, RowsAreTyped
<1> DEFINE x == [call[r] EXCEPT !.step = "loaded", !.outcome = o]
<1>4. call' = [call EXCEPT ![r] = x]  BY <1>2 DEF DeliveryInv, PublicationTypeOK
<1>5. CallIsRight(x)  BY <1>1, <1>3, EachIsRight DEF CallIsRight, Step
<1> HIDE DEF x
<1> QED BY <1>1, <1>4, <1>5, CallStepKeepsInv

LEMMA JudgeNowKeepsInv ==
  ASSUME DeliveryInv, NEW r \in Requests, JudgeNow(r)
  PROVE  DeliveryInv'
<1>1. call[r].step = "loaded" /\ UNCHANGED <<vars, siteVars, work>>  BY DEF JudgeNow
<1>2. PICK v \in Verdicts(call[r].outcome) :
        call' = [call EXCEPT ![r].step = "judged", ![r].outcome.verdict = v]
  BY DEF JudgeNow
<1>3. v \in Verdict  BY VerdictsAreVerdicts
<1>4. CallIsRight(call[r])  BY EachIsRight
<1> DEFINE o == [call[r].outcome EXCEPT !.verdict = v]
           x == [call[r] EXCEPT !.step = "judged", !.outcome = o]
<1>5. o \in Outcome /\ o.seenChanges = call[r].outcome.seenChanges
  BY <1>3, <1>4 DEF CallIsRight, Outcome
<1>6. call' = [call EXCEPT ![r] = x]  BY <1>2, <1>4 DEF CallIsRight, DeliveryInv, PublicationTypeOK
<1> HIDE DEF o
<1>7. CallIsRight(x)  BY <1>1, <1>4, <1>5 DEF CallIsRight, Step
<1> HIDE DEF x
<1> QED BY <1>1, <1>6, <1>7, CallStepKeepsInv

LEMMA DropCallKeepsInv ==
  ASSUME DeliveryInv, NEW r \in Requests, DropCall(r)
  PROVE  DeliveryInv'
  BY IdleIsRight, CallStepKeepsInv DEF DropCall

\* The row and the receipt of a request, in one transaction.
LEMMA RecordNowKeepsInv ==
  ASSUME DeliveryInv, NEW r \in Requests, RecordNow(r)
  PROVE  DeliveryInv'
<1> DEFINE e == call[r].event
           o == call[r].outcome
<1>1. CallIsRight(call[r]) /\ call[r].step = "judged"  BY EachIsRight DEF RecordNow
<1>2. e \in Events /\ Inserted(e) /\ o \in Outcome /\ (e = pointer => o.seenChanges = changes)
  BY <1>1 DEF CallIsRight, Inserted
<1>3. /\ call' = [call EXCEPT ![r] = IdleCall]
      /\ UNCHANGED <<claims, revision, changes, pointer, rowRevision, work>>
  BY DEF RecordNow
<1>4. /\ status' \in [Events -> Status]
      /\ attempts' \in [Events -> 0..MaxAttempts]
      /\ lockedAt' \in [Events -> {"null", "fresh", "stale"}]
      /\ due' \in [Events -> BOOLEAN]
      /\ \A x \in Events : Inserted(x) => status'[x] # "ABSENT"
  <2>1. CASE MayRecordNow(e)
    <3>1. /\ status' = [status EXCEPT ![e] = IF Delivered(o) THEN "PROCESSED" ELSE "RETRY"]
          /\ lockedAt' = [lockedAt EXCEPT ![e] = "null"]
          /\ attempts' = [attempts EXCEPT ![e] = IF Delivered(o) THEN @ ELSE 0]
          /\ due' = [due EXCEPT ![e] = IF Delivered(o) THEN @ ELSE FALSE]
      BY <2>1 DEF RecordNow
    <3> HIDE DEF e, o
    <3>2. status' \in [Events -> Status] /\ \A x \in Events : Inserted(x) => status'[x] # "ABSENT"
      BY <1>2, <3>1 DEF DeliveryInv, PublicationTypeOK, Status, Inserted
    <3>3. attempts' \in [Events -> 0..MaxAttempts] /\ lockedAt' \in [Events -> {"null", "fresh", "stale"}]
      BY <1>2, <3>1, OutboxAssumption DEF DeliveryInv, PublicationTypeOK
    <3>4. due' \in [Events -> BOOLEAN]  BY <1>2, <3>1 DEF DeliveryInv, RowsAreTyped
    <3> QED BY <3>2, <3>3, <3>4
  <2>2. CASE ~MayRecordNow(e)
    BY <2>2 DEF RecordNow, tableVars, DeliveryInv, PublicationTypeOK, RowsAreTyped, Inserted
  <2> QED BY <2>1, <2>2
<1>5. receipt' \in Outcome /\ ReceiptIsCurrent'
  <2>1. CASE MayRecordNow(e)
    <3>1. RecordReceipt(e, o)  BY <2>1 DEF RecordNow
    <3> HIDE DEF e, o
    <3> QED BY <1>2, <1>3, <3>1, RecordedReceiptIsCurrent DEF DeliveryInv, PublicationTypeOK
  <2>2. CASE ~MayRecordNow(e)
    BY <1>3, <2>2 DEF RecordNow, DeliveryInv, PublicationTypeOK, ReceiptIsCurrent
  <2> QED BY <2>1, <2>2
<1>6. /\ call' = [q \in Requests |-> call'[q]]
      /\ \A q \in Requests : CallIsRight(call'[q])
  BY <1>3, EachIsRight, IdleIsRight DEF DeliveryInv, PublicationTypeOK
<1>7. /\ claims' = [w \in Workers |-> claims'[w]]
      /\ work' = [w \in Workers |-> work'[w]]
      /\ \A w \in Workers : WorkIsRight(work'[w], claims'[w]) /\ HeldAreRight(claims'[w])
  BY <1>3, EachIsRight DEF DeliveryInv, PublicationTypeOK
<1> QED BY <1>3, <1>4, <1>5, <1>6, <1>7, DeliveryStepKeepsInv

LEMMA LoadKeepsInv ==
  ASSUME DeliveryInv, NEW w \in Workers, Load(w)
  PROVE  DeliveryInv'
<1>1. PICK c \in claims[w], o \in Seen :
        work' = [work EXCEPT ![w] = [step |-> "loaded", claim |-> c, outcome |-> o]]
  BY DEF Load
<1>2. o \in Outcome /\ o.seenChanges = changes
  BY SeenIsCurrent DEF DeliveryInv, PublicationTypeOK, RowsAreTyped
<1>3. WorkIsRight([step |-> "loaded", claim |-> c, outcome |-> o], claims[w])
  BY <1>1, <1>2, EachIsRight DEF WorkIsRight, HeldAreRight, Step
<1>4. UNCHANGED <<vars, siteVars, call>> /\ receipt' = receipt  BY DEF Load, siteVars
<1>5. UNCHANGED <<vars, revision, changes, pointer, rowRevision, call>>  BY <1>4 DEF siteVars
<1>6. receipt' \in Outcome /\ ReceiptIsCurrent'
  BY <1>4, <1>5 DEF DeliveryInv, PublicationTypeOK, ReceiptIsCurrent
<1> QED BY <1>1, <1>3, <1>5, <1>6, WorkStepKeepsInv

LEMMA JudgeKeepsInv ==
  ASSUME DeliveryInv, NEW w \in Workers, Judge(w)
  PROVE  DeliveryInv'
<1>1. work[w].step = "loaded" /\ UNCHANGED <<vars, siteVars, call>>  BY DEF Judge
<1>2. PICK v \in Verdicts(work[w].outcome) :
        work' = [work EXCEPT ![w].step = "judged", ![w].outcome.verdict = v]
  BY DEF Judge
<1>3. v \in Verdict  BY VerdictsAreVerdicts
<1>4. WorkIsRight(work[w], claims[w])  BY EachIsRight
<1> DEFINE o == [work[w].outcome EXCEPT !.verdict = v]
           x == [work[w] EXCEPT !.step = "judged", !.outcome = o]
<1>5. o \in Outcome /\ o.seenChanges = work[w].outcome.seenChanges
  BY <1>3, <1>4 DEF WorkIsRight, Outcome
<1>6. work' = [work EXCEPT ![w] = x]  BY <1>2, <1>4 DEF WorkIsRight, DeliveryInv, PublicationTypeOK
<1> HIDE DEF o
<1>7. WorkIsRight(x, claims[w])  BY <1>1, <1>4, <1>5 DEF WorkIsRight, Step
<1> HIDE DEF x
<1>8. UNCHANGED <<vars, revision, changes, pointer, rowRevision, call>> /\ receipt' = receipt
  BY <1>1 DEF siteVars
<1>9. receipt' \in Outcome /\ ReceiptIsCurrent'
  BY <1>8 DEF DeliveryInv, PublicationTypeOK, ReceiptIsCurrent
<1> QED BY <1>6, <1>7, <1>8, <1>9, WorkStepKeepsInv

\* The receipt of a worker, under the compare-and-set of its row.
LEMMA RecordKeepsInv ==
  ASSUME DeliveryInv, NEW w \in Workers, Record(w)
  PROVE  DeliveryInv'
<1> DEFINE c == work[w].claim
           o == work[w].outcome
<1>1. WorkIsRight(work[w], claims[w]) /\ work[w].step = "judged"  BY EachIsRight DEF Record
<1>2. o \in Outcome /\ (c.event = pointer => o.seenChanges = changes)  BY <1>1 DEF WorkIsRight
<1>3. UNCHANGED <<vars, revision, changes, pointer, rowRevision, call>>  BY DEF Record
<1>4. receipt' \in Outcome /\ ReceiptIsCurrent'
  <2>1. CASE Matches(c)
    <3>1. RecordReceipt(c.event, o)  BY <2>1 DEF Record
    <3> HIDE DEF c, o
    <3> QED BY <1>2, <1>3, <3>1, RecordedReceiptIsCurrent DEF DeliveryInv, PublicationTypeOK
  <2>2. CASE ~Matches(c)  BY <1>3, <2>2 DEF Record, DeliveryInv, PublicationTypeOK, ReceiptIsCurrent
  <2> QED BY <2>1, <2>2
<1>5. PICK t \in {"thrown", "returned"} : work' = [work EXCEPT ![w].step = t]  BY DEF Record
<1> DEFINE x == [work[w] EXCEPT !.step = t]
<1>6. work' = [work EXCEPT ![w] = x]  BY <1>5
<1>7. WorkIsRight(x, claims[w])  BY <1>1 DEF WorkIsRight, Step
<1> HIDE DEF x
<1> QED BY <1>3, <1>4, <1>6, <1>7, WorkStepKeepsInv

LEMMA ThrowKeepsInv ==
  ASSUME DeliveryInv, NEW w \in Workers, Throw(w)
  PROVE  DeliveryInv'
<1>1. /\ work[w].step \in {"judged", "returned"}
      /\ work' = [work EXCEPT ![w].step = "thrown"]
      /\ UNCHANGED <<vars, siteVars, call>>
  BY DEF Throw
<1>2. WorkIsRight(work[w], claims[w])  BY EachIsRight
<1> DEFINE x == [work[w] EXCEPT !.step = "thrown"]
<1>3. work' = [work EXCEPT ![w] = x]  BY <1>1
<1>4. WorkIsRight(x, claims[w])  BY <1>1, <1>2 DEF WorkIsRight, Step
<1> HIDE DEF x
<1>5. UNCHANGED <<vars, revision, changes, pointer, rowRevision, call>> /\ receipt' = receipt
  BY <1>1 DEF siteVars
<1>6. receipt' \in Outcome /\ ReceiptIsCurrent'
  BY <1>5 DEF DeliveryInv, PublicationTypeOK, ReceiptIsCurrent
<1> QED BY <1>3, <1>4, <1>5, <1>6, WorkStepKeepsInv

\* The outbox moves on while website, requests and receipt stay.
LEMMA OutboxStepKeepsInv ==
  ASSUME DeliveryInv,
         UNCHANGED <<siteVars, call>>,
         /\ status' \in [Events -> Status]
         /\ attempts' \in [Events -> 0..MaxAttempts]
         /\ lockedAt' \in [Events -> {"null", "fresh", "stale"}]
         /\ due' \in [Events -> BOOLEAN],
         \A e \in Events : Inserted(e) => status'[e] # "ABSENT",
         claims' = [w \in Workers |-> claims'[w]],
         work' = [w \in Workers |-> work'[w]],
         \A w \in Workers : WorkIsRight(work'[w], claims'[w]) /\ HeldAreRight(claims'[w])
  PROVE  DeliveryInv'
<1>1. UNCHANGED <<revision, changes, pointer, rowRevision, receipt, call>>  BY DEF siteVars
<1>2. call' = [r \in Requests |-> call'[r]] /\ \A r \in Requests : CallIsRight(call'[r])
  BY <1>1, EachIsRight DEF DeliveryInv, PublicationTypeOK
<1>3. receipt' \in Outcome /\ ReceiptIsCurrent'
  BY <1>1 DEF DeliveryInv, PublicationTypeOK, ReceiptIsCurrent
<1> QED BY <1>1, <1>2, <1>3, DeliveryStepKeepsInv

LEMMA ClaimPublicationsKeepsInv ==
  ASSUME DeliveryInv, NEW w \in Workers, ClaimPublications(w)
  PROVE  DeliveryInv'
<1>1. PICK rows \in SUBSET {e \in Events : Claimable(e)} :
        /\ status' = [e \in Events |-> IF e \in rows THEN "PROCESSING" ELSE status[e]]
        /\ lockedAt' = [e \in Events |-> IF e \in rows THEN "fresh" ELSE lockedAt[e]]
        /\ attempts' = [e \in Events |-> IF e \in rows THEN attempts[e] + 1 ELSE attempts[e]]
        /\ claims' = [claims EXCEPT ![w] = {ClaimOn(e, attempts[e] + 1) : e \in rows}]
  BY DEF ClaimPublications, ClaimBatch, NextAttempt
<1>2. UNCHANGED <<siteVars, call>> /\ due' = due /\ work' = work /\ work[w].step = "idle"
  BY DEF ClaimPublications, ClaimBatch, deliveryVars
<1>3. \A e \in rows : Inserted(e) /\ attempts[e] < MaxAttempts  BY <1>1 DEF Claimable, Inserted
<1>4. /\ status' \in [Events -> Status]
      /\ attempts' \in [Events -> 0..MaxAttempts]
      /\ lockedAt' \in [Events -> {"null", "fresh", "stale"}]
      /\ due' \in [Events -> BOOLEAN]
      /\ \A e \in Events : Inserted(e) => status'[e] # "ABSENT"
  <2>1. status' \in [Events -> Status] /\ \A e \in Events : Inserted(e) => status'[e] # "ABSENT"
    BY <1>1 DEF DeliveryInv, PublicationTypeOK, Status, Inserted
  <2>2. attempts' \in [Events -> 0..MaxAttempts] /\ lockedAt' \in [Events -> {"null", "fresh", "stale"}]
    BY <1>1, <1>3, OutboxAssumption DEF DeliveryInv, PublicationTypeOK
  <2> QED BY <1>2, <2>1, <2>2 DEF DeliveryInv, RowsAreTyped
<1>5. HeldAreRight({ClaimOn(e, attempts[e] + 1) : e \in rows})
  BY <1>3, OutboxAssumption DEF HeldAreRight, ClaimOn, Claim, Inserted, DeliveryInv, PublicationTypeOK
<1>6. /\ claims' = [v \in Workers |-> claims'[v]]
      /\ work' = [v \in Workers |-> work'[v]]
      /\ \A v \in Workers : WorkIsRight(work'[v], claims'[v]) /\ HeldAreRight(claims'[v])
  <2>1. claims' = [v \in Workers |-> claims'[v]] /\ work' = [v \in Workers |-> work'[v]]
    BY <1>1, <1>2 DEF DeliveryInv, PublicationTypeOK
  <2>2. claims'[w] = {ClaimOn(e, attempts[e] + 1) : e \in rows}
    BY <1>1 DEF DeliveryInv, PublicationTypeOK
  <2>3. \A v \in Workers \ {w} : claims'[v] = claims[v]  BY <1>1 DEF DeliveryInv, PublicationTypeOK
  <2>4. WorkIsRight(work[w], claims'[w])  BY <1>2, EachIsRight DEF WorkIsRight
  <2> QED BY <1>2, <1>5, <2>1, <2>2, <2>3, <2>4, EachIsRight
<1> QED BY <1>2, <1>4, <1>6, OutboxStepKeepsInv

\* markProcessed or markFailed: the worker lets go of the claim it worked on.
LEMMA SettleKeepsInv ==
  ASSUME DeliveryInv, NEW w \in Workers, Settle(w)
  PROVE  DeliveryInv'
<1> DEFINE c == work[w].claim
<1>1. MarkProcessed(w, c) \/ MarkFailed(w, c)  BY DEF Settle
<1>2. UNCHANGED <<siteVars, call>> /\ work' = [work EXCEPT ![w] = IdleWork]  BY DEF Settle
<1>3. c \in claims[w] /\ claims' = [claims EXCEPT ![w] = claims[w] \ {c}]
  BY <1>1 DEF MarkProcessed, MarkFailed
<1>4. c \in Claim /\ c.event \in Events  BY <1>3 DEF DeliveryInv, PublicationTypeOK, Claim
<1> HIDE DEF c
<1>5. /\ status' \in [Events -> Status]
      /\ attempts' \in [Events -> 0..MaxAttempts]
      /\ lockedAt' \in [Events -> {"null", "fresh", "stale"}]
      /\ due' \in [Events -> BOOLEAN]
      /\ \A e \in Events : Inserted(e) => status'[e] # "ABSENT"
  <2>1. CASE ~Matches(c)
    BY <1>1, <2>1
    DEF MarkProcessed, MarkFailed, tableVars, DeliveryInv, PublicationTypeOK, RowsAreTyped, Inserted
  <2>2. CASE Matches(c)
    <3>1. PICK s \in {"PROCESSED", "DEAD", "RETRY"} : status' = [status EXCEPT ![c.event] = s]
      BY <1>1, <2>2 DEF MarkProcessed, MarkFailed
    <3>2. attempts' = attempts /\ lockedAt' = [lockedAt EXCEPT ![c.event] = "null"]
      BY <1>1, <2>2 DEF MarkProcessed, MarkFailed
    <3>3. due' = due \/ due' = [due EXCEPT ![c.event] = FALSE]
      BY <1>1, <2>2 DEF MarkProcessed, MarkFailed
    <3>4. status' \in [Events -> Status] /\ \A e \in Events : Inserted(e) => status'[e] # "ABSENT"
      BY <1>4, <3>1 DEF DeliveryInv, PublicationTypeOK, Status, Inserted
    <3> QED BY <1>4, <3>2, <3>3, <3>4 DEF DeliveryInv, PublicationTypeOK, RowsAreTyped
  <2> QED BY <2>1, <2>2
<1>6. /\ claims' = [v \in Workers |-> claims'[v]]
      /\ work' = [v \in Workers |-> work'[v]]
      /\ \A v \in Workers : WorkIsRight(work'[v], claims'[v]) /\ HeldAreRight(claims'[v])
  <2>1. claims' = [v \in Workers |-> claims'[v]] /\ work' = [v \in Workers |-> work'[v]]
    BY <1>2, <1>3 DEF DeliveryInv, PublicationTypeOK
  <2>2. claims'[w] = claims[w] \ {c} /\ work'[w] = IdleWork
    BY <1>2, <1>3 DEF DeliveryInv, PublicationTypeOK
  <2>3. \A v \in Workers \ {w} : claims'[v] = claims[v] /\ work'[v] = work[v]
    BY <1>2, <1>3 DEF DeliveryInv, PublicationTypeOK
  <2>4. HeldAreRight(claims'[w])  BY <2>2, EachIsRight DEF HeldAreRight
  <2> QED BY <2>1, <2>2, <2>3, <2>4, EachIsRight, IdleIsRight
<1> QED BY <1>2, <1>5, <1>6, OutboxStepKeepsInv

LEMMA CrashKeepsInv ==
  ASSUME DeliveryInv, NEW w \in Workers, Crash(w)
  PROVE  DeliveryInv'
<1>1. /\ UNCHANGED <<siteVars, call>> /\ UNCHANGED <<status, attempts, lockedAt, due>>
      /\ claims' = [claims EXCEPT ![w] = {}]
      /\ work' = [work EXCEPT ![w] = IdleWork]
  BY DEF Crash, AbortBatch, tableVars
<1>2. /\ status' \in [Events -> Status]
      /\ attempts' \in [Events -> 0..MaxAttempts]
      /\ lockedAt' \in [Events -> {"null", "fresh", "stale"}]
      /\ due' \in [Events -> BOOLEAN]
      /\ \A e \in Events : Inserted(e) => status'[e] # "ABSENT"
  BY <1>1 DEF DeliveryInv, PublicationTypeOK, RowsAreTyped, Inserted
<1>3. claims' = [v \in Workers |-> claims'[v]] /\ work' = [v \in Workers |-> work'[v]]
  BY <1>1 DEF DeliveryInv, PublicationTypeOK
<1>4. claims'[w] = {} /\ work'[w] = IdleWork  BY <1>1 DEF DeliveryInv, PublicationTypeOK
<1>5. \A v \in Workers \ {w} : claims'[v] = claims[v] /\ work'[v] = work[v]
  BY <1>1 DEF DeliveryInv, PublicationTypeOK
<1>6. HeldAreRight(claims'[w])  BY <1>4 DEF HeldAreRight
<1>7. \A v \in Workers : WorkIsRight(work'[v], claims'[v]) /\ HeldAreRight(claims'[v])
  BY <1>4, <1>5, <1>6, EachIsRight, IdleIsRight
<1> QED BY <1>1, <1>2, <1>3, <1>7, OutboxStepKeepsInv

LEMMA WaitKeepsInv ==
  ASSUME DeliveryInv, NEW e \in Events, Wait(e)
  PROVE  DeliveryInv'
<1>1. UNCHANGED <<siteVars, call>> /\ UNCHANGED <<status, attempts, claims, work>>
  BY DEF Wait, ReachNextAttempt, LockTimesOut, deliveryVars
<1>2. /\ status' \in [Events -> Status]
      /\ attempts' \in [Events -> 0..MaxAttempts]
      /\ \A x \in Events : Inserted(x) => status'[x] # "ABSENT"
  BY <1>1 DEF DeliveryInv, PublicationTypeOK, Inserted
<1>3. lockedAt' \in [Events -> {"null", "fresh", "stale"}] /\ due' \in [Events -> BOOLEAN]
  BY DEF Wait, ReachNextAttempt, LockTimesOut, DeliveryInv, PublicationTypeOK, RowsAreTyped
<1>4. /\ claims' = [v \in Workers |-> claims'[v]]
      /\ work' = [v \in Workers |-> work'[v]]
      /\ \A v \in Workers : WorkIsRight(work'[v], claims'[v]) /\ HeldAreRight(claims'[v])
  BY <1>1, EachIsRight DEF DeliveryInv, PublicationTypeOK
<1> QED BY <1>1, <1>2, <1>3, <1>4, OutboxStepKeepsInv

------------------------
LEMMA StepKeepsDeliveryInv == DeliveryInv /\ [PublicationNext]_allVars => DeliveryInv'
<1> SUFFICES ASSUME DeliveryInv, [PublicationNext]_allVars PROVE DeliveryInv'
  OBVIOUS
<1>1. ASSUME NEW r \in Requests, NEW e \in Events, Publish(r, e) \/ ChangeAccess(r, e)
      PROVE  DeliveryInv'
  BY <1>1, EnqueueKeepsInv DEF Publish, ChangeAccess
<1>2. ASSUME NEW r \in Requests, NEW e \in Events, RetryLaunch(r, e)
      PROVE  DeliveryInv'
  BY <1>2, RetryLaunchKeepsInv
<1>3. ASSUME NEW r \in Requests, Request(r) \/ DropCall(r)
      PROVE  DeliveryInv'
  BY <1>3, LoadNowKeepsInv, JudgeNowKeepsInv, RecordNowKeepsInv, DropCallKeepsInv DEF Request
<1>4. ASSUME NEW w \in Workers, ClaimPublications(w) \/ Worker(w) \/ Crash(w)
      PROVE  DeliveryInv'
  BY <1>4, ClaimPublicationsKeepsInv, LoadKeepsInv, JudgeKeepsInv, RecordKeepsInv, ThrowKeepsInv,
     SettleKeepsInv, CrashKeepsInv
  DEF Worker
<1>5. ASSUME NEW e \in Events, Wait(e)
      PROVE  DeliveryInv'
  BY <1>5, WaitKeepsInv
<1>6. CASE UNCHANGED allVars
  BY <1>6
  DEF allVars, vars, deliveryVars, siteVars, DeliveryInv, PublicationTypeOK, RowsAreTyped,
      KnownRowsAreInserted, DeliveriesOfThePointerAreCurrent, ReceiptIsCurrent, Inserted
<1> QED BY <1>1, <1>2, <1>3, <1>4, <1>5, <1>6 DEF PublicationNext

LEMMA DeliveryInvHolds == PublicationSpec => []DeliveryInv
  BY InitDeliveryInv, StepKeepsDeliveryInv, PTL DEF PublicationSpec

\* Type correctness of the outbox, the website's columns and whatever workers and
\* requests remember; a busy worker works on one of its claims.
THEOREM PublicationTypeCorrect == PublicationSpec => []PublicationTypeOK
<1>1. DeliveryInv => PublicationTypeOK  BY DEF DeliveryInv
<1> QED BY <1>1, DeliveryInvHolds, PTL

\* The receipt the dashboard shows as "live" always comes from a delivery that
\* read the website after its last publication, suspension or restoration, for
\* the revision that is published (recordReceipt and enqueueDeliveryTx).
THEOREM ReceiptsAreCurrent == PublicationSpec => []ReceiptIsCurrent
<1>1. DeliveryInv => ReceiptIsCurrent  BY DEF DeliveryInv
<1> QED BY <1>1, DeliveryInvHolds, PTL
================================================================================
