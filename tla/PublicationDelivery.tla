-------------------------- MODULE PublicationDelivery --------------------------
(***************************************************************************)
(* Delivery of a website publication: publishing and tenant lifecycle      *)
(* changes insert an outbox row in their own transaction and point the     *)
(* website at it; the request that committed tries to deliver at once      *)
(* (attemptImmediate) and the outbox worker takes over after a head start. *)
(* Both record what they achieved as a receipt on the website, which the   *)
(* dashboard shows as "live".                                              *)
(*                                                                         *)
(* A delivery is three steps here: reading the website, reaching a verdict *)
(* (invalidation, revalidation and verification in between), and recording *)
(* it.  Anything may happen between them.  What the caches hold is not     *)
(* modelled; verification ends with a second look at the website row.      *)
(***************************************************************************)
EXTENDS OutboxQueue

CONSTANTS
    Requests,       \* API processes serving publish, launch or lifecycle calls
    MaxRevision,    \* bound: revisions published
    MaxRetries,     \* bound: launch calls retried by a client
    NoClaim,        \* what an idle worker or request is working on
    NoEvent,        \* publicationDeliveryEventId IS NULL
    Timely          \* whether a worker is done before its lock runs out

ASSUME PublicationAssumption ==
    /\ MaxRevision \in Nat
    /\ MaxRetries \in Nat
    /\ Timely \in BOOLEAN

VARIABLES
    revision,     \* publishedRevisionNumber, 0 if none
    changes,      \* number of lifecycle changes so far (a history variable)
    pointer,      \* publicationDeliveryEventId
    rowRevision,  \* [Events -> 0..MaxRevision]: the revision in the dedupe key
    receipt,      \* publicationDeliveryReceipt: an Outcome
    work,         \* [Workers -> Work]: the worker's loop body
    call,         \* [Requests -> Call]: the request's attemptImmediate
    retries       \* launch calls retried so far

siteVars == <<revision, changes, pointer, rowRevision, receipt>>
deliveryVars == <<siteVars, work, call, retries>>
allVars == <<vars, deliveryVars>>

Verdict == {"none", "live", "closed", "failed"}

\* What a delivery has seen of the website, and what came of it.  "closed" is a
\* delivery to a website the public may not see; seenChanges is only there for
\* the properties.
Outcome == [revision : 0..MaxRevision, seenChanges : Nat, mayOpen : BOOLEAN, verdict : Verdict]

Nothing == [revision |-> 0, seenChanges |-> 0, mayOpen |-> FALSE, verdict |-> "none"]

Delivered(o) == o.verdict \in {"live", "closed"}

Step == {"idle", "loaded", "judged", "returned", "thrown"}

IdleWork == [step |-> "idle", claim |-> NoClaim, outcome |-> Nothing]
IdleCall == [step |-> "idle", event |-> NoEvent, outcome |-> Nothing]

PublicationInit ==
    /\ Init
    /\ revision = 0
    /\ changes = 0
    /\ pointer = NoEvent
    /\ rowRevision = [e \in Events |-> 0]
    /\ receipt = Nothing
    /\ work = [w \in Workers |-> IdleWork]
    /\ call = [r \in Requests |-> IdleCall]
    /\ retries = 0

--------------------------------------------------------------------------------
(* Transactions that change what the public may see *)

\* Row ids carry no meaning, so rows are created in one fixed order.
NewRow == CHOOSE e \in Events : \A x \in Events : status[x] = "ABSENT" => status[e] = "ABSENT"

\* enqueueDeliveryTx inside the caller's transaction: the row starts fifteen
\* seconds ahead, the website points to it and loses its receipt.  The request
\* goes on to attemptImmediate, or its process dies first.  The one that dies may
\* be a process beside Requests: r can be delivering an older change meanwhile.
EnqueueDelivery(r, e) ==
    /\ e = NewRow
    /\ status[e] = "ABSENT"
    /\ status' = [status EXCEPT ![e] = "PENDING"]
    /\ changes' = changes + 1
    /\ pointer' = e
    /\ receipt' = Nothing
    /\ \/ /\ call[r].step = "idle"
          /\ call' = [call EXCEPT ![r] = [IdleCall EXCEPT !.step = "returned", !.event = e]]
       \/ MayAbort /\ UNCHANGED call
    /\ UNCHANGED <<attempts, lockedAt, due, claims, work, retries>>

\* publishWebsite and the first launch.
Publish(r, e) ==
    /\ revision < MaxRevision
    /\ EnqueueDelivery(r, e)
    /\ revision' = revision + 1
    /\ rowRevision' = [rowRevision EXCEPT ![e] = revision + 1]

\* Suspension, archiving, restoration, expiry: a row of its own (random key).
ChangeAccess(r, e) ==
    /\ EnqueueDelivery(r, e)
    /\ UNCHANGED <<revision, rowRevision>>

\* A launch repeated after a lost response finds its row and delivers again.
RetryLaunch(r, e) ==
    /\ call[r].step = "idle"
    /\ retries < MaxRetries
    /\ revision > 0 /\ rowRevision[e] = revision
    /\ retries' = retries + 1
    /\ call' = [call EXCEPT ![r] = [IdleCall EXCEPT !.step = "returned", !.event = e]]
    /\ UNCHANGED <<vars, siteVars, work>>

--------------------------------------------------------------------------------
(* Delivering *)

\* loadIdentity and the access decision, which may go either way at any time:
\* access also changes without a lifecycle row, when a period runs out.
Seen == {[revision |-> revision, seenChanges |-> changes, mayOpen |-> open, verdict |-> "none"] :
            open \in {FALSE, revision > 0}}

\* How a delivery can end.  verify reads the website once more before it vouches
\* for a revision; everything may throw.
Verdicts(o) ==
    {"failed"} \cup
    (IF o.mayOpen
     THEN IF revision = o.revision THEN {"live"} ELSE {}
     ELSE {"closed"})

\* Mutation of AcceptsReceipt: only the revision is compared.
AcceptsRevision(e, o) == revision = o.revision /\ e \in Events

\* The WHERE clause of recordReceipt.
AcceptsReceipt(e, o) ==
    /\ pointer = e
    /\ revision = o.revision

RecordReceipt(e, o) == receipt' = IF AcceptsReceipt(e, o) THEN o ELSE receipt

--------------------------------------------------------------------------------
(* attemptImmediate *)

LoadNow(r) ==
    /\ call[r].step = "returned"
    /\ \E o \in Seen : call' = [call EXCEPT ![r].step = "loaded", ![r].outcome = o]
    /\ UNCHANGED <<vars, siteVars, work, retries>>

JudgeNow(r) ==
    /\ call[r].step = "loaded"
    /\ \E v \in Verdicts(call[r].outcome) :
        call' = [call EXCEPT ![r].step = "judged", ![r].outcome.verdict = v]
    /\ UNCHANGED <<vars, siteVars, work, retries>>

MayRecordNow(e) == status[e] \in {"PENDING", "RETRY", "DEAD", "PROCESSED"}

\* Row and receipt in one transaction, unless a worker holds the row.  A failed
\* delivery starts the attempts over.
RecordNow(r) ==
    LET e == call[r].event
        o == call[r].outcome
    IN  /\ call[r].step = "judged"
        /\ call' = [call EXCEPT ![r] = IdleCall]
        /\ IF MayRecordNow(e)
           THEN /\ status' = [status EXCEPT ![e] = IF Delivered(o) THEN "PROCESSED" ELSE "RETRY"]
                /\ lockedAt' = [lockedAt EXCEPT ![e] = "null"]
                /\ attempts' = [attempts EXCEPT ![e] = IF Delivered(o) THEN @ ELSE 0]
                /\ due' = [due EXCEPT ![e] = IF Delivered(o) THEN @ ELSE FALSE]
                /\ RecordReceipt(e, o)
           ELSE UNCHANGED <<tableVars, receipt>>
        /\ UNCHANGED <<claims, revision, changes, pointer, rowRevision, work, retries>>

\* The process dies, or the recording transaction fails and is swallowed.
DropCall(r) ==
    /\ MayAbort
    /\ call[r].step # "idle"
    /\ call' = [call EXCEPT ![r] = IdleCall]
    /\ UNCHANGED <<vars, siteVars, work, retries>>

--------------------------------------------------------------------------------
(* deliverPublicWebsiteCacheInvalidation in the worker *)

ClaimPublications(w) ==
    /\ work[w].step = "idle"
    /\ ClaimBatch(w)
    /\ UNCHANGED deliveryVars

Load(w) ==
    /\ work[w].step = "idle"
    /\ \E c \in claims[w], o \in Seen :
        work' = [work EXCEPT ![w] = [step |-> "loaded", claim |-> c, outcome |-> o]]
    /\ UNCHANGED <<vars, siteVars, call, retries>>

Judge(w) ==
    /\ work[w].step = "loaded"
    /\ \E v \in Verdicts(work[w].outcome) :
        work' = [work EXCEPT ![w].step = "judged", ![w].outcome.verdict = v]
    /\ UNCHANGED <<vars, siteVars, call, retries>>

\* The receipt is recorded under the same compare-and-set as the row.  A claimant
\* that lost its lock returns quietly; one whose delivery failed throws.
Record(w) ==
    LET c == work[w].claim
        o == work[w].outcome
    IN  /\ work[w].step = "judged"
        /\ IF Matches(c) THEN RecordReceipt(c.event, o) ELSE UNCHANGED receipt
        /\ work' = [work EXCEPT ![w].step =
                      IF Matches(c) /\ ~Delivered(o) THEN "thrown" ELSE "returned"]
        /\ UNCHANGED <<vars, revision, changes, pointer, rowRevision, call, retries>>

\* The recording transaction or markProcessed throws.
Throw(w) ==
    /\ work[w].step \in {"judged", "returned"}
    /\ work' = [work EXCEPT ![w].step = "thrown"]
    /\ UNCHANGED <<vars, siteVars, call, retries>>

Settle(w) ==
    /\ \/ work[w].step = "returned" /\ MarkProcessed(w, work[w].claim)
       \/ work[w].step = "thrown" /\ MarkFailed(w, work[w].claim)
    /\ work' = [work EXCEPT ![w] = IdleWork]
    /\ UNCHANGED <<siteVars, call, retries>>

Crash(w) ==
    /\ AbortBatch(w)
    /\ work' = [work EXCEPT ![w] = IdleWork]
    /\ UNCHANGED <<siteVars, call, retries>>

Wait(e) ==
    /\ \/ ReachNextAttempt(e)
       \/ /\ LockTimesOut(e)
          /\ Timely => \A w \in Workers : ClaimOn(e, attempts[e]) \notin claims[w]
    /\ UNCHANGED deliveryVars

--------------------------------------------------------------------------------
Worker(w) == Load(w) \/ Judge(w) \/ Record(w) \/ Throw(w) \/ Settle(w)

Request(r) == LoadNow(r) \/ JudgeNow(r) \/ RecordNow(r)

PublicationNext ==
    \/ \E r \in Requests, e \in Events : Publish(r, e) \/ ChangeAccess(r, e) \/ RetryLaunch(r, e)
    \/ \E r \in Requests : Request(r) \/ DropCall(r)
    \/ \E w \in Workers : ClaimPublications(w) \/ Worker(w) \/ Crash(w)
    \/ \E e \in Events : Wait(e)

PublicationSpec == PublicationInit /\ [][PublicationNext]_allVars

\* Time passes, polls happen, live workers and requests go on.
PublicationFairness ==
    /\ \A e \in Events : WF_allVars(Wait(e))
    /\ \A w \in Workers : WF_allVars(ClaimPublications(w)) /\ WF_allVars(Worker(w))
    /\ \A r \in Requests : WF_allVars(Request(r))

FairPublicationSpec == PublicationSpec /\ PublicationFairness

--------------------------------------------------------------------------------
(* Properties *)

\* Every variable has its type, and a busy worker works on one of its claims.
PublicationTypeOK ==
    /\ status \in [Events -> Status]
    /\ attempts \in [Events -> 0..MaxAttempts]
    /\ lockedAt \in [Events -> {"null", "fresh", "stale"}]
    /\ claims \in [Workers -> SUBSET Claim]
    /\ revision \in 0..MaxRevision
    /\ pointer \in Events \cup {NoEvent}
    /\ receipt \in Outcome
    /\ work \in [Workers -> [step : Step, claim : Claim \cup {NoClaim}, outcome : Outcome]]
    /\ call \in [Requests -> [step : Step, event : Events \cup {NoEvent}, outcome : Outcome]]
    /\ \A w \in Workers : work[w].step # "idle" => work[w].claim \in claims[w]

\* A website has a receipt only from a delivery that started after the last
\* publication, suspension or restoration, for the revision that is published:
\* the event pointer in recordReceipt shuts out every older delivery, however
\* late it ends.
ReceiptIsCurrent ==
    receipt.verdict # "none" => receipt.revision = revision /\ receipt.seenChanges = changes

\* Once clients stop retrying, the latest change is reported as delivered or
\* dead-lettered, whoever dies on the way: the request, the worker, or both.  Only
\* a worker that dies in the last attempt leaves a row nobody takes up again.
LatestChangeConcludes ==
    \A e \in Events :
        pointer = e ~> (pointer # e \/ Delivered(receipt) \/ status[e] = "DEAD" \/ Stranded(e))

--------------------------------------------------------------------------------
(* Claims the code does not keep: see the README. *)

\* Of two claimants of a row, the expired one changes nothing.
ExpiredClaimantIsSilent ==
    [][\A e \in Events :
        status[e] = "PROCESSING" /\ status'[e] # "PROCESSING" =>
            \A v, w \in Workers :
                ClaimOn(e, attempts[e]) \in claims[v] /\ ClaimOn(e, attempts[e]) \in claims[w] => v = w]_allVars
================================================================================
