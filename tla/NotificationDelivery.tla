-------------------------- MODULE NotificationDelivery --------------------------
(***************************************************************************)
(* Business notifications: the notification_delivery row behind each       *)
(* outbox row, and the steps deliverBusinessNotification takes between     *)
(* claiming the row and settling it.                                       *)
(*                                                                         *)
(* The outbox row is settled with a compare-and-set; the delivery row is   *)
(* not: except for markFailed, its updates match by id alone.  Every await *)
(* of the handler is a step here, so a worker may stop between any two of  *)
(* them while its lock expires.                                            *)
(***************************************************************************)
EXTENDS OutboxQueue

CONSTANTS
    NoClaim     \* what an idle worker is working on

ASSUME NotificationAssumption == NoClaim \notin Claim

VARIABLES
    delivery,   \* [Events -> DeliveryStatus]
    current,    \* [Workers -> Claim \cup {NoClaim}]: the event of the loop body
    step,       \* [Workers -> Step]: where in the loop body the worker is
    mails,      \* [Events -> Nat]: mails the SMTP server accepted
    allowed,    \* access.backgroundJobsAllowed of the tenant
    timely      \* never changes: whether, in this behaviour, a worker is done
                \* before its lock and its backoff run out

jobVars == <<delivery, current, step, mails, allowed, timely>>
allVars == <<vars, jobVars>>

DeliveryStatus == {"NONE", "QUEUED", "PROCESSING", "SENT", "RETRY", "FAILED", "CANCELLED"}

Step == {"idle", "loaded", "begun", "accepted", "returned", "thrown", "demote-retry", "demote-failed"}

NotificationInit ==
    /\ Init
    /\ delivery = [e \in Events |-> "NONE"]
    /\ current = [w \in Workers |-> NoClaim]
    /\ step = [w \in Workers |-> "idle"]
    /\ mails = [e \in Events |-> 0]
    /\ allowed = TRUE
    /\ timely \in BOOLEAN

Goto(w, s) == step' = [step EXCEPT ![w] = s]

\* The loop body is over; the worker turns to the next event of its batch.
Idle(w) ==
    /\ current' = [current EXCEPT ![w] = NoClaim]
    /\ Goto(w, "idle")

--------------------------------------------------------------------------------
(* Producers, time and access *)

\* Both rows are upserted in the producer's transaction.
EnqueueNotification(e) ==
    /\ Enqueue(e)
    /\ delivery' = [delivery EXCEPT ![e] = "QUEUED"]
    /\ UNCHANGED <<current, step, mails, allowed, timely>>

\* Nothing in the code stops a worker from being slower than its lock timeout
\* (two minutes for a whole batch) or than the backoff of the retry it has just
\* scheduled (five seconds); if timely, only the dead lose their locks.
Wait(e) ==
    /\ \/ /\ ReachNextAttempt(e)
          /\ timely => \A w \in Workers : step[w] = "demote-retry" => current[w].event # e
       \/ /\ LockTimesOut(e)
          /\ timely => \A w \in Workers : ClaimOn(e, attempts[e]) \notin claims[w]
    /\ UNCHANGED jobVars

\* Subscription expiry, suspension, renewal.
ToggleAccess ==
    /\ allowed' = ~allowed
    /\ UNCHANGED <<vars, delivery, current, step, mails, timely>>

--------------------------------------------------------------------------------
(* deliverBusinessNotification *)

ClaimNotifications(w) ==
    /\ step[w] = "idle"
    /\ ClaimBatch(w)
    /\ UNCHANGED jobVars

\* Mutation of MaySkip: a delivery someone has begun counts as delivered.
MaySkipBegun(e) == delivery[e] \in {"SENT", "PROCESSING"}

MaySkip(e) == delivery[e] = "SENT"

\* findUnique, and the early return for a delivery that was already sent.
Load(w) ==
    /\ step[w] = "idle"
    /\ \E c \in claims[w] :
        /\ current' = [current EXCEPT ![w] = c]
        /\ Goto(w, IF MaySkip(c.event) THEN "returned" ELSE "loaded")
    /\ UNCHANGED <<vars, delivery, mails, allowed, timely>>

\* The tenant was suspended after the notification was queued.
Cancel(w) ==
    /\ step[w] = "loaded"
    /\ ~allowed
    /\ delivery' = [delivery EXCEPT ![current[w].event] = "CANCELLED"]
    /\ Goto(w, "returned")
    /\ UNCHANGED <<vars, current, mails, allowed, timely>>

Begin(w) ==
    /\ step[w] = "loaded"
    /\ allowed
    /\ delivery' = [delivery EXCEPT ![current[w].event] = "PROCESSING"]
    /\ Goto(w, "begun")
    /\ UNCHANGED <<vars, current, mails, allowed, timely>>

\* sendEmail: the SMTP server takes the message.
SendEmail(w) ==
    /\ step[w] = "begun"
    /\ mails' = [mails EXCEPT ![current[w].event] = @ + 1]
    /\ Goto(w, "accepted")
    /\ UNCHANGED <<vars, delivery, current, allowed, timely>>

RecordSent(w) ==
    /\ step[w] = "accepted"
    /\ delivery' = [delivery EXCEPT ![current[w].event] = "SENT"]
    /\ Goto(w, "returned")
    /\ UNCHANGED <<vars, current, mails, allowed, timely>>

\* Any awaited call throws: the database, the access resolver, SMTP (also after
\* the server accepted the message), markProcessed.
Throw(w) ==
    /\ step[w] \in {"loaded", "begun", "accepted", "returned"}
    /\ Goto(w, "thrown")
    /\ UNCHANGED <<vars, delivery, current, mails, allowed, timely>>

--------------------------------------------------------------------------------
(* Settling *)

Succeed(w) ==
    /\ step[w] = "returned"
    /\ MarkProcessed(w, current[w])
    /\ Idle(w)
    /\ UNCHANGED <<delivery, mails, allowed, timely>>

AfterFailure(c) == IF IsLastAttempt(c) THEN "demote-failed" ELSE "demote-retry"

\* The first update of markFailed; only its winner goes on to the second.
Fail(w) ==
    /\ step[w] = "thrown"
    /\ MarkFailed(w, current[w])
    /\ IF Matches(current[w])
       THEN /\ Goto(w, AfterFailure(current[w]))
            /\ UNCHANGED current
       ELSE Idle(w)
    /\ UNCHANGED <<delivery, mails, allowed, timely>>

MayDemote(e) == delivery[e] # "SENT"

\* The second update of markFailed, after the outbox row is free again.  An
\* error in it is swallowed.
Demote(w) ==
    /\ step[w] \in {"demote-retry", "demote-failed"}
    /\ \/ delivery' = [delivery EXCEPT ![current[w].event] =
                         IF ~MayDemote(current[w].event) THEN @
                         ELSE IF step[w] = "demote-failed" THEN "FAILED" ELSE "RETRY"]
       \/ MayAbort /\ UNCHANGED delivery
    /\ Idle(w)
    /\ UNCHANGED <<vars, mails, allowed, timely>>

\* AbortBatch, wherever the worker is.
Crash(w) ==
    /\ MayAbort
    /\ step[w] # "idle" \/ claims[w] # {}
    /\ claims' = [claims EXCEPT ![w] = {}]
    /\ Idle(w)
    /\ UNCHANGED <<tableVars, delivery, mails, allowed, timely>>

--------------------------------------------------------------------------------
Work(w) ==
    \/ Load(w) \/ Cancel(w) \/ Begin(w) \/ SendEmail(w) \/ RecordSent(w)
    \/ Throw(w) \/ Succeed(w) \/ Fail(w) \/ Demote(w)

NotificationNext ==
    \/ \E e \in Events : EnqueueNotification(e) \/ Wait(e)
    \/ \E w \in Workers : ClaimNotifications(w) \/ Work(w) \/ Crash(w)
    \/ ToggleAccess

NotificationSpec == NotificationInit /\ [][NotificationNext]_allVars

\* As in OutboxQueue: time passes, polls happen, a live worker goes on.
NotificationFairness ==
    /\ \A e \in Events : WF_allVars(Wait(e))
    /\ \A w \in Workers : WF_allVars(ClaimNotifications(w)) /\ WF_allVars(Work(w))

FairNotificationSpec == NotificationSpec /\ NotificationFairness

--------------------------------------------------------------------------------
(* Properties *)

\* Every variable has its type, and a busy worker works on one of its claims.
NotificationTypeOK ==
    /\ TypeOK
    /\ delivery \in [Events -> DeliveryStatus]
    /\ current \in [Workers -> Claim \cup {NoClaim}]
    /\ step \in [Workers -> Step]
    /\ mails \in [Events -> Nat]
    /\ allowed \in BOOLEAN
    /\ timely \in BOOLEAN
    /\ \A w \in Workers :
        /\ step[w] = "idle" <=> current[w] = NoClaim
        /\ step[w] \notin {"idle", "demote-retry", "demote-failed"} => current[w] \in claims[w]

\* The two rows agree, although they are updated one after the other and half of
\* the updates are not guarded: a consumed outbox row means the notification was
\* sent, or refused because the tenant was blocked, and one called FAILED is
\* dead-lettered for good; both of live workers that are faster than their locks.
\* However workers overlap, die and repeat, a notification called SENT did go out,
\* and no more mails than the outbox row has attempts.
RowsAgree ==
    \A e \in Events :
        /\ mails[e] <= attempts[e] /\ (delivery[e] = "SENT" => mails[e] > 0)
        /\ timely /\ status[e] = "PROCESSED" => delivery[e] \in {"SENT", "CANCELLED"}
        /\ timely /\ delivery[e] = "FAILED" => status[e] = "DEAD"

\* A queued notification ends up sent, failed or cancelled, whoever dies on the
\* way; what is left are rows that ended in the hands of a worker that died in
\* their last attempt.
EveryNotificationConcludes ==
    \A e \in Events :
        delivery[e] = "QUEUED" ~>
            (delivery[e] \in {"SENT", "FAILED", "CANCELLED"} \/ Stranded(e) \/ status[e] = "DEAD")

--------------------------------------------------------------------------------
(* Claims the code does not keep: see the README. *)

\* A mail that went out stays on record, however slow a worker is: the claim of
\* claimBatch that only one process works on a row at a time.
SentStaysSent ==
    [][\A e \in Events : delivery[e] = "SENT" => delivery'[e] = "SENT"]_allVars

\* No recipient gets the same notification twice.
NeverMailedTwice ==
    \A e \in Events : mails[e] <= 1
================================================================================
