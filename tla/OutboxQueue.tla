------------------------------ MODULE OutboxQueue ------------------------------
(***************************************************************************)
(* The outbox_event table and the worker processes that drain it           *)
(* (src/src/workers/emailOutbox.worker.ts, src/src/lib/outbox/*.ts).       *)
(*                                                                         *)
(* A producer inserts a row in its own transaction.  Each worker process   *)
(* polls: claimBatch takes claimable rows with FOR UPDATE SKIP LOCKED,     *)
(* sets PROCESSING, stamps lockedAt and adds one to attempts.  The worker  *)
(* then delivers row by row and settles each with an update that only      *)
(* matches while the row is PROCESSING with the attempts it claimed.       *)
(* Delivery itself is abstract here (it succeeds or throws); the modules   *)
(* NotificationDelivery and PublicationDelivery refine it.                 *)
(*                                                                         *)
(* Clock values are reduced to what the claim query compares: lockedAt is  *)
(* NULL, younger or older than the lock timeout, and nextAttemptAt has or  *)
(* has not been reached.                                                   *)
(***************************************************************************)
EXTENDS Naturals, FiniteSets

CONSTANTS
    Events,        \* rows that may be inserted (one per dedupe key)
    Workers,       \* worker processes polling the table
    MaxAttempts,   \* maxAttempts of a row
    BatchSize,     \* OUTBOX_WORKER_BATCH_SIZE
    MayAbort       \* whether workers crash or lose the database in this model

ASSUME OutboxAssumption ==
    /\ MaxAttempts \in Nat \ {0}
    /\ BatchSize \in Nat \ {0}
    /\ MayAbort \in BOOLEAN

VARIABLES
    status,     \* [Events -> Status]
    attempts,   \* [Events -> 0..MaxAttempts]
    lockedAt,   \* [Events -> {"null", "fresh", "stale"}]
    due,        \* [Events -> BOOLEAN]: nextAttemptAt <= NOW()
    claims      \* [Workers -> SUBSET Claim]: claimed and not yet settled

tableVars == <<status, attempts, lockedAt, due>>
vars == <<status, attempts, lockedAt, due, claims>>

\* "ABSENT" is a row that has not been inserted.
Status == {"ABSENT", "PENDING", "PROCESSING", "RETRY", "PROCESSED", "DEAD"}

\* What claimBatch returns for one row: the worker remembers the attempt number.
Claim == [event : Events, attempt : 1..MaxAttempts]

ClaimOn(e, n) == [event |-> e, attempt |-> n]

Init ==
    /\ status = [e \in Events |-> "ABSENT"]
    /\ attempts = [e \in Events |-> 0]
    /\ lockedAt = [e \in Events |-> "null"]
    /\ due = [e \in Events |-> FALSE]
    /\ claims = [w \in Workers |-> {}]

--------------------------------------------------------------------------------
(* Producers *)

\* enqueueTx and its siblings.  The unique dedupe key with "update: {}" makes a
\* second enqueue of the same key a no-op, hence the guard; scheduledFor may
\* lie in the future.
Enqueue(e) ==
    /\ status[e] = "ABSENT"
    /\ status' = [status EXCEPT ![e] = "PENDING"]
    /\ \E reached \in BOOLEAN : due' = [due EXCEPT ![e] = reached]
    /\ UNCHANGED <<attempts, lockedAt, claims>>

--------------------------------------------------------------------------------
(* Time *)

ReachNextAttempt(e) ==
    /\ status[e] # "ABSENT"
    /\ ~due[e]
    /\ due' = [due EXCEPT ![e] = TRUE]
    /\ UNCHANGED <<status, attempts, lockedAt, claims>>

\* OUTBOX_LOCK_TIMEOUT_MS passes; the worker that holds the row is not told.
LockTimesOut(e) ==
    /\ lockedAt[e] = "fresh"
    /\ lockedAt' = [lockedAt EXCEPT ![e] = "stale"]
    /\ UNCHANGED <<status, attempts, due, claims>>

--------------------------------------------------------------------------------
(* Workers *)

\* Mutation of Claimable: expired locks are not recovered.
ClaimableUnlocked(e) ==
    /\ status[e] \in {"PENDING", "RETRY", "PROCESSING"}
    /\ attempts[e] < MaxAttempts
    /\ due[e]
    /\ lockedAt[e] = "null"

\* The WHERE clause of claimBatch.  processedAt IS NULL adds nothing to the
\* status test: only PROCESSED rows have processedAt.
Claimable(e) ==
    /\ status[e] \in {"PENDING", "RETRY", "PROCESSING"}
    /\ attempts[e] < MaxAttempts
    /\ due[e]
    /\ lockedAt[e] # "fresh"

NextAttempt(e) == attempts[e] + 1

\* One statement.  SKIP LOCKED lets it pass over rows another claim is locking,
\* so any selection of claimable rows up to the batch size may come back.  The
\* "processing" flag keeps one batch per process.
ClaimBatch(w) ==
    /\ claims[w] = {}
    /\ \E rows \in SUBSET {e \in Events : Claimable(e)} :
        /\ rows # {}
        /\ Cardinality(rows) <= BatchSize
        /\ status' = [e \in Events |-> IF e \in rows THEN "PROCESSING" ELSE status[e]]
        /\ lockedAt' = [e \in Events |-> IF e \in rows THEN "fresh" ELSE lockedAt[e]]
        /\ attempts' = [e \in Events |-> IF e \in rows THEN NextAttempt(e) ELSE attempts[e]]
        /\ claims' = [claims EXCEPT ![w] = {ClaimOn(e, NextAttempt(e)) : e \in rows}]
    /\ UNCHANGED due

\* Mutation of Matches: the attempt is not compared.
MatchesAnyAttempt(c) == status[c.event] = "PROCESSING"

\* The WHERE clause of every settling update.
Matches(c) ==
    /\ status[c.event] = "PROCESSING"
    /\ attempts[c.event] = c.attempt

\* markProcessed, after a delivery that did not throw.
MarkProcessed(w, c) ==
    /\ c \in claims[w]
    /\ claims' = [claims EXCEPT ![w] = @ \ {c}]
    /\ IF Matches(c)
       THEN /\ status' = [status EXCEPT ![c.event] = "PROCESSED"]
            /\ lockedAt' = [lockedAt EXCEPT ![c.event] = "null"]
            /\ UNCHANGED <<attempts, due>>
       ELSE UNCHANGED tableVars

\* "dead" in markFailed and in the publication receipt: the claimed attempt
\* number is compared, not the row's.
IsLastAttempt(c) == c.attempt >= MaxAttempts

\* markFailed, after a delivery (or markProcessed itself) that threw.
MarkFailed(w, c) ==
    /\ c \in claims[w]
    /\ claims' = [claims EXCEPT ![w] = @ \ {c}]
    /\ IF Matches(c)
       THEN /\ status' = [status EXCEPT ![c.event] =
                             IF IsLastAttempt(c) THEN "DEAD" ELSE "RETRY"]
            /\ lockedAt' = [lockedAt EXCEPT ![c.event] = "null"]
            /\ due' = [due EXCEPT ![c.event] = FALSE]
            /\ UNCHANGED attempts
       ELSE UNCHANGED tableVars

\* The process dies, or markFailed itself throws out of the loop: the rest of
\* the batch is forgotten and the rows stay as they are.
AbortBatch(w) ==
    /\ MayAbort
    /\ claims[w] # {}
    /\ claims' = [claims EXCEPT ![w] = {}]
    /\ UNCHANGED tableVars

--------------------------------------------------------------------------------
Next ==
    \/ \E e \in Events : Enqueue(e) \/ ReachNextAttempt(e) \/ LockTimesOut(e)
    \/ \E w \in Workers :
        \/ ClaimBatch(w)
        \/ \E c \in claims[w] : MarkProcessed(w, c) \/ MarkFailed(w, c)
        \/ AbortBatch(w)

Spec == Init /\ [][Next]_vars

\* The polling timer keeps claiming, a worker that is not killed finishes what
\* it claimed, and time passes.  Nothing makes a producer insert a row.
Fairness ==
    /\ \A e \in Events : WF_vars(ReachNextAttempt(e)) /\ WF_vars(LockTimesOut(e))
    /\ \A w \in Workers :
        /\ WF_vars(ClaimBatch(w))
        /\ WF_vars(\E c \in claims[w] : MarkProcessed(w, c) \/ MarkFailed(w, c))

FairSpec == Spec /\ Fairness

--------------------------------------------------------------------------------
(* Properties *)

\* Every variable has its type: the columns of outbox_event and the claims a
\* worker process remembers.
TypeOK ==
    /\ status \in [Events -> Status]
    /\ attempts \in [Events -> 0..MaxAttempts]
    /\ lockedAt \in [Events -> {"null", "fresh", "stale"}]
    /\ due \in [Events -> BOOLEAN]
    /\ claims \in [Workers -> SUBSET Claim]

\* The attempt number is a fencing token: no two workers ever remember the same
\* claim on a row, however often its lock times out, and nobody remembers a claim
\* newer than the row.  markProcessed and markFailed rely on it.
ClaimsAreFenced ==
    \A w \in Workers : \A c \in claims[w] :
        /\ c.attempt <= attempts[c.event]
        /\ \A v \in Workers : c \in claims[v] => v = w

\* A row that waits for a delivery still has an attempt left, so claimBatch will
\* take it; and a row is dead-lettered only after its last attempt.  The retry
\* test of markFailed and the claim query count attempts separately.
WaitingRowsAreClaimable ==
    \A e \in Events :
        /\ status[e] \in {"PENDING", "RETRY"} => attempts[e] < MaxAttempts /\ lockedAt[e] = "null"
        /\ status[e] = "DEAD" => attempts[e] = MaxAttempts

\* A row leaves PROCESSING only by the hand of the worker whose claim is the
\* latest one, and that worker alone holds it: an expired claimant changes
\* nothing (the guard of markProcessed and markFailed).
SettledByLatestClaimant ==
    [][\A e \in Events :
        status[e] = "PROCESSING" /\ status'[e] # "PROCESSING" =>
            \E w \in Workers :
                /\ ClaimOn(e, attempts[e]) \in claims[w] \ claims'[w]
                /\ \A v \in Workers \ {w} : ClaimOn(e, attempts[e]) \notin claims[v]]_vars

\* PROCESSED and DEAD are final: no late, duplicate or retried worker brings a
\* delivered row back to life or buries it.
SettledIsFinal ==
    [][\A e \in Events : status[e] \in {"PROCESSED", "DEAD"} => status'[e] = status[e]]_vars

\* The refinement: attempts is the number of grants, and the holder is whoever
\* remembers the latest claim of a row that is PROCESSING.
leaseStage == [e \in Events |->
    IF status[e] = "ABSENT" THEN "none"
    ELSE IF status[e] \in {"PENDING", "RETRY"} THEN "waiting"
    ELSE IF status[e] = "PROCESSING" THEN "granted"
    ELSE "settled"]

leaseHolder == [e \in Events |->
    {w \in Workers : status[e] = "PROCESSING" /\ ClaimOn(e, attempts[e]) \in claims[w]}]

Lease == INSTANCE OutboxLease WITH
    stage <- leaseStage, holder <- leaseHolder, grants <- attempts

\* The table with its compare-and-set updates implements the abstract lease.
ImplementsLease == Lease!LeaseSpec

\* A row in its last attempt whose claimant is gone: no query selects it again.
Stranded(e) ==
    /\ status[e] = "PROCESSING"
    /\ attempts[e] = MaxAttempts
    /\ \A w \in Workers : ClaimOn(e, attempts[e]) \notin claims[w]

================================================================================
