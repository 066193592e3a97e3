----------------------------- MODULE TenancyProofs -----------------------------
(***************************************************************************)
(* Theorems about tenants: what an answer about their access is worth,     *)
(* what is left of one that is deleted, what checkouts, proofs and the     *)
(* expiry job do to its subscription, what it may use, and how accounts    *)
(* come into being; for any tenants, persons, requests, clock and mix of   *)
(* handlers.                                                               *)
(*                                                                         *)
(* Answers.  The decision depends on the clock only through two questions, *)
(* has the period ended and is the override in force.  The answer's        *)
(* candidates contain every deadline of either that lies ahead, so neither *)
(* question changes before validUntil.  The invariant therefore remembers  *)
(* that the answer was computed at some earlier instant.                   *)
(*                                                                         *)
(* Rows.  Handlers without a lock write by id what they decided on a row   *)
(* they read earlier.  The invariant says what a request has read          *)
(* (AsksAreTyped, AsksAreOfRows), and of the rows what holds however old   *)
(* that is.                                                                *)
(*                                                                         *)
(* Accounts.  The invariant says of every row what holds whatever is under *)
(* way (RowIsRight), of every request what it knows of its person (Knows), *)
(* and who is at work on half an account (HalvesAreKnown).                 *)
(*                                                                         *)
(* Entitlements.  An answer that is kept lets in only who may be let in,   *)
(* unless a request is about to invalidate it; while the holders of a plan *)
(* are still to be found, that is all that is known of it.                 *)
(***************************************************************************)
EXTENDS Subscriptions, Entitlements, Provisioning, FiniteSetTheorems, TLAPS

\* The answer's deadlines are those of some earlier instant, and as long as it is
\* valid its decision is the one the present rows gave then.
AnswerWasComputed ==
    answer # Never =>
        \E at \in 0 .. now :
            /\ answer.until = Candidates(tenant, at)
            /\ StillValid(answer, now) => answer.decision = DecisionAt(tenant, at)

RowsAreTyped == now \in Nat /\ tenant \in Tenant

IInv == RowsAreTyped /\ AnswerWasComputed

------------------------
(* The clock *)

\* A deadline that is among the candidates, or already past, is not reached between
\* the instant the answer was computed at and validUntil.
LEMMA DeadlineStands ==
  ASSUME NEW d \in Deadline, NEW a \in Nat, NEW b \in Nat, a <= b,
         d # Never /\ d > a => b < d
  PROVE  Reached(d, a) <=> Reached(d, b)
  BY AccessAssumption DEF Deadline, Instant, Reached

LEMMA DecisionStands ==
  ASSUME NEW t \in Tenant, NEW a \in Nat, NEW b \in Nat, a <= b,
         \A d \in Candidates(t, a) : b < d
  PROVE  DecisionAt(t, a) = DecisionAt(t, b)
<1>1. t.trialEndsAt \in Deadline /\ t.periodEnd \in Deadline /\ t.overrideEnds \in Deadline
  BY DEF Tenant
<1>2. OverrideActive(t, a) = OverrideActive(t, b)
  <2>1. t.overrideEnds # Never /\ t.overrideEnds > a => b < t.overrideEnds  BY DEF Candidates
  <2>2. Reached(t.overrideEnds, a) <=> Reached(t.overrideEnds, b)  BY <1>1, <2>1, DeadlineStands
  <2> QED BY <2>2 DEF OverrideActive
<1>3. Ended(t, a) = Ended(t, b)
  <2> DEFINE d == IF t.isTrial THEN t.trialEndsAt ELSE t.periodEnd
  <2>1. d \in Deadline  BY <1>1
  <2>2. d # Never /\ d > a => b < d  BY DEF Candidates
  <2>3. Reached(d, a) <=> Reached(d, b)  BY <2>1, <2>2, DeadlineStands
  <2>4. Ended(t, a) = Reached(d, a) /\ Ended(t, b) = Reached(d, b)  BY DEF Ended
  <2>5. Reached(d, a) \in BOOLEAN /\ Reached(d, b) \in BOOLEAN  BY DEF Reached
  <2> HIDE DEF d
  <2> QED BY <2>3, <2>4, <2>5
<1> QED BY <1>2, <1>3 DEF DecisionAt

------------------------
(* The expiry job *)

\* Expiring a subscription that has ended changes nobody's access.
LEMMA ExpiryKeepsDecision ==
  ASSUME NEW t \in Tenant, NEW at \in Nat, ExpirySelects(t, at)
  PROVE  DecisionAt([t EXCEPT !.subscription = "EXPIRED"], at) = DecisionAt(t, at)
<1> DEFINE u == [t EXCEPT !.subscription = "EXPIRED"]
<1>1. /\ u.lifecycle = t.lifecycle /\ u.owner = t.owner /\ u.isTrial = t.isTrial
      /\ u.trialEndsAt = t.trialEndsAt /\ u.periodEnd = t.periodEnd
      /\ u.published = t.published /\ u.plan = t.plan /\ u.override = t.override
      /\ u.limit = t.limit /\ u.extra = t.extra /\ u.resource = t.resource
      /\ u.overridden = t.overridden /\ u.overrideEnds = t.overrideEnds
      /\ u.subscription = "EXPIRED"
  BY DEF Tenant
<1>2. Ended(t, at) /\ Ended(u, at) /\ t.subscription = "ACTIVE"  BY <1>1 DEF ExpirySelects, Ended
<1>3. OverrideActive(u, at) = OverrideActive(t, at)  BY <1>1 DEF OverrideActive
<1>4. \A active : /\ Effective(u, active) = Effective(t, active)
                  /\ EffectiveLimit(u, active) = EffectiveLimit(t, active)
  BY <1>1 DEF Effective, Listed, Included, EffectiveLimit
<1>5. (DeniedReason(u, TRUE) = "ACTIVE") = (DeniedReason(t, TRUE) = "ACTIVE")
  BY <1>1, <1>2 DEF DeniedReason
<1>6. (DeniedReason(u, TRUE) \in Unrecoverable) = (DeniedReason(t, TRUE) \in Unrecoverable)
  BY <1>1, <1>2 DEF DeniedReason, Unrecoverable
<1>7. Ended(t, at) = TRUE /\ Ended(u, at) = TRUE  BY <1>2 DEF Ended, Reached
<1> QED BY ZenonT(40), <1>1, <1>3, <1>4, <1>5, <1>6, <1>7 DEF DecisionAt, Decision

------------------------
(* The invariant *)

LEMMA InitIInv == AccessInit => IInv
  BY AccessAssumption DEF AccessInit, IInv, RowsAreTyped, AnswerWasComputed

LEMMA TickKeepsIInv == IInv /\ Tick => IInv'
<1> SUFFICES ASSUME IInv, Tick PROVE IInv'
  OBVIOUS
<1>1. now \in Nat /\ now' = now + 1 /\ tenant' = tenant /\ answer' = answer
  BY DEF IInv, RowsAreTyped, Tick
<1>2. RowsAreTyped'  BY <1>1 DEF IInv, RowsAreTyped
<1>3. AnswerWasComputed'
  <2> SUFFICES ASSUME answer # Never
               PROVE  \E at \in 0 .. now' :
                          /\ answer'.until = Candidates(tenant', at)
                          /\ StillValid(answer', now') => answer'.decision = DecisionAt(tenant', at)
    BY <1>1 DEF AnswerWasComputed
  <2>1. PICK at \in 0 .. now :
          /\ answer.until = Candidates(tenant, at)
          /\ StillValid(answer, now) => answer.decision = DecisionAt(tenant, at)
    BY DEF IInv, AnswerWasComputed
  <2>2. \A d \in answer.until : d \in Nat
    BY <2>1, <1>1, AccessAssumption DEF Candidates, IInv, RowsAreTyped, Tenant, Deadline, Instant
  <2>3. StillValid(answer, now + 1) => StillValid(answer, now)  BY <1>1, <2>2 DEF StillValid
  <2>4. at \in 0 .. now + 1  BY <1>1
  <2> QED BY <1>1, <2>1, <2>3, <2>4
<1> QED BY <1>2, <1>3 DEF IInv

LEMMA ResolveKeepsIInv == IInv /\ ResolveTenantAccess => IInv'
<1> SUFFICES ASSUME IInv, ResolveTenantAccess PROVE IInv'
  OBVIOUS
<1>1. /\ now' = now /\ tenant' = tenant /\ now \in 0 .. now
      /\ answer'.until = Candidates(tenant, now)
      /\ answer'.decision = DecisionAt(tenant, now)
  BY DEF IInv, RowsAreTyped, ResolveTenantAccess, LoadTenantAccess
<1>2. AnswerWasComputed'  BY <1>1 DEF AnswerWasComputed
<1> QED BY <1>1, <1>2 DEF IInv, RowsAreTyped

LEMMA ExpiryKeepsIInv == IInv /\ CheckSubscriptionExpiry => IInv'
<1> SUFFICES ASSUME IInv, CheckSubscriptionExpiry PROVE IInv'
  OBVIOUS
<1>1. /\ now' = now /\ answer' = answer /\ now \in Nat /\ tenant \in Tenant
      /\ tenant' = [tenant EXCEPT !.subscription = "EXPIRED"]
      /\ ExpirySelects(tenant, now)
  BY DEF IInv, RowsAreTyped, CheckSubscriptionExpiry
<1>2. tenant' \in Tenant  BY <1>1 DEF Tenant
<1>3. \A at : Candidates(tenant', at) = Candidates(tenant, at)  BY <1>1 DEF Candidates, Tenant
<1>4. DecisionAt(tenant', now) = DecisionAt(tenant, now)  BY <1>1, ExpiryKeepsDecision
<1>5. AnswerWasComputed'
  <2> SUFFICES ASSUME answer # Never
               PROVE  \E at \in 0 .. now :
                          /\ answer.until = Candidates(tenant', at)
                          /\ StillValid(answer, now) => answer.decision = DecisionAt(tenant', at)
    BY <1>1 DEF AnswerWasComputed
  <2>1. PICK at \in 0 .. now :
          /\ answer.until = Candidates(tenant, at)
          /\ StillValid(answer, now) => answer.decision = DecisionAt(tenant, at)
    BY DEF IInv, AnswerWasComputed
  <2>2. ASSUME StillValid(answer, now) PROVE answer.decision = DecisionAt(tenant', at)
    <3>1. at \in Nat /\ at <= now  BY <1>1
    <3>2. \A d \in Candidates(tenant, at) : now < d  BY <2>1, <2>2 DEF StillValid
    <3>3. DecisionAt(tenant, at) = DecisionAt(tenant, now)  BY <1>1, <3>1, <3>2, DecisionStands
    <3>4. DecisionAt(tenant', at) = DecisionAt(tenant', now)
      BY <1>1, <1>2, <1>3, <3>1, <3>2, DecisionStands
    <3> QED BY <1>4, <2>1, <2>2, <3>3, <3>4
  <2> QED BY <1>3, <2>1, <2>2
<1> QED BY <1>1, <1>2, <1>5 DEF IInv, RowsAreTyped

LEMMA IInvHolds == AccessSpec => []IInv
<1>1. IInv /\ UNCHANGED accessVars => IInv'  BY DEF IInv, RowsAreTyped, AnswerWasComputed, accessVars
<1>2. IInv /\ [AccessNext]_accessVars => IInv'
  BY <1>1, TickKeepsIInv, ResolveKeepsIInv, ExpiryKeepsIInv DEF AccessNext
<1> QED BY <1>2, InitIInv, PTL DEF AccessSpec

------------------------
(* The theorems *)

\* Until its validUntil an answer says what the rows and the clock would say, for
\* every plan, override and set of deadlines, whether the expiry job has run or not.
THEOREM ValidAnswersAreRight == AccessSpec => []ValidAnswersHold
<1>1. IInv => ValidAnswersHold
  <2> SUFFICES ASSUME IInv, StillValid(answer, now)
               PROVE  answer.decision = DecisionAt(tenant, now)
    BY DEF ValidAnswersHold
  <2>1. PICK at \in 0 .. now :
          /\ answer.until = Candidates(tenant, at)
          /\ answer.decision = DecisionAt(tenant, at)
    BY DEF IInv, AnswerWasComputed, StillValid
  <2>2. at \in Nat /\ now \in Nat /\ at <= now /\ tenant \in Tenant  BY DEF IInv, RowsAreTyped
  <2> QED BY <2>1, <2>2, DecisionStands DEF StillValid
<1> QED BY <1>1, IInvHolds, PTL

\* The expiry job changes no decision: it only records what the resolver sees.
THEOREM ExpiryJobIsInvisible == AccessSpec => ExpiryJobOnlyRecords
<1>1. IInv /\ [AccessNext]_accessVars =>
        [tenant' # tenant => DecisionAt(tenant', now) = DecisionAt(tenant, now)]_accessVars
  BY ExpiryKeepsDecision DEF IInv, RowsAreTyped, AccessNext, Tick, ResolveTenantAccess,
     CheckSubscriptionExpiry, accessVars
<1> QED BY <1>1, IInvHolds, PTL DEF AccessSpec, ExpiryJobOnlyRecords

------------------------
(* Rows of tenants and what requests have read of them *)

Ask ==
    [op : LifecycleOps, account : Accounts, seen : Row]
    \cup [op : {"demote"}, user : Administrators]
    \cup [op : {"hardDelete"}, account : Accounts, seen : Row, at : Nat,
          stage : {"claim", "purge", "rows"}]
    \cup [op : {"changePlan"}, account : Accounts, plan : PlanIds, coupon : {Nothing, "coupon"},
          at : Nat]
    \cup [op : {"submitProof"}, account : Accounts, checkout : Checkouts \cup {Nothing}]
    \cup [op : {"approve", "reject"}, payment : Payments, at : Nat]
    \cup [op : {"grant"}, account : Accounts, seen : Row, at : Nat]
    \cup [op : {"refund"}, payment : Payments, suspend : BOOLEAN]
    \cup [op : Switches, account : Accounts, seen : Row, at : Nat, plan : PlanIds]
    \cup [op : {"downgrade"}, account : Accounts, plan : PlanIds, at : Nat]
    \cup [op : {"expire"}, accounts : SUBSET Accounts, at : Nat]

RecordsAreTyped ==
    /\ now \in Nat
    /\ account \in [Accounts -> Row]
    /\ file \in [Accounts -> [Files -> Whereabouts]]
    /\ supers \subseteq Administrators
    /\ asked \in [Requests -> Ask \cup {Nothing}]
    /\ checkout \in [Checkouts -> CheckoutRow \cup {Nothing}]
    /\ payment \in [Payments -> PaymentRow \cup {Nothing}]
    /\ coupon \in [active : BOOLEAN, used : Nat, usedBy : SUBSET Accounts]
    /\ due # Nothing => due \in [changes : SUBSET Checkouts, at : Nat]

\* What was read: the clock of the past, and rows that are still there.
Current(q) ==
    /\ q.op \in ops
    /\ q.op \in {"hardDelete", "changePlan", "approve", "reject", "grant", "expire"} \cup Switches
        => q.at <= now
    /\ q.op \in LifecycleOps => LifecycleAllows(q.op, q.seen) /\ q.seen.lifecycle # "GONE"
    /\ q.op = "submitProof" /\ q.checkout # Nothing =>
        checkout[q.checkout] # Nothing /\ checkout[q.checkout].account = q.account
    /\ q.op \in {"approve", "reject", "refund"} => payment[q.payment] # Nothing

AsksAreCurrent == \A r \in Requests : asked[r] # Nothing => Current(asked[r])

DueChangesExist == due # Nothing => \A k \in due.changes : checkout[k] # Nothing

ProofsHaveCheckouts ==
    \A p \in Payments : payment[p] # Nothing /\ payment[p].checkout # Nothing =>
        /\ checkout[payment[p].checkout] # Nothing
        /\ checkout[payment[p].checkout].account = payment[p].account

\* While a tenant is deleted it stays marked; what is purged stays bare.
DeletionsAreMarked ==
    ops \cap LifecycleOps = {} =>
        /\ \A a \in Accounts : ~Exists(a) => Bare(file[a])
        /\ \A r \in Requests : Asks(r, "hardDelete") /\ asked[r].stage \in {"purge", "rows"} =>
            account[asked[r].account].lifecycle \in {"PENDING_DELETION", "GONE"}
        /\ \A r \in Requests : Asks(r, "hardDelete") /\ asked[r].stage = "rows" =>
            Bare(file[asked[r].account])

RowsInv ==
    /\ RecordsAreTyped
    /\ AsksAreCurrent
    /\ DueChangesExist
    /\ ProofsHaveCheckouts
    /\ DeletionsAreMarked
    /\ ExpiredIsPastItsEnd

\* What everybody may do to the row of a tenant, except an administrator of its lifecycle
\* and its deletion.
Fair(row, new, at) ==
    /\ new \in Row
    /\ new.lifecycle = row.lifecycle
    /\ (row.subscription = "EXPIRED" => Ended(row, at)) =>
        (new.subscription = "EXPIRED" => Ended(new, at))

LEMMA AskFields ==
  ASSUME RecordsAreTyped, NEW r \in Requests, asked[r] # Nothing
  PROVE  /\ asked[r] \in Ask
         /\ asked[r].op \in LifecycleOps =>
              asked[r] \in [op : LifecycleOps, account : Accounts, seen : Row]
         /\ asked[r].op = "demote" => asked[r] \in [op : {"demote"}, user : Administrators]
         /\ asked[r].op = "hardDelete" =>
              asked[r] \in [op : {"hardDelete"}, account : Accounts, seen : Row, at : Nat,
                            stage : {"claim", "purge", "rows"}]
         /\ asked[r].op = "changePlan" =>
              asked[r] \in [op : {"changePlan"}, account : Accounts, plan : PlanIds,
                            coupon : {Nothing, "coupon"}, at : Nat]
         /\ asked[r].op = "submitProof" =>
              asked[r] \in [op : {"submitProof"}, account : Accounts,
                            checkout : Checkouts \cup {Nothing}]
         /\ asked[r].op \in {"approve", "reject"} =>
              asked[r] \in [op : {"approve", "reject"}, payment : Payments, at : Nat]
         /\ asked[r].op = "grant" =>
              asked[r] \in [op : {"grant"}, account : Accounts, seen : Row, at : Nat]
         /\ asked[r].op = "refund" =>
              asked[r] \in [op : {"refund"}, payment : Payments, suspend : BOOLEAN]
         /\ asked[r].op \in Switches =>
              asked[r] \in [op : Switches, account : Accounts, seen : Row, at : Nat, plan : PlanIds]
         /\ asked[r].op = "downgrade" =>
              asked[r] \in [op : {"downgrade"}, account : Accounts, plan : PlanIds, at : Nat]
         /\ asked[r].op = "expire" =>
              asked[r] \in [op : {"expire"}, accounts : SUBSET Accounts, at : Nat]
<1>1. asked[r] \in Ask  BY DEF RecordsAreTyped
<1>2. LifecycleOps = {"suspendTenant", "reactivateTenant", "archiveTenant", "restoreTenant",
                      "suspendAdminAccount", "activateAdminAccount", "verifyGlobalUser"}
  BY DEF LifecycleOps
<1>3. Switches = {"cancelAtPeriodEnd", "resume", "changeTenantPlan", "setTenantCancel",
                  "restartTrial", "extendTenantTrial", "endTrial", "cancelSubscription",
                  "suspendSubscription", "reactivateSubscription", "extendTrial"}
  BY DEF Switches, TenantSwitches, MutableSwitches
<1> QED BY <1>1, <1>2, <1>3 DEF Ask

------------------------
(* What becomes of a row *)

LEMMA LaterIsLater ==
  ASSUME NEW d \in Deadline, NEW at \in Nat
  PROVE  Later(d, at) \in Nat
BY AccessAssumption DEF Later, Deadline, Instant

\* The end of a period or a trial does not go away.
LEMMA EndedStays ==
  ASSUME NEW row \in Row, NEW a \in Nat, NEW b \in Nat, a <= b, Ended(row, a)
  PROVE  Ended(row, b)
BY AccessAssumption DEF Ended, Reached, Row, Deadline, Instant

LEMMA PaidRows ==
  ASSUME NEW row \in Row, NEW until \in Nat, NEW at, NEW t
  PROVE  Fair(row, PaidUntil(row, at, until), t)
<1>1. PaidUntil(row, at, until) \in Row  BY DEF PaidUntil, Row, Deadline, Instant
<1>2. /\ PaidUntil(row, at, until).lifecycle = row.lifecycle
      /\ PaidUntil(row, at, until).subscription = "ACTIVE"
  BY DEF PaidUntil, Row
<1> QED BY <1>1, <1>2 DEF Fair

LEMMA PlansAndTrials ==
  ASSUME NEW row \in Row, NEW newPlan \in PlanIds
  PROVE  /\ [row EXCEPT !.plan = newPlan] \in Row
         /\ [row EXCEPT !.plan = newPlan].lifecycle = row.lifecycle
         /\ [row EXCEPT !.plan = newPlan].subscription = row.subscription
         /\ [row EXCEPT !.trialEndsAt = Never] \in Row
         /\ [row EXCEPT !.trialEndsAt = Never].lifecycle = row.lifecycle
         /\ [row EXCEPT !.trialEndsAt = Never].subscription = row.subscription
         /\ [row EXCEPT !.plan = newPlan, !.trialEndsAt = Never] \in Row
         /\ [row EXCEPT !.plan = newPlan, !.trialEndsAt = Never].lifecycle = row.lifecycle
         /\ [row EXCEPT !.plan = newPlan, !.trialEndsAt = Never].subscription = row.subscription
BY DEF Row, Deadline

LEMMA SwitchedRows ==
  ASSUME NEW op \in Switches, NEW seen \in Row, NEW row \in Row, NEW at \in Nat, NEW newPlan \in PlanIds,
         NEW t \in Nat, at <= t, SubscriptionAssumption
  PROVE  Fair(row, SwitchWrites(op, seen, row, at, newPlan), t)
<1> DEFINE new == SwitchWrites(op, seen, row, at, newPlan)
<1>1. seen.trialEndsAt \in Deadline /\ seen.periodEnd \in Deadline  BY DEF Row
<1>2. /\ Trial \in Nat /\ Period \in Nat /\ 1 \in Nat
      /\ Later(seen.trialEndsAt, at) \in Nat
      /\ (IF seen.trialEndsAt = Never THEN at ELSE seen.trialEndsAt) \in Nat
      /\ (IF seen.periodEnd = Never THEN at ELSE seen.periodEnd) \in Nat
      /\ (IF Later(seen.periodEnd, at) = at THEN at + Period ELSE seen.periodEnd) \in Nat
  BY <1>1, LaterIsLater, AccessAssumption DEF SubscriptionAssumption, Later, Deadline, Instant
<1>3. CASE op \in {"cancelAtPeriodEnd", "setTenantCancel"}
  <2>1. new = [row EXCEPT !.ending = TRUE]  BY <1>3 DEF SwitchWrites
  <2>2. new \in Row /\ new.lifecycle = row.lifecycle /\ new.subscription = row.subscription
        /\ new.isTrial = row.isTrial /\ new.trialEndsAt = row.trialEndsAt
        /\ new.periodEnd = row.periodEnd
    BY <2>1 DEF Row
  <2> QED BY <2>2 DEF Fair, Ended
<1>4. CASE op = "resume"
  <2>1. new = [row EXCEPT !.ending = FALSE]  BY <1>4 DEF SwitchWrites
  <2>2. new \in Row /\ new.lifecycle = row.lifecycle /\ new.subscription = row.subscription
        /\ new.isTrial = row.isTrial /\ new.trialEndsAt = row.trialEndsAt
        /\ new.periodEnd = row.periodEnd
    BY <2>1 DEF Row
  <2> QED BY <2>2 DEF Fair, Ended
<1>5. CASE op \in {"cancelSubscription", "suspendSubscription"}
  <2>1. \/ new = [row EXCEPT !.subscription = "CANCELLED"]
        \/ new = [row EXCEPT !.subscription = "SUSPENDED"]
    BY <1>5 DEF SwitchWrites
  <2>2. new \in Row /\ new.lifecycle = row.lifecycle /\ new.subscription # "EXPIRED"  BY <2>1 DEF Row
  <2> QED BY <2>2 DEF Fair
<1>6. CASE op = "reactivateSubscription"
  <2>1. new = [row EXCEPT !.subscription = "ACTIVE", !.ending = FALSE]  BY <1>6 DEF SwitchWrites
  <2>2. new \in Row /\ new.lifecycle = row.lifecycle /\ new.subscription # "EXPIRED"  BY <2>1 DEF Row
  <2> QED BY <2>2 DEF Fair
<1>7. CASE op = "extendTrial"
  <2> DEFINE x == IF seen.trialEndsAt = Never THEN at ELSE seen.trialEndsAt
             y == IF seen.periodEnd = Never THEN at ELSE seen.periodEnd
  <2>1. new = [row EXCEPT !.subscription = "ACTIVE", !.trialEndsAt = x + 1, !.periodEnd = y + 1]
    BY <1>7 DEF SwitchWrites
  <2>2. x + 1 \in Deadline /\ y + 1 \in Deadline  BY <1>2 DEF Deadline, Instant
  <2> HIDE DEF x, y
  <2>3. new \in Row /\ new.lifecycle = row.lifecycle /\ new.subscription # "EXPIRED"
    BY ZenonT(40), <2>1, <2>2 DEF Row
  <2> QED BY <2>3 DEF Fair
<1>8. CASE op = "restartTrial"
  <2>1. new = [row EXCEPT !.subscription = "ACTIVE", !.isTrial = TRUE, !.trialEndsAt = at + Trial,
                          !.periodEnd = Never, !.ending = FALSE]
    BY <1>8 DEF SwitchWrites
  <2>2. at + Trial \in Deadline /\ Never \in Deadline  BY <1>2 DEF Deadline, Instant
  <2>3. new \in Row /\ new.lifecycle = row.lifecycle /\ new.subscription # "EXPIRED"
    BY ZenonT(40), <2>1, <2>2 DEF Row
  <2> QED BY <2>3 DEF Fair
<1>9. CASE op = "extendTenantTrial"
  <2>1. new = [row EXCEPT !.subscription = "ACTIVE", !.isTrial = TRUE,
                          !.trialEndsAt = Later(seen.trialEndsAt, at) + 1]
    BY <1>9 DEF SwitchWrites
  <2>2. Later(seen.trialEndsAt, at) + 1 \in Deadline  BY <1>2 DEF Deadline, Instant
  <2>3. new \in Row /\ new.lifecycle = row.lifecycle /\ new.subscription # "EXPIRED"
    BY ZenonT(40), <2>1, <2>2 DEF Row
  <2> QED BY <2>3 DEF Fair
<1>10. CASE op = "endTrial"
  <2>1. new = [row EXCEPT !.subscription = "EXPIRED", !.isTrial = TRUE, !.trialEndsAt = at]
    BY <1>10 DEF SwitchWrites
  <2>2. new \in Row /\ new.lifecycle = row.lifecycle /\ new.isTrial /\ new.trialEndsAt = at
    BY ZenonT(40), <2>1 DEF Row, Deadline, Instant
  <2> QED BY <2>2, AccessAssumption DEF Fair, Ended, Reached
<1>11. CASE op = "changeTenantPlan"
  <2> DEFINE until == IF Later(seen.periodEnd, at) = at THEN at + Period ELSE seen.periodEnd
             paid == PaidUntil(row, at, until)
  <2>1. new = [paid EXCEPT !.plan = newPlan, !.trialEndsAt = Never]  BY <1>11 DEF SwitchWrites
  <2>2. paid \in Row /\ paid.lifecycle = row.lifecycle /\ paid.subscription = "ACTIVE"
    <3>1. Fair(row, paid, t)  BY <1>2, PaidRows
    <3>2. paid.subscription = "ACTIVE"  BY DEF PaidUntil, Row
    <3> QED BY <3>1, <3>2 DEF Fair
  <2> HIDE DEF paid
  <2>3. new \in Row /\ new.lifecycle = row.lifecycle /\ new.subscription # "EXPIRED"
    BY ZenonT(40), <2>1, <2>2, PlansAndTrials
  <2> QED BY <2>3 DEF Fair
<1> QED BY <1>3, <1>4, <1>5, <1>6, <1>7, <1>8, <1>9, <1>10, <1>11
        DEF Switches, TenantSwitches, MutableSwitches

------------------------
(* What requests read *)

\* A request only reads.
LEMMA AsksKeepRows ==
  ASSUME RowsInv, NEW r \in Requests, NEW q \in Ask, Remember(r, q), Current(q),
         UNCHANGED <<now, account, file, supers, ops, commerceVars>>,
         q.op = "hardDelete" => q.stage = "claim"
  PROVE  RowsInv'
<1>0. UNCHANGED <<checkout, payment, coupon, due>>  BY DEF commerceVars
<1>1. /\ asked' = [asked EXCEPT ![r] = q] /\ asked \in [Requests -> Ask \cup {Nothing}]
  BY DEF Remember, RowsInv, RecordsAreTyped
<1>2. asked' \in [Requests -> Ask \cup {Nothing}] /\ asked'[r] = q
      /\ \A s \in Requests \ {r} : asked'[s] = asked[s]
  BY <1>1
<1>3. RecordsAreTyped' /\ DueChangesExist' /\ ProofsHaveCheckouts' /\ ExpiredIsPastItsEnd'
  BY <1>0, <1>2
     DEF RowsInv, RecordsAreTyped, DueChangesExist, ProofsHaveCheckouts, ExpiredIsPastItsEnd
<1>4. AsksAreCurrent'
  <2> SUFFICES ASSUME NEW s \in Requests, asked'[s] # Nothing
               PROVE  Current(asked[s])'
    BY DEF AsksAreCurrent
  <2>1. CASE s = r  BY <1>0, <1>2, <2>1 DEF Current
  <2>2. CASE s # r  BY <1>0, <1>2, <2>2 DEF Current, RowsInv, AsksAreCurrent
  <2> QED BY <2>1, <2>2
<1>5. DeletionsAreMarked'  BY <1>2 DEF RowsInv, DeletionsAreMarked, Asks, Exists
<1> QED BY <1>3, <1>4, <1>5 DEF RowsInv

LEMMA AdministratorsAsk ==
  ASSUME RowsInv, NEW r \in Requests, UNCHANGED <<now, commerceVars>>,
         AskLifecycle(r) \/ AskDemotion(r) \/ AskDeletion(r)
  PROVE  RowsInv'
<1>0. account \in [Accounts -> Row] /\ supers \subseteq Administrators /\ now \in Nat
  BY DEF RowsInv, RecordsAreTyped
<1>1. ASSUME AskLifecycle(r)
      PROVE  RowsInv'
  <2>1. PICK op \in LifecycleOps, a \in Accounts :
          /\ Idle(r, op) /\ Exists(a) /\ LifecycleAllows(op, account[a])
          /\ Remember(r, [op |-> op, account |-> a, seen |-> account[a]])
          /\ UNCHANGED <<account, file, supers, ops>>
    BY <1>1 DEF AskLifecycle
  <2> DEFINE q == [op |-> op, account |-> a, seen |-> account[a]]
  <2>2. q \in Ask  BY <1>0 DEF Ask
  <2>3. Current(q) /\ q.op # "hardDelete"
    BY <2>1 DEF Current, Idle, Exists, LifecycleOps, Switches, TenantSwitches, MutableSwitches
  <2> HIDE DEF q
  <2> QED BY <2>1, <2>2, <2>3, AsksKeepRows DEF q
<1>2. ASSUME AskDemotion(r)
      PROVE  RowsInv'
  <2>1. PICK user \in supers :
          /\ Idle(r, "demote") /\ Remember(r, [op |-> "demote", user |-> user])
          /\ UNCHANGED <<account, file, supers, ops>>
    BY <1>2 DEF AskDemotion
  <2> DEFINE q == [op |-> "demote", user |-> user]
  <2>2. q \in Ask  BY <1>0 DEF Ask
  <2>3. Current(q) /\ q.op # "hardDelete"
    BY <2>1 DEF Current, Idle, LifecycleOps, Switches, TenantSwitches, MutableSwitches
  <2> HIDE DEF q
  <2> QED BY <2>1, <2>2, <2>3, AsksKeepRows DEF q
<1>3. ASSUME AskDeletion(r)
      PROVE  RowsInv'
  <2>1. PICK a \in Accounts :
          /\ Idle(r, "hardDelete")
          /\ Remember(r, [op |-> "hardDelete", account |-> a, seen |-> account[a], at |-> now,
                          stage |-> "claim"])
          /\ UNCHANGED <<account, file, supers, ops>>
    BY <1>3 DEF AskDeletion
  <2> DEFINE q == [op |-> "hardDelete", account |-> a, seen |-> account[a], at |-> now,
                   stage |-> "claim"]
  <2>2. q \in Ask  BY <1>0 DEF Ask
  <2>3. Current(q) /\ q.stage = "claim"
    BY <1>0, <2>1 DEF Current, Idle, LifecycleOps, Switches, TenantSwitches, MutableSwitches
  <2> HIDE DEF q
  <2> QED BY <2>1, <2>2, <2>3, AsksKeepRows DEF q
<1> QED BY <1>1, <1>2, <1>3

LEMMA TenantsAsk ==
  ASSUME RowsInv, NEW r \in Requests, AskPlan(r) \/ AskProof(r) \/ AskReview(r)
  PROVE  RowsInv'
<1>0. account \in [Accounts -> Row] /\ now \in Nat
      /\ UNCHANGED <<now, account, file, supers, ops, commerceVars>>
  BY DEF RowsInv, RecordsAreTyped, AskPlan, AskProof, AskReview, SameTenancy
<1>1. ASSUME AskPlan(r)
      PROVE  RowsInv'
  <2>1. PICK a \in Accounts, newPlan \in PlanIds, c \in {Nothing, "coupon"} :
          /\ Idle(r, "changePlan")
          /\ Remember(r, [op |-> "changePlan", account |-> a, plan |-> newPlan, coupon |-> c, at |-> now])
    BY <1>1 DEF AskPlan
  <2> DEFINE q == [op |-> "changePlan", account |-> a, plan |-> newPlan, coupon |-> c, at |-> now]
  <2>2. q \in Ask  BY <1>0 DEF Ask
  <2>3. Current(q) /\ q.op # "hardDelete"
    BY <1>0, <2>1 DEF Current, Idle, LifecycleOps, Switches, TenantSwitches, MutableSwitches
  <2> HIDE DEF q
  <2> QED BY <1>0, <2>1, <2>2, <2>3, AsksKeepRows DEF q
<1>2. ASSUME AskProof(r)
      PROVE  RowsInv'
  <2>1. PICK a \in Accounts :
          /\ Idle(r, "submitProof")
          /\ LET open == InStatus(a, Unresolved)
             IN  \E k \in IF open = {} THEN {Nothing} ELSE open :
                    Remember(r, [op |-> "submitProof", account |-> a, checkout |-> k])
    BY <1>2 DEF AskProof
  <2>2. PICK k \in IF InStatus(a, Unresolved) = {} THEN {Nothing} ELSE InStatus(a, Unresolved) :
          Remember(r, [op |-> "submitProof", account |-> a, checkout |-> k])
    BY <2>1
  <2>3. k # Nothing => k \in Checkouts /\ checkout[k] # Nothing /\ checkout[k].account = a
    BY DEF InStatus, OfAccount
  <2> DEFINE q == [op |-> "submitProof", account |-> a, checkout |-> k]
  <2>4. q \in Ask  BY <2>3 DEF Ask
  <2>5. Current(q) /\ q.op # "hardDelete"
    BY <2>1, <2>3 DEF Current, Idle, LifecycleOps, Switches, TenantSwitches, MutableSwitches
  <2> HIDE DEF q
  <2> QED BY <1>0, <2>2, <2>4, <2>5, AsksKeepRows DEF q
<1>3. ASSUME AskReview(r)
      PROVE  RowsInv'
  <2>1. PICK p \in Payments, op \in {"approve", "reject"} :
          /\ Idle(r, op) /\ payment[p] # Nothing
          /\ Remember(r, [op |-> op, payment |-> p, at |-> now])
    BY <1>3 DEF AskReview
  <2> DEFINE q == [op |-> op, payment |-> p, at |-> now]
  <2>2. q \in Ask  BY <1>0 DEF Ask
  <2>3. Current(q) /\ q.op # "hardDelete"
    BY <1>0, <2>1 DEF Current, Idle, LifecycleOps, Switches, TenantSwitches, MutableSwitches
  <2> HIDE DEF q
  <2> QED BY <1>0, <2>1, <2>2, <2>3, AsksKeepRows DEF q
<1> QED BY <1>1, <1>2, <1>3

LEMMA TheOfficeAsks ==
  ASSUME RowsInv, NEW r \in Requests,
         AskGrant(r) \/ AskRefund(r) \/ AskSwitch(r) \/ AskDowngrade(r) \/ ReadExpired(r)
  PROVE  RowsInv'
<1>0. account \in [Accounts -> Row] /\ now \in Nat
      /\ UNCHANGED <<now, account, file, supers, ops, commerceVars>>
  BY DEF RowsInv, RecordsAreTyped, AskGrant, AskRefund, AskSwitch, AskDowngrade, ReadExpired, SameTenancy
<1>1. ASSUME AskGrant(r)
      PROVE  RowsInv'
  <2>1. PICK a \in Accounts :
          /\ Idle(r, "grant")
          /\ Remember(r, [op |-> "grant", account |-> a, seen |-> account[a], at |-> now])
    BY <1>1 DEF AskGrant
  <2> DEFINE q == [op |-> "grant", account |-> a, seen |-> account[a], at |-> now]
  <2>2. q \in Ask  BY <1>0 DEF Ask
  <2>3. Current(q) /\ q.op # "hardDelete"
    BY <1>0, <2>1 DEF Current, Idle, LifecycleOps, Switches, TenantSwitches, MutableSwitches
  <2> HIDE DEF q
  <2> QED BY <1>0, <2>1, <2>2, <2>3, AsksKeepRows DEF q
<1>2. ASSUME AskRefund(r)
      PROVE  RowsInv'
  <2>1. PICK p \in Payments :
          /\ Idle(r, "refund") /\ payment[p] # Nothing
          /\ Remember(r, [op |-> "refund", payment |-> p,
                          suspend |-> payment[p].status = "PAID"
                                      /\ account[payment[p].account].subscription = "ACTIVE"])
    BY <1>2 DEF AskRefund
  <2> DEFINE paid == payment[p].status = "PAID" /\ account[payment[p].account].subscription = "ACTIVE"
             q == [op |-> "refund", payment |-> p, suspend |-> paid]
  <2>2. q \in Ask  BY DEF Ask
  <2>3. Current(q) /\ q.op # "hardDelete"
    BY <2>1 DEF Current, Idle, LifecycleOps, Switches, TenantSwitches, MutableSwitches
  <2>4. Remember(r, q)  BY <2>1
  <2> HIDE DEF q
  <2> QED BY <1>0, <2>2, <2>3, <2>4, AsksKeepRows
<1>3. ASSUME AskSwitch(r)
      PROVE  RowsInv'
  <2>1. PICK op \in Switches, a \in Accounts, newPlan \in PlanIds :
          /\ Idle(r, op)
          /\ Remember(r, [op |-> op, account |-> a, seen |-> account[a], at |-> now, plan |-> newPlan])
    BY <1>3 DEF AskSwitch
  <2> DEFINE q == [op |-> op, account |-> a, seen |-> account[a], at |-> now, plan |-> newPlan]
  <2>2. q \in Ask  BY <1>0 DEF Ask
  <2>3. Current(q) /\ q.op # "hardDelete"
    BY <1>0, <2>1 DEF Current, Idle, LifecycleOps, Switches, TenantSwitches, MutableSwitches
  <2> HIDE DEF q
  <2> QED BY <1>0, <2>1, <2>2, <2>3, AsksKeepRows DEF q
<1>4. ASSUME AskDowngrade(r)
      PROVE  RowsInv'
  <2>1. PICK a \in Accounts, newPlan \in PlanIds :
          /\ Idle(r, "downgrade") /\ account[a].periodEnd # Never
          /\ Remember(r, [op |-> "downgrade", account |-> a, plan |-> newPlan, at |-> account[a].periodEnd])
    BY <1>4 DEF AskDowngrade
  <2> DEFINE q == [op |-> "downgrade", account |-> a, plan |-> newPlan, at |-> account[a].periodEnd]
  <2>2. account[a].periodEnd \in Nat  BY <1>0, <2>1 DEF Row, Deadline, Instant
  <2>3. q \in Ask  BY <2>2 DEF Ask
  <2>4. Current(q) /\ q.op # "hardDelete"
    BY <2>1 DEF Current, Idle, LifecycleOps, Switches, TenantSwitches, MutableSwitches
  <2> HIDE DEF q
  <2> QED BY <1>0, <2>1, <2>3, <2>4, AsksKeepRows DEF q
<1>5. ASSUME ReadExpired(r)
      PROVE  RowsInv'
  <2> DEFINE found == {a \in Accounts : Exists(a) /\ ExpirySelects(account[a], now)}
             q == [op |-> "expire", accounts |-> found, at |-> now]
  <2>1. Idle(r, "expire") /\ Remember(r, q)  BY <1>5 DEF ReadExpired
  <2>2. q \in Ask  BY <1>0 DEF Ask
  <2>3. Current(q) /\ q.op # "hardDelete"
    BY <1>0, <2>1 DEF Current, Idle, LifecycleOps, Switches, TenantSwitches, MutableSwitches
  <2> HIDE DEF q
  <2> QED BY <1>0, <2>1, <2>2, <2>3, AsksKeepRows
<1> QED BY <1>1, <1>2, <1>3, <1>4, <1>5

------------------------
(* What requests write *)

\* What may happen to the rows of checkouts and payments: none disappears, and none
\* changes hands.
CommerceFollows ==
    /\ checkout' \in [Checkouts -> CheckoutRow \cup {Nothing}]
    /\ payment' \in [Payments -> PaymentRow \cup {Nothing}]
    /\ coupon' \in [active : BOOLEAN, used : Nat, usedBy : SUBSET Accounts]
    /\ due' # Nothing => due' \in [changes : SUBSET Checkouts, at : Nat]
                         /\ \A k \in due'.changes : checkout'[k] # Nothing
    /\ \A k \in Checkouts : checkout[k] # Nothing =>
        checkout'[k] # Nothing /\ checkout'[k].account = checkout[k].account
    /\ \A p \in Payments : payment[p] # Nothing => payment'[p] # Nothing
    /\ ProofsHaveCheckouts'

\* Requests end, others stay as they are.
RequestsEnd ==
    /\ asked' \in [Requests -> Ask \cup {Nothing}]
    /\ \A r \in Requests : asked'[r] \in {asked[r], Nothing}

LEMMA Forgetting ==
  ASSUME RecordsAreTyped, NEW r \in Requests, Forget(r)
  PROVE  RequestsEnd
BY DEF RecordsAreTyped, Forget, RequestsEnd

LEMMA SameCommerce ==
  ASSUME RowsInv, UNCHANGED commerceVars
  PROVE  CommerceFollows
BY DEF RowsInv, RecordsAreTyped, DueChangesExist, ProofsHaveCheckouts, commerceVars, CommerceFollows

LEMMA FollowedRowsAreCurrent ==
  ASSUME RowsInv, ops' = ops, now' \in Nat, now <= now', CommerceFollows, RequestsEnd
  PROVE  AsksAreCurrent' /\ DueChangesExist'
<1>1. AsksAreCurrent'
  <2> SUFFICES ASSUME NEW s \in Requests, asked'[s] # Nothing
               PROVE  Current(asked[s])'
    BY DEF AsksAreCurrent
  <2>1. asked'[s] = asked[s] /\ asked[s] # Nothing /\ Current(asked[s])
    BY DEF RequestsEnd, RowsInv, AsksAreCurrent
  <2>2. asked[s].op \in {"hardDelete", "changePlan", "approve", "reject", "grant", "expire"} \cup Switches
          => asked[s].at \in Nat
    BY <2>1, AskFields DEF RowsInv
  <2>3. asked[s].op = "submitProof" => asked[s].checkout \in Checkouts \cup {Nothing}
    BY <2>1, AskFields DEF RowsInv
  <2>4. asked[s].op \in {"approve", "reject", "refund"} => asked[s].payment \in Payments
    BY <2>1, AskFields DEF RowsInv
  <2>5. now \in Nat  BY DEF RowsInv, RecordsAreTyped
  <2>6. asked[s].op \in {"hardDelete", "changePlan", "approve", "reject", "grant", "expire"} \cup Switches
          => asked[s].at <= now'
    BY <2>1, <2>2, <2>5 DEF Current
  <2> QED BY <2>1, <2>3, <2>4, <2>6 DEF Current, CommerceFollows
<1>2. DueChangesExist'  BY DEF CommerceFollows, DueChangesExist
<1> QED BY <1>1, <1>2

LEMMA FairRowsStayRight ==
  ASSUME RowsInv, now' \in Nat, now <= now', account' \in [Accounts -> Row],
         \A a \in Accounts : Fair(account[a], account'[a], now')
  PROVE  /\ ExpiredIsPastItsEnd'
         /\ \A a \in Accounts : account'[a].lifecycle = account[a].lifecycle
<1>1. ASSUME NEW a \in Accounts
      PROVE  account'[a].subscription = "EXPIRED" => Ended(account'[a], now')
  <2>1. now \in Nat /\ account[a] \in Row /\ (account[a].subscription = "EXPIRED" => Ended(account[a], now))
    BY DEF RowsInv, RecordsAreTyped, ExpiredIsPastItsEnd
  <2>2. account[a].subscription = "EXPIRED" => Ended(account[a], now')  BY <2>1, EndedStays
  <2> QED BY <2>2 DEF Fair
<1> QED BY <1>1 DEF ExpiredIsPastItsEnd, Fair

\* Whoever changes rows fairly, and leaves the buckets alone, keeps the invariant.
LEMMA WritesKeepRows ==
  ASSUME RowsInv, ops' = ops, now' \in Nat, now <= now', file' = file, supers' \subseteq supers,
         CommerceFollows, RequestsEnd, account' \in [Accounts -> Row],
         \A a \in Accounts : Fair(account[a], account'[a], now')
  PROVE  RowsInv'
<1>1. AsksAreCurrent' /\ DueChangesExist'  BY FollowedRowsAreCurrent
<1>2. ExpiredIsPastItsEnd' /\ \A a \in Accounts : account'[a].lifecycle = account[a].lifecycle
  BY FairRowsStayRight
<1>3. RecordsAreTyped'  BY DEF RowsInv, RecordsAreTyped, CommerceFollows, RequestsEnd
<1>4. \A r \in Requests : asked'[r] # Nothing => asked'[r] = asked[r] /\ asked[r] # Nothing
  BY DEF RequestsEnd
<1>5. \A r \in Requests : asked[r] # Nothing /\ asked[r].op = "hardDelete" => asked[r].account \in Accounts
  BY AskFields DEF RowsInv
<1>6. DeletionsAreMarked'  BY <1>2, <1>4, <1>5 DEF RowsInv, DeletionsAreMarked, Exists, Asks
<1> QED BY <1>1, <1>2, <1>3, <1>6 DEF RowsInv, CommerceFollows

LEMMA SameRowsAreFair ==
  ASSUME RowsInv, UNCHANGED account
  PROVE  account' \in [Accounts -> Row] /\ \A a \in Accounts : Fair(account[a], account'[a], now')
BY DEF RowsInv, RecordsAreTyped, Fair

\* One row is written.
LEMMA OneRowIsFair ==
  ASSUME RowsInv, NEW a \in Accounts, NEW row, Fair(account[a], row, now'),
         account' = [account EXCEPT ![a] = row]
  PROVE  account' \in [Accounts -> Row] /\ \A b \in Accounts : Fair(account[b], account'[b], now')
BY DEF RowsInv, RecordsAreTyped, Fair

LEMMA CheckoutsAreCancelled ==
  ASSUME RowsInv, NEW ks, \A k \in ks : k \in Checkouts => checkout[k] # Nothing,
         SubscriptionAssumption
  PROVE  /\ Cancelled(ks) \in [Checkouts -> CheckoutRow \cup {Nothing}]
         /\ \A k \in Checkouts :
              /\ checkout[k] = Nothing <=> Cancelled(ks)[k] = Nothing
              /\ k \notin ks => Cancelled(ks)[k] = checkout[k]
              /\ k \in ks => /\ Cancelled(ks)[k] \in CheckoutRow
                             /\ Cancelled(ks)[k].status = "CANCELLED"
                             /\ Cancelled(ks)[k].account = checkout[k].account
                             /\ Cancelled(ks)[k].plan = checkout[k].plan
                             /\ Cancelled(ks)[k].coupon = checkout[k].coupon
                             /\ Cancelled(ks)[k].administrative = checkout[k].administrative
<1>1. ASSUME NEW k \in Checkouts
      PROVE  /\ Cancelled(ks)[k] \in CheckoutRow \cup {Nothing}
             /\ checkout[k] = Nothing <=> Cancelled(ks)[k] = Nothing
             /\ k \notin ks => Cancelled(ks)[k] = checkout[k]
             /\ k \in ks => /\ Cancelled(ks)[k] \in CheckoutRow
                            /\ Cancelled(ks)[k].status = "CANCELLED"
                            /\ Cancelled(ks)[k].account = checkout[k].account
                            /\ Cancelled(ks)[k].plan = checkout[k].plan
                            /\ Cancelled(ks)[k].coupon = checkout[k].coupon
                            /\ Cancelled(ks)[k].administrative = checkout[k].administrative
  <2> DEFINE new == [checkout[k] EXCEPT !.status = "CANCELLED"]
  <2>1. Cancelled(ks)[k] = IF k \in ks THEN new ELSE checkout[k]  BY DEF Cancelled
  <2>2. checkout[k] \in CheckoutRow \cup {Nothing}  BY DEF RowsInv, RecordsAreTyped
  <2>3. checkout[k] \in CheckoutRow =>
          /\ new \in CheckoutRow /\ new.status = "CANCELLED" /\ new.account = checkout[k].account
          /\ new.plan = checkout[k].plan /\ new.coupon = checkout[k].coupon
          /\ new.administrative = checkout[k].administrative
    BY DEF CheckoutRow
  <2> HIDE DEF new
  <2> QED BY <2>1, <2>2, <2>3 DEF SubscriptionAssumption
<1>2. Cancelled(ks) = [k \in Checkouts |-> Cancelled(ks)[k]]  BY DEF Cancelled
<1> QED BY <1>1, <1>2

LEMMA PlansAreChanged ==
  ASSUME RowsInv, SubscriptionAssumption,
         \/ \E r \in Requests : ChangePlan(r)
         \/ \E a \in Accounts : CancelPendingPlanChange(a) \/ CancelScheduledChange(a)
  PROVE  RowsInv'
<1>0. /\ UNCHANGED <<now, account, payment, coupon, due, file, supers, ops>>
      /\ now \in Nat /\ checkout \in [Checkouts -> CheckoutRow \cup {Nothing}]
  BY DEF RowsInv, RecordsAreTyped, ChangePlan, CancelPendingPlanChange, CancelScheduledChange, SameTenancy
<1>1. /\ checkout' \in [Checkouts -> CheckoutRow \cup {Nothing}]
      /\ \A k \in Checkouts : checkout[k] # Nothing =>
            checkout'[k] # Nothing /\ checkout'[k].account = checkout[k].account
      /\ RequestsEnd
  <2>1. ASSUME NEW r \in Requests, ChangePlan(r)
        PROVE  <1>1!1 /\ <1>1!2 /\ RequestsEnd
    <3> DEFINE q == asked[r]
               expired == {k \in InStatus(q.account, Payable) : checkout[k].expiresAt <= q.at}
               open == InStatus(q.account, Unresolved) \ expired
               cleared == Cancelled(expired \cup open)
    <3>1. /\ asked[r] # Nothing /\ asked[r].op = "changePlan" /\ Forget(r)
          /\ \/ checkout' = checkout
             \/ checkout' = Cancelled(expired)
             \/ \E k \in Checkouts :
                  /\ checkout[k] = Nothing
                  /\ checkout' = [cleared EXCEPT ![k] = NewCheckout(q.account, q.plan, q.coupon,
                                      "AWAITING_PAYMENT", q.at + CheckoutTtl)]
      BY <2>1 DEF ChangePlan, Asks
    <3>2. q \in [op : {"changePlan"}, account : Accounts, plan : PlanIds,
                 coupon : {Nothing, "coupon"}, at : Nat]
      BY <3>1, AskFields DEF RowsInv
    <3>3. \A k \in expired \cup open : k \in Checkouts => checkout[k] # Nothing
      BY DEF InStatus, OfAccount
    <3>4. NewCheckout(q.account, q.plan, q.coupon, "AWAITING_PAYMENT", q.at + CheckoutTtl) \in CheckoutRow
      <4>1. q.at + CheckoutTtl \in Nat  BY <3>2 DEF SubscriptionAssumption
      <4> QED BY <3>2, <4>1 DEF NewCheckout, CheckoutRow, Instant, Deadline
    <3>5. RequestsEnd  BY <3>1, Forgetting DEF RowsInv
    <3> DEFINE new == NewCheckout(q.account, q.plan, q.coupon, "AWAITING_PAYMENT", q.at + CheckoutTtl)
    <3>6. /\ Cancelled(expired) \in [Checkouts -> CheckoutRow \cup {Nothing}]
          /\ \A k \in Checkouts : checkout[k] # Nothing =>
               Cancelled(expired)[k] # Nothing /\ Cancelled(expired)[k].account = checkout[k].account
      BY <3>3, CheckoutsAreCancelled
    <3>7. /\ cleared \in [Checkouts -> CheckoutRow \cup {Nothing}]
          /\ \A k \in Checkouts : checkout[k] # Nothing =>
               cleared[k] # Nothing /\ cleared[k].account = checkout[k].account
      BY <3>3, CheckoutsAreCancelled
    <3> HIDE DEF new, cleared, expired, open, q
    <3>8. CASE checkout' = checkout  BY <1>0, <3>5, <3>8
    <3>9. CASE checkout' = Cancelled(expired)  BY <3>5, <3>6, <3>9
    <3>10. ASSUME NEW k \in Checkouts, checkout[k] = Nothing, checkout' = [cleared EXCEPT ![k] = new]
           PROVE  <1>1!1 /\ <1>1!2 /\ RequestsEnd
      BY <3>4, <3>5, <3>7, <3>10 DEF new
    <3> QED BY <3>1, <3>8, <3>9, <3>10 DEF new
  <2>2. ASSUME NEW a \in Accounts, CancelPendingPlanChange(a)
        PROVE  <1>1!1 /\ <1>1!2 /\ RequestsEnd
    <3>1. asked' = asked /\ RequestsEnd
      BY <2>2 DEF CancelPendingPlanChange, RequestsEnd, RowsInv, RecordsAreTyped
    <3>2. PICK k \in InStatus(a, Payable) : checkout' = Cancelled({k})
      BY <2>2 DEF CancelPendingPlanChange
    <3>3. \A l \in {k} : l \in Checkouts => checkout[l] # Nothing  BY <3>2 DEF InStatus, OfAccount
    <3>4. /\ Cancelled({k}) \in [Checkouts -> CheckoutRow \cup {Nothing}]
          /\ \A l \in Checkouts : checkout[l] # Nothing =>
               Cancelled({k})[l] # Nothing /\ Cancelled({k})[l].account = checkout[l].account
      BY <3>3, CheckoutsAreCancelled
    <3> QED BY <3>1, <3>2, <3>4
  <2>3. ASSUME NEW a \in Accounts, CancelScheduledChange(a)
        PROVE  <1>1!1 /\ <1>1!2 /\ RequestsEnd
    <3>1. asked' = asked /\ RequestsEnd
      BY <2>3 DEF CancelScheduledChange, RequestsEnd, RowsInv, RecordsAreTyped
    <3>2. PICK k \in Scheduled(a) :
            checkout' = [checkout EXCEPT ![k].status = "CANCELLED", ![k].applyAt = Never]
      BY <2>3 DEF CancelScheduledChange
    <3>3. k \in Checkouts /\ checkout[k] \in CheckoutRow
      BY <1>0, <3>2 DEF Scheduled, InStatus, OfAccount
    <3> DEFINE new == [checkout[k] EXCEPT !.status = "CANCELLED", !.applyAt = Never]
    <3>4. new \in CheckoutRow /\ new.account = checkout[k].account  BY <3>3 DEF CheckoutRow, Deadline
    <3>5. checkout' = [checkout EXCEPT ![k] = new]  BY <1>0, <3>2, <3>3
    <3> HIDE DEF new
    <3> QED BY <1>0, <3>1, <3>3, <3>4, <3>5 DEF SubscriptionAssumption
  <2> QED BY <2>1, <2>2, <2>3
<1>2. CommerceFollows
  <2>1. \A p \in Payments : payment[p] # Nothing => payment[p] \in PaymentRow
    BY DEF RowsInv, RecordsAreTyped
  <2>2. ProofsHaveCheckouts'  BY <1>0, <1>1, <2>1 DEF RowsInv, ProofsHaveCheckouts, PaymentRow
  <2> QED BY <1>0, <1>1, <2>2 DEF CommerceFollows, RowsInv, RecordsAreTyped, DueChangesExist
<1>3. account' \in [Accounts -> Row] /\ \A a \in Accounts : Fair(account[a], account'[a], now')
  BY <1>0, SameRowsAreFair
<1> QED BY <1>0, <1>1, <1>2, <1>3, WritesKeepRows

------------------------
(* Administrators and deletion *)

\* What is left of the row's subscription.
KeepsSubscription(row, new) ==
    /\ new \in Row
    /\ \/ new.subscription = "NONE"
       \/ /\ new.subscription = row.subscription /\ new.isTrial = row.isTrial
          /\ new.trialEndsAt = row.trialEndsAt /\ new.periodEnd = row.periodEnd

LEMMA LifecycleRows ==
  ASSUME NEW op \in LifecycleOps, NEW seen \in Row, NEW row \in Row, LifecycleAllows(op, seen),
         seen.lifecycle # "GONE"
  PROVE  KeepsSubscription(row, LifecycleWrites(op, seen, row))
<1> DEFINE new == LifecycleWrites(op, seen, row)
<1>1. CASE op = "suspendTenant"
  <2>1. new = [row EXCEPT !.lifecycle = "SUSPENDED", !.owner = "SUSPENDED"]  BY <1>1 DEF LifecycleWrites
  <2> QED BY <2>1 DEF KeepsSubscription, Row
<1>2. CASE op = "reactivateTenant"
  <2>1. new = [row EXCEPT !.lifecycle = "ACTIVE", !.owner = "ACTIVE"]  BY <1>2 DEF LifecycleWrites
  <2> QED BY <2>1 DEF KeepsSubscription, Row
<1>3. CASE op = "archiveTenant"
  <2>1. new = [row EXCEPT !.lifecycle = "ARCHIVED", !.before = seen.lifecycle, !.owner = "SUSPENDED"]
    BY <1>3 DEF LifecycleWrites
  <2>2. seen.lifecycle \in {"ACTIVE", "SUSPENDED"}  BY <1>3 DEF LifecycleAllows, Mutable, Row
  <2> QED BY <2>1, <2>2 DEF KeepsSubscription, Row
<1>4. CASE op = "restoreTenant"
  <2>1. \E to \in {"SUSPENDED", "ACTIVE"} :
          new = [row EXCEPT !.lifecycle = to, !.before = Nothing, !.owner = to]
    BY <1>4 DEF LifecycleWrites
  <2> QED BY ZenonT(40), <2>1 DEF KeepsSubscription, Row
<1>5. CASE op = "suspendAdminAccount"
  <2>1. new = [row EXCEPT !.owner = "SUSPENDED"]  BY <1>5 DEF LifecycleWrites
  <2> QED BY <2>1 DEF KeepsSubscription, Row
<1>6. CASE op = "activateAdminAccount"
  <2>1. new = [row EXCEPT !.owner = "ACTIVE"]  BY <1>6 DEF LifecycleWrites
  <2> QED BY <2>1 DEF KeepsSubscription, Row
<1>7. CASE op = "verifyGlobalUser"
  <2>1. new = [row EXCEPT !.owner = IF seen.owner = "PENDING" THEN "ACTIVE" ELSE @]
    BY <1>7 DEF LifecycleWrites
  <2>2. new = [row EXCEPT !.owner = IF seen.owner = "PENDING" THEN "ACTIVE" ELSE row.owner]  BY <2>1
  <2> QED BY <2>2 DEF KeepsSubscription, Row
<1> QED BY <1>1, <1>2, <1>3, <1>4, <1>5, <1>6, <1>7 DEF LifecycleOps

\* Whoever leaves the commercial side alone keeps all but the marks of deletions.
LEMMA DeletionsKeepRows ==
  ASSUME RowsInv, UNCHANGED <<now, ops, supers, commerceVars>>,
         file' \in [Accounts -> [Files -> Whereabouts]],
         account' \in [Accounts -> Row],
         \A a \in Accounts : KeepsSubscription(account[a], account'[a]),
         asked' \in [Requests -> Ask \cup {Nothing}],
         \A s \in Requests : asked'[s] # Nothing =>
            /\ asked[s] # Nothing
            /\ \/ asked'[s] = asked[s]
               \/ /\ asked[s].op = "hardDelete" /\ asked'[s].op = "hardDelete"
                  /\ asked'[s].at = asked[s].at
  PROVE  /\ RecordsAreTyped' /\ AsksAreCurrent' /\ DueChangesExist' /\ ProofsHaveCheckouts'
         /\ ExpiredIsPastItsEnd'
<1>0. UNCHANGED <<checkout, payment, coupon, due>>  BY DEF commerceVars
<1>1. RecordsAreTyped' /\ DueChangesExist' /\ ProofsHaveCheckouts'
  BY <1>0 DEF RowsInv, RecordsAreTyped, DueChangesExist, ProofsHaveCheckouts
<1>2. AsksAreCurrent'
  <2> SUFFICES ASSUME NEW s \in Requests, asked'[s] # Nothing
               PROVE  Current(asked[s])'
    BY DEF AsksAreCurrent
  <2>1. asked[s] # Nothing /\ Current(asked[s])  BY DEF RowsInv, AsksAreCurrent
  <2>2. CASE asked'[s] = asked[s]  BY <1>0, <2>1, <2>2 DEF Current
  <2>3. CASE asked[s].op = "hardDelete" /\ asked'[s].op = "hardDelete" /\ asked'[s].at = asked[s].at
    BY <2>1, <2>3 DEF Current, LifecycleOps
  <2> QED BY <2>2, <2>3
<1>3. ExpiredIsPastItsEnd'  BY DEF RowsInv, ExpiredIsPastItsEnd, KeepsSubscription, Ended
<1> QED BY <1>1, <1>2, <1>3

LEMMA SameSubscriptions ==
  ASSUME RowsInv
  PROVE  \A a \in Accounts : KeepsSubscription(account[a], account[a])
BY DEF RowsInv, RecordsAreTyped, KeepsSubscription

LEMMA ClaimedRows ==
  ASSUME NEW row \in Row, NEW at \in Nat
  PROVE  /\ KeepsSubscription(row, Claimed(row, at)) /\ Claimed(row, at).lifecycle = "PENDING_DELETION"
         /\ KeepsSubscription(row, GoneRow) /\ GoneRow.lifecycle = "GONE"
         /\ KeepsSubscription(row, [row EXCEPT !.lifecycle = "PENDING_DELETION", !.failed = TRUE, !.tried = at])
         /\ [row EXCEPT !.lifecycle = "PENDING_DELETION", !.failed = TRUE, !.tried = at].lifecycle
              = "PENDING_DELETION"
<1>1. /\ KeepsSubscription(row, Claimed(row, at)) /\ Claimed(row, at).lifecycle = "PENDING_DELETION"
  BY DEF KeepsSubscription, Claimed, Row, Deadline, Instant
<1>2. KeepsSubscription(row, GoneRow) /\ GoneRow.lifecycle = "GONE"
  BY DEF KeepsSubscription, GoneRow, NewRow, Row, Deadline, Instant
<1> DEFINE new == [row EXCEPT !.lifecycle = "PENDING_DELETION", !.failed = TRUE, !.tried = at]
<1>3. KeepsSubscription(row, new) /\ new.lifecycle = "PENDING_DELETION"
  BY DEF KeepsSubscription, Row, Deadline, Instant
<1> HIDE DEF new
<1> QED BY <1>1, <1>2, <1>3 DEF new

LEMMA FailuresAreRecorded ==
  ASSUME RowsInv, NEW a \in Accounts, RecordFailure(a)
  PROVE  /\ account' \in [Accounts -> Row]
         /\ \A b \in Accounts :
              /\ KeepsSubscription(account[b], account'[b])
              /\ account'[b].lifecycle = account[b].lifecycle \/ account'[b].lifecycle = "PENDING_DELETION"
              /\ account'[b].lifecycle = "GONE" <=> account[b].lifecycle = "GONE"
<1>0. account \in [Accounts -> Row] /\ now \in Nat  BY DEF RowsInv, RecordsAreTyped
<1> DEFINE new == [account[a] EXCEPT !.lifecycle = "PENDING_DELETION", !.failed = TRUE, !.tried = now]
<1>1. account' = IF Exists(a) THEN [account EXCEPT ![a] = new] ELSE account  BY <1>0 DEF RecordFailure
<1>2. KeepsSubscription(account[a], new) /\ new.lifecycle = "PENDING_DELETION"  BY <1>0, ClaimedRows
<1> HIDE DEF new
<1> QED BY <1>0, <1>1, <1>2, SameSubscriptions DEF Exists, KeepsSubscription

LEMMA LifecyclesChange ==
  ASSUME RowsInv, NEW r \in Requests, ChangeLifecycle(r), UNCHANGED <<now, commerceVars>>
  PROVE  RowsInv'
<1> DEFINE q == asked[r]
<1>1. /\ q # Nothing /\ q.op \in LifecycleOps /\ Forget(r) /\ UNCHANGED <<file, supers, ops>>
      /\ account' = IF Exists(q.account)
                    THEN [account EXCEPT ![q.account] = LifecycleWrites(q.op, q.seen, account[q.account])]
                    ELSE account
  BY DEF ChangeLifecycle
<1>2. account \in [Accounts -> Row] /\ file \in [Accounts -> [Files -> Whereabouts]]
  BY DEF RowsInv, RecordsAreTyped
<1>3. q.account \in Accounts /\ q.seen \in Row  BY <1>1, AskFields DEF RowsInv
<1>4. q.op \in ops /\ LifecycleAllows(q.op, q.seen) /\ q.seen.lifecycle # "GONE"
  BY <1>1 DEF RowsInv, AsksAreCurrent, Current
<1> DEFINE new == LifecycleWrites(q.op, q.seen, account[q.account])
<1>5. KeepsSubscription(account[q.account], new)  BY <1>1, <1>2, <1>3, <1>4, LifecycleRows
<1> HIDE DEF new, q
<1>6. /\ account' \in [Accounts -> Row]
      /\ \A a \in Accounts : KeepsSubscription(account[a], account'[a])
  BY <1>1, <1>2, <1>3, <1>5, SameSubscriptions DEF new, KeepsSubscription
<1>7. /\ asked' \in [Requests -> Ask \cup {Nothing}]
      /\ \A s \in Requests : asked'[s] # Nothing => asked[s] # Nothing /\ asked'[s] = asked[s]
  BY <1>1 DEF Forget, RowsInv, RecordsAreTyped
<1>8. /\ RecordsAreTyped' /\ AsksAreCurrent' /\ DueChangesExist' /\ ProofsHaveCheckouts'
      /\ ExpiredIsPastItsEnd'
  BY <1>1, <1>2, <1>6, <1>7, DeletionsKeepRows
<1>9. DeletionsAreMarked'  BY <1>1, <1>4 DEF DeletionsAreMarked
<1> QED BY <1>8, <1>9 DEF RowsInv

\* What is put where leaves what is bare bare, but for those who may upload: they are neither
\* gone nor marked.
LEMMA FilesAreUploaded ==
  ASSUME RowsInv, NEW a \in Accounts, StartUpload(a) \/ StoreUpload(a), UNCHANGED <<now, commerceVars>>
  PROVE  RowsInv'
<1>1. UNCHANGED <<account, supers, asked, ops>>  BY DEF StartUpload, StoreUpload
<1>2. PICK f \in Files, w \in Whereabouts :
        /\ file' = [file EXCEPT ![a][f] = w]
        /\ \/ w = "sent" /\ Exists(a) /\ Reason(a) = "ACTIVE"
           \/ w \in {"loose", "left"}
           \/ w = "stored" /\ file[a][f] = "sent"
  BY DEF StartUpload, StoreUpload, Whereabouts
<1>3. /\ account \in [Accounts -> Row] /\ file \in [Accounts -> [Files -> Whereabouts]]
      /\ asked \in [Requests -> Ask \cup {Nothing}]
  BY DEF RowsInv, RecordsAreTyped
<1>4. file' \in [Accounts -> [Files -> Whereabouts]] /\ \A b \in Accounts \ {a} : file'[b] = file[b]
  BY <1>2, <1>3
<1>5. /\ RecordsAreTyped' /\ AsksAreCurrent' /\ DueChangesExist' /\ ProofsHaveCheckouts'
      /\ ExpiredIsPastItsEnd'
  BY <1>1, <1>3, <1>4, SameSubscriptions, DeletionsKeepRows
<1>6. account[a].lifecycle \notin {"PENDING_DELETION", "GONE"} \/ (Bare(file[a]) => Bare(file'[a]))
  <2>1. CASE w = "sent"  BY <1>2, <2>1 DEF Reason, DeniedReason, Exists
  <2>2. CASE w # "sent"  BY <1>2, <1>3, <2>2 DEF Bare
  <2> QED BY <2>1, <2>2
<1>7. DeletionsAreMarked'
  <2> SUFFICES ASSUME ops \cap LifecycleOps = {}
               PROVE  /\ \A b \in Accounts : account[b].lifecycle = "GONE" => Bare(file'[b])
                      /\ \A r \in Requests : Asks(r, "hardDelete") /\ asked[r].stage \in {"purge", "rows"} =>
                           account[asked[r].account].lifecycle \in {"PENDING_DELETION", "GONE"}
                      /\ \A r \in Requests : Asks(r, "hardDelete") /\ asked[r].stage = "rows" =>
                           Bare(file'[asked[r].account])
    BY <1>1 DEF DeletionsAreMarked, Exists, Asks
  <2>1. /\ \A b \in Accounts : account[b].lifecycle = "GONE" => Bare(file[b])
        /\ \A r \in Requests : Asks(r, "hardDelete") /\ asked[r].stage \in {"purge", "rows"} =>
             account[asked[r].account].lifecycle \in {"PENDING_DELETION", "GONE"}
        /\ \A r \in Requests : Asks(r, "hardDelete") /\ asked[r].stage = "rows" =>
             Bare(file[asked[r].account])
    BY DEF RowsInv, DeletionsAreMarked, Exists
  <2>2. \A r \in Requests : Asks(r, "hardDelete") => asked[r].account \in Accounts
    BY AskFields DEF RowsInv, Asks
  <2> QED BY <1>4, <1>6, <2>1, <2>2
<1> QED BY <1>5, <1>7 DEF RowsInv

LEMMA DeletionGoesOn ==
  ASSUME RowsInv, NEW r \in Requests, UNCHANGED <<now, commerceVars>>,
         ClaimDeletion(r) \/ Purge(r) \/ DeleteRows(r)
  PROVE  RowsInv'
<1> DEFINE q == asked[r]
<1>0. /\ account \in [Accounts -> Row] /\ file \in [Accounts -> [Files -> Whereabouts]] /\ now \in Nat
      /\ asked \in [Requests -> Ask \cup {Nothing}] /\ UNCHANGED <<now, supers, ops>>
  BY DEF RowsInv, RecordsAreTyped, ClaimDeletion, Purge, DeleteRows
<1>1. /\ q # Nothing /\ q.op = "hardDelete"
      /\ q \in [op : {"hardDelete"}, account : Accounts, seen : Row, at : Nat,
                stage : {"claim", "purge", "rows"}]
  BY AskFields DEF RowsInv, Asks, ClaimDeletion, Purge, DeleteRows
<1> DEFINE purging == [q EXCEPT !.stage = "purge"]
           deleting == [q EXCEPT !.stage = "rows"]
<1>2. /\ purging \in Ask /\ purging.op = "hardDelete" /\ purging.at = q.at
      /\ purging.account = q.account /\ purging.stage = "purge"
      /\ deleting \in Ask /\ deleting.op = "hardDelete" /\ deleting.at = q.at
      /\ deleting.account = q.account /\ deleting.stage = "rows"
  BY <1>1 DEF Ask
<1> DEFINE a == q.account
           marked == [asked EXCEPT ![r] = Nothing]
\* What the others have asked remains; what this one goes on with is marked.
<1>3. ASSUME file' \in [Accounts -> [Files -> Whereabouts]], \A b \in Accounts : Bare(file[b]) => Bare(file'[b]),
             account' \in [Accounts -> Row],
             \A b \in Accounts : KeepsSubscription(account[b], account'[b]),
             \A b \in Accounts : account[b].lifecycle \in {"PENDING_DELETION", "GONE"} =>
                account'[b].lifecycle \in {"PENDING_DELETION", "GONE"},
             \A b \in Accounts : account'[b].lifecycle = "GONE" =>
                \/ account[b].lifecycle = "GONE"
                \/ b = a /\ q.stage = "rows",
             \/ asked' = [asked EXCEPT ![r] = Nothing]
             \/ asked' = [asked EXCEPT ![r] = purging] /\ account'[a].lifecycle = "PENDING_DELETION"
             \/ asked' = [asked EXCEPT ![r] = deleting] /\ q.stage = "purge" /\ Bare(file'[a])
      PROVE  RowsInv'
  <2> HIDE DEF purging, deleting
  <2>1. /\ asked' \in [Requests -> Ask \cup {Nothing}]
        /\ \A s \in Requests : asked'[s] # Nothing =>
             /\ asked[s] # Nothing
             /\ \/ asked'[s] = asked[s]
                \/ /\ asked[s].op = "hardDelete" /\ asked'[s].op = "hardDelete"
                   /\ asked'[s].at = asked[s].at
    BY <1>0, <1>1, <1>2, <1>3
  <2>2. /\ RecordsAreTyped' /\ AsksAreCurrent' /\ DueChangesExist' /\ ProofsHaveCheckouts'
      /\ ExpiredIsPastItsEnd'
    BY <1>0, <1>3, <2>1, DeletionsKeepRows
  <2>3. DeletionsAreMarked'
    <3> SUFFICES ASSUME ops \cap LifecycleOps = {}
                 PROVE  /\ \A b \in Accounts : account'[b].lifecycle = "GONE" => Bare(file'[b])
                        /\ \A s \in Requests : /\ asked'[s] # Nothing /\ asked'[s].op = "hardDelete"
                                               /\ asked'[s].stage \in {"purge", "rows"}
                             => account'[asked'[s].account].lifecycle \in {"PENDING_DELETION", "GONE"}
                        /\ \A s \in Requests : /\ asked'[s] # Nothing /\ asked'[s].op = "hardDelete"
                                               /\ asked'[s].stage = "rows"
                             => Bare(file'[asked'[s].account])
      BY <1>0 DEF DeletionsAreMarked, Exists, Asks
    <3>1. /\ \A b \in Accounts : account[b].lifecycle = "GONE" => Bare(file[b])
          /\ \A s \in Requests : /\ asked[s] # Nothing /\ asked[s].op = "hardDelete"
                                 /\ asked[s].stage \in {"purge", "rows"}
               => account[asked[s].account].lifecycle \in {"PENDING_DELETION", "GONE"}
          /\ \A s \in Requests : /\ asked[s] # Nothing /\ asked[s].op = "hardDelete"
                                 /\ asked[s].stage = "rows"
               => Bare(file[asked[s].account])
      BY DEF RowsInv, DeletionsAreMarked, Exists, Asks
    <3>2. \A s \in Requests : asked[s] # Nothing /\ asked[s].op = "hardDelete" => asked[s].account \in Accounts
      BY AskFields DEF RowsInv
    <3>3. \A s \in Requests \ {r} : asked'[s] = asked[s]  BY <1>0, <1>3
    <3>4. \/ asked'[r] = Nothing
          \/ asked'[r] = purging /\ account'[a].lifecycle = "PENDING_DELETION"
          \/ asked'[r] = deleting /\ q.stage = "purge" /\ Bare(file'[a])
      BY <1>0, <1>3
    <3>5. \A b \in Accounts : account'[b].lifecycle = "GONE" => Bare(file'[b])  BY <1>1, <1>3, <3>1
    <3>6. ASSUME NEW s \in Requests, asked'[s] # Nothing, asked'[s].op = "hardDelete"
          PROVE  /\ asked'[s].stage \in {"purge", "rows"} =>
                      account'[asked'[s].account].lifecycle \in {"PENDING_DELETION", "GONE"}
                 /\ asked'[s].stage = "rows" => Bare(file'[asked'[s].account])
      <4>1. CASE s = r  BY <1>1, <1>2, <1>3, <3>1, <3>4, <3>6, <4>1
      <4>2. CASE s # r
        <5>1. asked'[s] = asked[s] /\ asked[s] # Nothing /\ asked[s].op = "hardDelete"
              /\ asked[s].account \in Accounts
          BY <3>2, <3>3, <3>6, <4>2
        <5>2. asked[s].stage = "rows" => Bare(file'[asked[s].account])  BY <1>3, <3>1, <5>1
        <5>3. asked[s].stage \in {"purge", "rows"} =>
                account'[asked[s].account].lifecycle \in {"PENDING_DELETION", "GONE"}
          BY <1>3, <3>1, <5>1
        <5> QED BY <5>1, <5>2, <5>3
      <4> QED BY <4>1, <4>2
    <3> QED BY <3>5, <3>6
  <2> QED BY <2>2, <2>3 DEF RowsInv
<1>4. CASE ClaimDeletion(r)
  <2>1. file' = file  BY <1>4 DEF ClaimDeletion
  <2>2. \/ /\ Exists(a)
           /\ account' = [account EXCEPT ![a] = Claimed(account[a], q.at)]
           /\ asked' = [asked EXCEPT ![r] = purging]
        \/ asked' = [asked EXCEPT ![r] = Nothing] /\ UNCHANGED account
    BY <1>4 DEF ClaimDeletion, Remember, Forget
  <2> DEFINE new == Claimed(account[a], q.at)
  <2>4. a \in Accounts /\ q.at \in Nat  BY <1>1
  <2>3. KeepsSubscription(account[a], new) /\ new.lifecycle = "PENDING_DELETION"
    <3>1. account[a] \in Row  BY <1>0, <2>4
    <3> QED BY <2>4, <3>1, ClaimedRows
  <2> HIDE DEF new, q, purging, deleting, a
  <2>5. CASE account' = [account EXCEPT ![a] = new] /\ asked' = [asked EXCEPT ![r] = purging] /\ Exists(a)
    <3>1. /\ account' \in [Accounts -> Row] /\ account'[a] = new
          /\ \A b \in Accounts \ {a} : account'[b] = account[b]
      BY <1>0, <2>3, <2>4, <2>5 DEF KeepsSubscription
    <3> QED BY <1>0, <1>3, <2>1, <2>3, <2>4, <2>5, <3>1, SameSubscriptions
  <2>6. CASE asked' = [asked EXCEPT ![r] = Nothing] /\ UNCHANGED account
    BY <1>0, <1>3, <2>1, <2>6, SameSubscriptions
  <2> QED BY <2>2, <2>5, <2>6 DEF new
<1>5. CASE Purge(r)
  <2>1. PICK left \in [Files -> Whereabouts] :
          /\ file' = [file EXCEPT ![a] = left]
          /\ Bare(file[a]) => Bare(left)
          /\ \/ Bare(left) /\ asked' = [asked EXCEPT ![r] = deleting] /\ UNCHANGED account
             \/ asked' = [asked EXCEPT ![r] = Nothing] /\ RecordFailure(a)
    <3> DEFINE all == [f \in Files |-> Purged(file[a][f])]
               part(some) == [f \in Files |-> IF f \in some THEN Removed(file[a][f]) ELSE file[a][f]]
    <3>1. \/ /\ file' = [file EXCEPT ![a] = all]
             /\ asked' = [asked EXCEPT ![r] = deleting] /\ UNCHANGED account
          \/ /\ \E some \in SUBSET Files : file' = [file EXCEPT ![a] = part(some)]
             /\ asked' = [asked EXCEPT ![r] = Nothing] /\ RecordFailure(a)
      BY <1>5 DEF Purge, Remember, Forget
    <3>2. file[a] \in [Files -> Whereabouts]  BY <1>0, <1>1
    <3>3. all \in [Files -> Whereabouts] /\ Bare(all)  BY <3>2 DEF Purged, Whereabouts, Bare
    <3>4. \A some \in SUBSET Files :
            part(some) \in [Files -> Whereabouts] /\ (Bare(file[a]) => Bare(part(some)))
      BY <3>2 DEF Removed, Whereabouts, Bare
    <3> HIDE DEF all, part
    <3> QED BY <3>1, <3>3, <3>4
  <2>2. q.stage = "purge" /\ a \in Accounts  BY <1>1, <1>5 DEF Purge
  <2> HIDE DEF q, purging, deleting, a
  <2>3. /\ file' \in [Accounts -> [Files -> Whereabouts]] /\ file'[a] = left
        /\ \A b \in Accounts : Bare(file[b]) => Bare(file'[b])
    BY <1>0, <2>1, <2>2
  <2>4. CASE Bare(left) /\ asked' = [asked EXCEPT ![r] = deleting] /\ UNCHANGED account
    BY <1>0, <1>3, <2>2, <2>3, <2>4, SameSubscriptions
  <2>5. CASE asked' = [asked EXCEPT ![r] = Nothing] /\ RecordFailure(a)
    <3>1. /\ account' \in [Accounts -> Row]
          /\ \A b \in Accounts :
              /\ KeepsSubscription(account[b], account'[b])
              /\ account'[b].lifecycle = account[b].lifecycle \/ account'[b].lifecycle = "PENDING_DELETION"
              /\ account'[b].lifecycle = "GONE" <=> account[b].lifecycle = "GONE"
      BY <2>2, <2>5, FailuresAreRecorded
    <3> QED BY <1>3, <2>3, <2>5, <3>1
  <2> QED BY <2>1, <2>4, <2>5
<1>6. CASE DeleteRows(r)
  <2>1. /\ q.stage = "rows" /\ a \in Accounts /\ file' = file
        /\ asked' = [asked EXCEPT ![r] = Nothing]
        /\ \/ account' = [account EXCEPT ![a] = GoneRow]
           \/ RecordFailure(a)
    BY <1>1, <1>6 DEF DeleteRows, Forget
  <2> HIDE DEF q, purging, deleting, a
  <2>2. CASE account' = [account EXCEPT ![a] = GoneRow]
    <3>1. KeepsSubscription(account[a], GoneRow) /\ GoneRow.lifecycle = "GONE"
      BY <1>0, <2>1, ClaimedRows
    <3>2. /\ account' \in [Accounts -> Row] /\ account'[a] = GoneRow
          /\ \A b \in Accounts \ {a} : account'[b] = account[b]
      BY <1>0, <2>1, <2>2, <3>1 DEF KeepsSubscription
    <3> QED BY <1>0, <1>3, <2>1, <3>1, <3>2, SameSubscriptions
  <2>3. CASE RecordFailure(a)
    <3>1. /\ account' \in [Accounts -> Row]
          /\ \A b \in Accounts :
              /\ KeepsSubscription(account[b], account'[b])
              /\ account'[b].lifecycle = account[b].lifecycle \/ account'[b].lifecycle = "PENDING_DELETION"
              /\ account'[b].lifecycle = "GONE" <=> account[b].lifecycle = "GONE"
      BY <2>1, <2>3, FailuresAreRecorded
    <3> QED BY <1>0, <1>3, <2>1, <3>1
  <2> QED BY <2>1, <2>2, <2>3
<1> QED BY <1>4, <1>5, <1>6

LEMMA LifecycleKeepsRows ==
  ASSUME RowsInv, LifecycleStep, UNCHANGED <<now, commerceVars>>
  PROVE  RowsInv'
<1>1. ASSUME NEW r \in Requests, Demote(r) \/ Die(r)
      PROVE  RowsInv'
  <2>1. /\ UNCHANGED <<account, file, ops>> /\ supers' \subseteq supers /\ Forget(r)
    BY <1>1 DEF Demote, Die
  <2>2. CommerceFollows /\ RequestsEnd  BY <2>1, SameCommerce, Forgetting DEF RowsInv
  <2>3. now' \in Nat /\ now <= now'  BY DEF RowsInv, RecordsAreTyped
  <2> QED BY <2>1, <2>2, <2>3, SameRowsAreFair, WritesKeepRows
<1> QED BY <1>1, AdministratorsAsk, LifecyclesChange, FilesAreUploaded, DeletionGoesOn DEF LifecycleStep

------------------------
(* Payments, switches and jobs *)

\* One payment is written, and perhaps the checkout it is for.
LEMMA PaymentsAreWritten ==
  ASSUME RowsInv, SubscriptionAssumption, NEW p \in Payments, NEW paid \in PaymentRow,
         payment' = [payment EXCEPT ![p] = paid],
         \/ checkout' = checkout
         \/ \E k \in Checkouts, new \in CheckoutRow :
               /\ checkout' = [checkout EXCEPT ![k] = new]
               /\ checkout[k] # Nothing => new.account = checkout[k].account,
         coupon' \in [active : BOOLEAN, used : Nat, usedBy : SUBSET Accounts],
         paid.checkout # Nothing => /\ checkout[paid.checkout] # Nothing
                                    /\ checkout[paid.checkout].account = paid.account,
         due' = due
  PROVE  CommerceFollows
<1>1. /\ payment \in [Payments -> PaymentRow \cup {Nothing}]
      /\ checkout \in [Checkouts -> CheckoutRow \cup {Nothing}]
  BY DEF RowsInv, RecordsAreTyped
<1>2. /\ payment' \in [Payments -> PaymentRow \cup {Nothing}]
      /\ \A l \in Payments : payment[l] # Nothing => payment'[l] # Nothing
  BY <1>1 DEF SubscriptionAssumption
<1>3. /\ checkout' \in [Checkouts -> CheckoutRow \cup {Nothing}]
      /\ \A k \in Checkouts : checkout[k] # Nothing =>
            checkout'[k] # Nothing /\ checkout'[k].account = checkout[k].account
  BY <1>1 DEF SubscriptionAssumption
<1>4. ProofsHaveCheckouts'
  <2>1. \A l \in Payments : payment'[l] = IF l = p THEN paid ELSE payment[l]  BY <1>1
  <2>2. \A l \in Payments : payment[l] # Nothing => payment[l].checkout \in Checkouts \cup {Nothing}
    BY <1>1 DEF PaymentRow
  <2>3. paid.checkout \in Checkouts \cup {Nothing}  BY DEF PaymentRow
  <2> QED BY <1>3, <2>1, <2>2, <2>3 DEF RowsInv, ProofsHaveCheckouts
<1> QED BY <1>2, <1>3, <1>4 DEF CommerceFollows, RowsInv, RecordsAreTyped, DueChangesExist

LEMMA CheckoutFields ==
  ASSUME NEW row \in CheckoutRow,
         NEW status \in {"AWAITING_PAYMENT", "UNDER_REVIEW", "REJECTED", "APPROVED", "CANCELLED"},
         NEW at \in Nat
  PROVE  /\ [row EXCEPT !.status = status] \in CheckoutRow
         /\ [row EXCEPT !.status = status].account = row.account
         /\ [row EXCEPT !.status = status, !.expiresAt = at] \in CheckoutRow
         /\ [row EXCEPT !.status = status, !.expiresAt = at].account = row.account
         /\ [row EXCEPT !.applyAt = Never] \in CheckoutRow
         /\ [row EXCEPT !.applyAt = Never].account = row.account
BY DEF CheckoutRow, Instant, Deadline

LEMMA PaymentFields ==
  ASSUME NEW row \in PaymentRow, NEW status \in {"PENDING", "PAID", "FAILED", "REFUNDED"},
         NEW at \in Nat
  PROVE  /\ [row EXCEPT !.status = status] \in PaymentRow
         /\ [row EXCEPT !.status = status].checkout = row.checkout
         /\ [row EXCEPT !.status = status].account = row.account
         /\ [row EXCEPT !.status = status, !.paidAt = at] \in PaymentRow
         /\ [row EXCEPT !.status = status, !.paidAt = at].checkout = row.checkout
         /\ [row EXCEPT !.status = status, !.paidAt = at].account = row.account
         /\ [row EXCEPT !.paidAt = at] \in PaymentRow
         /\ [row EXCEPT !.paidAt = at].checkout = row.checkout
BY DEF PaymentRow, Instant, Deadline

LEMMA UsesAreCounted ==
  ASSUME NEW c \in [active : BOOLEAN, used : Nat, usedBy : SUBSET Accounts], NEW a \in Accounts
  PROVE  /\ [c EXCEPT !.used = @ + 1, !.usedBy = @ \cup {a}]
              \in [active : BOOLEAN, used : Nat, usedBy : SUBSET Accounts]
         /\ [c EXCEPT !.used = @ + 1, !.usedBy = @ \cup {a}].used = c.used + 1
         /\ [c EXCEPT !.used = @ + 1, !.usedBy = @ \cup {a}].usedBy = c.usedBy \cup {a}
         /\ [c EXCEPT !.used = @ + 1, !.usedBy = @ \cup {a}].active = c.active
<1> DEFINE d == [c EXCEPT !.used = c.used + 1, !.usedBy = c.usedBy \cup {a}]
<1>1. c.used \in Nat /\ c.usedBy \in SUBSET Accounts /\ c.active \in BOOLEAN  OBVIOUS
<1>2. /\ d.used = c.used + 1 /\ d.usedBy = c.usedBy \cup {a} /\ d.active = c.active
      /\ DOMAIN d = {"active", "used", "usedBy"}
  OBVIOUS
<1>4. c.used + 1 \in Nat /\ c.usedBy \cup {a} \in SUBSET Accounts  BY <1>1
<1>3. \A n \in Nat, u \in SUBSET Accounts :
        [c EXCEPT !.used = n, !.usedBy = u] \in [active : BOOLEAN, used : Nat, usedBy : SUBSET Accounts]
  OBVIOUS
<1>5. d \in [active : BOOLEAN, used : Nat, usedBy : SUBSET Accounts]  BY <1>3, <1>4
<1> HIDE DEF d
<1> QED BY <1>2, <1>5 DEF d

LEMMA ProofsAreSubmitted ==
  ASSUME RowsInv, SubscriptionAssumption, NEW r \in Requests, SubmitPaymentProof(r)
  PROVE  RowsInv'
<1> DEFINE q == asked[r]
<1>0. /\ UNCHANGED <<now, account, file, supers, ops, coupon, due>> /\ Forget(r)
      /\ now \in Nat /\ checkout \in [Checkouts -> CheckoutRow \cup {Nothing}]
      /\ coupon \in [active : BOOLEAN, used : Nat, usedBy : SUBSET Accounts]
      /\ payment \in [Payments -> PaymentRow \cup {Nothing}]
  BY DEF RowsInv, RecordsAreTyped, SubmitPaymentProof, SameTenancy
<1>1. /\ q # Nothing /\ q.op = "submitProof"
      /\ q \in [op : {"submitProof"}, account : Accounts, checkout : Checkouts \cup {Nothing}]
      /\ q.checkout # Nothing =>
            checkout[q.checkout] # Nothing /\ checkout[q.checkout].account = q.account
  BY AskFields DEF RowsInv, Asks, SubmitPaymentProof, AsksAreCurrent, Current
<1>2. \/ UNCHANGED <<payment, checkout>>
      \/ /\ \E p \in Payments : payment' = [payment EXCEPT ![p] =
                            NewPayment(q.account, q.checkout, "PENDING", TRUE)]
         /\ checkout' = IF q.checkout = Nothing THEN checkout
                        ELSE [checkout EXCEPT ![q.checkout].status = "UNDER_REVIEW"]
  BY DEF SubmitPaymentProof
<1> DEFINE paid == NewPayment(q.account, q.checkout, "PENDING", TRUE)
           row == checkout[q.checkout]
           new == [row EXCEPT !.status = "UNDER_REVIEW"]
<1>3. paid \in PaymentRow /\ paid.checkout = q.checkout /\ paid.account = q.account
  <2>1. q.account \in Accounts /\ q.checkout \in Checkouts \cup {Nothing}  BY <1>1
  <2> HIDE DEF q
  <2> QED BY <2>1 DEF NewPayment, PaymentRow, Deadline
<1>4. q.checkout # Nothing => q.checkout \in Checkouts /\ row \in CheckoutRow  BY <1>0, <1>1
<1>5. q.checkout # Nothing => new \in CheckoutRow /\ new.account = row.account  BY <1>4 DEF CheckoutRow
<1>6. q.checkout # Nothing =>
        [checkout EXCEPT ![q.checkout].status = "UNDER_REVIEW"] = [checkout EXCEPT ![q.checkout] = new]
  BY <1>0, <1>4
<1> HIDE DEF paid, new, q
<1>7. CommerceFollows
  <2>1. CASE UNCHANGED <<payment, checkout>>  BY <1>0, <2>1, SameCommerce DEF commerceVars
  <2>2. ASSUME NEW p \in Payments, payment' = [payment EXCEPT ![p] = paid],
               checkout' = IF q.checkout = Nothing THEN checkout
                           ELSE [checkout EXCEPT ![q.checkout] = new]
        PROVE  CommerceFollows
    <3>1. \/ checkout' = checkout
          \/ \E k \in Checkouts, x \in CheckoutRow :
               /\ checkout' = [checkout EXCEPT ![k] = x]
               /\ checkout[k] # Nothing => x.account = checkout[k].account
      BY <1>4, <1>5, <2>2
    <3>2. /\ coupon' \in [active : BOOLEAN, used : Nat, usedBy : SUBSET Accounts]
          /\ due' = due
          /\ paid.checkout # Nothing => /\ checkout[paid.checkout] # Nothing
                                        /\ checkout[paid.checkout].account = paid.account
      BY <1>0, <1>1, <1>3
    <3> QED BY <1>3, <2>2, <3>1, <3>2, PaymentsAreWritten
  <2> QED BY <1>2, <1>6, <2>1, <2>2 DEF paid
<1>8. RequestsEnd  BY <1>0, Forgetting DEF RowsInv
<1> QED BY <1>0, <1>7, <1>8, SameRowsAreFair, WritesKeepRows

LEMMA ProofsAreApproved ==
  ASSUME RowsInv, SubscriptionAssumption, NEW r \in Requests, ApprovePaymentProof(r)
  PROVE  RowsInv'
<1> DEFINE q == asked[r]
           p == q.payment
           k == payment[p].checkout
           a == payment[p].account
           c == k # Nothing /\ checkout[k].coupon # Nothing
           row == [account[a] EXCEPT !.trialEndsAt = Never]
           late == PaidUntil(row, now, Later(row.periodEnd, now) + Period)
           begun == PaidUntil(row, q.at, q.at + Period)
           changed == [begun EXCEPT !.plan = checkout[k].plan]
           next == IF k = Nothing THEN late ELSE changed
           paid == [payment[p] EXCEPT !.status = "PAID", !.paidAt = q.at]
           new == [checkout[k] EXCEPT !.status = "APPROVED"]
<1>0. /\ UNCHANGED <<now, file, supers, ops, due>> /\ Forget(r)
      /\ now \in Nat /\ checkout \in [Checkouts -> CheckoutRow \cup {Nothing}]
      /\ coupon \in [active : BOOLEAN, used : Nat, usedBy : SUBSET Accounts]
      /\ payment \in [Payments -> PaymentRow \cup {Nothing}] /\ account \in [Accounts -> Row]
  BY DEF RowsInv, RecordsAreTyped, ApprovePaymentProof, SameTenancy
<1>1. /\ q # Nothing /\ q.op = "approve"
      /\ q \in [op : {"approve", "reject"}, payment : Payments, at : Nat]
      /\ payment[p] # Nothing
  BY AskFields DEF RowsInv, Asks, ApprovePaymentProof, AsksAreCurrent, Current
<1>2. \/ UNCHANGED <<payment, account, checkout, coupon>>
      \/ /\ payment' = [payment EXCEPT ![p].status = "PAID", ![p].paidAt = q.at]
         /\ account' = [account EXCEPT ![a] = next]
         /\ checkout' = IF k = Nothing THEN checkout ELSE [checkout EXCEPT ![k].status = "APPROVED"]
         /\ coupon' = IF c THEN [coupon EXCEPT !.used = @ + 1, !.usedBy = @ \cup {a}] ELSE coupon
  BY DEF ApprovePaymentProof
<1>3. p \in Payments /\ payment[p] \in PaymentRow /\ a \in Accounts /\ k \in Checkouts \cup {Nothing}
      /\ account[a] \in Row /\ q.at \in Nat
  BY <1>0, <1>1 DEF PaymentRow
<1>4. k # Nothing => k \in Checkouts /\ checkout[k] \in CheckoutRow /\ checkout[k] # Nothing
                     /\ checkout[k].account = a
  <2>1. k # Nothing => checkout[k] # Nothing /\ checkout[k].account = a
    BY <1>1, <1>3 DEF RowsInv, ProofsHaveCheckouts
  <2> QED BY <1>0, <1>3, <2>1
<1>5. paid \in PaymentRow /\ paid.checkout = k /\ paid.account = a  BY ZenonT(40), <1>3, PaymentFields
<1>6. payment' = [payment EXCEPT ![p].status = "PAID", ![p].paidAt = q.at] =>
        payment' = [payment EXCEPT ![p] = paid]
  BY <1>0, <1>3
<1>7. k # Nothing => new \in CheckoutRow /\ new.account = checkout[k].account  BY <1>4, CheckoutFields
<1>8. k # Nothing => [checkout EXCEPT ![k].status = "APPROVED"] = [checkout EXCEPT ![k] = new]
  BY <1>0, <1>4
<1>9. Fair(account[a], next, now')
  <2>1. row \in Row /\ row.lifecycle = account[a].lifecycle /\ row.subscription = account[a].subscription
    BY <1>3 DEF Row, Deadline
  <2> HIDE DEF row
  <2>2. row.periodEnd \in Deadline  BY <2>1 DEF Row
  <2>3. Later(row.periodEnd, now) + Period \in Nat /\ q.at + Period \in Nat
    BY <1>0, <1>3, <2>2, LaterIsLater DEF SubscriptionAssumption
  <2>4. late \in Row /\ late.lifecycle = row.lifecycle /\ late.subscription = "ACTIVE"
    <3>1. Fair(row, late, now')  BY <2>1, <2>3, PaidRows
    <3>2. late.subscription = "ACTIVE"  BY <2>1 DEF PaidUntil, Row
    <3> QED BY <3>1, <3>2 DEF Fair
  <2>5. begun \in Row /\ begun.lifecycle = row.lifecycle /\ begun.subscription = "ACTIVE"
    <3>1. Fair(row, begun, now')  BY <2>1, <2>3, PaidRows
    <3>2. begun.subscription = "ACTIVE"  BY <2>1 DEF PaidUntil, Row
    <3> QED BY <3>1, <3>2 DEF Fair
  <2> HIDE DEF begun, late
  <2>6. k # Nothing => changed \in Row /\ changed.lifecycle = row.lifecycle /\ changed.subscription = "ACTIVE"
    BY <1>4, <2>5, PlansAndTrials DEF CheckoutRow
  <2> QED BY <2>1, <2>4, <2>6 DEF Fair
<1>10. coupon' = (IF c THEN [coupon EXCEPT !.used = @ + 1, !.usedBy = @ \cup {a}] ELSE coupon) =>
         coupon' \in [active : BOOLEAN, used : Nat, usedBy : SUBSET Accounts]
  <2> HIDE DEF a, c
  <2> QED BY <1>0, <1>3, UsesAreCounted
<1> HIDE DEF next, paid, new, q, p, a, k, c
<1>11. RequestsEnd  BY <1>0, Forgetting DEF RowsInv
<1>12. CASE UNCHANGED <<payment, account, checkout, coupon>>
  <2>1. CommerceFollows  BY <1>0, <1>12, SameCommerce DEF commerceVars
  <2> QED BY <1>0, <1>11, <1>12, <2>1, SameRowsAreFair, WritesKeepRows
<1>13. CASE /\ payment' = [payment EXCEPT ![p] = paid]
            /\ account' = [account EXCEPT ![a] = next]
            /\ checkout' = IF k = Nothing THEN checkout ELSE [checkout EXCEPT ![k] = new]
            /\ coupon' \in [active : BOOLEAN, used : Nat, usedBy : SUBSET Accounts]
  <2>1. \/ checkout' = checkout
        \/ \E l \in Checkouts, x \in CheckoutRow :
             /\ checkout' = [checkout EXCEPT ![l] = x]
             /\ checkout[l] # Nothing => x.account = checkout[l].account
    BY <1>4, <1>7, <1>13
  <2>2. CommerceFollows  BY <1>0, <1>3, <1>4, <1>5, <1>13, <2>1, PaymentsAreWritten
  <2>3. account' \in [Accounts -> Row] /\ \A b \in Accounts : Fair(account[b], account'[b], now')
    BY <1>3, <1>9, <1>13, OneRowIsFair
  <2> QED BY <1>0, <1>11, <2>2, <2>3, WritesKeepRows
<1> QED BY <1>2, <1>6, <1>8, <1>10, <1>12, <1>13

LEMMA ProofsAreRejected ==
  ASSUME RowsInv, SubscriptionAssumption, NEW r \in Requests, RejectPaymentProof(r)
  PROVE  RowsInv'
<1> DEFINE q == asked[r]
           p == q.payment
           k == payment[p].checkout
           paid == [payment[p] EXCEPT !.status = "FAILED"]
           new == [checkout[k] EXCEPT !.status = "REJECTED", !.expiresAt = q.at + CheckoutTtl]
<1>0. /\ UNCHANGED <<now, account, file, supers, ops, coupon, due>> /\ Forget(r)
      /\ now \in Nat /\ checkout \in [Checkouts -> CheckoutRow \cup {Nothing}]
      /\ coupon \in [active : BOOLEAN, used : Nat, usedBy : SUBSET Accounts]
      /\ payment \in [Payments -> PaymentRow \cup {Nothing}]
  BY DEF RowsInv, RecordsAreTyped, RejectPaymentProof, SameTenancy
<1>1. /\ q # Nothing /\ q.op = "reject"
      /\ q \in [op : {"approve", "reject"}, payment : Payments, at : Nat]
      /\ payment[p] # Nothing
  BY AskFields DEF RowsInv, Asks, RejectPaymentProof, AsksAreCurrent, Current
<1>2. \/ UNCHANGED <<payment, checkout>>
      \/ /\ payment' = [payment EXCEPT ![p].status = "FAILED"]
         /\ checkout' = IF k = Nothing THEN checkout
                        ELSE [checkout EXCEPT ![k].status = "REJECTED", ![k].expiresAt = q.at + CheckoutTtl]
  BY DEF RejectPaymentProof
<1>3. p \in Payments /\ payment[p] \in PaymentRow /\ k \in Checkouts \cup {Nothing}
      /\ q.at + CheckoutTtl \in Nat
  <2>1. CheckoutTtl \in Nat /\ q.at \in Nat  BY <1>1 DEF SubscriptionAssumption
  <2> QED BY <1>0, <1>1, <2>1 DEF PaymentRow
<1>4. k # Nothing => k \in Checkouts /\ checkout[k] \in CheckoutRow /\ checkout[k] # Nothing
                     /\ checkout[k].account = payment[p].account
  <2>1. k # Nothing => checkout[k] # Nothing /\ checkout[k].account = payment[p].account
    BY <1>1, <1>3 DEF RowsInv, ProofsHaveCheckouts
  <2> QED BY <1>0, <1>3, <2>1
<1>5. paid \in PaymentRow /\ paid.checkout = k /\ paid.account = payment[p].account
  BY <1>3, PaymentFields
<1>6. [payment EXCEPT ![p].status = "FAILED"] = [payment EXCEPT ![p] = paid]  BY <1>0, <1>3
<1>7. k # Nothing => new \in CheckoutRow /\ new.account = checkout[k].account
  BY <1>3, <1>4, CheckoutFields
<1>8. k # Nothing =>
        [checkout EXCEPT ![k].status = "REJECTED", ![k].expiresAt = q.at + CheckoutTtl]
          = [checkout EXCEPT ![k] = new]
  BY <1>0, <1>4
<1> HIDE DEF paid, new, q, p, k
<1>9. CommerceFollows
  <2>1. CASE UNCHANGED <<payment, checkout>>  BY <1>0, <2>1, SameCommerce DEF commerceVars
  <2>2. CASE /\ payment' = [payment EXCEPT ![p] = paid]
             /\ checkout' = IF k = Nothing THEN checkout ELSE [checkout EXCEPT ![k] = new]
    <3>1. \/ checkout' = checkout
          \/ \E l \in Checkouts, x \in CheckoutRow :
               /\ checkout' = [checkout EXCEPT ![l] = x]
               /\ checkout[l] # Nothing => x.account = checkout[l].account
      BY <1>4, <1>7, <2>2
    <3>2. /\ coupon' \in [active : BOOLEAN, used : Nat, usedBy : SUBSET Accounts]
          /\ due' = due
      BY <1>0
    <3> QED BY <1>3, <1>4, <1>5, <2>2, <3>1, <3>2, PaymentsAreWritten
  <2> QED BY <1>2, <1>6, <1>8, <2>1, <2>2
<1>10. RequestsEnd  BY <1>0, Forgetting DEF RowsInv
<1> QED BY <1>0, <1>9, <1>10, SameRowsAreFair, WritesKeepRows

LEMMA PaymentsAreGranted ==
  ASSUME RowsInv, SubscriptionAssumption, NEW r \in Requests, GrantManualPayment(r)
  PROVE  RowsInv'
<1> DEFINE q == asked[r]
           a == q.account
           fresh == NewPayment(a, Nothing, "PAID", FALSE)
           paid == [fresh EXCEPT !.paidAt = q.at]
           until == Later(q.seen.periodEnd, q.at) + Period
           next == PaidUntil(account[a], q.at, until)
<1>0. /\ UNCHANGED <<now, file, supers, ops, checkout, coupon, due>> /\ Forget(r)
      /\ now \in Nat /\ account \in [Accounts -> Row]
      /\ coupon \in [active : BOOLEAN, used : Nat, usedBy : SUBSET Accounts]
  BY DEF RowsInv, RecordsAreTyped, GrantManualPayment, SameTenancy
<1>1. /\ q # Nothing /\ q.op = "grant"
      /\ q \in [op : {"grant"}, account : Accounts, seen : Row, at : Nat]
  BY AskFields DEF RowsInv, Asks, GrantManualPayment
<1>2. \/ UNCHANGED <<payment, account>>
      \/ /\ \E p \in Payments : payment' = [payment EXCEPT ![p] = paid]
         /\ account' = [account EXCEPT ![a] = next]
  BY DEF GrantManualPayment
<1>3. a \in Accounts /\ account[a] \in Row /\ q.at \in Nat /\ q.seen \in Row  BY <1>0, <1>1
<1>4. until \in Nat
  <2>1. q.seen.periodEnd \in Deadline  BY <1>3 DEF Row
  <2>2. Later(q.seen.periodEnd, q.at) \in Nat  BY <1>3, <2>1, LaterIsLater
  <2> QED BY <2>2 DEF SubscriptionAssumption
<1> HIDE DEF until
<1>5. Fair(account[a], next, now')  BY <1>3, <1>4, PaidRows
<1>6. paid \in PaymentRow /\ paid.checkout = Nothing
  <2> HIDE DEF a, q
  <2>1. fresh \in PaymentRow /\ fresh.checkout = Nothing  BY <1>3 DEF NewPayment, PaymentRow, Deadline
  <2> HIDE DEF fresh
  <2>2. q.at \in Nat  BY <1>3
  <2> QED BY <2>1, <2>2 DEF PaymentRow, Deadline, Instant
<1> HIDE DEF paid, next, a, q
<1>7. RequestsEnd  BY <1>0, Forgetting DEF RowsInv
<1>8. CASE UNCHANGED <<payment, account>>
  <2>1. CommerceFollows  BY <1>0, <1>8, SameCommerce DEF commerceVars
  <2> QED BY <1>0, <1>7, <1>8, <2>1, SameRowsAreFair, WritesKeepRows
<1>9. ASSUME NEW p \in Payments, payment' = [payment EXCEPT ![p] = paid],
             account' = [account EXCEPT ![a] = next]
      PROVE  RowsInv'
  <2>1. CommerceFollows  BY <1>0, <1>6, <1>9, PaymentsAreWritten
  <2>2. account' \in [Accounts -> Row] /\ \A b \in Accounts : Fair(account[b], account'[b], now')
    BY <1>3, <1>5, <1>9, OneRowIsFair
  <2> QED BY <1>0, <1>7, <2>1, <2>2, WritesKeepRows
<1> QED BY <1>2, <1>8, <1>9

LEMMA PaymentsAreRefunded ==
  ASSUME RowsInv, SubscriptionAssumption, NEW r \in Requests, RefundBillingRecord(r)
  PROVE  RowsInv'
<1> DEFINE q == asked[r]
           p == q.payment
           a == payment[p].account
           paid == [payment[p] EXCEPT !.status = "REFUNDED"]
           next == [account[a] EXCEPT !.subscription = "SUSPENDED"]
<1>0. /\ UNCHANGED <<now, file, supers, ops, checkout, coupon, due>> /\ Forget(r)
      /\ now \in Nat /\ account \in [Accounts -> Row]
      /\ coupon \in [active : BOOLEAN, used : Nat, usedBy : SUBSET Accounts]
      /\ payment \in [Payments -> PaymentRow \cup {Nothing}]
  BY DEF RowsInv, RecordsAreTyped, RefundBillingRecord, SameTenancy
<1>1. /\ q # Nothing /\ q.op = "refund"
      /\ q \in [op : {"refund"}, payment : Payments, suspend : BOOLEAN]
      /\ payment[p] # Nothing
  BY AskFields DEF RowsInv, Asks, RefundBillingRecord, AsksAreCurrent, Current
<1>2. \/ UNCHANGED <<payment, account>>
      \/ /\ payment' = [payment EXCEPT ![p].status = "REFUNDED"]
         /\ account' = IF q.suspend THEN [account EXCEPT ![a].subscription = "SUSPENDED"] ELSE account
  BY DEF RefundBillingRecord
<1>3. p \in Payments /\ payment[p] \in PaymentRow /\ a \in Accounts  BY <1>0, <1>1 DEF PaymentRow
<1>4. paid \in PaymentRow /\ paid.checkout = payment[p].checkout /\ paid.account = a
  BY <1>3, PaymentFields
<1>5. paid.checkout # Nothing => /\ checkout[paid.checkout] # Nothing
                                 /\ checkout[paid.checkout].account = paid.account
  BY <1>1, <1>3, <1>4 DEF RowsInv, ProofsHaveCheckouts
<1>6. [payment EXCEPT ![p].status = "REFUNDED"] = [payment EXCEPT ![p] = paid]  BY <1>0, <1>3
<1>7. [account EXCEPT ![a].subscription = "SUSPENDED"] = [account EXCEPT ![a] = next]  BY <1>0, <1>3
<1>8. Fair(account[a], next, now')
  <2>1. account[a] \in Row  BY <1>0, <1>3
  <2>2. next \in Row /\ next.lifecycle = account[a].lifecycle /\ next.subscription = "SUSPENDED"
    BY <2>1 DEF Row
  <2> QED BY <2>2 DEF Fair
<1> HIDE DEF paid, next, p, a, q
<1>9. RequestsEnd  BY <1>0, Forgetting DEF RowsInv
<1>10. CASE UNCHANGED <<payment, account>>
  <2>1. CommerceFollows  BY <1>0, <1>10, SameCommerce DEF commerceVars
  <2> QED BY <1>0, <1>9, <1>10, <2>1, SameRowsAreFair, WritesKeepRows
<1>11. CASE /\ payment' = [payment EXCEPT ![p] = paid]
            /\ account' = IF q.suspend THEN [account EXCEPT ![a] = next] ELSE account
  <2>1. CommerceFollows  BY <1>0, <1>3, <1>4, <1>5, <1>11, PaymentsAreWritten
  <2>2. account' \in [Accounts -> Row] /\ \A b \in Accounts : Fair(account[b], account'[b], now')
    BY <1>3, <1>8, <1>11, OneRowIsFair, SameRowsAreFair
  <2> QED BY <1>0, <1>9, <2>1, <2>2, WritesKeepRows
<1> QED BY <1>2, <1>6, <1>7, <1>10, <1>11

\* Checkouts are written and payments are not.
LEMMA CheckoutsAreWritten ==
  ASSUME RowsInv, UNCHANGED <<payment, coupon>>,
         checkout' \in [Checkouts -> CheckoutRow \cup {Nothing}],
         \A k \in Checkouts : checkout[k] # Nothing =>
            checkout'[k] # Nothing /\ checkout'[k].account = checkout[k].account,
         due' # Nothing => due' \in [changes : SUBSET Checkouts, at : Nat]
                           /\ \A k \in due'.changes : checkout'[k] # Nothing
  PROVE  CommerceFollows
<1>1. \A p \in Payments : payment[p] # Nothing => payment[p] \in PaymentRow
  BY DEF RowsInv, RecordsAreTyped
<1>2. ProofsHaveCheckouts'  BY <1>1 DEF RowsInv, ProofsHaveCheckouts, PaymentRow
<1> QED BY <1>2 DEF CommerceFollows, RowsInv, RecordsAreTyped

LEMMA DueStays ==
  ASSUME RowsInv, due' = due,
         \A k \in Checkouts : checkout[k] # Nothing => checkout'[k] # Nothing
  PROVE  due' # Nothing => due' \in [changes : SUBSET Checkouts, at : Nat]
                           /\ \A k \in due'.changes : checkout'[k] # Nothing
BY DEF RowsInv, RecordsAreTyped, DueChangesExist

LEMMA SwitchesAreWritten ==
  ASSUME RowsInv, SubscriptionAssumption, NEW r \in Requests, Switch(r)
  PROVE  RowsInv'
<1> DEFINE q == asked[r]
           a == q.account
           new == SwitchWrites(q.op, q.seen, account[a], q.at, q.plan)
<1>0. /\ UNCHANGED <<now, file, supers, ops, payment, coupon, due>> /\ Forget(r)
      /\ now \in Nat /\ account \in [Accounts -> Row]
      /\ checkout \in [Checkouts -> CheckoutRow \cup {Nothing}]
  BY DEF RowsInv, RecordsAreTyped, Switch, SameTenancy
<1>1. /\ q # Nothing /\ q.op \in Switches
      /\ q \in [op : Switches, account : Accounts, seen : Row, at : Nat, plan : PlanIds]
      /\ q.at <= now
  BY AskFields DEF RowsInv, Switch, AsksAreCurrent, Current
<1>2. /\ account' = IF Exists(a) THEN [account EXCEPT ![a] = new] ELSE account
      /\ checkout' = IF q.op = "changeTenantPlan" THEN Cancelled(Scheduled(a)) ELSE checkout
  BY DEF Switch
<1>3. a \in Accounts /\ account[a] \in Row  BY <1>0, <1>1
<1>4. Fair(account[a], new, now')  BY <1>0, <1>1, <1>3, SwitchedRows
<1>5. \A k \in Scheduled(a) : k \in Checkouts => checkout[k] # Nothing
  BY DEF Scheduled, InStatus, OfAccount
<1>6. /\ checkout' \in [Checkouts -> CheckoutRow \cup {Nothing}]
      /\ \A k \in Checkouts : checkout[k] # Nothing =>
            checkout'[k] # Nothing /\ checkout'[k].account = checkout[k].account
  <2>1. /\ Cancelled(Scheduled(a)) \in [Checkouts -> CheckoutRow \cup {Nothing}]
        /\ \A k \in Checkouts : checkout[k] # Nothing =>
             Cancelled(Scheduled(a))[k] # Nothing /\ Cancelled(Scheduled(a))[k].account = checkout[k].account
    BY <1>5, CheckoutsAreCancelled
  <2> QED BY <1>0, <1>2, <2>1
<1> HIDE DEF new, a, q
<1>7. CommerceFollows  BY <1>0, <1>6, DueStays, CheckoutsAreWritten
<1>8. RequestsEnd  BY <1>0, Forgetting DEF RowsInv
<1>9. account' \in [Accounts -> Row] /\ \A b \in Accounts : Fair(account[b], account'[b], now')
  BY <1>2, <1>3, <1>4, OneRowIsFair, SameRowsAreFair
<1> QED BY <1>0, <1>7, <1>8, <1>9, WritesKeepRows

LEMMA DowngradesAreScheduled ==
  ASSUME RowsInv, SubscriptionAssumption, NEW r \in Requests, ScheduleTenantDowngrade(r)
  PROVE  RowsInv'
<1> DEFINE q == asked[r]
           fresh == NewCheckout(q.account, q.plan, Nothing, "APPROVED", q.at)
           new == [fresh EXCEPT !.applyAt = q.at, !.administrative = TRUE]
<1>0. /\ UNCHANGED <<now, account, file, supers, ops, payment, coupon, due>> /\ Forget(r)
      /\ now \in Nat /\ checkout \in [Checkouts -> CheckoutRow \cup {Nothing}]
  BY DEF RowsInv, RecordsAreTyped, ScheduleTenantDowngrade, SameTenancy
<1>1. /\ q # Nothing /\ q.op = "downgrade"
      /\ q \in [op : {"downgrade"}, account : Accounts, plan : PlanIds, at : Nat]
  BY AskFields DEF RowsInv, Asks, ScheduleTenantDowngrade
<1>2. \/ checkout' = checkout
      \/ \E k \in Checkouts : checkout[k] = Nothing /\ checkout' = [checkout EXCEPT ![k] = new]
  BY DEF ScheduleTenantDowngrade
<1>3. q.account \in Accounts /\ q.plan \in PlanIds /\ q.at \in Nat  BY <1>1
<1>4. new \in CheckoutRow
  <2> HIDE DEF q
  <2>1. fresh \in CheckoutRow  BY <1>3 DEF NewCheckout, CheckoutRow, Instant, Deadline
  <2> HIDE DEF fresh
  <2> QED BY <1>3, <2>1 DEF CheckoutRow, Instant, Deadline
<1> HIDE DEF new, q
<1>5. /\ checkout' \in [Checkouts -> CheckoutRow \cup {Nothing}]
      /\ \A k \in Checkouts : checkout[k] # Nothing =>
            checkout'[k] # Nothing /\ checkout'[k].account = checkout[k].account
  BY <1>0, <1>2, <1>4
<1>6. CommerceFollows  BY <1>0, <1>5, DueStays, CheckoutsAreWritten
<1>7. RequestsEnd  BY <1>0, Forgetting DEF RowsInv
<1> QED BY <1>0, <1>6, <1>7, SameRowsAreFair, WritesKeepRows

LEMMA AppliedRows ==
  ASSUME NEW row \in Row, NEW newPlan \in PlanIds, NEW at \in Nat, NEW t
  PROVE  Fair(row, [row EXCEPT !.plan = newPlan, !.subscription = "ACTIVE", !.isTrial = FALSE,
                               !.trialEndsAt = Never, !.periodEnd = at], t)
<1> DEFINE new == [row EXCEPT !.plan = newPlan, !.subscription = "ACTIVE", !.isTrial = FALSE,
                              !.trialEndsAt = Never, !.periodEnd = at]
<1>1. at \in Deadline /\ Never \in Deadline  BY DEF Deadline, Instant
<1>2. new \in Row /\ new.lifecycle = row.lifecycle /\ new.subscription = "ACTIVE"  BY <1>1 DEF Row
<1> HIDE DEF new
<1>3. Fair(row, new, t)  BY <1>2 DEF Fair
<1> QED BY <1>3 DEF new

\* Steps of the jobs, the office and the clock that no request is part of.
LEMMA JobsKeepRows ==
  ASSUME RowsInv, SubscriptionAssumption, ReadDue \/ ApplyDue \/ ToggleCoupon
  PROVE  RowsInv'
<1>0. /\ UNCHANGED <<now, asked, file, supers, ops, payment>> /\ now \in Nat
      /\ account \in [Accounts -> Row] /\ checkout \in [Checkouts -> CheckoutRow \cup {Nothing}]
      /\ coupon \in [active : BOOLEAN, used : Nat, usedBy : SUBSET Accounts]
      /\ due # Nothing => due \in [changes : SUBSET Checkouts, at : Nat]
      /\ RequestsEnd
  BY DEF RowsInv, RecordsAreTyped, ReadDue, ApplyDue, ToggleCoupon, SameTenancy, RequestsEnd
<1>1. CASE ReadDue
  <2> DEFINE found == {k \in UNION {Scheduled(a) : a \in Accounts} : checkout[k].applyAt <= now}
  <2>1. due' = [changes |-> found, at |-> now] /\ UNCHANGED <<account, checkout, coupon>>
    BY <1>1 DEF ReadDue
  <2>2. \A k \in found : k \in Checkouts /\ checkout[k] # Nothing  BY DEF Scheduled, InStatus, OfAccount
  <2> HIDE DEF found
  <2>3. CommerceFollows  BY <1>0, <2>1, <2>2, CheckoutsAreWritten
  <2> QED BY <1>0, <2>1, <2>3, SameRowsAreFair, WritesKeepRows
<1>2. CASE ApplyDue
  <2>1. due # Nothing /\ coupon' = coupon  BY <1>2 DEF ApplyDue
  <2>2. PICK k \in due.changes :
          /\ \/ /\ Exists(checkout[k].account)
                /\ account' = [account EXCEPT ![checkout[k].account] =
                         [account[checkout[k].account] EXCEPT !.plan = checkout[k].plan,
                             !.subscription = "ACTIVE", !.isTrial = FALSE, !.trialEndsAt = Never,
                             !.periodEnd = due.at + Period]]
                /\ checkout' = [checkout EXCEPT ![k].applyAt = Never]
             \/ UNCHANGED <<account, checkout>>
          /\ due' = IF due.changes \ {k} = {} THEN Nothing ELSE [due EXCEPT !.changes = due.changes \ {k}]
    BY <1>2 DEF ApplyDue
  <2>3. k \in Checkouts /\ checkout[k] \in CheckoutRow /\ due \in [changes : SUBSET Checkouts, at : Nat]
        /\ \A l \in due.changes : checkout[l] # Nothing
    BY <1>0, <2>1 DEF RowsInv, DueChangesExist
  <2> DEFINE a == checkout[k].account
             at == due.at + Period
             next == [account[a] EXCEPT !.plan = checkout[k].plan, !.subscription = "ACTIVE",
                                        !.isTrial = FALSE, !.trialEndsAt = Never, !.periodEnd = at]
             new == [checkout[k] EXCEPT !.applyAt = Never]
             rest == [due EXCEPT !.changes = due.changes \ {k}]
  <2>4. a \in Accounts /\ checkout[k].plan \in PlanIds /\ new \in CheckoutRow /\ new.account = a
    <3>1. a \in Accounts /\ checkout[k].plan \in PlanIds  BY <2>3 DEF CheckoutRow
    <3>2. new \in CheckoutRow /\ new.account = a  BY <2>3 DEF CheckoutRow, Deadline
    <3> QED BY <3>1, <3>2
  <2>5. at \in Nat  BY <2>3 DEF SubscriptionAssumption
  <2>6. rest \in [changes : SUBSET Checkouts, at : Nat] /\ rest.changes \subseteq due.changes  BY <2>3
  <2>7. [checkout EXCEPT ![k].applyAt = Never] = [checkout EXCEPT ![k] = new]  BY <1>0, <2>3
  <2>8. Fair(account[a], next, now')
    <3>1. account[a] \in Row  BY <1>0, <2>4
    <3> HIDE DEF a, at
    <3> QED BY <2>4, <2>5, <3>1, AppliedRows
  <2>9. \/ account' = [account EXCEPT ![a] = next] /\ checkout' = [checkout EXCEPT ![k] = new]
        \/ UNCHANGED <<account, checkout>>
    BY <2>2, <2>7
  <2>10. due' = Nothing \/ due' = rest  BY <2>2
  <2> HIDE DEF a, at, next, new, rest
  <2>11. /\ checkout' \in [Checkouts -> CheckoutRow \cup {Nothing}]
         /\ \A l \in Checkouts : checkout[l] # Nothing =>
               checkout'[l] # Nothing /\ checkout'[l].account = checkout[l].account
    BY <1>0, <2>3, <2>4, <2>9 DEF SubscriptionAssumption, a
  <2>12. due' # Nothing => due' \in [changes : SUBSET Checkouts, at : Nat]
                           /\ \A l \in due'.changes : checkout'[l] # Nothing
    BY <2>3, <2>6, <2>10, <2>11
  <2>13. CommerceFollows  BY <1>0, <2>1, <2>11, <2>12, CheckoutsAreWritten
  <2>14. account' \in [Accounts -> Row] /\ \A b \in Accounts : Fair(account[b], account'[b], now')
    BY <2>4, <2>8, <2>9, OneRowIsFair, SameRowsAreFair
  <2> QED BY <1>0, <2>13, <2>14, WritesKeepRows
<1>3. CASE ToggleCoupon
  <2>1. UNCHANGED <<account, checkout, due>> /\ coupon' = [coupon EXCEPT !.active = ~coupon.active]
    BY <1>3 DEF ToggleCoupon
  <2>2. coupon' \in [active : BOOLEAN, used : Nat, usedBy : SUBSET Accounts]
    <3> DEFINE turned == ~coupon.active
    <3>1. turned \in BOOLEAN  OBVIOUS
    <3>2. coupon' = [coupon EXCEPT !.active = turned]  BY <2>1
    <3> HIDE DEF turned
    <3> QED BY <1>0, <3>1, <3>2
  <2>3. CommerceFollows
    BY <1>0, <2>1, <2>2 DEF CommerceFollows, RowsInv, RecordsAreTyped, DueChangesExist, ProofsHaveCheckouts
  <2> QED BY <1>0, <2>1, <2>3, SameRowsAreFair, WritesKeepRows
<1> QED BY <1>1, <1>2, <1>3

LEMMA ExpiryKeepsRows ==
  ASSUME RowsInv, NEW r \in Requests, Expire(r)
  PROVE  RowsInv'
<1> DEFINE q == asked[r]
<1>0. /\ UNCHANGED <<now, file, supers, ops, commerceVars>> /\ Forget(r)
      /\ now \in Nat /\ account \in [Accounts -> Row]
  BY DEF RowsInv, RecordsAreTyped, Expire, SameTenancy
<1>1. /\ q # Nothing /\ q.op = "expire" /\ q.at <= now
      /\ q \in [op : {"expire"}, accounts : SUBSET Accounts, at : Nat]
  BY AskFields DEF RowsInv, Asks, Expire, AsksAreCurrent, Current
<1>2. account' = [a \in Accounts |-> IF a \in q.accounts /\ StillExpired(a, q.at)
                                     THEN [account[a] EXCEPT !.subscription = "EXPIRED"]
                                     ELSE account[a]]
  BY DEF Expire
<1>3. ASSUME NEW a \in Accounts
      PROVE  account'[a] \in Row /\ Fair(account[a], account'[a], now')
  <2> DEFINE new == [account[a] EXCEPT !.subscription = "EXPIRED"]
  <2>1. account[a] \in Row  BY <1>0
  <2>2. /\ new \in Row /\ new.lifecycle = account[a].lifecycle
        /\ new.isTrial = account[a].isTrial /\ new.trialEndsAt = account[a].trialEndsAt
        /\ new.periodEnd = account[a].periodEnd
    BY <2>1 DEF Row
  <2>3. StillExpired(a, q.at) => Ended(account[a], q.at)  BY DEF StillExpired, ExpirySelects, Ended
  <2>4. StillExpired(a, q.at) => Ended(account[a], now')  BY <1>0, <1>1, <2>1, <2>3, EndedStays
  <2>5. Ended(new, now') <=> Ended(account[a], now')  BY <2>2 DEF Ended
  <2>6. account'[a] = account[a] \/ (account'[a] = new /\ StillExpired(a, q.at))  BY <1>2
  <2> HIDE DEF new
  <2> QED BY <2>1, <2>2, <2>4, <2>5, <2>6 DEF Fair
<1>4. account' \in [Accounts -> Row]
  <2>1. account' = [a \in Accounts |-> account'[a]]  BY <1>2
  <2> QED BY <1>3, <2>1
<1> HIDE DEF q
<1>5. CommerceFollows /\ RequestsEnd  BY <1>0, SameCommerce, Forgetting DEF RowsInv
<1> QED BY <1>0, <1>3, <1>4, <1>5, WritesKeepRows

LEMMA TrialsBegin ==
  ASSUME RowsInv, SubscriptionAssumption, NEW a \in Accounts, CreateTrialSubscription(a)
  PROVE  RowsInv'
<1> DEFINE new == [account[a] EXCEPT !.subscription = "ACTIVE", !.plan = FirstPlan, !.isTrial = TRUE,
                                     !.trialEndsAt = now + Trial, !.periodEnd = now + Trial]
<1>0. /\ UNCHANGED <<now, asked, file, supers, ops, commerceVars>>
      /\ now \in Nat /\ account \in [Accounts -> Row] /\ account' = [account EXCEPT ![a] = new]
      /\ RequestsEnd
  BY DEF RowsInv, RecordsAreTyped, CreateTrialSubscription, SameTenancy, RequestsEnd
<1>1. now + Trial \in Nat  BY <1>0 DEF SubscriptionAssumption
<1>2. FirstPlan \in PlanIds  BY DEF SubscriptionAssumption
<1>3. Fair(account[a], new, now')
  <2>1. account[a] \in Row  BY <1>0
  <2>2. new \in Row /\ new.lifecycle = account[a].lifecycle /\ new.subscription = "ACTIVE"
    BY <1>1, <1>2, <2>1 DEF Row, Deadline, Instant
  <2> QED BY <2>2 DEF Fair
<1> HIDE DEF new
<1>4. CommerceFollows  BY <1>0, SameCommerce
<1>5. account' \in [Accounts -> Row] /\ \A b \in Accounts : Fair(account[b], account'[b], now')
  BY <1>0, <1>3, OneRowIsFair
<1>6. now' \in Nat /\ now <= now'  BY <1>0
<1> QED BY <1>0, <1>4, <1>5, <1>6, WritesKeepRows

------------------------
(* The invariant of rows *)

LEMMA InitRowsInv ==
  ASSUME Init
  PROVE  RowsInv
<1>1. SubscriptionAssumption  BY SubscriptionAssumption
<1>2. /\ now = 0 /\ ops \in Mixes /\ file = [a \in Accounts |-> [f \in Files |-> "none"]] /\ supers = Administrators
      /\ asked = [r \in Requests |-> Nothing]
      /\ checkout = [k \in Checkouts |-> Nothing] /\ payment = [p \in Payments |-> Nothing]
      /\ coupon = [active |-> TRUE, used |-> 0, usedBy |-> {}] /\ due = Nothing
  BY DEF Init, LifecycleInit, AccessInit
<1>3. Trial \in Nat /\ Period \in Nat /\ LastPlan \in PlanIds  BY <1>1 DEF SubscriptionAssumption
<1>4. NewRow \in Row /\ NewRow.subscription = "NONE"  BY DEF NewRow, Row, Deadline
<1>5. OnTrial(LastPlan) \in Row /\ OnTrial(LastPlan).subscription = "ACTIVE"
  BY <1>3, <1>4 DEF OnTrial, Row, Deadline, Instant
<1>6. Paid(LastPlan) \in Row /\ Paid(LastPlan).subscription = "ACTIVE"
  BY <1>3, <1>4 DEF Paid, Row, Deadline, Instant
<1>7. Owing(LastPlan) \in Row /\ Owing(LastPlan).subscription = "PENDING_PAYMENT"
  BY <1>6 DEF Owing, Row, Deadline, Instant
<1>8. GoneRow \in Row /\ GoneRow.subscription = "NONE"  BY <1>4 DEF GoneRow, Row
<1>9. InitialRow \in Row /\ InitialRow.subscription # "EXPIRED"
  BY <1>4, <1>5, <1>6, <1>7 DEF InitialRow
<1>10. /\ account \in [Accounts -> Row]
       /\ \A a \in Accounts : account[a].subscription # "EXPIRED"
  <2>1. PICK only \in Accounts :
          account = [a \in Accounts |-> IF "two" \in ops \/ a = only THEN InitialRow ELSE GoneRow]
    BY DEF Init
  <2> QED BY <1>8, <1>9, <2>1
<1>11. coupon \in [active : BOOLEAN, used : Nat, usedBy : SUBSET Accounts]  BY <1>2
<1>12. RecordsAreTyped  BY <1>2, <1>10, <1>11 DEF RecordsAreTyped, Whereabouts
<1>13. AsksAreCurrent /\ DueChangesExist /\ ProofsHaveCheckouts /\ DeletionsAreMarked
  BY <1>2 DEF AsksAreCurrent, DueChangesExist, ProofsHaveCheckouts, DeletionsAreMarked, Asks, Bare
<1> QED BY <1>10, <1>12, <1>13 DEF RowsInv, ExpiredIsPastItsEnd

LEMMA NextRowsInv ==
  ASSUME RowsInv, [Next]_allVars
  PROVE  RowsInv'
<1>0. SubscriptionAssumption /\ now \in Nat  BY SubscriptionAssumption DEF RowsInv, RecordsAreTyped
<1>1. ASSUME UNCHANGED <<tenancyVars, commerceVars>>, now' \in Nat, now <= now'
      PROVE  RowsInv'
  <2>1. UNCHANGED <<account, file, supers, asked, ops>>  BY <1>1 DEF tenancyVars
  <2>2. CommerceFollows /\ RequestsEnd
    BY <1>1, <2>1, SameCommerce DEF RequestsEnd, RowsInv, RecordsAreTyped
  <2> QED BY <1>1, <2>1, <2>2, SameRowsAreFair, WritesKeepRows
<1>2. CASE AccessNext /\ UNCHANGED <<tenancyVars, commerceVars>>
  <2>1. now' = now \/ now' = now + 1
    BY <1>2 DEF AccessNext, Tick, ResolveTenantAccess, CheckSubscriptionExpiry
  <2>2. now' \in Nat /\ now <= now'  BY <1>0, <2>1
  <2> QED BY <1>1, <1>2, <2>2
<1>3. CASE LifecycleStep /\ UNCHANGED <<now, tenant, answer, commerceVars>>  BY <1>3, LifecycleKeepsRows
<1>4. CASE Pass
  <2>1. now' = now + 1 /\ UNCHANGED <<tenancyVars, commerceVars>>  BY <1>4 DEF Pass, Tick
  <2>2. now' \in Nat /\ now <= now'  BY <1>0, <2>1
  <2> QED BY <1>1, <2>1, <2>2
<1>5. CASE UNCHANGED allVars
  <2>1. now' \in Nat /\ now <= now' /\ UNCHANGED <<tenancyVars, commerceVars>>
    BY <1>0, <1>5 DEF allVars
  <2> QED BY <1>1, <2>1
<1>6. ASSUME NEW a \in Accounts, CreateTrialSubscription(a) \/ CancelPendingPlanChange(a)
      PROVE  RowsInv'
  BY <1>0, <1>6, TrialsBegin, PlansAreChanged
<1>7. ASSUME NEW r \in Requests, AskPlan(r) \/ ChangePlan(r) \/ AskProof(r) \/ SubmitPaymentProof(r)
      PROVE  RowsInv'
  BY <1>0, <1>7, TenantsAsk, PlansAreChanged, ProofsAreSubmitted
<1>8. ASSUME NEW r \in Requests, AskReview(r) \/ ApprovePaymentProof(r) \/ RejectPaymentProof(r)
      PROVE  RowsInv'
  BY <1>0, <1>8, TenantsAsk, ProofsAreApproved, ProofsAreRejected
<1>9. ASSUME NEW r \in Requests,
             AskGrant(r) \/ GrantManualPayment(r) \/ AskRefund(r) \/ RefundBillingRecord(r)
      PROVE  RowsInv'
  BY <1>0, <1>9, TheOfficeAsks, PaymentsAreGranted, PaymentsAreRefunded
<1>10. ASSUME NEW r \in Requests, AskSwitch(r) \/ Switch(r)
       PROVE  RowsInv'
  BY <1>0, <1>10, TheOfficeAsks, SwitchesAreWritten
<1>11. ASSUME NEW r \in Requests, AskDowngrade(r) \/ ScheduleTenantDowngrade(r)
       PROVE  RowsInv'
  BY <1>0, <1>11, TheOfficeAsks, DowngradesAreScheduled
<1>12. ASSUME NEW a \in Accounts, CancelScheduledChange(a)
       PROVE  RowsInv'
  BY <1>0, <1>12, PlansAreChanged
<1>13. CASE ReadDue \/ ApplyDue \/ ToggleCoupon  BY <1>0, <1>13, JobsKeepRows
<1>14. ASSUME NEW r \in Requests, ReadExpired(r) \/ Expire(r)
       PROVE  RowsInv'
  BY <1>14, TheOfficeAsks, ExpiryKeepsRows
<1> QED BY <1>2, <1>3, <1>4, <1>5, <1>6, <1>7, <1>8, <1>9, <1>10, <1>11, <1>12, <1>13, <1>14 DEF Next

LEMMA RowsInvHolds == Spec => []RowsInv
BY InitRowsInv, NextRowsInv, PTL DEF Spec

\* Nobody whose access is checked uploads behind a deletion's last purge, for any number of
\* attempts that fail, die, overlap and are retried (hardDeleteTenant).
THEOREM GoneLeavesNothing == Spec => []GoneLeavesNoFiles
<1>1. RowsInv => GoneLeavesNoFiles  BY DEF RowsInv, DeletionsAreMarked, GoneLeavesNoFiles
<1> QED BY <1>1, RowsInvHolds, PTL

\* A subscription that is EXPIRED is past its end, whatever was renewed, switched, refunded or
\* granted between the job's selection and its write (runSubscriptionExpiryJob).
THEOREM ExpiredHadEnded == Spec => []ExpiredIsPastItsEnd
<1>1. RowsInv => ExpiredIsPastItsEnd  BY DEF RowsInv
<1> QED BY <1>1, RowsInvHolds, PTL

------------------------
(* Checkouts, their proofs of payment, and the coupon *)

\* What checkouts, payments and the coupon have to do with each other.  The converse of
\* ProofsAreOfCheckouts, CheckoutsAreBacked, is lost when a payment is refunded.
OneIsOpen ==
    \A k, l \in Checkouts :
        /\ checkout[k] # Nothing /\ checkout[l] # Nothing /\ checkout[k].account = checkout[l].account
        /\ checkout[k].status \in Unresolved /\ checkout[l].status \in Unresolved
        => k = l

AdministratorsDoNotPay ==
    \A k \in Checkouts : checkout[k] # Nothing /\ checkout[k].administrative =>
        checkout[k].status \in {"APPROVED", "CANCELLED"} /\ checkout[k].coupon = Nothing

AsksAreForTenants ==
    \A r \in Requests : Asks(r, "submitProof") /\ asked[r].checkout # Nothing =>
        ~checkout[asked[r].checkout].administrative

ProofsAreOfCheckouts ==
    \A p \in Payments : payment[p] # Nothing /\ payment[p].checkout # Nothing =>
        LET row == checkout[payment[p].checkout]
        IN  /\ ~row.administrative
            /\ payment[p].status = "PENDING" => row.status = "UNDER_REVIEW"
            /\ payment[p].status = "PAID" => row.status = "APPROVED"

ProofsAreSingle ==
    \A p, q \in Payments :
        /\ payment[p] # Nothing /\ payment[q] # Nothing /\ payment[p].checkout # Nothing
        /\ payment[p].checkout = payment[q].checkout
        /\ payment[p].status = payment[q].status /\ payment[p].status \in {"PENDING", "PAID"}
        => p = q

Backed(k, status) ==
    \E p \in Payments : payment[p] # Nothing /\ payment[p].checkout = k /\ payment[p].status = status

CheckoutsAreBacked ==
    "refund" \notin ops =>
        \A k \in Checkouts : checkout[k] # Nothing /\ ~checkout[k].administrative =>
            /\ checkout[k].status = "UNDER_REVIEW" => Backed(k, "PENDING")
            /\ checkout[k].status = "APPROVED" => Backed(k, "PAID")

Known == {k \in Checkouts : checkout[k] # Nothing}

CouponIsShared ==
    /\ IsFiniteSet(Known) /\ IsFiniteSet(coupon.usedBy)
    /\ coupon.used = Cardinality(coupon.usedBy)
    /\ coupon.used + Cardinality(Reserving(checkout, now)) <= MaxUses

MatchInv ==
    /\ OneIsOpen
    /\ AdministratorsDoNotPay
    /\ AsksAreForTenants
    /\ ProofsAreOfCheckouts
    /\ ProofsAreSingle
    /\ CheckoutsAreBacked
    /\ CouponIsShared

\* What may happen to a checkout while no payment for it is decided.
Kept(row, new) ==
    /\ new # Nothing
    /\ new.account = row.account /\ new.administrative = row.administrative /\ new.coupon = row.coupon
    /\ \/ new.status = row.status /\ new.expiresAt = row.expiresAt
       \/ row.status \in Payable /\ new.status = "CANCELLED"
       \/ row.administrative /\ row.status = "APPROVED" /\ new.status = "CANCELLED"

CheckoutsAreKept ==
    \A k \in Checkouts : IF checkout[k] = Nothing THEN checkout'[k] = Nothing
                         ELSE Kept(checkout[k], checkout'[k])

\* Reservations run out as the clock goes on, and end as checkouts are cancelled.
LEMMA ReservationsRunOut ==
  ASSUME RowsInv, NEW rows, NEW a \in Nat, NEW b \in Nat, a <= b,
         \A k \in Checkouts : rows[k] # Nothing =>
            /\ rows[k].expiresAt \in Nat
            /\ checkout[k] # Nothing /\ rows[k].coupon = checkout[k].coupon
            /\ \/ rows[k].status = checkout[k].status /\ rows[k].expiresAt = checkout[k].expiresAt
               \/ rows[k].status \in {"APPROVED", "CANCELLED"}
  PROVE  Reserving(rows, b) \subseteq Reserving(checkout, a)
<1> SUFFICES ASSUME NEW k \in Checkouts, k \in Reserving(rows, b)
             PROVE  k \in Reserving(checkout, a)
  BY DEF Reserving
<1>1. /\ rows[k] # Nothing /\ rows[k].coupon # Nothing
      /\ \/ rows[k].status = "UNDER_REVIEW"
         \/ rows[k].status \in Payable /\ rows[k].expiresAt > b
  BY DEF Reserving
<1>2. rows[k].status = checkout[k].status /\ rows[k].expiresAt = checkout[k].expiresAt
      /\ checkout[k] # Nothing /\ rows[k].coupon = checkout[k].coupon /\ rows[k].expiresAt \in Nat
  BY <1>1 DEF Payable
<1> QED BY <1>1, <1>2 DEF Reserving

\* Fewer reservations, and at most one more checkout, and the coupon is shared as before.
LEMMA SharingGoesOn ==
  ASSUME CouponIsShared, SubscriptionAssumption, RowsInv,
         coupon'.usedBy = coupon.usedBy, coupon'.used = coupon.used,
         NEW k, Known' \subseteq Known \cup {k},
         Reserving(checkout', now') \subseteq Reserving(checkout, now)
  PROVE  CouponIsShared'
<1>1. IsFiniteSet(Known')
  <2>1. IsFiniteSet(Known \cup {k})  BY FS_AddElement DEF CouponIsShared
  <2> QED BY <2>1, FS_Subset
<1>2. IsFiniteSet(Reserving(checkout, now))
  <2>1. Reserving(checkout, now) \subseteq Known  BY DEF Reserving, Known
  <2> QED BY <2>1, FS_Subset DEF CouponIsShared
<1>3. /\ Cardinality(Reserving(checkout', now')) \in Nat /\ Cardinality(Reserving(checkout, now)) \in Nat
      /\ Cardinality(Reserving(checkout', now')) <= Cardinality(Reserving(checkout, now))
  BY <1>2, FS_Subset, FS_CardinalityType
<1>4. coupon.used \in Nat /\ MaxUses \in Nat  BY DEF RowsInv, RecordsAreTyped, SubscriptionAssumption
<1>5. Reserving(checkout, now)' = Reserving(checkout', now')  BY DEF Reserving
<1> QED BY <1>1, <1>3, <1>4, <1>5 DEF CouponIsShared

LEMMA CheckoutsKeepMatch ==
  ASSUME RowsInv, RowsInv', MatchInv, ops' = ops, payment' = payment, CouponIsShared',
         \A s \in Requests : asked'[s] # Nothing /\ asked'[s].op = "submitProof" =>
            \/ asked'[s] = asked[s]
            \/ asked'[s].checkout # Nothing => /\ asked'[s].checkout \in Checkouts
                                               /\ checkout[asked'[s].checkout] # Nothing
                                               /\ ~checkout[asked'[s].checkout].administrative,
         \A k \in Checkouts : checkout[k] # Nothing => Kept(checkout[k], checkout'[k]),
         \A k \in Checkouts : checkout[k] = Nothing /\ checkout'[k] # Nothing =>
            \/ /\ checkout'[k].administrative /\ checkout'[k].coupon = Nothing
               /\ checkout'[k].status = "APPROVED"
            \/ /\ ~checkout'[k].administrative /\ checkout'[k].status = "AWAITING_PAYMENT"
               /\ \A l \in Checkouts \ {k} :
                    checkout'[l] # Nothing /\ checkout'[l].account = checkout'[k].account =>
                        checkout'[l].status \notin Unresolved
  PROVE  MatchInv'
<1>1. \A k \in Checkouts : checkout[k] # Nothing => checkout[k] \in CheckoutRow
  BY DEF RowsInv, RecordsAreTyped
<1>2. OneIsOpen'
  <2> SUFFICES ASSUME NEW k \in Checkouts, NEW l \in Checkouts, checkout'[k] # Nothing,
                      checkout'[l] # Nothing, checkout'[k].account = checkout'[l].account,
                      checkout'[k].status \in Unresolved, checkout'[l].status \in Unresolved
               PROVE  k = l
    BY DEF OneIsOpen, Unresolved
  <2>1. checkout[k] = Nothing => k = l  BY DEF Unresolved
  <2>2. checkout[l] = Nothing => k = l  BY DEF Unresolved
  <2>3. ASSUME checkout[k] # Nothing, checkout[l] # Nothing
        PROVE  k = l
    <3>1. /\ checkout[k].account = checkout'[k].account /\ checkout[k].status = checkout'[k].status
          /\ checkout[l].account = checkout'[l].account /\ checkout[l].status = checkout'[l].status
      BY <2>3 DEF Kept, Unresolved, Payable
    <3> QED BY <2>3, <3>1 DEF MatchInv, OneIsOpen
  <2> QED BY <2>1, <2>2, <2>3
<1>3. AdministratorsDoNotPay'
  <2> SUFFICES ASSUME NEW k \in Checkouts, checkout'[k] # Nothing, checkout'[k].administrative
               PROVE  checkout'[k].status \in {"APPROVED", "CANCELLED"} /\ checkout'[k].coupon = Nothing
    BY DEF AdministratorsDoNotPay
  <2>1. CASE checkout[k] = Nothing  BY <2>1
  <2>2. CASE checkout[k] # Nothing  BY <2>2 DEF Kept, Payable, MatchInv, AdministratorsDoNotPay
  <2> QED BY <2>1, <2>2
<1>4. AsksAreForTenants'
  <2> SUFFICES ASSUME NEW s \in Requests, asked'[s] # Nothing, asked'[s].op = "submitProof",
                      asked'[s].checkout # Nothing
               PROVE  ~checkout'[asked'[s].checkout].administrative
    BY DEF AsksAreForTenants, Asks
  <2>1. CASE asked'[s] = asked[s]
    <3>1. asked[s].checkout \in Checkouts /\ checkout[asked[s].checkout] # Nothing
      BY <2>1, AskFields DEF RowsInv, AsksAreCurrent, Current
    <3>2. ~checkout[asked[s].checkout].administrative  BY <2>1 DEF MatchInv, AsksAreForTenants, Asks
    <3> QED BY <2>1, <3>1, <3>2 DEF Kept
  <2>2. CASE asked'[s] # asked[s]  BY <2>2 DEF Kept
  <2> QED BY <2>1, <2>2
<1>5. ProofsAreOfCheckouts'
  <2> SUFFICES ASSUME NEW p \in Payments, payment[p] # Nothing, payment[p].checkout # Nothing
               PROVE  /\ ~checkout'[payment[p].checkout].administrative
                      /\ payment[p].status = "PENDING" => checkout'[payment[p].checkout].status = "UNDER_REVIEW"
                      /\ payment[p].status = "PAID" => checkout'[payment[p].checkout].status = "APPROVED"
    BY DEF ProofsAreOfCheckouts
  <2>1. payment[p].checkout \in Checkouts /\ checkout[payment[p].checkout] # Nothing
    BY DEF RowsInv, RecordsAreTyped, ProofsHaveCheckouts, PaymentRow
  <2>2. /\ ~checkout[payment[p].checkout].administrative
        /\ payment[p].status = "PENDING" => checkout[payment[p].checkout].status = "UNDER_REVIEW"
        /\ payment[p].status = "PAID" => checkout[payment[p].checkout].status = "APPROVED"
    BY DEF MatchInv, ProofsAreOfCheckouts
  <2> QED BY <2>1, <2>2 DEF Kept, Payable
<1>6. ProofsAreSingle'  BY DEF MatchInv, ProofsAreSingle
<1>7. CheckoutsAreBacked'
  <2> SUFFICES ASSUME "refund" \notin ops, NEW k \in Checkouts, checkout'[k] # Nothing,
                      ~checkout'[k].administrative
               PROVE  /\ checkout'[k].status = "UNDER_REVIEW" => Backed(k, "PENDING")
                      /\ checkout'[k].status = "APPROVED" => Backed(k, "PAID")
    BY DEF CheckoutsAreBacked, Backed
  <2>1. CASE checkout[k] = Nothing  BY <2>1
  <2>2. CASE checkout[k] # Nothing
    <3>1. ~checkout[k].administrative  BY <2>2 DEF Kept
    <3>2. checkout'[k].status \in {"UNDER_REVIEW", "APPROVED"} => checkout'[k].status = checkout[k].status
      BY <2>2 DEF Kept
    <3> QED BY <2>2, <3>1, <3>2 DEF MatchInv, CheckoutsAreBacked
  <2> QED BY <2>1, <2>2
<1> QED BY <1>2, <1>3, <1>4, <1>5, <1>6, <1>7 DEF MatchInv

\* Steps that leave checkouts and payments alone.
LEMMA OthersKeepMatch ==
  ASSUME RowsInv, RowsInv', MatchInv, SubscriptionAssumption, UNCHANGED <<checkout, payment, ops>>,
         coupon'.used = coupon.used, coupon'.usedBy = coupon.usedBy, now <= now',
         \A s \in Requests : asked'[s] # Nothing /\ asked'[s].op = "submitProof" =>
            \/ asked'[s] = asked[s]
            \/ asked'[s].checkout # Nothing => /\ asked'[s].checkout \in Checkouts
                                               /\ checkout[asked'[s].checkout] # Nothing
                                               /\ ~checkout[asked'[s].checkout].administrative
  PROVE  MatchInv'
<1>1. \A k \in Checkouts : checkout[k] # Nothing => checkout[k].expiresAt \in Nat
  BY DEF RowsInv, RecordsAreTyped, CheckoutRow, Instant
<1>2. now \in Nat /\ now' \in Nat  BY DEF RowsInv, RecordsAreTyped
<1>3. Reserving(checkout, now') \subseteq Reserving(checkout, now)  BY <1>1, <1>2, ReservationsRunOut
<1>4. Reserving(checkout', now') \subseteq Reserving(checkout, now)  BY <1>3
<1>5. Known' \subseteq Known \cup {Nothing}  BY DEF Known
<1>6. CouponIsShared'  BY <1>4, <1>5, SharingGoesOn DEF MatchInv
<1>7. \A k \in Checkouts : checkout[k] # Nothing => Kept(checkout[k], checkout'[k])  BY DEF Kept
<1> QED BY <1>6, <1>7, CheckoutsKeepMatch

\* Checkouts are cancelled, or loose their date: there is no new one.
LEMMA CancelledCheckoutsKeepMatch ==
  ASSUME RowsInv, RowsInv', MatchInv, SubscriptionAssumption, ops' = ops, now' = now,
         payment' = payment, coupon' = coupon,
         \A s \in Requests : asked'[s] \in {asked[s], Nothing},
         \A k \in Checkouts : IF checkout[k] = Nothing THEN checkout'[k] = Nothing
                              ELSE Kept(checkout[k], checkout'[k])
  PROVE  MatchInv'
<1>1. \A k \in Checkouts : checkout'[k] # Nothing => checkout'[k].expiresAt \in Nat
  BY DEF RowsInv, RecordsAreTyped, CheckoutRow, Instant
<1>2. now \in Nat  BY DEF RowsInv, RecordsAreTyped
<1> DEFINE rows == checkout'
<1>3. \A k \in Checkouts : rows[k] # Nothing =>
        /\ rows[k].expiresAt \in Nat
        /\ checkout[k] # Nothing /\ rows[k].coupon = checkout[k].coupon
        /\ \/ rows[k].status = checkout[k].status /\ rows[k].expiresAt = checkout[k].expiresAt
           \/ rows[k].status \in {"APPROVED", "CANCELLED"}
  BY <1>1 DEF Kept
<1> HIDE DEF rows
<1>4. Reserving(rows, now) \subseteq Reserving(checkout, now)  BY <1>2, <1>3, ReservationsRunOut
<1>5. Reserving(checkout', now') \subseteq Reserving(checkout, now)  BY <1>4 DEF rows
<1>6. Known' \subseteq Known \cup {Nothing}  BY DEF Known
<1>7. CouponIsShared'  BY <1>5, <1>6, SharingGoesOn DEF MatchInv
<1> QED BY <1>7, CheckoutsKeepMatch

LEMMA CancelledAreKept ==
  ASSUME RowsInv, SubscriptionAssumption, NEW ks,
         \A k \in ks : k \in Checkouts =>
            /\ checkout[k] # Nothing
            /\ \/ checkout[k].status \in Payable
               \/ checkout[k].administrative /\ checkout[k].status = "APPROVED"
  PROVE  \A k \in Checkouts : IF checkout[k] = Nothing THEN Cancelled(ks)[k] = Nothing
                              ELSE Kept(checkout[k], Cancelled(ks)[k])
<1>1. \A k \in ks : k \in Checkouts => checkout[k] # Nothing  OBVIOUS
<1>2. \A k \in Checkouts :
        /\ checkout[k] = Nothing <=> Cancelled(ks)[k] = Nothing
        /\ k \notin ks => Cancelled(ks)[k] = checkout[k]
        /\ k \in ks => /\ Cancelled(ks)[k].status = "CANCELLED"
                       /\ Cancelled(ks)[k].account = checkout[k].account
                       /\ Cancelled(ks)[k].coupon = checkout[k].coupon
                       /\ Cancelled(ks)[k].administrative = checkout[k].administrative
  BY <1>1, CheckoutsAreCancelled
<1> QED BY <1>2 DEF Kept

LEMMA OpenCheckouts ==
  ASSUME NEW a, NEW statuses, NEW k \in InStatus(a, statuses)
  PROVE  /\ k \in Checkouts /\ checkout[k] # Nothing /\ checkout[k].account = a
         /\ checkout[k].status \in statuses
BY DEF InStatus, OfAccount

\* A new checkout takes the place of the open one, and its reservation is counted before.
LEMMA ChangedPlansKeepMatch ==
  ASSUME RowsInv, RowsInv', MatchInv, SubscriptionAssumption, NEW r \in Requests, ChangePlan(r)
  PROVE  MatchInv'
<1> DEFINE q == asked[r]
           expired == {k \in InStatus(q.account, Payable) : checkout[k].expiresAt <= q.at}
           open == InStatus(q.account, Unresolved) \ expired
           cleared == Cancelled(expired \cup open)
           new == NewCheckout(q.account, q.plan, q.coupon, "AWAITING_PAYMENT", q.at + CheckoutTtl)
<1>0. /\ UNCHANGED <<now, ops, payment, coupon>> /\ Forget(r) /\ now \in Nat
      /\ checkout \in [Checkouts -> CheckoutRow \cup {Nothing}]
      /\ asked \in [Requests -> Ask \cup {Nothing}]
  BY DEF RowsInv, RecordsAreTyped, ChangePlan, SameTenancy
<1>1. \A s \in Requests : asked'[s] \in {asked[s], Nothing}  BY <1>0 DEF Forget
<1>2. /\ q # Nothing /\ q.op = "changePlan" /\ q.at <= now
      /\ q \in [op : {"changePlan"}, account : Accounts, plan : PlanIds,
                coupon : {Nothing, "coupon"}, at : Nat]
  BY AskFields DEF RowsInv, Asks, ChangePlan, AsksAreCurrent, Current
<1>3. \/ checkout' = checkout
      \/ checkout' = Cancelled(expired)
      \/ /\ InStatus(q.account, {"UNDER_REVIEW"}) = {} /\ CouponAllows(q, cleared)
         /\ \E k \in Checkouts : checkout[k] = Nothing /\ checkout' = [cleared EXCEPT ![k] = new]
  BY DEF ChangePlan
<1>4. \A k \in expired : k \in Checkouts =>
        /\ checkout[k] # Nothing
        /\ \/ checkout[k].status \in Payable
           \/ checkout[k].administrative /\ checkout[k].status = "APPROVED"
  BY OpenCheckouts
<1>5. new \in CheckoutRow /\ new.account = q.account /\ new.status = "AWAITING_PAYMENT"
      /\ new.coupon = q.coupon /\ ~new.administrative
  <2>1. q.at + CheckoutTtl \in Nat  BY <1>2 DEF SubscriptionAssumption
  <2> QED BY <1>2, <2>1 DEF NewCheckout, CheckoutRow, Instant, Deadline
<1>6. CASE checkout' = checkout
  <2>1. \A k \in Checkouts : IF checkout[k] = Nothing THEN checkout'[k] = Nothing
                             ELSE Kept(checkout[k], checkout'[k])
    BY <1>6 DEF Kept
  <2> QED BY <1>0, <1>1, <2>1, CancelledCheckoutsKeepMatch
<1>7. CASE checkout' = Cancelled(expired)
  <2>1. \A k \in Checkouts : IF checkout[k] = Nothing THEN Cancelled(expired)[k] = Nothing
                             ELSE Kept(checkout[k], Cancelled(expired)[k])
    BY <1>4, CancelledAreKept
  <2> QED BY <1>0, <1>1, <1>7, <2>1, CancelledCheckoutsKeepMatch
<1>8. ASSUME InStatus(q.account, {"UNDER_REVIEW"}) = {}, CouponAllows(q, cleared),
             NEW k \in Checkouts, checkout[k] = Nothing, checkout' = [cleared EXCEPT ![k] = new]
      PROVE  MatchInv'
  <2>1. \A l \in expired \cup open : l \in Checkouts =>
          /\ checkout[l] # Nothing
          /\ \/ checkout[l].status \in Payable
             \/ checkout[l].administrative /\ checkout[l].status = "APPROVED"
    <3>1. ASSUME NEW l \in open
          PROVE  l \in Checkouts /\ checkout[l] # Nothing /\ checkout[l].status \in Payable
      <4>1. l \in InStatus(q.account, Unresolved) /\ l \notin InStatus(q.account, {"UNDER_REVIEW"})
        BY <1>8
      <4>2. l \in Checkouts /\ checkout[l] # Nothing /\ checkout[l].account = q.account
            /\ checkout[l].status \in Unresolved
        BY <4>1, OpenCheckouts
      <4>3. checkout[l].status # "UNDER_REVIEW"  BY <4>1, <4>2 DEF InStatus, OfAccount
      <4> QED BY <4>2, <4>3 DEF Unresolved, Payable
    <3> HIDE DEF expired, open
    <3> QED BY <1>4, <3>1
  <2>2. \A l \in Checkouts : IF checkout[l] = Nothing THEN cleared[l] = Nothing
                             ELSE Kept(checkout[l], cleared[l])
    BY <2>1, CancelledAreKept
  <2>3. \A l \in expired \cup open : l \in Checkouts => checkout[l] # Nothing  BY <2>1
  <2>4. /\ cleared \in [Checkouts -> CheckoutRow \cup {Nothing}]
        /\ \A l \in expired \cup open : l \in Checkouts => cleared[l].status = "CANCELLED"
        /\ \A l \in Checkouts \ (expired \cup open) : cleared[l] = checkout[l]
    BY <2>3, CheckoutsAreCancelled
  <2>5. \A l \in Checkouts : checkout[l] # Nothing /\ checkout[l].account = q.account
          /\ checkout[l].status \in Unresolved => l \in expired \cup open
    BY DEF InStatus, OfAccount
  <2> HIDE DEF new, cleared, expired, open
  <2>6. checkout'[k] = new /\ \A l \in Checkouts \ {k} : checkout'[l] = cleared[l]  BY <1>8, <2>4
  <2>7. \A l \in Checkouts : checkout[l] # Nothing => Kept(checkout[l], checkout'[l])
    BY <1>8, <2>2, <2>6
  <2>8. \A l \in Checkouts \ {k} :
          checkout'[l] # Nothing /\ checkout'[l].account = q.account => checkout'[l].status \notin Unresolved
    <3> SUFFICES ASSUME NEW l \in Checkouts \ {k}, cleared[l] # Nothing, cleared[l].account = q.account
                 PROVE  cleared[l].status \notin Unresolved
      BY <2>6
    <3>1. checkout[l] # Nothing /\ checkout[l].account = q.account  BY <2>2 DEF Kept
    <3>2. l \in expired \cup open => cleared[l].status = "CANCELLED"  BY <2>4
    <3>3. l \notin expired \cup open => cleared[l] = checkout[l]  BY <2>4
    <3> QED BY <2>5, <3>1, <3>2, <3>3 DEF Unresolved
  <2>9. CouponIsShared'
    <3> DEFINE before == Reserving(cleared, q.at)
               after == Reserving(checkout', now')
    <3>1. \A l \in Checkouts : cleared[l] # Nothing =>
            /\ cleared[l].expiresAt \in Nat
            /\ checkout[l] # Nothing /\ cleared[l].coupon = checkout[l].coupon
            /\ \/ cleared[l].status = checkout[l].status /\ cleared[l].expiresAt = checkout[l].expiresAt
               \/ cleared[l].status \in {"APPROVED", "CANCELLED"}
      BY <2>2, <2>4 DEF Kept, CheckoutRow, Instant
    <3>2. Reserving(cleared, now) \subseteq Reserving(checkout, now)  BY <1>0, <3>1, ReservationsRunOut
    <3>3. Reserving(cleared, now) \subseteq before
      <4>1. q.at \in Nat /\ q.at <= now /\ now \in Nat  BY <1>0, <1>2
      <4> QED BY <3>1, <4>1 DEF Reserving
    <3>4. after \subseteq Reserving(cleared, now) \cup {k}  BY <1>0, <2>6 DEF Reserving
    <3>5. q.coupon = Nothing => k \notin after  BY <1>5, <2>6 DEF Reserving
    <3>6. CASE q.coupon = Nothing
      <4>1. after \subseteq Reserving(checkout, now)  BY <3>2, <3>4, <3>5, <3>6
      <4>2. Known' \subseteq Known \cup {k}  BY <2>2, <2>6 DEF Known
      <4> QED BY <1>0, <4>1, <4>2, SharingGoesOn DEF MatchInv
    <3>7. CASE q.coupon # Nothing
      <4>1. IsFiniteSet(Known) /\ IsFiniteSet(coupon.usedBy) /\ coupon.used = Cardinality(coupon.usedBy)
        BY DEF MatchInv, CouponIsShared
      <4>2. Known' \subseteq Known \cup {k}  BY <2>2, <2>6 DEF Known
      <4>3. IsFiniteSet(Known')
        <5>1. IsFiniteSet(Known \cup {k})  BY <4>1, FS_AddElement
        <5> QED BY <4>2, <5>1, FS_Subset
      <4>4. before \subseteq Known  BY <2>2 DEF Reserving, Known
      <4>5. IsFiniteSet(before)  BY <4>1, <4>4, FS_Subset
      <4>6. k \notin before  BY <1>8, <2>2 DEF Reserving
      <4> HIDE DEF before, after
      <4>7. Cardinality(before \cup {k}) = Cardinality(before) + 1 /\ IsFiniteSet(before \cup {k})
        BY <4>5, <4>6, FS_AddElement
      <4>8. Cardinality(after) <= Cardinality(before \cup {k})  BY <3>3, <3>4, <4>7, FS_Subset
      <4>9. coupon.used + Cardinality(before) < MaxUses  BY <1>8, <3>7 DEF CouponAllows, before
      <4>10. /\ Cardinality(before) \in Nat /\ coupon.used \in Nat /\ MaxUses \in Nat
        BY <4>5, FS_CardinalityType DEF RowsInv, RecordsAreTyped, SubscriptionAssumption
      <4>11. after \subseteq before \cup {k}  BY <3>3, <3>4
      <4>12. IsFiniteSet(after) /\ Cardinality(after) \in Nat
        BY <4>7, <4>11, FS_Subset, FS_CardinalityType
      <4>13. coupon.used + Cardinality(after) <= MaxUses  BY <4>7, <4>8, <4>9, <4>10, <4>12
      <4> QED BY <1>0, <4>1, <4>3, <4>13 DEF CouponIsShared, after
    <3> QED BY <3>6, <3>7
  <2>10. \A l \in Checkouts : checkout[l] = Nothing /\ checkout'[l] # Nothing =>
            /\ ~checkout'[l].administrative /\ checkout'[l].status = "AWAITING_PAYMENT"
            /\ \A m \in Checkouts \ {l} :
                 checkout'[m] # Nothing /\ checkout'[m].account = checkout'[l].account =>
                     checkout'[m].status \notin Unresolved
    BY <1>5, <2>2, <2>6, <2>8
  <2> QED BY <1>0, <1>1, <2>7, <2>9, <2>10, CheckoutsKeepMatch
<1> QED BY <1>3, <1>6, <1>7, <1>8

LEMMA ScheduledCheckouts ==
  ASSUME NEW a, NEW k \in Scheduled(a)
  PROVE  /\ k \in Checkouts /\ checkout[k] # Nothing /\ checkout[k].account = a
         /\ checkout[k].status = "APPROVED" /\ checkout[k].administrative
BY DEF Scheduled, InStatus, OfAccount

LEMMA CancellationsKeepMatch ==
  ASSUME RowsInv, RowsInv', MatchInv, SubscriptionAssumption,
         \/ \E a \in Accounts : CancelPendingPlanChange(a) \/ CancelScheduledChange(a)
         \/ \E r \in Requests : Switch(r)
         \/ ApplyDue
  PROVE  MatchInv'
<1>0. /\ checkout \in [Checkouts -> CheckoutRow \cup {Nothing}] /\ checkout' = [k \in Checkouts |-> checkout'[k]]
      /\ asked \in [Requests -> Ask \cup {Nothing}]
  BY DEF RowsInv, RecordsAreTyped
<1>1. UNCHANGED <<now, ops, payment, coupon>> /\ \A s \in Requests : asked'[s] \in {asked[s], Nothing}
  BY <1>0 DEF CancelPendingPlanChange, CancelScheduledChange, Switch, ApplyDue, SameTenancy, Forget
<1>2. CheckoutsAreKept
  <2>1. ASSUME NEW a \in Accounts, CancelPendingPlanChange(a)
        PROVE  CheckoutsAreKept
    <3>1. PICK k \in InStatus(a, Payable) : checkout' = Cancelled({k})
      BY <2>1 DEF CancelPendingPlanChange
    <3>2. \A l \in {k} : l \in Checkouts =>
            /\ checkout[l] # Nothing
            /\ \/ checkout[l].status \in Payable
               \/ checkout[l].administrative /\ checkout[l].status = "APPROVED"
      BY OpenCheckouts
    <3> QED BY <3>1, <3>2, CancelledAreKept DEF CheckoutsAreKept
  <2>2. ASSUME NEW a \in Accounts, CancelScheduledChange(a)
        PROVE  CheckoutsAreKept
    <3>1. PICK k \in Scheduled(a) :
            checkout' = [checkout EXCEPT ![k].status = "CANCELLED", ![k].applyAt = Never]
      BY <2>2 DEF CancelScheduledChange
    <3>2. k \in Checkouts /\ checkout[k] \in CheckoutRow /\ checkout[k].administrative
          /\ checkout[k].status = "APPROVED" /\ checkout[k] # Nothing
      BY <1>0, <3>1, ScheduledCheckouts
    <3> DEFINE new == [checkout[k] EXCEPT !.status = "CANCELLED", !.applyAt = Never]
    <3>3. new.account = checkout[k].account /\ new.administrative = checkout[k].administrative
          /\ new.coupon = checkout[k].coupon /\ new.status = "CANCELLED" /\ new \in CheckoutRow
      BY <3>2 DEF CheckoutRow, Deadline
    <3>4. checkout' = [checkout EXCEPT ![k] = new]  BY <1>0, <3>1, <3>2
    <3> HIDE DEF new
    <3>5. Kept(checkout[k], new)  BY <3>2, <3>3 DEF Kept, SubscriptionAssumption
    <3> QED BY <1>0, <3>2, <3>4, <3>5 DEF Kept, CheckoutsAreKept
  <2>3. ASSUME NEW r \in Requests, Switch(r)
        PROVE  CheckoutsAreKept
    <3>1. checkout' = Cancelled(Scheduled(asked[r].account)) \/ checkout' = checkout  BY <2>3 DEF Switch
    <3>2. \A l \in Scheduled(asked[r].account) : l \in Checkouts =>
            /\ checkout[l] # Nothing
            /\ \/ checkout[l].status \in Payable
               \/ checkout[l].administrative /\ checkout[l].status = "APPROVED"
      BY ScheduledCheckouts
    <3>3. CASE checkout' = checkout  BY <3>3 DEF Kept, CheckoutsAreKept
    <3>4. CASE checkout' = Cancelled(Scheduled(asked[r].account))
      BY <3>2, <3>4, CancelledAreKept DEF CheckoutsAreKept
    <3> QED BY <3>1, <3>3, <3>4
  <2>4. ASSUME ApplyDue
        PROVE  CheckoutsAreKept
    <3>1. PICK k \in due.changes : checkout' = [checkout EXCEPT ![k].applyAt = Never] \/ checkout' = checkout
      BY <2>4 DEF ApplyDue
    <3>2. k \in Checkouts /\ checkout[k] \in CheckoutRow /\ checkout[k] # Nothing
      BY <1>0, <2>4 DEF RowsInv, RecordsAreTyped, DueChangesExist, ApplyDue
    <3> DEFINE new == [checkout[k] EXCEPT !.applyAt = Never]
    <3>3. new.account = checkout[k].account /\ new.administrative = checkout[k].administrative
          /\ new.coupon = checkout[k].coupon /\ new.status = checkout[k].status
          /\ new.expiresAt = checkout[k].expiresAt /\ new \in CheckoutRow
      BY <3>2 DEF CheckoutRow, Deadline
    <3>4. checkout' = [checkout EXCEPT ![k] = new] \/ checkout' = checkout  BY <1>0, <3>1, <3>2
    <3> HIDE DEF new
    <3>5. Kept(checkout[k], new)  BY <3>2, <3>3 DEF Kept, SubscriptionAssumption
    <3> QED BY <1>0, <3>2, <3>4, <3>5 DEF Kept, CheckoutsAreKept
  <2> QED BY <2>1, <2>2, <2>3, <2>4
<1> QED BY <1>1, <1>2, CancelledCheckoutsKeepMatch DEF CheckoutsAreKept

LEMMA DowngradesKeepMatch ==
  ASSUME RowsInv, RowsInv', MatchInv, SubscriptionAssumption, NEW r \in Requests,
         ScheduleTenantDowngrade(r)
  PROVE  MatchInv'
<1> DEFINE q == asked[r]
           fresh == NewCheckout(q.account, q.plan, Nothing, "APPROVED", q.at)
           new == [fresh EXCEPT !.applyAt = q.at, !.administrative = TRUE]
<1>0. /\ UNCHANGED <<now, ops, payment, coupon>> /\ Forget(r) /\ now \in Nat
      /\ checkout \in [Checkouts -> CheckoutRow \cup {Nothing}]
      /\ asked \in [Requests -> Ask \cup {Nothing}]
  BY DEF RowsInv, RecordsAreTyped, ScheduleTenantDowngrade, SameTenancy
<1>1. \A s \in Requests : asked'[s] \in {asked[s], Nothing}  BY <1>0 DEF Forget
<1>2. \/ checkout' = checkout
      \/ \E k \in Checkouts : checkout[k] = Nothing /\ checkout' = [checkout EXCEPT ![k] = new]
  BY DEF ScheduleTenantDowngrade
<1>3. new.administrative /\ new.coupon = Nothing /\ new.status = "APPROVED"  BY DEF NewCheckout
<1> HIDE DEF new, q
<1>4. CASE checkout' = checkout
  <2>1. \A k \in Checkouts : IF checkout[k] = Nothing THEN checkout'[k] = Nothing
                             ELSE Kept(checkout[k], checkout'[k])
    BY <1>4 DEF Kept
  <2> QED BY <1>0, <1>1, <2>1, CancelledCheckoutsKeepMatch
<1>5. ASSUME NEW k \in Checkouts, checkout[k] = Nothing, checkout' = [checkout EXCEPT ![k] = new]
      PROVE  MatchInv'
  <2>1. checkout'[k] = new /\ \A l \in Checkouts \ {k} : checkout'[l] = checkout[l]  BY <1>0, <1>5
  <2>2. Reserving(checkout', now') \subseteq Reserving(checkout, now)  BY <1>0, <1>3, <2>1 DEF Reserving
  <2>3. Known' \subseteq Known \cup {k}  BY <2>1 DEF Known
  <2>4. CouponIsShared'  BY <1>0, <2>2, <2>3, SharingGoesOn DEF MatchInv
  <2>5. \A l \in Checkouts : checkout[l] # Nothing => Kept(checkout[l], checkout'[l])
    BY <1>5, <2>1 DEF Kept
  <2>6. \A l \in Checkouts : checkout[l] = Nothing /\ checkout'[l] # Nothing =>
          /\ checkout'[l].administrative /\ checkout'[l].coupon = Nothing
          /\ checkout'[l].status = "APPROVED"
    BY <1>3, <2>1
  <2> QED BY <1>0, <1>1, <2>4, <2>5, <2>6, CheckoutsKeepMatch
<1> QED BY <1>2, <1>4, <1>5

------------------------
(* Payments and the checkouts they are for *)

\* A payment is decided: its checkout closes, or opens again.
LEMMA DecisionsKeepOpen ==
  ASSUME RowsInv, MatchInv, \A s \in Requests : asked'[s] \in {asked[s], Nothing},
         \A l \in Checkouts : checkout[l] = Nothing <=> checkout'[l] = Nothing,
         \A l \in Checkouts : checkout[l] # Nothing =>
            /\ checkout'[l].account = checkout[l].account
            /\ checkout'[l].administrative = checkout[l].administrative
            /\ checkout'[l].coupon = checkout[l].coupon
            /\ checkout'[l].status \in Unresolved => checkout[l].status \in Unresolved
            /\ checkout[l].administrative => checkout'[l].status = checkout[l].status
  PROVE  OneIsOpen' /\ AdministratorsDoNotPay' /\ AsksAreForTenants'
<1>1. OneIsOpen'
  <2> SUFFICES ASSUME NEW k \in Checkouts, NEW l \in Checkouts, checkout'[k] # Nothing,
                      checkout'[l] # Nothing, checkout'[k].account = checkout'[l].account,
                      checkout'[k].status \in Unresolved, checkout'[l].status \in Unresolved
               PROVE  k = l
    BY DEF OneIsOpen, Unresolved
  <2> QED BY DEF MatchInv, OneIsOpen
<1>2. AdministratorsDoNotPay'  BY DEF MatchInv, AdministratorsDoNotPay
<1>3. AsksAreForTenants'
  <2> SUFFICES ASSUME NEW s \in Requests, asked'[s] # Nothing, asked'[s].op = "submitProof",
                      asked'[s].checkout # Nothing
               PROVE  ~checkout'[asked'[s].checkout].administrative
    BY DEF AsksAreForTenants, Asks
  <2>0. asked'[s] = asked[s]  OBVIOUS
  <2>1. asked[s].checkout \in Checkouts /\ checkout[asked[s].checkout] # Nothing
    BY <2>0, AskFields DEF RowsInv, AsksAreCurrent, Current
  <2>2. ~checkout[asked[s].checkout].administrative  BY <2>0 DEF MatchInv, AsksAreForTenants, Asks
  <2> QED BY <2>0, <2>1, <2>2
<1> QED BY <1>1, <1>2, <1>3

\* A payment without a checkout is nobody's business here, and neither is a refund.
LEMMA OtherPaymentsKeepMatch ==
  ASSUME RowsInv, RowsInv', MatchInv, SubscriptionAssumption, UNCHANGED <<checkout, ops, now>>,
         coupon'.used = coupon.used, coupon'.usedBy = coupon.usedBy,
         \A s \in Requests : asked'[s] \in {asked[s], Nothing},
         NEW p \in Payments, NEW paid, paid # Nothing, payment' = [payment EXCEPT ![p] = paid],
         \/ paid.checkout = Nothing /\ (payment[p] # Nothing => payment[p].checkout = Nothing)
         \/ /\ "refund" \in ops /\ payment[p] # Nothing /\ paid.checkout = payment[p].checkout
            /\ paid.status = "REFUNDED"
  PROVE  MatchInv'
<1>0. \A x \in Payments : payment'[x] = IF x = p THEN paid ELSE payment[x]
  BY DEF RowsInv, RecordsAreTyped
<1>1. OneIsOpen' /\ AdministratorsDoNotPay' /\ AsksAreForTenants'  BY DecisionsKeepOpen
<1>2. ProofsAreOfCheckouts'  BY <1>0 DEF MatchInv, ProofsAreOfCheckouts
<1>3. ProofsAreSingle'  BY <1>0 DEF MatchInv, ProofsAreSingle
<1>4. CheckoutsAreBacked'
  <2> SUFFICES ASSUME "refund" \notin ops, NEW k \in Checkouts, checkout[k] # Nothing,
                      ~checkout[k].administrative, NEW status \in {"PENDING", "PAID"}, Backed(k, status)
               PROVE  Backed(k, status)'
    BY DEF MatchInv, CheckoutsAreBacked
  <2>1. k # Nothing  BY DEF SubscriptionAssumption
  <2> QED BY <1>0, <2>1 DEF Backed
<1>5. CouponIsShared'
  <2>1. Reserving(checkout', now') \subseteq Reserving(checkout, now)  OBVIOUS
  <2>2. Known' \subseteq Known \cup {Nothing}  BY DEF Known
  <2> QED BY <2>1, <2>2, SharingGoesOn DEF MatchInv
<1> QED BY <1>1, <1>2, <1>3, <1>4, <1>5 DEF MatchInv

\* A payment for checkout k is written, and k with it: sent (it was payable, and is under
\* review), approved or rejected (it was under review).
Decided(p, paid, k, row) ==
    /\ payment' = [payment EXCEPT ![p] = paid]
    /\ checkout' = [checkout EXCEPT ![k] = row]
    /\ paid # Nothing /\ paid.checkout = k
    /\ row # Nothing /\ row.account = checkout[k].account
    /\ row.administrative = checkout[k].administrative /\ row.coupon = checkout[k].coupon
    /\ \/ /\ payment[p] = Nothing /\ paid.status = "PENDING"
          /\ checkout[k].status \in Payable /\ row.status = "UNDER_REVIEW"
       \/ /\ payment[p] # Nothing /\ payment[p].checkout = k /\ payment[p].status = "PENDING"
          /\ checkout[k].status = "UNDER_REVIEW"
          /\ \/ paid.status = "PAID" /\ row.status = "APPROVED"
             \/ paid.status = "FAILED" /\ row.status = "REJECTED"

LEMMA DecisionsKeepMatch ==
  ASSUME RowsInv, RowsInv', MatchInv, SubscriptionAssumption, ops' = ops,
         \A s \in Requests : asked'[s] \in {asked[s], Nothing}, CouponIsShared',
         NEW p \in Payments, NEW paid, NEW k \in Checkouts, NEW row, Decided(p, paid, k, row),
         checkout[k] # Nothing, ~checkout[k].administrative
  PROVE  MatchInv'
<1>0. /\ \A x \in Payments : payment'[x] = IF x = p THEN paid ELSE payment[x]
      /\ \A l \in Checkouts : checkout'[l] = IF l = k THEN row ELSE checkout[l]
      /\ k # Nothing
  BY DEF RowsInv, RecordsAreTyped, Decided, SubscriptionAssumption
<1>1. OneIsOpen' /\ AdministratorsDoNotPay' /\ AsksAreForTenants'
  <2>1. \A l \in Checkouts : checkout[l] = Nothing <=> checkout'[l] = Nothing  BY <1>0 DEF Decided
  <2>2. \A l \in Checkouts : checkout[l] # Nothing =>
            /\ checkout'[l].account = checkout[l].account
            /\ checkout'[l].administrative = checkout[l].administrative
            /\ checkout'[l].coupon = checkout[l].coupon
            /\ checkout'[l].status \in Unresolved => checkout[l].status \in Unresolved
            /\ checkout[l].administrative => checkout'[l].status = checkout[l].status
    BY <1>0 DEF Decided, Unresolved, Payable
  <2> QED BY <2>1, <2>2, DecisionsKeepOpen
\* No other payment for the checkout is waiting or paid.
<1>2. ASSUME NEW x \in Payments \ {p}, payment[x] # Nothing, payment[x].checkout = k
      PROVE  payment[x].status \notin {"PENDING", "PAID"}
  <2>1. /\ payment[x].status = "PENDING" => checkout[k].status = "UNDER_REVIEW"
        /\ payment[x].status = "PAID" => checkout[k].status = "APPROVED"
    BY <1>0, <1>2 DEF MatchInv, ProofsAreOfCheckouts
  <2>2. CASE checkout[k].status \in Payable  BY <2>1, <2>2 DEF Payable
  <2>3. CASE payment[p] # Nothing /\ payment[p].checkout = k /\ payment[p].status = "PENDING"
             /\ checkout[k].status = "UNDER_REVIEW"
    BY <1>0, <1>2, <2>1, <2>3 DEF MatchInv, ProofsAreSingle
  <2> QED BY <2>2, <2>3 DEF Decided
<1>3. ProofsAreOfCheckouts'
  <2> SUFFICES ASSUME NEW x \in Payments, payment'[x] # Nothing, payment'[x].checkout # Nothing
               PROVE  /\ ~checkout'[payment'[x].checkout].administrative
                      /\ payment'[x].status = "PENDING" => checkout'[payment'[x].checkout].status = "UNDER_REVIEW"
                      /\ payment'[x].status = "PAID" => checkout'[payment'[x].checkout].status = "APPROVED"
    BY DEF ProofsAreOfCheckouts
  <2>1. CASE x = p  BY <1>0, <2>1 DEF Decided
  <2>2. CASE x # p /\ payment[x].checkout = k  BY <1>0, <1>2, <2>2 DEF Decided
  <2>3. CASE x # p /\ payment[x].checkout # k
    <3>1. payment[x].checkout \in Checkouts  BY <1>0, <2>3 DEF RowsInv, RecordsAreTyped, PaymentRow
    <3> QED BY <1>0, <2>3, <3>1 DEF MatchInv, ProofsAreOfCheckouts
  <2> QED BY <2>1, <2>2, <2>3
<1>4. ProofsAreSingle'
  <2> SUFFICES ASSUME NEW x \in Payments, NEW y \in Payments, payment'[x] # Nothing,
                      payment'[y] # Nothing, payment'[x].checkout # Nothing,
                      payment'[x].checkout = payment'[y].checkout,
                      payment'[x].status = payment'[y].status,
                      payment'[x].status \in {"PENDING", "PAID"}
               PROVE  x = y
    BY DEF ProofsAreSingle
  <2>1. CASE x = p  BY <1>0, <1>2, <2>1 DEF Decided
  <2>2. CASE y = p  BY <1>0, <1>2, <2>2 DEF Decided
  <2>3. CASE x # p /\ y # p  BY <1>0, <2>3 DEF MatchInv, ProofsAreSingle
  <2> QED BY <2>1, <2>2, <2>3
<1>5. CheckoutsAreBacked'
  <2> SUFFICES ASSUME "refund" \notin ops, NEW l \in Checkouts, checkout'[l] # Nothing,
                      ~checkout'[l].administrative
               PROVE  /\ checkout'[l].status = "UNDER_REVIEW" =>
                            \E x \in Payments : payment'[x] # Nothing /\ payment'[x].checkout = l
                                                /\ payment'[x].status = "PENDING"
                      /\ checkout'[l].status = "APPROVED" =>
                            \E x \in Payments : payment'[x] # Nothing /\ payment'[x].checkout = l
                                                /\ payment'[x].status = "PAID"
    BY DEF CheckoutsAreBacked, Backed
  <2>1. CASE l = k
    <3>1. payment'[p] # Nothing /\ payment'[p].checkout = k /\ payment'[p].status = paid.status
      BY <1>0 DEF Decided
    <3>2. /\ checkout'[k].status = "UNDER_REVIEW" => paid.status = "PENDING"
          /\ checkout'[k].status = "APPROVED" => paid.status = "PAID"
      BY <1>0 DEF Decided
    <3> QED BY <2>1, <3>1, <3>2
  <2>2. CASE l # k
    <3>1. checkout'[l] = checkout[l]  BY <1>0, <2>2
    <3>2. /\ checkout[l].status = "UNDER_REVIEW" => Backed(l, "PENDING")
          /\ checkout[l].status = "APPROVED" => Backed(l, "PAID")
      BY <3>1 DEF MatchInv, CheckoutsAreBacked
    <3>3. \A x \in Payments : payment[x] # Nothing /\ payment[x].checkout = l => x # p
      BY <2>2 DEF Decided
    <3> QED BY <1>0, <3>1, <3>2, <3>3 DEF Backed
  <2> QED BY <2>1, <2>2
<1> QED BY <1>1, <1>3, <1>4, <1>5 DEF MatchInv

LEMMA SentProofsKeepMatch ==
  ASSUME RowsInv, RowsInv', MatchInv, SubscriptionAssumption, NEW r \in Requests,
         SubmitPaymentProof(r)
  PROVE  MatchInv'
<1> DEFINE q == asked[r]
           k == q.checkout
           paid == NewPayment(q.account, k, "PENDING", TRUE)
           row == [checkout[k] EXCEPT !.status = "UNDER_REVIEW"]
<1>0. /\ UNCHANGED <<now, ops, coupon>> /\ Forget(r) /\ now \in Nat
      /\ checkout \in [Checkouts -> CheckoutRow \cup {Nothing}]
      /\ asked \in [Requests -> Ask \cup {Nothing}]
  BY DEF RowsInv, RecordsAreTyped, SubmitPaymentProof, SameTenancy
<1>1. \A s \in Requests : asked'[s] \in {asked[s], Nothing}  BY <1>0 DEF Forget
<1>2. /\ q # Nothing /\ q.op = "submitProof" /\ k \in Checkouts \cup {Nothing}
      /\ k # Nothing => checkout[k] # Nothing /\ ~checkout[k].administrative
  BY AskFields DEF RowsInv, Asks, SubmitPaymentProof, AsksAreCurrent, Current, MatchInv, AsksAreForTenants
<1>3. \/ UNCHANGED <<payment, checkout>>
      \/ /\ k # Nothing => TakesProof(k)
         /\ \E p \in Payments : payment[p] = Nothing /\ payment' = [payment EXCEPT ![p] = paid]
         /\ checkout' = IF k = Nothing THEN checkout ELSE [checkout EXCEPT ![k].status = "UNDER_REVIEW"]
  BY DEF SubmitPaymentProof
<1>4. paid.checkout = k /\ paid.status = "PENDING"  BY DEF NewPayment
<1>5. paid # Nothing
  <2>1. q.account \in Accounts  BY <1>2, AskFields DEF RowsInv
  <2>2. paid \in PaymentRow
    <3> HIDE DEF q, k
    <3> QED BY <1>2, <2>1 DEF NewPayment, PaymentRow, Deadline
  <2> QED BY <2>2 DEF SubscriptionAssumption
<1>6. k # Nothing =>
        /\ [checkout EXCEPT ![k].status = "UNDER_REVIEW"] = [checkout EXCEPT ![k] = row]
        /\ row.status = "UNDER_REVIEW" /\ row.account = checkout[k].account
        /\ row.administrative = checkout[k].administrative /\ row.coupon = checkout[k].coupon
        /\ row.expiresAt = checkout[k].expiresAt /\ row # Nothing
  <2>1. k # Nothing => k \in Checkouts /\ checkout[k] \in CheckoutRow  BY <1>0, <1>2
  <2>2. checkout[k] \in CheckoutRow =>
        /\ row.status = "UNDER_REVIEW" /\ row.account = checkout[k].account
        /\ row.administrative = checkout[k].administrative /\ row.coupon = checkout[k].coupon
        /\ row.expiresAt = checkout[k].expiresAt /\ row \in CheckoutRow
    BY DEF CheckoutRow
  <2>3. k # Nothing => [checkout EXCEPT ![k].status = "UNDER_REVIEW"] = [checkout EXCEPT ![k] = row]
    BY <1>0, <2>1
  <2> HIDE DEF row
  <2> QED BY <2>1, <2>2, <2>3 DEF SubscriptionAssumption
<1> HIDE DEF paid, row, k, q
<1>7. CASE UNCHANGED <<payment, checkout>>  BY <1>0, <1>1, <1>7, OthersKeepMatch
<1>8. ASSUME k = Nothing, NEW p \in Payments, payment[p] = Nothing,
             payment' = [payment EXCEPT ![p] = paid], checkout' = checkout
      PROVE  MatchInv'
  BY <1>0, <1>1, <1>4, <1>5, <1>8, OtherPaymentsKeepMatch
<1>9. ASSUME k # Nothing, TakesProof(k), NEW p \in Payments, payment[p] = Nothing,
             payment' = [payment EXCEPT ![p] = paid], checkout' = [checkout EXCEPT ![k] = row]
      PROVE  MatchInv'
  <2>1. k \in Checkouts /\ checkout[k] # Nothing /\ ~checkout[k].administrative
        /\ checkout[k].status \in Payable /\ checkout[k].expiresAt > now
    BY <1>2, <1>9 DEF TakesProof
  <2>2. Decided(p, paid, k, row)  BY <1>4, <1>5, <1>6, <1>9, <2>1 DEF Decided
  <2>3. \A l \in Checkouts : checkout'[l] = IF l = k THEN row ELSE checkout[l]  BY <1>0, <1>9, <2>1
  <2>4. Reserving(checkout', now') \subseteq Reserving(checkout, now)
    BY <1>0, <1>6, <1>9, <2>1, <2>3 DEF Reserving
  <2>5. Known' \subseteq Known \cup {k}  BY <2>3 DEF Known
  <2>6. CouponIsShared'  BY <1>0, <2>4, <2>5, SharingGoesOn DEF MatchInv
  <2> QED BY <1>0, <1>1, <2>1, <2>2, <2>6, DecisionsKeepMatch
<1> QED BY <1>3, <1>6, <1>7, <1>8, <1>9

LEMMA RejectedProofsKeepMatch ==
  ASSUME RowsInv, RowsInv', MatchInv, SubscriptionAssumption, NEW r \in Requests,
         RejectPaymentProof(r)
  PROVE  MatchInv'
<1> DEFINE q == asked[r]
           p == q.payment
           k == payment[p].checkout
           at == q.at + CheckoutTtl
           paid == [payment[p] EXCEPT !.status = "FAILED"]
           row == [checkout[k] EXCEPT !.status = "REJECTED", !.expiresAt = at]
<1>0. /\ UNCHANGED <<now, ops, coupon>> /\ Forget(r) /\ now \in Nat
      /\ checkout \in [Checkouts -> CheckoutRow \cup {Nothing}]
      /\ payment \in [Payments -> PaymentRow \cup {Nothing}]
      /\ asked \in [Requests -> Ask \cup {Nothing}]
  BY DEF RowsInv, RecordsAreTyped, RejectPaymentProof, SameTenancy
<1>1. \A s \in Requests : asked'[s] \in {asked[s], Nothing}  BY <1>0 DEF Forget
<1>2. q # Nothing /\ p \in Payments /\ payment[p] # Nothing
  BY AskFields DEF RowsInv, Asks, RejectPaymentProof, AsksAreCurrent, Current
<1>3. \/ UNCHANGED <<payment, checkout>>
      \/ /\ payment[p].status = "PENDING"
         /\ payment' = [payment EXCEPT ![p].status = "FAILED"]
         /\ checkout' = IF k = Nothing THEN checkout
                        ELSE [checkout EXCEPT ![k].status = "REJECTED", ![k].expiresAt = at]
  BY DEF RejectPaymentProof, StillPending
<1>4. /\ paid.checkout = k /\ paid.status = "FAILED" /\ paid # Nothing
      /\ [payment EXCEPT ![p].status = "FAILED"] = [payment EXCEPT ![p] = paid]
      /\ k \in Checkouts \cup {Nothing}
  <2>1. payment[p] \in PaymentRow  BY <1>0, <1>2
  <2>2. paid.checkout = k /\ paid.status = "FAILED" /\ paid \in PaymentRow /\ k \in Checkouts \cup {Nothing}
    BY <2>1 DEF PaymentRow
  <2>3. [payment EXCEPT ![p].status = "FAILED"] = [payment EXCEPT ![p] = paid]  BY <1>0, <1>2
  <2> HIDE DEF paid
  <2> QED BY <2>2, <2>3 DEF SubscriptionAssumption
<1>5. k # Nothing => checkout[k] # Nothing /\ ~checkout[k].administrative
                     /\ (payment[p].status = "PENDING" => checkout[k].status = "UNDER_REVIEW")
  BY <1>2, <1>4 DEF RowsInv, ProofsHaveCheckouts, MatchInv, ProofsAreOfCheckouts
<1>6. k # Nothing =>
        /\ [checkout EXCEPT ![k].status = "REJECTED", ![k].expiresAt = at] = [checkout EXCEPT ![k] = row]
        /\ row.status = "REJECTED" /\ row.account = checkout[k].account
        /\ row.administrative = checkout[k].administrative /\ row.coupon = checkout[k].coupon
        /\ row # Nothing
  <2>1. k # Nothing => k \in Checkouts /\ checkout[k] \in CheckoutRow  BY <1>0, <1>4, <1>5
  <2>2. at \in Nat
    <3>1. q.at \in Nat  BY AskFields DEF RowsInv, Asks, RejectPaymentProof
    <3>2. CheckoutTtl \in Nat  BY DEF SubscriptionAssumption
    <3> QED BY <3>1, <3>2
  <2>3. checkout[k] \in CheckoutRow =>
        /\ row.status = "REJECTED" /\ row.account = checkout[k].account
        /\ row.administrative = checkout[k].administrative /\ row.coupon = checkout[k].coupon
        /\ row \in CheckoutRow
    <3> HIDE DEF at
    <3> QED BY <2>2 DEF CheckoutRow, Instant
  <2>4. k # Nothing =>
          [checkout EXCEPT ![k].status = "REJECTED", ![k].expiresAt = at] = [checkout EXCEPT ![k] = row]
    BY <1>0, <2>1
  <2> HIDE DEF row
  <2> QED BY <2>1, <2>3, <2>4 DEF SubscriptionAssumption
<1> DEFINE pending == payment[p].status = "PENDING"
<1>7. payment[p].checkout = k  OBVIOUS
<1> HIDE DEF paid, row, k, p, q, at
<1>8. CASE UNCHANGED <<payment, checkout>>  BY <1>0, <1>1, <1>8, OthersKeepMatch
<1>9. ASSUME k = Nothing, payment' = [payment EXCEPT ![p] = paid], checkout' = checkout
      PROVE  MatchInv'
  BY <1>0, <1>1, <1>2, <1>4, <1>7, <1>9, OtherPaymentsKeepMatch
<1>10. ASSUME k # Nothing, payment[p].status = "PENDING", payment' = [payment EXCEPT ![p] = paid],
              checkout' = [checkout EXCEPT ![k] = row]
       PROVE  MatchInv'
  <2>1. k \in Checkouts /\ checkout[k] # Nothing /\ ~checkout[k].administrative
        /\ checkout[k].status = "UNDER_REVIEW"
    BY <1>4, <1>5, <1>10
  <2>2. Decided(p, paid, k, row)  BY <1>2, <1>4, <1>6, <1>7, <1>10, <2>1 DEF Decided
  <2>3. \A l \in Checkouts : checkout'[l] = IF l = k THEN row ELSE checkout[l]  BY <1>0, <1>10, <2>1
  <2>4. Reserving(checkout', now') \subseteq Reserving(checkout, now)
    BY <1>0, <1>6, <1>10, <2>1, <2>3 DEF Reserving
  <2>5. Known' \subseteq Known \cup {k}  BY <2>3 DEF Known
  <2>6. CouponIsShared'  BY <1>0, <2>4, <2>5, SharingGoesOn DEF MatchInv
  <2> QED BY <1>0, <1>1, <1>2, <2>1, <2>2, <2>6, DecisionsKeepMatch
<1> QED BY <1>3, <1>4, <1>6, <1>8, <1>9, <1>10

\* What was reserved for a checkout is used when it is approved.
LEMMA ApprovedProofsKeepMatch ==
  ASSUME RowsInv, RowsInv', MatchInv, SubscriptionAssumption, NEW r \in Requests,
         ApprovePaymentProof(r)
  PROVE  MatchInv'
<1> DEFINE q == asked[r]
           p == q.payment
           k == payment[p].checkout
           a == payment[p].account
           c == k # Nothing /\ checkout[k].coupon # Nothing
           paid == [payment[p] EXCEPT !.status = "PAID", !.paidAt = q.at]
           row == [checkout[k] EXCEPT !.status = "APPROVED"]
           more == [coupon EXCEPT !.used = @ + 1, !.usedBy = @ \cup {a}]
<1>0. /\ UNCHANGED <<now, ops>> /\ Forget(r) /\ now \in Nat
      /\ checkout \in [Checkouts -> CheckoutRow \cup {Nothing}]
      /\ payment \in [Payments -> PaymentRow \cup {Nothing}]
      /\ asked \in [Requests -> Ask \cup {Nothing}]
      /\ coupon \in [active : BOOLEAN, used : Nat, usedBy : SUBSET Accounts]
  BY DEF RowsInv, RecordsAreTyped, ApprovePaymentProof, SameTenancy
<1>1. \A s \in Requests : asked'[s] \in {asked[s], Nothing}  BY <1>0 DEF Forget
<1>2. q # Nothing /\ p \in Payments /\ payment[p] # Nothing /\ q.at \in Nat
  BY AskFields DEF RowsInv, Asks, ApprovePaymentProof, AsksAreCurrent, Current
<1>3. \/ UNCHANGED <<payment, checkout, coupon>>
      \/ /\ payment[p].status = "PENDING"
         /\ k # Nothing => checkout[k].status = "UNDER_REVIEW"
         /\ c => a \notin coupon.usedBy
         /\ payment' = [payment EXCEPT ![p].status = "PAID", ![p].paidAt = q.at]
         /\ checkout' = IF k = Nothing THEN checkout ELSE [checkout EXCEPT ![k].status = "APPROVED"]
         /\ coupon' = IF c THEN more ELSE coupon
  BY DEF ApprovePaymentProof, StillPending
<1>4. /\ paid.checkout = k /\ paid.status = "PAID" /\ paid # Nothing
      /\ [payment EXCEPT ![p].status = "PAID", ![p].paidAt = q.at] = [payment EXCEPT ![p] = paid]
      /\ k \in Checkouts \cup {Nothing} /\ a \in Accounts
  <2>1. payment[p] \in PaymentRow  BY <1>0, <1>2
  <2>2. paid.checkout = k /\ paid.status = "PAID" /\ paid \in PaymentRow /\ k \in Checkouts \cup {Nothing}
        /\ a \in Accounts
    BY <1>2, <2>1 DEF PaymentRow, Deadline, Instant
  <2>3. [payment EXCEPT ![p].status = "PAID", ![p].paidAt = q.at] = [payment EXCEPT ![p] = paid]
    BY <1>0, <1>2
  <2> HIDE DEF paid
  <2> QED BY <2>2, <2>3 DEF SubscriptionAssumption
<1>5. k # Nothing => checkout[k] # Nothing /\ ~checkout[k].administrative
  BY <1>2, <1>4 DEF RowsInv, ProofsHaveCheckouts, MatchInv, ProofsAreOfCheckouts
<1>6. k # Nothing =>
        /\ [checkout EXCEPT ![k].status = "APPROVED"] = [checkout EXCEPT ![k] = row]
        /\ row.status = "APPROVED" /\ row.account = checkout[k].account
        /\ row.administrative = checkout[k].administrative /\ row.coupon = checkout[k].coupon
        /\ row # Nothing
  <2>1. k # Nothing => k \in Checkouts /\ checkout[k] \in CheckoutRow  BY <1>0, <1>4, <1>5
  <2>2. checkout[k] \in CheckoutRow =>
        /\ row.status = "APPROVED" /\ row.account = checkout[k].account
        /\ row.administrative = checkout[k].administrative /\ row.coupon = checkout[k].coupon
        /\ row \in CheckoutRow
    BY DEF CheckoutRow
  <2>3. k # Nothing => [checkout EXCEPT ![k].status = "APPROVED"] = [checkout EXCEPT ![k] = row]
    BY <1>0, <2>1
  <2> HIDE DEF row
  <2> QED BY <2>1, <2>2, <2>3 DEF SubscriptionAssumption
<1>7. payment[p].checkout = k /\ (c <=> k # Nothing /\ checkout[k].coupon # Nothing)  OBVIOUS
<1> HIDE DEF c
<1>8. more.used = coupon.used + 1 /\ more.usedBy = coupon.usedBy \cup {a}
  <2> HIDE DEF a
  <2> QED BY <1>0, <1>4, UsesAreCounted
<1> HIDE DEF paid, row, more, k, p, q, a
<1>9. CASE UNCHANGED <<payment, checkout, coupon>>  BY <1>0, <1>1, <1>9, OthersKeepMatch
<1>10. ASSUME k = Nothing, payment' = [payment EXCEPT ![p] = paid], checkout' = checkout, coupon' = coupon
       PROVE  MatchInv'
  BY <1>0, <1>1, <1>2, <1>4, <1>7, <1>10, OtherPaymentsKeepMatch
<1>11. ASSUME k # Nothing, payment[p].status = "PENDING", checkout[k].status = "UNDER_REVIEW",
              c => a \notin coupon.usedBy, payment' = [payment EXCEPT ![p] = paid],
              checkout' = [checkout EXCEPT ![k] = row], coupon' = IF c THEN more ELSE coupon
       PROVE  MatchInv'
  <2>1. k \in Checkouts /\ checkout[k] # Nothing /\ ~checkout[k].administrative  BY <1>4, <1>5, <1>11
  <2>2. Decided(p, paid, k, row)  BY <1>2, <1>4, <1>6, <1>7, <1>11 DEF Decided
  <2>3. \A l \in Checkouts : checkout'[l] = IF l = k THEN row ELSE checkout[l]  BY <1>0, <1>11, <2>1
  <2>4. Known' = Known  BY <1>6, <1>11, <2>1, <2>3 DEF Known
  <2> DEFINE before == Reserving(checkout, now)
             after == Reserving(checkout', now')
  <2>5. after \subseteq before \ {k}  BY <1>0, <1>6, <1>11, <2>1, <2>3 DEF Reserving, Payable
  <2>6. CouponIsShared'
    <3>1. CASE ~c
      <4>1. after \subseteq before  BY <2>5
      <4>2. Known' \subseteq Known \cup {k}  BY <2>4
      <4>3. coupon' = coupon  BY <1>11, <3>1
      <4> QED BY <4>1, <4>2, <4>3, SharingGoesOn DEF MatchInv
    <3>2. CASE c
      <4>1. k \in before  BY <1>7, <1>11, <2>1, <3>2 DEF Reserving
      <4>2. IsFiniteSet(Known) /\ IsFiniteSet(coupon.usedBy) /\ coupon.used = Cardinality(coupon.usedBy)
            /\ coupon.used + Cardinality(before) <= MaxUses
        BY DEF MatchInv, CouponIsShared
      <4>3. before \subseteq Known  BY DEF Reserving, Known
      <4>4. coupon'.used = coupon.used + 1 /\ coupon'.usedBy = coupon.usedBy \cup {a}
        BY <1>8, <1>11, <3>2
      <4>5. a \notin coupon.usedBy  BY <1>11, <3>2
      <4> HIDE DEF before, after
      <4>6. IsFiniteSet(before)  BY <4>2, <4>3, FS_Subset
      <4>7. IsFiniteSet(before \ {k}) /\ Cardinality(before \ {k}) = Cardinality(before) - 1
        BY <4>1, <4>6, FS_RemoveElement
      <4>8. IsFiniteSet(after) /\ Cardinality(after) <= Cardinality(before \ {k})
        BY <2>5, <4>7, FS_Subset
      <4>9. /\ Cardinality(before) \in Nat /\ Cardinality(after) \in Nat /\ coupon.used \in Nat
            /\ MaxUses \in Nat
        BY <4>6, <4>8, FS_CardinalityType DEF RowsInv, RecordsAreTyped, SubscriptionAssumption
      <4>10. coupon'.used + Cardinality(after) <= MaxUses  BY <4>2, <4>4, <4>7, <4>8, <4>9
      <4> DEFINE users == coupon.usedBy
      <4>11. IsFiniteSet(coupon'.usedBy) /\ Cardinality(coupon'.usedBy) = Cardinality(coupon.usedBy) + 1
        <5>1. IsFiniteSet(users) /\ a \notin users  BY <4>2, <4>5
        <5> HIDE DEF users
        <5>2. IsFiniteSet(users \cup {a}) /\ Cardinality(users \cup {a}) = Cardinality(users) + 1
          BY <5>1, FS_AddElement
        <5> QED BY <4>4, <5>2 DEF users
      <4>12. IsFiniteSet(Known')  BY <2>4, <4>2
      <4>13. coupon'.used = Cardinality(coupon'.usedBy)  BY <4>2, <4>4, <4>11
      <4> QED BY <4>10, <4>11, <4>12, <4>13 DEF CouponIsShared, after
    <3> QED BY <3>1, <3>2
  <2> QED BY <1>0, <1>1, <1>2, <2>1, <2>2, <2>6, DecisionsKeepMatch
<1> QED BY <1>3, <1>4, <1>6, <1>7, <1>9, <1>10, <1>11

LEMMA ManualPaymentsKeepMatch ==
  ASSUME RowsInv, RowsInv', MatchInv, SubscriptionAssumption, NEW r \in Requests,
         GrantManualPayment(r) \/ RefundBillingRecord(r)
  PROVE  MatchInv'
<1>0. /\ UNCHANGED <<now, ops, checkout, coupon>> /\ Forget(r) /\ now \in Nat
      /\ payment \in [Payments -> PaymentRow \cup {Nothing}]
      /\ asked \in [Requests -> Ask \cup {Nothing}]
  BY DEF RowsInv, RecordsAreTyped, GrantManualPayment, RefundBillingRecord, SameTenancy
<1>1. \A s \in Requests : asked'[s] \in {asked[s], Nothing}  BY <1>0 DEF Forget
<1>2. CASE UNCHANGED payment  BY <1>0, <1>1, <1>2, OthersKeepMatch
<1>3. CASE GrantManualPayment(r) /\ payment' # payment
  <2> DEFINE fresh == NewPayment(asked[r].account, Nothing, "PAID", FALSE)
             paid == [fresh EXCEPT !.paidAt = asked[r].at]
  <2>1. PICK p \in Payments : payment[p] = Nothing /\ payment' = [payment EXCEPT ![p] = paid]
    BY <1>3 DEF GrantManualPayment
  <2>2. paid.checkout = Nothing /\ paid # Nothing
    <3>1. asked[r].account \in Accounts /\ asked[r].at \in Nat
      BY <1>3, AskFields DEF RowsInv, Asks, GrantManualPayment
    <3>2. fresh \in PaymentRow /\ fresh.checkout = Nothing  BY <3>1 DEF NewPayment, PaymentRow, Deadline
    <3> HIDE DEF fresh
    <3>3. paid \in PaymentRow /\ paid.checkout = Nothing
      BY <3>1, <3>2 DEF PaymentRow, Deadline, Instant
    <3> QED BY <3>3 DEF SubscriptionAssumption
  <2> HIDE DEF paid
  <2> QED BY <1>0, <1>1, <2>1, <2>2, OtherPaymentsKeepMatch
<1>4. CASE RefundBillingRecord(r) /\ payment' # payment
  <2> DEFINE p == asked[r].payment
             paid == [payment[p] EXCEPT !.status = "REFUNDED"]
  <2>1. p \in Payments /\ payment[p] # Nothing /\ "refund" \in ops
    BY <1>4, AskFields DEF RowsInv, Asks, RefundBillingRecord, AsksAreCurrent, Current
  <2>2. payment' = [payment EXCEPT ![p].status = "REFUNDED"]  BY <1>4 DEF RefundBillingRecord
  <2>3. payment' = [payment EXCEPT ![p] = paid]  BY <1>0, <2>1, <2>2
  <2>4. paid.checkout = payment[p].checkout /\ paid.status = "REFUNDED" /\ paid # Nothing
    <3>1. payment[p] \in PaymentRow  BY <1>0, <2>1
    <3>2. paid.checkout = payment[p].checkout /\ paid.status = "REFUNDED" /\ paid \in PaymentRow
      BY <3>1 DEF PaymentRow
    <3> QED BY <3>2 DEF SubscriptionAssumption
  <2> HIDE DEF paid, p
  <2> QED BY <1>0, <1>1, <2>1, <2>3, <2>4, OtherPaymentsKeepMatch
<1> QED BY <1>2, <1>3, <1>4

------------------------
(* The invariant of checkouts *)

LEMMA InitMatchInv ==
  ASSUME Init
  PROVE  MatchInv
<1>1. /\ asked = [r \in Requests |-> Nothing]
      /\ checkout = [k \in Checkouts |-> Nothing] /\ payment = [p \in Payments |-> Nothing]
      /\ coupon = [active |-> TRUE, used |-> 0, usedBy |-> {}]
  BY DEF Init, LifecycleInit
<1>2. Known = {} /\ Reserving(checkout, now) = {} /\ coupon.usedBy = {} /\ coupon.used = 0
  BY <1>1 DEF Known, Reserving
<1>3. MaxUses \in Nat  BY SubscriptionAssumption DEF SubscriptionAssumption
<1>4. CouponIsShared  BY <1>2, <1>3, FS_EmptySet DEF CouponIsShared
<1> QED BY <1>1, <1>4
        DEF MatchInv, OneIsOpen, AdministratorsDoNotPay, AsksAreForTenants, Asks, ProofsAreOfCheckouts,
            ProofsAreSingle, CheckoutsAreBacked

\* Who asks about a proof asks about an open checkout, which is no administrator's.
LEMMA ReadersKeepMatch ==
  ASSUME RowsInv, RowsInv', MatchInv, SubscriptionAssumption, NEW r \in Requests,
         NEW q, Remember(r, q), UNCHANGED <<now, ops, commerceVars>>,
         q.op = "submitProof" /\ q.checkout # Nothing =>
            /\ q.checkout \in Checkouts /\ checkout[q.checkout] # Nothing
            /\ ~checkout[q.checkout].administrative
  PROVE  MatchInv'
<1>1. UNCHANGED <<checkout, payment, coupon, ops>> /\ now <= now'
  BY DEF commerceVars, RowsInv, RecordsAreTyped
<1>2. \A s \in Requests : asked'[s] = asked[s] \/ asked'[s] = q
  BY DEF Remember, RowsInv, RecordsAreTyped
<1> QED BY <1>1, <1>2, OthersKeepMatch

LEMMA AsksKeepMatch ==
  ASSUME RowsInv, RowsInv', MatchInv, SubscriptionAssumption, NEW r \in Requests,
         AskPlan(r) \/ AskProof(r) \/ AskReview(r) \/ AskGrant(r) \/ AskRefund(r) \/ AskSwitch(r)
         \/ AskDowngrade(r) \/ ReadExpired(r)
  PROVE  MatchInv'
<1>0. UNCHANGED <<now, ops, commerceVars>>
  BY DEF AskPlan, AskProof, AskReview, AskGrant, AskRefund, AskSwitch, AskDowngrade, ReadExpired,
         SameTenancy
<1>1. CASE AskProof(r)
  <2>1. PICK a \in Accounts :
          LET open == InStatus(a, Unresolved)
          IN  \E k \in IF open = {} THEN {Nothing} ELSE open :
                 Remember(r, [op |-> "submitProof", account |-> a, checkout |-> k])
    BY <1>1 DEF AskProof
  <2>2. PICK k \in IF InStatus(a, Unresolved) = {} THEN {Nothing} ELSE InStatus(a, Unresolved) :
          Remember(r, [op |-> "submitProof", account |-> a, checkout |-> k])
    BY <2>1
  <2>3. k # Nothing => /\ k \in Checkouts /\ checkout[k] # Nothing
                       /\ checkout[k].status \in Unresolved
    BY OpenCheckouts
  <2>4. k # Nothing => ~checkout[k].administrative
    BY <2>3 DEF MatchInv, AdministratorsDoNotPay, Unresolved
  <2> DEFINE q == [op |-> "submitProof", account |-> a, checkout |-> k]
  <2>5. Remember(r, q) /\ q.checkout = k  BY <2>2
  <2> HIDE DEF q
  <2> QED BY <1>0, <2>3, <2>4, <2>5, ReadersKeepMatch
<1>2. CASE AskPlan(r)
  <2>1. PICK a, newPlan, c :
          Remember(r, [op |-> "changePlan", account |-> a, plan |-> newPlan, coupon |-> c, at |-> now])
    BY <1>2 DEF AskPlan
  <2> DEFINE q == [op |-> "changePlan", account |-> a, plan |-> newPlan, coupon |-> c, at |-> now]
  <2>2. Remember(r, q) /\ q.op # "submitProof"  BY <2>1
  <2> HIDE DEF q
  <2> QED BY <1>0, <2>2, ReadersKeepMatch
<1>3. CASE AskReview(r)
  <2>1. PICK p \in Payments, op \in {"approve", "reject"} :
          Remember(r, [op |-> op, payment |-> p, at |-> now])
    BY <1>3 DEF AskReview
  <2> DEFINE q == [op |-> op, payment |-> p, at |-> now]
  <2>2. Remember(r, q) /\ q.op # "submitProof"  BY <2>1
  <2> HIDE DEF q
  <2> QED BY <1>0, <2>2, ReadersKeepMatch
<1>4. CASE AskGrant(r)
  <2>1. PICK a : Remember(r, [op |-> "grant", account |-> a, seen |-> account[a], at |-> now])
    BY <1>4 DEF AskGrant
  <2> DEFINE q == [op |-> "grant", account |-> a, seen |-> account[a], at |-> now]
  <2>2. Remember(r, q) /\ q.op # "submitProof"  BY <2>1
  <2> HIDE DEF q
  <2> QED BY <1>0, <2>2, ReadersKeepMatch
<1>5. CASE AskRefund(r)
  <2>1. PICK p, paid : Remember(r, [op |-> "refund", payment |-> p, suspend |-> paid])
    BY <1>5 DEF AskRefund
  <2> DEFINE q == [op |-> "refund", payment |-> p, suspend |-> paid]
  <2>2. Remember(r, q) /\ q.op # "submitProof"  BY <2>1
  <2> HIDE DEF q
  <2> QED BY <1>0, <2>2, ReadersKeepMatch
<1>6. CASE AskSwitch(r)
  <2>1. PICK op \in Switches, a \in Accounts, newPlan \in PlanIds :
          Remember(r, [op |-> op, account |-> a, seen |-> account[a], at |-> now, plan |-> newPlan])
    BY <1>6 DEF AskSwitch
  <2> DEFINE q == [op |-> op, account |-> a, seen |-> account[a], at |-> now, plan |-> newPlan]
  <2>2. Remember(r, q) /\ q.op # "submitProof"  BY <2>1 DEF Switches, TenantSwitches, MutableSwitches
  <2> HIDE DEF q
  <2> QED BY <1>0, <2>2, ReadersKeepMatch
<1>7. CASE AskDowngrade(r)
  <2>1. PICK a, newPlan :
          Remember(r, [op |-> "downgrade", account |-> a, plan |-> newPlan, at |-> account[a].periodEnd])
    BY <1>7 DEF AskDowngrade
  <2> DEFINE q == [op |-> "downgrade", account |-> a, plan |-> newPlan, at |-> account[a].periodEnd]
  <2>2. Remember(r, q) /\ q.op # "submitProof"  BY <2>1
  <2> HIDE DEF q
  <2> QED BY <1>0, <2>2, ReadersKeepMatch
<1>8. CASE ReadExpired(r)
  <2>1. PICK found : Remember(r, [op |-> "expire", accounts |-> found, at |-> now])
    BY <1>8 DEF ReadExpired
  <2> DEFINE q == [op |-> "expire", accounts |-> found, at |-> now]
  <2>2. Remember(r, q) /\ q.op # "submitProof"  BY <2>1
  <2> HIDE DEF q
  <2> QED BY <1>0, <2>2, ReadersKeepMatch
<1> QED BY <1>1, <1>2, <1>3, <1>4, <1>5, <1>6, <1>7, <1>8

LEMMA LifecycleKeepsMatch ==
  ASSUME RowsInv, RowsInv', MatchInv, SubscriptionAssumption, LifecycleStep,
         UNCHANGED <<now, commerceVars>>
  PROVE  MatchInv'
<1>0. UNCHANGED <<checkout, payment, coupon, ops>> /\ now <= now'
  <2>1. ops' = ops
    BY DEF LifecycleStep, AskLifecycle, ChangeLifecycle, AskDemotion,
           Demote, AskDeletion, ClaimDeletion, Purge, DeleteRows, Die, StartUpload, StoreUpload
  <2>2. now \in Nat  BY DEF RowsInv, RecordsAreTyped
  <2> QED BY <2>1, <2>2 DEF commerceVars
<1>1. ASSUME NEW r \in Requests, NEW q, Remember(r, q), q.op # "submitProof"
      PROVE  MatchInv'
  BY <1>0, <1>1, ReadersKeepMatch
<1>2. ASSUME \A s \in Requests : asked'[s] \in {asked[s], Nothing}
      PROVE  MatchInv'
  BY <1>0, <1>2, OthersKeepMatch
<1>3. ASSUME NEW r \in Requests, Forget(r)
      PROVE  MatchInv'
  <2>1. \A s \in Requests : asked'[s] \in {asked[s], Nothing}
    BY <1>3 DEF Forget, RowsInv, RecordsAreTyped
  <2> QED BY <1>2, <2>1
<1>4. ASSUME NEW r \in Requests, AskLifecycle(r)
      PROVE  MatchInv'
  <2>1. PICK op \in LifecycleOps, a \in Accounts : Remember(r, [op |-> op, account |-> a, seen |-> account[a]])
    BY <1>4 DEF AskLifecycle
  <2> DEFINE q == [op |-> op, account |-> a, seen |-> account[a]]
  <2>2. Remember(r, q) /\ q.op # "submitProof"  BY <2>1 DEF LifecycleOps
  <2> HIDE DEF q
  <2> QED BY <1>1, <2>2
<1>5. ASSUME NEW r \in Requests, AskDemotion(r)
      PROVE  MatchInv'
  <2>1. PICK user \in supers : Remember(r, [op |-> "demote", user |-> user])  BY <1>5 DEF AskDemotion
  <2> DEFINE q == [op |-> "demote", user |-> user]
  <2>2. Remember(r, q) /\ q.op # "submitProof"  BY <2>1
  <2> HIDE DEF q
  <2> QED BY <1>1, <2>2
<1>6. ASSUME NEW r \in Requests, AskDeletion(r)
      PROVE  MatchInv'
  <2>1. PICK a \in Accounts :
          Remember(r, [op |-> "hardDelete", account |-> a, seen |-> account[a], at |-> now, stage |-> "claim"])
    BY <1>6 DEF AskDeletion
  <2> DEFINE q == [op |-> "hardDelete", account |-> a, seen |-> account[a], at |-> now, stage |-> "claim"]
  <2>2. Remember(r, q) /\ q.op # "submitProof"  BY <2>1
  <2> HIDE DEF q
  <2> QED BY <1>1, <2>2
<1>7. ASSUME NEW r \in Requests, ClaimDeletion(r) \/ Purge(r)
      PROVE  MatchInv'
  <2>1. \/ Forget(r)
        \/ \E stage : Remember(r, [asked[r] EXCEPT !.stage = stage])
    BY <1>7 DEF ClaimDeletion, Purge
  <2>2. asked[r] \in [op : {"hardDelete"}, account : Accounts, seen : Row, at : Nat,
                      stage : {"claim", "purge", "rows"}]
    BY <1>7, AskFields DEF ClaimDeletion, Purge, Asks, RowsInv
  <2>3. ASSUME NEW stage, Remember(r, [asked[r] EXCEPT !.stage = stage])
        PROVE  MatchInv'
    <3> DEFINE q == [asked[r] EXCEPT !.stage = stage]
    <3>1. Remember(r, q) /\ q.op # "submitProof"  BY <2>2, <2>3
    <3> HIDE DEF q
    <3> QED BY <1>1, <3>1
  <2> QED BY <1>3, <2>1, <2>3
<1>8. ASSUME NEW r \in Requests, ChangeLifecycle(r) \/ Demote(r) \/ DeleteRows(r) \/ Die(r)
      PROVE  MatchInv'
  BY <1>3, <1>8 DEF ChangeLifecycle, Demote, DeleteRows, Die
<1>9. ASSUME NEW a \in Accounts, StartUpload(a) \/ StoreUpload(a)
      PROVE  MatchInv'
  BY <1>2, <1>9 DEF StartUpload, StoreUpload
<1> QED BY <1>4, <1>5, <1>6, <1>7, <1>8, <1>9 DEF LifecycleStep

LEMMA NextMatchInv ==
  ASSUME RowsInv, RowsInv', MatchInv, [Next]_allVars
  PROVE  MatchInv'
<1>0. SubscriptionAssumption /\ now \in Nat /\ asked \in [Requests -> Ask \cup {Nothing}]
  BY SubscriptionAssumption DEF RowsInv, RecordsAreTyped
<1>1. ASSUME UNCHANGED <<checkout, payment, ops>>, coupon'.used = coupon.used,
             coupon'.usedBy = coupon.usedBy, now' = now \/ now' = now + 1,
             asked' = asked \/ \E r \in Requests : Forget(r)
      PROVE  MatchInv'
  <2>1. \A s \in Requests : asked'[s] \in {asked[s], Nothing}  BY <1>0, <1>1 DEF Forget
  <2>2. now <= now'  BY <1>0, <1>1
  <2> QED BY <1>0, <1>1, <2>1, <2>2, OthersKeepMatch
<1>2. CASE AccessNext /\ UNCHANGED <<tenancyVars, commerceVars>>
  <2>1. now' = now \/ now' = now + 1
    BY <1>2 DEF AccessNext, Tick, ResolveTenantAccess, CheckSubscriptionExpiry
  <2> QED BY <1>1, <1>2, <2>1 DEF tenancyVars, commerceVars
<1>3. CASE LifecycleStep /\ UNCHANGED <<now, tenant, answer, commerceVars>>
  BY <1>0, <1>3, LifecycleKeepsMatch
<1>4. CASE Pass  BY <1>1, <1>4 DEF Pass, Tick, tenancyVars, commerceVars
<1>5. CASE UNCHANGED allVars  BY <1>1, <1>5 DEF allVars, tenancyVars, commerceVars
<1>6. ASSUME NEW a \in Accounts, CreateTrialSubscription(a)
      PROVE  MatchInv'
  BY <1>1, <1>6 DEF CreateTrialSubscription, SameTenancy, commerceVars
<1>7. ASSUME NEW a \in Accounts, CancelPendingPlanChange(a) \/ CancelScheduledChange(a)
      PROVE  MatchInv'
  BY <1>0, <1>7, CancellationsKeepMatch
<1>8. ASSUME NEW r \in Requests, AskPlan(r) \/ ChangePlan(r) \/ AskProof(r) \/ SubmitPaymentProof(r)
      PROVE  MatchInv'
  BY <1>0, <1>8, AsksKeepMatch, ChangedPlansKeepMatch, SentProofsKeepMatch
<1>9. ASSUME NEW r \in Requests, AskReview(r) \/ ApprovePaymentProof(r) \/ RejectPaymentProof(r)
      PROVE  MatchInv'
  BY <1>0, <1>9, AsksKeepMatch, ApprovedProofsKeepMatch, RejectedProofsKeepMatch
<1>10. ASSUME NEW r \in Requests,
              AskGrant(r) \/ GrantManualPayment(r) \/ AskRefund(r) \/ RefundBillingRecord(r)
       PROVE  MatchInv'
  BY <1>0, <1>10, AsksKeepMatch, ManualPaymentsKeepMatch
<1>11. ASSUME NEW r \in Requests, AskSwitch(r) \/ Switch(r)
       PROVE  MatchInv'
  BY <1>0, <1>11, AsksKeepMatch, CancellationsKeepMatch
<1>12. ASSUME NEW r \in Requests, AskDowngrade(r) \/ ScheduleTenantDowngrade(r)
       PROVE  MatchInv'
  BY <1>0, <1>12, AsksKeepMatch, DowngradesKeepMatch
<1>13. CASE ReadDue  BY <1>1, <1>13 DEF ReadDue, SameTenancy
<1>14. CASE ApplyDue  BY <1>0, <1>14, CancellationsKeepMatch
<1>15. CASE ToggleCoupon
  <2>1. coupon' = [coupon EXCEPT !.active = ~coupon.active] /\ UNCHANGED <<checkout, payment, ops, now, asked>>
    BY <1>15 DEF ToggleCoupon, SameTenancy
  <2>2. coupon \in [active : BOOLEAN, used : Nat, usedBy : SUBSET Accounts]
    BY DEF RowsInv, RecordsAreTyped
  <2>3. coupon'.used = coupon.used /\ coupon'.usedBy = coupon.usedBy  BY <2>1, <2>2
  <2> QED BY <1>1, <2>1, <2>3
<1>16. ASSUME NEW r \in Requests, ReadExpired(r) \/ Expire(r)
       PROVE  MatchInv'
  BY <1>0, <1>1, <1>16, AsksKeepMatch DEF Expire, SameTenancy, commerceVars
<1> QED BY <1>2, <1>3, <1>4, <1>5, <1>6, <1>7, <1>8, <1>9, <1>10, <1>11, <1>12, <1>13, <1>14, <1>15,
           <1>16 DEF Next

LEMMA MatchInvHolds == Spec => [](RowsInv /\ MatchInv)
<1>1. Init => RowsInv /\ MatchInv  BY InitRowsInv, InitMatchInv
<1>2. RowsInv /\ MatchInv /\ [Next]_allVars => (RowsInv /\ MatchInv)'  BY NextRowsInv, NextMatchInv
<1> QED BY <1>1, <1>2, PTL DEF Spec

\* A set of at most one thing.
LEMMA AtMostOne ==
  ASSUME NEW S, \A x, y \in S : x = y
  PROVE  Cardinality(S) = IF S = {} THEN 0 ELSE 1
<1>1. CASE S = {}  BY <1>1, FS_EmptySet
<1>2. CASE S # {}
  <2>1. PICK x : x \in S  BY <1>2
  <2>2. S = {x}  BY <2>1
  <2> QED BY <1>2, <2>2, FS_Singleton
<1> QED BY <1>1, <1>2

\* One open checkout for a tenant, one proof for a checkout under review, one payment for an
\* approved one, and a coupon used no more often than it may: for any number of tenants,
\* requests and checkouts (changePlan, submitPaymentProof, approve- and rejectPaymentProof).
THEOREM CheckoutsAreMatched == Spec => []ProofsMatchCheckouts
<1>1. ASSUME RowsInv, MatchInv
      PROVE  ProofsMatchCheckouts
  <2>1. ASSUME "refund" \notin ops, NEW a \in Accounts
        PROVE  /\ Cardinality(InStatus(a, Unresolved)) <= 1
               /\ \A k \in OfAccount(a) : ~checkout[k].administrative =>
                    LET in(s) == {p \in Of(k) : payment[p].status = s}
                    IN  /\ Cardinality(in("PENDING")) = (IF checkout[k].status = "UNDER_REVIEW" THEN 1 ELSE 0)
                        /\ Cardinality(in("PAID")) = (IF checkout[k].status = "APPROVED" THEN 1 ELSE 0)
    <3>1. \A k, l \in InStatus(a, Unresolved) : k = l  BY <1>1, OpenCheckouts DEF MatchInv, OneIsOpen
    <3>2. Cardinality(InStatus(a, Unresolved)) <= 1  BY <3>1, AtMostOne
    <3>3. ASSUME NEW k \in OfAccount(a), ~checkout[k].administrative,
                 NEW s \in {"PENDING", "PAID"}
          PROVE  Cardinality({p \in Of(k) : payment[p].status = s})
                   = IF checkout[k].status = (IF s = "PENDING" THEN "UNDER_REVIEW" ELSE "APPROVED") THEN 1 ELSE 0
      <4> DEFINE in == {p \in Of(k) : payment[p].status = s}
                 as == IF s = "PENDING" THEN "UNDER_REVIEW" ELSE "APPROVED"
      <4>1. k \in Checkouts /\ checkout[k] # Nothing /\ k # Nothing
        BY SubscriptionAssumption DEF OfAccount, SubscriptionAssumption
      <4>2. \A p, q \in in : p = q  BY <1>1, <3>3, <4>1 DEF MatchInv, ProofsAreSingle, Of
      <4>3. in # {} => checkout[k].status = as
        BY <1>1, <3>3, <4>1 DEF MatchInv, ProofsAreOfCheckouts, Of
      <4>4. checkout[k].status = as => in # {}
        BY <1>1, <2>1, <3>3, <4>1 DEF MatchInv, CheckoutsAreBacked, Backed, Of
      <4> HIDE DEF in, as
      <4>5. Cardinality(in) = IF in = {} THEN 0 ELSE 1  BY <4>2, AtMostOne
      <4>6. Cardinality(in) = IF checkout[k].status = as THEN 1 ELSE 0  BY <4>3, <4>4, <4>5
      <4> QED BY <4>6 DEF in, as
    <3> QED BY <3>2, <3>3
  <2>2. /\ coupon.used + Cardinality(Reserving(checkout, now)) <= MaxUses
        /\ coupon.used = Cardinality(coupon.usedBy)
    BY <1>1 DEF MatchInv, CouponIsShared
  <2> QED BY <2>1, <2>2 DEF ProofsMatchCheckouts
<1>2. RowsInv /\ MatchInv => ProofsMatchCheckouts  BY <1>1
<1> QED BY <1>2, MatchInvHolds, PTL

\* Every row of tenants, checkouts, payments and the coupon has its type.
THEOREM SubscriptionsTypeCorrect == Spec => []SubscriptionsTypeOK
<1>1. RowsInv /\ MatchInv => SubscriptionsTypeOK
  <2> SUFFICES ASSUME RowsInv, MatchInv
               PROVE  coupon.used \in 0 .. MaxUses
    BY DEF SubscriptionsTypeOK, RowsInv, RecordsAreTyped
  <2>1. IsFiniteSet(Reserving(checkout, now))
    <3>1. Reserving(checkout, now) \subseteq Known /\ IsFiniteSet(Known)
      BY DEF Reserving, Known, MatchInv, CouponIsShared
    <3> QED BY <3>1, FS_Subset
  <2>2. coupon.used + Cardinality(Reserving(checkout, now)) <= MaxUses  BY DEF MatchInv, CouponIsShared
  <2>3. Cardinality(Reserving(checkout, now)) \in Nat /\ coupon.used \in Nat /\ MaxUses \in Nat
    BY <2>1, FS_CardinalityType, SubscriptionAssumption DEF SubscriptionAssumption, RowsInv, RecordsAreTyped
  <2> QED BY <2>2, <2>3
<1> QED BY <1>1, MatchInvHolds, PTL

------------------------
(* Accounts *)

\* What is true of a row whatever requests are at work on it: what the office or an
\* administrator creates is whole, or half and not let in but by the office.
RowIsRight(row) ==
    /\ row \in UserRow
    /\ row.by = "self" =>
          /\ row.role = "ADMIN" /\ row.profile /\ row.site /\ row.subs # <<>>
          /\ row.verified \/ row.invited \/ "address" \in row.hand
    /\ row.by = "office" /\ (row.profile \/ row.left) /\ row.role = "ADMIN" => row.profile /\ row.site
    /\ row.by = "office" /\ ~row.profile /\ ~row.left => (row.status = "ACTIVE" => "office" \in row.hand)
    /\ row.by = "before" => row.role = "ADMIN"
    /\ row.left => row.role = "STAFF"
    /\ row.status = "ACTIVE" => row.verified \/ row.hand \cap {"office", "address"} # {}

\* The accounts as they are, apart from requests.
AccountsInv ==
    /\ person \in [Persons -> UserRow \cup {Missing}]
    /\ \A p \in Persons : HasUser(p) => RowIsRight(person[p])

RequestSteps == {"rest", "sign up", "complete", "undo", "left", "died", "failed", "done", "refused",
                 "prove", "activate", "repair", "mend", "mended"}
RequestRow == [at : RequestSteps, kind : {"none", "register", "office", "staff", "verify", "repair"},
               who : Persons \cup {Missing}, mail : Mails \cup {Missing}, saw : UserRow \cup {Missing}]

OnSomebody == {"complete", "undo", "prove", "activate", "repair", "mend", "mended"}

\* What a request that has come so far knows of the person it is about.
Knows(call, rows) ==
    LET row == rows[call.who] IN
    /\ call.at = "sign up" => call.mail \in Mails
    /\ call.at \in OnSomebody => call.who \in Persons
    /\ call.at \in {"complete", "undo"} => row # Missing /\ row.by = "office"
    /\ call.at = "activate" /\ row # Missing =>
          row.role = "ADMIN" /\ row.profile /\ (row.verified \/ "address" \in row.hand)
    /\ call.at = "prove" /\ row # Missing => (row.role = "ADMIN" => row.profile)
    /\ call.at = "mend" =>
          /\ call.saw \in UserRow
          /\ row # Missing => row.role = "ADMIN" /\ (call.saw.subs # <<>> => row.subs # <<>>)
    /\ call.at = "mended" /\ row # Missing =>
          row.role = "ADMIN" /\ row.profile /\ row.site /\ row.subs # <<>>

RequestsInv ==
    /\ caller \in [Callers -> RequestRow]
    /\ \A c \in Callers : Knows(caller[c], person)
    /\ \A c, d \in Callers :
          c # d /\ caller[c].at \in {"complete", "undo"} /\ caller[d].at \in {"complete", "undo"}
          => caller[c].who # caller[d].who

\* Whoever is half there is somebody's work.
HalvesAreKnown ==
    \A p \in Persons : HasUser(p) =>
        /\ person[p].by = "office" /\ ~person[p].profile /\ ~person[p].left =>
               Unfinished(p, {"complete", "undo", "left", "died"})
        /\ person[p].verified /\ person[p].status = "PENDING" /\ "reset" \notin person[p].hand =>
               Unfinished(p, {"activate", "died"})

ProvisioningInv == AccountsInv /\ RequestsInv /\ HalvesAreKnown

------------------------
LEMMA InvImpliesWhole ==
  ASSUME ProvisioningInv
  PROVE  AccountsAreWhole
<1>1. ASSUME NEW p \in Persons, HasUser(p), person[p].by # "before"
      PROVE  LET row == person[p] IN
             /\ row.by = "self" =>
                   /\ row.profile /\ row.site /\ row.subs # <<>>
                   /\ row.verified \/ row.invited \/ "address" \in row.hand
             /\ Usable(row) /\ "office" \notin row.hand =>
                   IF row.role = "ADMIN" THEN row.profile /\ row.site ELSE row.profile \/ row.left
             /\ row.profile \/ row.left \/ Unfinished(p, {"complete", "undo", "left", "died"})
             /\ row.status = "ACTIVE" => row.verified \/ row.hand \cap {"office", "address"} # {}
             /\ row.verified /\ row.status = "PENDING" =>
                   Unfinished(p, {"activate", "died"}) \/ "reset" \in row.hand
  <2> DEFINE row == person[p]
  <2>1. RowIsRight(row) /\ row.by \in {"self", "office"}
    BY <1>1 DEF ProvisioningInv, AccountsInv, RowIsRight, UserRow
  <2>2. /\ row.by = "office" /\ ~row.profile /\ ~row.left => Unfinished(p, {"complete", "undo", "left", "died"})
        /\ row.verified /\ row.status = "PENDING" /\ "reset" \notin row.hand =>
               Unfinished(p, {"activate", "died"})
    BY <1>1 DEF ProvisioningInv, HalvesAreKnown
  <2> QED BY <2>1, <2>2 DEF RowIsRight, Usable
<1>2. ASSUME NEW p \in Persons, HasUser(p)
      PROVE  Len(person[p].subs) <= 1
  <2>1. person[p].subs \in {<<>>, <<"ACTIVE">>, <<"EXPIRED">>}
    BY <1>2 DEF ProvisioningInv, AccountsInv, RowIsRight, UserRow
  <2>2. CASE person[p].subs = <<>>  BY <2>2
  <2>3. CASE person[p].subs = <<"ACTIVE">>  BY <2>3
  <2>4. CASE person[p].subs = <<"EXPIRED">>  BY <2>4
  <2> QED BY <2>1, <2>2, <2>3, <2>4
<1>3. ASSUME NEW c \in Callers, Stage(c, "mended"), HasUser(caller[c].who)
      PROVE  Healthy(person[caller[c].who])
  BY <1>3 DEF ProvisioningInv, RequestsInv, Knows, Stage, HasUser, Healthy, LacksTrial
<1> QED BY <1>1, <1>2, <1>3 DEF AccountsAreWhole

------------------------
\* How a row may change while others work on it.
Grows(old, new) ==
    /\ new.role = old.role /\ new.by = old.by
    /\ old.hand \subseteq new.hand /\ (old.verified => new.verified \/ "address" \in new.hand)
    /\ old.role = "ADMIN" => (old.profile => new.profile) /\ (old.site => new.site)
    /\ old.subs # <<>> => new.subs # <<>>

LEMMA KnowsOn ==
  ASSUME NEW call \in RequestRow, Knows(call, person),
         call.who \in Persons =>
             \/ person'[call.who] = person[call.who]
             \/ /\ person[call.who] # Missing /\ person'[call.who] # Missing
                /\ Grows(person[call.who], person'[call.who])
             \/ /\ person'[call.who] = Missing /\ call.at \notin {"complete", "undo"}
  PROVE  Knows(call, person')
<1> DEFINE row == person[call.who]
           new == person'[call.who]
<1>1. CASE call.at \notin OnSomebody  BY <1>1 DEF Knows, OnSomebody
<1>2. CASE call.at \in OnSomebody
  <2>1. call.who \in Persons  BY <1>2 DEF Knows
  <2>2. CASE new = row  BY <1>2, <2>1, <2>2 DEF Knows
  <2>3. CASE row # Missing /\ new # Missing /\ Grows(row, new)
    <3> HIDE DEF row, new
    <3>1. /\ call.at \in {"complete", "undo"} => row.by = "office"
          /\ call.at = "activate" => row.role = "ADMIN" /\ row.profile /\ (row.verified \/ "address" \in row.hand)
          /\ call.at = "prove" => (row.role = "ADMIN" => row.profile)
          /\ call.at = "mend" => call.saw \in UserRow /\ row.role = "ADMIN" /\ (call.saw.subs # <<>> => row.subs # <<>>)
          /\ call.at = "mended" => row.role = "ADMIN" /\ row.profile /\ row.site /\ row.subs # <<>>
      BY <2>3 DEF Knows, row
    <3>2. /\ call.at \in {"complete", "undo"} => new.by = "office"
          /\ call.at = "activate" => new.role = "ADMIN" /\ new.profile /\ (new.verified \/ "address" \in new.hand)
          /\ call.at = "prove" => (new.role = "ADMIN" => new.profile)
          /\ call.at = "mend" => call.saw \in UserRow /\ new.role = "ADMIN" /\ (call.saw.subs # <<>> => new.subs # <<>>)
          /\ call.at = "mended" => new.role = "ADMIN" /\ new.profile /\ new.site /\ new.subs # <<>>
      BY <2>3, <3>1 DEF Grows
    <3> QED BY <1>2, <2>1, <2>3, <3>2 DEF Knows, OnSomebody, new
  <2>4. CASE new = Missing /\ call.at \notin {"complete", "undo"}
    BY <1>2, <2>1, <2>4 DEF Knows, OnSomebody
  <2> QED BY <2>1, <2>2, <2>3, <2>4
<1> QED BY <1>1, <1>2

AtWork == {"complete", "undo", "left", "died"}
Proving == {"activate", "died"}

\* A step of one request that writes no row.
LEMMA RequestStep ==
  ASSUME ProvisioningInv, NEW c \in Callers, NEW r \in RequestRow,
         caller' = [caller EXCEPT ![c] = r], UNCHANGED <<person, errands>>,
         Knows(r, person),
         r.at \in {"complete", "undo"} => caller[c].at \in {"complete", "undo"} /\ r.who = caller[c].who,
         caller[c].at \in AtWork => r.at \in AtWork /\ r.who = caller[c].who,
         caller[c].at \in Proving /\ person[caller[c].who] # Missing => r.at \in Proving /\ r.who = caller[c].who
  PROVE  ProvisioningInv'
<1>1. AccountsInv'  BY DEF ProvisioningInv, AccountsInv, HasUser, RowIsRight
<1>2. \A d \in Callers : caller'[d] = IF d = c THEN r ELSE caller[d]
  BY DEF ProvisioningInv, RequestsInv
<1>3. RequestsInv'
  <2>1. caller' \in [Callers -> RequestRow]  BY DEF ProvisioningInv, RequestsInv
  <2>2. \A d \in Callers : Knows(caller'[d], person')  BY <1>2 DEF ProvisioningInv, RequestsInv
  <2> QED BY <1>2, <2>1, <2>2 DEF ProvisioningInv, RequestsInv
<1>4. HalvesAreKnown'
  BY <1>2 DEF ProvisioningInv, HalvesAreKnown, HasUser, Unfinished, AtWork, Proving
<1> QED BY <1>1, <1>3, <1>4 DEF ProvisioningInv

\* Half an account, and a verified one that waits for its activation.
Half(row) == row.by = "office" /\ ~row.profile /\ ~row.left
Waiting(row) == row.verified /\ row.status = "PENDING" /\ "reset" \notin row.hand

\* What the others know of p survives this.
OthersMayKnow(c, p, row) ==
    \A d \in Callers : d # c /\ caller[d].who = p =>
        \/ person[p] # Missing /\ row # Missing /\ Grows(person[p], row)
        \/ row = Missing /\ caller[d].at \notin {"complete", "undo"}

LEMMA WriteStep ==
  ASSUME ProvisioningInv, NEW c \in Callers, NEW r \in RequestRow,
         NEW p \in Persons, NEW row \in UserRow \cup {Missing},
         caller' = [caller EXCEPT ![c] = r], person' = [person EXCEPT ![p] = row], UNCHANGED errands,
         row # Missing => RowIsRight(row),
         Knows(r, person'),
         OthersMayKnow(c, p, row),
         r.at \in {"complete", "undo"} =>
             \A d \in Callers : d # c /\ caller[d].at \in {"complete", "undo"} => caller[d].who # r.who,
         row # Missing /\ Half(row) =>
             \/ r.at \in AtWork /\ r.who = p
             \/ person[p] # Missing /\ Half(person[p]) /\ caller[c].at \notin AtWork,
         row # Missing /\ Waiting(row) =>
             \/ r.at \in Proving /\ r.who = p
             \/ person[p] # Missing /\ Waiting(person[p]) /\ caller[c].at \notin Proving,
         caller[c].at \in AtWork => caller[c].who = p \/ (r.at \in AtWork /\ r.who = caller[c].who),
         caller[c].at \in Proving => caller[c].who = p \/ (r.at \in Proving /\ r.who = caller[c].who)
  PROVE  ProvisioningInv'
<1>1. \A q \in Persons : person'[q] = IF q = p THEN row ELSE person[q]
  BY DEF ProvisioningInv, AccountsInv
<1>2. AccountsInv'
  <2>1. person' \in [Persons -> UserRow \cup {Missing}]  BY DEF ProvisioningInv, AccountsInv
  <2>2. \A q \in Persons : person'[q] # Missing => RowIsRight(person'[q])
    BY <1>1 DEF ProvisioningInv, AccountsInv, HasUser
  <2> QED BY <2>1, <2>2 DEF AccountsInv, HasUser, RowIsRight
<1>3. \A d \in Callers : caller'[d] = IF d = c THEN r ELSE caller[d]
  BY DEF ProvisioningInv, RequestsInv
<1>4. RequestsInv'
  <2>1. caller' \in [Callers -> RequestRow]  BY DEF ProvisioningInv, RequestsInv
  <2>2. ASSUME NEW d \in Callers, d # c  PROVE  Knows(caller[d], person')
    <3>1. caller[d] \in RequestRow /\ Knows(caller[d], person)  BY DEF ProvisioningInv, RequestsInv
    <3>2. CASE caller[d].who # p  BY <1>1, <3>1, <3>2, KnowsOn
    <3>3. CASE caller[d].who = p
      <4>1. person'[caller[d].who] = row  BY <1>1, <3>3
      <4> QED BY <2>2, <3>1, <3>3, <4>1, KnowsOn DEF OthersMayKnow
    <3> QED BY <3>2, <3>3
  <2>3. \A d \in Callers : Knows(caller'[d], person')  BY <1>3, <2>2
  <2>4. \A d, e \in Callers :
           d # e /\ caller'[d].at \in {"complete", "undo"} /\ caller'[e].at \in {"complete", "undo"}
           => caller'[d].who # caller'[e].who
    BY <1>3 DEF ProvisioningInv, RequestsInv
  <2> QED BY <2>1, <2>3, <2>4 DEF RequestsInv
<1>5. HalvesAreKnown'
  <2>1. ASSUME NEW q \in Persons, person'[q] # Missing, Half(person'[q])
        PROVE  \E d \in Callers : caller'[d].who = q /\ caller'[d].at \in AtWork
    <3>1. CASE q = p /\ r.at \in AtWork /\ r.who = p  BY <1>3, <3>1
    <3>2. CASE ~(q = p /\ r.at \in AtWork /\ r.who = p)
      <4>1. /\ person[q] # Missing /\ Half(person[q])
            /\ q = p => caller[c].at \notin AtWork
        BY <1>1, <2>1, <3>2
      <4>2. PICK d \in Callers : caller[d].who = q /\ caller[d].at \in AtWork
        BY <4>1 DEF ProvisioningInv, HalvesAreKnown, HasUser, Unfinished, Half, AtWork
      <4>3. CASE d # c  BY <1>3, <4>2, <4>3
      <4>4. CASE d = c  BY <1>3, <4>1, <4>2, <4>4
      <4> QED BY <4>3, <4>4
    <3> QED BY <3>1, <3>2
  <2>2. ASSUME NEW q \in Persons, person'[q] # Missing, Waiting(person'[q])
        PROVE  \E d \in Callers : caller'[d].who = q /\ caller'[d].at \in Proving
    <3>1. CASE q = p /\ r.at \in Proving /\ r.who = p  BY <1>3, <3>1
    <3>2. CASE ~(q = p /\ r.at \in Proving /\ r.who = p)
      <4>1. /\ person[q] # Missing /\ Waiting(person[q])
            /\ q = p => caller[c].at \notin Proving
        BY <1>1, <2>2, <3>2
      <4>2. PICK d \in Callers : caller[d].who = q /\ caller[d].at \in Proving
        BY <4>1 DEF ProvisioningInv, HalvesAreKnown, HasUser, Unfinished, Waiting, Proving
      <4>3. CASE d # c  BY <1>3, <4>2, <4>3
      <4>4. CASE d = c  BY <1>3, <4>1, <4>2, <4>4
      <4> QED BY <4>3, <4>4
    <3> QED BY <3>1, <3>2
  <2> QED BY <2>1, <2>2 DEF HalvesAreKnown, HasUser, Unfinished, Half, Waiting, AtWork, Proving
<1> QED BY <1>2, <1>4, <1>5 DEF ProvisioningInv

LEMMA RowStep ==
  ASSUME ProvisioningInv, NEW p \in Persons, NEW row \in UserRow, HasUser(p),
         person' = [person EXCEPT ![p] = row], UNCHANGED <<caller, errands>>,
         RowIsRight(row), Grows(person[p], row),
         Half(row) => Half(person[p]),
         Waiting(row) => Waiting(person[p])
  PROVE  ProvisioningInv'
<1>1. \A q \in Persons : person'[q] = IF q = p THEN row ELSE person[q]
  BY DEF ProvisioningInv, AccountsInv
<1>0. row # Missing  BY ProvisioningAssumption
<1>2. AccountsInv'
  <2>1. person' \in [Persons -> UserRow \cup {Missing}]  BY DEF ProvisioningInv, AccountsInv
  <2>2. \A q \in Persons : person'[q] # Missing => RowIsRight(person'[q])
    BY <1>1 DEF ProvisioningInv, AccountsInv, HasUser
  <2> QED BY <2>1, <2>2 DEF AccountsInv, HasUser, RowIsRight
<1>3. RequestsInv'
  <2>1. ASSUME NEW d \in Callers  PROVE  Knows(caller[d], person')
    <3>1. caller[d] \in RequestRow /\ Knows(caller[d], person)  BY DEF ProvisioningInv, RequestsInv
    <3> QED BY <1>0, <1>1, <3>1, KnowsOn DEF HasUser
  <2> QED BY <2>1 DEF ProvisioningInv, RequestsInv
<1>4. HalvesAreKnown'
  <2>1. \A q \in Persons : person'[q] # Missing =>
          /\ person[q] # Missing
          /\ Half(person'[q]) => Half(person[q])
          /\ Waiting(person'[q]) => Waiting(person[q])
    BY <1>1 DEF HasUser
  <2> QED BY <2>1 DEF ProvisioningInv, HalvesAreKnown, HasUser, Unfinished, Half, Waiting
<1> QED BY <1>2, <1>3, <1>4 DEF ProvisioningInv

------------------------
\* The steps that write one row and no request.
LEMMA RowActions ==
  ASSUME ProvisioningInv, NEW p \in Persons,
         \/ DeleteStaff(p) \/ ResendOtp(p) \/ TrialEnds(p) \/ BackfillWebsite(p)
         \/ ResetPassword(p) \/ VerifyGlobalUser(p) \/ \E m \in Mails : UpdateTenantOwner(p, m)
         \/ \E to \in {"ACTIVE", "SUSPENDED"} : SetAdminStatus(p, to)
  PROVE  ProvisioningInv'
<1> DEFINE row == person[p]
<1>1. HasUser(p) => row \in UserRow /\ RowIsRight(row)  BY DEF ProvisioningInv, AccountsInv, RowIsRight
<1>2. CASE DeleteStaff(p)
  <2> DEFINE new == [row EXCEPT !.profile = FALSE, !.left = TRUE]
  <2>1. HasUser(p) /\ person' = [person EXCEPT ![p] = new] /\ UNCHANGED <<caller, errands>>
    BY <1>2 DEF DeleteStaff, Writes
  <2>2. row.role = "STAFF" /\ row.profile  BY <1>2 DEF DeleteStaff
  <2> HIDE DEF row
  <2>3. /\ new \in UserRow /\ new.role = row.role /\ new.status = row.status
        /\ new.verified = row.verified /\ new.profile = FALSE
        /\ new.site = row.site /\ new.subs = row.subs /\ new.invited = row.invited
        /\ new.by = row.by /\ new.left = TRUE /\ new.hand = row.hand
    BY <1>1, <2>1 DEF UserRow
  <2> HIDE DEF new
  <2>4. RowIsRight(new) /\ Grows(row, new) /\ ~Half(new) /\ (Waiting(new) => Waiting(row))
    BY <1>1, <2>1, <2>2, <2>3 DEF RowIsRight, Grows, Half, Waiting
  <2> QED BY <2>1, <2>3, <2>4, RowStep DEF row
<1>3. CASE ResendOtp(p)
  <2> DEFINE new == [row EXCEPT !.invited = TRUE]
  <2>1. HasUser(p) /\ person' = [person EXCEPT ![p] = new] /\ UNCHANGED <<caller, errands>>
    BY <1>3 DEF ResendOtp, Writes
  <2> HIDE DEF row
  <2>3. /\ new \in UserRow /\ new.role = row.role /\ new.status = row.status
        /\ new.verified = row.verified /\ new.profile = row.profile
        /\ new.site = row.site /\ new.subs = row.subs /\ new.invited = TRUE
        /\ new.by = row.by /\ new.left = row.left /\ new.hand = row.hand
    BY <1>1, <2>1 DEF UserRow
  <2> HIDE DEF new
  <2>4. RowIsRight(new) /\ Grows(row, new) /\ (Half(new) => Half(row)) /\ (Waiting(new) => Waiting(row))
    BY <1>1, <2>1, <2>3 DEF RowIsRight, Grows, Half, Waiting
  <2> QED BY <2>1, <2>3, <2>4, RowStep DEF row
<1>4. CASE TrialEnds(p)
  <2> DEFINE new == [row EXCEPT !.subs = [i \in DOMAIN @ |-> "EXPIRED"]]
  <2>1. HasUser(p) /\ person' = [person EXCEPT ![p] = new] /\ UNCHANGED <<caller, errands>>
    BY <1>4 DEF TrialEnds, Writes
  <2>2. Active(row.subs)  BY <1>4 DEF TrialEnds
  <2> HIDE DEF row
  <2>3. row.subs = <<"ACTIVE">>
    <3>1. row.subs \in {<<>>, <<"ACTIVE">>, <<"EXPIRED">>}  BY <1>1, <2>1 DEF UserRow
    <3>2. ~Active(<<>>) /\ ~Active(<<"EXPIRED">>)  BY DEF Active
    <3> QED BY <2>2, <3>1, <3>2
  <2>4. [i \in DOMAIN row.subs |-> "EXPIRED"] = <<"EXPIRED">>  BY <2>3
  <2>5. new = [row EXCEPT !.subs = <<"EXPIRED">>]  BY <2>4
  <2>6. /\ new \in UserRow /\ new.role = row.role /\ new.status = row.status
        /\ new.verified = row.verified /\ new.profile = row.profile
        /\ new.site = row.site /\ new.subs = <<"EXPIRED">> /\ new.invited = row.invited
        /\ new.by = row.by /\ new.left = row.left /\ new.hand = row.hand
    BY <1>1, <2>1, <2>5 DEF UserRow
  <2> HIDE DEF new
  <2>7. <<"EXPIRED">> # <<>>  OBVIOUS
  <2>8. RowIsRight(new) /\ Grows(row, new) /\ (Half(new) => Half(row)) /\ (Waiting(new) => Waiting(row))
    BY <1>1, <2>1, <2>6, <2>7 DEF RowIsRight, Grows, Half, Waiting
  <2> QED BY <2>1, <2>6, <2>8, RowStep DEF row
<1>5. CASE BackfillWebsite(p)
  <2> DEFINE new == [row EXCEPT !.site = TRUE]
  <2>1. HasUser(p) /\ person' = [person EXCEPT ![p] = new] /\ UNCHANGED <<caller, errands>>
    BY <1>5 DEF BackfillWebsite, Writes
  <2>2. row.role = "ADMIN" /\ row.profile  BY <1>5 DEF BackfillWebsite
  <2> HIDE DEF row
  <2>3. /\ new \in UserRow /\ new.role = row.role /\ new.status = row.status
        /\ new.verified = row.verified /\ new.profile = row.profile
        /\ new.site = TRUE /\ new.subs = row.subs /\ new.invited = row.invited
        /\ new.by = row.by /\ new.left = row.left /\ new.hand = row.hand
    BY <1>1, <2>1 DEF UserRow
  <2> HIDE DEF new
  <2>4. RowIsRight(new) /\ Grows(row, new) /\ (Half(new) => Half(row)) /\ (Waiting(new) => Waiting(row))
    BY <1>1, <2>1, <2>2, <2>3 DEF RowIsRight, Grows, Half, Waiting
  <2> QED BY <2>1, <2>3, <2>4, RowStep DEF row
<1>6. ASSUME NEW to \in {"ACTIVE", "SUSPENDED"}, SetAdminStatus(p, to)
      PROVE  ProvisioningInv'
  <2> DEFINE new == [row EXCEPT !.status = to, !.hand = @ \cup {"office"}]
  <2>1. HasUser(p) /\ person' = [person EXCEPT ![p] = new] /\ UNCHANGED <<caller, errands>>
    BY <1>6 DEF SetAdminStatus, Writes
  <2> HIDE DEF row
  <2>3. /\ new \in UserRow /\ new.role = row.role /\ new.status = to
        /\ new.verified = row.verified /\ new.profile = row.profile
        /\ new.site = row.site /\ new.subs = row.subs /\ new.invited = row.invited
        /\ new.by = row.by /\ new.left = row.left /\ new.hand = row.hand \cup {"office"}
    BY <1>1, <2>1 DEF UserRow
  <2> HIDE DEF new
  <2>4. RowIsRight(new) /\ Grows(row, new) /\ (Half(new) => Half(row)) /\ ~Waiting(new)
    BY <1>1, <2>1, <2>3 DEF RowIsRight, Grows, Half, Waiting
  <2> QED BY <2>1, <2>3, <2>4, RowStep DEF row
<1>7. CASE ResetPassword(p)
  <2> DEFINE new == [row EXCEPT !.verified = TRUE, !.hand = @ \cup {"reset"}]
  <2>1. HasUser(p) /\ person' = [person EXCEPT ![p] = new] /\ UNCHANGED <<caller, errands>>
    BY <1>7 DEF ResetPassword, Writes
  <2> HIDE DEF row
  <2>3. /\ new \in UserRow /\ new.role = row.role /\ new.status = row.status
        /\ new.verified = TRUE /\ new.profile = row.profile
        /\ new.site = row.site /\ new.subs = row.subs /\ new.invited = row.invited
        /\ new.by = row.by /\ new.left = row.left /\ new.hand = row.hand \cup {"reset"}
    BY <1>1, <2>1 DEF UserRow
  <2> HIDE DEF new
  <2>4. RowIsRight(new) /\ Grows(row, new) /\ (Half(new) => Half(row)) /\ ~Waiting(new)
    BY <1>1, <2>1, <2>3 DEF RowIsRight, Grows, Half, Waiting
  <2> QED BY <2>1, <2>3, <2>4, RowStep DEF row
<1>8. CASE VerifyGlobalUser(p)
  <2> DEFINE to == IF row.status = "PENDING" THEN "ACTIVE" ELSE row.status
             new == [row EXCEPT !.verified = TRUE, !.hand = @ \cup {"office"}, !.status = to]
  <2>1. HasUser(p) /\ person' = [person EXCEPT ![p] = new] /\ UNCHANGED <<caller, errands>>
    BY <1>8 DEF VerifyGlobalUser, Writes
  <2> HIDE DEF row
  <2>3. /\ new \in UserRow /\ new.role = row.role /\ new.status # "PENDING"
        /\ new.verified = TRUE /\ new.profile = row.profile
        /\ new.site = row.site /\ new.subs = row.subs /\ new.invited = row.invited
        /\ new.by = row.by /\ new.left = row.left /\ new.hand = row.hand \cup {"office"}
    BY <1>1, <2>1 DEF UserRow
  <2> HIDE DEF new
  <2>4. RowIsRight(new) /\ Grows(row, new) /\ (Half(new) => Half(row)) /\ ~Waiting(new)
    BY <1>1, <2>1, <2>3 DEF RowIsRight, Grows, Half, Waiting
  <2> QED BY <2>1, <2>3, <2>4, RowStep DEF row
<1>9. ASSUME NEW m \in Mails, UpdateTenantOwner(p, m)
      PROVE  ProvisioningInv'
  <2> DEFINE new == [row EXCEPT !.mail = m, !.verified = FALSE, !.invited = FALSE,
                               !.hand = @ \cup {"address"}]
  <2>1. HasUser(p) /\ person' = [person EXCEPT ![p] = new] /\ UNCHANGED <<caller, errands>>
    BY <1>9 DEF UpdateTenantOwner, Writes
  <2>2. row.role = "ADMIN" /\ row.profile  BY <1>9 DEF UpdateTenantOwner
  <2> HIDE DEF row
  <2>3. /\ new \in UserRow /\ new.role = row.role /\ new.status = row.status
        /\ new.verified = FALSE /\ new.profile = row.profile
        /\ new.site = row.site /\ new.subs = row.subs
        /\ new.by = row.by /\ new.left = row.left /\ new.hand = row.hand \cup {"address"}
    BY <1>1, <2>1 DEF UserRow
  <2> HIDE DEF new
  <2>4. RowIsRight(new) /\ Grows(row, new) /\ (Half(new) => Half(row)) /\ ~Waiting(new)
    BY <1>1, <2>1, <2>2, <2>3 DEF RowIsRight, Grows, Half, Waiting
  <2> QED BY <2>1, <2>3, <2>4, RowStep DEF row
<1> QED BY <1>2, <1>3, <1>4, <1>5, <1>6, <1>7, <1>8, <1>9

\* The steps of a request that write no row.
LEMMA RequestActions ==
  ASSUME ProvisioningInv, NEW c \in Callers,
         \/ \E m \in Mails, kind \in {"office", "staff"} : Looks(c, kind, m)
         \/ \E p \in Persons : VerifyEmail(c, p) \/ InspectActiveAdmin(c, p)
         \/ RepairReads(c) \/ Dies(c)
  PROVE  ProvisioningInv'
<1>0. caller[c] \in RequestRow /\ Knows(caller[c], person)  BY DEF ProvisioningInv, RequestsInv
<1>9. \A p \in Persons : HasUser(p) => person[p] \in UserRow /\ RowIsRight(person[p])
  BY DEF ProvisioningInv, AccountsInv, RowIsRight
<1>8. Untouched \in RequestRow  BY DEF Untouched, RequestRow, RequestSteps
<1>1. ASSUME NEW m \in Mails, NEW kind \in {"office", "staff"}, Looks(c, kind, m)
      PROVE  ProvisioningInv'
  <2> DEFINE at == IF kind = "office" => MailFree(m) THEN "sign up" ELSE "refused"
             r == [Untouched EXCEPT !.at = at, !.kind = kind, !.mail = m]
  <2>1. caller[c].at = "rest" /\ caller' = [caller EXCEPT ![c] = r] /\ UNCHANGED <<person, errands>>
    BY <1>1, Zenon DEF Looks, TurnsTo, Stage
  <2>2. at \in {"sign up", "refused"}  OBVIOUS
  <2> HIDE DEF at
  <2>4. r \in RequestRow /\ r.at = at /\ r.mail = m  BY <1>8, <2>2 DEF RequestRow, RequestSteps
  <2> HIDE DEF r
  <2>5. Knows(r, person)  BY <2>2, <2>4 DEF Knows, OnSomebody
  <2> QED BY <2>1, <2>2, <2>4, <2>5, RequestStep DEF AtWork, Proving
<1>2. ASSUME NEW p \in Persons, VerifyEmail(c, p)
      PROVE  ProvisioningInv'
  <2> DEFINE at == IF ReadyToVerify(person[p]) THEN "prove" ELSE "refused"
             r == [Untouched EXCEPT !.at = at, !.kind = "verify", !.who = p, !.mail = person[p].mail]
  <2>0. HasUser(p) /\ person[p].mail \in Mails  BY <1>2, <1>9 DEF VerifyEmail, UserRow
  <2>1. caller[c].at = "rest" /\ caller' = [caller EXCEPT ![c] = r] /\ UNCHANGED <<person, errands>>
    BY <1>2, Zenon DEF VerifyEmail, TurnsTo, Stage
  <2>2. at \in {"prove", "refused"} /\ (at = "prove" => ReadyToVerify(person[p]))  OBVIOUS
  <2> HIDE DEF at
  <2>4. r \in RequestRow /\ r.at = at /\ r.who = p  BY <1>8, <2>0, <2>2 DEF RequestRow, RequestSteps
  <2> HIDE DEF r
  <2>5. Knows(r, person)  BY <2>2, <2>4 DEF Knows, OnSomebody, ReadyToVerify
  <2> QED BY <2>1, <2>2, <2>4, <2>5, RequestStep DEF AtWork, Proving
<1>3. ASSUME NEW p \in Persons, InspectActiveAdmin(c, p)
      PROVE  ProvisioningInv'
  <2> DEFINE at == IF Healthy(person[p]) THEN "done" ELSE "repair"
             r == [Untouched EXCEPT !.at = at, !.kind = "repair", !.who = p]
  <2>1. caller[c].at = "rest" /\ caller' = [caller EXCEPT ![c] = r] /\ UNCHANGED <<person, errands>>
    BY <1>3, Zenon DEF InspectActiveAdmin, TurnsTo, Stage
  <2>2. at \in {"done", "repair"}  OBVIOUS
  <2> HIDE DEF at
  <2>4. r \in RequestRow /\ r.at = at /\ r.who = p  BY <1>8, <2>2 DEF RequestRow, RequestSteps
  <2> HIDE DEF r
  <2>5. Knows(r, person)  BY <2>2, <2>4 DEF Knows, OnSomebody
  <2> QED BY <2>1, <2>2, <2>4, <2>5, RequestStep DEF AtWork, Proving
<1>4. CASE RepairReads(c)
  <2> DEFINE p == caller[c].who
  <2>1. caller[c].at = "repair" /\ p \in Persons
    BY <1>0, <1>4 DEF RepairReads, Stage, Knows, OnSomebody
  <2>2. UNCHANGED <<person, errands>>  BY <1>4 DEF RepairReads
  <2>3. CASE HasUser(p) /\ Eligible(person[p])
    <3> DEFINE r == [caller[c] EXCEPT !.at = "mend", !.saw = person[p]]
    <3>1. caller' = [caller EXCEPT ![c] = r]  BY <1>4, <2>3, Zenon DEF RepairReads
    <3>2. r \in RequestRow /\ r.at = "mend" /\ r.who = p /\ r.saw = person[p]
      BY <1>0, <1>9, <2>1, <2>3 DEF RequestRow, RequestSteps
    <3> HIDE DEF r
    <3>3. Knows(r, person)  BY <1>9, <2>1, <2>3, <3>2 DEF Knows, OnSomebody, Eligible, Usable
    <3> QED BY <2>1, <2>2, <3>1, <3>2, <3>3, RequestStep DEF AtWork, Proving
  <2>4. CASE ~(HasUser(p) /\ Eligible(person[p]))
    <3> DEFINE r == [caller[c] EXCEPT !.at = "refused"]
    <3>1. caller' = [caller EXCEPT ![c] = r]  BY <1>4, <2>4, Zenon DEF RepairReads
    <3>2. r \in RequestRow /\ r.at = "refused"  BY <1>0 DEF RequestRow, RequestSteps
    <3> HIDE DEF r
    <3>3. Knows(r, person)  BY <3>2 DEF Knows, OnSomebody
    <3> QED BY <2>1, <2>2, <3>1, <3>2, <3>3, RequestStep DEF AtWork, Proving
  <2> QED BY <2>3, <2>4
<1>5. CASE Dies(c)
  <2> DEFINE r == [caller[c] EXCEPT !.at = "died"]
  <2>1. caller' = [caller EXCEPT ![c] = r] /\ UNCHANGED <<person, errands>>  BY <1>5 DEF Dies, EndsAs
  <2>2. r \in RequestRow /\ r.at = "died" /\ r.who = caller[c].who  BY <1>0 DEF RequestRow, RequestSteps
  <2> HIDE DEF r
  <2>3. Knows(r, person)  BY <2>2 DEF Knows, OnSomebody
  <2> QED BY <2>1, <2>2, <2>3, RequestStep DEF AtWork, Proving
<1> QED BY <1>1, <1>2, <1>3, <1>4, <1>5

\* A request that ends without a word about anybody.
LEMMA EndsQuietly ==
  ASSUME ProvisioningInv, NEW c \in Callers, NEW how \in {"refused", "failed", "left", "done", "undo"},
         EndsAs(c, how), UNCHANGED <<person, errands>>,
         caller[c].at \notin {"died", "left"},
         caller[c].at = "activate" => person[caller[c].who] = Missing,
         caller[c].at \in {"complete", "undo"} => how \in {"left", "undo"},
         how = "undo" => caller[c].at = "complete"
  PROVE  ProvisioningInv'
<1>0. caller[c] \in RequestRow /\ Knows(caller[c], person)  BY DEF ProvisioningInv, RequestsInv
<1> DEFINE r == [caller[c] EXCEPT !.at = how]
<1>1. caller' = [caller EXCEPT ![c] = r]  BY DEF EndsAs
<1>2. r \in RequestRow /\ r.at = how /\ r.who = caller[c].who  BY <1>0 DEF RequestRow, RequestSteps
<1> HIDE DEF r
<1>3. Knows(r, person)  BY <1>0, <1>2 DEF Knows, OnSomebody
<1> QED BY <1>1, <1>2, <1>3, RequestStep DEF AtWork, Proving

LEMMA RegisterKeeps ==
  ASSUME ProvisioningInv, platform.verifies \in BOOLEAN,
         NEW c \in Callers, NEW m \in Mails, Register(c, m)
  PROVE  ProvisioningInv'
<1>0. caller[c].at = "rest" /\ UNCHANGED errands  BY DEF Register, Stage
<1>1. ASSUME NEW p \in Fresh, Writes(p, Registered(m)),
             TurnsTo(c, [Untouched EXCEPT !.at = "done", !.kind = "register", !.who = p])
      PROVE  ProvisioningInv'
  <2> DEFINE row == Registered(m)
             r == [Untouched EXCEPT !.at = "done", !.kind = "register", !.who = p]
  <2>1. /\ p \in Persons
        /\ \A d \in Callers : caller[d].who # p
    BY <1>1 DEF Fresh
  <2>2. caller' = [caller EXCEPT ![c] = r] /\ person' = [person EXCEPT ![p] = row]
    BY <1>1 DEF Writes, TurnsTo
  <2>3. /\ row \in UserRow /\ row.by = "self" /\ row.role = "ADMIN" /\ row.profile /\ row.site
        /\ row.subs = <<"ACTIVE">> /\ (row.verified \/ row.invited) /\ ~row.left /\ row.hand = {}
        /\ (row.status = "ACTIVE" => row.verified) /\ (row.status = "PENDING" => ~row.verified)
    BY DEF Registered, User, UserRow
  <2>4. Untouched \in RequestRow  BY DEF Untouched, RequestRow, RequestSteps
  <2>5. r \in RequestRow /\ r.at = "done" /\ r.who = p  BY <2>1, <2>4 DEF RequestRow, RequestSteps
  <2> HIDE DEF row, r
  <2>6. RowIsRight(row) /\ ~Half(row) /\ ~Waiting(row)
    <3>1. <<"ACTIVE">> # <<>>  OBVIOUS
    <3> QED BY <2>3, <3>1 DEF RowIsRight, Half, Waiting
  <2>7. Knows(r, person')  BY <2>5 DEF Knows, OnSomebody
  <2>8. OthersMayKnow(c, p, row)  BY <2>1 DEF OthersMayKnow
  <2> QED BY <1>0, <2>1, <2>2, <2>3, <2>5, <2>6, <2>7, <2>8, WriteStep DEF AtWork, Proving
<1>2. CASE EndsAs(c, "refused") /\ UNCHANGED person  BY <1>0, <1>2, EndsQuietly
<1> QED BY <1>1, <1>2 DEF Register

LEMMA SignsUpKeeps ==
  ASSUME ProvisioningInv, NEW c \in Callers, SignsUp(c)
  PROVE  ProvisioningInv'
<1>0. /\ caller[c].at = "sign up" /\ UNCHANGED errands
      /\ caller[c] \in RequestRow /\ Knows(caller[c], person)
  BY DEF SignsUp, Stage, ProvisioningInv, RequestsInv
<1> DEFINE m == caller[c].mail
           role == IF caller[c].kind = "office" THEN "ADMIN" ELSE "STAFF"
<1>1. ASSUME NEW p \in Fresh, Writes(p, SignedUp(m, role)),
             TurnsTo(c, [caller[c] EXCEPT !.at = "complete", !.who = p])
      PROVE  ProvisioningInv'
  <2>0. m \in Mails /\ role \in {"ADMIN", "STAFF"}  BY <1>0 DEF Knows
  <2> HIDE DEF m, role
  <2> DEFINE row == SignedUp(m, role)
             r == [caller[c] EXCEPT !.at = "complete", !.who = p]
  <2>1. /\ p \in Persons
        /\ \A d \in Callers : caller[d].who # p
    BY <1>1 DEF Fresh
  <2>2. caller' = [caller EXCEPT ![c] = r] /\ person' = [person EXCEPT ![p] = row]
    BY <1>1 DEF Writes, TurnsTo
  <2>3. /\ row \in UserRow /\ row.by = "office" /\ ~row.verified /\ ~row.profile /\ ~row.left
        /\ row.status = "PENDING"
    BY <2>0 DEF SignedUp, User, UserRow
  <2>5. r \in RequestRow /\ r.at = "complete" /\ r.who = p  BY <1>0, <2>1 DEF RequestRow, RequestSteps
  <2> HIDE DEF row, r
  <2>6. RowIsRight(row) /\ ~Waiting(row)  BY <2>3 DEF RowIsRight, Waiting
  <2>7. Knows(r, person')
    <3>1. person'[p] = row  BY <2>1, <2>2 DEF ProvisioningInv, AccountsInv
    <3>2. row # Missing  BY <2>3, ProvisioningAssumption
    <3> QED BY <2>1, <2>3, <2>5, <3>1, <3>2 DEF Knows, OnSomebody
  <2>8. OthersMayKnow(c, p, row)  BY <2>1 DEF OthersMayKnow
  <2> QED BY <1>0, <2>1, <2>2, <2>3, <2>5, <2>6, <2>7, <2>8, WriteStep DEF AtWork, Proving
<1>2. CASE EndsAs(c, "refused") /\ UNCHANGED person  BY <1>0, <1>2, EndsQuietly
<1> QED BY <1>1, <1>2 DEF SignsUp

\* What the completing transaction writes, whether its answer comes or not.
LEMMA CompletionWrites ==
  ASSUME ProvisioningInv, NEW c \in Callers, NEW how \in {"done", "undo"},
         caller[c].at = "complete", ~person[caller[c].who].profile, UNCHANGED errands,
         Writes(caller[c].who, Completed(person[caller[c].who])), EndsAs(c, how)
  PROVE  ProvisioningInv'
<1> DEFINE p == caller[c].who
           old == person[p]
           row == Completed(old)
           r == [caller[c] EXCEPT !.at = how]
<1>0. caller[c] \in RequestRow /\ Knows(caller[c], person)  BY DEF ProvisioningInv, RequestsInv
<1>1. p \in Persons /\ old # Missing /\ old.by = "office" /\ ~old.profile  BY <1>0 DEF Knows, OnSomebody
<1>2. old \in UserRow /\ RowIsRight(old)  BY <1>1 DEF ProvisioningInv, AccountsInv, HasUser, RowIsRight
<1>3. caller' = [caller EXCEPT ![c] = r] /\ person' = [person EXCEPT ![p] = row]  BY DEF Writes, EndsAs
<1>4. r \in RequestRow /\ r.at = how /\ r.who = p  BY <1>0 DEF RequestRow, RequestSteps
<1>5. \A d \in Callers : d # c /\ caller[d].at \in {"complete", "undo"} => caller[d].who # p
  BY DEF ProvisioningInv, RequestsInv
<1> HIDE DEF p, r
<1> HIDE DEF old
<1>6. /\ row \in UserRow /\ row.by = old.by /\ row.role = old.role /\ row.status = "ACTIVE"
      /\ row.verified = TRUE /\ row.profile = TRUE /\ row.left = old.left /\ row.subs = old.subs
      /\ row.site = (old.role = "ADMIN") /\ row.hand = old.hand
  BY <1>2 DEF Completed, UserRow
<1> HIDE DEF row
<1>7. RowIsRight(row) /\ ~Half(row) /\ ~Waiting(row)  BY <1>1, <1>2, <1>6 DEF RowIsRight, Half, Waiting
<1>8. Grows(old, row)  BY <1>1, <1>6 DEF Grows
<1>9. row # Missing  BY <1>6, ProvisioningAssumption
<1>10. Knows(r, person')
  <2>1. person'[p] = row  BY <1>1, <1>3 DEF ProvisioningInv, AccountsInv
  <2> QED BY <1>1, <1>4, <1>6, <1>9, <2>1 DEF Knows, OnSomebody
<1>11. OthersMayKnow(c, p, row)  BY <1>1, <1>8, <1>9 DEF OthersMayKnow, old
<1> QED BY <1>1, <1>3, <1>4, <1>5, <1>6, <1>7, <1>10, <1>11, WriteStep DEF AtWork, Proving, p

LEMMA UndoesKeeps ==
  ASSUME ProvisioningInv, NEW c \in Callers, Undoes(c)
  PROVE  ProvisioningInv'
<1>0. /\ caller[c].at = "undo" /\ UNCHANGED errands
      /\ caller[c] \in RequestRow /\ Knows(caller[c], person)
  BY DEF Undoes, Stage, ProvisioningInv, RequestsInv
<1>1. CASE Writes(caller[c].who, Missing) /\ EndsAs(c, "failed")
  <2> DEFINE p == caller[c].who
             r == [caller[c] EXCEPT !.at = "failed"]
  <2>1. p \in Persons /\ person[p] # Missing /\ person[p].by = "office"  BY <1>0 DEF Knows, OnSomebody
  <2>2. caller' = [caller EXCEPT ![c] = r] /\ person' = [person EXCEPT ![p] = Missing]
    BY <1>1 DEF Writes, EndsAs
  <2>3. r \in RequestRow /\ r.at = "failed" /\ r.who = p  BY <1>0 DEF RequestRow, RequestSteps
  <2>4. ASSUME NEW d \in Callers, d # c, caller[d].who = p
        PROVE  caller[d].at \notin {"complete", "undo"}
    BY <1>0, <2>4 DEF ProvisioningInv, RequestsInv
  <2>5. OthersMayKnow(c, p, Missing)  BY <2>4 DEF OthersMayKnow
  <2> HIDE DEF r
  <2>6. Knows(r, person')  BY <2>3 DEF Knows, OnSomebody
  <2> QED BY <1>0, <2>1, <2>2, <2>3, <2>5, <2>6, WriteStep DEF AtWork, Proving
<1>2. CASE EndsAs(c, "left") /\ UNCHANGED person  BY <1>0, <1>2, EndsQuietly
<1> QED BY <1>1, <1>2 DEF Undoes

LEMMA ProvesCodeKeeps ==
  ASSUME ProvisioningInv, NEW c \in Callers, ProvesCode(c)
  PROVE  ProvisioningInv'
<1> DEFINE p == caller[c].who
           old == person[p]
           row == [old EXCEPT !.verified = TRUE, !.invited = FALSE]
           r == [caller[c] EXCEPT !.at = "activate"]
           proves == HasUser(p) /\ old.mail = caller[c].mail /\ old.invited /\ old.role = "ADMIN"
<1>0. /\ caller[c].at = "prove" /\ UNCHANGED errands
      /\ caller[c] \in RequestRow /\ Knows(caller[c], person)
  BY DEF ProvesCode, Stage, ProvisioningInv, RequestsInv
<1>1. CASE ~proves
  <2>1. EndsAs(c, "refused") /\ UNCHANGED person  BY <1>1, Zenon DEF ProvesCode
  <2> QED BY <1>0, <2>1, EndsQuietly
<1>2. CASE proves
  <2>1. Writes(p, row) /\ EndsAs(c, "activate")  BY <1>2, Zenon DEF ProvesCode
  <2>2. caller' = [caller EXCEPT ![c] = r] /\ person' = [person EXCEPT ![p] = row]
    BY <2>1 DEF Writes, EndsAs
  <2>3. p \in Persons /\ old # Missing /\ old.profile /\ old.role = "ADMIN"
    BY <1>0, <1>2 DEF Knows, OnSomebody, HasUser
  <2>4. old \in UserRow /\ RowIsRight(old)
    BY <2>3 DEF ProvisioningInv, AccountsInv, HasUser, RowIsRight
  <2>5. r \in RequestRow /\ r.at = "activate" /\ r.who = p  BY <1>0 DEF RequestRow, RequestSteps
  <2> HIDE DEF p, r, old, proves
  <2>6. /\ row \in UserRow /\ row.by = old.by /\ row.role = old.role /\ row.status = old.status
        /\ row.verified = TRUE /\ row.profile = old.profile /\ row.left = old.left
        /\ row.subs = old.subs /\ row.site = old.site /\ row.hand = old.hand
    BY <2>4 DEF UserRow
  <2> HIDE DEF row
  <2>8. RowIsRight(row) /\ ~Half(row) /\ Grows(old, row)
    BY <2>3, <2>4, <2>6 DEF RowIsRight, Half, Grows
  <2>9. row # Missing  BY <2>6, ProvisioningAssumption
  <2>10. Knows(r, person')
    <3>1. person'[p] = row  BY <2>2, <2>3 DEF ProvisioningInv, AccountsInv
    <3> QED BY <2>3, <2>5, <2>6, <2>9, <3>1 DEF Knows, OnSomebody
  <2>11. OthersMayKnow(c, p, row)  BY <2>3, <2>8, <2>9 DEF OthersMayKnow, old
  <2> QED BY <1>0, <2>2, <2>3, <2>5, <2>6, <2>8, <2>10, <2>11, WriteStep DEF AtWork, Proving, p
<1> QED BY <1>1, <1>2

LEMMA ActivatesKeeps ==
  ASSUME ProvisioningInv, NEW c \in Callers, ActivatesVerified(c)
  PROVE  ProvisioningInv'
<1> DEFINE p == caller[c].who
           old == person[p]
           row == [old EXCEPT !.status = "ACTIVE"]
           r == [caller[c] EXCEPT !.at = "done"]
<1>0. /\ caller[c].at = "activate" /\ UNCHANGED errands
      /\ caller[c] \in RequestRow /\ Knows(caller[c], person)
  BY DEF ActivatesVerified, Stage, ProvisioningInv, RequestsInv
<1>1. CASE ~HasUser(p)  BY <1>0, <1>1, EndsQuietly DEF ActivatesVerified, HasUser
<1>2. CASE HasUser(p)
  <2>1. caller' = [caller EXCEPT ![c] = r] /\ person' = [person EXCEPT ![p] = row]
    BY <1>2 DEF ActivatesVerified, Writes, EndsAs
  <2>2. /\ p \in Persons /\ old # Missing /\ old.role = "ADMIN" /\ old.profile
        /\ old.verified \/ "address" \in old.hand
    BY <1>0, <1>2 DEF Knows, OnSomebody, HasUser
  <2>3. old \in UserRow /\ RowIsRight(old)
    BY <2>2 DEF ProvisioningInv, AccountsInv, HasUser, RowIsRight
  <2>4. r \in RequestRow /\ r.at = "done" /\ r.who = p  BY <1>0 DEF RequestRow, RequestSteps
  <2> HIDE DEF p, r, old
  <2>5. /\ row \in UserRow /\ row.by = old.by /\ row.role = old.role /\ row.status = "ACTIVE"
        /\ row.verified = old.verified /\ row.profile = old.profile /\ row.left = old.left
        /\ row.subs = old.subs /\ row.site = old.site /\ row.invited = old.invited
        /\ row.hand = old.hand
    BY <2>3 DEF UserRow
  <2> HIDE DEF row
  <2>6. RowIsRight(row) /\ ~Half(row) /\ ~Waiting(row) /\ Grows(old, row)
    BY <2>2, <2>3, <2>5 DEF RowIsRight, Half, Waiting, Grows
  <2>7. row # Missing  BY <2>5, ProvisioningAssumption
  <2>8. Knows(r, person')  BY <2>4 DEF Knows, OnSomebody
  <2>9. OthersMayKnow(c, p, row)  BY <2>2, <2>6, <2>7 DEF OthersMayKnow, old
  <2> QED BY <1>0, <2>1, <2>2, <2>4, <2>5, <2>6, <2>8, <2>9, WriteStep DEF AtWork, Proving, p
<1> QED BY <1>1, <1>2

LEMMA RepairKeeps ==
  ASSUME ProvisioningInv, NEW c \in Callers, RepairActiveAdmin(c)
  PROVE  ProvisioningInv'
<1> DEFINE p == caller[c].who
           saw == caller[c].saw
           old == person[p]
           row == Mended(saw, old)
           r == [caller[c] EXCEPT !.at = "mended"]
           refused == ~HasUser(p) \/ old.profile # saw.profile \/ TrialRefused(saw, old)
<1>0. /\ caller[c].at = "mend" /\ UNCHANGED errands
      /\ caller[c] \in RequestRow /\ Knows(caller[c], person)
  BY DEF RepairActiveAdmin, Stage, ProvisioningInv, RequestsInv
<1>1. CASE refused
  <2>1. EndsAs(c, "refused") /\ UNCHANGED person  BY <1>1, Zenon DEF RepairActiveAdmin
  <2> QED BY <1>0, <2>1, EndsQuietly
<1>2. CASE ~refused
  <2>1. Writes(p, row) /\ EndsAs(c, "mended")  BY <1>2, Zenon DEF RepairActiveAdmin
  <2>2. caller' = [caller EXCEPT ![c] = r] /\ person' = [person EXCEPT ![p] = row]
    BY <2>1 DEF Writes, EndsAs
  <2>3. /\ p \in Persons /\ saw \in UserRow /\ old # Missing
        /\ old.role = "ADMIN" /\ (saw.subs # <<>> => old.subs # <<>>)
    BY <1>0, <1>2 DEF Knows, OnSomebody, HasUser
  <2>4. old \in UserRow /\ RowIsRight(old)
    BY <2>3 DEF ProvisioningInv, AccountsInv, HasUser, RowIsRight
  <2>5. saw.subs = <<>> => old.subs = <<>>  BY <1>2 DEF TrialRefused, LacksTrial
  <2>6. r \in RequestRow /\ r.at = "mended" /\ r.who = p  BY <1>0 DEF RequestRow, RequestSteps
  <2> DEFINE subs == IF saw.subs = <<>> THEN Append(old.subs, "ACTIVE") ELSE old.subs
  <2> HIDE DEF p, r, old, saw, refused
  <2>7. subs \in {<<>>, <<"ACTIVE">>, <<"EXPIRED">>} /\ subs # <<>>
    <3>1. CASE saw.subs = <<>>
      <4>1. Append(<<>>, "ACTIVE") = <<"ACTIVE">> /\ <<"ACTIVE">> # <<>>  OBVIOUS
      <4> QED BY <2>5, <3>1, <4>1
    <3>2. CASE saw.subs # <<>>  BY <2>3, <2>4, <3>2 DEF UserRow
    <3> QED BY <3>1, <3>2
  <2>8. row = [old EXCEPT !.profile = TRUE, !.site = TRUE, !.subs = subs]  BY DEF Mended, LacksTrial
  <2> HIDE DEF row, subs
  <2>9. /\ row \in UserRow /\ row.by = old.by /\ row.role = old.role /\ row.status = old.status
        /\ row.verified = old.verified /\ row.profile = TRUE /\ row.left = old.left
        /\ row.subs = subs /\ row.site = TRUE /\ row.invited = old.invited
        /\ row.hand = old.hand
    BY <2>4, <2>7, <2>8 DEF UserRow
  <2>10. RowIsRight(row) /\ ~Half(row) /\ (Waiting(row) => Waiting(old)) /\ Grows(old, row)
    BY <2>3, <2>4, <2>7, <2>9 DEF RowIsRight, Half, Waiting, Grows
  <2>11. row # Missing  BY <2>9, ProvisioningAssumption
  <2>12. Knows(r, person')
    <3>1. person'[p] = row  BY <2>2, <2>3 DEF ProvisioningInv, AccountsInv
    <3> QED BY <2>3, <2>6, <2>7, <2>9, <2>11, <3>1 DEF Knows, OnSomebody
  <2>13. OthersMayKnow(c, p, row)  BY <2>3, <2>10, <2>11 DEF OthersMayKnow, old
  <2> QED BY <1>0, <2>2, <2>3, <2>6, <2>9, <2>10, <2>12, <2>13, WriteStep DEF AtWork, Proving, p, old
<1> QED BY <1>1, <1>2

LEMMA InitHasWholeAccounts ==
  ASSUME NEW mixes, InitProvisioning(mixes)
  PROVE  ProvisioningInv /\ platform.verifies \in BOOLEAN
<1>1. platform.verifies \in BOOLEAN
  <2>1. CASE errands = {}
    <3>1. platform = [open |-> TRUE, verifies |-> TRUE, trial |-> TRUE]  BY <2>1 DEF InitProvisioning
    <3> QED BY <3>1
  <2>2. CASE errands # {}
    <3>1. platform \in [open : BOOLEAN, verifies : BOOLEAN, trial : BOOLEAN]
      BY <2>2 DEF InitProvisioning
    <3> QED BY <3>1
  <2> QED BY <2>1, <2>2
<1>2. \A c \in Callers : caller[c] = Untouched  BY DEF InitProvisioning
<1>3. Untouched \in RequestRow /\ Untouched.at = "rest"  BY DEF Untouched, RequestRow, RequestSteps
<1>4. RequestsInv
  <2>1. caller \in [Callers -> RequestRow]  BY <1>3 DEF InitProvisioning
  <2> QED BY <1>2, <1>3, <2>1 DEF RequestsInv, Knows, OnSomebody
<1>5. ASSUME NEW m \in Mails, NEW row \in FromBefore(m), Consistent(row)
      PROVE  row \in UserRow /\ RowIsRight(row) /\ ~Half(row) /\ ~Waiting(row)
  <2>1. row \in FromBefore(m)  OBVIOUS
  <2>2. /\ row \in UserRow /\ row.by = "before" /\ row.role = "ADMIN" /\ row.verified
        /\ row.status = "ACTIVE" /\ ~row.left /\ row.hand = {}
    BY <2>1 DEF FromBefore, UserRow
  <2> QED BY <2>2 DEF RowIsRight, Half, Waiting
<1>6. /\ person \in [Persons -> UserRow \cup {Missing}]
      /\ \A p \in Persons : person[p] # Missing =>
             RowIsRight(person[p]) /\ ~Half(person[p]) /\ ~Waiting(person[p])
  <2>1. CASE "before" \in errands
    <3>1. PICK p \in Persons, m \in Mails :
             \E row \in {r \in FromBefore(m) : Consistent(r)} :
                 person = [q \in Persons |-> IF q = p THEN row ELSE Missing]
      BY <2>1 DEF InitProvisioning
    <3> QED BY <1>5, <3>1
  <2>2. CASE "before" \notin errands  BY <2>2 DEF InitProvisioning
  <2> QED BY <2>1, <2>2
<1> QED BY <1>1, <1>4, <1>6 DEF ProvisioningInv, AccountsInv, HalvesAreKnown, HasUser, Half, Waiting

\* What registers itself is whole; half an account is some request's work, or what a death or
\* a failed deletion left, and lets nobody in but by the office's hand; ACTIVE and verified go
\* together but for the office, a death or a reset; a repair leaves a whole business and none
\* gets a second trial: for any persons, addresses and requests, any mix of errands, with or
\* without what earlier releases left behind, and wherever a request fails or dies
\* (Auth/accountProvisioning.service.ts, Auth/accountIntegrity.service.ts,
\* SuperAdmin/tenantAdmin.service.ts).
THEOREM AccountsStayWhole ==
  ASSUME NEW mixes
  PROVE  ProvisioningSpec(mixes) => []AccountsAreWhole
<1> DEFINE Inv == ProvisioningInv /\ platform.verifies \in BOOLEAN
<1>1. InitProvisioning(mixes) => Inv  BY InitHasWholeAccounts
<1>2. Inv /\ [ProvisioningNext]_provisioningVars => Inv'
  <2> SUFFICES ASSUME Inv, [ProvisioningNext]_provisioningVars  PROVE  Inv'
    OBVIOUS
  <2>0. platform' = platform
    BY DEF provisioningVars, ProvisioningNext, Register, Looks, SignsUp, Completes, CompletionFails, Undoes,
           Dies, VerifyEmail, InspectActiveAdmin, ProvesCode, ActivatesVerified, RepairReads,
           RepairActiveAdmin, DeleteStaff, ResendOtp, TrialEnds, BackfillWebsite, SetAdminStatus,
           ResetPassword, VerifyGlobalUser, UpdateTenantOwner
  <2>1. ASSUME NEW c \in Callers, NEW m \in Mails, Register(c, m)  PROVE  ProvisioningInv'
    BY <2>1, RegisterKeeps
  <2>2. ASSUME NEW c \in Callers, SignsUp(c)  PROVE  ProvisioningInv'  BY <2>2, SignsUpKeeps
  <2>3. ASSUME NEW c \in Callers, Completes(c)  PROVE  ProvisioningInv'
    BY <2>3, CompletionWrites, EndsQuietly DEF Completes, Stage
  <2>4. ASSUME NEW c \in Callers, CompletionFails(c)  PROVE  ProvisioningInv'
    <3>1. CASE UNCHANGED person  BY <2>4, <3>1, EndsQuietly DEF CompletionFails, Stage
    <3>2. CASE ~person[caller[c].who].profile /\ Writes(caller[c].who, Completed(person[caller[c].who]))
      BY <2>4, <3>2, CompletionWrites DEF CompletionFails, Stage
    <3> QED BY <2>4, <3>1, <3>2 DEF CompletionFails
  <2>5. ASSUME NEW c \in Callers, Undoes(c)  PROVE  ProvisioningInv'  BY <2>5, UndoesKeeps
  <2>6. ASSUME NEW c \in Callers, ProvesCode(c)  PROVE  ProvisioningInv'  BY <2>6, ProvesCodeKeeps
  <2>7. ASSUME NEW c \in Callers, ActivatesVerified(c)  PROVE  ProvisioningInv'  BY <2>7, ActivatesKeeps
  <2>8. ASSUME NEW c \in Callers, RepairActiveAdmin(c)  PROVE  ProvisioningInv'  BY <2>8, RepairKeeps
  <2>9. ASSUME NEW c \in Callers,
               \/ \E m \in Mails, kind \in {"office", "staff"} : Looks(c, kind, m)
               \/ \E p \in Persons : VerifyEmail(c, p) \/ InspectActiveAdmin(c, p)
               \/ RepairReads(c) \/ Dies(c)
        PROVE  ProvisioningInv'
    BY <2>9, RequestActions
  <2>10. ASSUME NEW p \in Persons,
                \/ DeleteStaff(p) \/ ResendOtp(p) \/ TrialEnds(p) \/ BackfillWebsite(p)
                \/ ResetPassword(p) \/ VerifyGlobalUser(p) \/ \E m \in Mails : UpdateTenantOwner(p, m)
                \/ \E to \in {"ACTIVE", "SUSPENDED"} : SetAdminStatus(p, to)
         PROVE  ProvisioningInv'
    BY <2>10, RowActions
  <2>11. CASE UNCHANGED provisioningVars
    BY <2>11 DEF provisioningVars, ProvisioningInv, AccountsInv, RequestsInv, HalvesAreKnown, HasUser,
                 Unfinished, RowIsRight
  <2>12. ASSUME ProvisioningNext  PROVE  ProvisioningInv'
    BY <2>12, <2>1, <2>2, <2>3, <2>4, <2>5, <2>6, <2>7, <2>8, <2>9, <2>10 DEF ProvisioningNext
  <2> QED BY <2>0, <2>11, <2>12
<1>3. Inv => AccountsAreWhole  BY InvImpliesWhole
<1> QED BY <1>1, <1>2, <1>3, PTL DEF ProvisioningSpec

------------------------
(* Entitlements *)

DeskStages == {"rest", "write", "find", "invalidate", "look", "persist"}
DeskRow == [at : DeskStages, changed : BOOLEAN, left : SUBSET Organizations,
            listed : Listings \cup {Unset}, by : Supporters \cup {Unset}, of : Organizations \cup {Unset}]
SupportRow == [by : Supporters, tenant : Organizations]

\* What a request of the office holds at each stage.
DeskIsRight(request, exists) ==
    /\ request \in DeskRow
    /\ request.at # "invalidate" => request.left = {}
    /\ request.at \in {"write", "find"} => "plan" \in chores /\ exists
    /\ request.at \in {"look", "persist"} => request.by \in Supporters /\ request.of \in Organizations

DesksAreRight ==
    /\ desk \in [Desks -> DeskRow]
    /\ \A r \in Desks : DeskIsRight(desk[r], plan.exists)
    /\ "race" \notin chores =>
          \A r, q \in Desks : ~At(r, "rest") /\ ~At(q, "rest") => r = q

AnswersAreTyped ==
    /\ DOMAIN kept = Organizations
    /\ DOMAIN holder = Organizations
    /\ plan \in [exists : BOOLEAN, active : BOOLEAN, listed : Listings]
    /\ plan.exists \/ \A o \in Organizations : kept[o] = Unset

\* The two circumstances in which nothing is promised.
Steady == "restart" \notin chores /\ ~({"plan", "race"} \subseteq chores)
Counts(o) == kept[o] # Unset /\ kept[o].allowed /\ o \notin unsure

\* Nobody who is let in has lost the subscription or the organization, unless a request
\* is about to invalidate the answer; and an answer is the present one unless the plan's
\* holders are still to be found, too.
AnswersAreFresh ==
    Steady =>
        /\ \A r \in Desks : At(r, "write") /\ ~desk[r].changed => desk[r].listed \in {Unset, plan.listed}
        /\ \A o \in Organizations : Counts(o) /\ (\A r \in Desks : o \notin desk[r].left) => holder[o].active
        /\ \A o \in Organizations : Counts(o) /\ ~Invalidating(o) => kept[o] = Answer(o)

\* While requests follow one another, a session that lives is its actor's only one.
SupportIsOnce ==
    /\ support \in [SupportIds -> SupportRow \cup {Unset}]
    /\ actorKey \in [Supporters -> SupportIds \cup {Unset}]
    /\ "race" \notin chores =>
          /\ \A a \in Supporters : \A s \in LiveSessions(a) : actorKey[a] = s
          /\ \A r \in Desks : At(r, "persist") => LiveSessions(desk[r].by) = {}

EntitlementInv == DesksAreRight /\ AnswersAreTyped /\ AnswersAreFresh /\ SupportIsOnce

LEMMA InvImpliesAccess == EntitlementInv => AccessEndsWithItsGrant
  BY DEF EntitlementInv, AnswersAreFresh, SupportIsOnce, AccessEndsWithItsGrant, Steady, Counts

------------------------
\* One request moves on.
LEMMA DeskMoves ==
  ASSUME DesksAreRight, NEW r \in Desks, NEW request, Sits(r, request), UNCHANGED chores,
         plan.exists => plan'.exists,
         DeskIsRight(request, plan'.exists),
         At(r, "rest") => MayBegin(r) \/ request.at = "rest"
  PROVE  /\ DesksAreRight'
         /\ \A q \in Desks : desk'[q] = IF q = r THEN request ELSE desk[q]
<1>1. \A q \in Desks : desk'[q] = IF q = r THEN request ELSE desk[q]  BY DEF DesksAreRight, Sits
<1>2. desk' \in [Desks -> DeskRow]  BY DEF DesksAreRight, DeskIsRight, Sits
<1>3. \A q \in Desks : DeskIsRight(desk'[q], plan'.exists)  BY <1>1 DEF DesksAreRight, DeskIsRight
<1>4. "race" \notin chores =>
         \A q, t \in Desks : desk'[q].at # "rest" /\ desk'[t].at # "rest" => q = t
  BY <1>1 DEF DesksAreRight, At, MayBegin
<1> QED BY <1>1, <1>2, <1>3, <1>4 DEF DesksAreRight, DeskIsRight, At

LEMMA RestIsRight ==
  ASSUME NEW exists
  PROVE  DeskIsRight(AtRest, exists) /\ AtRest.at = "rest" /\ AtRest.left = {}
  BY DEF DeskIsRight, AtRest, DeskRow, DeskStages

\* A row is written, and the request is about to invalidate the answer.
LEMMA TenantsAreWritten ==
  ASSUME EntitlementInv, NEW r \in Desks, NEW o \in Organizations, NEW new, WriteTenant(r, o, new)
  PROVE  EntitlementInv'
<1> DEFINE request == [AtRest EXCEPT !.at = "invalidate", !.left = {o}]
<1>1. /\ Sits(r, request) /\ MayBegin(r) /\ holder' = [holder EXCEPT ![o] = new]
      /\ UNCHANGED <<plan, kept, unsure, support, actorKey, chores>>
  BY DEF WriteTenant, supportVars
<1>2. DeskIsRight(request, plan.exists) /\ request.at = "invalidate" /\ request.left = {o}
  BY RestIsRight DEF DeskIsRight, DeskRow, DeskStages
<1> HIDE DEF request
<1>3. /\ DesksAreRight'
      /\ \A q \in Desks : desk'[q] = IF q = r THEN request ELSE desk[q]
  BY <1>1, <1>2, DeskMoves DEF EntitlementInv
<1>4. At(r, "rest") /\ desk[r].left = {}
  BY <1>1 DEF MayBegin, EntitlementInv, DesksAreRight, DeskIsRight, At
<1>5. \A p \in Organizations : p # o => holder'[p] = holder[p]
  BY <1>1 DEF EntitlementInv, AnswersAreTyped
<1>6. AnswersAreTyped'  BY <1>1 DEF EntitlementInv, AnswersAreTyped
<1>7. AnswersAreFresh'
  <2> SUFFICES ASSUME Steady  PROVE AnswersAreFresh'
    BY <1>1 DEF AnswersAreFresh, Steady
  <2>1. \A q \in Desks : desk'[q].at = "write" /\ ~desk'[q].changed => desk'[q].listed \in {Unset, plan'.listed}
    BY <1>1, <1>2, <1>3 DEF EntitlementInv, AnswersAreFresh, At
  <2>2. ASSUME NEW p \in Organizations, Counts(p), \A q \in Desks : p \notin desk'[q].left
        PROVE  holder'[p].active
    <3>1. p # o /\ \A q \in Desks : p \notin desk[q].left  BY <1>2, <1>3, <1>4, <2>2
    <3> QED BY <1>5, <2>2, <3>1 DEF EntitlementInv, AnswersAreFresh
  <2>3. ASSUME NEW p \in Organizations, Counts(p),
               \A q \in Desks : desk'[q].at # "find" /\ p \notin desk'[q].left
        PROVE  kept[p] = Answer(p)'
    <3>1. p # o /\ ~Invalidating(p)  BY <1>2, <1>3, <1>4, <2>3 DEF Invalidating, At
    <3>2. Answer(p)' = Answer(p)  BY <1>1, <1>5, <3>1 DEF Answer, EffectiveFeatures, Includes
    <3> QED BY <2>3, <3>1, <3>2 DEF EntitlementInv, AnswersAreFresh
  <2> QED BY <1>1, <2>1, <2>2, <2>3 DEF AnswersAreFresh, Counts, Invalidating, At
<1>8. SupportIsOnce'  BY <1>1, <1>2, <1>3 DEF EntitlementInv, SupportIsOnce, LiveSessions, At
<1> QED BY <1>3, <1>6, <1>7, <1>8 DEF EntitlementInv

\* Steps of a request that write neither plan, nor holders, nor answers, nor sessions.
LEMMA RequestsGoOn ==
  ASSUME EntitlementInv, NEW r \in Desks, NEW request, Sits(r, request),
         UNCHANGED <<plan, holder, kept, unsure, support, actorKey, chores>>,
         DeskIsRight(request, plan.exists),
         At(r, "rest") => MayBegin(r) \/ request.at = "rest",
         request.at = "write" /\ ~request.changed /\ Steady => request.listed \in {Unset, plan.listed},
         At(r, "find") =>
             \A o \in Organizations : holder[o].active => o \in request.left \/ request.at = "find",
         desk[r].left \subseteq request.left,
         request.at = "persist" /\ "race" \notin chores => LiveSessions(request.by) = {}
  PROVE  EntitlementInv'
<1>1. /\ DesksAreRight'
      /\ \A q \in Desks : desk'[q] = IF q = r THEN request ELSE desk[q]
  BY DeskMoves DEF EntitlementInv
<1>2. AnswersAreTyped'  BY DEF EntitlementInv, AnswersAreTyped
<1>3. AnswersAreFresh'
  <2> SUFFICES ASSUME Steady  PROVE AnswersAreFresh'
    BY DEF AnswersAreFresh, Steady
  <2>1. \A q \in Desks : desk'[q].at = "write" /\ ~desk'[q].changed => desk'[q].listed \in {Unset, plan'.listed}
    BY <1>1 DEF EntitlementInv, AnswersAreFresh, At
  <2>2. ASSUME NEW p \in Organizations, Counts(p), \A q \in Desks : p \notin desk'[q].left
        PROVE  holder[p].active
    BY <1>1, <2>2 DEF EntitlementInv, AnswersAreFresh
  <2>3. ASSUME NEW p \in Organizations, Counts(p),
               \A q \in Desks : desk'[q].at # "find" /\ p \notin desk'[q].left
        PROVE  kept[p] = Answer(p)
    <3>1. holder[p].active  BY <2>2, <2>3
    <3>2. ~Invalidating(p)  BY <1>1, <2>3, <3>1 DEF Invalidating, At
    <3> QED BY <2>3, <3>2 DEF EntitlementInv, AnswersAreFresh
  <2>4. \A p \in Organizations : Answer(p)' = Answer(p)  BY DEF Answer, EffectiveFeatures, Includes
  <2> QED BY <2>1, <2>2, <2>3, <2>4 DEF AnswersAreFresh, Counts, Invalidating, At
<1>4. SupportIsOnce'  BY <1>1 DEF EntitlementInv, SupportIsOnce, LiveSessions, At
<1> QED BY <1>1, <1>2, <1>3, <1>4 DEF EntitlementInv

\* Steps of the office that write neither plan, nor holders, nor answers.
LEMMA TheOfficeGoesOn ==
  ASSUME EntitlementInv, NEW r \in Desks,
         \/ \E listed \in Listings \cup {Unset} : StartPlanUpdate(r, listed)
         \/ FindAffected(r) \/ Answered(r) \/ LookForSession(r)
         \/ \E a \in Supporters, o \in Organizations : StartSupportMode(r, a, o)
  PROVE  EntitlementInv'
<1>0. /\ desk[r] \in DeskRow /\ DeskIsRight(desk[r], plan.exists)
      /\ "race" \notin chores => \A q \in Desks : ~At(r, "rest") /\ ~At(q, "rest") => r = q
  BY DEF EntitlementInv, DesksAreRight
<1>00. AtRest \in DeskRow  BY DEF AtRest, DeskRow, DeskStages
<1>1. ASSUME NEW listed \in Listings \cup {Unset}, StartPlanUpdate(r, listed)
      PROVE  EntitlementInv'
  <2> DEFINE changed == listed \notin {Unset, plan.listed}
             request == [AtRest EXCEPT !.at = "write", !.listed = listed, !.changed = changed]
  <2>1. /\ Sits(r, request) /\ MayBegin(r) /\ "plan" \in chores /\ plan.exists
        /\ UNCHANGED <<plan, holder, kept, unsure, support, actorKey, chores>>
    BY <1>1, Zenon DEF StartPlanUpdate, supportVars
  <2>2. changed \in BOOLEAN /\ (~changed => listed \in {Unset, plan.listed})  OBVIOUS
  <2> HIDE DEF changed
  <2>3. /\ request \in DeskRow /\ request.at = "write" /\ request.listed = listed
        /\ request.changed = changed /\ request.left = AtRest.left
    BY <1>00, <2>2 DEF DeskRow, DeskStages
  <2> HIDE DEF request
  <2>4. DeskIsRight(request, plan.exists)  BY <2>1, <2>3, RestIsRight DEF DeskIsRight
  <2>5. At(r, "rest") /\ desk[r].left = {}  BY <1>0, <2>1 DEF MayBegin, DeskIsRight, At
  <2> QED BY <2>1, <2>2, <2>3, <2>4, <2>5, RequestsGoOn DEF At
<1>2. CASE FindAffected(r)
  <2> DEFINE request == [AtRest EXCEPT !.at = "invalidate", !.left = AffectedSubscriptions]
  <2>1. /\ Sits(r, request) /\ At(r, "find")
        /\ UNCHANGED <<plan, holder, kept, unsure, support, actorKey, chores>>
    BY <1>2 DEF FindAffected, supportVars
  <2>2. AffectedSubscriptions = {o \in Organizations : holder[o].active}  BY DEF AffectedSubscriptions
  <2>3. request \in DeskRow /\ request.at = "invalidate" /\ request.left = AffectedSubscriptions
    BY <1>00, <2>2 DEF DeskRow, DeskStages
  <2> HIDE DEF request
  <2>4. DeskIsRight(request, plan.exists) /\ desk[r].left = {}  BY <1>0, <2>1, <2>3 DEF DeskIsRight, At
  <2> QED BY <2>1, <2>2, <2>3, <2>4, RequestsGoOn DEF At
<1>3. CASE Answered(r)
  <2>1. /\ Sits(r, AtRest) /\ At(r, "invalidate") /\ desk[r].left = {}
        /\ UNCHANGED <<plan, holder, kept, unsure, support, actorKey, chores>>
    BY <1>3 DEF Answered, supportVars
  <2> QED BY <2>1, RestIsRight, RequestsGoOn DEF At
<1>4. CASE LookForSession(r)
  <2>1. /\ At(r, "look") /\ desk[r].left = {} /\ desk[r].by \in Supporters
        /\ UNCHANGED <<plan, holder, kept, unsure, support, actorKey, chores>>
    BY <1>0, <1>4 DEF LookForSession, supportVars, DeskIsRight, At
  <2>2. CASE SupportsNobody(desk[r].by)
    <3> DEFINE request == [desk[r] EXCEPT !.at = "persist"]
    <3>1. Sits(r, request)  BY <1>4, <2>2, Zenon DEF LookForSession
    <3>2. /\ request \in DeskRow /\ request.at = "persist" /\ request.left = desk[r].left
          /\ request.by = desk[r].by /\ request.of = desk[r].of
      BY <1>0 DEF DeskRow, DeskStages
    <3> HIDE DEF request
    <3>3. DeskIsRight(request, plan.exists)  BY <1>0, <2>1, <3>2 DEF DeskIsRight, At
    <3>4. "race" \notin chores => LiveSessions(request.by) = {}
      BY <2>1, <2>2, <3>2, EntitlementAssumption DEF EntitlementInv, SupportIsOnce, SupportsNobody, LiveSessions
    <3> QED BY <2>1, <3>1, <3>2, <3>3, <3>4, RequestsGoOn DEF At
  <2>3. CASE ~SupportsNobody(desk[r].by)
    <3>1. Sits(r, AtRest)  BY <1>4, <2>3, Zenon DEF LookForSession
    <3> QED BY <2>1, <3>1, RestIsRight, RequestsGoOn DEF At
  <2> QED BY <2>2, <2>3
<1>5. ASSUME NEW a \in Supporters, NEW o \in Organizations, StartSupportMode(r, a, o)
      PROVE  EntitlementInv'
  <2> DEFINE request == [AtRest EXCEPT !.at = "look", !.by = a, !.of = o]
  <2>1. /\ Sits(r, request) /\ MayBegin(r)
        /\ UNCHANGED <<plan, holder, kept, unsure, support, actorKey, chores>>
    BY <1>5 DEF StartSupportMode, supportVars
  <2>2. /\ request \in DeskRow /\ request.at = "look" /\ request.by = a /\ request.of = o
        /\ request.left = AtRest.left
    BY <1>00 DEF DeskRow, DeskStages
  <2> HIDE DEF request
  <2>3. DeskIsRight(request, plan.exists)  BY <2>2, RestIsRight DEF DeskIsRight
  <2>4. At(r, "rest") /\ desk[r].left = {}  BY <1>0, <2>1 DEF MayBegin, DeskIsRight, At
  <2> QED BY <2>1, <2>2, <2>3, <2>4, RequestsGoOn DEF At
<1> QED BY <1>1, <1>2, <1>3, <1>4, <1>5

LEMMA PlansAreUpdated ==
  ASSUME EntitlementInv, NEW r \in Desks, NEW active \in BOOLEAN, UpdateSubscriptionPlan(r, active)
  PROVE  EntitlementInv'
<1>0. /\ desk[r] \in DeskRow /\ DeskIsRight(desk[r], plan.exists) /\ At(r, "write")
      /\ desk[r].left = {} /\ "plan" \in chores /\ plan.exists
      /\ UNCHANGED <<holder, kept, unsure, support, actorKey, chores>>
  BY DEF EntitlementInv, DesksAreRight, UpdateSubscriptionPlan, supportVars, DeskIsRight, At
<1> DEFINE new == [plan EXCEPT !.active = active,
                               !.listed = IF desk[r].listed = Unset THEN @ ELSE desk[r].listed]
<1>1. CASE plan' = new /\ Sits(r, IF desk[r].changed THEN [AtRest EXCEPT !.at = "find"] ELSE AtRest)
  <2> DEFINE request == IF desk[r].changed THEN [AtRest EXCEPT !.at = "find"] ELSE AtRest
  <2>1. /\ request \in DeskRow /\ request.at = (IF desk[r].changed THEN "find" ELSE "rest")
        /\ request.left = {}
    BY DEF AtRest, DeskRow, DeskStages
  <2>2. Sits(r, request)  BY <1>1
  <2> HIDE DEF request
  <2>3. /\ plan'.exists = plan.exists
        /\ plan'.listed = IF desk[r].listed = Unset THEN plan.listed ELSE desk[r].listed
    BY <1>1 DEF EntitlementInv, AnswersAreTyped
  <2>4. DeskIsRight(request, plan'.exists)  BY <1>0, <2>1, <2>3 DEF DeskIsRight
  <2>5. /\ DesksAreRight'
        /\ \A q \in Desks : desk'[q] = IF q = r THEN request ELSE desk[q]
    BY <1>0, <2>2, <2>3, <2>4, DeskMoves DEF At, EntitlementInv
  <2>6. AnswersAreTyped'
    <3>1. desk[r].listed = Unset \/ desk[r].listed \in Listings  BY <1>0 DEF DeskRow
    <3> QED BY <1>0, <1>1, <2>3, <3>1 DEF EntitlementInv, AnswersAreTyped
  <2>7. AnswersAreFresh'
    <3> SUFFICES ASSUME Steady  PROVE AnswersAreFresh'
      BY <1>0 DEF AnswersAreFresh, Steady
    <3>0. \A q \in Desks : q # r => desk[q].at = "rest" /\ desk[q].left = {}
      BY <1>0 DEF EntitlementInv, DesksAreRight, DeskIsRight, Steady, At
    <3>1. \A q \in Desks : desk'[q].at # "write" /\ desk'[q].left = {}  BY <2>1, <2>5, <3>0
    <3>2. ASSUME NEW p \in Organizations, Counts(p)  PROVE  holder[p].active
      BY <1>0, <3>0, <3>2 DEF EntitlementInv, AnswersAreFresh
    <3>3. ASSUME NEW p \in Organizations, Counts(p), \A q \in Desks : desk'[q].at # "find"
          PROVE  kept[p] = Answer(p)'
      <4>1. ~desk[r].changed  BY <2>1, <2>5, <3>3
      <4>2. plan'.listed = plan.listed  BY <1>0, <2>3, <4>1 DEF EntitlementInv, AnswersAreFresh
      <4>3. Answer(p)' = Answer(p)  BY <1>0, <4>2 DEF Answer, EffectiveFeatures, Includes
      <4>4. ~Invalidating(p)  BY <1>0, <3>0 DEF Invalidating, At
      <4> QED BY <3>3, <4>3, <4>4 DEF EntitlementInv, AnswersAreFresh
    <3> QED BY <1>0, <3>1, <3>2, <3>3 DEF AnswersAreFresh, Counts, Invalidating, At
  <2>8. SupportIsOnce'  BY <1>0, <2>1, <2>5 DEF EntitlementInv, SupportIsOnce, LiveSessions, At
  <2> QED BY <2>5, <2>6, <2>7, <2>8 DEF EntitlementInv
<1>2. CASE Sits(r, AtRest) /\ UNCHANGED plan  BY <1>0, <1>2, RestIsRight, RequestsGoOn DEF At
<1> QED BY <1>1, <1>2 DEF UpdateSubscriptionPlan

LEMMA PlansAreMade ==
  ASSUME EntitlementInv,
         SeedSubscriptionPlans \/ \E listed \in Listings : CreateSubscriptionPlan(listed)
  PROVE  EntitlementInv'
<1>1. UNCHANGED <<holder, kept, unsure, desk, support, actorKey, chores>>
  BY DEF SeedSubscriptionPlans, CreateSubscriptionPlan, supportVars
<1>2. plan' \in [exists : BOOLEAN, active : BOOLEAN, listed : Listings] /\ plan'.exists = TRUE
  <2>1. CASE SeedSubscriptionPlans
    <3> DEFINE listed == IF plan.exists THEN plan.listed ELSE [f \in Features |-> Seeded(f)]
               active == plan.exists => plan.active
    <3>1. plan' = [exists |-> TRUE, active |-> active,
                   listed |-> Normalized(listed, MissingWebsiteEntitlements(listed))]
      BY <2>1, Zenon DEF SeedSubscriptionPlans
    <3>2. \A f \in Features : Seeded(f) \in Entries
      <4>1. \A b \in BOOLEAN : Entry("catalogue", b) \in Entries  BY DEF Entries
      <4>2. \A f \in Features : (f \in SeededFeatures) \in BOOLEAN  OBVIOUS
      <4> QED BY <4>1, <4>2, Zenon DEF Seeded
    <3>3. listed \in Listings  BY <3>2 DEF EntitlementInv, AnswersAreTyped, Listings
    <3> HIDE DEF listed
    <3>4. MissingWebsiteEntitlements(listed) \in Listings
      BY <3>2 DEF MissingWebsiteEntitlements, Listings
    <3>5. Normalized(listed, MissingWebsiteEntitlements(listed)) \in Listings
      BY <3>3, <3>4 DEF Normalized, Listings
    <3>6. active \in BOOLEAN  OBVIOUS
    <3> HIDE DEF active
    <3> QED BY <3>1, <3>5, <3>6
  <2>2. ASSUME NEW listed \in Listings, CreateSubscriptionPlan(listed)
        PROVE  plan' \in [exists : BOOLEAN, active : BOOLEAN, listed : Listings] /\ plan'.exists = TRUE
    BY <2>2 DEF CreateSubscriptionPlan
  <2> QED BY <2>1, <2>2
<1>3. "restart" \in chores \/ ~plan.exists  BY DEF SeedSubscriptionPlans, CreateSubscriptionPlan
<1>4. DesksAreRight'  BY <1>1, <1>2 DEF EntitlementInv, DesksAreRight, DeskIsRight, At
<1>5. AnswersAreTyped'  BY <1>1, <1>2 DEF EntitlementInv, AnswersAreTyped
<1>6. AnswersAreFresh'
  <2> SUFFICES ASSUME Steady  PROVE AnswersAreFresh'
    BY <1>1 DEF AnswersAreFresh, Steady
  <2>1. ~plan.exists  BY <1>3 DEF Steady
  <2>2. \A o \in Organizations : kept'[o] = Unset  BY <1>1, <2>1 DEF EntitlementInv, AnswersAreTyped
  <2>3. \A r \in Desks : desk'[r].at # "write"
    BY <1>1, <2>1 DEF EntitlementInv, DesksAreRight, DeskIsRight
  <2> QED BY <2>2, <2>3 DEF AnswersAreFresh, Counts, At
<1>7. SupportIsOnce'  BY <1>1 DEF EntitlementInv, SupportIsOnce, LiveSessions, At
<1> QED BY <1>4, <1>5, <1>6, <1>7 DEF EntitlementInv

\* A request of the tenant, and the time to live of an answer.
LEMMA AnswersComeAndGo ==
  ASSUME EntitlementInv, NEW o \in Organizations, CheckSubscription(o) \/ AnswerExpires(o)
  PROVE  EntitlementInv'
<1>1. UNCHANGED <<plan, holder, desk, support, actorKey, chores>>
  BY DEF CheckSubscription, AnswerExpires, supportVars
<1>2. \E v \in {Answer(o), Unset} : kept' = [kept EXCEPT ![o] = v]
  BY DEF CheckSubscription, AnswerExpires
<1>3. \A p \in Organizations : kept'[p] = kept[p] \/ (p = o /\ kept'[p] \in {Answer(o), Unset})
  BY <1>2 DEF EntitlementInv, AnswersAreTyped
<1>4. DesksAreRight'  BY <1>1 DEF EntitlementInv, DesksAreRight, DeskIsRight, At
<1>5. AnswersAreTyped'
  BY <1>1, <1>2 DEF EntitlementInv, AnswersAreTyped, CheckSubscription, AnswerExpires
<1>6. \A p \in Organizations : p # o => (p \in unsure' <=> p \in unsure)
  BY DEF CheckSubscription, AnswerExpires
<1>7. AnswersAreFresh'
  <2> SUFFICES ASSUME Steady  PROVE AnswersAreFresh'
    BY <1>1 DEF AnswersAreFresh, Steady
  <2>1. \A p \in Organizations : Answer(p)' = Answer(p)  BY <1>1 DEF Answer, EffectiveFeatures, Includes
  <2>2. kept'[o] = Unset \/ kept'[o] = Answer(o)
    <3>1. CASE CheckSubscription(o)  BY <3>1 DEF CheckSubscription, EntitlementInv, AnswersAreTyped
    <3>2. CASE AnswerExpires(o)  BY <3>2 DEF AnswerExpires, EntitlementInv, AnswersAreTyped
    <3> QED BY <3>1, <3>2
  <2>3. \A p \in Organizations : p # o => kept'[p] = kept[p]
    BY <1>2 DEF EntitlementInv, AnswersAreTyped
  <2>4. Answer(o).allowed => holder[o].active  BY DEF Answer
  <2>5. \A r \in Desks : desk'[r].at = "write" /\ ~desk'[r].changed => desk'[r].listed \in {Unset, plan'.listed}
    BY <1>1 DEF EntitlementInv, AnswersAreFresh, At
  <2>6. ASSUME NEW p \in Organizations, kept'[p] # Unset, kept'[p].allowed, p \notin unsure',
               \A r \in Desks : p \notin desk[r].left
        PROVE  holder[p].active
    BY <1>6, <2>2, <2>3, <2>4, <2>6 DEF EntitlementInv, AnswersAreFresh, Counts
  <2>7. ASSUME NEW p \in Organizations, kept'[p] # Unset, kept'[p].allowed, p \notin unsure',
               ~Invalidating(p)
        PROVE  kept'[p] = Answer(p)
    BY <1>6, <2>2, <2>3, <2>7 DEF EntitlementInv, AnswersAreFresh, Counts
  <2> QED BY <1>1, <2>1, <2>5, <2>6, <2>7 DEF AnswersAreFresh, Counts, Invalidating, At
<1>8. SupportIsOnce'  BY <1>1 DEF EntitlementInv, SupportIsOnce, LiveSessions, At
<1> QED BY <1>4, <1>5, <1>7, <1>8 DEF EntitlementInv

LEMMA AnswersAreInvalidated ==
  ASSUME EntitlementInv, NEW r \in Desks, NEW o \in Organizations,
         InvalidateSubscriptionAccessCache(r, o)
  PROVE  EntitlementInv'
<1> DEFINE request == [desk[r] EXCEPT !.left = @ \ {o}]
<1>1. /\ Sits(r, request) /\ At(r, "invalidate")
      /\ UNCHANGED <<plan, holder, support, actorKey, chores>>
  BY DEF InvalidateSubscriptionAccessCache, supportVars
<1>2. desk[r] \in DeskRow /\ DeskIsRight(desk[r], plan.exists)  BY DEF EntitlementInv, DesksAreRight
<1>3. /\ request \in DeskRow /\ request.at = "invalidate" /\ request.left = desk[r].left \ {o}
  BY <1>1, <1>2 DEF At, DeskRow, DeskStages
<1> HIDE DEF request
<1>4. DeskIsRight(request, plan.exists)  BY <1>3 DEF DeskIsRight
<1>5. /\ DesksAreRight'
      /\ \A q \in Desks : desk'[q] = IF q = r THEN request ELSE desk[q]
  BY <1>1, <1>4, DeskMoves DEF EntitlementInv, At
<1>6. /\ kept' = [kept EXCEPT ![o] = Unset] \/ kept' = kept
      /\ o \in unsure' \/ kept'[o] = Unset
      /\ \A p \in Organizations : p # o => (p \in unsure' <=> p \in unsure)
  BY DEF InvalidateSubscriptionAccessCache, EntitlementInv, AnswersAreTyped
<1>7. AnswersAreTyped'  BY <1>1, <1>6 DEF EntitlementInv, AnswersAreTyped
<1>8. \A p \in Organizations : p # o => kept'[p] = kept[p]  BY <1>6 DEF EntitlementInv, AnswersAreTyped
<1>9. AnswersAreFresh'
  <2> SUFFICES ASSUME Steady  PROVE AnswersAreFresh'
    BY <1>1 DEF AnswersAreFresh, Steady
  <2>1. \A p \in Organizations : Answer(p)' = Answer(p)  BY <1>1 DEF Answer, EffectiveFeatures, Includes
  <2>2. \A q \in Desks : desk'[q].at = "write" /\ ~desk'[q].changed => desk'[q].listed \in {Unset, plan'.listed}
    BY <1>1, <1>3, <1>5 DEF EntitlementInv, AnswersAreFresh, At
  <2>3. ASSUME NEW p \in Organizations, kept'[p] # Unset, kept'[p].allowed, p \notin unsure'
        PROVE  p # o /\ Counts(p) /\ kept'[p] = kept[p]
    BY <1>6, <1>8, <2>3 DEF Counts
  <2>4. ASSUME NEW p \in Organizations, p # o, \A q \in Desks : p \notin desk'[q].left
        PROVE  \A q \in Desks : p \notin desk[q].left
    BY <1>3, <1>5, <2>4
  <2>5. ASSUME NEW p \in Organizations, p # o,
               \A q \in Desks : desk'[q].at # "find" /\ p \notin desk'[q].left
        PROVE  ~Invalidating(p)
    BY <1>1, <1>3, <1>5, <2>5 DEF Invalidating, At
  <2>6. ASSUME NEW p \in Organizations, kept'[p] # Unset, kept'[p].allowed, p \notin unsure',
               \A q \in Desks : p \notin desk'[q].left
        PROVE  holder[p].active
    BY <2>3, <2>4, <2>6 DEF EntitlementInv, AnswersAreFresh
  <2>7. ASSUME NEW p \in Organizations, kept'[p] # Unset, kept'[p].allowed, p \notin unsure',
               \A q \in Desks : desk'[q].at # "find" /\ p \notin desk'[q].left
        PROVE  kept'[p] = Answer(p)
    BY <2>3, <2>5, <2>7 DEF EntitlementInv, AnswersAreFresh
  <2> QED BY <1>1, <2>1, <2>2, <2>6, <2>7 DEF AnswersAreFresh, Counts, Invalidating, At
<1>10. SupportIsOnce'  BY <1>1, <1>3, <1>5 DEF EntitlementInv, SupportIsOnce, LiveSessions, At
<1> QED BY <1>5, <1>7, <1>9, <1>10 DEF EntitlementInv

------------------------
(* Support mode *)

LEMMA SessionsArePersisted ==
  ASSUME EntitlementInv, NEW r \in Desks, NEW s \in SupportIds, PersistSupportSession(r, s)
  PROVE  EntitlementInv'
<1> DEFINE a == desk[r].by
           new == [by |-> desk[r].by, tenant |-> desk[r].of]
<1>1. /\ Sits(r, AtRest) /\ At(r, "persist") /\ support[s] = Unset
      /\ support' = [support EXCEPT ![s] = new] /\ actorKey' = [actorKey EXCEPT ![a] = s]
      /\ UNCHANGED <<plan, holder, kept, unsure, chores>>
  BY DEF PersistSupportSession
<1>2. /\ desk[r].left = {} /\ a \in Supporters /\ new \in SupportRow /\ new.by = a
  BY <1>1 DEF EntitlementInv, DesksAreRight, DeskIsRight, At, SupportRow
<1> HIDE DEF a, new
<1>3. /\ DesksAreRight'
      /\ \A q \in Desks : desk'[q] = IF q = r THEN AtRest ELSE desk[q]
  BY <1>1, RestIsRight, DeskMoves DEF EntitlementInv
<1>4. AnswersAreTyped'  BY <1>1 DEF EntitlementInv, AnswersAreTyped
<1>5. AnswersAreFresh'
  <2>1. \A p \in Organizations : Answer(p)' = Answer(p) /\ (Invalidating(p)' <=> Invalidating(p))
    BY <1>1, <1>2, <1>3, RestIsRight DEF Answer, EffectiveFeatures, Includes, Invalidating, At
  <2>2. \A p \in Organizations :
           (\A q \in Desks : p \notin desk'[q].left) => \A q \in Desks : p \notin desk[q].left
    BY <1>2, <1>3
  <2>3. \A q \in Desks : desk'[q].at = "write" => desk'[q] = desk[q]  BY <1>3, RestIsRight
  <2> QED BY <1>1, <2>1, <2>2, <2>3 DEF EntitlementInv, AnswersAreFresh, Steady, Counts, At
<1>6. SupportIsOnce'
  <2>1. /\ support' \in [SupportIds -> SupportRow \cup {Unset}]
        /\ actorKey' \in [Supporters -> SupportIds \cup {Unset}]
    BY <1>1, <1>2 DEF EntitlementInv, SupportIsOnce
  <2>2. ASSUME "race" \notin chores, NEW b \in Supporters, NEW t \in SupportIds,
               support'[t] # Unset, support'[t].by = b
        PROVE  actorKey'[b] = t
    <3>1. CASE t = s
      <4>1. b = a  BY <1>1, <1>2, <2>2, <3>1 DEF EntitlementInv, SupportIsOnce
      <4> QED BY <1>1, <1>2, <3>1, <4>1 DEF EntitlementInv, SupportIsOnce
    <3>2. CASE t # s
      <4>1. support'[t] = support[t]  BY <1>1, <3>2 DEF EntitlementInv, SupportIsOnce
      <4>2. actorKey[b] = t  BY <2>2, <4>1 DEF EntitlementInv, SupportIsOnce, LiveSessions
      <4>3. b # a  BY <1>1, <2>2, <4>1 DEF EntitlementInv, SupportIsOnce, LiveSessions, a
      <4> QED BY <1>1, <1>2, <4>2, <4>3 DEF EntitlementInv, SupportIsOnce
    <3> QED BY <3>1, <3>2
  <2>3. ASSUME "race" \notin chores, NEW q \in Desks  PROVE  desk'[q].at # "persist"
    BY <1>1, <1>3, <2>3, RestIsRight DEF EntitlementInv, DesksAreRight, At
  <2> QED BY <1>1, <2>1, <2>2, <2>3 DEF SupportIsOnce, LiveSessions, At
<1> QED BY <1>3, <1>4, <1>5, <1>6 DEF EntitlementInv

LEMMA SessionsEnd ==
  ASSUME EntitlementInv, NEW a \in Supporters, NEW s \in SupportIds,
         EndSupportMode(a, s) \/ KeyExpires(a, s)
  PROVE  EntitlementInv'
<1>1. /\ s \in LiveSessions(a) /\ support' = [support EXCEPT ![s] = Unset]
      /\ UNCHANGED <<plan, holder, kept, unsure, desk, chores>>
      /\ \E k \in {Unset, actorKey[a]} : actorKey' = [actorKey EXCEPT ![a] = k]
  BY DEF EndSupportMode, Leave, KeyExpires
<1>2. DesksAreRight' /\ AnswersAreTyped'
  BY <1>1 DEF EntitlementInv, DesksAreRight, DeskIsRight, At, AnswersAreTyped
<1>3. AnswersAreFresh'
  <2>1. \A p \in Organizations : Answer(p)' = Answer(p)  BY <1>1 DEF Answer, EffectiveFeatures, Includes
  <2> QED BY <1>1, <2>1 DEF EntitlementInv, AnswersAreFresh, Steady, Counts, Invalidating, At
<1>4. SupportIsOnce'
  <2>1. /\ support' \in [SupportIds -> SupportRow \cup {Unset}]
        /\ actorKey' \in [Supporters -> SupportIds \cup {Unset}]
    BY <1>1 DEF EntitlementInv, SupportIsOnce
  <2>2. ASSUME "race" \notin chores, NEW b \in Supporters, NEW t \in SupportIds,
               support'[t] # Unset, support'[t].by = b
        PROVE  actorKey'[b] = t
    <3>1. t # s /\ support'[t] = support[t]  BY <1>1, <2>2 DEF EntitlementInv, SupportIsOnce
    <3>2. actorKey[b] = t  BY <2>2, <3>1 DEF EntitlementInv, SupportIsOnce, LiveSessions
    <3>3. b # a  BY <1>1, <2>2, <3>1, <3>2 DEF EntitlementInv, SupportIsOnce, LiveSessions
    <3> QED BY <1>1, <3>2, <3>3 DEF EntitlementInv, SupportIsOnce
  <2>3. ASSUME "race" \notin chores, NEW q \in Desks, desk[q].at = "persist",
               NEW t \in SupportIds, support'[t] # Unset, support'[t].by = desk[q].by
        PROVE  FALSE
    <3>1. support'[t] = support[t]  BY <1>1, <2>3 DEF EntitlementInv, SupportIsOnce
    <3> QED BY <2>3, <3>1 DEF EntitlementInv, SupportIsOnce, LiveSessions, At
  <2> QED BY <1>1, <2>1, <2>2, <2>3 DEF SupportIsOnce, LiveSessions, At
<1> QED BY <1>2, <1>3, <1>4 DEF EntitlementInv

LEMMA InitIsRight ==
  ASSUME NEW mixes, InitEntitlements(mixes)
  PROVE  EntitlementInv
<1>1. AtRest \in DeskRow /\ AtRest.at = "rest" /\ AtRest.left = {}  BY DEF AtRest, DeskRow, DeskStages
<1>2. DesksAreRight  BY <1>1 DEF InitEntitlements, DesksAreRight, DeskIsRight, At
<1>3. AnswersAreTyped  BY DEF InitEntitlements, AnswersAreTyped, NoPlan, NothingListed, Listings
<1>4. AnswersAreFresh  BY <1>1 DEF InitEntitlements, AnswersAreFresh, Counts, At
<1>5. SupportIsOnce  BY <1>1 DEF InitEntitlements, SupportIsOnce, LiveSessions, At
<1> QED BY <1>2, <1>3, <1>4, <1>5 DEF EntitlementInv

\* Once whoever changed the plan, an exception, the subscription or the organization has
\* been answered, a tenant that is let in may still be let in and uses what it has now, and
\* a super admin looks at one holder's pages at a time: for any features, organizations,
\* requests and mix of operations, however answers expire and sessions end; with the
\* exceptions that AccessEndsWithItsGrant names (SuperAdmin/superAdmin.service.ts,
\* SuperAdmin/tenantEntitlement.service.ts, SuperAdmin/supportMode.service.ts).
THEOREM AccessEnds ==
  ASSUME NEW mixes
  PROVE  EntitlementSpec(mixes) => []AccessEndsWithItsGrant
<1>1. InitEntitlements(mixes) => EntitlementInv  BY InitIsRight
<1>2. EntitlementInv /\ [EntitlementNext]_entitlementVars => EntitlementInv'
  <2> SUFFICES ASSUME EntitlementInv, [EntitlementNext]_entitlementVars  PROVE  EntitlementInv'
    OBVIOUS
  <2>1. CASE SeedSubscriptionPlans \/ \E listed \in Listings : CreateSubscriptionPlan(listed)
    BY <2>1, PlansAreMade
  <2>2. ASSUME NEW o \in Organizations, CheckSubscription(o) \/ AnswerExpires(o)
        PROVE  EntitlementInv'
    BY <2>2, AnswersComeAndGo
  <2>3. ASSUME NEW r \in Desks,
               \/ \E listed \in Listings \cup {Unset} : StartPlanUpdate(r, listed)
               \/ FindAffected(r) \/ Answered(r) \/ LookForSession(r)
               \/ \E a \in Supporters, o \in Organizations : StartSupportMode(r, a, o)
        PROVE  EntitlementInv'
    BY <2>3, TheOfficeGoesOn
  <2>4. ASSUME NEW r \in Desks, NEW active \in BOOLEAN, UpdateSubscriptionPlan(r, active)
        PROVE  EntitlementInv'
    BY <2>4, PlansAreUpdated
  <2>5. ASSUME NEW r \in Desks, NEW o \in Organizations, InvalidateSubscriptionAccessCache(r, o)
        PROVE  EntitlementInv'
    BY <2>5, AnswersAreInvalidated
  <2>6. ASSUME NEW r \in Desks, NEW o \in Organizations,
               \/ ChangeTenantPlan(r, o) \/ EndTrial(r, o) \/ SuspendOrReactivate(r, o)
               \/ \E override \in Exceptions : SetTenantEntitlements(r, o, override)
        PROVE  EntitlementInv'
    BY <2>6, TenantsAreWritten DEF ChangeTenantPlan, EndTrial, SuspendOrReactivate, SetTenantEntitlements
  <2>7. ASSUME NEW r \in Desks, NEW s \in SupportIds, PersistSupportSession(r, s)
        PROVE  EntitlementInv'
    BY <2>7, SessionsArePersisted
  <2>8. ASSUME NEW a \in Supporters, NEW s \in SupportIds, EndSupportMode(a, s) \/ KeyExpires(a, s)
        PROVE  EntitlementInv'
    BY <2>8, SessionsEnd
  <2>9. CASE UNCHANGED entitlementVars
    <3>1. \A p \in Organizations : Answer(p)' = Answer(p)
      BY <2>9 DEF entitlementVars, Answer, EffectiveFeatures, Includes
    <3> QED BY <2>9, <3>1 DEF entitlementVars, EntitlementInv, DesksAreRight, DeskIsRight, AnswersAreTyped,
                        AnswersAreFresh, SupportIsOnce, Steady, Counts, Invalidating, LiveSessions, At
  <2>10. CASE EntitlementNext
    BY <2>10, <2>1, <2>2, <2>3, <2>4, <2>5, <2>6, <2>7, <2>8 DEF EntitlementNext
  <2> QED BY <2>9, <2>10
<1>3. EntitlementInv => AccessEndsWithItsGrant  BY InvImpliesAccess
<1> QED BY <1>1, <1>2, <1>3, PTL DEF EntitlementSpec

================================================================================
