------------------------------ MODULE Subscriptions ------------------------------
(***************************************************************************)
(* The commercial side of a tenant: trial, checkout of a plan, proof of    *)
(* payment and its review, coupons, payments recorded by hand, refunds,    *)
(* the administrators' switches, scheduled downgrades and the expiry job   *)
(* (Subscription, Coupon, SuperAdmin, subscriptionExpiry.cron.ts).         *)
(*                                                                         *)
(* Checkout, proof and review hold the lock of the tenant's checkout for a *)
(* whole transaction, which is one step here; what they read before it,    *)
(* and what handlers without a lock read before they write, is a step of   *)
(* its own.  There is one coupon.  Amounts are data.                       *)
(***************************************************************************)
EXTENDS TenantLifecycle

CONSTANTS
    Checkouts,   \* ids of PendingPlanChange rows
    Payments,    \* ids of BillingHistory rows
    CheckoutTtl, \* how long a checkout may be paid
    Period,      \* a billing period
    Trial,       \* defaultTrialDays
    MaxUses      \* of the coupon

\* Rows of PendingPlanChange and BillingHistory.
CheckoutRow ==
    [account : Accounts, plan : PlanIds, coupon : {Nothing, "coupon"},
     status : {"AWAITING_PAYMENT", "UNDER_REVIEW", "REJECTED", "APPROVED", "CANCELLED"},
     expiresAt : Instant,
     applyAt : Deadline,            \* of a change an administrator has scheduled
     administrative : BOOLEAN]

PaymentRow ==
    [account : Accounts, checkout : Checkouts \cup {Nothing},
     status : {"PENDING", "PAID", "FAILED", "REFUNDED"},
     proof : BOOLEAN, paidAt : Deadline]

VARIABLES
    checkout,  \* [Checkouts -> row, or Nothing]
    payment,   \* [Payments -> row, or Nothing]
    coupon,    \* [active, used, usedBy]
    due        \* what the job of scheduled changes has read, or Nothing

commerceVars == <<checkout, payment, coupon, due>>
allVars == <<now, tenant, answer, tenancyVars, commerceVars>>

Unresolved == {"AWAITING_PAYMENT", "UNDER_REVIEW", "REJECTED"}
Payable == {"AWAITING_PAYMENT", "REJECTED"}

OfAccount(a) == {k \in Checkouts : checkout[k] # Nothing /\ checkout[k].account = a}
InStatus(a, statuses) == {k \in OfAccount(a) : checkout[k].status \in statuses}

Of(k) == {p \in Payments : payment[p] # Nothing /\ payment[p].checkout = k}

\* A proof sent without a checkout, which only accounts older than checkouts do.
LegacyPending(a) ==
    {p \in Payments : payment[p] # Nothing /\ payment[p].account = a /\ payment[p].proof
                      /\ payment[p].checkout = Nothing /\ payment[p].status = "PENDING"}

NewCheckout(a, plan, c, status, expires) ==
    [account |-> a, plan |-> plan, coupon |-> c, status |-> status, expiresAt |-> expires,
     applyAt |-> Never, administrative |-> FALSE]

NewPayment(a, k, status, proof) ==
    [account |-> a, checkout |-> k, status |-> status, proof |-> proof, paidAt |-> Never]

Later(deadline, at) == IF deadline # Never /\ deadline > at THEN deadline ELSE at

\* A new tenant, one whose trial or paid period runs, and one whose payment is pending since
\* before there were checkouts.
OnTrial(plan) ==
    [NewRow EXCEPT !.subscription = "ACTIVE", !.plan = plan, !.isTrial = TRUE,
                   !.trialEndsAt = Trial, !.periodEnd = Trial]
Paid(plan) ==
    [NewRow EXCEPT !.subscription = "ACTIVE", !.plan = plan, !.periodEnd = Period]
Owing(plan) == [Paid(plan) EXCEPT !.subscription = "PENDING_PAYMENT", !.periodEnd = Never]

FirstPlan == CHOOSE p \in PlanIds : \A q \in PlanIds : p <= q
LastPlan == CHOOSE p \in PlanIds : \A q \in PlanIds : q <= p

ASSUME SubscriptionAssumption ==
    /\ {CheckoutTtl, Period, Trial, MaxUses} \subseteq Nat
    /\ {FirstPlan, LastPlan} \subseteq PlanIds
    /\ Nothing \notin Checkouts \cup {"coupon"}
    /\ Nothing \notin CheckoutRow /\ Nothing \notin PaymentRow

InitialRow ==
    IF "provision" \in ops THEN NewRow
    ELSE IF "trial" \in ops THEN OnTrial(LastPlan)
    ELSE IF "owing" \in ops THEN Owing(LastPlan)
    ELSE Paid(LastPlan)

\* Bounds: without "two" there is one tenant; TenantAccess's own is read under "resolve" only.
SomeTenant == CHOOSE t \in Tenants : TRUE

Init ==
    /\ LifecycleInit
    /\ "resolve" \in ops \/ tenant = SomeTenant
    /\ AccessInit
    /\ \E only \in Accounts :
          account = [a \in Accounts |-> IF "two" \in ops \/ a = only THEN InitialRow ELSE GoneRow]
    /\ checkout = [k \in Checkouts |-> Nothing]
    /\ payment = [p \in Payments |-> Nothing]
    /\ coupon = [active |-> TRUE, used |-> 0, usedBy |-> {}]
    /\ due = Nothing

\* assertSelfServiceRecoveryAllowed
MayRecover(a) == Exists(a) /\ Reason(a) \notin Unrecoverable

SameTenancy == UNCHANGED <<now, tenant, answer, file, supers, ops>>

--------------------------------------------------------------------------------
(* Trial and checkout *)

\* createTrialSubscription, under a lock of its own: one trial in a tenant's life.
CreateTrialSubscription(a) ==
    /\ "provision" \in ops
    /\ Exists(a) /\ account[a].subscription = "NONE"
    /\ account' = [account EXCEPT ![a] =
           [@ EXCEPT !.subscription = "ACTIVE", !.plan = FirstPlan, !.isTrial = TRUE,
                     !.trialEndsAt = now + Trial, !.periodEnd = now + Trial]]
    /\ UNCHANGED <<asked, commerceVars>> /\ SameTenancy

\* changePlan before its lock: the clock is read here for all that follows.
AskPlan(r) ==
    \E a \in Accounts, plan \in PlanIds, c \in {Nothing, "coupon"} :
        LET row == account[a]
        IN  /\ Idle(r, "changePlan")
            /\ "two" \in ops => plan = FirstPlan    \* bound
            /\ MayRecover(a) /\ row.subscription \notin {"NONE", "SUSPENDED"}
            /\ ~(row.subscription = "ACTIVE" /\ ~row.isTrial /\ ~Reached(row.periodEnd, now)
                 /\ row.plan = plan)
            /\ c # Nothing => "coupon" \in ops /\ coupon.active
            /\ Remember(r, [op |-> "changePlan", account |-> a, plan |-> plan, coupon |-> c,
                            at |-> now])
            /\ UNCHANGED <<account, commerceVars>> /\ SameTenancy

\* Checkouts that hold one use of the coupon.
Reserving(rows, at) ==
    {k \in Checkouts :
        /\ rows[k] # Nothing /\ rows[k].coupon # Nothing
        /\ \/ rows[k].status = "UNDER_REVIEW"
           \/ rows[k].status \in Payable /\ rows[k].expiresAt > at}

CouponAllows(q, rows) ==
    q.coupon # Nothing =>
        /\ coupon.active /\ q.account \notin coupon.usedBy
        /\ coupon.used + Cardinality(Reserving(rows, q.at)) < MaxUses

Cancelled(ks) ==
    [k \in Checkouts |-> IF k \in ks THEN [checkout[k] EXCEPT !.status = "CANCELLED"] ELSE checkout[k]]

\* Under the locks of the checkout and the coupon.  An open checkout for the same plan is
\* given back, one under review keeps others out, and any other makes way; whatever is
\* refused leaves everything as it was.
ChangePlan(r) ==
    /\ Asks(r, "changePlan")
    /\ LET q == asked[r]
           expired == {k \in InStatus(q.account, Payable) : checkout[k].expiresAt <= q.at}
           open == InStatus(q.account, Unresolved) \ expired
           same == {k \in open : checkout[k].plan = q.plan /\ checkout[k].coupon = q.coupon}
           review == InStatus(q.account, {"UNDER_REVIEW"})
           row == account[q.account]
           cleared == Cancelled(expired \cup open)
       IN  IF row.subscription = "PENDING_PAYMENT" /\ LegacyPending(q.account) # {}
           THEN UNCHANGED checkout
           ELSE IF same # {} THEN checkout' = Cancelled(expired)
           ELSE IF review # {} \/ ~CouponAllows(q, cleared) THEN UNCHANGED checkout
           ELSE \E k \in Checkouts :
                  /\ checkout[k] = Nothing
                  /\ checkout' = [cleared EXCEPT ![k] = NewCheckout(q.account, q.plan, q.coupon,
                                      "AWAITING_PAYMENT", q.at + CheckoutTtl)]
    /\ Forget(r)
    /\ UNCHANGED <<account, payment, coupon, due>> /\ SameTenancy

\* cancelPendingPlanChange, under the lock of the checkout.
CancelPendingPlanChange(a) ==
    /\ "cancelCheckout" \in ops
    /\ MayRecover(a) /\ InStatus(a, {"UNDER_REVIEW"}) = {}
    /\ \E k \in InStatus(a, Payable) : checkout' = Cancelled({k})
    /\ UNCHANGED <<account, asked, payment, coupon, due>> /\ SameTenancy

--------------------------------------------------------------------------------
(* Proof of payment *)

\* submitPaymentProof binds the uploaded proof and looks for a checkout before the lock.
AskProof(r) ==
    \E a \in Accounts :
        /\ Idle(r, "submitProof")
        /\ MayRecover(a) /\ account[a].subscription # "NONE"
        /\ LET open == InStatus(a, Unresolved)
           IN  \E k \in IF open = {} THEN {Nothing} ELSE open :
                  Remember(r, [op |-> "submitProof", account |-> a, checkout |-> k])
        /\ UNCHANGED <<account, commerceVars>> /\ SameTenancy

\* A rejected checkout may be paid at any later time.
TakesProofUnlessExpired(k) ==
    \/ checkout[k].status = "AWAITING_PAYMENT" /\ checkout[k].expiresAt > now
    \/ checkout[k].status = "REJECTED"

TakesProof(k) == checkout[k].status \in Payable /\ checkout[k].expiresAt > now

\* Proofs for the plan in force are taken from those who have lost it, one at a time.
TakesLegacyProof(a) ==
    /\ \/ account[a].subscription # "ACTIVE" \/ Reached(account[a].periodEnd, now)
       \/ account[a].isTrial /\ Reached(account[a].trialEndsAt, now)
    /\ LegacyPending(a) = {}

SubmitPaymentProof(r) ==
    /\ Asks(r, "submitProof")
    /\ LET q == asked[r]
           takes == Exists(q.account) /\ IF q.checkout = Nothing THEN TakesLegacyProof(q.account)
                                         ELSE TakesProof(q.checkout)
       IN  IF takes
           THEN /\ \E p \in Payments :
                     /\ payment[p] = Nothing
                     /\ payment' = [payment EXCEPT ![p] =
                            NewPayment(q.account, q.checkout, "PENDING", TRUE)]
                /\ checkout' = IF q.checkout = Nothing THEN checkout
                               ELSE [checkout EXCEPT ![q.checkout].status = "UNDER_REVIEW"]
           ELSE UNCHANGED <<payment, checkout>>
    /\ Forget(r)
    /\ UNCHANGED <<account, coupon, due>> /\ SameTenancy

\* approve- and rejectPaymentProof, and the tenant page's buttons that call them.
AskReview(r) ==
    \E p \in Payments, op \in {"approve", "reject"} :
        /\ Idle(r, op)
        /\ payment[p] # Nothing /\ payment[p].status = "PENDING" /\ payment[p].proof
        /\ LET k == payment[p].checkout
           IN  op = "approve" /\ k # Nothing => checkout[k].status = "UNDER_REVIEW"
        /\ Remember(r, [op |-> op, payment |-> p, at |-> now])
        /\ UNCHANGED <<account, commerceVars>> /\ SameTenancy

StillPending(p) == payment[p].status = "PENDING"

PaidUntil(row, at, until) ==
    [row EXCEPT !.subscription = "ACTIVE", !.isTrial = FALSE, !.periodEnd = until,
                !.ending = FALSE]

\* The plan of a checkout begins at once; a proof without one extends the period of the row.
ApprovePaymentProof(r) ==
    /\ Asks(r, "approve")
    /\ LET q == asked[r]
           p == q.payment
           k == payment[p].checkout
           a == payment[p].account
           c == k # Nothing /\ checkout[k].coupon # Nothing
           allowed == /\ StillPending(p)
                      /\ k # Nothing => checkout[k].status = "UNDER_REVIEW"
                      /\ c => a \notin coupon.usedBy
           row == [account[a] EXCEPT !.trialEndsAt = Never]
       IN  IF Exists(a) /\ allowed
           THEN /\ payment' = [payment EXCEPT ![p].status = "PAID", ![p].paidAt = q.at]
                /\ account' = [account EXCEPT ![a] =
                       IF k = Nothing
                       THEN PaidUntil(row, now, Later(row.periodEnd, now) + Period)
                       ELSE [PaidUntil(row, q.at, q.at + Period) EXCEPT !.plan = checkout[k].plan]]
                /\ checkout' = IF k = Nothing THEN checkout
                               ELSE [checkout EXCEPT ![k].status = "APPROVED"]
                /\ coupon' = IF c THEN [coupon EXCEPT !.used = @ + 1, !.usedBy = @ \cup {a}]
                             ELSE coupon
           ELSE UNCHANGED <<payment, account, checkout, coupon>>
    /\ Forget(r)
    /\ UNCHANGED due /\ SameTenancy

\* A rejected checkout may be paid for another day.
RejectPaymentProof(r) ==
    /\ Asks(r, "reject")
    /\ LET p == asked[r].payment
           k == payment[p].checkout
       IN  IF Exists(payment[p].account) /\ StillPending(p)
           THEN /\ payment' = [payment EXCEPT ![p].status = "FAILED"]
                /\ checkout' = IF k = Nothing THEN checkout
                               ELSE [checkout EXCEPT ![k].status = "REJECTED",
                                        ![k].expiresAt = asked[r].at + CheckoutTtl]
           ELSE UNCHANGED <<payment, checkout>>
    /\ Forget(r)
    /\ UNCHANGED <<account, coupon, due>> /\ SameTenancy

--------------------------------------------------------------------------------
(* Payments by hand and refunds: no lock *)

AskGrant(r) ==
    \E a \in Accounts :
        /\ Idle(r, "grant")
        /\ Exists(a) /\ account[a].subscription # "NONE"
        /\ Remember(r, [op |-> "grant", account |-> a, seen |-> account[a], at |-> now])
        /\ UNCHANGED <<account, commerceVars>> /\ SameTenancy

\* The end of the period is counted from the one that was read.
GrantManualPayment(r) ==
    /\ Asks(r, "grant")
    /\ LET q == asked[r]
       IN  IF Exists(q.account)
           THEN /\ \E p \in Payments :
                     /\ payment[p] = Nothing
                     /\ payment' = [payment EXCEPT ![p] =
                            [NewPayment(q.account, Nothing, "PAID", FALSE) EXCEPT !.paidAt = q.at]]
                /\ account' = [account EXCEPT ![q.account] =
                       PaidUntil(@, q.at, Later(q.seen.periodEnd, q.at) + Period)]
           ELSE UNCHANGED <<payment, account>>
    /\ Forget(r)
    /\ UNCHANGED <<checkout, coupon, due>> /\ SameTenancy

AskRefund(r) ==
    \E p \in Payments :
        /\ Idle(r, "refund")
        /\ payment[p] # Nothing /\ payment[p].status # "REFUNDED"
        /\ Remember(r, [op |-> "refund", payment |-> p,
                        suspend |-> payment[p].status = "PAID"
                                    /\ account[payment[p].account].subscription = "ACTIVE"])
        /\ UNCHANGED <<account, commerceVars>> /\ SameTenancy

RefundBillingRecord(r) ==
    /\ Asks(r, "refund")
    /\ LET p == asked[r].payment
           a == payment[p].account
       IN  IF Exists(a)
           THEN /\ payment' = [payment EXCEPT ![p].status = "REFUNDED"]
                /\ account' = IF asked[r].suspend
                              THEN [account EXCEPT ![a].subscription = "SUSPENDED"] ELSE account
           ELSE UNCHANGED <<payment, account>>
    /\ Forget(r)
    /\ UNCHANGED <<checkout, coupon, due>> /\ SameTenancy

--------------------------------------------------------------------------------
(* Switches: the row is read and checked, then written by id *)

TenantSwitches == {"cancelAtPeriodEnd", "resume"}

MutableSwitches ==
    {"changeTenantPlan", "setTenantCancel", "restartTrial", "extendTenantTrial", "endTrial"}

Switches ==
    TenantSwitches \cup MutableSwitches
        \cup {"cancelSubscription", "suspendSubscription", "reactivateSubscription", "extendTrial"}

SwitchAllows(op, a, row) ==
    /\ Exists(a) /\ row.subscription # "NONE"
    /\ op \in TenantSwitches =>
          MayRecover(a) /\ row.subscription = "ACTIVE" /\ (row.ending <=> op = "resume")
    /\ op \in MutableSwitches => Mutable(row)
    /\ op = "suspendSubscription" => row.subscription # "SUSPENDED"
    /\ op = "reactivateSubscription" => row.subscription # "ACTIVE"
    /\ op = "extendTrial" => row.isTrial

SwitchWrites(op, seen, row, at, plan) ==
    CASE op = "cancelAtPeriodEnd" -> [row EXCEPT !.ending = TRUE]
      [] op = "resume" -> [row EXCEPT !.ending = FALSE]
      [] op = "setTenantCancel" -> [row EXCEPT !.ending = TRUE]
      [] op = "cancelSubscription" -> [row EXCEPT !.subscription = "CANCELLED"]
      [] op = "suspendSubscription" -> [row EXCEPT !.subscription = "SUSPENDED"]
      [] op = "reactivateSubscription" ->
            [row EXCEPT !.subscription = "ACTIVE", !.ending = FALSE]
      [] op = "extendTrial" ->
            [row EXCEPT !.subscription = "ACTIVE",
                        !.trialEndsAt = (IF seen.trialEndsAt = Never THEN at ELSE seen.trialEndsAt) + 1,
                        !.periodEnd = (IF seen.periodEnd = Never THEN at ELSE seen.periodEnd) + 1]
      [] op = "restartTrial" ->
            [row EXCEPT !.subscription = "ACTIVE", !.isTrial = TRUE, !.trialEndsAt = at + Trial,
                        !.periodEnd = Never, !.ending = FALSE]
      [] op = "extendTenantTrial" ->
            [row EXCEPT !.subscription = "ACTIVE", !.isTrial = TRUE,
                        !.trialEndsAt = Later(seen.trialEndsAt, at) + 1]
      [] op = "endTrial" ->
            [row EXCEPT !.subscription = "EXPIRED", !.isTrial = TRUE, !.trialEndsAt = at]
      [] op = "changeTenantPlan" ->
            [PaidUntil(row, at, IF Later(seen.periodEnd, at) = at THEN at + Period ELSE seen.periodEnd)
                EXCEPT !.plan = plan, !.trialEndsAt = Never]

AskSwitch(r) ==
    \E op \in Switches, a \in Accounts, plan \in PlanIds :
        /\ Idle(r, op)
        /\ op # "changeTenantPlan" => plan = FirstPlan
        /\ op \in {"extendTrial", "extendTenantTrial"} => Later(account[a].trialEndsAt, 0) <= Horizon   \* bound
        /\ SwitchAllows(op, a, account[a])
        /\ Remember(r, [op |-> op, account |-> a, seen |-> account[a], at |-> now, plan |-> plan])
        /\ UNCHANGED <<account, commerceVars>> /\ SameTenancy

Scheduled(a) ==
    {k \in InStatus(a, {"APPROVED"}) : checkout[k].administrative /\ checkout[k].applyAt # Never}

\* An immediate override by an administrator cancels the change that was scheduled.
Switch(r) ==
    /\ asked[r] # Nothing /\ asked[r].op \in Switches
    /\ LET q == asked[r]
       IN  /\ account' = IF Exists(q.account)
                         THEN [account EXCEPT ![q.account] =
                                  SwitchWrites(q.op, q.seen, @, q.at, q.plan)]
                         ELSE account
           /\ checkout' = IF q.op = "changeTenantPlan" THEN Cancelled(Scheduled(q.account))
                          ELSE checkout
    /\ Forget(r)
    /\ UNCHANGED <<payment, coupon, due>> /\ SameTenancy

--------------------------------------------------------------------------------
(* Scheduled downgrades and the jobs *)

\* scheduleTenantDowngrade: the check for another one is made before the write.
AskDowngrade(r) ==
    \E a \in Accounts, plan \in PlanIds :
        /\ Idle(r, "downgrade")
        /\ Exists(a) /\ Mutable(account[a]) /\ account[a].periodEnd # Never
        /\ plan < account[a].plan
        /\ Scheduled(a) = {}
        /\ Remember(r, [op |-> "downgrade", account |-> a, plan |-> plan,
                        at |-> account[a].periodEnd])
        /\ UNCHANGED <<account, commerceVars>> /\ SameTenancy

ScheduleTenantDowngrade(r) ==
    /\ Asks(r, "downgrade")
    /\ LET q == asked[r]
       IN  IF Exists(q.account)
           THEN \E k \in Checkouts :
                  /\ checkout[k] = Nothing
                  /\ checkout' = [checkout EXCEPT ![k] =
                         [NewCheckout(q.account, q.plan, Nothing, "APPROVED", q.at)
                             EXCEPT !.applyAt = q.at, !.administrative = TRUE]]
           ELSE UNCHANGED checkout
    /\ Forget(r)
    /\ UNCHANGED <<account, payment, coupon, due>> /\ SameTenancy

\* cancelScheduledTenantChange
CancelScheduledChange(a) ==
    /\ "downgrade" \in ops
    /\ Exists(a) /\ Mutable(account[a])
    /\ \E k \in Scheduled(a) :
          checkout' = [checkout EXCEPT ![k].status = "CANCELLED", ![k].applyAt = Never]
    /\ UNCHANGED <<account, asked, payment, coupon, due>> /\ SameTenancy

\* applyDueAdministrativePlanChanges: the due changes are read once ...
ReadDue ==
    /\ "downgrade" \in ops /\ due = Nothing
    /\ due' = [changes |-> {k \in UNION {Scheduled(a) : a \in Accounts} : checkout[k].applyAt <= now},
               at |-> now]
    /\ due'.changes # {}
    /\ UNCHANGED <<account, asked, checkout, payment, coupon>> /\ SameTenancy

\* ... and applied one by one, whatever has become of them.
ApplyDue ==
    /\ due # Nothing
    /\ \E k \in due.changes :
          LET a == checkout[k].account
              rest == due.changes \ {k}
          IN  /\ IF Exists(a)
                 THEN /\ account' = [account EXCEPT ![a] =
                             [@ EXCEPT !.plan = checkout[k].plan, !.subscription = "ACTIVE",
                                       !.isTrial = FALSE, !.trialEndsAt = Never,
                                       !.periodEnd = due.at + Period]]
                      /\ checkout' = [checkout EXCEPT ![k].applyAt = Never]
                 ELSE UNCHANGED <<account, checkout>>
              /\ due' = IF rest = {} THEN Nothing ELSE [due EXCEPT !.changes = rest]
    /\ UNCHANGED <<asked, payment, coupon>> /\ SameTenancy

\* runSubscriptionExpiryJob reads who is due ...
ReadExpired(r) ==
    /\ Idle(r, "expire")
    /\ LET found == {a \in Accounts : Exists(a) /\ ExpirySelects(account[a], now)}
       IN  /\ found # {}
           /\ Remember(r, [op |-> "expire", accounts |-> found, at |-> now])
    /\ UNCHANGED <<account, commerceVars>> /\ SameTenancy

\* Who was found is expired as found.
StillExpiredAsFound(a, at) == Exists(a)

StillExpired(a, at) == Exists(a) /\ ExpirySelects(account[a], at)

\* ... and looks at each row again when it writes.
Expire(r) ==
    /\ Asks(r, "expire")
    /\ LET q == asked[r]
       IN  account' = [a \in Accounts |-> IF a \in q.accounts /\ StillExpired(a, q.at)
                                          THEN [account[a] EXCEPT !.subscription = "EXPIRED"]
                                          ELSE account[a]]
    /\ Forget(r)
    /\ UNCHANGED commerceVars /\ SameTenancy

ToggleCoupon ==
    /\ "toggle" \in ops
    /\ coupon' = [coupon EXCEPT !.active = ~@]
    /\ UNCHANGED <<account, asked, checkout, payment, due>> /\ SameTenancy

--------------------------------------------------------------------------------
Pass ==
    /\ "clock" \in ops
    /\ Tick
    /\ UNCHANGED <<tenancyVars, commerceVars>>

Next ==
    \/ "resolve" \in ops /\ AccessNext /\ UNCHANGED <<tenancyVars, commerceVars>>
    \/ LifecycleStep /\ UNCHANGED <<now, tenant, answer, commerceVars>>
    \/ Pass
    \/ \E a \in Accounts : CreateTrialSubscription(a) \/ CancelPendingPlanChange(a)
    \/ \E r \in Requests : AskPlan(r) \/ ChangePlan(r) \/ AskProof(r) \/ SubmitPaymentProof(r)
    \/ \E r \in Requests : AskReview(r) \/ ApprovePaymentProof(r) \/ RejectPaymentProof(r)
    \/ \E r \in Requests : AskGrant(r) \/ GrantManualPayment(r) \/ AskRefund(r)
                           \/ RefundBillingRecord(r)
    \/ \E r \in Requests : AskSwitch(r) \/ Switch(r)
    \/ \E r \in Requests : AskDowngrade(r) \/ ScheduleTenantDowngrade(r)
    \/ \E a \in Accounts : CancelScheduledChange(a)
    \/ ReadDue \/ ApplyDue \/ ToggleCoupon
    \/ \E r \in Requests : ReadExpired(r) \/ Expire(r)

Spec == Init /\ [][Next]_allVars

--------------------------------------------------------------------------------
(* Properties *)

\* Every row has its type.
SubscriptionsTypeOK ==
    /\ account \in [Accounts -> Row]
    /\ file \in [Accounts -> [Files -> Whereabouts]]
    /\ checkout \in [Checkouts -> CheckoutRow \cup {Nothing}]
    /\ payment \in [Payments -> PaymentRow \cup {Nothing}]
    /\ coupon.used \in 0 .. MaxUses /\ coupon.usedBy \subseteq Accounts

\* Plans are chosen twice, proofs sent twice, approved and rejected at once: a tenant still
\* has one open checkout, it is under review exactly while one proof waits for it, and it
\* was approved exactly when one payment was.  Uses and reservations together never exceed
\* the coupon's limit, whoever checks out, pays late, is rejected and pays again; and a use
\* is counted once for each tenant.
ProofsMatchCheckouts ==
    /\ "refund" \notin ops => \A a \in Accounts :
        /\ Cardinality(InStatus(a, Unresolved)) <= 1
        /\ \A k \in OfAccount(a) : ~checkout[k].administrative =>
              LET in(s) == {p \in Of(k) : payment[p].status = s}
              IN  /\ Cardinality(in("PENDING")) = (IF checkout[k].status = "UNDER_REVIEW" THEN 1 ELSE 0)
                  /\ Cardinality(in("PAID")) = (IF checkout[k].status = "APPROVED" THEN 1 ELSE 0)
    /\ coupon.used + Cardinality(Reserving(checkout, now)) <= MaxUses
    /\ coupon.used = Cardinality(coupon.usedBy)

\* The job never expires a subscription that was renewed behind its back: one that is
\* EXPIRED is past its end.
ExpiredIsPastItsEnd ==
    \A a \in Accounts : account[a].subscription = "EXPIRED" => Ended(account[a], now)

--------------------------------------------------------------------------------
(* Claims the code does not keep: see the README. *)

\* "another later PAID record has taken over funding the current period, we leave its status
\* untouched" (refundBillingRecord): refunding a payment suspends nobody whose period a
\* later payment funds.
RefundSparesLaterPayments ==
    [][\A p \in Payments, a \in Accounts :
          /\ payment[p] # Nothing /\ payment'[p] # payment[p] /\ payment'[p].status = "REFUNDED"
          /\ payment[p].account = a /\ account[a].subscription = "ACTIVE"
          /\ \E l \in Payments \ {p} :
                /\ payment[l] # Nothing /\ payment[l].account = a /\ payment[l].status = "PAID"
                /\ payment[p].paidAt # Never /\ payment[l].paidAt > payment[p].paidAt
                /\ ~Reached(account[a].periodEnd, now)
          => account'[a].subscription = "ACTIVE"]_payment

\* A checkout under review can be decided.
ReviewIsPossible ==
    \A k \in Checkouts : checkout[k] # Nothing /\ checkout[k].status = "UNDER_REVIEW" =>
        \E p \in Of(k) : payment[p].status = "PENDING"
================================================================================
