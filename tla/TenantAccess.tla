------------------------------ MODULE TenantAccess ------------------------------
(***************************************************************************)
(* Whether a tenant may use the product: the decision loadTenantAccess     *)
(* computes from the tenant's rows and the clock, how long it may be       *)
(* reused, and the job that expires subscriptions behind it.               *)
(*                                                                         *)
(* The rows are one record; an answer is the decision with the instants    *)
(* its validUntil is the least of.  TenantAccessCache models where the     *)
(* answer is kept and how it is invalidated; here it may be reused until   *)
(* its deadline, and nobody tells it that the job has run.                 *)
(***************************************************************************)
EXTENDS Integers

CONSTANTS
    Tenants,   \* the rows a tenant can have
    Keys,      \* feature keys
    Parent,    \* featureParent: [Keys -> Keys or Never]
    Ttl,       \* seconds an answer may be reused
    Horizon,   \* bound on the clock
    Never      \* null

VARIABLES
    now,     \* the clock
    tenant,  \* the tenant's rows
    answer   \* the last resolution, or Never

accessVars == <<now, tenant, answer>>

Instant == Nat
Deadline == Instant \cup {Never}
Mode == {"INHERIT", "FORCE_ENABLED", "FORCE_DISABLED"}

Tenant ==
    [lifecycle : {"ACTIVE", "SUSPENDED", "ARCHIVED", "PENDING_DELETION"},
     owner : {"ACTIVE", "PENDING", "SUSPENDED", "DELETED"},
     subscription : {"NONE", "ACTIVE", "CANCELLED", "EXPIRED", "SUSPENDED", "PENDING_PAYMENT"},
     isTrial : BOOLEAN,
     trialEndsAt : Deadline,
     periodEnd : Deadline,
     published : BOOLEAN,
     plan : [Keys -> BOOLEAN \cup {Never}],    \* Never: the plan does not list the key
     override : [Keys -> Mode],
     limit : Nat \cup {Never},                 \* of the plan's priced tier; Never: unlimited
     extra : Nat,                              \* paid on top of it
     resource : [mode : {"INHERIT", "ADD", "SET"}, value : Nat],
     overridden : BOOLEAN,                     \* an override row exists
     overrideEnds : Deadline]

ASSUME AccessAssumption ==
    /\ Tenants \subseteq Tenant
    /\ Ttl \in Nat \ {0}
    /\ Horizon \in Nat
    /\ Never \notin Nat
    /\ Never \notin BOOLEAN

--------------------------------------------------------------------------------
(* The decision *)

Reached(deadline, at) == deadline # Never /\ deadline <= at

\* The paid period, or the trial window, is over.
Ended(t, at) ==
    IF t.isTrial THEN Reached(t.trialEndsAt, at) ELSE Reached(t.periodEnd, at)

\* evaluateTenantAccess; ended is the only thing it takes from the clock.
DeniedReason(t, ended) ==
    IF t.lifecycle = "PENDING_DELETION" THEN "TENANT_PENDING_DELETION"
    ELSE IF t.lifecycle = "ARCHIVED" THEN "TENANT_ARCHIVED"
    ELSE IF t.lifecycle = "SUSPENDED" THEN "TENANT_SUSPENDED"
    ELSE IF t.owner = "DELETED" THEN "OWNER_ACCOUNT_DELETED"
    ELSE IF t.owner = "SUSPENDED" THEN "OWNER_ACCOUNT_SUSPENDED"
    ELSE IF t.owner = "PENDING" THEN "OWNER_ACCOUNT_PENDING"
    ELSE IF t.subscription = "NONE" THEN "SUBSCRIPTION_MISSING"
    ELSE IF t.subscription = "SUSPENDED" THEN "SUBSCRIPTION_SUSPENDED"
    ELSE IF t.subscription = "PENDING_PAYMENT" THEN "PAYMENT_PENDING"
    ELSE IF t.subscription \in {"EXPIRED", "CANCELLED"} THEN "SUBSCRIPTION_EXPIRED"
    ELSE IF ended THEN (IF t.isTrial THEN "TRIAL_EXPIRED" ELSE "SUBSCRIPTION_EXPIRED")
    ELSE "ACTIVE"

Unrecoverable ==
    {"TENANT_ARCHIVED", "TENANT_PENDING_DELETION", "TENANT_SUSPENDED",
     "OWNER_ACCOUNT_DELETED", "OWNER_ACCOUNT_SUSPENDED"}

OverrideActive(t, at) == t.overridden /\ ~Reached(t.overrideEnds, at)

\* Website and online booking come with every plan.
Core == {"website", "online_booking"}
Listed(t, k) == k \in Core \/ t.plan[k] # Never
Included(t, k) == k \in Core \/ t.plan[k] = TRUE

\* buildFeatureState: a forced feature is what it is forced to be, a listed one is
\* what the plan says, and any other follows its parent.
Effective(t, active) ==
    LET mode(k) == IF active THEN t.override[k] ELSE "INHERIT"
        effective[k \in Keys] ==
            IF mode(k) # "INHERIT" THEN mode(k) = "FORCE_ENABLED"
            ELSE IF Listed(t, k) THEN Included(t, k)
            ELSE Parent[k] # Never /\ effective[Parent[k]]
    IN  effective

\* resourceLimits.effective of one resource: an unlimited one stays so unless it is set.
EffectiveLimit(t, active) ==
    LET paid == IF t.limit = Never THEN Never ELSE t.limit + t.extra
    IN  IF ~active \/ t.resource.mode = "INHERIT" THEN paid
        ELSE IF t.resource.mode = "SET" THEN t.resource.value
        ELSE IF paid = Never THEN Never ELSE paid + t.resource.value

\* What everyone who asks goes by.
Decision(t, ended, active) ==
    LET reason == DeniedReason(t, ended)
        features == Effective(t, active)
    IN  [dashboardAllowed |-> reason = "ACTIVE",
         recoveryAllowed |-> reason \notin Unrecoverable,
         publicWebsiteAllowed |-> reason = "ACTIVE" /\ t.published /\ features["website"],
         features |-> features,
         limit |-> EffectiveLimit(t, active)]

DecisionAt(t, at) == Decision(t, Ended(t, at), OverrideActive(t, at))

\* The deadline of the trial is taken for a paid subscription too.
CandidatesOfTrial(t, at) ==
    {d \in {at + Ttl, t.overrideEnds, t.trialEndsAt} : d # Never /\ d > at}

\* expiryCandidates
Candidates(t, at) ==
    {d \in {at + Ttl, t.overrideEnds, IF t.isTrial THEN t.trialEndsAt ELSE t.periodEnd} :
        d # Never /\ d > at}

LoadTenantAccess == [decision |-> DecisionAt(tenant, now), until |-> Candidates(tenant, now)]

\* now < validUntil, the least of the candidates.
StillValid(a, at) == a # Never /\ \A d \in a.until : at < d

--------------------------------------------------------------------------------
(* Steps *)

AccessInit ==
    /\ now = 0
    /\ tenant \in Tenants
    /\ answer = Never

Tick ==
    /\ now < Horizon
    /\ now' = now + 1
    /\ UNCHANGED <<tenant, answer>>

\* readCached reuses a valid answer; otherwise SQL is asked.
ResolveTenantAccess ==
    /\ ~StillValid(answer, now)
    /\ answer' = LoadTenantAccess
    /\ UNCHANGED <<now, tenant>>

\* The job looks at the period of a trial.
ExpirySelectsPeriod(t, at) == t.subscription = "ACTIVE" /\ Reached(t.periodEnd, at)

\* checkSubscriptionExpiry; its invalidation may be late or lost.
ExpirySelects(t, at) ==
    /\ t.subscription = "ACTIVE"
    /\ IF t.isTrial THEN Reached(t.trialEndsAt, at) ELSE Reached(t.periodEnd, at)

CheckSubscriptionExpiry ==
    /\ ExpirySelects(tenant, now)
    /\ tenant' = [tenant EXCEPT !.subscription = "EXPIRED"]
    /\ UNCHANGED <<now, answer>>

AccessNext == Tick \/ ResolveTenantAccess \/ CheckSubscriptionExpiry

AccessSpec == AccessInit /\ [][AccessNext]_accessVars

--------------------------------------------------------------------------------
(* Properties *)

\* Every variable has its type; the features an answer grants are a function of the keys.
AccessTypeOK ==
    /\ now \in Instant
    /\ tenant \in Tenant
    /\ answer # Never =>
          /\ DOMAIN answer.decision.features = Keys
          /\ answer.until \subseteq Instant

\* An answer that is still valid is what the rows and the clock would give now: no
\* deadline passes under it and the expiry job, which nobody told it about, has
\* not changed what it says (validUntil in loadTenantAccess).
ValidAnswersHold ==
    StillValid(answer, now) => answer.decision = DecisionAt(tenant, now)

\* Nobody gains or loses anything when the expiry job runs, however late: the
\* resolver had already seen the end of the period (subscriptionExpiry.cron.ts).
ExpiryJobOnlyRecords ==
    [][tenant' # tenant => DecisionAt(tenant', now) = DecisionAt(tenant, now)]_accessVars

================================================================================
