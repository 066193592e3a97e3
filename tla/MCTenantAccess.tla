----------------------------- MODULE MCTenantAccess -----------------------------
(* TenantAccess on three feature keys and the first four instants. *)
EXTENDS TenantAccess

MCKeys == {"website", "reports", "revenue_reports"}
MCParent == [k \in MCKeys |-> IF k = "revenue_reports" THEN "reports" ELSE Never]

Plans == {[website |-> FALSE, reports |-> r, revenue_reports |-> v] :
             r \in BOOLEAN, v \in {FALSE, Never}}
Overrides == {[website |-> w, reports |-> r, revenue_reports |-> "INHERIT"] :
                 w \in {"INHERIT", "FORCE_DISABLED"}, r \in Mode}

\* Every state of the tenant, its owner and its subscription.
AnyStatus ==
    {[lifecycle |-> l, owner |-> o, subscription |-> s, isTrial |-> trial,
      trialEndsAt |-> IF trial THEN 1 ELSE Never, periodEnd |-> 1, published |-> TRUE,
      plan |-> [website |-> FALSE, reports |-> TRUE, revenue_reports |-> Never],
      override |-> [k \in MCKeys |-> "INHERIT"], limit |-> 1, extra |-> 1,
      resource |-> [mode |-> "INHERIT", value |-> 0],
      overridden |-> FALSE, overrideEnds |-> Never] :
        l \in {"ACTIVE", "SUSPENDED", "ARCHIVED", "PENDING_DELETION"},
        o \in {"ACTIVE", "PENDING", "SUSPENDED", "DELETED"},
        s \in {"ACTIVE", "CANCELLED", "EXPIRED", "SUSPENDED", "PENDING_PAYMENT"},
        trial \in BOOLEAN}

\* No subscription: nothing is read from one.
NoSubscription ==
    {[t EXCEPT !.subscription = "NONE", !.isTrial = FALSE, !.trialEndsAt = Never,
               !.periodEnd = Never, !.plan = [k \in MCKeys |-> Never],
               !.limit = Never, !.extra = 0] : t \in AnyStatus}

\* An active tenant with deadlines around the clock, plans and overrides.
Ends == {Never, 1, 2}
AnyDeadline ==
    {[lifecycle |-> "ACTIVE", owner |-> "ACTIVE", subscription |-> "ACTIVE", isTrial |-> trial,
      trialEndsAt |-> te, periodEnd |-> pe, published |-> TRUE,
      plan |-> plan, override |-> override, limit |-> 1, extra |-> 1,
      resource |-> [mode |-> "SET", value |-> 0],
      overridden |-> oe # 0, overrideEnds |-> IF oe = 0 THEN Never ELSE oe] :
        trial \in BOOLEAN, te \in Ends, pe \in Ends, plan \in Plans, override \in Overrides,
        oe \in Ends \cup {0}}

\* The limits a plan, an extra and an override can make.
AnyLimit ==
    {[t EXCEPT !.limit = n, !.resource = [mode |-> m, value |-> v]] :
        t \in {u \in AnyDeadline : u.plan.reports /\ u.override.reports = "INHERIT"
                                   /\ u.override.website = "INHERIT" /\ u.overridden},
        n \in {0, Never}, m \in {"INHERIT", "ADD", "SET"}, v \in {0, 2}}

MCTenants == AnyStatus \cup NoSubscription \cup AnyDeadline \cup AnyLimit
================================================================================
