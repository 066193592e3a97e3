------------------------------- MODULE MCTenancy -------------------------------
(* Each mix is one setting; in the second, the tenants of MCTenantAccess are   *)
(* asked about.  In behaviours of their own the office edits what tenants may  *)
(* use (Entitlements), or accounts are created, verified and repaired        *)
(* (Provisioning).                                                             *)
EXTENDS Subscriptions, MCTenantAccess, Entitlements, Provisioning, TLC

MCMixes == {
    {},
    {"resolve"},
    {"trial", "changePlan", "submitProof", "approve", "reject", "race"},
    {"trial", "changePlan", "submitProof", "approve", "reject", "clock"},
    {"trial", "two", "coupon", "changePlan", "submitProof", "approve", "cancelCheckout", "race"},
    {"trial", "two", "coupon", "changePlan", "submitProof", "reject", "clock"},
    {"trial", "two", "coupon", "changePlan", "submitProof", "approve", "toggle"},
    {"owing", "changePlan", "submitProof", "approve", "reject", "race"},
    {"provision", "clock", "expire", "submitProof", "approve", "grant", "race"},
    {"paid", "clock", "expire", "grant", "extendTrial", "reactivateSubscription", "cancelSubscription"},
    {"paid", "clock", "expire", "downgrade", "changeTenantPlan"},
    {"paid", "cancelAtPeriodEnd", "resume", "setTenantCancel", "suspendSubscription", "restartTrial",
     "extendTenantTrial", "endTrial"},
    {"trial", "clock", "extendTrial", "expire", "race"},
    {"paid", "clock", "grant", "refund", "suspendTenant", "verifyGlobalUser"},
    {"paid", "suspendTenant", "reactivateTenant", "archiveTenant", "restoreTenant",
     "suspendAdminAccount", "activateAdminAccount", "race"},
    {"paid", "demote", "race"},
    {"paid", "upload", "hardDelete", "die", "clock", "race"}}

MCChores == {
    {"plan", "subscription", "override"},
    {"seed", "subscription", "override", "lifecycle", "race"},
    {"seed", "subscription", "override", "race", "fail"},
    {"seed", "lifecycle", "support"},
    {"restart", "plan"},
    {}}

MCErrands == {
    {"register", "office", "staff", "fail", "die"},
    {"register", "verify", "expire", "die"},
    {"register", "verify", "status"},
    {"office", "staff", "fail", "verify"},
    {"office", "repair", "fail", "expire", "status"},
    {"before", "repair", "status", "backfill", "expire"},
    {"staff", "deleteStaff", "fail"},
    {"register", "verify", "owner", "reset", "die"},
    {"office", "staff", "fail", "reset", "vouch"},
    {"office", "vouch", "repair", "owner", "verify"}}

MCInit ==
    /\ Init
    /\ InitEntitlements(IF ops = {} THEN MCChores ELSE {{}})
    /\ InitProvisioning(IF ops = {} /\ chores = {} THEN MCErrands ELSE {{}})

MCNext ==
    \/ ops # {} /\ Next /\ UNCHANGED <<entitlementVars, provisioningVars>>
    \/ chores # {} /\ EntitlementNext /\ UNCHANGED <<allVars, provisioningVars>>
    \/ errands # {} /\ ProvisioningNext /\ UNCHANGED <<allVars, entitlementVars>>

MCSpec == MCInit /\ [][MCNext]_<<allVars, entitlementVars, provisioningVars>>

\* The parts do not meet: they share the model values of these sets.
Symmetric == Permutations(Accounts) \cup Permutations(Requests) \cup Permutations(Checkouts)
             \cup Permutations(Payments)
================================================================================
