------------------------------ MODULE Entitlements ------------------------------
(* What a tenant may use: the features a plan lists, as the office edits them  *)
(* and the server completes them when it starts, the exceptions made for one   *)
(* tenant, the answers the gates keep, and the support mode in which the       *)
(* office looks at a holder's pages.                                           *)
(*                                                                             *)
(* One plan; its prices and billing periods are data.  An answer is kept as    *)
(* TenantAccessCache keeps it: one that was being computed when the answers    *)
(* were invalidated is not kept, so computing and keeping is one step here.    *)
EXTENDS FiniteSets

CONSTANTS
    Features,         \* keys of the catalogue that the plan may list
    WebsiteFeatures,  \* those the server adds to plans that do not have them
    SeededFeatures,   \* those the server's own list includes in this plan
    Organizations,
    Desks,            \* requests of the office in progress
    Supporters,       \* super admins
    SupportIds,       \* ids of support sessions
    Unset

ASSUME EntitlementAssumption ==
    /\ WebsiteFeatures \cup SeededFeatures \subseteq Features
    /\ Unset \notin Organizations \cup Supporters \cup SupportIds

VARIABLES
    plan,       \* [exists, active, listed : Features -> Entry or Unset]
    holder,     \* Organizations -> [active, open, override]
    kept,       \* Organizations -> the answer in the cache, or Unset
    unsure,     \* those whose answer could not be invalidated
    desk,       \* Desks -> the request in progress
    support,    \* SupportIds -> [by, tenant] while the session's key is there, or Unset
    actorKey,   \* Supporters -> the session the actor's key names, or Unset
    chores      \* the operations of this behaviour

entitlementVars == <<plan, holder, kept, unsure, desk, support, actorKey, chores>>
supportVars == <<support, actorKey, chores>>

NothingListed == [f \in Features |-> Unset]
NoPlan == [exists |-> FALSE, active |-> FALSE, listed |-> NothingListed]

\* A feature is recognised by its key however the office words it: by the label
\* of the catalogue or by another one.
Entry(how, included) == [label |-> how, included |-> included]
Entries == {Entry(how, b) : how \in {"catalogue", "other"}, b \in BOOLEAN}
Listings == [Features -> Entries \cup {Unset}]

\* Of two entries of one feature the later one counts.
Normalized(first, later) == [f \in Features |-> IF later[f] # Unset THEN later[f] ELSE first[f]]

Exceptions == [Features -> {"INHERIT", "FORCE_ENABLED", "FORCE_DISABLED"}]
Inherit == [f \in Features |-> "INHERIT"]

\* left: whose answers are still to be invalidated; by, of: who opens whose pages.
AtRest == [at |-> "rest", changed |-> FALSE, left |-> {}, listed |-> Unset, by |-> Unset, of |-> Unset]
At(r, stage) == desk[r].at = stage
Sits(r, request) == desk' = [desk EXCEPT ![r] = request]

\* Without "race" the office finishes one request before it starts the next.
MayBegin(r) == At(r, "rest") /\ ("race" \in chores \/ \A q \in Desks : At(q, "rest"))

InitEntitlements(mixes) ==
    /\ chores \in mixes
    /\ plan = NoPlan
    /\ holder = [o \in Organizations |-> [active |-> FALSE, open |-> TRUE, override |-> Inherit]]
    /\ kept = [o \in Organizations |-> Unset] /\ unsure = {}
    /\ desk = [r \in Desks |-> AtRest]
    /\ support = [s \in SupportIds |-> Unset]
    /\ actorKey = [a \in Supporters |-> Unset]

--------------------------------------------------------------------------------
(* What a tenant may use, and what the gates go by *)

Includes(f) == plan.listed[f] # Unset /\ plan.listed[f].included
ApplyFeatureOverride(included, mode) ==
    CASE mode = "FORCE_ENABLED" -> TRUE [] mode = "FORCE_DISABLED" -> FALSE [] OTHER -> included
EffectiveFeatures(o) == {f \in Features : ApplyFeatureOverride(Includes(f), holder[o].override[f])}
Answer(o) == [allowed |-> holder[o].active /\ holder[o].open, features |-> EffectiveFeatures(o)]

\* A request of the tenant meets the gates: the answer is computed if none is kept.
CheckSubscription(o) ==
    /\ plan.exists /\ kept[o] = Unset
    /\ kept' = [kept EXCEPT ![o] = Answer(o)]
    /\ UNCHANGED <<plan, holder, unsure, desk, supportVars>>

AnswerExpires(o) ==
    /\ kept[o] # Unset
    /\ kept' = [kept EXCEPT ![o] = Unset] /\ unsure' = unsure \ {o}
    /\ UNCHANGED <<plan, holder, desk, supportVars>>

--------------------------------------------------------------------------------
(* The plan *)

Seeded(f) == Entry("catalogue", f \in SeededFeatures)

\* The server looks for the label, not for the feature.
MissingWebsiteEntitlements(listed) ==
    [f \in Features |-> IF f \in WebsiteFeatures /\ (listed[f] = Unset \/ listed[f].label # "catalogue")
                        THEN Seeded(f) ELSE Unset]

\* The server starts, for the first time or again; nobody's answer is invalidated.
SeedSubscriptionPlans ==
    /\ "restart" \in chores \/ ("seed" \in chores /\ ~plan.exists)
    /\ LET listed == IF plan.exists THEN plan.listed ELSE [f \in Features |-> Seeded(f)] IN
       plan' = [exists |-> TRUE, active |-> plan.exists => plan.active,
                listed |-> Normalized(listed, MissingWebsiteEntitlements(listed))]
    /\ plan' # plan
    /\ UNCHANGED <<holder, kept, unsure, desk, supportVars>>

CreateSubscriptionPlan(listed) ==
    /\ "plan" \in chores /\ ~plan.exists
    /\ plan' = [exists |-> TRUE, active |-> TRUE, listed |-> listed]
    /\ UNCHANGED <<holder, kept, unsure, desk, supportVars>>

\* Whether the features change is decided by what the request read.
StartPlanUpdate(r, listed) ==
    /\ "plan" \in chores /\ plan.exists /\ MayBegin(r)
    /\ Sits(r, [AtRest EXCEPT !.at = "write", !.listed = listed,
                              !.changed = listed \notin {Unset, plan.listed}])
    /\ UNCHANGED <<plan, holder, kept, unsure, supportVars>>

\* One transaction; it fails for a billing period that is new and has no price.
UpdateSubscriptionPlan(r, active) ==
    /\ At(r, "write")
    /\ \/ /\ plan' = [plan EXCEPT !.active = active,
                                  !.listed = IF desk[r].listed = Unset THEN @ ELSE desk[r].listed]
          /\ Sits(r, IF desk[r].changed THEN [AtRest EXCEPT !.at = "find"] ELSE AtRest)
       \/ Sits(r, AtRest) /\ UNCHANGED plan
    /\ UNCHANGED <<holder, kept, unsure, supportVars>>

\* Mutant: nobody is taken to be on a plan that is not sold any more.
AffectedWhileSold == {o \in Organizations : plan.active /\ holder[o].active}
AffectedSubscriptions == {o \in Organizations : holder[o].active}

FindAffected(r) ==
    /\ At(r, "find")
    /\ Sits(r, [AtRest EXCEPT !.at = "invalidate", !.left = AffectedSubscriptions])
    /\ UNCHANGED <<plan, holder, kept, unsure, supportVars>>

\* All that are left are tried, whichever of them fail.
InvalidateSubscriptionAccessCache(r, o) ==
    /\ At(r, "invalidate") /\ o \in desk[r].left
    /\ \/ kept' = [kept EXCEPT ![o] = Unset] /\ unsure' = unsure \ {o}
       \/ "fail" \in chores /\ kept[o] # Unset /\ unsure' = unsure \cup {o} /\ UNCHANGED kept
    /\ Sits(r, [desk[r] EXCEPT !.left = @ \ {o}])
    /\ UNCHANGED <<plan, holder, supportVars>>

Answered(r) ==
    /\ At(r, "invalidate") /\ desk[r].left = {}
    /\ Sits(r, AtRest)
    /\ UNCHANGED <<plan, holder, kept, unsure, supportVars>>

--------------------------------------------------------------------------------
(* One tenant: the row is written, then its answer invalidated *)

WriteTenant(r, o, new) ==
    /\ plan.exists /\ MayBegin(r) /\ new # holder[o]
    /\ holder' = [holder EXCEPT ![o] = new]
    /\ Sits(r, [AtRest EXCEPT !.at = "invalidate", !.left = {o}])
    /\ UNCHANGED <<plan, kept, unsure, supportVars>>

SetTenantEntitlements(r, o, override) ==
    "override" \in chores /\ WriteTenant(r, o, [holder[o] EXCEPT !.override = override])
ChangeTenantPlan(r, o) ==
    "subscription" \in chores /\ plan.active /\ WriteTenant(r, o, [holder[o] EXCEPT !.active = TRUE])
EndTrial(r, o) ==
    "subscription" \in chores /\ WriteTenant(r, o, [holder[o] EXCEPT !.active = FALSE])
SuspendOrReactivate(r, o) ==
    "lifecycle" \in chores /\ WriteTenant(r, o, [holder[o] EXCEPT !.open = ~@])

--------------------------------------------------------------------------------
(* Support mode: a key for the session and a key for the actor, with one time to live *)

LiveSessions(a) == {s \in SupportIds : support[s] # Unset /\ support[s].by = a}

StartSupportMode(r, a, o) ==
    /\ "support" \in chores /\ MayBegin(r) /\ holder[o].open
    /\ Sits(r, [AtRest EXCEPT !.at = "look", !.by = a, !.of = o])
    /\ UNCHANGED <<plan, holder, kept, unsure, supportVars>>

SupportsNobody(a) == actorKey[a] = Unset \/ support[actorKey[a]] = Unset

LookForSession(r) ==
    /\ At(r, "look")
    /\ Sits(r, IF SupportsNobody(desk[r].by) THEN [desk[r] EXCEPT !.at = "persist"] ELSE AtRest)
    /\ UNCHANGED <<plan, holder, kept, unsure, supportVars>>

PersistSupportSession(r, s) ==
    /\ At(r, "persist") /\ support[s] = Unset
    /\ support' = [support EXCEPT ![s] = [by |-> desk[r].by, tenant |-> desk[r].of]]
    /\ actorKey' = [actorKey EXCEPT ![desk[r].by] = s]
    /\ Sits(r, AtRest)
    /\ UNCHANGED <<plan, holder, kept, unsure, chores>>

AssertTargetStillAvailable(s) == holder[support[s].tenant].open

\* Both keys go at once.
Leave(a, s) ==
    /\ s \in LiveSessions(a)
    /\ support' = [support EXCEPT ![s] = Unset]
    /\ actorKey' = [actorKey EXCEPT ![a] = Unset]
    /\ UNCHANGED <<plan, holder, kept, unsure, desk, chores>>

EndSupportMode(a, s) == Leave(a, s) /\ AssertTargetStillAvailable(s)

\* A key's time is over.
KeyExpires(a, s) ==
    /\ s \in LiveSessions(a)
    /\ support' = [support EXCEPT ![s] = Unset]
    /\ actorKey' = [actorKey EXCEPT ![a] = IF @ = s THEN Unset ELSE @]
    /\ UNCHANGED <<plan, holder, kept, unsure, desk, chores>>

EntitlementNext ==
    \/ SeedSubscriptionPlans
    \/ \E o \in Organizations : CheckSubscription(o) \/ AnswerExpires(o)
    \/ \E listed \in Listings : CreateSubscriptionPlan(listed)
    \/ \E r \in Desks :
          \/ \E listed \in Listings \cup {Unset} : StartPlanUpdate(r, listed)
          \/ \E active \in BOOLEAN : UpdateSubscriptionPlan(r, active)
          \/ FindAffected(r) \/ Answered(r)
          \/ \E o \in Organizations :
                \/ InvalidateSubscriptionAccessCache(r, o)
                \/ ChangeTenantPlan(r, o) \/ EndTrial(r, o) \/ SuspendOrReactivate(r, o)
                \/ \E override \in Exceptions : SetTenantEntitlements(r, o, override)
                \/ \E a \in Supporters : StartSupportMode(r, a, o)
          \/ LookForSession(r)
          \/ \E s \in SupportIds : PersistSupportSession(r, s)
    \/ \E a \in Supporters, s \in SupportIds : EndSupportMode(a, s) \/ KeyExpires(a, s)

EntitlementSpec(mixes) == InitEntitlements(mixes) /\ [][EntitlementNext]_entitlementVars

--------------------------------------------------------------------------------
(* Properties *)

\* Somebody is about to invalidate the holder's answer.
Invalidating(o) == \E r \in Desks : At(r, "find") \/ o \in desk[r].left

\* Access ends with what granted it: once the request that changed the plan, an
\* exception, the subscription or the organization has been answered, a tenant that is
\* let in may still be let in and uses what it has now, whoever it was that changed
\* something meanwhile; unless its answer could not be invalidated, the server was
\* restarted, or two updates of the plan overlapped.  A super admin looks at
\* one holder's pages at a time, and the actor's key names that session, unless two
\* starts overlap.
AccessEndsWithItsGrant ==
    /\ \A o \in Organizations :
          kept[o] # Unset /\ kept[o].allowed /\ o \notin unsure /\ "restart" \notin chores
          /\ {"plan", "race"} \cap chores # {"plan", "race"} /\ ~Invalidating(o)
          => kept[o] = Answer(o)
    /\ \A a \in Supporters :
          "race" \in chores \/ \A s \in LiveSessions(a) : actorKey[a] = s

\* What the server adds when it starts never changes a choice the office made
\* (seedSubscriptionPlan.ts:306-309).
SeedingKeepsChoices ==
    [][SeedSubscriptionPlans =>
          \A f \in Features : plan.listed[f] # Unset => plan'.listed[f].included = plan.listed[f].included
      ]_entitlementVars

================================================================================
