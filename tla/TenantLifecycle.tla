----------------------------- MODULE TenantLifecycle -----------------------------
(***************************************************************************)
(* What the platform's administrators do to a tenant: suspend, archive,    *)
(* restore, verify and delete it for good (tenantAdmin.service.ts and the  *)
(* older account switches of superAdmin.service.ts).                       *)
(*                                                                         *)
(* A row of account joins the tenant's profile, its owner and its          *)
(* subscription, so that TenantAccess decides on it.  A handler reads the  *)
(* row and checks (Ask), then writes by id (Change); deletion goes on      *)
(* through the bucket to the rows, and may fail or die on the way.         *)
(***************************************************************************)
EXTENDS TenantAccess, FiniteSets

CONSTANTS
    Accounts,       \* ids of tenants
    Requests,       \* concurrent requests
    Administrators, \* who may be super admins
    Files,          \* objects under a tenant's prefixes of the buckets
    PlanIds,        \* priced plans, from the smallest
    Stale,          \* after so long an attempt at deletion may be retried
    Mixes,          \* sets of handlers, one of which is in use in a behaviour
    Nothing

ASSUME LifecycleAssumption == Stale \in Nat \ {0} /\ Nothing \notin Accounts \cup PlanIds

VARIABLES
    account,  \* [Accounts -> row]
    file,     \* [Accounts -> [Files -> Whereabouts]]
    supers,   \* the super admins
    asked,    \* [Requests -> what a request has read, or Nothing]
    ops       \* never changes: the handlers in use

tenancyVars == <<account, file, supers, asked, ops>>

Row ==
    [lifecycle : {"ACTIVE", "SUSPENDED", "ARCHIVED", "PENDING_DELETION", "GONE"},
     before : {"ACTIVE", "SUSPENDED", Nothing},     \* preArchiveLifecycleStatus
     owner : {"ACTIVE", "PENDING", "SUSPENDED"},
     failed : BOOLEAN,                              \* deletionLastError is set
     tried : Deadline,                              \* deletionLastAttemptAt
     subscription : {"NONE", "ACTIVE", "CANCELLED", "EXPIRED", "SUSPENDED", "PENDING_PAYMENT"},
     plan : PlanIds \cup {Nothing},
     isTrial : BOOLEAN,
     trialEndsAt : Deadline,
     periodEnd : Deadline,
     ending : BOOLEAN]                              \* cancelAtPeriodEnd

\* A tenant whose owner has signed up.
NewRow ==
    [lifecycle |-> "ACTIVE", before |-> Nothing, owner |-> "ACTIVE", failed |-> FALSE,
     tried |-> Never, subscription |-> "NONE", plan |-> Nothing, isTrial |-> FALSE,
     trialEndsAt |-> Never, periodEnd |-> Never, ending |-> FALSE]

GoneRow == [NewRow EXCEPT !.lifecycle = "GONE"]

\* An upload let in by the access check is not yet put ("sent"), or in the bucket ("stored");
\* one that no check since the last purge has let in is out ("loose"), or in the bucket ("left").
Whereabouts == {"none", "sent", "stored", "loose", "left"}

Bare(files) == \A f \in Files : files[f] \notin {"sent", "stored"}

Exists(a) == account[a].lifecycle # "GONE"

Reason(a) == DeniedReason(account[a], Ended(account[a], now))

\* assertTenantMutable
Mutable(row) == row.lifecycle # "PENDING_DELETION"

LifecycleInit ==
    /\ ops \in Mixes
    /\ file = [a \in Accounts |-> [f \in Files |-> "none"]]
    /\ supers = Administrators
    /\ asked = [r \in Requests |-> Nothing]

--------------------------------------------------------------------------------
(* Requests *)

\* A request for op begins; without "race" in the mix, one at a time.
Idle(r, op) ==
    /\ op \in ops
    /\ asked[r] = Nothing
    /\ "race" \in ops \/ \A q \in Requests : asked[q] = Nothing

Remember(r, read) == asked' = [asked EXCEPT ![r] = read]

Forget(r) == asked' = [asked EXCEPT ![r] = Nothing]

Asks(r, op) == asked[r] # Nothing /\ asked[r].op = op

LifecycleOps ==
    {"suspendTenant", "reactivateTenant", "archiveTenant", "restoreTenant",
     "suspendAdminAccount", "activateAdminAccount", "verifyGlobalUser"}

\* What a handler requires of the row it has read.
LifecycleAllows(op, seen) ==
    \/ op \in {"suspendTenant", "reactivateTenant", "archiveTenant"}
        /\ Mutable(seen) /\ seen.lifecycle # "ARCHIVED"
    \/ op = "restoreTenant" /\ seen.lifecycle = "ARCHIVED"
    \/ op \in {"suspendAdminAccount", "activateAdminAccount"}
    \/ op = "verifyGlobalUser" /\ Mutable(seen)

\* What it writes over the row it finds, by id.
LifecycleWrites(op, seen, row) ==
    CASE op = "suspendTenant" -> [row EXCEPT !.lifecycle = "SUSPENDED", !.owner = "SUSPENDED"]
      [] op = "reactivateTenant" -> [row EXCEPT !.lifecycle = "ACTIVE", !.owner = "ACTIVE"]
      [] op = "archiveTenant" ->
            [row EXCEPT !.lifecycle = "ARCHIVED", !.before = seen.lifecycle, !.owner = "SUSPENDED"]
      [] op = "restoreTenant" ->
            LET to == IF seen.before = "SUSPENDED" THEN "SUSPENDED" ELSE "ACTIVE"
            IN  [row EXCEPT !.lifecycle = to, !.before = Nothing, !.owner = to]
      [] op = "suspendAdminAccount" -> [row EXCEPT !.owner = "SUSPENDED"]
      [] op = "activateAdminAccount" -> [row EXCEPT !.owner = "ACTIVE"]
      [] op = "verifyGlobalUser" ->
            [row EXCEPT !.owner = IF seen.owner = "PENDING" THEN "ACTIVE" ELSE @]

AskLifecycle(r) ==
    \E op \in LifecycleOps, a \in Accounts :
        /\ Idle(r, op)
        /\ Exists(a) /\ LifecycleAllows(op, account[a])
        /\ Remember(r, [op |-> op, account |-> a, seen |-> account[a]])
        /\ UNCHANGED <<account, file, supers, ops>>

ChangeLifecycle(r) ==
    /\ asked[r] # Nothing /\ asked[r].op \in LifecycleOps
    /\ LET q == asked[r]
       IN  account' = IF Exists(q.account)
                      THEN [account EXCEPT ![q.account] = LifecycleWrites(q.op, q.seen, @)]
                      ELSE account
    /\ Forget(r)
    /\ UNCHANGED <<file, supers, ops>>

\* updateGlobalUserRole: the last super admin is counted before the write.
AskDemotion(r) ==
    \E actor, user \in supers :
        /\ Idle(r, "demote") /\ user # actor
        /\ supers \ {user} # {}
        /\ Remember(r, [op |-> "demote", user |-> user])
        /\ UNCHANGED <<account, file, supers, ops>>

Demote(r) ==
    /\ Asks(r, "demote")
    /\ supers' = supers \ {asked[r].user}
    /\ Forget(r)
    /\ UNCHANGED <<account, file, ops>>

--------------------------------------------------------------------------------
(* Deletion for good *)

\* An upload is let in, and gets its address: the tenant's people pass the access check, a
\* client with a portal link passes none.
StartUpload(a) ==
    /\ "upload" \in ops /\ Exists(a)
    /\ \E f \in Files, as \in {"sent", "loose"} :
         /\ file[a][f] = "none"
         /\ as = "sent" => Reason(a) = "ACTIVE"
         /\ file' = [file EXCEPT ![a][f] = as]
    /\ UNCHANGED <<account, supers, asked, ops>>

\* The bytes arrive any time later, and ask nobody: at the presigned address, or from the
\* image work of a request.
StoreUpload(a) ==
    /\ \E f \in Files :
         /\ file[a][f] \in {"sent", "loose"}
         /\ file' = [file EXCEPT ![a][f] = IF @ = "sent" THEN "stored" ELSE "left"]
    /\ UNCHANGED <<account, supers, asked, ops>>

AskDeletion(r) ==
    \E a \in Accounts :
        /\ Idle(r, "hardDelete")
        /\ Exists(a)
        /\ Remember(r, [op |-> "hardDelete", account |-> a, seen |-> account[a], at |-> now,
                        stage |-> "claim"])
        /\ UNCHANGED <<account, file, supers, ops>>

\* The first attempt marks the row if nobody else has; a retry needs a recorded failure or
\* an attempt that has become stale, in the row as it was read.
MayClaim(q) ==
    IF Mutable(q.seen) THEN Mutable(account[q.account])
    ELSE q.seen.failed \/ q.seen.tried + Stale <= q.at

\* The row is not marked before the bucket is emptied.
ClaimedLate(row, at) == [row EXCEPT !.failed = FALSE, !.tried = at]

Claimed(row, at) ==
    [row EXCEPT !.lifecycle = "PENDING_DELETION", !.owner = "SUSPENDED", !.failed = FALSE,
                !.tried = at]

ClaimDeletion(r) ==
    /\ Asks(r, "hardDelete") /\ asked[r].stage = "claim"
    /\ LET q == asked[r]
       IN  IF Exists(q.account) /\ MayClaim(q)
           THEN /\ account' = [account EXCEPT ![q.account] = Claimed(@, q.at)]
                /\ Remember(r, [q EXCEPT !.stage = "purge"])
           ELSE Forget(r) /\ UNCHANGED account
    /\ UNCHANGED <<file, supers, ops>>

\* recordFailure: written over whatever the row has become; there may be none any more.
RecordFailure(a) ==
    account' = IF Exists(a)
               THEN [account EXCEPT ![a].lifecycle = "PENDING_DELETION", ![a].failed = TRUE,
                                    ![a].tried = now]
               ELSE account

\* What is removed may be put again while its address is good.
Removed(where) ==
    CASE where = "stored" -> "sent" [] where = "left" -> "loose" [] OTHER -> where

Purged(where) == IF where = "none" THEN "none" ELSE "loose"

\* purgeTenantR2Objects: the three prefixes are emptied at once, and each may fail.
Purge(r) ==
    /\ Asks(r, "hardDelete") /\ asked[r].stage = "purge"
    /\ LET q == asked[r]
           had == file[q.account]
       IN  \/ /\ file' = [file EXCEPT ![q.account] = [f \in Files |-> Purged(had[f])]]
              /\ Remember(r, [q EXCEPT !.stage = "rows"])
              /\ UNCHANGED account
           \/ /\ \E some \in SUBSET Files :
                   file' = [file EXCEPT ![q.account] =
                              [f \in Files |-> IF f \in some THEN Removed(had[f]) ELSE had[f]]]
              /\ Forget(r) /\ RecordFailure(q.account)
    /\ UNCHANGED <<supers, ops>>

\* One transaction; the second of two attempts no longer finds the owner.
DeleteRows(r) ==
    /\ Asks(r, "hardDelete") /\ asked[r].stage = "rows"
    /\ LET a == asked[r].account
       IN  \/ Exists(a) /\ account' = [account EXCEPT ![a] = GoneRow]
           \/ RecordFailure(a)
    /\ Forget(r)
    /\ UNCHANGED <<file, supers, ops>>

\* The process dies in the middle of a deletion.
Die(r) ==
    /\ "die" \in ops /\ Asks(r, "hardDelete")
    /\ Forget(r)
    /\ UNCHANGED <<account, file, supers, ops>>

LifecycleStep ==
    \/ \E r \in Requests : AskLifecycle(r) \/ ChangeLifecycle(r)
    \/ \E r \in Requests : AskDemotion(r) \/ Demote(r)
    \/ \E r \in Requests :
          AskDeletion(r) \/ ClaimDeletion(r) \/ Purge(r) \/ DeleteRows(r) \/ Die(r)
    \/ \E a \in Accounts : StartUpload(a) \/ StoreUpload(a)

--------------------------------------------------------------------------------
(* Properties *)

\* Nobody whose access is checked uploads behind a deletion's last purge, however its attempts
\* fail, die, overlap and are retried (hardDeleteTenant): whatever of a gone tenant is in the
\* buckets, or may still get there, was let in before that purge or by a client's link.  An
\* administrator's handler that read the tenant before the claim could let its people in again.
GoneLeavesNoFiles ==
    ops \cap LifecycleOps = {} =>
        \A a \in Accounts : ~Exists(a) => Bare(file[a])

--------------------------------------------------------------------------------
(* Claims the code does not keep: see the README. *)

\* "The final Super Admin cannot be demoted." (updateGlobalUserRole)
SomebodyIsSuperAdmin == supers # {}

\* "pending permanent deletion ... before making other changes" (assertTenantMutable)
DeletionIsNotUndone ==
    [][\A a \in Accounts : account[a].lifecycle = "PENDING_DELETION" =>
          account'[a].lifecycle \in {"PENDING_DELETION", "GONE"}]_account
================================================================================
