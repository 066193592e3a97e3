------------------------------ MODULE Provisioning -------------------------------
(* How a person's account and the business behind it come into being, and how
   gaps are closed.

   Who registers (Auth/accountProvisioning.service.ts) gets the user, the
   profile, the website, its form and services, the trial and the mail with the
   code in one transaction.  A super admin who creates an administrator and an
   administrator who creates a cleaner (SuperAdmin, Staff) sign the person up
   with Better Auth first, which commits a user of its own, complete it in a
   transaction, and delete the user again when that fails.  Scripts look for
   administrators that lack a part and add it (Auth/accountIntegrity.service.ts).

   The office edits what a person has: status, address, verification; that it may
   give a role to somebody without a profile is left out.  So are the limit of the
   plan, prices, passwords and sessions, and the end of a tenant: see
   Subscriptions, Sessions and TenantLifecycle.                                  *)
EXTENDS Naturals, Sequences

CONSTANTS
    Persons,       \* the ids of users
    Mails,         \* e-mail addresses, as the code lowers them
    Callers,       \* requests that may be at work at a time
    Missing        \* no row

\* A row of "user" with its profile, its website and the statuses of its subscriptions in
\* the order of their creation.  The rest is history: by and left say where it came from, and
\* hand that the office changed its "address", that it vouched for it or set its status
\* ("office"), and that a reset of the password verified it ("reset").
UserRow == [
    mail : Mails, role : {"ADMIN", "STAFF"}, status : {"PENDING", "ACTIVE", "SUSPENDED"},
    verified : BOOLEAN, temporary : BOOLEAN, profile : BOOLEAN, site : BOOLEAN,
    subs : {<<>>, <<"ACTIVE">>, <<"EXPIRED">>}, invited : BOOLEAN,
    by : {"self", "office", "before"}, left : BOOLEAN,
    hand : SUBSET {"address", "office", "reset"}]

ASSUME ProvisioningAssumption == Missing \notin Persons \cup UserRow

VARIABLES
    errands,    \* what happens in this behaviour
    platform,   \* [open, verifies, trial]: the configuration, and whether the trial's plan exists
    person,     \* [Persons -> row, or Missing]
    caller        \* [Callers -> what a request has done]

provisioningVars == <<errands, platform, person, caller>>

Untouched == [at |-> "rest", kind |-> "none", who |-> Missing, mail |-> Missing, saw |-> Missing]

User(m, role, by) == [
    mail |-> m, role |-> role, status |-> "PENDING", verified |-> FALSE, temporary |-> FALSE,
    profile |-> FALSE, site |-> FALSE, subs |-> <<>>, invited |-> FALSE, by |-> by, left |-> FALSE,
    hand |-> {}]

\* What earlier releases left behind: an active administrator without a part of the business.
FromBefore(m) == [
    mail : {m}, role : {"ADMIN"}, status : {"ACTIVE"}, verified : {TRUE}, temporary : {FALSE},
    profile : BOOLEAN, site : BOOLEAN, subs : {<<>>, <<"EXPIRED">>}, invited : {FALSE},
    by : {"before"}, left : {FALSE}, hand : {{}}]
Consistent(row) == ~row.profile => ~row.site /\ row.subs = <<>>

InitProvisioning(mixes) ==
    /\ errands \in mixes
    /\ platform \in IF errands = {} THEN {[open |-> TRUE, verifies |-> TRUE, trial |-> TRUE]}
                    ELSE [open : BOOLEAN, verifies : BOOLEAN, trial : BOOLEAN]
    /\ caller = [c \in Callers |-> Untouched]
    /\ IF "before" \in errands
       THEN \E p \in Persons, m \in Mails :
                \E row \in {r \in FromBefore(m) : Consistent(r)} :
                    person = [q \in Persons |-> IF q = p THEN row ELSE Missing]
       ELSE person = [q \in Persons |-> Missing]

HasUser(p) == person[p] # Missing
Fresh == {p \in Persons : ~HasUser(p) /\ \A c \in Callers : caller[c].who # p}
MailFree(m) == \A p \in Persons : HasUser(p) => person[p].mail # m
Active(subs) == \E i \in DOMAIN subs : subs[i] = "ACTIVE"
TurnsTo(c, to) == caller' = [caller EXCEPT ![c] = to]
Stage(c, step) == caller[c].at = step
EndsAs(c, how) == caller' = [caller EXCEPT ![c].at = how]
Writes(p, row) == person' = [person EXCEPT ![p] = row]

--------------------------------------------------------------------------------
(* Somebody registers *)

Registered(m) == [User(m, "ADMIN", "self") EXCEPT
    !.status = IF platform.verifies THEN "PENDING" ELSE "ACTIVE",
    !.verified = ~platform.verifies,
    !.invited = platform.verifies,
    !.profile = TRUE, !.site = TRUE, !.subs = <<"ACTIVE">>]

\* Closed, no plan, an address in use or a failure: nothing is written.  The answer may be lost.
Register(c, m) ==
    LET accepted == platform.open /\ platform.trial /\ MailFree(m) IN
    /\ "register" \in errands /\ Stage(c, "rest")
    /\ \/ /\ accepted
          /\ \E p \in Fresh :
                /\ Writes(p, Registered(m))
                /\ TurnsTo(c, [Untouched EXCEPT !.at = "done", !.kind = "register", !.who = p])
       \/ /\ accepted => "fail" \in errands
          /\ EndsAs(c, "refused") /\ UNCHANGED person
    /\ UNCHANGED <<errands, platform>>

--------------------------------------------------------------------------------
(* A super admin creates an administrator, an administrator a cleaner *)

\* Only the super admin's request looks for the address before it signs the person up.
Looks(c, kind, m) ==
    /\ kind \in errands \cap {"office", "staff"} /\ Stage(c, "rest")
    /\ TurnsTo(c, [Untouched EXCEPT !.at = IF kind = "office" => MailFree(m) THEN "sign up" ELSE "refused",
                            !.kind = kind, !.mail = m])
    /\ UNCHANGED <<errands, platform, person>>

\* The user that Better Auth commits.
SignedUpActive(m, role) == [User(m, role, "office") EXCEPT !.status = "ACTIVE", !.verified = TRUE]
SignedUp(m, role) == User(m, role, "office")

SignsUp(c) ==
    /\ Stage(c, "sign up")
    /\ IF MailFree(caller[c].mail)
       THEN \E p \in Fresh :
              /\ Writes(p, SignedUp(caller[c].mail, IF caller[c].kind = "office" THEN "ADMIN" ELSE "STAFF"))
              /\ TurnsTo(c, [caller[c] EXCEPT !.at = "complete", !.who = p])
       ELSE EndsAs(c, "refused") /\ UNCHANGED person
    /\ UNCHANGED <<errands, platform>>

\* The office gives no subscription.
Completed(row) == [row EXCEPT
    !.status = "ACTIVE", !.verified = TRUE, !.profile = TRUE,
    !.site = row.role = "ADMIN", !.temporary = row.role = "STAFF"]

\* The profile of a user that a repair completed first is in its way.
Completes(c) ==
    LET p == caller[c].who IN
    /\ Stage(c, "complete")
    /\ IF person[p].profile THEN EndsAs(c, "undo") /\ UNCHANGED person
       ELSE Writes(p, Completed(person[p])) /\ EndsAs(c, "done")
    /\ UNCHANGED <<errands, platform>>

\* The transaction fails, or the answer of its commit is lost.
CompletionFails(c) ==
    LET p == caller[c].who IN
    /\ "fail" \in errands /\ Stage(c, "complete")
    /\ UNCHANGED person \/ (~person[p].profile /\ Writes(p, Completed(person[p])))
    /\ EndsAs(c, "undo")
    /\ UNCHANGED <<errands, platform>>

\* An error of the deletion is swallowed.
Undoes(c) ==
    /\ Stage(c, "undo")
    /\ \/ Writes(caller[c].who, Missing) /\ EndsAs(c, "failed")
       \/ EndsAs(c, "left") /\ UNCHANGED person
    /\ UNCHANGED <<errands, platform>>

Dies(c) ==
    /\ "die" \in errands
    /\ \E step \in {"complete", "undo", "activate"} : Stage(c, step)
    /\ EndsAs(c, "died")
    /\ UNCHANGED <<errands, platform, person>>

\* The profile goes; the user stays, as does its address.
DeleteStaff(p) ==
    /\ "deleteStaff" \in errands /\ HasUser(p)
    /\ person[p].role = "STAFF" /\ person[p].profile
    /\ Writes(p, [person[p] EXCEPT !.profile = FALSE, !.left = TRUE])
    /\ UNCHANGED <<errands, platform, caller>>

--------------------------------------------------------------------------------
(* The code of the mail *)

\* A sign-in before the verification, or asking for it again, queues another mail.
ResendOtp(p) ==
    /\ "verify" \in errands /\ HasUser(p) /\ ~person[p].verified /\ ~person[p].invited
    /\ Writes(p, [person[p] EXCEPT !.invited = TRUE])
    /\ UNCHANGED <<errands, platform, caller>>

\* An administrator is verified when the business is there and its trial has not ended.
ReadyToVerify(row) == row.role = "ADMIN" => row.profile /\ Active(row.subs) /\ row.site

VerifyEmail(c, p) ==
    /\ "verify" \in errands /\ Stage(c, "rest") /\ HasUser(p)
    /\ TurnsTo(c, [Untouched EXCEPT !.at = IF ReadyToVerify(person[p]) THEN "prove" ELSE "refused",
                            !.kind = "verify", !.who = p, !.mail = person[p].mail])
    /\ UNCHANGED <<errands, platform, person>>

\* Better Auth accepts a code of the address once, whoever is verified by then; it is mailed to
\* administrators only.
ProvesCode(c) ==
    LET p == caller[c].who
        proves == HasUser(p) /\ person[p].mail = caller[c].mail
                  /\ person[p].invited /\ person[p].role = "ADMIN" IN
    /\ Stage(c, "prove")
    /\ IF proves
       THEN /\ Writes(p, [person[p] EXCEPT !.verified = TRUE, !.invited = FALSE])
            /\ EndsAs(c, "activate")
       ELSE EndsAs(c, "refused") /\ UNCHANGED person
    /\ UNCHANGED <<errands, platform>>

ActivatesVerified(c) ==
    LET p == caller[c].who IN
    /\ Stage(c, "activate")
    /\ IF HasUser(p) THEN Writes(p, [person[p] EXCEPT !.status = "ACTIVE"]) /\ EndsAs(c, "done")
       ELSE EndsAs(c, "refused") /\ UNCHANGED person
    /\ UNCHANGED <<errands, platform>>

\* The code that resets a password comes to the address too: Better Auth verifies it.
ResetPassword(p) ==
    /\ "reset" \in errands /\ HasUser(p) /\ ~person[p].verified
    /\ Writes(p, [person[p] EXCEPT !.verified = TRUE, !.hand = @ \cup {"reset"}])
    /\ UNCHANGED <<errands, platform, caller>>

--------------------------------------------------------------------------------
(* The office *)

\* suspendAdminAccount, activateAdminAccount, updateGlobalUserStatus: whatever the status was.
SetAdminStatus(p, to) ==
    /\ "status" \in errands /\ HasUser(p) /\ person[p].status # to
    /\ Writes(p, [person[p] EXCEPT !.status = to, !.hand = @ \cup {"office"}])
    /\ UNCHANGED <<errands, platform, caller>>

\* Its status stays, and no mail goes to the new address.
UpdateTenantOwner(p, m) ==
    /\ "owner" \in errands /\ HasUser(p) /\ person[p].role = "ADMIN" /\ person[p].profile
    /\ m = person[p].mail \/ MailFree(m)
    /\ Writes(p, [person[p] EXCEPT !.mail = m, !.verified = FALSE, !.invited = FALSE,
                                   !.hand = @ \cup {"address"}])
    /\ UNCHANGED <<errands, platform, caller>>

\* The row is read before it is written, but a status never becomes PENDING again.
VerifyGlobalUser(p) ==
    /\ "vouch" \in errands /\ HasUser(p)
    /\ Writes(p, [person[p] EXCEPT !.verified = TRUE, !.hand = @ \cup {"office"},
                                   !.status = IF @ = "PENDING" THEN "ACTIVE" ELSE @])
    /\ UNCHANGED <<errands, platform, caller>>

\* The expiry job (see TenantAccess) ends a trial.
TrialEnds(p) ==
    /\ "expire" \in errands /\ HasUser(p) /\ Active(person[p].subs)
    /\ Writes(p, [person[p] EXCEPT !.subs = [i \in DOMAIN @ |-> "EXPIRED"]])
    /\ UNCHANGED <<errands, platform, caller>>

--------------------------------------------------------------------------------
(* The audit and the repair *)

Usable(row) == row.status = "ACTIVE" /\ row.verified
Eligible(row) == row.role = "ADMIN" /\ Usable(row)

\* Any subscription counts: what has expired is history, not a gap.
LacksTrial(row) == row.subs = <<>>
Healthy(row) == row.profile /\ ~LacksTrial(row) /\ row.site

\* The script selects who is eligible, and inspects.
InspectActiveAdmin(c, p) ==
    /\ "repair" \in errands /\ Stage(c, "rest") /\ HasUser(p) /\ Eligible(person[p])
    /\ TurnsTo(c, [Untouched EXCEPT !.at = IF Healthy(person[p]) THEN "done" ELSE "repair",
                            !.kind = "repair", !.who = p])
    /\ UNCHANGED <<errands, platform, person>>

\* One repair of a person at a time.
RepairLockFree(c) == \A d \in Callers : Stage(d, "mend") => caller[d].who # caller[c].who

RepairReads(c) ==
    LET p == caller[c].who IN
    /\ Stage(c, "repair") /\ RepairLockFree(c)
    /\ caller' = IF HasUser(p) /\ Eligible(person[p])
               THEN [caller EXCEPT ![c] = [@ EXCEPT !.at = "mend", !.saw = person[p]]]
               ELSE [caller EXCEPT ![c].at = "refused"]
    /\ UNCHANGED <<errands, platform, person>>

\* The trial is created under a lock of its own, which looks for a history again.
TrialRefused(saw, row) == LacksTrial(saw) /\ (~platform.trial \/ row.subs # <<>>)
Mended(saw, row) == [row EXCEPT
    !.profile = TRUE, !.site = TRUE,
    !.subs = IF LacksTrial(saw) THEN Append(@, "ACTIVE") ELSE @]

\* All or nothing; a second profile of one user is refused by its unique index.
RepairActiveAdmin(c) ==
    LET p == caller[c].who  saw == caller[c].saw IN
    /\ Stage(c, "mend")
    /\ IF ~HasUser(p) \/ (person[p].profile # saw.profile) \/ TrialRefused(saw, person[p])
       THEN EndsAs(c, "refused") /\ UNCHANGED person
       ELSE Writes(p, Mended(saw, person[p])) /\ EndsAs(c, "mended")
    /\ UNCHANGED <<errands, platform>>

\* The script that gives a website to every business without one, eligible or not.
BackfillWebsite(p) ==
    /\ "backfill" \in errands /\ HasUser(p)
    /\ person[p].role = "ADMIN" /\ person[p].profile /\ ~person[p].site
    /\ Writes(p, [person[p] EXCEPT !.site = TRUE])
    /\ UNCHANGED <<errands, platform, caller>>

ProvisioningNext ==
    \/ \E c \in Callers :
        \/ \E m \in Mails : Register(c, m) \/ (\E kind \in {"office", "staff"} : Looks(c, kind, m))
        \/ SignsUp(c) \/ Completes(c) \/ CompletionFails(c) \/ Undoes(c) \/ Dies(c)
        \/ \E p \in Persons : VerifyEmail(c, p) \/ InspectActiveAdmin(c, p)
        \/ ProvesCode(c) \/ ActivatesVerified(c) \/ RepairReads(c) \/ RepairActiveAdmin(c)
    \/ \E p \in Persons :
        \/ DeleteStaff(p) \/ ResendOtp(p) \/ TrialEnds(p) \/ BackfillWebsite(p)
        \/ ResetPassword(p) \/ VerifyGlobalUser(p) \/ \E m \in Mails : UpdateTenantOwner(p, m)
        \/ \E to \in {"ACTIVE", "SUSPENDED"} : SetAdminStatus(p, to)

ProvisioningSpec(mixes) == InitProvisioning(mixes) /\ [][ProvisioningNext]_provisioningVars

--------------------------------------------------------------------------------
(* Correctness *)

\* Requests that have not finished with p, or were stopped by something outside.
Unfinished(p, steps) == \E c \in Callers : caller[c].who = p /\ caller[c].at \in steps

\* What registers itself is whole at once.  What the office or an administrator creates is
\* half there only while a request is at work on it, or after a death or a deletion that
\* failed too, and nobody gets into a half unless the office vouched for it or set its
\* status: an administrator without profile and website, a cleaner without a profile that was
\* never deleted.  ACTIVE is verified, unless the office set it or changed the address;
\* who is verified is let in, unless the request died, the office suspended the person or a
\* reset verified it; who waits for a code has a mail on the way, unless the office changed
\* the address.  A repair leaves a whole account, and no business is given a second trial
\* (Auth/accountProvisioning.service.ts, scripts/integrity/integrityChecks.ts).
AccountsAreWhole ==
    /\ \A p \in Persons : HasUser(p) /\ person[p].by # "before" =>
        LET row == person[p] IN
        /\ row.by = "self" =>
              /\ row.profile /\ row.site /\ row.subs # <<>>
              /\ row.verified \/ row.invited \/ "address" \in row.hand
        /\ Usable(row) /\ "office" \notin row.hand =>
              IF row.role = "ADMIN" THEN row.profile /\ row.site ELSE row.profile \/ row.left
        /\ row.profile \/ row.left \/ Unfinished(p, {"complete", "undo", "left", "died"})
        /\ row.status = "ACTIVE" => row.verified \/ row.hand \cap {"office", "address"} # {}
        /\ row.verified /\ row.status = "PENDING" =>
              Unfinished(p, {"activate", "died"}) \/ "reset" \in row.hand
    /\ \A p \in Persons : HasUser(p) => Len(person[p].subs) <= 1
    /\ \A c \in Callers : Stage(c, "mended") /\ HasUser(caller[c].who) => Healthy(person[caller[c].who])
================================================================================
