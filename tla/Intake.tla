--------------------------------- MODULE Intake ---------------------------------
(* How enquiries become leads, and leads clients: the contact form of the     *)
(* website, the office's own leads, estimate requests, the inbox of the       *)
(* website's submissions, and the clients (WebsiteAcquisition, Lead,          *)
(* EstimateForm, WebsiteSubmission, Client).                                  *)
(*                                                                           *)
(* A contact and a new lead hold an advisory lock of the e-mail and one of    *)
(* the phone until they commit, and a third one, for all tenants, from the    *)
(* moment they take a reference.  Edits of the office take no lock.  A        *)
(* transaction reads what is committed (READ COMMITTED) and its writes appear *)
(* when it commits.  Texts, prices, coverage and activities are data.         *)
EXTENDS Naturals, Sequences, FiniteSets, FiniteSetsExt

CONSTANTS
    Callers,      \* requests in progress
    Leads,        \* rows there is room for; bounds the leads
    Emails, Phones,
    Customers,    \* client rows there is room for
    Attempts,     \* idempotency keys of estimate requests
    IntakeMixes,  \* the sets of operations whose behaviours are of interest
    MaxCalls,     \* bound on the requests
    NoRecord

ASSUME IntakeAssumption ==
    /\ MaxCalls \in Nat /\ NoRecord \notin Callers \cup Leads \cup Customers
    /\ IsFiniteSet(Leads)

VARIABLES
    lead,        \* Leads -> the row, or NoRecord
    customer,    \* Customers -> the e-mail of the client, or NoRecord
    inbox,       \* the WebsiteSubmission of a contact (by number) or of an attempt
    form,        \* "published", "hidden" or "deleted": the estimate form
    submission,  \* Attempts -> the status of the estimate request, or NoRecord
    locked,      \* lock keys -> the caller that holds the lock, or NoRecord
    caller,      \* Callers -> the handler in progress
    calls,       \* requests so far
    intake       \* the operations of this behaviour

records == <<lead, customer, inbox, form, submission>>
intakeVars == <<lead, customer, inbox, form, submission, locked, caller, calls, intake>>

Locks == ({"email"} \X Emails) \cup ({"phone"} \X Phones) \cup ({"attempt"} \X Attempts) \cup {<<"ref", NoRecord>>}
Ref == <<"ref", NoRecord>>
Quiet == [kind |-> "none", step |-> "rest", number |-> 0, email |-> NoRecord, phone |-> NoRecord, wants |-> <<>>,
          row |-> NoRecord, seen |-> NoRecord, ref |-> 0]

InitIntake ==
    /\ lead = [l \in Leads |-> NoRecord]
    /\ customer = [c \in Customers |-> NoRecord]
    /\ inbox = [n \in 1..MaxCalls \cup Attempts |-> NoRecord]
    /\ form = "published"
    /\ submission = [a \in Attempts |-> NoRecord]
    /\ locked = [k \in Locks |-> NoRecord]
    /\ caller = [c \in Callers |-> Quiet]
    /\ calls = 0
    /\ intake \in IntakeMixes

KnownLeads == {l \in Leads : lead[l] # NoRecord}
LeadRefs == {lead[l].ref : l \in KnownLeads}
At(c, step) == caller[c].step = step
Becomes(c, r) == caller' = [caller EXCEPT ![c] = r]
Release(c) == locked' = [k \in Locks |-> IF locked[k] = c THEN NoRecord ELSE locked[k]]
\* The transaction ends, and its locks with it.
Concludes(c, step) == Becomes(c, [Quiet EXCEPT !.step = step]) /\ Release(c)
AtRest(c) == caller[c].step \in {"rest", "collided"}
Calls(kind) == kind \in intake /\ calls < MaxCalls /\ calls' = calls + 1

--------------------------------------------------------------------------------
(* Locks *)

\* Mutant: only the e-mail is locked.
KeysOfEmail(kind, e, p) == <<<<"email", e>>>>
\* In the order of the keys' names.
LockKeys(kind, e, p) == <<<<"email", e>>>> \o (IF p = NoRecord THEN <<>> ELSE <<<<"phone", p>>>>)

\* Mutant: the reference is read without its lock.
RefUnlocked(k) == k = Ref \/ locked[k] = NoRecord
MayHold(k) == locked[k] = NoRecord

TakeLock(c) ==
    /\ At(c, "locks") /\ caller[c].wants # <<>>
    /\ MayHold(Head(caller[c].wants))
    /\ locked' = [locked EXCEPT ![Head(caller[c].wants)] = c]
    /\ Becomes(c, [caller[c] EXCEPT !.wants = Tail(@)])
    /\ UNCHANGED <<records, calls, intake>>

\* The connection is lost and the transaction rolls back.
Abort(c) ==
    /\ "abort" \in intake /\ ~AtRest(c)
    /\ Concludes(c, "rest")
    /\ UNCHANGED <<records, calls, intake>>

--------------------------------------------------------------------------------
(* submitContact and createLead *)

StartLead(c, kind, e, p) ==
    /\ Calls(kind) /\ AtRest(c)
    /\ Becomes(c, [Quiet EXCEPT !.kind = kind, !.step = "locks", !.number = calls', !.email = e, !.phone = p,
                                !.wants = LockKeys(kind, e, p)])
    /\ UNCHANGED <<records, locked, intake>>

ByEmail(c) == {l \in KnownLeads : lead[l].email = caller[c].email}
ByPhone(c) == {l \in KnownLeads : lead[l].phone = caller[c].phone /\ caller[c].phone # NoRecord}
Oldest(L) == CHOOSE l \in L : \A m \in L : lead[l].ref <= lead[m].ref

\* The e-mail is the stronger identifier.
Existing(c) == IF ByEmail(c) # {} THEN Oldest(ByEmail(c)) ELSE Oldest(ByPhone(c))

MatchLead(c) ==
    /\ At(c, "locks") /\ caller[c].wants = <<>>
    /\ IF ByEmail(c) \cup ByPhone(c) = {}
       THEN Becomes(c, [caller[c] EXCEPT !.step = "ref"]) /\ UNCHANGED locked
       ELSE IF caller[c].kind = "create" THEN Concludes(c, "rest")
            ELSE /\ Becomes(c, [caller[c] EXCEPT !.step = "merge", !.row = Existing(c), !.seen = lead[Existing(c)].email])
                 /\ UNCHANGED locked
    /\ UNCHANGED <<records, calls, intake>>

AllocateLeadRef(c) ==
    /\ At(c, "ref") /\ MayHold(Ref)
    /\ locked' = [locked EXCEPT ![Ref] = c]
    /\ Becomes(c, [caller[c] EXCEPT !.step = "insert", !.ref = IF LeadRefs = {} THEN 1 ELSE Max(LeadRefs) + 1])
    /\ UNCHANGED <<records, calls, intake>>

\* A contact leaves an entry in the inbox with its lead.
Files(c, l) ==
    inbox' = IF caller[c].kind = "contact"
             THEN [inbox EXCEPT ![caller[c].number] = [lead |-> l, status |-> "NEW"]] ELSE inbox

\* A reference or an e-mail that exists by now fails the transaction.
InsertLead(c) ==
    /\ At(c, "insert")
    /\ \/ /\ caller[c].ref \in LeadRefs
          /\ Concludes(c, "collided") /\ UNCHANGED <<lead, inbox>>
       \/ /\ caller[c].ref \notin LeadRefs /\ ByEmail(c) # {}
          /\ Concludes(c, "rest") /\ UNCHANGED <<lead, inbox>>
       \/ /\ caller[c].ref \notin LeadRefs /\ ByEmail(c) = {}
          /\ Leads # KnownLeads
          /\ LET l == CHOOSE l \in Leads : l \notin KnownLeads IN
                /\ lead' = [lead EXCEPT ![l] = [email |-> caller[c].email, phone |-> caller[c].phone, ref |-> caller[c].ref,
                                                won |-> FALSE, client |-> NoRecord, edited |-> FALSE]]
                /\ Files(c, l)
          /\ Concludes(c, "rest")
    /\ UNCHANGED <<customer, form, submission, calls, intake>>

\* The phone is replaced, and the e-mail written as it was read.
MergeContact(c) ==
    LET l == caller[c].row IN
    /\ At(c, "merge")
    /\ \/ /\ l \in KnownLeads /\ \A m \in KnownLeads \ {l} : lead[m].email # caller[c].seen
          /\ lead' = [lead EXCEPT ![l].email = caller[c].seen, ![l].edited = TRUE,
                                  ![l].phone = IF caller[c].phone = NoRecord THEN @ ELSE caller[c].phone]
          /\ Files(c, l)
       \/ /\ l \in KnownLeads => \E m \in KnownLeads \ {l} : lead[m].email = caller[c].seen
          /\ UNCHANGED <<lead, inbox>>
    /\ Concludes(c, "rest")
    /\ UNCHANGED <<customer, form, submission, calls, intake>>

--------------------------------------------------------------------------------
(* The office's work on leads and clients *)

UpdateLead(l, e, p) ==
    /\ Calls("edit") /\ l \in KnownLeads /\ \A m \in KnownLeads \ {l} : lead[m].email # e
    /\ lead' = [lead EXCEPT ![l].email = e, ![l].phone = p, ![l].edited = TRUE]
    /\ UNCHANGED <<customer, inbox, form, submission, locked, caller, intake>>

UpdateLeadStage(l) ==
    /\ "stage" \in intake /\ l \in KnownLeads
    /\ lead' = [lead EXCEPT ![l].won = ~@]
    /\ UNCHANGED <<customer, inbox, form, submission, locked, caller, calls, intake>>

\* A handler that reads a row, checks it, and writes it later by its id.
Looks(c, kind, step, row, seen) ==
    /\ Calls(kind) /\ AtRest(c)
    /\ Becomes(c, [Quiet EXCEPT !.kind = kind, !.step = step, !.row = row, !.seen = seen])
    /\ UNCHANGED <<records, locked, intake>>

CheckDeleteLead(c, l) ==
    /\ l \in KnownLeads /\ lead[l].client = NoRecord
    /\ Looks(c, "delete", "delete", l, NoRecord)
DeleteLead(c) ==
    LET l == caller[c].row IN
    /\ At(c, "delete")
    /\ lead' = [lead EXCEPT ![l] = NoRecord]
    /\ inbox' = [n \in DOMAIN inbox |->
                    IF inbox[n] # NoRecord /\ inbox[n].lead = l THEN [inbox[n] EXCEPT !.lead = NoRecord] ELSE inbox[n]]
    /\ Concludes(c, "rest")
    /\ UNCHANGED <<customer, form, submission, calls, intake>>

Holders(e) == {x \in Customers : customer[x] = e}
Free == {x \in Customers : customer[x] = NoRecord}
CheckConvert(c, l) ==
    /\ l \in KnownLeads /\ lead[l].won /\ lead[l].client = NoRecord
    /\ Looks(c, "convert", "convert", l, lead[l].email)
\* The client of that e-mail is taken, or a new one made; the contacts of the
\* lead are marked in the inbox.
ConvertLeadToClient(c) ==
    LET l == caller[c].row
        e == caller[c].seen IN
    /\ At(c, "convert")
    /\ IF l \notin KnownLeads THEN UNCHANGED <<lead, customer, inbox>>
       ELSE /\ Holders(e) # {} \/ Free # {}
            /\ LET x == CHOOSE x \in IF Holders(e) # {} THEN Holders(e) ELSE Free : TRUE IN
               /\ customer' = [customer EXCEPT ![x] = e]
               /\ lead' = [lead EXCEPT ![l].client = x]
               /\ inbox' = [n \in DOMAIN inbox |->
                               IF n \notin Attempts /\ inbox[n] # NoRecord /\ inbox[n].lead = l
                               THEN [inbox[n] EXCEPT !.status = "CONVERTED"] ELSE inbox[n]]
    /\ Concludes(c, "rest")
    /\ UNCHANGED <<form, submission, calls, intake>>

CreateClient(e) ==
    /\ Calls("client") /\ Holders(e) = {}
    /\ Free # {} /\ customer' = [customer EXCEPT ![CHOOSE x \in Free : TRUE] = e]
    /\ UNCHANGED <<lead, inbox, form, submission, locked, caller, intake>>
UpdateClient(x, e) ==
    /\ Calls("client") /\ x \notin Free /\ Holders(e) = {}
    /\ customer' = [customer EXCEPT ![x] = e]
    /\ UNCHANGED <<lead, inbox, form, submission, locked, caller, intake>>
DeleteClient(x) ==
    /\ Calls("client") /\ x \notin Free
    /\ customer' = [customer EXCEPT ![x] = NoRecord]
    /\ lead' = [l \in Leads |-> IF l \in KnownLeads /\ lead[l].client = x
                                THEN [lead[l] EXCEPT !.client = NoRecord] ELSE lead[l]]
    /\ UNCHANGED <<inbox, form, submission, locked, caller, intake>>

\* Conversion is not set by hand, nor undone.
CheckInbox(c, n) ==
    /\ inbox[n] # NoRecord /\ inbox[n].status # "CONVERTED"
    /\ Looks(c, "inbox", "file", n, NoRecord)
UpdateInbox(c) ==
    /\ At(c, "file")
    /\ \E s \in {"NEW", "REVIEWED", "DISMISSED"} : inbox' = [inbox EXCEPT ![caller[c].row].status = s]
    /\ Concludes(c, "rest")
    /\ UNCHANGED <<lead, customer, form, submission, calls, intake>>

--------------------------------------------------------------------------------
(* Estimate requests *)

EstimateEnvelopeStatus(s) == IF s = "QUOTED" THEN "REVIEWED" ELSE s
Envelope(s) == [lead |-> NoRecord, status |-> EstimateEnvelopeStatus(s)]

LoadPublished(c, a) ==
    /\ form = "published"
    /\ Looks(c, "submit", "key", a, NoRecord)

FindAttempt(c) ==
    LET a == caller[c].row IN
    /\ At(c, "key") /\ MayHold(<<"attempt", a>>)
    /\ locked' = [locked EXCEPT ![<<"attempt", a>>] = c]
    /\ Becomes(c, [caller[c] EXCEPT !.step = "submit", !.seen = submission[a]])
    /\ UNCHANGED <<records, calls, intake>>

\* A repeated attempt is answered from its row, whose inbox entry is written again.
SubmitEstimate(c) ==
    LET a == caller[c].row IN
    /\ At(c, "submit")
    /\ \/ /\ caller[c].seen # NoRecord
          /\ inbox' = IF submission[a] # NoRecord THEN [inbox EXCEPT ![a] = Envelope(caller[c].seen)] ELSE inbox
          /\ Concludes(c, "rest") /\ UNCHANGED submission
       \/ /\ caller[c].seen = NoRecord /\ submission[a] # NoRecord
          /\ Concludes(c, "collided") /\ UNCHANGED <<submission, inbox>>
       \/ /\ caller[c].seen = NoRecord /\ submission[a] = NoRecord
          /\ IF form = "deleted" THEN UNCHANGED <<submission, inbox>>
             ELSE /\ submission' = [submission EXCEPT ![a] = "NEW"]
                  /\ inbox' = [inbox EXCEPT ![a] = Envelope("NEW")]
          /\ Concludes(c, "rest")
    /\ UNCHANGED <<lead, customer, form, calls, intake>>

UpdateSubmissionStatus(a, s) ==
    /\ Calls("review") /\ submission[a] # NoRecord
    /\ submission' = [submission EXCEPT ![a] = s]
    /\ inbox' = [inbox EXCEPT ![a] = Envelope(s)]
    /\ UNCHANGED <<lead, customer, form, locked, caller, intake>>

ToggleForm ==
    /\ Calls("form") /\ form # "deleted"
    /\ form' = IF form = "published" THEN "hidden" ELSE "published"
    /\ UNCHANGED <<lead, customer, inbox, submission, locked, caller, intake>>

\* The requests go with the form, their entries in the inbox stay.
DeleteEstimateForm ==
    /\ Calls("form") /\ form # "deleted"
    /\ form' = "deleted"
    /\ submission' = [a \in Attempts |-> NoRecord]
    /\ UNCHANGED <<lead, customer, inbox, locked, caller, intake>>

IntakeNext ==
    \/ \E c \in Callers :
          \/ \E e \in Emails, p \in Phones \cup {NoRecord}, kind \in {"contact", "create"} : StartLead(c, kind, e, p)
          \/ TakeLock(c) \/ Abort(c) \/ MatchLead(c) \/ AllocateLeadRef(c) \/ InsertLead(c) \/ MergeContact(c)
          \/ \E l \in Leads : CheckDeleteLead(c, l) \/ CheckConvert(c, l)
          \/ DeleteLead(c) \/ ConvertLeadToClient(c)
          \/ \E n \in DOMAIN inbox : CheckInbox(c, n)
          \/ UpdateInbox(c)
          \/ \E a \in Attempts : LoadPublished(c, a)
          \/ FindAttempt(c) \/ SubmitEstimate(c)
    \/ \E l \in Leads : UpdateLeadStage(l) \/ \E e \in Emails, p \in Phones : UpdateLead(l, e, p)
    \/ \E e \in Emails : CreateClient(e) \/ \E x \in Customers : UpdateClient(x, e)
    \/ \E x \in Customers : DeleteClient(x)
    \/ \E a \in Attempts, s \in {"NEW", "QUOTED", "CONVERTED", "DISMISSED"} : UpdateSubmissionStatus(a, s)
    \/ ToggleForm \/ DeleteEstimateForm

IntakeSpec == InitIntake /\ [][IntakeNext]_intakeVars

--------------------------------------------------------------------------------
(* What must hold *)

\* A visitor's enquiry and a lead that the office enters, in whatever order they
\* take their locks, never make two leads of one e-mail or phone; leads that the
\* office edited or an enquiry was merged into are left aside.
OneLeadPerPerson ==
    \A l, m \in KnownLeads :
        l # m /\ ~lead[l].edited /\ ~lead[m].edited
        => lead[l].email # lead[m].email /\ (lead[l].phone # lead[m].phone \/ lead[l].phone = NoRecord)

Awaited(c) ==
    CASE At(c, "locks") /\ caller[c].wants # <<>> -> {locked[Head(caller[c].wants)]}
      [] At(c, "ref") -> {locked[Ref]}
      [] At(c, "key") -> {locked[<<"attempt", caller[c].row>>]}
      [] OTHER -> {}

\* Requests that wait for one another's locks never wait in a circle: of any that
\* are in progress one can go on.  And none fails on a reference or on an
\* idempotency key that another one, perhaps its own repetition, has taken meanwhile.
RequestsGoThrough ==
    /\ \A S \in SUBSET Callers : S # {} => \E c \in S : Awaited(c) \cap S = {}
    /\ \A c \in Callers : ~At(c, "collided")
================================================================================
