----------------------------- MODULE WebsiteDomains -----------------------------
(* The custom domains of the websites: claiming a domain, verifying it at the *)
(* DNS and at the hosting provider, choosing the primary one and removing it. *)
(*                                                                           *)
(* A verification claims the row, asks the DNS, asks the provider, writes the *)
(* result and then repairs the choice of the primary domain in a transaction  *)
(* of its own; a call that dies in between leaves the choice as it is.  That   *)
(* transaction and setPrimaryDomain hold an advisory lock of the website; the  *)
(* writes of a verification, and the release of a claim, do not.  A Redis lock   *)
(* keeps a second verification of the domain from reading the row; it is taken *)
(* to work, and a verification to be faster than its lock and its claim.  The  *)
(* TLS status counts as part of the routing.                                  *)
EXTENDS Integers, FiniteSets

CONSTANTS
    Owners,       \* websites
    Domains,      \* host names
    Calls,        \* requests in progress
    DomainLimit,  \* what the plan and the deployment allow per website
    MaxRequests,  \* bound on the requests
    DomainMixes,  \* the sets of operations that meet in one behaviour
    Absent

DomainStatus == {"PENDING", "VERIFYING", "VERIFIED", "FAILED"}
DomainRow == [owner : Owners, id : Nat, status : DomainStatus, owned : BOOLEAN, hosted : BOOLEAN, routed : BOOLEAN,
              primary : BOOLEAN, verifying : BOOLEAN, stale : BOOLEAN]

ASSUME DomainAssumption ==
    /\ DomainLimit \in Nat \ {0} /\ MaxRequests \in Nat
    /\ Absent \notin Owners \cup Domains \cup Calls \cup DomainRow

VARIABLES
    row,         \* Domains -> the WebsiteDomain row, or Absent
    primaryLock, \* Owners -> the call in the transaction of the primary domain, or Absent
    call,        \* Calls -> the handler in progress
    asked,       \* requests so far; also the creation order of the rows
    lost,        \* history: the websites whose choice was lost and not made again since
    tasks        \* the operations of this behaviour

domainVars == <<row, primaryLock, call, asked, lost, tasks>>

NewRow(o) == [owner |-> o, id |-> asked + 1, status |-> "PENDING", owned |-> FALSE, hosted |-> FALSE,
              routed |-> FALSE, primary |-> FALSE, verifying |-> FALSE, stale |-> FALSE]
Resting == [step |-> "rest", domain |-> Absent, id |-> 0, owner |-> Absent, verifies |-> FALSE, claimed |-> FALSE, ready |-> FALSE,
            primary |-> FALSE, kept |-> Absent, candidate |-> Absent]

InitDomains(mixes) ==
    /\ row = [d \in Domains |-> Absent]
    /\ primaryLock = [o \in Owners |-> Absent]
    /\ call = [c \in Calls |-> Resting]
    /\ asked = 0
    /\ lost = {}
    /\ tasks \in mixes

ClaimedDomains == {d \in Domains : row[d] # Absent}
DomainsOf(o) == {d \in ClaimedDomains : row[d].owner = o}
IsRoutingReady(r) == r.status = "VERIFIED" /\ r.owned /\ r.hosted /\ r.routed
Ready(o) == {d \in DomainsOf(o) : IsRoutingReady(row[d])}
Oldest(D) == {d \in D : \A e \in D : row[d].id <= row[e].id}
OnStep(c, step) == call[c].step = step
\* The row the call works on still exists.
Present(c) == call[c].domain \in ClaimedDomains /\ row[call[c].domain].id = call[c].id

Asks(task) == task \in tasks /\ asked < MaxRequests /\ asked' = asked + 1
Alone == "alone" \in tasks => \A c \in Calls : OnStep(c, "rest")
Goes(c, r) == call' = [call EXCEPT ![c] = r]
Ends(c) == Goes(c, Resting)

--------------------------------------------------------------------------------
(* addDomain: one transaction under the locks of the website's list and of the name *)

ClaimLocked(o, d) == \E c \in Calls : OnStep(c, "release") /\ (call[c].domain = d \/ call[c].owner = o)

AddDomain(o, d) ==
    /\ Asks("add") /\ Alone /\ ~ClaimLocked(o, d)
    /\ row[d] = Absent
    /\ Cardinality(DomainsOf(o)) < DomainLimit
    /\ row' = [row EXCEPT ![d] = NewRow(o)]
    /\ UNCHANGED <<primaryLock, call, lost, tasks>>

\* A domain that another website claimed two days ago and never verified is
\* released to the one that asks for it now.
CanReleaseStaleClaim(r) == r.status # "VERIFIED" /\ ~r.owned /\ ~r.hosted /\ r.stale

JudgeClaim(c, o, d) ==
    /\ "add" \in tasks /\ asked < MaxRequests /\ Alone /\ OnStep(c, "rest") /\ ~ClaimLocked(o, d)
    /\ d \in ClaimedDomains /\ row[d].owner # o /\ CanReleaseStaleClaim(row[d])
    /\ Goes(c, [Resting EXCEPT !.step = "release", !.domain = d, !.id = row[d].id, !.owner = o])
    /\ UNCHANGED <<row, primaryLock, asked, lost, tasks>>

\* The row is deleted by its id: one that was verified since goes as well, and the
\* website it served keeps the choice it had.
ReleaseClaim(c) ==
    LET d == call[c].domain IN
    /\ OnStep(c, "release")
    /\ IF Present(c) /\ Cardinality(DomainsOf(call[c].owner)) < DomainLimit
       THEN /\ row' = [row EXCEPT ![d] = NewRow(call[c].owner)]
            /\ lost' = IF IsRoutingReady(row[d]) THEN lost \cup {row[d].owner} ELSE lost
       ELSE UNCHANGED <<row, lost>>
    /\ asked' = asked + 1
    /\ Ends(c)
    /\ UNCHANGED <<primaryLock, tasks>>

TwoDaysPass(d) ==
    /\ "release" \in tasks /\ d \in ClaimedDomains /\ ~row[d].stale
    /\ row' = [row EXCEPT ![d].stale = TRUE]
    /\ UNCHANGED <<primaryLock, call, asked, lost, tasks>>

--------------------------------------------------------------------------------
(* verifyDomain *)

Locked(d) == \E c \in Calls : call[c].domain = d /\ call[c].verifies

StartVerification(c, d) ==
    /\ Asks("verify") /\ Alone /\ OnStep(c, "rest") /\ d \in ClaimedDomains
    /\ ~Locked(d)
    /\ Goes(c, [Resting EXCEPT !.step = "claim", !.domain = d, !.id = row[d].id, !.owner = row[d].owner,
                               !.verifies = TRUE, !.ready = IsRoutingReady(row[d])])
    /\ UNCHANGED <<row, primaryLock, lost, tasks>>

\* A row that is being verified is refused, unless that began so long ago that
\* it must have died.
Verifying(d) == row[d].verifying /\ \E c \in Calls : call[c].domain = d /\ call[c].claimed
ClaimVerification(c) ==
    LET d == call[c].domain IN
    /\ OnStep(c, "claim")
    /\ \/ /\ Present(c) /\ ~Verifying(d)
          /\ row' = [row EXCEPT ![d].verifying = TRUE, ![d].status = IF call[c].ready THEN @ ELSE "VERIFYING"]
          /\ Goes(c, [call[c] EXCEPT !.step = "dns", !.claimed = TRUE])
       \/ /\ Present(c) => Verifying(d)
          /\ Ends(c) /\ UNCHANGED row
    /\ UNCHANGED <<primaryLock, asked, lost, tasks>>

\* What the DNS and then the provider say.
HasOwnershipTxt(c) ==
    /\ OnStep(c, "dns")
    /\ \E answer \in {"unknown", "unproven", "ask"} : Goes(c, [call[c] EXCEPT !.step = answer])
    /\ UNCHANGED <<row, primaryLock, asked, lost, tasks>>

VerifyAtProvider(c) ==
    /\ OnStep(c, "ask")
    /\ \E answer \in {"failed", "waiting", "verified"} : Goes(c, [call[c] EXCEPT !.step = answer])
    /\ UNCHANGED <<row, primaryLock, asked, lost, tasks>>

\* A call dies, or its transaction fails and is rolled back: a claim stays, what was
\* written stays, and the choice that was to follow is not made.
LoseCall(c) ==
    /\ "crash" \in tasks /\ ~OnStep(c, "rest")
    /\ lost' = IF call[c].step \in {"ensure", "write"} THEN lost \cup {call[c].owner} ELSE lost
    /\ primaryLock' = [o \in Owners |-> IF primaryLock[o] = c THEN Absent ELSE primaryLock[o]]
    /\ Ends(c)
    /\ UNCHANGED <<row, asked, tasks>>

\* What the answer makes of the row; routing that worked is kept when nobody
\* could be asked.
Unproven(r) == [r EXCEPT !.status = "PENDING", !.owned = FALSE, !.hosted = FALSE, !.routed = FALSE, !.primary = FALSE]
Failed(r) == [r EXCEPT !.status = "FAILED", !.owned = TRUE, !.hosted = FALSE, !.routed = FALSE, !.primary = FALSE]
Unready(r, hosted) == [r EXCEPT !.status = "PENDING", !.owned = TRUE, !.hosted = hosted, !.routed = FALSE, !.primary = FALSE]
Verified(r) == [r EXCEPT !.status = "VERIFIED", !.owned = TRUE, !.hosted = TRUE, !.routed = TRUE]

ApplyProviderState(c) ==
    LET d == call[c].domain
        write(r) == row' = [row EXCEPT ![d] = [r EXCEPT !.verifying = FALSE]]
        repair(candidate) == Goes(c, [call[c] EXCEPT !.step = "ensure", !.candidate = candidate]) IN
    /\ call[c].step \in {"unknown", "unproven", "failed", "waiting", "verified"}
    /\ \/ ~Present(c) /\ Ends(c) /\ UNCHANGED row
       \/ /\ Present(c) /\ OnStep(c, "unknown")
          /\ write([row[d] EXCEPT !.status = IF call[c].ready THEN "VERIFIED" ELSE "PENDING"]) /\ Ends(c)
       \/ Present(c) /\ OnStep(c, "unproven") /\ write(Unproven(row[d])) /\ repair(Absent)
       \/ /\ Present(c) /\ OnStep(c, "failed")
          /\ \/ call[c].ready /\ write([row[d] EXCEPT !.status = "VERIFIED"]) /\ Ends(c)
             \/ ~call[c].ready /\ write(Failed(row[d])) /\ repair(Absent)
       \/ /\ Present(c) /\ OnStep(c, "waiting")
          /\ \E hosted \in BOOLEAN : write(Unready(row[d], hosted))
          /\ repair(Absent)
       \/ Present(c) /\ OnStep(c, "verified") /\ write(Verified(row[d])) /\ repair(d)
    /\ UNCHANGED <<primaryLock, asked, lost, tasks>>

--------------------------------------------------------------------------------
(* The primary domain *)

\* Mutant: a primary stays whether or not it is ready.
ChosenAlreadyPrimary(c) ==
    LET primaries == {d \in DomainsOf(call[c].owner) : row[d].primary} IN
    IF primaries # {} THEN Oldest(primaries)
    ELSE IF call[c].candidate # Absent THEN {call[c].candidate} \cap Ready(call[c].owner)
         ELSE Oldest(Ready(call[c].owner))

\* A ready primary stays, and the oldest one if there are several; otherwise
\* the domain just verified, or the oldest ready one, is chosen.
Chosen(c) ==
    LET primaries == {d \in Ready(call[c].owner) : row[d].primary} IN
    IF primaries # {} THEN Oldest(primaries)
    ELSE IF call[c].candidate # Absent THEN {call[c].candidate} \cap Ready(call[c].owner)
         ELSE Oldest(Ready(call[c].owner))

\* A choice that is to be of a domain another website has taken meanwhile is none.
Chooses(c) == call[c].candidate = Absent \/ Present(c)

ReadPrimary(c) ==
    LET o == call[c].owner
        chosen == IF Chosen(c) = {} THEN Absent ELSE CHOOSE d \in Chosen(c) : TRUE IN
    /\ OnStep(c, "ensure") /\ primaryLock[o] = Absent
    /\ primaryLock' = [primaryLock EXCEPT ![o] = c]
    /\ Goes(c, [call[c] EXCEPT !.step = "write", !.kept = chosen,
                               !.candidate = IF \E d \in Ready(o) : row[d].primary THEN Absent ELSE chosen])
    /\ lost' = IF Chooses(c) THEN lost \ {o} ELSE lost
    /\ UNCHANGED <<row, asked, tasks>>

\* The others are primary no longer; a new one is made primary, unless its row is gone,
\* which fails the transaction.
EnsurePrimaryDomainInvariant(c) ==
    LET o == call[c].owner IN
    /\ OnStep(c, "write")
    /\ row' = IF call[c].candidate \in DomainsOf(o) \cup {Absent}
              THEN [d \in Domains |-> IF d \in DomainsOf(o)
                                     THEN [row[d] EXCEPT !.primary = d = call[c].kept /\ (@ \/ call[c].candidate = d)]
                                     ELSE row[d]]
              ELSE row
    /\ primaryLock' = [primaryLock EXCEPT ![o] = Absent]
    /\ Ends(c)
    /\ UNCHANGED <<asked, lost, tasks>>

\* The owner's choice, if it is ready under the lock.
SetPrimaryDomain(c, d) ==
    /\ Asks("primary") /\ Alone /\ OnStep(c, "rest") /\ d \in ClaimedDomains
    /\ primaryLock[row[d].owner] = Absent /\ IsRoutingReady(row[d])
    /\ primaryLock' = [primaryLock EXCEPT ![row[d].owner] = c]
    /\ Goes(c, [Resting EXCEPT !.step = "write", !.domain = d, !.id = row[d].id, !.owner = row[d].owner,
                               !.kept = d, !.candidate = d])
    /\ lost' = lost \ {row[d].owner}
    /\ UNCHANGED <<row, tasks>>

--------------------------------------------------------------------------------
(* removeDomain *)

StartRemoval(c, d) ==
    /\ Asks("remove") /\ Alone /\ OnStep(c, "rest") /\ d \in ClaimedDomains
    /\ Goes(c, [Resting EXCEPT !.step = "detach", !.domain = d, !.id = row[d].id, !.owner = row[d].owner,
                               !.primary = row[d].primary])
    /\ UNCHANGED <<row, primaryLock, lost, tasks>>

\* A provider that cannot be reached keeps the domain.  Another one is chosen
\* if this one was the primary when it was read.
RemoveDomain(c) ==
    /\ OnStep(c, "detach")
    /\ \/ /\ Present(c)
          /\ row' = [row EXCEPT ![call[c].domain] = Absent]
          /\ IF call[c].primary THEN Goes(c, [call[c] EXCEPT !.step = "ensure"]) ELSE Ends(c)
       \/ Ends(c) /\ UNCHANGED row
    /\ UNCHANGED <<primaryLock, asked, lost, tasks>>

DomainNext ==
    \/ \E d \in Domains : TwoDaysPass(d) \/ \E o \in Owners : AddDomain(o, d)
    \/ \E c \in Calls :
          \/ \E d \in Domains : \/ StartVerification(c, d) \/ SetPrimaryDomain(c, d) \/ StartRemoval(c, d)
                               \/ \E o \in Owners : JudgeClaim(c, o, d)
          \/ ReleaseClaim(c) \/ ClaimVerification(c) \/ HasOwnershipTxt(c) \/ VerifyAtProvider(c)
          \/ ApplyProviderState(c) \/ ReadPrimary(c) \/ EnsurePrimaryDomainInvariant(c) \/ RemoveDomain(c)
          \/ LoseCall(c)

DomainSpec == InitDomains(DomainMixes) /\ [][DomainNext]_domainVars

--------------------------------------------------------------------------------
(* What must hold *)

\* When nothing is in progress no website has two primary domains, and one that has a
\* ready domain has a primary one, which is ready: verifications, releases and choices
\* that overlapped or died have left no website with two canonical addresses and none
\* with an address that does not work.  The code does not promise it to a website
\* whose last choice was cut short, or whose ready domain was released to another
\* website, until the next choice is made.
PrimaryIsReady ==
    (\A c \in Calls : OnStep(c, "rest"))
    => \A o \in Owners :
          LET primaries == {d \in DomainsOf(o) : row[d].primary} IN
          /\ Cardinality(primaries) <= 1
          /\ o \notin lost => primaries \subseteq Ready(o) /\ (Ready(o) # {} => primaries # {})
================================================================================
