------------------------------ MODULE PublicSite ------------------------------
(* What a visitor of one business's website is given.  The owner edits a     *)
(* draft, publishes it and withdraws forms; the office closes the tenant or  *)
(* takes a feature away; each change is committed first and announced to the *)
(* caches afterwards, if at all.  A visitor's request asks whether the site  *)
(* may be shown, takes a kept page or makes one from the database, and looks *)
(* again before it answers.  A script of the operators wires online booking  *)
(* into the websites that have none.                                         *)
(*                                                                           *)
(* The cache's locks and its stale copy are in WebsiteProjectionCache, the   *)
(* epochs under eviction in TenantAccessCache; here a kept page is one copy  *)
(* under one epoch and one generation, and no counter is lost.               *)
EXTENDS Integers, FiniteSets

CONSTANTS
    BookForms,    \* booking forms the tenant may have
    OwnForm,      \* the one the website creates and keeps itself
    MaxChanges,   \* bound on the changes of the owner, the office and the clock
    MaxAsks,      \* bound on the requests of visitors
    SiteMixes,    \* the sets of operations that meet in one behaviour
    Nil

ASSUME PublicSiteAssumption ==
    OwnForm \in BookForms /\ Nil \notin BookForms /\ MaxChanges \in Nat /\ MaxAsks \in Nat

VARIABLES
    page,       \* the BusinessWebsite row: status, draft, number, live (Nil: none, or
                \* not readable), liveNumber (0: none)
    releases,   \* number -> the content of a published revision
    shelf,      \* BookForms -> "absent", "hidden", "published"
    rights,     \* of the tenant: open, premium, lapsed (its paid time has run out)
    kept,       \* Redis: the access epoch, the page's generation, the kept page or Nil
    unsaid,     \* what was changed and not announced: "rights", "release", "form"
    visitor,    \* the request being served
    script,     \* the script: its step and what it read
    spent,      \* history: changes and requests so far
    visits      \* the operations of this behaviour

siteVars == <<page, releases, shelf, rights, kept, unsaid, visitor, script, spent, visits>>
owned == <<page, releases, shelf, rights>>

--------------------------------------------------------------------------------
(* What is shown *)

\* A page's text and looks are one number; of its pages only the booking page
\* can be switched on or off.
Content(look, premium, booking, form, book) ==
    [look |-> look, premium |-> premium, booking |-> booking, form |-> form, book |-> book]
OnShelf(status) == {f \in BookForms : shelf[f] = status}
Provisioned == Content(0, FALSE, TRUE, OwnForm, TRUE)

\* A snapshot is read as a whole or not at all; one from before booking could
\* be switched off has it on.
ParsePublishedSnapshot(v) == IF v = Nil THEN Nil ELSE [v EXCEPT !.booking = IF @ = Nil THEN TRUE ELSE @]
CurrentDraftAsPublishedSnapshot == ParsePublishedSnapshot(page.draft)
ParseRevisionSnapshotAsPublished(n) == IF n \in DOMAIN releases THEN ParsePublishedSnapshot(releases[n]) ELSE Nil
Live == ParsePublishedSnapshot(page.live)

\* One read of the row with the forms that are published.
LoadProjectionSource == [status |-> page.status, live |-> page.live, liveNumber |-> page.liveNumber, forms |-> OnShelf("published")]

\* A snapshot that cannot be read is recovered from the revision it names, or
\* from the newest that was published when it names none.
ResolveSafePublishedSnapshot(r) ==
    LET direct == ParsePublishedSnapshot(r.live)
        newest == {n \in DOMAIN releases : \A m \in DOMAIN releases : m <= n} IN
    CASE direct # Nil -> direct
      [] direct = Nil /\ r.status # "PUBLISHED" -> Nil
      [] direct = Nil /\ r.status = "PUBLISHED" /\ r.liveNumber > 0 -> ParseRevisionSnapshotAsPublished(r.liveNumber)
      [] OTHER -> IF newest = {} THEN Nil ELSE ParseRevisionSnapshotAsPublished(CHOOSE n \in newest : TRUE)

\* The page made of a content: without the feature a premium template gives way
\* to its free fallback, and booking is offered only with a published form.
OfferedForm(r, c) == IF c.booking /\ c.form \in r.forms THEN c.form ELSE Nil
ProjectWebsite(r, premium, c) ==
    [number |-> r.liveNumber, look |-> c.look, premium |-> c.premium /\ premium, form |-> OfferedForm(r, c), book |-> c.book]

\* A visitor can book where the page offers a form and has its booking page.
ResolvePublicBookingIntegration(p) == IF p.book THEN p.form ELSE Nil

--------------------------------------------------------------------------------
(* The tenant's access *)

Allowed == rights.open /\ ~rights.lapsed /\ page.status = "PUBLISHED"

\* An authoritative answer is of the epoch it was read under; without Redis it
\* has none.
Resolve(epoch) ==
    [allowed |-> Allowed, number |-> page.liveNumber, premium |-> rights.premium, lapsed |-> rights.lapsed, epoch |-> epoch]
Epochs == {kept.epoch} \cup (IF "blind" \in visits THEN {Nil} ELSE {})
IsCurrentGeneration(a) == a.epoch # Nil /\ a.epoch = kept.epoch
\* Its validUntil has passed.
Outlived(a) == rights.lapsed /\ ~a.lapsed

--------------------------------------------------------------------------------
(* The initial states *)

NoAccess == [allowed |-> FALSE, number |-> 0, premium |-> FALSE, lapsed |-> FALSE, epoch |-> Nil]
Idle_ == [step |-> "idle", access |-> NoAccess, source |-> Nil, page |-> Nil, generation |-> 0, round |-> 0,
          since |-> 0, forms |-> {}, premium |-> FALSE, open |-> TRUE]
NoScript == [step |-> "idle", live |-> Nil, status |-> "DRAFT", form |-> Nil]

\* A new tenant's website, with its own form and booking switched on, or one
\* that has been live for long: without booking, with somebody else's form or
\* with a live snapshot that cannot be read.
ProvisionDefaultDraft ==
    /\ page = [status |-> "PROVISIONED", draft |-> Provisioned, number |-> 2, live |-> Nil, liveNumber |-> 0]
    /\ releases = [n \in {} |-> Provisioned]
    /\ shelf = [f \in BookForms |-> IF f = OwnForm THEN "published" ELSE "absent"]

Varied(kinds, values, value) == IF kinds \cap visits # {} THEN values ELSE {value}
Established(c) ==
    /\ c.booking => c.form # Nil
    /\ page \in {[status |-> "PUBLISHED", draft |-> c, number |-> 1, live |-> l, liveNumber |-> 1] :
                   l \in IF "legacy" \in visits THEN {Nil, [c EXCEPT !.booking = Nil]} ELSE {c}}
    /\ releases \in {[n \in {1} |-> c]} \cup (IF "legacy" \in visits THEN {[n \in {1} |-> [c EXCEPT !.booking = Nil]], [n \in {} |-> c]} ELSE {})
    /\ page.live # Nil => 1 \in DOMAIN releases
    /\ IF {"forms", "reconcile"} \cap visits # {}
       THEN /\ shelf \in [BookForms -> {"absent", "hidden", "published"}]
            /\ c.form # Nil => shelf[c.form] # "absent"
       ELSE shelf = [f \in BookForms |-> "published"]
EstablishedSite ==
    \E premium \in Varied({"rights"}, BOOLEAN, TRUE), booking \in Varied({"wire", "reconcile"}, BOOLEAN, TRUE),
       form \in Varied({"wire", "reconcile"}, BookForms \cup {Nil}, OwnForm) :
        Established(Content(0, premium, booking, form, booking))

InitSite(mixes) ==
    /\ visits \in mixes
    /\ IF "new" \in visits THEN ProvisionDefaultDraft ELSE EstablishedSite
    /\ rights = [open |-> TRUE, premium |-> TRUE, lapsed |-> FALSE]
    /\ kept = [epoch |-> 0, generation |-> 0, copy |-> Nil]
    /\ unsaid = {}
    /\ visitor = Idle_
    /\ script = NoScript
    /\ spent = [changes |-> 0, asks |-> 0]

--------------------------------------------------------------------------------
(* The owner, the office and the clock *)

MayChange(kind) == kind \in visits /\ spent.changes < MaxChanges
\* What the visitor may be shown grows by what becomes true while he waits.
Changed(what) ==
    /\ spent' = [spent EXCEPT !.changes = @ + 1]
    /\ unsaid' = unsaid \cup what
    /\ visitor' = [visitor EXCEPT !.forms = @ \cup {f \in BookForms : shelf'[f] = "published"},
                                  !.premium = @ \/ rights'.premium]
    /\ UNCHANGED <<kept, script, visits>>

\* Autosave and the booking page of the studio: the draft and its number.
SaveDraft ==
    /\ MayChange("edit")
    /\ \E booking \in {page.draft.booking} \cup (IF "wire" \in visits THEN BOOLEAN ELSE {}),
          book \in {page.draft.book} \cup (IF "wire" \in visits THEN BOOLEAN ELSE {}),
          form \in {page.draft.form} \cup (IF "wire" \in visits THEN OnShelf("published") ELSE {}) :
          /\ booking => form # Nil
          /\ page' = [page EXCEPT !.draft = Content(spent.changes + 1, @.premium, booking, form, book), !.number = @ + 1]
    /\ UNCHANGED <<releases, shelf, rights>>
    /\ Changed({})

\* The entitlements were read before the transaction and may be old.
Publish ==
    /\ MayChange("publish")
    /\ page.draft.booking => page.draft.form \in OnShelf("published")
    /\ page' = [page EXCEPT !.status = "PUBLISHED", !.number = @ + 1, !.live = CurrentDraftAsPublishedSnapshot, !.liveNumber = page.number + 1]
    /\ releases' = [n \in DOMAIN releases \cup {page.number + 1} |-> IF n = page.number + 1 THEN page.draft ELSE releases[n]]
    /\ UNCHANGED <<shelf, rights>>
    /\ Changed({"release"})

\* Neither looks whether the website uses the form; the draft's reference to a
\* deleted form is set to null, the snapshot's stays.
PutForm(f, status) ==
    /\ MayChange("forms") /\ shelf[f] # "absent"
    /\ shelf' = [shelf EXCEPT ![f] = status]
    /\ page' = IF status = "absent" /\ page.draft.form = f THEN [page EXCEPT !.draft.form = Nil, !.draft.booking = FALSE] ELSE page
    /\ UNCHANGED <<releases, rights>>
    /\ Changed({"form"})
ToggleForm(f) == PutForm(f, IF shelf[f] = "published" THEN "hidden" ELSE "published")
DeleteForm(f) == PutForm(f, "absent")

CloseOrReopen ==
    /\ MayChange("rights")
    /\ rights' \in {[rights EXCEPT !.open = ~@], [rights EXCEPT !.premium = ~@]}
    /\ UNCHANGED <<page, releases, shelf>>
    /\ Changed({"rights"})

\* Nobody announces that the paid time has run out.
Lapse ==
    /\ MayChange("clock") /\ ~rights.lapsed
    /\ rights' = [rights EXCEPT !.lapsed = TRUE]
    /\ UNCHANGED <<page, releases, shelf>>
    /\ Changed({})

\* A change of the rights moves the epoch, one of the forms the page's
\* generation, a publication both; an invalidation may fail for good.
Announce(what) ==
    /\ what \in unsaid
    /\ kept' = [epoch |-> IF what = "form" THEN kept.epoch ELSE kept.epoch + 1,
                generation |-> IF what = "rights" THEN kept.generation ELSE kept.generation + 1,
                copy |-> IF what = "rights" THEN kept.copy ELSE Nil]
    /\ unsaid' = CASE what = "rights" -> unsaid \ {"rights"}
                   [] what = "form" -> unsaid \ {"form"}
                   [] OTHER -> {}
    /\ UNCHANGED <<owned, visitor, script, spent, visits>>

--------------------------------------------------------------------------------
(* A visitor *)

At_(step) == visitor.step = step
Goes_(v) == visitor' = v /\ UNCHANGED <<owned, kept, unsaid, script, spent, visits>>
Refused_ == [Idle_ EXCEPT !.step = "refused"]

\* He may be shown what is published, or was withdrawn without an announcement.
Ask_ ==
    /\ visitor.step \in {"idle", "given", "refused"} /\ spent.asks < MaxAsks
    /\ visitor' = [Idle_ EXCEPT !.step = "access", !.since = page.liveNumber,
                                !.forms = IF "form" \in unsaid THEN BookForms ELSE OnShelf("published"),
                                !.premium = rights.premium \/ "rights" \in unsaid]
    /\ spent' = [spent EXCEPT !.asks = @ + 1]
    /\ UNCHANGED <<owned, kept, unsaid, script, visits>>

ResolveAccess ==
    /\ At_("access")
    /\ \E e \in Epochs :
          Goes_(IF Allowed /\ page.liveNumber > 0 THEN [visitor EXCEPT !.access = Resolve(e), !.step = "copy"] ELSE Refused_)

\* A kept page counts while its own epoch is current and its time not over.
Usable(copy) == copy # Nil /\ IsCurrentGeneration(copy.access) /\ ~Outlived(copy.access)
TakeCopy ==
    /\ At_("copy")
    /\ \/ /\ Usable(kept.copy)
          /\ Goes_([visitor EXCEPT !.page = kept.copy.page, !.step = "compare"])
       \/ /\ ~Usable(kept.copy) \/ "blind" \in visits
          /\ \E seen \in {TRUE} \cup (IF "blind" \in visits THEN {FALSE} ELSE {}) :
                Goes_([visitor EXCEPT !.generation = kept.generation, !.round = IF seen THEN 1 ELSE 0, !.step = "load"])

LoadSource ==
    /\ At_("load")
    /\ Goes_([visitor EXCEPT !.source = LoadProjectionSource, !.step = "rights"])

\* The loader asks again about the tenant's access and is given the answer of
\* this request while its time has not passed, a new one afterwards.  Rounds 1
\* and 2 are kept, round 0 is not, round 3 is the one after the comparison.
Remembered == IF Outlived(visitor.access) THEN Resolve(visitor.access.epoch) ELSE visitor.access
ProjectSource ==
    LET r == visitor.source
        c == ResolveSafePublishedSnapshot(r) IN
    /\ At_("rights")
    /\ Goes_(IF ~Remembered.allowed \/ c = Nil THEN Refused_
             ELSE [visitor EXCEPT !.page = ProjectWebsite(r, Remembered.premium, c), !.source = Nil,
                                  !.step = CASE visitor.round \in {1, 2} -> "keep"
                                             [] visitor.round = 0 -> "compare"
                                             [] OTHER -> "matched"])

\* Kept under the answer that opened the request, unless its epoch or the
\* generation has moved; then it is loaded and offered once more.
SetForGeneration_ ==
    /\ At_("keep")
    /\ \/ /\ visitor.access.epoch # Nil /\ IsCurrentGeneration(visitor.access) /\ ~Outlived(visitor.access)
          /\ kept.generation = visitor.generation
          /\ kept' = [kept EXCEPT !.copy = [page |-> visitor.page, access |-> visitor.access]]
          /\ visitor' = [visitor EXCEPT !.step = "compare"]
          /\ UNCHANGED <<owned, unsaid, script, spent, visits>>
       \/ /\ \/ ~IsCurrentGeneration(visitor.access) \/ Outlived(visitor.access)
             \/ kept.generation # visitor.generation \/ "blind" \in visits
          /\ Goes_(IF visitor.round = 2 THEN [visitor EXCEPT !.step = "compare"]
                   ELSE [visitor EXCEPT !.generation = kept.generation, !.round = 2, !.step = "load"])

\* Mutation of Matches: an older page will do.
MatchesAny(p) == p.number <= visitor.access.number
Matches(p) == p.number = visitor.access.number

ComparePage ==
    /\ At_("compare")
    /\ Goes_(IF Matches(visitor.page) THEN [visitor EXCEPT !.step = "check"]
             ELSE [visitor EXCEPT !.round = 3, !.step = "load"])
CompareAgain ==
    /\ At_("matched")
    /\ Goes_(IF Matches(visitor.page) THEN [visitor EXCEPT !.step = "check"] ELSE Refused_)

\* An answer that has been overtaken is asked for again; whoever had an epoch
\* must find the same one.
Give ==
    LET overtaken == Outlived(visitor.access) \/ ~IsCurrentGeneration(visitor.access) IN
    /\ At_("check")
    /\ \E e \in Epochs :
          Goes_(IF overtaken /\ (~Allowed \/ (visitor.access.epoch # Nil /\ e # visitor.access.epoch)) THEN Refused_
                ELSE [visitor EXCEPT !.step = "given", !.access = NoAccess, !.generation = 0, !.round = 0, !.open = Allowed \/ "rights" \in unsaid])

--------------------------------------------------------------------------------
(* The script that reconciles online booking *)

Ready_ ==
    /\ page.draft.booking /\ page.draft.form \in OnShelf("published") /\ page.draft.book
    /\ page.status = "PUBLISHED" => Live # Nil /\ Live.booking /\ Live.form = page.draft.form /\ Live.book
ChooseWebsite ==
    /\ "reconcile" \in visits /\ script.step = "idle" /\ ~Ready_
    /\ script' = [script EXCEPT !.step = "read"]
    /\ UNCHANGED <<owned, kept, unsaid, visitor, spent, visits>>
ReadWebsite ==
    /\ script.step = "read"
    /\ script' = [step |-> "write", live |-> Live, status |-> page.status, form |-> page.draft.form]
    /\ UNCHANGED <<owned, kept, unsaid, visitor, spent, visits>>

\* The draft's form, its own one put back into use; the only published one; or
\* its own, which may have to be created.  With several to choose from the
\* owner must choose, and nothing is written.
Target ==
    CASE script.form \in OnShelf("published") \cup ({OwnForm} \ OnShelf("absent")) -> {script.form}
      [] OTHER -> IF OnShelf("published") = {} THEN {OwnForm}
                  ELSE IF Cardinality(OnShelf("published")) > 1 THEN {} ELSE OnShelf("published")
Wired(c, f) == [c EXCEPT !.booking = TRUE, !.form = f, !.book = TRUE]

ReconcileDefaultBooking ==
    /\ script.step = "write"
    /\ script' = [script EXCEPT !.step = "done"]
    /\ \/ Target = {} /\ UNCHANGED <<owned, unsaid, visitor>>
       \/ \E f \in Target, bookable \in BOOLEAN :
             /\ shelf' = [shelf EXCEPT ![f] = "published"]
             /\ page' = [page EXCEPT !.draft = Wired(@, f), !.number = @ + 1,
                                     !.live = IF script.status = "PUBLISHED" /\ bookable /\ script.live # Nil THEN Wired(script.live, f) ELSE @]
             /\ unsaid' = unsaid \cup {"form"}
             /\ visitor' = [visitor EXCEPT !.forms = @ \cup {f}]
             /\ UNCHANGED <<releases, rights>>
    /\ UNCHANGED <<kept, spent, visits>>

SiteNext ==
    \/ SaveDraft \/ Publish \/ CloseOrReopen \/ Lapse
    \/ \E f \in BookForms : ToggleForm(f) \/ DeleteForm(f)
    \/ \E what \in {"rights", "release", "form"} : Announce(what)
    \/ Ask_ \/ ResolveAccess \/ TakeCopy \/ LoadSource \/ ProjectSource \/ SetForGeneration_
    \/ ComparePage \/ CompareAgain \/ Give
    \/ ChooseWebsite \/ ReadWebsite \/ ReconcileDefaultBooking

SiteSpec == InitSite(SiteMixes) /\ [][SiteNext]_siteVars

--------------------------------------------------------------------------------
(* Properties *)

\* What a visitor is given was published: by its number it is no older than the
\* website he asked for, it shows that revision and nothing of a later draft,
\* the form it offers and the template it uses were there for him while he
\* waited (or their withdrawal was never announced), and he is not given it
\* when the tenant has been closed before the last look
\* (publicWebsite.service.ts: getPublicWebsiteById).
VisitorsSeeWhatIsLive ==
    visitor.step = "given" =>
        LET p == visitor.page IN
        /\ p.number >= visitor.since
        /\ p.number \in DOMAIN releases /\ p.look = ParseRevisionSnapshotAsPublished(p.number).look
        /\ ResolvePublicBookingIntegration(p) \in visitor.forms \cup {Nil}
        /\ p.premium => visitor.premium
        /\ visitor.open
================================================================================
