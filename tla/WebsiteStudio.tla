----------------------------- MODULE WebsiteStudio -----------------------------
(* The website of one business as its owner edits it: the working copy (the  *)
(* draft) and its number, the immutable revisions, the published snapshot,   *)
(* the steps of the onboarding that write the same draft, the catalogue and  *)
(* the booking forms they wire into it, and the images it shows.             *)
(*                                                                           *)
(* Every write of the draft holds the advisory lock of the website for its   *)
(* whole transaction, so a handler is one step; deleting an image takes no   *)
(* lock and is two.  An owner edits in several tabs.  A tab sends a request  *)
(* built on what it last loaded and may miss the answer and send it again.   *)
EXTENDS Integers, FiniteSets, Sequences

CONSTANTS
    Tabs,         \* browser tabs of the owner
    Images,       \* managed images of the business
    Forms,        \* booking forms it may have
    Managed,      \* those the website creates and keeps itself
    Services,     \* rows of its service catalogue
    SetupSteps,   \* the steps of the onboarding, in order
    MaxNumber,    \* bound on the draft number
    MaxEdits,     \* bound on the edits
    Mixes,        \* the sets of operations that meet in one behaviour
    None

Steps == {SetupSteps[k] : k \in DOMAIN SetupSteps}
Drafts == [edit : Nat, logo : Images \cup {None}, booking : BOOLEAN, form : Forms \cup {None}]

ASSUME StudioAssumption ==
    /\ Managed \subseteq Forms
    /\ Steps = {"business_profile", "branding", "services", "website_address", "review_launch"}
    /\ MaxNumber \in Nat \ {0} /\ MaxEdits \in Nat
    /\ None \notin Tabs \cup Images \cup Forms \cup Services
    /\ None \notin Drafts

VARIABLES
    site,        \* the BusinessWebsite row: status, draft, number, live, liveNumber
    revisions,   \* number -> [draft, reason, assets], the WebsiteRevision rows
    owner,       \* the AdminProfile row: steps done, launched (onboardingCompletedAt), profile
    catalog,     \* Services -> "absent", "inactive", "active", "bookable", "archived"
    forms,       \* Forms -> "absent", "unpublished", "published"
    assets,      \* Images -> "none", "linked" (with its media asset), "unlinked": WebsiteAsset rows
    objects,     \* the images whose object is in the bucket
    tabs,        \* Tabs -> what it loaded, its request, and how the last one ended
    deleting,    \* the image whose deletion has passed its checks, or None
    edits,       \* history: edits asked for so far
    ops          \* the operations of this behaviour

studio == <<site, revisions>>
business == <<owner, catalog, forms>>
media == <<assets, objects, deleting>>
studioVars == <<site, revisions, owner, catalog, forms, assets, objects, tabs, deleting, edits, ops>>

Reason(what) == [what |-> what, of |-> 0]
Blank == [edit |-> 0, logo |-> None, booking |-> FALSE, form |-> None]
Idle(number, saw) == [number |-> number, saw |-> saw, request |-> None, outcome |-> "none"]

\* A request without a precondition, a step, an image or a form.
Asked(t, kind) ==
    [kind |-> kind, expected |-> tabs[t].number, saw |-> tabs[t].saw, edit |-> edits + 1,
     logo |-> None, booking |-> FALSE, form |-> None, revision |-> 0, step |-> None,
     versions |-> None, applied |-> FALSE]

InitStudio(mixes) ==
    /\ site = [status |-> "PROVISIONED", draft |-> Blank, number |-> 1, live |-> None, liveNumber |-> 0]
    /\ revisions = [n \in {1} |-> [draft |-> Blank, reason |-> Reason("created"), assets |-> {}]]
    /\ owner = [steps |-> {}, launched |-> FALSE, profile |-> 0]
    /\ catalog = [s \in Services |-> "absent"]
    /\ forms = [f \in Forms |-> "absent"]
    /\ assets = [i \in Images |-> "none"]
    /\ objects = {}
    /\ tabs = [t \in Tabs |-> Idle(1, 0)]
    /\ deleting = None
    /\ edits = 0
    /\ ops \in mixes

--------------------------------------------------------------------------------
\* Requests and their answers.

Has(t, kind) == tabs[t].request # None /\ tabs[t].request.kind = kind

\* The answer reaches the tab, which goes on from the number it carries; or it
\* is lost and the tab still holds its request.
Answer(t) ==
    \/ tabs' = [tabs EXCEPT ![t] = Idle(site'.number, site'.draft.edit)]
    \/ "lose" \in ops /\ tabs' = [tabs EXCEPT ![t].request.applied = TRUE]

\* The studio is loaded, and with it the number the next requests expect.
GetWebsiteEditor(t) ==
    /\ tabs[t] # Idle(site.number, site.draft.edit)
    /\ tabs' = [tabs EXCEPT ![t] = Idle(site.number, site.draft.edit)]
    /\ UNCHANGED <<studio, business, media, edits, ops>>

IsLive == owner.launched /\ site.status = "PUBLISHED" /\ site.live # None

\* The revision that a step's request left is its receipt; the versions it
\* expected are part of it.
Receipt(r) == [what |-> "step", of |-> r.edit]
HasReceipt(r) == \E n \in DOMAIN revisions : revisions[n].reason = Receipt(r)

\* Mutation of IsStale: the number is compared with the newest revision.
IsStaleByRevision(r) ==
    CASE r.kind \in {"save", "publish", "restore"} -> \E n \in DOMAIN revisions : n > r.expected
      [] r.kind = "launch" -> r.expected # site.number /\ ~IsLive
      [] r.kind = "step" -> r.expected # site.number /\ ~HasReceipt(r)
      [] OTHER -> FALSE

\* A write built on an older draft is refused and nothing is written.
IsStale(r) ==
    CASE r.kind \in {"save", "publish", "restore"} -> r.expected # site.number
      [] r.kind = "launch" -> r.expected # site.number /\ ~IsLive
      [] r.kind = "step" -> r.expected # site.number /\ ~HasReceipt(r)
      [] OTHER -> FALSE

AssertExpectedRevision(t) ==
    /\ tabs[t].request # None /\ IsStale(tabs[t].request)
    /\ tabs' = [tabs EXCEPT ![t].request = None, ![t].outcome = "conflict"]
    /\ UNCHANGED <<studio, business, media, edits, ops>>

--------------------------------------------------------------------------------
\* The draft and its revisions.

AfterDraftMutation(status) == IF status = "PROVISIONED" THEN "DRAFT" ELSE status
Registered == {i \in Images : assets[i] # "none"}

\* The revisions with one more, which replaces none.
Recorded(rs, number, draft, reason, images) ==
    [n \in DOMAIN rs \cup {number} |-> IF n = number THEN [draft |-> draft, reason |-> reason, assets |-> images] ELSE rs[n]]

\* The row s with the next number, recorded as an immutable revision.
CreateRevisionSnapshot(s, reason) ==
    /\ s.number < MaxNumber /\ s.number + 1 \notin DOMAIN revisions
    /\ site' = [s EXCEPT !.number = @ + 1]
    /\ revisions' = Recorded(revisions, s.number + 1, s.draft, reason, Registered)

\* A new image must be one the studio has stored.
AssertManagedBrandReferences(logo, current) == logo \in {None, current} \/ logo \in Registered
Patched(d, r) == [d EXCEPT !.edit = r.edit, !.logo = IF r.logo = None THEN @ ELSE r.logo]
Edited(r) == [site EXCEPT !.draft = Patched(@, r), !.status = AfterDraftMutation(@)]

\* The autosave: the next number, and no revision.
SaveEditorState(t) ==
    LET r == tabs[t].request IN
    /\ Has(t, "save") /\ ~IsStale(r)
    /\ AssertManagedBrandReferences(r.logo, site.draft.logo)
    /\ site.number < MaxNumber
    /\ site' = [Edited(r) EXCEPT !.number = @ + 1]
    /\ Answer(t)
    /\ UNCHANGED <<revisions, business, media, edits, ops>>

\* The settings form and the page form expect no number.
UpdateWebsite(t) ==
    LET r == tabs[t].request IN
    /\ Has(t, "settings")
    /\ AssertManagedBrandReferences(r.logo, site.draft.logo)
    /\ CreateRevisionSnapshot(Edited(r), Reason("settings"))
    /\ Answer(t)
    /\ UNCHANGED <<business, media, edits, ops>>

UpdatePage(t) ==
    /\ Has(t, "page")
    /\ CreateRevisionSnapshot(Edited(tabs[t].request), Reason("page"))
    /\ Answer(t)
    /\ UNCHANGED <<business, media, edits, ops>>

\* A publication takes the draft, with the fields its request may carry.
AppliedTo(d, r) == IF r.edit = 0 THEN d ELSE Patched(d, r)
\* Mutant: the live number is the one before the publication.
PublishedUnderOldNumber(d) ==
    [site EXCEPT !.draft = d, !.status = "PUBLISHED", !.live = d, !.liveNumber = site.number]
Published(d) ==
    [site EXCEPT !.draft = d, !.status = "PUBLISHED", !.live = d, !.liveNumber = site.number + 1]

AssertBookingReadyForPublish(d) == d.booking => d.form # None /\ forms[d.form] = "published"

PublishWebsite(t) ==
    LET r == tabs[t].request
        d == AppliedTo(site.draft, r) IN
    /\ Has(t, "publish") /\ ~IsStale(r)
    /\ AssertManagedBrandReferences(r.logo, site.draft.logo)
    /\ AssertBookingReadyForPublish(d)
    /\ CreateRevisionSnapshot(Published(d), Reason("published"))
    /\ Answer(t)
    /\ UNCHANGED <<business, media, edits, ops>>

\* The draft as it is now is recorded, then the old one takes its place; an
\* image whose row has gone is put back from the old snapshot.
RestoreRevision(t) ==
    LET r == tabs[t].request
        old == revisions[r.revision]
        back == {i \in {old.draft.logo} \cap old.assets : assets[i] = "none"}
        restored == [site EXCEPT !.draft = old.draft, !.status = AfterDraftMutation(@), !.number = @ + 2] IN
    /\ Has(t, "restore") /\ ~IsStale(r)
    /\ old.draft.form # None => forms[old.draft.form] # "absent"
    /\ old.draft.logo \in {None, site.draft.logo} \cup Registered \cup back
    /\ site.number + 2 <= MaxNumber /\ {site.number + 1, site.number + 2} \cap DOMAIN revisions = {}
    /\ assets' = [i \in Images |-> IF i \in back THEN "unlinked" ELSE assets[i]]
    /\ site' = restored
    /\ revisions' = Recorded(Recorded(revisions, site.number + 1, site.draft, Reason("preserved"), Registered \cup back),
                             site.number + 2, old.draft, Reason("restored"), Registered \cup back)
    /\ Answer(t)
    /\ UNCHANGED <<business, objects, deleting, edits, ops>>

--------------------------------------------------------------------------------
\* Online booking, wired into the draft.

Bookable(c) == {s \in Services : c[s] = "bookable"}
Attach(f) == {[form |-> f, forms |-> [forms EXCEPT ![f] = "published"]]}
PublishedForms == {f \in Forms : forms[f] = "published"}
Reusable == {f \in Managed : forms[f] = "unpublished"}

\* The form asked for, or else the draft's own, the only published one, a
\* managed one put back into use, or a new managed one.  Nothing is attached
\* without a bookable service, nor when there are several to choose from.
SelectOrCreateBookingForm(c, primary, requested) ==
    CASE Bookable(c) = {} -> {}
      [] Bookable(c) # {} /\ requested # None ->
            IF forms[requested] = "published" THEN Attach(requested) ELSE {}
      [] OTHER ->
            CASE primary \in PublishedForms \cup Reusable -> Attach(primary)
              [] primary \notin PublishedForms \cup Reusable /\ PublishedForms # {} ->
                    IF Cardinality(PublishedForms) = 1 THEN UNION {Attach(f) : f \in PublishedForms} ELSE {}
              [] OTHER -> UNION {Attach(f) : f \in IF Reusable # {} THEN Reusable
                                                   ELSE {g \in Managed : forms[g] = "absent"}}

\* What the draft and the forms may become when booking is switched on or off.
ConfigureForAdmin(c, r) ==
    IF r.booking
    THEN {[draft |-> [site.draft EXCEPT !.edit = r.edit, !.booking = TRUE, !.form = a.form], forms |-> a.forms] :
             a \in SelectOrCreateBookingForm(c, site.draft.form, r.form)}
    ELSE {[draft |-> [site.draft EXCEPT !.edit = r.edit, !.booking = FALSE], forms |-> forms]}

Configured(b) == [site EXCEPT !.draft = b.draft, !.status = AfterDraftMutation(@)]

\* The booking page of the studio: the next number, and no revision.
Configure(t) ==
    /\ Has(t, "booking") /\ site.number < MaxNumber
    /\ \E b \in ConfigureForAdmin(catalog, tabs[t].request) :
          /\ site' = [Configured(b) EXCEPT !.number = @ + 1]
          /\ forms' = b.forms
    /\ Answer(t)
    /\ UNCHANGED <<revisions, owner, catalog, media, edits, ops>>

--------------------------------------------------------------------------------
\* The onboarding.

NormalizedSteps == IF owner.launched THEN Steps ELSE owner.steps
Before(step) == {SetupSteps[k] : k \in {k \in DOMAIN SetupSteps : \E j \in DOMAIN SetupSteps : SetupSteps[j] = step /\ k < j}}
AssertStepOrder(step) == Before(step) \subseteq NormalizedSteps
WithStep(step) == [owner EXCEPT !.steps = NormalizedSteps \cup {step}]

\* A selection of services makes some bookable and takes others off.
SyncServiceCatalogSelection(r) ==
    [s \in Services |-> IF s \in r.versions.offers THEN "bookable"
                        ELSE IF s \in r.versions.drops /\ catalog[s] \in {"active", "bookable"} THEN "inactive"
                        ELSE catalog[s]]
Selectable(r) == \A s \in r.versions.drops : catalog[s] \notin {"absent", "archived"}
Active(c) == {s \in Services : c[s] \in {"active", "bookable"}}

\* A step of the onboarding, each of which leaves a receipt.  The address
\* itself is part of WebsiteAddresses.
SaveStep(t) ==
    LET r == tabs[t].request IN
    /\ Has(t, "step") /\ ~HasReceipt(r) /\ ~IsStale(r)
    /\ AssertStepOrder(r.step)
    /\ \/ /\ r.step = "business_profile" /\ r.versions.profile = owner.profile
          /\ owner' = [WithStep(r.step) EXCEPT !.profile = @ + 1]
          /\ CreateRevisionSnapshot([site EXCEPT !.status = AfterDraftMutation(@)], Receipt(r))
          /\ UNCHANGED <<catalog, forms>>
       \/ /\ r.step = "branding"
          /\ AssertManagedBrandReferences(r.logo, None)
          /\ owner' = WithStep(r.step)
          /\ CreateRevisionSnapshot(Edited(r), Receipt(r))
          /\ UNCHANGED <<catalog, forms>>
       \/ /\ r.step = "services" /\ r.versions.catalog = catalog /\ Selectable(r)
          /\ catalog' = SyncServiceCatalogSelection(r)
          /\ Active(catalog') # {}
          /\ \E b \in ConfigureForAdmin(catalog', r) :
                /\ CreateRevisionSnapshot(Configured(b), Receipt(r))
                /\ forms' = b.forms
          /\ owner' = WithStep(r.step)
       \/ /\ r.step = "website_address"
          /\ owner' = WithStep(r.step)
          /\ CreateRevisionSnapshot([site EXCEPT !.status = AfterDraftMutation(@)], Receipt(r))
          /\ UNCHANGED <<catalog, forms>>
    /\ Answer(t)
    /\ UNCHANGED <<media, edits, ops>>

\* A step sent again after it was saved writes nothing.
ReplayStep(t) ==
    /\ Has(t, "step") /\ HasReceipt(tabs[t].request)
    /\ tabs' = [tabs EXCEPT ![t] = Idle(site.number, site.draft.edit)]
    /\ UNCHANGED <<studio, business, media, edits, ops>>

\* The first version of the services step: no expected number, and a repeat is
\* known by the newest revision alone.
Signature(r) == [what |-> "services", of |-> IF r.booking THEN 1 ELSE 0]
Newest == CHOOSE n \in DOMAIN revisions : \A m \in DOMAIN revisions : m <= n

SaveOnboardingServices(t) ==
    LET r == tabs[t].request IN
    /\ Has(t, "services") /\ AssertStepOrder("services")
    /\ \/ /\ revisions[Newest].reason = Signature(r) /\ "services" \in NormalizedSteps
          /\ UNCHANGED <<site, revisions, business>>
       \/ /\ ~(revisions[Newest].reason = Signature(r) /\ "services" \in NormalizedSteps)
          /\ Selectable(r)
          /\ catalog' = SyncServiceCatalogSelection(r)
          /\ \E b \in ConfigureForAdmin(catalog', r) :
                /\ CreateRevisionSnapshot(Configured(b), Signature(r))
                /\ forms' = b.forms
          /\ owner' = WithStep("services")
    /\ Answer(t)
    /\ UNCHANGED <<media, edits, ops>>

\* The older endpoints mark steps without touching the draft.
CompleteOnboardingStep(step) ==
    /\ "setup" \in ops /\ AssertStepOrder(step) /\ step \notin owner.steps
    /\ step = "services" => Active(catalog) # {}
    /\ owner' = WithStep(step)
    /\ site' = [site EXCEPT !.status = AfterDraftMutation(@)]
    /\ UNCHANGED <<revisions, catalog, forms, media, tabs, edits, ops>>

\* Mutant: skipping the setup also finishes the onboarding.
SkipAndFinish ==
    /\ "setup" \in ops /\ ~owner.launched /\ owner.steps # Steps
    /\ owner' = [owner EXCEPT !.steps = Steps, !.launched = TRUE]
    /\ UNCHANGED <<studio, catalog, forms, media, tabs, edits, ops>>

SkipWebsiteOnboardingSetup ==
    /\ "setup" \in ops /\ ~owner.launched /\ owner.steps # Steps
    /\ owner' = [owner EXCEPT !.steps = Steps]
    /\ UNCHANGED <<studio, catalog, forms, media, tabs, edits, ops>>

FinalizeOnboardingSetup ==
    /\ "setup" \in ops /\ ~owner.launched
    /\ owner.steps = Steps /\ site.status = "PUBLISHED"
    /\ owner' = [owner EXCEPT !.launched = TRUE]
    /\ UNCHANGED <<studio, catalog, forms, media, tabs, edits, ops>>

\* The form a launch attaches, whether or not the draft has one.
EnsureAttachedForLaunch(primary) == SelectOrCreateBookingForm(catalog, primary, None)

\* The launch attaches a booking form if booking is on, publishes and closes
\* the onboarding.
LaunchWebsite(t) ==
    LET r == tabs[t].request
        d == AppliedTo(site.draft, r) IN
    /\ Has(t, "launch") /\ ~IsLive /\ ~IsStale(r)
    /\ Steps \ {"review_launch"} \subseteq NormalizedSteps
    /\ AssertManagedBrandReferences(r.logo, site.draft.logo)
    /\ \/ /\ d.booking
          /\ \E a \in EnsureAttachedForLaunch(d.form) :
                /\ CreateRevisionSnapshot(Published([d EXCEPT !.form = a.form]), Reason("launched"))
                /\ forms' = a.forms
       \/ /\ ~d.booking
          /\ CreateRevisionSnapshot(Published(d), Reason("launched"))
          /\ forms' = forms
    /\ owner' = [WithStep("review_launch") EXCEPT !.launched = TRUE]
    /\ Answer(t)
    /\ UNCHANGED <<catalog, media, edits, ops>>

\* A launch sent again finds the site live and publishes nothing.
RelaunchWebsite(t) ==
    /\ Has(t, "launch") /\ IsLive
    /\ tabs' = [tabs EXCEPT ![t] = Idle(site.number, site.draft.edit)]
    /\ UNCHANGED <<studio, business, media, edits, ops>>

--------------------------------------------------------------------------------
\* The catalogue, the forms and the profile, outside the studio.

Stock(s, status) ==
    /\ "catalog" \in ops /\ status # catalog[s]
    /\ catalog' = [catalog EXCEPT ![s] = status]
    /\ UNCHANGED <<studio, owner, forms, media, tabs, edits, ops>>

CreateServiceCatalog(s) == catalog[s] \in {"absent", "archived"} /\ \E status \in {"bookable", "inactive"} : Stock(s, status)
UpdateServiceCatalog(s) ==
    catalog[s] \notin {"absent", "archived"} /\ \E status \in {"bookable", "active", "inactive"} : Stock(s, status)
\* A service that something refers to is kept and hidden.
DeleteServiceCatalog(s) == catalog[s] \notin {"absent", "archived"} /\ \E status \in {"absent", "archived"} : Stock(s, status)
ImportRecommendedServices ==
    /\ "catalog" \in ops /\ \E s \in Services : catalog[s] \in {"absent", "archived"}
    /\ catalog' = [s \in Services |-> IF catalog[s] \in {"absent", "archived"} THEN "inactive" ELSE catalog[s]]
    /\ UNCHANGED <<studio, owner, forms, media, tabs, edits, ops>>

Formed(f, status) ==
    /\ "forms" \in ops
    /\ forms' = [forms EXCEPT ![f] = status]
    /\ UNCHANGED <<revisions, owner, catalog, media, tabs, edits, ops>>

CreateBookingForm(f) == f \notin Managed /\ forms[f] = "absent" /\ Formed(f, "unpublished") /\ UNCHANGED site
TogglePublished(f) ==
    /\ forms[f] # "absent"
    /\ Formed(f, IF forms[f] = "published" THEN "unpublished" ELSE "published")
    /\ UNCHANGED site
\* The foreign key of the draft is set to null.
DeleteBookingForm(f) ==
    /\ forms[f] # "absent" /\ Formed(f, "absent")
    /\ site' = [site EXCEPT !.draft.form = IF @ = f THEN None ELSE @]

UpdateAdmin ==
    /\ "profile" \in ops /\ owner.profile < MaxEdits
    /\ owner' = [owner EXCEPT !.profile = @ + 1]
    /\ UNCHANGED <<studio, catalog, forms, media, tabs, edits, ops>>

--------------------------------------------------------------------------------
\* Images.

\* In some behaviours requests come one at a time.
MayStart == "alone" \in ops => deleting = None /\ \A t \in Tabs : tabs[t].request = None

\* An upload ends with the image stored and registered.
AttachManagedBrandAsset(i) ==
    /\ "images" \in ops /\ assets[i] = "none" /\ i \notin objects
    /\ i \notin UNION {revisions[n].assets : n \in DOMAIN revisions}
    /\ objects' = objects \cup {i}
    /\ assets' = [assets EXCEPT ![i] = "linked"]
    /\ UNCHANGED <<studio, business, deleting, tabs, edits, ops>>

\* The draft and the live site are read without a lock, then the row is deleted
\* and with it the object of its media asset.
CheckDeleteAsset(i) ==
    /\ "images" \in ops /\ deleting = None /\ assets[i] # "none" /\ MayStart
    /\ site.draft.logo # i /\ (site.live # None => site.live.logo # i)
    /\ deleting' = i
    /\ UNCHANGED <<studio, business, assets, objects, tabs, edits, ops>>

DeleteAsset ==
    /\ deleting # None
    /\ assets' = [assets EXCEPT ![deleting] = "none"]
    /\ objects' = IF assets[deleting] = "linked" THEN objects \ {deleting} ELSE objects
    /\ deleting' = None
    /\ UNCHANGED <<studio, business, tabs, edits, ops>>

--------------------------------------------------------------------------------
\* What a tab may ask for.

Logos == IF "images" \in ops THEN Images \cup {None} ELSE {None}
Of(kind, requests) == IF kind \in ops THEN requests ELSE {}
Selections ==
    {[profile |-> owner.profile, catalog |-> catalog, offers |-> o, drops |-> d] :
        o \in {{}} \cup {{s} : s \in Services}, d \in {{}} \cup {{s} : s \in Services}}

Pictured(t, kind) == {[Asked(t, kind) EXCEPT !.logo = i] : i \in Logos}
Bare(t, kind) == {[Asked(t, kind) EXCEPT !.edit = 0]}
Restoring(t) == {[Asked(t, "restore") EXCEPT !.edit = 0, !.revision = n] : n \in DOMAIN revisions}
Setup(r, b, f) == [r EXCEPT !.booking = b, !.form = f]
Setups(rs) == {Setup(r, b, f) : r \in rs, b \in BOOLEAN, f \in Of("forms", Forms) \cup {None}}
WithForms(rs) == {r \in Setups(rs) : r.form # None => r.booking}
Selecting(t, kind) == {[Asked(t, kind) EXCEPT !.versions = v] : v \in {v \in Selections : v.offers \cap v.drops = {}}}
Profiling(t) == {r \in Selecting(t, "step") : r.versions.offers \cup r.versions.drops = {}}
Stepping(step, rs) == {[r EXCEPT !.step = step] : r \in rs}

MayAsk(t) ==
    UNION {Of("save", Pictured(t, "save")), Of("settings", Pictured(t, "settings")), Of("page", {Asked(t, "page")}),
           Of("publish", Pictured(t, "publish") \cup Bare(t, "publish")),
           Of("launch", Pictured(t, "launch") \cup Bare(t, "launch")),
           Of("restore", Restoring(t)), Of("booking", WithForms({Asked(t, "booking")})),
           Of("services", Stepping("services", WithForms(Selecting(t, "services")))),
           Of("step", Stepping("services", WithForms(Selecting(t, "step"))) \cup Stepping("branding", Pictured(t, "step"))
                      \cup Stepping("website_address", {Asked(t, "step")}) \cup Stepping("business_profile", Profiling(t)))}

Ask(t) ==
    /\ tabs[t].request = None /\ edits < MaxEdits
    /\ MayStart
    /\ \E r \in MayAsk(t) :
          tabs' = [tabs EXCEPT ![t].request = r, ![t].outcome = "none"]
    /\ edits' = edits + 1
    /\ UNCHANGED <<studio, business, media, ops>>

StudioNext ==
    \/ \E t \in Tabs :
          \/ GetWebsiteEditor(t) \/ Ask(t) \/ AssertExpectedRevision(t)
          \/ SaveEditorState(t) \/ UpdateWebsite(t) \/ UpdatePage(t) \/ PublishWebsite(t)
          \/ RestoreRevision(t) \/ Configure(t)
          \/ SaveStep(t) \/ ReplayStep(t) \/ SaveOnboardingServices(t) \/ LaunchWebsite(t) \/ RelaunchWebsite(t)
    \/ \E step \in Steps : CompleteOnboardingStep(step)
    \/ SkipWebsiteOnboardingSetup \/ FinalizeOnboardingSetup \/ UpdateAdmin
    \/ \E s \in Services : CreateServiceCatalog(s) \/ UpdateServiceCatalog(s) \/ DeleteServiceCatalog(s)
    \/ ImportRecommendedServices
    \/ \E f \in Forms : CreateBookingForm(f) \/ TogglePublished(f) \/ DeleteBookingForm(f)
    \/ \E i \in Images : AttachManagedBrandAsset(i) \/ CheckDeleteAsset(i)
    \/ DeleteAsset

StudioSpec == InitStudio(Mixes) /\ [][StudioNext]_studioVars

--------------------------------------------------------------------------------
\* What must hold.

StudioTypeOK ==
    /\ site.status \in {"PROVISIONED", "DRAFT", "PUBLISHED"} /\ site.number \in 1 .. MaxNumber
    /\ site.draft.form \in Forms \cup {None} /\ site.draft.logo \in Images \cup {None}
    /\ DOMAIN revisions \subseteq 1 .. MaxNumber
    /\ owner.steps \subseteq Steps /\ owner.launched \in BOOLEAN
    /\ objects \subseteq Images /\ deleting \in Images \cup {None}
    /\ \A t \in Tabs : tabs[t].number \in 1 .. MaxNumber

\* A request that names the draft it was built on changes that draft and no
\* later one: what another tab, the settings form or the onboarding wrote in
\* between is never overwritten by somebody who has not seen it.
NothingIsOverwrittenUnseen ==
    [][\A t \in Tabs :
         LET r == tabs[t].request IN
         /\ r # None
         /\ r.kind \in {"save", "publish", "restore", "launch", "step"}
         /\ tabs'[t] # tabs[t] /\ site'.draft # site.draft
         => site.draft.edit = r.saw]_studioVars

\* The published snapshot is the content of the revision it names, and no
\* revision is numbered past the draft, so that no later one meets it.
LiveIsTheRevisionItNames ==
    /\ site.live # None => /\ site.liveNumber \in DOMAIN revisions
                           /\ revisions[site.liveNumber].draft = site.live
    /\ \A n \in DOMAIN revisions : n <= site.number

\* An onboarding step or a launch whose answer was lost may be sent again at
\* any time, also after newer edits: it is recognised, changes nothing and is
\* not answered with a conflict.
RetriesAreRecognised ==
    [][\A t \in Tabs :
         LET r == tabs[t].request IN
         /\ r # None
         /\ r.kind \in {"step", "launch"} /\ r.applied
         /\ tabs'[t] # tabs[t]
         => site' = site /\ revisions' = revisions /\ tabs'[t].outcome # "conflict"]_studioVars

\* What requests of several tabs, new or sent again, may do to the draft.
DraftsAreChangedKnowingly == NothingIsOverwrittenUnseen /\ RetriesAreRecognised

\* A finished onboarding has a live website, whichever endpoint finished it.
FinishedHasALiveSite == owner.launched => site.status = "PUBLISHED" /\ site.live # None

\* What visitors see is one of the revisions, and a finished onboarding has it.
LiveSiteIsKnown == LiveIsTheRevisionItNames /\ FinishedHasALiveSite

\* A restored draft shows an image that is in the bucket ("Asset deletion
\* removes only the WebsiteAsset row; immutable R2 resources remain available
\* so historical revisions can still be recovered").
RestoredImagesExist ==
    [][\A t \in Tabs :
         Has(t, "restore") /\ tabs'[t] # tabs[t] /\ site'.draft # site.draft
         => site'.draft.logo \in objects \cup {None}]_studioVars
================================================================================
