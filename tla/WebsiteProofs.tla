----------------------------- MODULE WebsiteProofs -----------------------------
(***************************************************************************)
(* What a visitor of a website is given, for any number of forms, changes  *)
(* and requests and for any mix of operations (PublicSite), the copies of  *)
(* its projection for any number of calls, commits and invalidations       *)
(* (WebsiteProjectionCache), its custom domains (WebsiteDomains) and what  *)
(* its owner edits (WebsiteStudio).                                        *)
(*                                                                         *)
(* VisitorsSeeWhatIsLive speaks of the page when it is given, and every    *)
(* part of it was settled earlier, by another step.  The invariant follows *)
(* the page back: what the row and the script hold was released under the  *)
(* number of the row (RowIsReleased); the kept page was released, and what *)
(* it offers is there unless a withdrawal is still unannounced (CopyFits); *)
(* a request has been promised all that was there when it asked or came    *)
(* since (PromiseFits), its answer about the access is true as long as its *)
(* epoch stands (AccessFits), and what it read or made fits both the       *)
(* promise and the generation it will be kept under (SourceFits, PageFits, *)
(* KeepFits).  A change that withdraws something is first unannounced and  *)
(* its announcement moves the epoch or the generation: so each part        *)
(* survives the change by the one and the announcement by the other.       *)
(*                                                                         *)
(* The script that reconciles online booking reads the live website and    *)
(* writes it back in another transaction.  A publication in between would  *)
(* be lost under its own number; the theorems are about behaviours in      *)
(* which the script and a publication do not meet (ScriptRunsApart).       *)
(*                                                                         *)
(* That the answers of the projection are fresh is not inductive: an       *)
(* answer comes from a copy or from SQL, a copy comes from a call that was *)
(* about to store, and such a call captured the generation that is still   *)
(* current before it loaded.  The argument needs the counter never to go   *)
(* back, so those theorems assume that Redis does not lose it (MayEvict is *)
(* FALSE); the others do without.                                          *)
(***************************************************************************)
EXTENDS PublicSite, WebsiteProjectionCache, WebsiteDomains, WebsiteStudio, WellFoundedInduction, FiniteSetTheorems, TLAPS

\* Nobody publishes in a behaviour in which the script runs.
ScriptRunsApart == \A m \in SiteMixes : ~({"reconcile", "publish"} \subseteq m)

Contents == [look : Nat, premium : BOOLEAN, booking : BOOLEAN \cup {Nil}, form : BookForms \cup {Nil}, book : BOOLEAN]
Statuses == {"DRAFT", "PROVISIONED", "PUBLISHED"}
Rows == [status : Statuses, draft : Contents, number : Nat, live : Contents \cup {Nil}, liveNumber : Nat]
Pages == [number : Nat, look : Nat, premium : BOOLEAN, form : BookForms \cup {Nil}, book : BOOLEAN]
Accesses == [allowed : BOOLEAN, number : Nat, premium : BOOLEAN, lapsed : BOOLEAN, epoch : Nat \cup {Nil}]
Sources == [status : Statuses, live : Contents \cup {Nil}, liveNumber : Nat, forms : SUBSET BookForms]
Copies == [page : Pages, access : Accesses]

WithPage == {"keep", "compare", "matched", "check", "given"}
WithAccess == {"copy", "load", "rights", "keep", "compare", "matched", "check"}
Waiting == {"access"} \cup WithAccess

Visitors == [step : {"idle", "refused"} \cup Waiting \cup WithPage, access : Accesses, source : Sources \cup {Nil},
             page : Pages \cup {Nil}, generation : Nat, round : 0 .. 3, since : Nat, forms : SUBSET BookForms,
             premium : BOOLEAN, open : BOOLEAN]
Scripts == [step : {"idle", "read", "write", "done"}, live : Contents \cup {Nil}, status : Statuses,
            form : BookForms \cup {Nil}]

SiteTypeOK ==
    /\ page \in Rows
    /\ DOMAIN releases \subseteq Nat /\ releases \in [DOMAIN releases -> Contents]
    /\ shelf \in [BookForms -> {"absent", "hidden", "published"}]
    /\ rights \in [open : BOOLEAN, premium : BOOLEAN, lapsed : BOOLEAN]
    /\ kept \in [epoch : Nat, generation : Nat, copy : Copies \cup {Nil}]
    /\ unsaid \subseteq {"rights", "release", "form"}
    /\ visitor \in Visitors
    /\ script \in Scripts
    /\ spent \in [changes : Nat, asks : Nat]
    /\ visits \in SiteMixes

\* A content with this look has been published under this number.
Released(number, look) == number \in DOMAIN releases /\ look = releases[number].look

RowIsReleased ==
    /\ page.liveNumber <= page.number
    /\ \A n \in DOMAIN releases : n <= page.number
    /\ page.live # Nil => Released(page.liveNumber, page.live.look)
    /\ script.step # "idle" => "reconcile" \in visits
    /\ script.step = "write" /\ script.live # Nil => Released(page.liveNumber, script.live.look)

PageIsReleased(p) == p.number > 0 => Released(p.number, p.look)

\* What the page offers is among the forms.
Shown(p, offered) == p.form \in offered \cup {Nil}

\* The kept page is one that was published; while no withdrawal waits to be
\* announced, it offers and uses nothing that is gone.
CopyFits ==
    kept.copy # Nil =>
        /\ PageIsReleased(kept.copy.page)
        /\ kept.copy.access.epoch # Nil /\ kept.copy.access.epoch <= kept.epoch
        /\ "form" \notin unsaid => Shown(kept.copy.page, OnShelf("published"))
        /\ "rights" \notin unsaid /\ kept.copy.access.epoch = kept.epoch /\ kept.copy.page.premium => rights.premium

\* A request v has been promised what was there when it asked and since.
PromiseFits(v) ==
    /\ OnShelf("published") \subseteq v.forms
    /\ rights.premium => v.premium
    /\ kept.copy # Nil => Shown(kept.copy.page, v.forms)
    /\ kept.copy # Nil /\ kept.copy.access.epoch = kept.epoch /\ kept.copy.page.premium => v.premium

\* Its answer about the access was true, and is as long as its epoch stands and
\* nothing is left to announce.
AccessFits(v) ==
    /\ page.status = "PUBLISHED"
    /\ v.access.allowed /\ ~v.access.lapsed /\ v.access.number > 0 /\ v.since <= v.access.number
    /\ v.access.premium => v.premium
    /\ "rights" \notin unsaid /\ v.access.epoch # Nil /\ v.access.epoch = kept.epoch =>
           rights.open /\ (v.access.premium => rights.premium)

SourceFits(v) ==
    /\ v.source \in Sources
    /\ v.source.live # Nil => Released(v.source.liveNumber, v.source.live.look)
    /\ v.source.forms \subseteq v.forms
    /\ "form" \notin unsaid /\ v.generation = kept.generation => v.source.forms \subseteq OnShelf("published")

PageFits(v) ==
    /\ v.page \in Pages
    /\ PageIsReleased(v.page) /\ Shown(v.page, v.forms)
    /\ v.page.premium => v.premium

\* The page about to be kept is as good as the generation it was loaded under.
KeepFits(v) ==
    /\ v.page.premium => v.access.premium
    /\ "form" \notin unsaid /\ v.generation = kept.generation => Shown(v.page, OnShelf("published"))

RequestFits(v) ==
    /\ v.since <= page.liveNumber
    /\ v.generation <= kept.generation
    /\ v.access.epoch # Nil => v.access.epoch <= kept.epoch
    /\ v.step \in Waiting => PromiseFits(v)
    /\ v.step \in WithAccess => AccessFits(v)
    /\ v.step = "rights" => SourceFits(v)
    /\ v.step \in WithPage => PageFits(v)
    /\ v.step = "keep" => KeepFits(v)
    /\ v.step = "check" => v.page.number = v.access.number
    /\ v.step = "given" => v.page.number > 0 /\ v.since <= v.page.number /\ v.open

SiteInv == SiteTypeOK /\ RowIsReleased /\ CopyFits /\ RequestFits(visitor)

------------------------
(* What the operators return *)

LEMMA ParsedContent ==
  ASSUME NEW v \in Contents \cup {Nil}, v # Nil
  PROVE  /\ ParsePublishedSnapshot(v) \in Contents
         /\ ParsePublishedSnapshot(v).look = v.look
         /\ ParsePublishedSnapshot(v).booking \in BOOLEAN
         /\ ParsePublishedSnapshot(v).form = v.form
  BY DEF ParsePublishedSnapshot, Contents

LEMMA ParsedNothing == ParsePublishedSnapshot(Nil) = Nil
  BY DEF ParsePublishedSnapshot

LEMMA ParsedType ==
  ASSUME NEW v \in Contents \cup {Nil}
  PROVE  ParsePublishedSnapshot(v) \in Contents \cup {Nil}
  BY ParsedContent, ParsedNothing

LEMMA ReadType ==
  ASSUME SiteTypeOK
  PROVE  /\ LoadProjectionSource \in Sources
         /\ LoadProjectionSource.forms = OnShelf("published")
         /\ LoadProjectionSource.live = page.live
         /\ LoadProjectionSource.liveNumber = page.liveNumber
  BY DEF SiteTypeOK, LoadProjectionSource, Sources, Rows, OnShelf

LEMMA RevisionRead ==
  ASSUME SiteTypeOK, NEW n \in Nat, ParseRevisionSnapshotAsPublished(n) # Nil
  PROVE  /\ ParseRevisionSnapshotAsPublished(n) \in Contents
         /\ Released(n, ParseRevisionSnapshotAsPublished(n).look)
<1>1. n \in DOMAIN releases  BY DEF ParseRevisionSnapshotAsPublished
<1>2. releases[n] \in Contents  BY <1>1 DEF SiteTypeOK
<1>3. ParseRevisionSnapshotAsPublished(n) = ParsePublishedSnapshot(releases[n])
  BY <1>1 DEF ParseRevisionSnapshotAsPublished
<1>4. releases[n] # Nil  BY <1>3, ParsedNothing
<1> QED BY <1>1, <1>2, <1>3, <1>4, ParsedContent DEF Released

\* What is recovered has been published under the number that was read.
LEMMA RecoveredIsReleased ==
  ASSUME SiteTypeOK, NEW r \in Sources, ResolveSafePublishedSnapshot(r) # Nil,
         r.live # Nil => Released(r.liveNumber, r.live.look)
  PROVE  /\ ResolveSafePublishedSnapshot(r) \in Contents
         /\ r.liveNumber > 0 => Released(r.liveNumber, ResolveSafePublishedSnapshot(r).look)
<1> DEFINE direct == ParsePublishedSnapshot(r.live)
           newest == {n \in DOMAIN releases : \A m \in DOMAIN releases : m <= n}
<1>0. r.live \in Contents \cup {Nil} /\ r.liveNumber \in Nat  BY DEF Sources
<1>1. CASE direct # Nil
  <2>1. ResolveSafePublishedSnapshot(r) = direct  BY <1>1 DEF ResolveSafePublishedSnapshot
  <2>2. r.live # Nil  BY <1>1, ParsedNothing
  <2> QED BY <1>0, <2>1, <2>2, ParsedContent DEF Released
<1>2. CASE direct = Nil /\ r.status = "PUBLISHED" /\ r.liveNumber > 0
  <2>1. ResolveSafePublishedSnapshot(r) = ParseRevisionSnapshotAsPublished(r.liveNumber)
    BY <1>2 DEF ResolveSafePublishedSnapshot
  <2> QED BY <1>0, <2>1, RevisionRead
<1>3. CASE direct = Nil /\ r.status = "PUBLISHED" /\ ~(r.liveNumber > 0)
  <2>1. ResolveSafePublishedSnapshot(r) = IF newest = {} THEN Nil ELSE ParseRevisionSnapshotAsPublished(CHOOSE n \in newest : TRUE)
    BY <1>3 DEF ResolveSafePublishedSnapshot
  <2>2. newest # {}  BY <2>1
  <2>3. (CHOOSE n \in newest : TRUE) \in newest  BY <2>2
  <2>4. (CHOOSE n \in newest : TRUE) \in Nat  BY <2>3 DEF SiteTypeOK
  <2> QED BY <1>3, <2>1, <2>2, <2>4, RevisionRead
<1>4. CASE direct = Nil /\ r.status # "PUBLISHED"  BY <1>4 DEF ResolveSafePublishedSnapshot
<1> QED BY <1>1, <1>2, <1>3, <1>4

LEMMA ProjectedPage ==
  ASSUME NEW r \in Sources, NEW premium \in BOOLEAN, NEW c \in Contents
  PROVE  /\ ProjectWebsite(r, premium, c) \in Pages
         /\ ProjectWebsite(r, premium, c).number = r.liveNumber
         /\ ProjectWebsite(r, premium, c).look = c.look
         /\ Shown(ProjectWebsite(r, premium, c), r.forms)
         /\ ProjectWebsite(r, premium, c).premium => premium
  BY DEF ProjectWebsite, OfferedForm, Pages, Sources, Contents, Shown

LEMMA ResolvedAccess ==
  ASSUME SiteTypeOK, NEW e \in Epochs
  PROVE  /\ Resolve(e) \in Accesses
         /\ Resolve(e).allowed = Allowed /\ Resolve(e).number = page.liveNumber
         /\ Resolve(e).premium = rights.premium /\ Resolve(e).lapsed = rights.lapsed /\ Resolve(e).epoch = e
         /\ e # Nil => e = kept.epoch
  BY DEF SiteTypeOK, Epochs, Resolve, Allowed, Accesses, Rows

------------------------
(* Types *)

LEMMA IdleType == Idle_ \in Visitors /\ Idle_.access = NoAccess /\ Idle_.since = 0 /\ Idle_.generation = 0
<1>1. NoAccess \in Accesses  BY DEF NoAccess, Accesses
<1>2. {} \in SUBSET BookForms  OBVIOUS
<1> QED BY <1>1, <1>2 DEF Idle_, Visitors

\* A website that has been live for long shows a first revision or nothing
\* that can be read.
LEMMA EstablishedShape ==
  ASSUME EstablishedSite
  PROVE  \E c \in Contents, c0 \in Contents :
           /\ c.look = c0.look
           /\ \E l \in {c, c0, Nil} : page = [status |-> "PUBLISHED", draft |-> c, number |-> 1, live |-> l, liveNumber |-> 1]
           /\ releases = [n \in {1} |-> c] \/ releases = [n \in {1} |-> c0] \/ releases = [n \in {} |-> c]
           /\ page.live # Nil => 1 \in DOMAIN releases
           /\ shelf \in [BookForms -> {"absent", "hidden", "published"}]
<1>1. PICK p \in Varied({"rights"}, BOOLEAN, TRUE), b \in Varied({"wire", "reconcile"}, BOOLEAN, TRUE),
           f \in Varied({"wire", "reconcile"}, BookForms \cup {Nil}, OwnForm) :
        Established(Content(0, p, b, f, b))
  BY DEF EstablishedSite
<1> DEFINE c == Content(0, p, b, f, b)
           c0 == [c EXCEPT !.booking = Nil]
           whole == [n \in {1} |-> c]
           older == [n \in {1} |-> c0]
           none == [n \in {} |-> c]
<1>2. p \in BOOLEAN /\ b \in BOOLEAN /\ f \in BookForms \cup {Nil}  BY PublicSiteAssumption DEF Varied
<1>3. c \in Contents /\ c0 \in Contents /\ c.look = c0.look  BY <1>2 DEF Content, Contents
<1>4. /\ shelf \in [BookForms -> {"absent", "hidden", "published"}]
      /\ page.live # Nil => 1 \in DOMAIN releases
  BY <1>1 DEF Established
<1> HIDE DEF c, c0, whole, older, none
<1>5. \E l \in {c, c0, Nil} : page = [status |-> "PUBLISHED", draft |-> c, number |-> 1, live |-> l, liveNumber |-> 1]
  BY <1>1 DEF c, c0, Established
<1>6. releases \in {whole} \cup (IF "legacy" \in visits THEN {older, none} ELSE {})
  BY <1>1 DEF c, c0, whole, older, none, Established
<1>7. releases = whole \/ releases = older \/ releases = none  BY <1>6
<1>8. releases = [n \in {1} |-> c] \/ releases = [n \in {1} |-> c0] \/ releases = [n \in {} |-> c]
  BY <1>7 DEF whole, older, none
<1> QED BY <1>3, <1>4, <1>5, <1>8

LEMMA InitialTypes == InitSite(SiteMixes) => SiteTypeOK
<1> SUFFICES ASSUME InitSite(SiteMixes) PROVE SiteTypeOK
  OBVIOUS
<1>1. Provisioned \in Contents  BY PublicSiteAssumption DEF Provisioned, Content, Contents
<1>2. /\ page \in Rows /\ shelf \in [BookForms -> {"absent", "hidden", "published"}]
      /\ DOMAIN releases \subseteq Nat /\ releases \in [DOMAIN releases -> Contents]
  <2>1. CASE "new" \in visits
    <3>1. ProvisionDefaultDraft  BY <2>1 DEF InitSite
    <3> QED BY <1>1, <3>1 DEF ProvisionDefaultDraft, Rows, Statuses
  <2>2. CASE "new" \notin visits
    <3>1. EstablishedSite  BY <2>2 DEF InitSite
    <3>2. PICK c \in Contents, c0 \in Contents :
         /\ \E l \in {c, c0, Nil} : page = [status |-> "PUBLISHED", draft |-> c, number |-> 1, live |-> l, liveNumber |-> 1]
         /\ releases = [n \in {1} |-> c] \/ releases = [n \in {1} |-> c0] \/ releases = [n \in {} |-> c]
         /\ shelf \in [BookForms -> {"absent", "hidden", "published"}]
      BY <3>1, EstablishedShape
    <3>3. page \in Rows  BY <3>2 DEF Rows, Statuses
    <3>4. DOMAIN releases \subseteq Nat /\ releases \in [DOMAIN releases -> Contents]
      <4>1. CASE releases = [n \in {1} |-> c]  BY <4>1
      <4>2. CASE releases = [n \in {1} |-> c0]  BY <4>2
      <4>3. CASE releases = [n \in {} |-> c]  BY <4>3
      <4> QED BY <3>2, <4>1, <4>2, <4>3
    <3> QED BY <3>2, <3>3, <3>4
  <2> QED BY <2>1, <2>2
<1>3. visitor \in Visitors /\ visitor.step = "idle"  BY IdleType DEF InitSite, Idle_
<1> QED BY <1>2, <1>3 DEF InitSite, SiteTypeOK, Scripts, NoScript, Statuses, WithPage

\* A step of the request alone.
LEMMA RequestKeepsTypes ==
  ASSUME SiteTypeOK, NEW v \in Visitors, Goes_(v)
  PROVE  SiteTypeOK'
  BY DEF SiteTypeOK, Goes_, owned, WithPage

\* A step of the owner, the office or the clock.
LEMMA ChangeKeepsTypes ==
  ASSUME SiteTypeOK, NEW what \in SUBSET {"rights", "release", "form"}, Changed(what),
         page' \in Rows, DOMAIN releases' \subseteq Nat, releases' \in [DOMAIN releases' -> Contents],
         shelf' \in [BookForms -> {"absent", "hidden", "published"}],
         rights' \in [open : BOOLEAN, premium : BOOLEAN, lapsed : BOOLEAN]
  PROVE  SiteTypeOK'
<1> DEFINE fs == visitor.forms \cup {f \in BookForms : shelf'[f] = "published"}
           pr == visitor.premium \/ rights'.premium
<1>1. visitor' = [visitor EXCEPT !.forms = fs, !.premium = pr]  BY DEF Changed
<1>2. fs \in SUBSET BookForms /\ pr \in BOOLEAN  BY DEF SiteTypeOK, Visitors
<1> HIDE DEF fs, pr
<1>3. visitor' \in Visitors /\ visitor'.step = visitor.step /\ visitor'.source = visitor.source /\ visitor'.page = visitor.page
  BY <1>1, <1>2 DEF SiteTypeOK, Visitors
<1>4. spent' \in [changes : Nat, asks : Nat]  BY DEF SiteTypeOK, Changed
<1>5. unsaid' \subseteq {"rights", "release", "form"} /\ kept' = kept /\ script' = script /\ visits' = visits
  BY DEF SiteTypeOK, Changed
<1> QED BY <1>3, <1>4, <1>5 DEF SiteTypeOK

LEMMA OwnerKeepsTypes ==
  ASSUME SiteTypeOK, SaveDraft \/ Publish
  PROVE  SiteTypeOK'
<1>1. CASE SaveDraft
  <2>0. page.draft \in Contents  BY DEF SiteTypeOK, Rows
  <2>1. PICK booking \in {page.draft.booking} \cup (IF "wire" \in visits THEN BOOLEAN ELSE {}),
             book \in {page.draft.book} \cup (IF "wire" \in visits THEN BOOLEAN ELSE {}),
             form \in {page.draft.form} \cup (IF "wire" \in visits THEN OnShelf("published") ELSE {}) :
          page' = [page EXCEPT !.draft = Content(spent.changes + 1, @.premium, booking, form, book), !.number = @ + 1]
    BY <1>1, Zenon DEF SaveDraft
  <2>b. booking \in BOOLEAN \cup {Nil} /\ book \in BOOLEAN /\ form \in BookForms \cup {Nil}
    BY <2>0, <2>1 DEF Contents, OnShelf
  <2> DEFINE d == Content(spent.changes + 1, page.draft.premium, booking, form, book)
  <2>2. d \in Contents  BY <2>0, <2>b DEF Content, Contents, SiteTypeOK
  <2> DEFINE n == page.number + 1
  <2>c. page' = [page EXCEPT !.draft = d, !.number = n] /\ n \in Nat  BY <2>1 DEF SiteTypeOK, Rows
  <2> HIDE DEF d, n
  <2>d. page \in Rows  BY DEF SiteTypeOK
  <2>3. page' \in Rows  BY <2>c, <2>d, <2>2 DEF Rows
  <2> QED BY <1>1, <2>3, ChangeKeepsTypes DEF SaveDraft, SiteTypeOK
<1>2. CASE Publish
  <2> DEFINE l == CurrentDraftAsPublishedSnapshot
             n == page.number + 1
             rs == [k \in DOMAIN releases \cup {n} |-> IF k = n THEN page.draft ELSE releases[k]]
  <2>1. l \in Contents \cup {Nil} /\ n \in Nat /\ page.draft \in Contents
    BY ParsedType DEF CurrentDraftAsPublishedSnapshot, SiteTypeOK, Rows
  <2>2. page' = [page EXCEPT !.status = "PUBLISHED", !.number = n, !.live = l, !.liveNumber = n] /\ releases' = rs
    BY <1>2 DEF Publish, SiteTypeOK, Rows
  <2>3. DOMAIN rs \subseteq Nat /\ rs \in [DOMAIN rs -> Contents]  BY <2>1 DEF SiteTypeOK
  <2> HIDE DEF l, n, rs
  <2>4. page' \in Rows  BY <2>1, <2>2 DEF SiteTypeOK, Rows, Statuses
  <2> QED BY <1>2, <2>2, <2>3, <2>4, ChangeKeepsTypes DEF Publish, SiteTypeOK
<1> QED BY <1>1, <1>2

LEMMA FormKeepsTypes ==
  ASSUME SiteTypeOK, NEW f \in BookForms, NEW s \in {"absent", "hidden", "published"}, PutForm(f, s)
  PROVE  SiteTypeOK'
<1> DEFINE d == [page.draft EXCEPT !.form = Nil, !.booking = FALSE]
<1>1. page.draft \in Contents  BY DEF SiteTypeOK, Rows
<1>2. d \in Contents  BY <1>1 DEF Contents
<1> HIDE DEF d
<1>3. page' = [page EXCEPT !.draft = d] \/ page' = page  BY DEF PutForm, d, SiteTypeOK, Rows
<1>4. page' \in Rows  BY <1>2, <1>3 DEF SiteTypeOK, Rows
<1> QED BY <1>4, ChangeKeepsTypes DEF PutForm, SiteTypeOK

LEMMA OfficeKeepsTypes ==
  ASSUME SiteTypeOK, CloseOrReopen \/ Lapse
  PROVE  SiteTypeOK'
<1>1. rights' \in [open : BOOLEAN, premium : BOOLEAN, lapsed : BOOLEAN]
  BY DEF CloseOrReopen, Lapse, SiteTypeOK
<1> QED BY <1>1, ChangeKeepsTypes DEF CloseOrReopen, Lapse, SiteTypeOK

LEMMA AnnounceKeepsTypes ==
  ASSUME SiteTypeOK, NEW what \in {"rights", "release", "form"}, Announce(what)
  PROVE  SiteTypeOK'
<1> DEFINE e == IF what = "form" THEN kept.epoch ELSE kept.epoch + 1
           g == IF what = "rights" THEN kept.generation ELSE kept.generation + 1
           c == IF what = "rights" THEN kept.copy ELSE Nil
<1>1. kept' = [epoch |-> e, generation |-> g, copy |-> c]  BY DEF Announce
<1>2. e \in Nat /\ g \in Nat /\ c \in Copies \cup {Nil}  BY DEF SiteTypeOK
<1> HIDE DEF e, g, c
<1>3. kept' \in [epoch : Nat, generation : Nat, copy : Copies \cup {Nil}]  BY <1>1, <1>2
<1>4. unsaid' \subseteq {"rights", "release", "form"}  BY DEF Announce, SiteTypeOK
<1> QED BY <1>3, <1>4 DEF Announce, owned, SiteTypeOK

\* Each step of the request writes a request.
LEMMA AskKeepsTypes ==
  ASSUME SiteTypeOK, Ask_
  PROVE  SiteTypeOK'
<1> DEFINE fs == IF "form" \in unsaid THEN BookForms ELSE OnShelf("published")
           pr == rights.premium \/ "rights" \in unsaid
<1>1. fs \in SUBSET BookForms /\ pr \in BOOLEAN /\ page.liveNumber \in Nat
  BY DEF OnShelf, SiteTypeOK, Rows
<1>2. visitor' = [Idle_ EXCEPT !.step = "access", !.since = page.liveNumber, !.forms = fs, !.premium = pr]
  BY DEF Ask_
<1> HIDE DEF fs, pr
<1>3. visitor' \in Visitors /\ visitor'.step = "access"  BY <1>1, <1>2, IdleType DEF Visitors, Waiting
<1>4. spent' \in [changes : Nat, asks : Nat]  BY DEF Ask_, SiteTypeOK
<1> QED BY <1>3, <1>4 DEF Ask_, owned, SiteTypeOK, WithPage

LEMMA RefusedType == Refused_ \in Visitors /\ Refused_.step = "refused" /\ Refused_.since = 0 /\ Refused_.generation = 0
                     /\ Refused_.access = NoAccess
  BY IdleType DEF Refused_, Visitors


------------------------
(* The steps of a request *)

LEMMA RequestKeeps ==
  ASSUME SiteInv, NEW v \in Visitors, visitor' = v, RequestFits(v), SiteTypeOK',
         UNCHANGED <<owned, kept, unsaid, script, visits>>
  PROVE  SiteInv'
<1>1. RowIsReleased' /\ CopyFits'
  BY DEF SiteInv, RowIsReleased, CopyFits, owned, Released, PageIsReleased, Shown, OnShelf
<1>2. RequestFits(visitor)'
  BY DEF RequestFits, PromiseFits, AccessFits, SourceFits, PageFits, KeepFits, owned, Released, PageIsReleased, Shown, OnShelf
<1> QED BY <1>1, <1>2 DEF SiteInv

LEMMA GoesKeeps ==
  ASSUME SiteInv, NEW v \in Visitors, Goes_(v), RequestFits(v)
  PROVE  SiteInv'
  BY RequestKeepsTypes, RequestKeeps DEF SiteInv, Goes_

LEMMA RefusalKeeps == SiteInv /\ Goes_(Refused_) => SiteInv'
<1> SUFFICES ASSUME SiteInv, Goes_(Refused_) PROVE SiteInv'
  OBVIOUS
<1>1. page.liveNumber \in Nat /\ kept.generation \in Nat  BY DEF SiteInv, SiteTypeOK, Rows
<1>2. RequestFits(Refused_)
  BY <1>1, RefusedType DEF RequestFits, NoAccess, Waiting, WithAccess, WithPage
<1> QED BY <1>2, RefusedType, GoesKeeps

LEMMA AskKeeps == SiteInv /\ Ask_ => SiteInv'
<1> SUFFICES ASSUME SiteInv, Ask_ PROVE SiteInv'
  OBVIOUS
<1> DEFINE fs == IF "form" \in unsaid THEN BookForms ELSE OnShelf("published")
           pr == rights.premium \/ "rights" \in unsaid
           v == [Idle_ EXCEPT !.step = "access", !.since = page.liveNumber, !.forms = fs, !.premium = pr]
<1>1. fs \in SUBSET BookForms /\ pr \in BOOLEAN /\ page.liveNumber \in Nat /\ kept.generation \in Nat
  BY DEF OnShelf, SiteInv, SiteTypeOK, Rows
<1>2. visitor' = v  BY DEF Ask_
<1>3. OnShelf("published") \subseteq fs /\ (rights.premium => pr)  BY DEF OnShelf
<1>4. kept.copy # Nil => Shown(kept.copy.page, fs)
  <2>1. ASSUME kept.copy # Nil PROVE kept.copy.page.form \in BookForms \cup {Nil}
    BY <2>1 DEF SiteInv, SiteTypeOK, Copies, Pages
  <2> QED BY <2>1 DEF SiteInv, CopyFits, Shown
<1>5. kept.copy # Nil /\ kept.copy.access.epoch = kept.epoch /\ kept.copy.page.premium => pr
  BY DEF SiteInv, CopyFits
<1> HIDE DEF fs, pr
<1>6. /\ v \in Visitors /\ v.step = "access" /\ v.since = page.liveNumber /\ v.forms = fs /\ v.premium = pr
      /\ v.generation = 0 /\ v.access = NoAccess
  BY <1>1, IdleType DEF Visitors, Waiting
<1> HIDE DEF v
<1>7. PromiseFits(v)  BY <1>3, <1>4, <1>5, <1>6 DEF PromiseFits
<1>8. RequestFits(v)  BY <1>1, <1>6, <1>7 DEF RequestFits, NoAccess, WithAccess, WithPage
<1> QED BY <1>2, <1>6, <1>8, AskKeepsTypes, RequestKeeps DEF Ask_, SiteInv

LEMMA ResolveKeeps == SiteInv /\ ResolveAccess => SiteInv'
<1> SUFFICES ASSUME SiteInv, ResolveAccess PROVE SiteInv'
  OBVIOUS
<1>0. SiteTypeOK /\ visitor.step = "access" /\ visitor \in Visitors
  BY DEF SiteInv, SiteTypeOK, ResolveAccess, At_
<1>1. PICK e \in Epochs :
        Goes_(IF Allowed /\ page.liveNumber > 0 THEN [visitor EXCEPT !.access = Resolve(e), !.step = "copy"] ELSE Refused_)
  BY DEF ResolveAccess
<1>2. CASE ~(Allowed /\ page.liveNumber > 0)  BY <1>1, <1>2, RefusalKeeps
<1>3. CASE Allowed /\ page.liveNumber > 0
  <2> DEFINE a == Resolve(e)
             v == [visitor EXCEPT !.access = a, !.step = "copy"]
  <2>1. a \in Accesses /\ a.allowed = Allowed /\ a.number = page.liveNumber /\ a.premium = rights.premium
        /\ a.lapsed = rights.lapsed /\ (a.epoch # Nil => a.epoch = kept.epoch)
    BY <1>0, ResolvedAccess
  <2> HIDE DEF a
  <2>2. /\ v \in Visitors /\ v.step = "copy" /\ v.access = a /\ v.since = visitor.since /\ v.forms = visitor.forms
        /\ v.premium = visitor.premium /\ v.generation = visitor.generation
    BY <1>0, <2>1 DEF Visitors, Waiting, WithAccess
  <2>3. Goes_(v)  BY <1>1, <1>3 DEF a
  <2> HIDE DEF v
  <2>4. PromiseFits(visitor) /\ visitor.since <= page.liveNumber /\ visitor.generation <= kept.generation
    BY <1>0 DEF SiteInv, RequestFits, Waiting
  <2>5. PromiseFits(v)  BY <2>2, <2>4 DEF PromiseFits
  <2>6. AccessFits(v)  BY <1>3, <2>1, <2>2, <2>4 DEF AccessFits, Allowed, PromiseFits
  <2>7. kept.epoch \in Nat  BY <1>0 DEF SiteTypeOK
  <2>8. RequestFits(v)  BY <2>1, <2>2, <2>4, <2>5, <2>6, <2>7 DEF RequestFits, WithPage
  <2> QED BY <2>2, <2>3, <2>8, GoesKeeps
<1> QED BY <1>2, <1>3

LEMMA TakeCopyKeeps == SiteInv /\ TakeCopy => SiteInv'
<1> SUFFICES ASSUME SiteInv, TakeCopy PROVE SiteInv'
  OBVIOUS
<1>0. /\ SiteTypeOK /\ visitor.step = "copy" /\ visitor \in Visitors
      /\ RequestFits(visitor) /\ PromiseFits(visitor) /\ AccessFits(visitor)
  BY DEF SiteInv, SiteTypeOK, TakeCopy, At_, RequestFits, Waiting, WithAccess
<1>1. CASE Usable(kept.copy) /\ Goes_([visitor EXCEPT !.page = kept.copy.page, !.step = "compare"])
  <2> DEFINE p == kept.copy.page
             v == [visitor EXCEPT !.page = p, !.step = "compare"]
  <2>1. kept.copy # Nil /\ kept.copy.access.epoch = kept.epoch /\ p \in Pages /\ PageIsReleased(p)
    BY <1>0, <1>1 DEF Usable, IsCurrentGeneration, SiteInv, SiteTypeOK, Copies, CopyFits
  <2>a. Shown(p, visitor.forms) /\ (p.premium => visitor.premium)  BY <1>0, <2>1 DEF PromiseFits
  <2> HIDE DEF p
  <2>2. /\ v \in Visitors /\ v.step = "compare" /\ v.access = visitor.access /\ v.since = visitor.since /\ v.forms = visitor.forms
        /\ v.premium = visitor.premium /\ v.generation = visitor.generation /\ v.page = p
    BY <1>0, <2>1 DEF Visitors, Waiting, WithAccess
  <2>3. Goes_(v)  BY <1>1 DEF p
  <2> HIDE DEF v
  <2>4. PromiseFits(v) /\ AccessFits(v)  BY <1>0, <2>2 DEF PromiseFits, AccessFits
  <2>5. PageFits(v)  BY <2>1, <2>a, <2>2 DEF PageFits
  <2>6. RequestFits(v)  BY <1>0, <2>2, <2>4, <2>5 DEF RequestFits
  <2> QED BY <2>2, <2>3, <2>6, GoesKeeps
<1>2. ASSUME NEW seen \in BOOLEAN,
             Goes_([visitor EXCEPT !.generation = kept.generation, !.round = IF seen THEN 1 ELSE 0, !.step = "load"])
      PROVE  SiteInv'
  <2> DEFINE n == IF seen THEN 1 ELSE 0
             v == [visitor EXCEPT !.generation = kept.generation, !.round = n, !.step = "load"]
  <2>1. n \in 0 .. 3 /\ kept.generation \in Nat  BY <1>0 DEF SiteTypeOK
  <2> HIDE DEF n
  <2>2. /\ v \in Visitors /\ v.step = "load" /\ v.access = visitor.access /\ v.since = visitor.since /\ v.forms = visitor.forms
        /\ v.premium = visitor.premium /\ v.generation = kept.generation
    BY <1>0, <2>1 DEF Visitors, Waiting, WithAccess
  <2>3. Goes_(v)  BY <1>2 DEF n
  <2> HIDE DEF v
  <2>4. PromiseFits(v) /\ AccessFits(v)  BY <1>0, <2>2 DEF PromiseFits, AccessFits
  <2>6. RequestFits(v)  BY <1>0, <2>1, <2>2, <2>4 DEF RequestFits, WithPage
  <2> QED BY <2>2, <2>3, <2>6, GoesKeeps
<1> QED BY <1>1, <1>2, Zenon DEF TakeCopy

LEMMA LoadKeeps == SiteInv /\ LoadSource => SiteInv'
<1> SUFFICES ASSUME SiteInv, LoadSource PROVE SiteInv'
  OBVIOUS
<1>0. /\ SiteTypeOK /\ visitor.step = "load" /\ visitor \in Visitors
      /\ RequestFits(visitor) /\ PromiseFits(visitor) /\ AccessFits(visitor)
  BY DEF SiteInv, SiteTypeOK, LoadSource, At_, RequestFits, Waiting, WithAccess
<1> DEFINE r == LoadProjectionSource
           v == [visitor EXCEPT !.source = r, !.step = "rights"]
<1>1. r \in Sources /\ r.forms = OnShelf("published") /\ r.live = page.live /\ r.liveNumber = page.liveNumber
  BY <1>0, ReadType
<1> HIDE DEF r
<1>2. /\ v \in Visitors /\ v.step = "rights" /\ v.access = visitor.access /\ v.since = visitor.since /\ v.forms = visitor.forms
      /\ v.premium = visitor.premium /\ v.generation = visitor.generation /\ v.source = r
  BY <1>0, <1>1 DEF Visitors, Waiting, WithAccess
<1>3. Goes_(v)  BY DEF r, LoadSource
<1> HIDE DEF v
<1>4. PromiseFits(v) /\ AccessFits(v)  BY <1>0, <1>2 DEF PromiseFits, AccessFits
<1>5. SourceFits(v)  BY <1>0, <1>1, <1>2 DEF SourceFits, SiteInv, RowIsReleased, PromiseFits
<1>6. RequestFits(v)  BY <1>0, <1>2, <1>4, <1>5 DEF RequestFits, WithPage
<1> QED BY <1>2, <1>3, <1>6, GoesKeeps

LEMMA ProjectKeeps == SiteInv /\ ProjectSource => SiteInv'
<1> SUFFICES ASSUME SiteInv, ProjectSource PROVE SiteInv'
  OBVIOUS
<1>0. /\ SiteTypeOK /\ visitor.step = "rights" /\ visitor \in Visitors
      /\ RequestFits(visitor) /\ PromiseFits(visitor) /\ AccessFits(visitor) /\ SourceFits(visitor)
  BY DEF SiteInv, SiteTypeOK, ProjectSource, At_, RequestFits, Waiting, WithAccess
<1> DEFINE r == visitor.source
           c == ResolveSafePublishedSnapshot(r)
           p == ProjectWebsite(r, Remembered.premium, c)
           s == CASE visitor.round \in {1, 2} -> "keep" [] visitor.round = 0 -> "compare" [] OTHER -> "matched"
           v == [visitor EXCEPT !.page = p, !.source = Nil, !.step = s]
<1>1. CASE ~Remembered.allowed \/ c = Nil
  <2>1. Goes_(Refused_)  BY <1>1, Zenon DEF ProjectSource
  <2> QED BY <2>1, RefusalKeeps
<1>2. CASE Remembered.allowed /\ c # Nil
  <2>1. Goes_(v)  BY <1>2 DEF ProjectSource
  <2>2. Remembered = visitor.access
    <3>1. CASE Outlived(visitor.access)
      <4>1. Remembered = Resolve(visitor.access.epoch) /\ rights.lapsed
        BY <3>1 DEF Remembered, Outlived
      <4>2. ~Remembered.allowed  BY <4>1 DEF Resolve, Allowed
      <4> QED BY <1>2, <4>2
    <3> QED BY <3>1 DEF Remembered
  <2>3. visitor.access.premium \in BOOLEAN /\ r \in Sources  BY <1>0 DEF Visitors, Accesses, SourceFits
  <2>4. c \in Contents /\ (r.liveNumber > 0 => Released(r.liveNumber, c.look))
    BY <1>0, <1>2, <2>3, RecoveredIsReleased DEF SourceFits
  <2> HIDE DEF c
  <2>5. /\ p \in Pages /\ p.number = r.liveNumber /\ p.look = c.look /\ Shown(p, r.forms)
        /\ p.premium => visitor.access.premium
    BY <2>2, <2>3, <2>4, ProjectedPage
  <2>6. s \in {"keep", "compare", "matched"}  BY <1>0 DEF Visitors
  <2> HIDE DEF p, s
  <2>7. /\ v \in Visitors /\ v.step = s /\ v.access = visitor.access /\ v.since = visitor.since /\ v.forms = visitor.forms
        /\ v.premium = visitor.premium /\ v.generation = visitor.generation /\ v.page = p
    BY <1>0, <2>5, <2>6 DEF Visitors, Waiting, WithAccess, WithPage
  <2> HIDE DEF v
  <2>8. PromiseFits(v) /\ AccessFits(v)  BY <1>0, <2>7 DEF PromiseFits, AccessFits
  <2>9. PageFits(v)
    BY <1>0, <2>4, <2>5, <2>7 DEF PageFits, PageIsReleased, Shown, SourceFits, AccessFits
  <2>10. KeepFits(v)  BY <1>0, <2>5, <2>7 DEF KeepFits, Shown, SourceFits
  <2>11. RequestFits(v)  BY <1>0, <2>6, <2>7, <2>8, <2>9, <2>10 DEF RequestFits
  <2> QED BY <2>1, <2>7, <2>11, GoesKeeps
<1> QED BY <1>1, <1>2

\* The page is kept under the answer that opened the request, or loaded again.
LEMMA SetKeeps == SiteInv /\ SetForGeneration_ => SiteInv'
<1> SUFFICES ASSUME SiteInv, SetForGeneration_ PROVE SiteInv'
  OBVIOUS
<1>0. /\ SiteTypeOK /\ visitor.step = "keep" /\ visitor \in Visitors
      /\ RequestFits(visitor) /\ PromiseFits(visitor) /\ AccessFits(visitor) /\ PageFits(visitor) /\ KeepFits(visitor)
  BY DEF SiteInv, SiteTypeOK, SetForGeneration_, At_, RequestFits, Waiting, WithAccess, WithPage
<1> DEFINE w == [visitor EXCEPT !.step = "compare"]
           c == [page |-> visitor.page, access |-> visitor.access]
           again == 2
           l == [visitor EXCEPT !.generation = kept.generation, !.round = again, !.step = "load"]
<1>a. again \in 0 .. 3 /\ kept.generation \in Nat  BY <1>0 DEF SiteTypeOK
<1> HIDE DEF again
<1>1. /\ w \in Visitors /\ w.step = "compare" /\ w.access = visitor.access /\ w.since = visitor.since /\ w.forms = visitor.forms
      /\ w.premium = visitor.premium /\ w.generation = visitor.generation /\ w.page = visitor.page
  BY <1>0 DEF Visitors, Waiting, WithAccess
<1>2. /\ l \in Visitors /\ l.step = "load" /\ l.access = visitor.access /\ l.since = visitor.since /\ l.forms = visitor.forms
      /\ l.premium = visitor.premium /\ l.generation = kept.generation
  BY <1>0, <1>a DEF Visitors, Waiting, WithAccess
<1>3. c \in Copies /\ c.page = visitor.page /\ c.access = visitor.access
  BY <1>0 DEF Visitors, Copies, PageFits
<1>4. CASE Goes_(w)
  <2> HIDE DEF w
  <2>1. PromiseFits(w) /\ AccessFits(w) /\ PageFits(w)
    BY <1>0, <1>1 DEF PromiseFits, AccessFits, PageFits
  <2>2. RequestFits(w)  BY <1>0, <1>1, <2>1 DEF RequestFits
  <2> QED BY <1>1, <1>4, <2>2, GoesKeeps
<1>5. CASE Goes_(l)
  <2> HIDE DEF l
  <2>1. PromiseFits(l) /\ AccessFits(l)  BY <1>0, <1>2 DEF PromiseFits, AccessFits
  <2>2. RequestFits(l)  BY <1>0, <1>2, <2>1 DEF RequestFits, WithPage, SiteTypeOK
  <2> QED BY <1>2, <1>5, <2>2, GoesKeeps
<1>6. CASE /\ visitor.access.epoch # Nil /\ IsCurrentGeneration(visitor.access)
           /\ kept.generation = visitor.generation
           /\ kept' = [kept EXCEPT !.copy = c] /\ visitor' = w
           /\ UNCHANGED <<owned, unsaid, script, spent, visits>>
  <2> HIDE DEF c, w
  <2>1. kept' \in [epoch : Nat, generation : Nat, copy : Copies \cup {Nil}]
        /\ kept'.epoch = kept.epoch /\ kept'.generation = kept.generation /\ kept'.copy = c
    BY <1>0, <1>3, <1>6 DEF SiteTypeOK
  <2>2. SiteTypeOK'  BY <1>0, <1>1, <1>6, <2>1 DEF SiteTypeOK, owned, WithPage
  <2>3. RowIsReleased'  BY <1>6 DEF SiteInv, RowIsReleased, owned, Released
  <2>4. PageIsReleased(c.page) /\ Shown(c.page, visitor.forms) /\ (c.page.premium => visitor.premium)
    BY <1>0, <1>3 DEF PageFits
  <2>5. "form" \notin unsaid => Shown(c.page, OnShelf("published"))  BY <1>0, <1>3, <1>6 DEF KeepFits
  <2>6. "rights" \notin unsaid /\ c.page.premium => rights.premium
    BY <1>0, <1>3, <1>6 DEF KeepFits, AccessFits, IsCurrentGeneration
  <2>7. CopyFits'
    BY <1>0, <1>3, <1>6, <2>1, <2>4, <2>5, <2>6
       DEF CopyFits, owned, PageIsReleased, Released, Shown, OnShelf, SiteTypeOK, IsCurrentGeneration
  <2>8. PromiseFits(visitor)'  BY <1>0, <1>1, <1>6, <2>1, <2>4 DEF PromiseFits, owned, Shown, OnShelf
  <2>9. AccessFits(visitor)' /\ PageFits(visitor)'
    BY <1>0, <1>1, <1>6, <2>1 DEF AccessFits, PageFits, owned, PageIsReleased, Released, Shown
  <2>10. RequestFits(visitor)'  BY <1>0, <1>1, <1>6, <2>1, <2>8, <2>9 DEF RequestFits, owned
  <2> QED BY <2>2, <2>3, <2>7, <2>10 DEF SiteInv
<1> QED BY <1>4, <1>5, <1>6, Zenon DEF SetForGeneration_, again

\* The page is compared with the answer about the access, after a second
\* reading if it has to be.
LEMMA CompareKeeps == SiteInv /\ (ComparePage \/ CompareAgain) => SiteInv'
<1> SUFFICES ASSUME SiteInv, ComparePage \/ CompareAgain PROVE SiteInv'
  OBVIOUS
<1>0. /\ SiteTypeOK /\ visitor.step \in {"compare", "matched"} /\ visitor \in Visitors
      /\ RequestFits(visitor) /\ PromiseFits(visitor) /\ AccessFits(visitor) /\ PageFits(visitor)
  BY DEF SiteInv, SiteTypeOK, ComparePage, CompareAgain, At_, RequestFits, Waiting, WithAccess, WithPage
<1> DEFINE w == [visitor EXCEPT !.step = "check"]
           again == 3
           l == [visitor EXCEPT !.round = again, !.step = "load"]
<1>a. again \in 0 .. 3  OBVIOUS
<1> HIDE DEF again
<1>1. /\ w \in Visitors /\ w.step = "check" /\ w.access = visitor.access /\ w.since = visitor.since /\ w.forms = visitor.forms
      /\ w.premium = visitor.premium /\ w.generation = visitor.generation /\ w.page = visitor.page
  BY <1>0 DEF Visitors, Waiting, WithAccess
<1>2. /\ l \in Visitors /\ l.step = "load" /\ l.access = visitor.access /\ l.since = visitor.since /\ l.forms = visitor.forms
      /\ l.premium = visitor.premium /\ l.generation = visitor.generation
  BY <1>0, <1>a DEF Visitors, Waiting, WithAccess
<1>3. CASE Goes_(w) /\ Matches(visitor.page)
  <2> HIDE DEF w
  <2>1. PromiseFits(w) /\ AccessFits(w) /\ PageFits(w)
    BY <1>0, <1>1 DEF PromiseFits, AccessFits, PageFits
  <2>2. RequestFits(w)  BY <1>0, <1>1, <1>3, <2>1 DEF RequestFits, Matches
  <2> QED BY <1>1, <1>3, <2>2, GoesKeeps
<1>4. CASE Goes_(l)
  <2> HIDE DEF l
  <2>1. PromiseFits(l) /\ AccessFits(l)  BY <1>0, <1>2 DEF PromiseFits, AccessFits
  <2>2. RequestFits(l)  BY <1>0, <1>2, <2>1 DEF RequestFits, WithPage
  <2> QED BY <1>2, <1>4, <2>2, GoesKeeps
<1> QED BY <1>3, <1>4, RefusalKeeps, Zenon DEF ComparePage, CompareAgain, again

\* What is given has the number of the answer, and the last look found the
\* tenant open.
LEMMA GiveKeeps == SiteInv /\ Give => SiteInv'
<1> SUFFICES ASSUME SiteInv, Give PROVE SiteInv'
  OBVIOUS
<1>0. /\ SiteTypeOK /\ visitor.step = "check" /\ visitor \in Visitors
      /\ RequestFits(visitor) /\ AccessFits(visitor) /\ PageFits(visitor) /\ visitor.page.number = visitor.access.number
  BY DEF SiteInv, SiteTypeOK, Give, At_, RequestFits, Waiting, WithAccess, WithPage
<1> DEFINE overtaken == Outlived(visitor.access) \/ ~IsCurrentGeneration(visitor.access)
           open == Allowed \/ "rights" \in unsaid
           zero == 0
           v == [visitor EXCEPT !.step = "given", !.access = NoAccess, !.generation = zero, !.round = zero, !.open = open]
<1>a. zero = 0 /\ zero \in Nat /\ zero \in 0 .. 3  OBVIOUS
<1> HIDE DEF zero
<1>1. CASE Goes_(Refused_)  BY <1>1, RefusalKeeps
<1>2. CASE Goes_(v) /\ (overtaken => Allowed)
  <2>1. open
    <3>1. CASE overtaken  BY <1>2, <3>1
    <3>2. CASE ~overtaken  BY <1>0, <3>2 DEF AccessFits, Outlived, IsCurrentGeneration, Allowed
    <3> QED BY <3>1, <3>2
  <2> HIDE DEF overtaken, open
  <2>2. NoAccess \in Accesses  BY DEF NoAccess, Accesses
  <2>a. open \in BOOLEAN  BY DEF open, Allowed, SiteTypeOK
  <2>3. /\ v \in Visitors /\ v.step = "given" /\ v.access = NoAccess /\ v.since = visitor.since /\ v.forms = visitor.forms
        /\ v.premium = visitor.premium /\ v.generation = zero /\ v.page = visitor.page /\ v.open = open
    BY <1>0, <1>a, <2>2, <2>a DEF Visitors, WithPage
  <2> HIDE DEF v
  <2>4. PageFits(v)  BY <1>0, <2>3 DEF PageFits
  <2>5. RequestFits(v)
    BY <1>0, <1>a, <2>1, <2>3, <2>4 DEF RequestFits, AccessFits, SiteTypeOK, Waiting, WithAccess, NoAccess
  <2> QED BY <1>2, <2>3, <2>5, GoesKeeps
<1>3. PICK e \in Epochs :
        Goes_(IF overtaken /\ (~Allowed \/ (visitor.access.epoch # Nil /\ e # visitor.access.epoch)) THEN Refused_ ELSE v)
  BY DEF Give, zero
<1> QED BY <1>1, <1>2, <1>3, Zenon

------------------------
(* Announcements and changes *)

LEMMA AnnounceKeeps ==
  ASSUME SiteInv, NEW what \in {"rights", "release", "form"}, Announce(what)
  PROVE  SiteInv'
<1>1. SiteTypeOK /\ SiteTypeOK'  BY AnnounceKeepsTypes DEF SiteInv
<1> DEFINE e == IF what = "form" THEN kept.epoch ELSE kept.epoch + 1
           g == IF what = "rights" THEN kept.generation ELSE kept.generation + 1
           c == IF what = "rights" THEN kept.copy ELSE Nil
<1>2. kept' = [epoch |-> e, generation |-> g, copy |-> c]  BY DEF Announce
<1>3. /\ kept.epoch \in Nat /\ kept.generation \in Nat /\ kept.epoch <= e /\ kept.generation <= g
      /\ what # "form" => kept.epoch < e
      /\ what = "form" => e = kept.epoch
      /\ what # "rights" => kept.generation < g
      /\ what = "rights" => g = kept.generation
      /\ c = Nil \/ c = kept.copy
      /\ what # "rights" => c = Nil
  BY <1>1 DEF SiteTypeOK
<1>3a. e \in Nat /\ g \in Nat  BY <1>1 DEF SiteTypeOK
<1> HIDE DEF e, g, c
<1>4. /\ kept'.epoch = e /\ kept'.generation = g /\ kept'.copy = c  BY <1>2
<1>5. /\ what = "rights" => "form" \in unsaid' \/ "form" \notin unsaid
      /\ what = "form" => "rights" \in unsaid' \/ "rights" \notin unsaid
      /\ UNCHANGED <<owned, visitor, script, visits>>
  BY DEF Announce
<1>6. RowIsReleased'  BY <1>5 DEF SiteInv, RowIsReleased, owned, Released
<1>7. CopyFits'
  BY <1>1, <1>3, <1>3a, <1>4, <1>5 DEF SiteInv, CopyFits, SiteTypeOK, Copies, Accesses, owned, PageIsReleased, Released, Shown, OnShelf
<1>p. PICK v \in Visitors : v = visitor  BY <1>1 DEF SiteTypeOK
<1>v. RequestFits(v) /\ visitor' = v  BY <1>5, <1>p DEF SiteInv
<1>8. v.step \in Waiting => PromiseFits(v)'
  BY <1>1, <1>3, <1>3a, <1>4, <1>5, <1>v DEF RequestFits, PromiseFits, SiteInv, CopyFits, SiteTypeOK, owned, Shown, OnShelf
<1>9. v.step \in WithAccess => AccessFits(v)'
  BY <1>1, <1>3, <1>3a, <1>4, <1>5, <1>v DEF RequestFits, AccessFits, Visitors, Accesses, owned
<1>10. v.step = "rights" => SourceFits(v)'
  BY <1>1, <1>3, <1>3a, <1>4, <1>5, <1>v DEF RequestFits, SourceFits, Visitors, owned, Released, OnShelf
<1>11. v.step \in WithPage => PageFits(v)'
  BY <1>5, <1>v DEF RequestFits, PageFits, owned, PageIsReleased, Released, Shown
<1>12. v.step = "keep" => KeepFits(v)'
  BY <1>1, <1>3, <1>3a, <1>4, <1>5, <1>v DEF RequestFits, KeepFits, Visitors, owned, Shown, OnShelf
<1>13. v.generation <= kept'.generation /\ (v.access.epoch # Nil => v.access.epoch <= kept'.epoch)
  BY <1>1, <1>3, <1>3a, <1>4, <1>v DEF RequestFits, Visitors, Accesses
<1>14. RequestFits(visitor)'
  BY <1>5, <1>8, <1>9, <1>10, <1>11, <1>12, <1>13, <1>v DEF RequestFits, owned
<1> QED BY <1>1, <1>6, <1>7, <1>14 DEF SiteInv

\* A step that changes the tenant's data and promises the waiting request what
\* has become true.
LEMMA ChangeKeeps ==
  ASSUME SiteInv, SiteTypeOK', NEW v \in Visitors, NEW fs, NEW pr \in BOOLEAN,
         v = visitor, visitor' = [visitor EXCEPT !.forms = fs, !.premium = pr], UNCHANGED kept,
         RowIsReleased', page.liveNumber <= page'.liveNumber,
         \A n \in DOMAIN releases : n \in DOMAIN releases' /\ releases'[n].look = releases[n].look,
         page.status = "PUBLISHED" => page'.status = "PUBLISHED",
         unsaid \subseteq unsaid',
         "form" \notin unsaid' => OnShelf("published") \subseteq OnShelf("published")',
         "rights" \notin unsaid' => (rights.open => rights'.open) /\ (rights.premium => rights'.premium),
         v.forms \subseteq fs, v.premium => pr,
         v.step \in Waiting => OnShelf("published")' \subseteq fs /\ (rights'.premium => pr)
  PROVE  SiteInv'
<1>0. SiteTypeOK /\ RequestFits(v) /\ CopyFits  BY DEF SiteInv
<1>1. PICK w \in Visitors : w = visitor'  BY DEF SiteTypeOK
<1>2. /\ w.step = v.step /\ w.access = v.access /\ w.source = v.source /\ w.page = v.page /\ w.generation = v.generation
      /\ w.since = v.since /\ w.open = v.open /\ w.forms = fs /\ w.premium = pr
  BY <1>1 DEF Visitors
<1>3. \A n, look : Released(n, look) => Released(n, look)'  BY DEF Released
<1>4. CopyFits'  BY <1>0, <1>3 DEF CopyFits, PageIsReleased, Shown
<1>5. page.liveNumber \in Nat /\ page'.liveNumber \in Nat  BY <1>0 DEF SiteTypeOK, Rows
<1>6. w.step \in Waiting => PromiseFits(w)'  BY <1>0, <1>2 DEF RequestFits, PromiseFits, Shown
<1>7. w.step \in WithAccess => AccessFits(w)'  BY <1>0, <1>2 DEF RequestFits, AccessFits
<1>8. w.step = "rights" => SourceFits(w)'  BY <1>0, <1>2, <1>3 DEF RequestFits, SourceFits
<1>9. w.step \in WithPage => PageFits(w)'
  BY <1>0, <1>2, <1>3 DEF RequestFits, PageFits, PageIsReleased, Shown
<1>10. w.step = "keep" => KeepFits(w)'  BY <1>0, <1>2 DEF RequestFits, KeepFits, Shown
<1>11. v.since <= page'.liveNumber  BY <1>0, <1>5 DEF RequestFits, Visitors
<1>12. RequestFits(w)'  BY <1>0, <1>2, <1>6, <1>7, <1>8, <1>9, <1>10, <1>11 DEF RequestFits
<1>13. RequestFits(visitor)'
  BY <1>1, <1>12 DEF RequestFits, PromiseFits, AccessFits, SourceFits, PageFits, KeepFits
<1> QED BY <1>4, <1>13 DEF SiteInv

\* The same for the owner, the office and the clock.
LEMMA AnnouncedLater ==
  ASSUME SiteInv, SiteTypeOK', NEW what \in SUBSET {"rights", "release", "form"}, Changed(what),
         RowIsReleased', page.liveNumber <= page'.liveNumber,
         \A n \in DOMAIN releases : n \in DOMAIN releases' /\ releases'[n].look = releases[n].look,
         page.status = "PUBLISHED" => page'.status = "PUBLISHED",
         "form" \in what \/ shelf' = shelf,
         "rights" \in what \/ (rights'.open = rights.open /\ rights'.premium = rights.premium)
  PROVE  SiteInv'
<1> DEFINE fs == visitor.forms \cup {f \in BookForms : shelf'[f] = "published"}
           pr == visitor.premium \/ rights'.premium
<1>0. SiteTypeOK  BY DEF SiteInv
<1>1. visitor' = [visitor EXCEPT !.forms = fs, !.premium = pr] /\ kept' = kept  BY DEF Changed
<1>2. PICK v \in Visitors : v = visitor  BY <1>0 DEF SiteTypeOK
<1>3. pr \in BOOLEAN /\ (v.premium => pr) /\ (rights'.premium => pr)
  BY <1>0, <1>2 DEF Visitors, SiteTypeOK
<1>4. v.forms \subseteq fs /\ OnShelf("published")' \subseteq fs  BY <1>2 DEF OnShelf
<1>5. unsaid \subseteq unsaid' /\ what \subseteq unsaid'  BY DEF Changed
<1>6. "form" \notin unsaid' => OnShelf("published") \subseteq OnShelf("published")'  BY <1>5 DEF OnShelf
<1>7. "rights" \notin unsaid' => (rights.open => rights'.open) /\ (rights.premium => rights'.premium)
  BY <1>5
<1> HIDE DEF fs, pr
<1> QED BY <1>1, <1>2, <1>3, <1>4, <1>5, <1>6, <1>7, ChangeKeeps

LEMMA OwnerKeeps ==
  ASSUME SiteInv, SaveDraft \/ Publish, ScriptRunsApart
  PROVE  SiteInv'
<1>0. SiteTypeOK /\ SiteTypeOK' /\ page \in Rows /\ RowIsReleased
  BY OwnerKeepsTypes DEF SiteInv, SiteTypeOK
<1>1. CASE SaveDraft
  <2>1. PICK d : page' = [page EXCEPT !.draft = d, !.number = @ + 1]  BY <1>1 DEF SaveDraft
  <2>2. page'.number = page.number + 1 /\ page'.live = page.live /\ page'.liveNumber = page.liveNumber /\ page'.status = page.status
    BY <1>0, <2>1 DEF Rows
  <2>3. Changed({}) /\ UNCHANGED <<releases, shelf, rights, script, visits>>
    BY <1>1 DEF SaveDraft, Changed
  <2>4. page.number \in Nat /\ page.liveNumber \in Nat /\ \A n \in DOMAIN releases : n \in Nat
    BY <1>0 DEF Rows, SiteTypeOK
  <2>5. RowIsReleased'  BY <1>0, <2>2, <2>3, <2>4 DEF RowIsReleased, Released
  <2>6. {} \in SUBSET {"rights", "release", "form"}  OBVIOUS
  <2> QED BY <1>0, <2>2, <2>3, <2>4, <2>5, <2>6, AnnouncedLater
<1>2. CASE Publish
  <2> DEFINE l == CurrentDraftAsPublishedSnapshot
             n == page.number + 1
             rs == [k \in DOMAIN releases \cup {n} |-> IF k = n THEN page.draft ELSE releases[k]]
  <2>1. page.draft \in Contents /\ page.number \in Nat /\ n \in Nat /\ page.number < n /\ page.liveNumber \in Nat
    BY <1>0 DEF Rows
  <2>2. page' = [page EXCEPT !.status = "PUBLISHED", !.number = n, !.live = l, !.liveNumber = n] /\ releases' = rs
    BY <1>2 DEF Publish
  <2>3. l # Nil => l.look = page.draft.look
    BY <2>1, ParsedContent, ParsedNothing DEF CurrentDraftAsPublishedSnapshot
  <2>4. \A k \in DOMAIN releases : k \in Nat /\ k <= page.number  BY <1>0 DEF SiteTypeOK, RowIsReleased
  <2>5. /\ DOMAIN rs = DOMAIN releases \cup {n} /\ rs[n] = page.draft
        /\ \A k \in DOMAIN releases : rs[k] = releases[k]
    BY <2>1, <2>4
  <2> HIDE DEF l, rs
  <2>6. page'.number = n /\ page'.live = l /\ page'.liveNumber = n /\ page'.status = "PUBLISHED"
    BY <1>0, <2>2 DEF Rows
  <2>7. script' = script /\ visits' = visits /\ "publish" \in visits
    BY <1>2 DEF Publish, Changed, MayChange
  <2>8. script.step = "idle"  BY <1>0, <2>7 DEF SiteTypeOK, RowIsReleased, ScriptRunsApart
  <2>9. l # Nil => n \in DOMAIN rs /\ l.look = rs[n].look  BY <2>3, <2>5
  <2> HIDE DEF n
  <2>10. \A k \in DOMAIN rs : k <= n  BY <2>1, <2>4, <2>5
  <2>11. RowIsReleased'  BY <2>1, <2>2, <2>6, <2>7, <2>8, <2>9, <2>10 DEF RowIsReleased, Released
  <2>12. page.liveNumber <= n  BY <1>0, <2>1 DEF RowIsReleased
  <2>13. Changed({"release"}) /\ shelf' = shelf /\ rights' = rights /\ {"release"} \in SUBSET {"rights", "release", "form"}
    BY <1>2 DEF Publish
  <2>14. \A k \in DOMAIN releases : k \in DOMAIN releases' /\ releases'[k].look = releases[k].look
    BY <2>2, <2>5
  <2> QED BY <1>0, <2>6, <2>11, <2>12, <2>13, <2>14, AnnouncedLater
<1> QED BY <1>1, <1>2

LEMMA FormKeeps ==
  ASSUME SiteInv, NEW f \in BookForms, NEW s \in {"absent", "hidden", "published"}, PutForm(f, s)
  PROVE  SiteInv'
<1>0. SiteTypeOK /\ SiteTypeOK' /\ page \in Rows /\ RowIsReleased
  BY FormKeepsTypes DEF SiteInv, SiteTypeOK
<1>1. page'.number = page.number /\ page'.live = page.live /\ page'.liveNumber = page.liveNumber /\ page'.status = page.status
  BY <1>0 DEF PutForm, Rows
<1>2. Changed({"form"}) /\ UNCHANGED <<releases, rights, script, visits>> /\ {"form"} \in SUBSET {"rights", "release", "form"}
  BY DEF PutForm, Changed
<1>3. RowIsReleased'  BY <1>0, <1>1, <1>2 DEF RowIsReleased, Released
<1>4. page.liveNumber <= page'.liveNumber  BY <1>0, <1>1 DEF Rows
<1> QED BY <1>0, <1>1, <1>2, <1>3, <1>4, AnnouncedLater

LEMMA OfficeKeeps ==
  ASSUME SiteInv, CloseOrReopen \/ Lapse
  PROVE  SiteInv'
<1>0. SiteTypeOK /\ SiteTypeOK' /\ page \in Rows /\ RowIsReleased
  BY OfficeKeepsTypes DEF SiteInv, SiteTypeOK
<1>1. page.liveNumber <= page'.liveNumber /\ UNCHANGED <<page, releases, shelf, script, visits>>
  BY <1>0 DEF CloseOrReopen, Lapse, Changed, Rows
<1>2. RowIsReleased'  BY <1>0, <1>1 DEF RowIsReleased, Released
<1>3. CASE CloseOrReopen
  <2>1. Changed({"rights"}) /\ {"rights"} \in SUBSET {"rights", "release", "form"}
    BY <1>3 DEF CloseOrReopen
  <2> QED BY <1>0, <1>1, <1>2, <2>1, AnnouncedLater
<1>4. CASE Lapse
  <2>1. Changed({}) /\ {} \in SUBSET {"rights", "release", "form"}  BY <1>4 DEF Lapse
  <2>2. rights'.open = rights.open /\ rights'.premium = rights.premium
    BY <1>0, <1>4 DEF Lapse, SiteTypeOK
  <2> QED BY <1>0, <1>1, <1>2, <2>1, <2>2, AnnouncedLater
<1> QED BY <1>3, <1>4

------------------------
(* The script *)

LEMMA LiveIsReleased ==
  ASSUME SiteInv
  PROVE  Live \in Contents \cup {Nil} /\ (Live # Nil => Released(page.liveNumber, Live.look))
<1>1. page.live \in Contents \cup {Nil}  BY DEF SiteInv, SiteTypeOK, Rows
<1>2. Live # Nil => page.live # Nil /\ Live.look = page.live.look
  BY <1>1, ParsedContent, ParsedNothing DEF Live
<1> QED BY <1>1, <1>2, ParsedType DEF Live, SiteInv, RowIsReleased

\* What the script has read is still live when it writes: nobody publishes in
\* the behaviours it runs in.
LEMMA ScriptReads ==
  ASSUME SiteInv, ChooseWebsite \/ ReadWebsite
  PROVE  SiteInv'
<1>0. SiteTypeOK /\ page \in Rows /\ RowIsReleased /\ script \in Scripts /\ visitor \in Visitors /\ RequestFits(visitor)
  BY DEF SiteInv, SiteTypeOK
<1>1. UNCHANGED <<owned, kept, unsaid, visitor, spent, visits>>  BY DEF ChooseWebsite, ReadWebsite
<1>2. /\ script' \in Scripts /\ "reconcile" \in visits
      /\ script'.step = "write" /\ script'.live # Nil => Released(page.liveNumber, script'.live.look)
  <2>1. CASE ChooseWebsite
    <3>1. script' = [script EXCEPT !.step = "read"]  BY <2>1 DEF ChooseWebsite
    <3> QED BY <1>0, <2>1, <3>1 DEF ChooseWebsite, Scripts
  <2>2. CASE ReadWebsite
    <3>1. script' = [step |-> "write", live |-> Live, status |-> page.status, form |-> page.draft.form]
      BY <2>2 DEF ReadWebsite
    <3>2. page.status \in Statuses /\ page.draft.form \in BookForms \cup {Nil}
      BY <1>0 DEF Rows, Contents
    <3>3. script.step # "idle"  BY <2>2 DEF ReadWebsite
    <3> QED BY <1>0, <3>1, <3>2, <3>3, LiveIsReleased DEF Scripts, RowIsReleased
  <2> QED BY <2>1, <2>2
<1>3. SiteTypeOK'  BY <1>0, <1>1, <1>2 DEF SiteTypeOK, owned
<1>4. RowIsReleased'  BY <1>0, <1>1, <1>2 DEF RowIsReleased, owned, Released
<1>5. CopyFits'  BY <1>1 DEF SiteInv, CopyFits, owned, Released, PageIsReleased, Shown, OnShelf
<1>6. RequestFits(visitor)'
  BY <1>0, <1>1 DEF RequestFits, PromiseFits, AccessFits, SourceFits, PageFits, KeepFits, owned, Released, PageIsReleased, Shown, OnShelf
<1> QED BY <1>3, <1>4, <1>5, <1>6 DEF SiteInv

LEMMA WiredContent ==
  ASSUME NEW c \in Contents, NEW f \in BookForms
  PROVE  Wired(c, f) \in Contents /\ Wired(c, f).look = c.look
  BY DEF Wired, Contents

LEMMA TargetIsAForm == SiteTypeOK => Target \subseteq BookForms
  BY PublicSiteAssumption DEF Target, OnShelf, SiteTypeOK

LEMMA ScriptWrites ==
  ASSUME SiteInv, ReconcileDefaultBooking
  PROVE  SiteInv'
<1>0. SiteTypeOK /\ page \in Rows /\ RowIsReleased /\ script \in Scripts /\ visitor \in Visitors /\ RequestFits(visitor)
      /\ script.step = "write" /\ "reconcile" \in visits
  BY DEF SiteInv, SiteTypeOK, ReconcileDefaultBooking, RowIsReleased
<1>1. script' = [script EXCEPT !.step = "done"] /\ UNCHANGED <<kept, spent, visits>>
  BY DEF ReconcileDefaultBooking
<1>2. script' \in Scripts /\ script'.step = "done"  BY <1>0, <1>1 DEF Scripts
<1>3. CASE UNCHANGED <<owned, unsaid, visitor>>
  <2>1. SiteTypeOK'  BY <1>0, <1>1, <1>2, <1>3 DEF SiteTypeOK, owned
  <2>2. RowIsReleased'  BY <1>0, <1>1, <1>2, <1>3 DEF RowIsReleased, owned, Released
  <2>3. CopyFits'
    BY <1>1, <1>3 DEF SiteInv, CopyFits, owned, Released, PageIsReleased, Shown, OnShelf
  <2>4. RequestFits(visitor)'
    BY <1>0, <1>1, <1>3 DEF RequestFits, PromiseFits, AccessFits, SourceFits, PageFits, KeepFits, owned, Released, PageIsReleased, Shown, OnShelf
  <2> QED BY <2>1, <2>2, <2>3, <2>4 DEF SiteInv
<1>4. ASSUME NEW f \in Target, NEW bookable \in BOOLEAN,
             shelf' = [shelf EXCEPT ![f] = "published"],
             page' = [page EXCEPT !.draft = Wired(@, f), !.number = @ + 1,
                                  !.live = IF script.status = "PUBLISHED" /\ bookable /\ script.live # Nil THEN Wired(script.live, f) ELSE @],
             unsaid' = unsaid \cup {"form"},
             visitor' = [visitor EXCEPT !.forms = @ \cup {f}],
             UNCHANGED <<releases, rights>>
      PROVE  SiteInv'
  <2> DEFINE d == Wired(page.draft, f)
             l == IF script.status = "PUBLISHED" /\ bookable /\ script.live # Nil THEN Wired(script.live, f) ELSE page.live
             n == page.number + 1
             fs == visitor.forms \cup {f}
  <2>0. f \in BookForms  BY <1>0, TargetIsAForm
  <2>1. d \in Contents /\ n \in Nat /\ page.number \in Nat /\ page.liveNumber \in Nat /\ page.number < n
    BY <1>0, <2>0, WiredContent DEF Rows
  <2>2. l \in Contents \cup {Nil} /\ (l # Nil => Released(page.liveNumber, l.look))
    <3>1. CASE script.status = "PUBLISHED" /\ bookable /\ script.live # Nil
      <4>1. script.live \in Contents  BY <1>0, <3>1 DEF Scripts
      <4> QED BY <1>0, <2>0, <3>1, <4>1, WiredContent DEF RowIsReleased
    <3>2. CASE ~(script.status = "PUBLISHED" /\ bookable /\ script.live # Nil)
      BY <1>0, <3>2 DEF Rows, RowIsReleased
    <3> QED BY <3>1, <3>2
  <2>3. page' = [page EXCEPT !.draft = d, !.number = n, !.live = l]  BY <1>4
  <2>4. fs \in SUBSET BookForms /\ visitor.forms \subseteq fs  BY <1>0, <2>0 DEF Visitors
  <2>5. visitor' = [visitor EXCEPT !.forms = fs]  BY <1>4
  <2>a. visitor' = [visitor EXCEPT !.forms = fs, !.premium = visitor.premium]
    BY <1>0, <2>5 DEF Visitors
  <2> HIDE DEF d, l, n, fs
  <2>6. page' \in Rows /\ page'.number = n /\ page'.live = l /\ page'.liveNumber = page.liveNumber /\ page'.status = page.status
    BY <1>0, <2>1, <2>2, <2>3 DEF Rows
  <2>7. visitor' \in Visitors  BY <1>0, <2>4, <2>5 DEF Visitors
  <2>8. shelf' \in [BookForms -> {"absent", "hidden", "published"}] /\ unsaid' \subseteq {"rights", "release", "form"}
    BY <1>0, <1>4 DEF SiteTypeOK
  <2>9. SiteTypeOK'  BY <1>0, <1>1, <1>2, <1>4, <2>6, <2>7, <2>8 DEF SiteTypeOK
  <2>10. RowIsReleased'
    BY <1>0, <1>1, <1>2, <1>4, <2>1, <2>2, <2>6 DEF RowIsReleased, Released, SiteTypeOK
  <2>11. PICK v \in Visitors : v = visitor  BY <1>0
  <2>12. OnShelf("published")' \subseteq OnShelf("published") \cup {f}
    BY <1>0, <1>4 DEF OnShelf, SiteTypeOK
  <2>13. visitor.step \in Waiting => OnShelf("published")' \subseteq fs /\ (rights'.premium => visitor.premium)
    BY <1>0, <1>4, <2>12 DEF fs, RequestFits, PromiseFits
  <2>14. page.liveNumber <= page'.liveNumber /\ unsaid \subseteq unsaid' /\ "form" \in unsaid' /\ visitor.premium \in BOOLEAN
    BY <1>0, <1>4, <2>1, <2>6 DEF Visitors
  <2>15. \A k \in DOMAIN releases : k \in DOMAIN releases' /\ releases'[k].look = releases[k].look
    BY <1>4
  <2>16. UNCHANGED <<kept, rights>>  BY <1>1, <1>4
  <2> QED BY <2>a, <2>4, <2>6, <2>9, <2>10, <2>11, <2>13, <2>14, <2>15, <2>16, ChangeKeeps
<1> QED BY <1>3, <1>4, Zenon DEF ReconcileDefaultBooking

------------------------
(* The invariant and the theorems *)

LEMMA InitialInvariant == InitSite(SiteMixes) => SiteInv
<1> SUFFICES ASSUME InitSite(SiteMixes) PROVE SiteInv
  OBVIOUS
<1>1. SiteTypeOK /\ visitor = Idle_ /\ kept = [epoch |-> 0, generation |-> 0, copy |-> Nil] /\ script = NoScript
  BY InitialTypes DEF InitSite
<1>2. RowIsReleased
  <2>1. CASE "new" \in visits
    <3>1. ProvisionDefaultDraft  BY <2>1 DEF InitSite
    <3> QED BY <1>1, <3>1 DEF ProvisionDefaultDraft, RowIsReleased, NoScript
  <2>2. CASE "new" \notin visits
    <3>1. EstablishedSite  BY <2>2 DEF InitSite
    <3>2. PICK c \in Contents, c0 \in Contents :
         /\ c.look = c0.look
         /\ \E l \in {c, c0, Nil} : page = [status |-> "PUBLISHED", draft |-> c, number |-> 1, live |-> l, liveNumber |-> 1]
         /\ releases = [n \in {1} |-> c] \/ releases = [n \in {1} |-> c0] \/ releases = [n \in {} |-> c]
         /\ page.live # Nil => 1 \in DOMAIN releases
      BY <3>1, EstablishedShape
    <3>3. page.number = 1 /\ page.liveNumber = 1 /\ page.live \in {c, c0, Nil}  BY <3>2
    <3>4. DOMAIN releases \subseteq {1} /\ \A n \in DOMAIN releases : releases[n].look = c.look
      <4>1. CASE releases = [n \in {1} |-> c]  BY <4>1
      <4>2. CASE releases = [n \in {1} |-> c0]  BY <3>2, <4>2
      <4>3. CASE releases = [n \in {} |-> c]  BY <4>3
      <4> QED BY <3>2, <4>1, <4>2, <4>3
    <3> QED BY <1>1, <3>2, <3>3, <3>4 DEF RowIsReleased, Released, NoScript
  <2> QED BY <2>1, <2>2
<1>3. CopyFits  BY <1>1 DEF CopyFits
<1>4. RequestFits(visitor)
  <2>1. page.liveNumber \in Nat  BY <1>1 DEF SiteTypeOK, Rows
  <2> QED BY <1>1, <2>1 DEF RequestFits, Idle_, NoAccess, Waiting, WithAccess, WithPage
<1> QED BY <1>1, <1>2, <1>3, <1>4 DEF SiteInv

LEMMA StepKeeps ==
  ASSUME ScriptRunsApart, SiteInv, [SiteNext]_siteVars
  PROVE  SiteInv'
<1>1. CASE SaveDraft \/ Publish  BY <1>1, OwnerKeeps
<1>2. CASE CloseOrReopen \/ Lapse  BY <1>2, OfficeKeeps
<1>3. ASSUME NEW f \in BookForms, ToggleForm(f) \/ DeleteForm(f) PROVE SiteInv'
  <2>1. CASE ToggleForm(f)  BY <2>1, FormKeeps DEF ToggleForm
  <2>2. CASE DeleteForm(f)  BY <2>2, FormKeeps DEF DeleteForm
  <2> QED BY <1>3, <2>1, <2>2
<1>4. ASSUME NEW what \in {"rights", "release", "form"}, Announce(what) PROVE SiteInv'
  BY <1>4, AnnounceKeeps
<1>5. CASE Ask_ \/ ResolveAccess \/ TakeCopy \/ LoadSource
  BY <1>5, AskKeeps, ResolveKeeps, TakeCopyKeeps, LoadKeeps
<1>6. CASE ProjectSource \/ SetForGeneration_ \/ ComparePage \/ CompareAgain \/ Give
  BY <1>6, ProjectKeeps, SetKeeps, CompareKeeps, GiveKeeps
<1>7. CASE ChooseWebsite \/ ReadWebsite \/ ReconcileDefaultBooking  BY <1>7, ScriptReads, ScriptWrites
<1>8. CASE UNCHANGED siteVars
  <2>1. SiteTypeOK' /\ RowIsReleased' /\ CopyFits'
    BY <1>8 DEF SiteInv, siteVars, SiteTypeOK, RowIsReleased, CopyFits, Released, PageIsReleased, Shown, OnShelf
  <2>2. RequestFits(visitor)'
    BY <1>8 DEF SiteInv, siteVars, RequestFits, PromiseFits, AccessFits, SourceFits, PageFits, KeepFits, Released, PageIsReleased, Shown, OnShelf
  <2> QED BY <2>1, <2>2 DEF SiteInv
<1> QED BY <1>1, <1>2, <1>3, <1>4, <1>5, <1>6, <1>7, <1>8, Zenon DEF SiteNext

LEMMA GivenAsPromised == SiteInv => VisitorsSeeWhatIsLive
<1> SUFFICES ASSUME SiteInv, visitor.step = "given"
             PROVE  LET p == visitor.page IN
                    /\ p.number >= visitor.since
                    /\ p.number \in DOMAIN releases /\ p.look = ParseRevisionSnapshotAsPublished(p.number).look
                    /\ ResolvePublicBookingIntegration(p) \in visitor.forms \cup {Nil}
                    /\ p.premium => visitor.premium
                    /\ visitor.open
  BY DEF VisitorsSeeWhatIsLive
<1> DEFINE p == visitor.page
<1>0. SiteTypeOK /\ RequestFits(visitor)  BY DEF SiteInv
<1>1. PageFits(visitor) /\ p.number > 0 /\ visitor.since <= p.number /\ visitor.open
  BY <1>0 DEF RequestFits, WithPage
<1>2. p \in Pages /\ Released(p.number, p.look) /\ Shown(p, visitor.forms) /\ (p.premium => visitor.premium)
  BY <1>1 DEF PageFits, PageIsReleased
<1>3. p.number \in DOMAIN releases /\ releases[p.number] \in Contents /\ p.look = releases[p.number].look
  BY <1>0, <1>2 DEF Released, SiteTypeOK
<1>a. ParseRevisionSnapshotAsPublished(p.number) = ParsePublishedSnapshot(releases[p.number])
  BY <1>3 DEF ParseRevisionSnapshotAsPublished
<1>4. p.look = ParseRevisionSnapshotAsPublished(p.number).look
  <2>1. CASE releases[p.number] = Nil  BY <1>3, <1>a, <2>1, ParsedNothing
  <2>2. CASE releases[p.number] # Nil  BY <1>3, <1>a, <2>2, ParsedContent
  <2> QED BY <2>1, <2>2
<1>5. ResolvePublicBookingIntegration(p) \in visitor.forms \cup {Nil}
  BY <1>2 DEF ResolvePublicBookingIntegration, Shown
<1>6. p.number >= visitor.since  BY <1>0, <1>1, <1>2 DEF Pages, SiteTypeOK, Visitors
<1> QED BY <1>1, <1>2, <1>3, <1>4, <1>5, <1>6

\* Whatever the owner, the office, the caches and the requests do, the website's
\* row, its revisions, what is kept and what a request holds have their types
\* (publicWebsite.service.ts).
THEOREM SiteTypeCorrect ==
  ASSUME ScriptRunsApart
  PROVE  SiteSpec => []SiteTypeOK
<1>1. SiteInv /\ [SiteNext]_siteVars => SiteInv'  BY StepKeeps
<1>2. SiteInv => SiteTypeOK  BY DEF SiteInv
<1> QED BY InitialInvariant, <1>1, <1>2, PTL DEF SiteSpec

\* For every number of forms, changes and requests a visitor is given a page
\* that was published, no older than the one that was live when he asked, with
\* a form and a template that were there for him and of a tenant that was open
\* at the last look (publicWebsite.service.ts: getPublicWebsiteById).
THEOREM VisitorsAreShownWhatIsLive ==
  ASSUME ScriptRunsApart
  PROVE  SiteSpec => []VisitorsSeeWhatIsLive
<1>1. SiteInv /\ [SiteNext]_siteVars => SiteInv'  BY StepKeeps
<1>2. SiteInv => VisitorsSeeWhatIsLive  BY GivenAsPromised DEF SiteInv
<1> QED BY InitialInvariant, <1>1, <1>2, PTL DEF SiteSpec

------------------------
(* Copies of the projection *)

\* Everything a call knows is true of the rows and of the current generation.
CallIsSound(q) ==
    /\ q.since <= confirmed
    /\ q.version <= db
    /\ q.generation <= generation
    /\ q.step = "store" /\ q.generation = generation => q.version >= confirmed
    /\ q.step \in {"store", "release", "answered"} => q.version >= q.since

CallsAreSound == \A r \in Requests : CallIsSound(request[r])

\* A copy that is there is no older than the last confirmed invalidation.
CopyIsFresh(copy) == copy # Nobody => copy \in confirmed .. db

IInv ==
    /\ TypeOK
    /\ CopyIsFresh(fresh) /\ CopyIsFresh(stale)
    /\ CallsAreSound

------------------------
(* Types *)

LEMMA InitTypeOK == Init => TypeOK
<1> SUFFICES ASSUME Init PROVE TypeOK
  OBVIOUS
<1>1. [NewRequest(0) EXCEPT !.step = "idle"] \in Request  BY DEF NewRequest, Request
<1>2. request \in [Requests -> Request]  BY <1>1 DEF Init
<1> QED BY <1>2 DEF Init, TypeOK, Copy

\* A step of call r leaves it in the state q.
Becomes(r, q) == q \in Request /\ request' = [request EXCEPT ![r] = q]

LEMMA BecomesType ==
  ASSUME TypeOK, NEW r \in Requests, NEW q, Becomes(r, q)
  PROVE  /\ request' \in [Requests -> Request]
         /\ request'[r] = q
         /\ \A s \in Requests \ {r} : request'[s] = request[s]
  BY DEF Becomes, TypeOK

LEMMA ReturnBecomes ==
  ASSUME TypeOK, NEW r \in Requests, NEW v \in Nat, Return(r, v)
  PROVE  \E q : /\ Becomes(r, q)
                /\ q.version = v
                /\ q.step \in {"release", "answered"}
                /\ q.since = request[r].since
                /\ q.generation = request[r].generation
<1> DEFINE step == IF request[r].owner THEN "release" ELSE "answered"
           q == [request[r] EXCEPT !.version = v, !.step = step]
<1>1. request' = [request EXCEPT ![r] = q]  BY DEF Return
<1>2. /\ q \in Request
      /\ q.version = v
      /\ q.step \in {"release", "answered"}
      /\ q.since = request[r].since
      /\ q.generation = request[r].generation
  BY DEF TypeOK, Request
<1> HIDE DEF q
<1> QED BY <1>1, <1>2 DEF Becomes

LEMMA HitBecomes ==
  ASSUME TypeOK, NEW r \in Requests, NEW copy \in {fresh, stale}, Hit(r, copy)
  PROVE  \E q : /\ Becomes(r, q)
                /\ q.version = copy /\ copy # Nobody
                /\ q.step \in {"release", "answered"}
                /\ q.since = request[r].since
                /\ q.generation = request[r].generation
<1>1. copy \in Nat /\ copy # Nobody  BY DEF Hit, TypeOK, Copy
<1> QED BY <1>1, ReturnBecomes DEF Hit

LEMMA GoBecomes ==
  ASSUME TypeOK, NEW r \in Requests,
         NEW step \in {"lock", "capture", "direct", "stale", "wait", "answered", "idle"},
         Go(r, step)
  PROVE  \E q : /\ Becomes(r, q)
                /\ q.version = request[r].version
                /\ q.step = step
                /\ q.since = request[r].since
                /\ q.generation = request[r].generation
<1> DEFINE q == [request[r] EXCEPT !.step = step]
<1>1. request' = [request EXCEPT ![r] = q]  BY DEF Go
<1>2. /\ q \in Request
      /\ q.version = request[r].version
      /\ q.step = step
      /\ q.since = request[r].since
      /\ q.generation = request[r].generation
  BY DEF TypeOK, Request
<1> HIDE DEF q
<1> QED BY <1>1, <1>2 DEF Becomes

\* What the other ways of moving on make of a call.
LEMMA OwnerBecomes ==
  ASSUME TypeOK, NEW r \in Requests,
         request' = [request EXCEPT ![r].step = "recheck", ![r].owner = TRUE]
  PROVE  \E q : /\ Becomes(r, q)
                /\ q.version = request[r].version /\ q.step = "recheck"
                /\ q.since = request[r].since /\ q.generation = request[r].generation
<1> DEFINE q == [request[r] EXCEPT !.step = "recheck", !.owner = TRUE]
<1>1. request' = [request EXCEPT ![r] = q]  OBVIOUS
<1>2. /\ q \in Request
      /\ q.version = request[r].version /\ q.step = "recheck"
      /\ q.since = request[r].since /\ q.generation = request[r].generation
  BY DEF TypeOK, Request
<1> HIDE DEF q
<1> QED BY <1>1, <1>2 DEF Becomes

LEMMA CaptureBecomes ==
  ASSUME TypeOK, NEW r \in Requests,
         request' = [request EXCEPT ![r].generation = generation, ![r].step = "load"]
  PROVE  \E q : /\ Becomes(r, q)
                /\ q.version = request[r].version /\ q.step = "load"
                /\ q.since = request[r].since /\ q.generation = generation
<1> DEFINE q == [request[r] EXCEPT !.generation = generation, !.step = "load"]
<1>1. request' = [request EXCEPT ![r] = q]  OBVIOUS
<1>2. /\ q \in Request
      /\ q.version = request[r].version /\ q.step = "load"
      /\ q.since = request[r].since /\ q.generation = generation
  BY DEF TypeOK, Request
<1> HIDE DEF q
<1> QED BY <1>1, <1>2 DEF Becomes

LEMMA LoadBecomes ==
  ASSUME TypeOK, NEW r \in Requests, Load(r)
  PROVE  \E q : /\ Becomes(r, q)
                /\ q.version = db /\ q.step = "store"
                /\ q.since = request[r].since /\ q.generation = request[r].generation
<1> DEFINE q == [request[r] EXCEPT !.version = db, !.step = "store"]
<1>1. request' = [request EXCEPT ![r] = q]  BY DEF Load
<1>2. /\ q \in Request
      /\ q.version = db /\ q.step = "store"
      /\ q.since = request[r].since /\ q.generation = request[r].generation
  BY DEF TypeOK, Request
<1> HIDE DEF q
<1> QED BY <1>1, <1>2 DEF Becomes

LEMMA SecondRoundBecomes ==
  ASSUME TypeOK, NEW r \in Requests,
         request' = [request EXCEPT ![r].round = 2, ![r].step = "capture"]
  PROVE  \E q : /\ Becomes(r, q)
                /\ q.version = request[r].version /\ q.step = "capture"
                /\ q.since = request[r].since /\ q.generation = request[r].generation
<1> DEFINE q == [request[r] EXCEPT !.round = 2, !.step = "capture"]
<1>1. request' = [request EXCEPT ![r] = q]  OBVIOUS
<1>2. /\ q \in Request
      /\ q.version = request[r].version /\ q.step = "capture"
      /\ q.since = request[r].since /\ q.generation = request[r].generation
  BY DEF TypeOK, Request
<1> HIDE DEF q
<1> QED BY <1>1, <1>2 DEF Becomes

LEMMA BeginBecomes ==
  ASSUME TypeOK, NEW r \in Requests, Begin(r)
  PROVE  \E q : /\ Becomes(r, q)
                /\ q.version = 0 /\ q.step = "get"
                /\ q.since = confirmed /\ q.generation = 0
<1>1. request' = [request EXCEPT ![r] = NewRequest(confirmed)]  BY DEF Begin
<1>2. /\ NewRequest(confirmed) \in Request
      /\ NewRequest(confirmed).version = 0 /\ NewRequest(confirmed).step = "get"
      /\ NewRequest(confirmed).since = confirmed /\ NewRequest(confirmed).generation = 0
  BY DEF TypeOK, Request, NewRequest
<1> QED BY <1>1, <1>2 DEF Becomes

\* What a store leaves of its call.
LEMMA StoreBecomes ==
  ASSUME TypeOK, NEW r \in Requests, SetForGeneration(r)
  PROVE  \E q : /\ Becomes(r, q)
                /\ q.version = request[r].version
                /\ q.step \in {"capture", "release", "answered"}
                /\ q.since = request[r].since /\ q.generation = request[r].generation
<1>1. request[r].version \in Nat  BY DEF TypeOK, Request
<1>2. CASE Return(r, request[r].version)
  <2>1. PICK q : /\ Becomes(r, q)
                 /\ q.version = request[r].version
                 /\ q.step \in {"release", "answered"}
                 /\ q.since = request[r].since
                 /\ q.generation = request[r].generation
    BY <1>1, <1>2, ReturnBecomes
  <2> QED BY <2>1
<1>3. CASE request' = [request EXCEPT ![r].round = 2, ![r].step = "capture"]
  <2>1. PICK q : /\ Becomes(r, q)
                 /\ q.version = request[r].version /\ q.step = "capture"
                 /\ q.since = request[r].since /\ q.generation = request[r].generation
    BY <1>3, SecondRoundBecomes
  <2> QED BY <2>1
<1> QED BY <1>2, <1>3 DEF SetForGeneration

LEMMA NextTypeOK == TypeOK /\ [Next]_vars => TypeOK'
<1> SUFFICES ASSUME TypeOK, [Next]_vars PROVE TypeOK'
  OBVIOUS
<1>1. ASSUME NEW r \in Requests, Begin(r) \/ Proceed(r) \/ Abandon(r)
      PROVE  \E q : Becomes(r, q)
  <2>1. CASE GetFresh(r) \/ Recheck(r) \/ GetStale(r) \/ WaitForFreshFill(r)
    BY <2>1, HitBecomes, GoBecomes DEF GetFresh, Recheck, GetStale, WaitForFreshFill
  <2>2. CASE AcquireRebuildLock(r)  BY <2>2, OwnerBecomes, GoBecomes DEF AcquireRebuildLock
  <2>3. CASE GetGeneration(r) \/ LoadDirect(r)
    <3>1. db \in Nat  BY DEF TypeOK
    <3> QED BY <2>3, <3>1, CaptureBecomes, ReturnBecomes, GoBecomes DEF GetGeneration, LoadDirect
  <2>4. CASE ReleaseRebuildLock(r) \/ Abandon(r)  BY <2>4, GoBecomes DEF ReleaseRebuildLock, Abandon
  <2> QED BY <1>1, <2>1, <2>2, <2>3, <2>4, BeginBecomes, LoadBecomes, StoreBecomes DEF Proceed
<1>2. ASSUME NEW r \in Requests, Begin(r) \/ Proceed(r) \/ Abandon(r)
      PROVE  TypeOK'
  <2>1. request' \in [Requests -> Request]  BY <1>1, <1>2, BecomesType
  <2>2. /\ UNCHANGED <<db, confirmed, generation>>
        /\ fresh' \in Copy /\ stale' \in Copy
        /\ lock' \in Requests \cup {Nobody}
    <3>1. CASE SetForGeneration(r)
      <4>1. request[r].version \in Nat  BY DEF TypeOK, Request
      <4> QED BY <3>1, <4>1 DEF SetForGeneration, TypeOK, Copy
    <3>2. CASE AcquireRebuildLock(r) \/ ReleaseRebuildLock(r)
      BY <3>2 DEF AcquireRebuildLock, ReleaseRebuildLock, LockWithout, TypeOK
    <3> QED BY <1>2, <3>1, <3>2 DEF Begin, Proceed, Abandon, GetFresh, Recheck, GetStale,
         WaitForFreshFill, GetGeneration, Load, LoadDirect, redisVars, TypeOK
  <2> QED BY <2>1, <2>2 DEF TypeOK
<1>3. CASE Commit  BY <1>3 DEF Commit, redisVars, TypeOK
<1>4. CASE InvalidateWebsite  BY <1>4 DEF InvalidateWebsite, TypeOK, Copy
<1>5. CASE ExpireOrEvict  BY <1>5 DEF ExpireOrEvict, TypeOK, Copy
<1>6. CASE UNCHANGED vars  BY <1>6 DEF vars, TypeOK
<1> QED BY <1>2, <1>3, <1>4, <1>5, <1>6 DEF Next

\* Every variable keeps its type, whether or not Redis keeps its keys.
THEOREM TypeCorrect == Spec => []TypeOK
  BY InitTypeOK, NextTypeOK, PTL DEF Spec

\* A call that does not own the rebuild lock never takes it from the one that does:
\* SET NX gives it to nobody else, and the release script compares the owner.
THEOREM OwnerAloneReleases == Spec => NobodyElseReleasesTheLock
<1> DEFINE Kept == \A r, s \in Requests : r # s /\ lock = r /\ request'[s] # request[s] => lock' = r
<1>1. TypeOK /\ [Next]_vars => [Kept]_vars
  <2> SUFFICES ASSUME TypeOK, Next, NEW r \in Requests, NEW s \in Requests,
                      r # s, lock = r, request'[s] # request[s]
               PROVE  lock' = r
    OBVIOUS
  <2>1. r # Nobody  BY ProjectionAssumption
  <2>2. CASE \/ Commit \/ InvalidateWebsite \/ ExpireOrEvict
    BY <2>2 DEF Commit, InvalidateWebsite, ExpireOrEvict
  <2>3. ASSUME NEW t \in Requests, Begin(t) \/ Proceed(t) \/ Abandon(t) PROVE lock' = r
    <3>1. CASE AcquireRebuildLock(t)  BY <2>1, <3>1 DEF AcquireRebuildLock
    <3>2. CASE ReleaseRebuildLock(t)
      <4>1. request'[s] = request[s] \/ t = s  BY <3>2 DEF ReleaseRebuildLock, Go, TypeOK
      <4> QED BY <3>2, <4>1 DEF ReleaseRebuildLock, LockWithout
    <3> QED BY <2>3, <3>1, <3>2 DEF Begin, Proceed, Abandon, GetFresh, Recheck, GetStale,
         WaitForFreshFill, GetGeneration, Load, LoadDirect, SetForGeneration, redisVars
  <2> QED BY <2>2, <2>3 DEF Next
<1> QED BY <1>1, TypeCorrect, PTL DEF Spec, NobodyElseReleasesTheLock

------------------------
(* The invariant, while Redis keeps its counter *)

LEMMA InitIInv == Init => IInv
<1> SUFFICES ASSUME Init PROVE IInv
  OBVIOUS
<1>1. \A r \in Requests : /\ request[r].since = 0 /\ request[r].version = 0
                          /\ request[r].generation = 0 /\ request[r].step = "idle"
  BY DEF Init, NewRequest
<1>2. db = 0 /\ confirmed = 0 /\ generation = 0 /\ fresh = Nobody /\ stale = Nobody  BY DEF Init
<1>3. CallsAreSound
  <2>1. ASSUME NEW q, q.since = 0, q.version = 0, q.generation = 0, q.step = "idle"
        PROVE  CallIsSound(q)
    BY <1>2, <2>1 DEF CallIsSound
  <2> QED BY <1>1, <2>1 DEF CallsAreSound
<1> QED BY <1>2, <1>3, InitTypeOK DEF IInv, CopyIsFresh

\* A step of one call that leaves the rows, the counter and the copies alone keeps
\* the invariant if it leaves the call sound.
LEMMA OwnStep ==
  ASSUME IInv, TypeOK', NEW r \in Requests, NEW q, Becomes(r, q), CallIsSound(q),
         UNCHANGED <<db, confirmed, generation>>,
         \/ UNCHANGED <<fresh, stale>>
         \/ fresh' = q.version /\ stale' = q.version /\ q.version >= confirmed
  PROVE  IInv'
<1>1. \A s \in Requests : CallIsSound(request'[s])  BY BecomesType DEF IInv, CallsAreSound
<1>2. CallsAreSound'  BY <1>1 DEF CallsAreSound, CallIsSound
<1>3. q.version \in Nat /\ q.version <= db /\ confirmed \in Nat /\ db \in Nat
  BY DEF Becomes, Request, CallIsSound, IInv, TypeOK
<1>4. CopyIsFresh(fresh)' /\ CopyIsFresh(stale)'  BY <1>3 DEF IInv, CopyIsFresh
<1> QED BY <1>2, <1>4 DEF IInv

LEMMA BeginKeepsIInv ==
  ASSUME IInv, TypeOK', NEW r \in Requests, Begin(r)
  PROVE  IInv'
<1>1. PICK q : /\ Becomes(r, q)
               /\ q.version = 0 /\ q.step = "get"
               /\ q.since = confirmed /\ q.generation = 0
  BY BeginBecomes DEF IInv
<1>2. CallIsSound(q)  BY <1>1 DEF CallIsSound, IInv, TypeOK
<1> QED BY <1>1, <1>2, OwnStep DEF Begin, redisVars

\* What is read from a copy is as new as anything confirmed.
LEMMA ReadKeepsIInv ==
  ASSUME IInv, TypeOK', NEW r \in Requests,
         GetFresh(r) \/ Recheck(r) \/ GetStale(r) \/ WaitForFreshFill(r)
  PROVE  IInv'
<1>1. UNCHANGED <<db, confirmed, generation, fresh, stale>>
  BY DEF GetFresh, Recheck, GetStale, WaitForFreshFill, redisVars
<1>2. /\ CallIsSound(request[r]) /\ confirmed \in Nat /\ db \in Nat
      /\ request[r] \in Request
  BY DEF IInv, TypeOK, CallsAreSound
<1>3. ASSUME NEW copy \in {fresh, stale}, Hit(r, copy) PROVE IInv'
  <2>1. PICK q : /\ Becomes(r, q)
                 /\ q.version = copy /\ copy # Nobody
                 /\ q.step \in {"release", "answered"}
                 /\ q.since = request[r].since
                 /\ q.generation = request[r].generation
    BY <1>3, HitBecomes DEF IInv
  <2>2. copy \in confirmed .. db  BY <2>1 DEF IInv, CopyIsFresh
  <2>3. CallIsSound(q)  BY <1>2, <2>1, <2>2 DEF CallIsSound, Request
  <2> QED BY <1>1, <2>1, <2>3, OwnStep
<1>4. ASSUME NEW step \in {"lock", "capture", "wait"}, Go(r, step) PROVE IInv'
  <2>1. PICK q : /\ Becomes(r, q)
                 /\ q.version = request[r].version
                 /\ q.step = step
                 /\ q.since = request[r].since
                 /\ q.generation = request[r].generation
    BY <1>4, GoBecomes DEF IInv
  <2>2. CallIsSound(q)  BY <1>2, <2>1 DEF CallIsSound
  <2> QED BY <1>1, <2>1, <2>2, OwnStep
<1> QED BY <1>3, <1>4 DEF GetFresh, Recheck, GetStale, WaitForFreshFill

LEMMA LockKeepsIInv ==
  ASSUME IInv, TypeOK', NEW r \in Requests,
         AcquireRebuildLock(r) \/ ReleaseRebuildLock(r) \/ Abandon(r)
  PROVE  IInv'
<1>1. UNCHANGED <<db, confirmed, generation, fresh, stale>>
  BY DEF AcquireRebuildLock, ReleaseRebuildLock, Abandon, redisVars
<1>2. CallIsSound(request[r])  BY DEF IInv, CallsAreSound
<1>3. PICK q : /\ Becomes(r, q)
               /\ q.version = request[r].version
               /\ q.step \in {"recheck", "direct", "stale", "answered", "idle"}
               /\ q.step = "answered" => request[r].step = "release"
               /\ q.since = request[r].since
               /\ q.generation = request[r].generation
  <2>1. CASE request' = [request EXCEPT ![r].step = "recheck", ![r].owner = TRUE]
    BY <2>1, OwnerBecomes DEF IInv
  <2>2. ASSUME NEW step \in {"direct", "stale", "answered", "idle"}, Go(r, step),
               step = "answered" => request[r].step = "release"
        PROVE  \E q : /\ Becomes(r, q)
                      /\ q.version = request[r].version
                      /\ q.step = step
                      /\ q.since = request[r].since
                      /\ q.generation = request[r].generation
    BY <2>2, GoBecomes DEF IInv
  <2> QED BY <2>1, <2>2 DEF AcquireRebuildLock, ReleaseRebuildLock, Abandon, At
<1>4. CallIsSound(q)  BY <1>2, <1>3 DEF CallIsSound
<1> QED BY <1>1, <1>3, <1>4, OwnStep

\* The generation is captured before SQL is read, so what a call carries to the
\* store is fresh for as long as that generation is current.
LEMMA LoadKeepsIInv ==
  ASSUME IInv, TypeOK', NEW r \in Requests, GetGeneration(r) \/ Load(r) \/ LoadDirect(r)
  PROVE  IInv'
<1>1. UNCHANGED <<db, confirmed, generation, fresh, stale>>
  BY DEF GetGeneration, Load, LoadDirect, redisVars
<1>2. /\ CallIsSound(request[r]) /\ request[r] \in Request
      /\ confirmed \in Nat /\ db \in Nat /\ confirmed <= db /\ generation \in Nat
  BY DEF IInv, TypeOK, CallsAreSound
<1>3. CASE GetGeneration(r)
  <2>1. PICK q : /\ Becomes(r, q)
                 /\ q.version = request[r].version /\ q.step \in {"load", "direct"}
                 /\ q.since = request[r].since
                 /\ q.generation \in {generation, request[r].generation}
    <3>1. CASE Go(r, "direct")  BY <3>1, GoBecomes DEF IInv
    <3> QED BY <1>3, <3>1, CaptureBecomes DEF GetGeneration, IInv
  <2>2. CallIsSound(q)  BY <1>2, <2>1 DEF CallIsSound
  <2> QED BY <1>1, <2>1, <2>2, OwnStep
<1>4. CASE Load(r) \/ LoadDirect(r)
  <2>1. PICK q : /\ Becomes(r, q)
                 /\ q.version = db
                 /\ q.since = request[r].since
                 /\ q.generation = request[r].generation
    BY <1>2, <1>4, LoadBecomes, ReturnBecomes DEF LoadDirect, IInv
  <2>2. CallIsSound(q)  BY <1>2, <2>1 DEF CallIsSound, Request
  <2> QED BY <1>1, <2>1, <2>2, OwnStep
<1> QED BY <1>3, <1>4

LEMMA StoreKeepsIInv ==
  ASSUME IInv, TypeOK', NEW r \in Requests, SetForGeneration(r)
  PROVE  IInv'
<1>1. PICK q : /\ Becomes(r, q)
               /\ q.version = request[r].version
               /\ q.step \in {"capture", "release", "answered"}
               /\ q.since = request[r].since /\ q.generation = request[r].generation
  BY StoreBecomes DEF IInv
<1>2. CallIsSound(request[r]) /\ request[r].step = "store" /\ request[r] \in Request
  BY DEF IInv, TypeOK, CallsAreSound, SetForGeneration, At
<1>3. CallIsSound(q)  BY <1>1, <1>2 DEF CallIsSound
<1>4. CASE UNCHANGED <<fresh, stale>>  BY <1>1, <1>3, <1>4, OwnStep DEF SetForGeneration
<1>5. CASE SameGeneration(r) /\ fresh' = request[r].version /\ stale' = request[r].version
  <2>1. q.version >= confirmed  BY <1>1, <1>2, <1>5 DEF CallIsSound, SameGeneration
  <2> QED BY <1>1, <1>3, <1>5, <2>1, OwnStep DEF SetForGeneration
<1> QED BY <1>4, <1>5 DEF SetForGeneration

\* An invalidation outdates every generation captured so far.
LEMMA InvalidateKeepsIInv ==
  ASSUME IInv, TypeOK', InvalidateWebsite
  PROVE  IInv'
<1>1. /\ generation' = generation + 1 /\ fresh' = Nobody /\ stale' = Nobody
      /\ confirmed' \in {confirmed, db} /\ db' = db /\ request' = request
      /\ generation \in Nat /\ confirmed \in Nat /\ db \in Nat /\ confirmed <= db
  BY DEF InvalidateWebsite, IInv, TypeOK
<1>2. ASSUME NEW r \in Requests PROVE CallIsSound(request[r])'
  <2>1. CallIsSound(request[r]) /\ request[r] \in Request  BY DEF IInv, TypeOK, CallsAreSound
  <2> QED BY <1>1, <2>1 DEF CallIsSound, Request
<1> QED BY <1>1, <1>2 DEF IInv, CallsAreSound, CopyIsFresh

LEMMA CommitKeepsIInv ==
  ASSUME IInv, TypeOK', Commit
  PROVE  IInv'
<1>1. /\ db' = db + 1 /\ db \in Nat /\ confirmed \in Nat
      /\ UNCHANGED <<confirmed, generation, fresh, stale, request>>
  BY DEF Commit, IInv, TypeOK, redisVars
<1>2. ASSUME NEW r \in Requests PROVE CallIsSound(request[r])'
  <2>1. CallIsSound(request[r]) /\ request[r] \in Request  BY DEF IInv, TypeOK, CallsAreSound
  <2> QED BY <1>1, <2>1 DEF CallIsSound, Request
<1> QED BY <1>1, <1>2 DEF IInv, CallsAreSound, CopyIsFresh

LEMMA LossKeepsIInv ==
  ASSUME IInv, TypeOK', ~MayEvict, ExpireOrEvict
  PROVE  IInv'
<1>1. /\ fresh' \in {fresh, Nobody} /\ stale' \in {stale, Nobody}
      /\ UNCHANGED <<db, confirmed, generation, request>>
  BY DEF ExpireOrEvict
<1>2. CallsAreSound'  BY <1>1 DEF IInv, CallsAreSound, CallIsSound
<1> QED BY <1>1, <1>2 DEF IInv, CopyIsFresh

LEMMA NextKeepsIInv == ~MayEvict /\ IInv /\ [Next]_vars => IInv'
<1> SUFFICES ASSUME ~MayEvict, IInv, [Next]_vars PROVE IInv'
  OBVIOUS
<1>1. TypeOK'  BY NextTypeOK DEF IInv
<1>2. ASSUME NEW r \in Requests, Begin(r) \/ Proceed(r) \/ Abandon(r)
      PROVE  IInv'
  BY <1>1, <1>2, BeginKeepsIInv, ReadKeepsIInv, LockKeepsIInv, LoadKeepsIInv, StoreKeepsIInv
     DEF Proceed
<1>3. CASE UNCHANGED vars  BY <1>1, <1>3 DEF vars, IInv, CallsAreSound, CallIsSound, CopyIsFresh
<1> QED BY <1>1, <1>2, <1>3, InvalidateKeepsIInv, CommitKeepsIInv, LossKeepsIInv DEF Next

LEMMA IInvHolds ==
  ASSUME ~MayEvict
  PROVE  Spec => []IInv
<1>1. IInv /\ [Next]_vars => IInv'  BY NextKeepsIInv
<1> QED BY <1>1, InitIInv, PTL DEF Spec

------------------------
(* The refinement *)

\* A step of call r that does not begin it keeps what it was promised; one that
\* ends it answers freshly or gives it up; any other is invisible.
LEMMA MovingOnRefines ==
  ASSUME IInv, IInv', NEW r \in Requests, NEW q, Becomes(r, q),
         request[r].step \notin {"idle", "answered"}, q.since = request[r].since,
         UNCHANGED <<db, confirmed>>
  PROVE  Fresh!Answer(r) \/ Fresh!Withdraw(r) \/ UNCHANGED Fresh!freshVars
<1>1. /\ request[r] \in Request /\ request' = [request EXCEPT ![r] = q]
      /\ q \in Request /\ request' \in [Requests -> Request] /\ request'[r] = q
      /\ \A s \in Requests \ {r} : request'[s] = request[s]
  BY BecomesType DEF IInv, TypeOK, Becomes
<1>2. askedSince[r] = request[r].since /\ answeredWith[r] = Nobody
      /\ request[r].since \in Nat
  BY <1>1 DEF askedSince, answeredWith, At, Request
<1>3. CASE q.step = "idle"
  <2>1. askedSince' = [askedSince EXCEPT ![r] = Nobody]  BY <1>1, <1>3 DEF askedSince, At
  <2>2. answeredWith' = answeredWith  BY <1>1, <1>3 DEF answeredWith, At
  <2>3. askedSince[r] # Nobody  BY <1>2, ProjectionAssumption
  <2> QED BY <1>2, <2>1, <2>2, <2>3 DEF Fresh!Withdraw
<1>4. CASE q.step = "answered"
  <2>1. askedSince' = askedSince  BY <1>1, <1>4 DEF askedSince, At
  <2>2. answeredWith' = [answeredWith EXCEPT ![r] = q.version]  BY <1>1, <1>4 DEF answeredWith, At
  <2>3. q.version >= q.since /\ q.version <= db /\ q.version \in Nat /\ db \in Nat
    BY <1>1, <1>4 DEF IInv, TypeOK, CallsAreSound, CallIsSound, Request
  <2>4. q.version \in askedSince[r] .. db  BY <1>2, <2>3
  <2>5. askedSince[r] # Nobody  BY <1>2, ProjectionAssumption
  <2> QED BY <1>2, <2>1, <2>2, <2>4, <2>5 DEF Fresh!Answer
<1>5. CASE q.step \notin {"idle", "answered"}
  <2>1. askedSince' = askedSince  BY <1>1, <1>5 DEF askedSince, At
  <2>2. answeredWith' = answeredWith  BY <1>1, <1>5 DEF answeredWith, At
  <2> QED BY <2>1, <2>2 DEF Fresh!freshVars
<1> QED BY <1>3, <1>4, <1>5

LEMMA BeginRefines ==
  ASSUME IInv, NEW r \in Requests, Begin(r)
  PROVE  Fresh!Ask(r)
<1>1. PICK q : /\ Becomes(r, q)
               /\ q.version = 0 /\ q.step = "get"
               /\ q.since = confirmed /\ q.generation = 0
  BY BeginBecomes DEF IInv
<1>2. /\ request' \in [Requests -> Request] /\ request'[r] = q
      /\ \A s \in Requests \ {r} : request'[s] = request[s]
  BY <1>1, BecomesType DEF IInv
<1>3. askedSince' = [askedSince EXCEPT ![r] = confirmed]  BY <1>1, <1>2 DEF askedSince, At
<1>4. answeredWith' = [answeredWith EXCEPT ![r] = Nobody]  BY <1>1, <1>2 DEF answeredWith, At
<1> QED BY <1>3, <1>4 DEF Fresh!Ask, Begin

LEMMA ProceedRefines ==
  ASSUME IInv, IInv', NEW r \in Requests, Proceed(r) \/ Abandon(r)
  PROVE  Fresh!Answer(r) \/ Fresh!Withdraw(r) \/ UNCHANGED Fresh!freshVars
<1>1. UNCHANGED <<db, confirmed>> /\ request[r].step \notin {"idle", "answered"}
  BY DEF Proceed, Abandon, GetFresh, AcquireRebuildLock, Recheck, GetStale, WaitForFreshFill,
         GetGeneration, Load, LoadDirect, SetForGeneration, ReleaseRebuildLock, At
<1>2. \E q : Becomes(r, q) /\ q.since = request[r].since
  <2>1. ASSUME NEW copy \in {fresh, stale}, Hit(r, copy)
        PROVE  \E q : Becomes(r, q) /\ q.since = request[r].since
    BY <2>1, HitBecomes DEF IInv
  <2>2. ASSUME NEW step \in {"lock", "capture", "direct", "stale", "wait", "answered", "idle"},
               Go(r, step)
        PROVE  \E q : Becomes(r, q) /\ q.since = request[r].since
    BY <2>2, GoBecomes DEF IInv
  <2>3. CASE Return(r, db)  BY <2>3, ReturnBecomes DEF IInv, TypeOK
  <2>4. CASE request' = [request EXCEPT ![r].step = "recheck", ![r].owner = TRUE]
    BY <2>4, OwnerBecomes DEF IInv
  <2>5. CASE request' = [request EXCEPT ![r].generation = generation, ![r].step = "load"]
    BY <2>5, CaptureBecomes DEF IInv
  <2>6. CASE Load(r)  BY <2>6, LoadBecomes DEF IInv
  <2>7. CASE SetForGeneration(r)  BY <2>7, StoreBecomes DEF IInv
  <2> QED BY <2>1, <2>2, <2>3, <2>4, <2>5, <2>6, <2>7
       DEF Proceed, Abandon, GetFresh, AcquireRebuildLock, Recheck, GetStale,
           WaitForFreshFill, GetGeneration, LoadDirect, ReleaseRebuildLock
<1> QED BY <1>1, <1>2, MovingOnRefines

LEMMA StepRefines == IInv /\ IInv' /\ [Next]_vars => [Fresh!FreshNext]_Fresh!freshVars
<1> SUFFICES ASSUME IInv, IInv', [Next]_vars PROVE [Fresh!FreshNext]_Fresh!freshVars
  OBVIOUS
<1>1. ASSUME NEW r \in Requests, Begin(r) PROVE Fresh!FreshNext
  BY <1>1, BeginRefines DEF Fresh!FreshNext
<1>2. ASSUME NEW r \in Requests, Proceed(r) \/ Abandon(r)
      PROVE  [Fresh!FreshNext]_Fresh!freshVars
  BY <1>2, ProceedRefines DEF Fresh!FreshNext
<1>3. CASE Commit
  <2>1. db' = db + 1 /\ confirmed' = confirmed /\ request' = request  BY <1>3 DEF Commit
  <2>2. askedSince' = askedSince /\ answeredWith' = answeredWith
    BY <2>1 DEF askedSince, answeredWith, At
  <2> QED BY <2>1, <2>2 DEF Fresh!FreshNext, Fresh!Mutate
<1>4. CASE InvalidateWebsite
  <2>1. db' = db /\ request' = request /\ confirmed' \in {confirmed, db}  BY <1>4 DEF InvalidateWebsite
  <2>2. askedSince' = askedSince /\ answeredWith' = answeredWith
    BY <2>1 DEF askedSince, answeredWith, At
  <2> QED BY <2>1, <2>2 DEF Fresh!FreshNext, Fresh!Confirm, Fresh!freshVars
<1>5. CASE ExpireOrEvict \/ UNCHANGED vars
  <2>1. db' = db /\ request' = request /\ confirmed' = confirmed  BY <1>5 DEF ExpireOrEvict, vars
  <2>2. askedSince' = askedSince /\ answeredWith' = answeredWith
    BY <2>1 DEF askedSince, answeredWith, At
  <2> QED BY <2>1, <2>2 DEF Fresh!freshVars
<1> QED BY <1>1, <1>2, <1>3, <1>4, <1>5 DEF Next

LEMMA InitRefines == Init => Fresh!FreshInit
<1> SUFFICES ASSUME Init PROVE Fresh!FreshInit
  OBVIOUS
<1>1. \A r \in Requests : request[r].step = "idle"  BY DEF Init, NewRequest
<1> QED BY <1>1 DEF Init, Fresh!FreshInit, askedSince, answeredWith, At

\* The fresh copy, the stale copy and a rebuild never answer a call from before
\* what an invalidation confirmed before it began, as long as Redis keeps the
\* generation counter: the copies are dropped with the increment, and a store
\* with an older generation is refused.
THEOREM CopiesStayFresh ==
  ASSUME ~MayEvict
  PROVE  Spec => [](CopyIsFresh(fresh) /\ CopyIsFresh(stale))
  BY IInvHolds, PTL DEF IInv

\* getOrLoad and invalidateWebsite implement a cache that answers freshly, for any
\* number of calls, commits and invalidations, as long as Redis keeps the counter.
THEOREM ProjectionImplementsFreshAnswers ==
  ASSUME ~MayEvict
  PROVE  Spec => ImplementsFreshAnswers
  BY InitRefines, StepRefines, IInvHolds, PTL DEF Spec, ImplementsFreshAnswers, Fresh!FreshSpec

------------------------
(* Custom domains.  A verification may take the primary domain of a website    *)
(* away under a transaction that has just chosen it.  What carries the website *)
(* over is that the verification then waits for the same lock to repair the    *)
(* choice (Repaired): unless such a repair is still to come, the holder of the *)
(* lock writes a domain that is ready, and without a holder the primary one    *)
(* is.  A repair that names its own domain needs that domain to stay ready,    *)
(* which only the verification itself could change (Verification).             *)

\* Nothing else goes on in a behaviour in which a domain is removed.
RemovalsAreAlone == \A mix \in DomainMixes : "remove" \in mix => "alone" \in mix

Asking == {"dns", "ask", "unknown", "unproven", "failed", "waiting", "verified"}
Checking == {"claim"} \cup Asking
DomainSteps == {"rest", "release", "ensure", "write", "detach"} \cup Checking
DomainCall == [step : DomainSteps, domain : Domains \cup {Absent}, id : Nat, owner : Owners \cup {Absent},
               verifies : BOOLEAN, claimed : BOOLEAN, ready : BOOLEAN, primary : BOOLEAN,
               kept : Domains \cup {Absent}, candidate : Domains \cup {Absent}]

DomainTypeOK ==
    /\ row \in [Domains -> DomainRow \cup {Absent}]
    /\ primaryLock \in [Owners -> Calls \cup {Absent}]
    /\ call \in [Calls -> DomainCall]
    /\ asked \in Nat
    /\ lost \subseteq Owners
    /\ tasks \in DomainMixes

\* A domain that is claimed anew is another row.
Numbered ==
    /\ \A d \in ClaimedDomains : row[d].id <= asked
    /\ \A c \in Calls : call[c].id <= asked

\* A call knows the website of its row, and only a verification verifies.
CallsAreAbout ==
    \A c \in Calls :
        /\ ~OnStep(c, "rest") => call[c].domain \in Domains /\ call[c].owner \in Owners
        /\ call[c].step \notin {"rest", "release"} /\ Present(c) => row[call[c].domain].owner = call[c].owner
        /\ call[c].step \in Checking => call[c].verifies
        /\ OnStep(c, "rest") => ~call[c].verifies

LockHeld ==
    \A c \in Calls, o \in Owners : primaryLock[o] = c <=> OnStep(c, "write") /\ call[c].owner = o

OneVerifies ==
    \A b, c \in Calls : call[b].verifies /\ call[c].verifies /\ call[b].domain = call[c].domain => b = c

OneAtATime ==
    "alone" \in tasks => \A b, c \in Calls : ~OnStep(b, "rest") /\ ~OnStep(c, "rest") => b = c

Verification ==
    \A c \in Calls :
        /\ call[c].step \in Checking /\ Present(c) => (call[c].ready <=> IsRoutingReady(row[call[c].domain]))
        /\ OnStep(c, "ensure") /\ call[c].candidate # Absent =>
              /\ call[c].candidate = call[c].domain /\ call[c].verifies
              /\ Present(c) => call[c].domain \in Ready(call[c].owner)

Removal ==
    \A c \in Calls :
        OnStep(c, "detach") =>
            /\ "alone" \in tasks /\ call[c].candidate = Absent
            /\ Present(c) => call[c].primary = row[call[c].domain].primary

Primaries(o) == {d \in DomainsOf(o) : row[d].primary}
AtMostOne == \A o \in Owners : \A d, e \in Primaries(o) : d = e

Fine(o) == Primaries(o) \subseteq Ready(o) /\ (Ready(o) # {} => Primaries(o) # {})
\* What the holder of the lock is going to write: nothing, or a ready domain that it makes
\* the primary one or that is it already.
RightChoice(o, r) ==
    IF r.kept = Absent THEN r.candidate = Absent /\ Ready(o) = {}
    ELSE /\ r.kept \in Ready(o)
         /\ r.candidate = r.kept \/ (r.candidate = Absent /\ r.kept \in Primaries(o))
Repaired(o) ==
    \/ o \in lost
    \/ \E c \in Calls : OnStep(c, "ensure") /\ call[c].owner = o /\ Chooses(c)
    \/ primaryLock[o] # Absent /\ RightChoice(o, call[primaryLock[o]])
    \/ primaryLock[o] = Absent /\ Fine(o)

DomainFacts == DomainTypeOK /\ Numbered /\ CallsAreAbout /\ LockHeld /\ OneVerifies /\ OneAtATime

LEMMA RestingIsACall == Resting \in DomainCall
  BY DomainAssumption DEF Resting, DomainCall, DomainSteps

LEMMA CallMoves ==
  ASSUME DomainTypeOK, NEW c \in Calls, NEW r \in DomainCall, Goes(c, r)
  PROVE  /\ call' \in [Calls -> DomainCall] /\ call'[c] = r
         /\ \A b \in Calls \ {c} : call'[b] = call[b]
  BY DEF DomainTypeOK, Goes

LEMMA ClaimedRows ==
  ASSUME DomainTypeOK, NEW d \in ClaimedDomains
  PROVE  d \in Domains /\ row[d] \in DomainRow
  BY DEF DomainTypeOK, ClaimedDomains

\* What each step does.
LEMMA NewRowIsPending ==
  ASSUME DomainTypeOK, NEW o \in Owners
  PROVE  /\ NewRow(o) \in DomainRow /\ NewRow(o).owner = o /\ NewRow(o).id = asked + 1 /\ ~NewRow(o).primary
         /\ NewRow(o).status = "PENDING"
  BY DEF DomainTypeOK, NewRow, DomainRow, DomainStatus

LEMMA AddDomainDoes ==
  ASSUME DomainTypeOK, NEW o \in Owners, NEW d \in Domains, AddDomain(o, d)
  PROVE  /\ DomainTypeOK' /\ UNCHANGED <<primaryLock, call, lost, tasks>> /\ asked' = asked + 1
         /\ d \notin ClaimedDomains
         /\ row'[d] \in DomainRow /\ row'[d].owner = o /\ row'[d].id = asked + 1 /\ ~row'[d].primary
         /\ row'[d].status = "PENDING"
         /\ \A e \in Domains \ {d} : row'[e] = row[e]
<1>1. row' = [row EXCEPT ![d] = NewRow(o)] /\ UNCHANGED <<primaryLock, call, lost, tasks>> /\ asked' = asked + 1
      /\ d \notin ClaimedDomains
  BY DEF AddDomain, Asks, ClaimedDomains
<1> QED BY <1>1, NewRowIsPending DEF DomainTypeOK

LEMMA JudgeClaimDoes ==
  ASSUME DomainTypeOK, NEW c \in Calls, NEW o \in Owners, NEW d \in Domains, JudgeClaim(c, o, d)
  PROVE  /\ DomainTypeOK' /\ UNCHANGED <<row, primaryLock, asked, lost, tasks>> /\ Alone
         /\ d \in ClaimedDomains /\ OnStep(c, "rest")
         /\ \A b \in Calls \ {c} : call'[b] = call[b]
         /\ call'[c].step = "release" /\ call'[c].domain = d /\ call'[c].id = row[d].id
         /\ call'[c].owner = o /\ ~call'[c].verifies
<1> DEFINE r == [Resting EXCEPT !.step = "release", !.domain = d, !.id = row[d].id, !.owner = o]
<1>1. /\ UNCHANGED <<row, primaryLock, asked, lost, tasks>> /\ Alone
      /\ d \in ClaimedDomains /\ OnStep(c, "rest") /\ Goes(c, r)
  BY DEF JudgeClaim
<1>2. r \in DomainCall  BY <1>1, ClaimedRows DEF Resting, DomainCall, DomainSteps, Checking, DomainRow
<1>3. r.step = "release" /\ r.domain = d /\ r.id = row[d].id /\ r.owner = o /\ ~r.verifies
  BY DEF Resting
<1> HIDE DEF r
<1>4. DomainTypeOK'  BY <1>1, <1>2, CallMoves DEF DomainTypeOK
<1> QED BY <1>1, <1>2, <1>3, <1>4, CallMoves

LEMMA TwoDaysPassDoes ==
  ASSUME DomainTypeOK, NEW d \in Domains, TwoDaysPass(d)
  PROVE  /\ DomainTypeOK' /\ UNCHANGED <<primaryLock, call, asked, lost, tasks>>
         /\ d \in ClaimedDomains /\ \A e \in Domains \ {d} : row'[e] = row[e]
         /\ row'[d] \in DomainRow /\ row'[d].owner = row[d].owner /\ row'[d].id = row[d].id
         /\ row'[d].primary = row[d].primary /\ (IsRoutingReady(row'[d]) <=> IsRoutingReady(row[d]))
<1>1. d \in ClaimedDomains /\ row' = [row EXCEPT ![d] = [row[d] EXCEPT !.stale = TRUE]]
      /\ UNCHANGED <<primaryLock, call, asked, lost, tasks>> /\ row[d] \in DomainRow
  BY ClaimedRows DEF TwoDaysPass
<1>2. [row[d] EXCEPT !.stale = TRUE] \in DomainRow  BY <1>1 DEF DomainRow
<1>3. row'[d] = [row[d] EXCEPT !.stale = TRUE]  BY <1>1 DEF DomainTypeOK
<1>4. /\ row'[d].owner = row[d].owner /\ row'[d].id = row[d].id /\ row'[d].primary = row[d].primary
      /\ (IsRoutingReady(row'[d]) <=> IsRoutingReady(row[d]))
  BY <1>1, <1>3 DEF DomainRow, IsRoutingReady
<1>5. \A e \in Domains \ {d} : row'[e] = row[e]  BY <1>1 DEF DomainTypeOK
<1>6. DomainTypeOK'  BY <1>1, <1>2 DEF DomainTypeOK
<1> QED BY <1>1, <1>2, <1>3, <1>4, <1>5, <1>6

LEMMA StartVerificationDoes ==
  ASSUME DomainTypeOK, NEW c \in Calls, NEW d \in Domains, StartVerification(c, d)
  PROVE  /\ DomainTypeOK' /\ UNCHANGED <<row, primaryLock, lost, tasks>> /\ asked' = asked + 1 /\ Alone
         /\ d \in ClaimedDomains /\ ~Locked(d) /\ OnStep(c, "rest")
         /\ \A b \in Calls \ {c} : call'[b] = call[b]
         /\ call'[c].step = "claim" /\ call'[c].domain = d /\ call'[c].id = row[d].id
         /\ call'[c].owner = row[d].owner /\ call'[c].verifies
         /\ (call'[c].ready <=> IsRoutingReady(row[d]))
<1> DEFINE r == [Resting EXCEPT !.step = "claim", !.domain = d, !.id = row[d].id, !.owner = row[d].owner,
                                !.verifies = TRUE, !.ready = IsRoutingReady(row[d])]
<1>1. /\ UNCHANGED <<row, primaryLock, lost, tasks>> /\ asked' = asked + 1 /\ Alone
      /\ d \in ClaimedDomains /\ ~Locked(d) /\ OnStep(c, "rest") /\ Goes(c, r)
  BY DEF StartVerification, Asks
<1>2. r \in DomainCall
  BY <1>1, ClaimedRows DEF Resting, DomainCall, DomainSteps, Checking, DomainRow, IsRoutingReady
<1>3. /\ r.step = "claim" /\ r.domain = d /\ r.id = row[d].id /\ r.owner = row[d].owner /\ r.verifies
      /\ r.ready = IsRoutingReady(row[d])
  BY DEF Resting
<1> HIDE DEF r
<1>4. DomainTypeOK'  BY <1>1, <1>2, CallMoves DEF DomainTypeOK
<1> QED BY <1>1, <1>2, <1>3, <1>4, CallMoves

LEMMA SetPrimaryDomainDoes ==
  ASSUME DomainTypeOK, NEW c \in Calls, NEW d \in Domains, SetPrimaryDomain(c, d)
  PROVE  /\ DomainTypeOK' /\ UNCHANGED <<row, tasks>> /\ asked' = asked + 1 /\ Alone
         /\ d \in ClaimedDomains /\ OnStep(c, "rest") /\ IsRoutingReady(row[d])
         /\ primaryLock[row[d].owner] = Absent /\ row[d].owner \in Owners
         /\ primaryLock' = [primaryLock EXCEPT ![row[d].owner] = c]
         /\ \A b \in Calls \ {c} : call'[b] = call[b]
         /\ call'[c].step = "write" /\ call'[c].domain = d /\ call'[c].id = row[d].id
         /\ call'[c].owner = row[d].owner /\ ~call'[c].verifies /\ call'[c].kept = d /\ call'[c].candidate = d
         /\ lost' = lost \ {row[d].owner}
<1> DEFINE r == [Resting EXCEPT !.step = "write", !.domain = d, !.id = row[d].id, !.owner = row[d].owner,
                                !.kept = d, !.candidate = d]
<1>1. /\ UNCHANGED <<row, tasks>> /\ asked' = asked + 1 /\ Alone /\ lost' = lost \ {row[d].owner}
      /\ d \in ClaimedDomains /\ OnStep(c, "rest") /\ IsRoutingReady(row[d]) /\ Goes(c, r)
      /\ primaryLock[row[d].owner] = Absent
      /\ primaryLock' = [primaryLock EXCEPT ![row[d].owner] = c]
  BY DEF SetPrimaryDomain, Asks
<1>2. r \in DomainCall /\ row[d].owner \in Owners
  BY ZenonT(40), <1>1, ClaimedRows DEF Resting, DomainCall, DomainSteps, Checking, DomainRow
<1>3. r.step = "write" /\ r.domain = d /\ r.id = row[d].id /\ r.owner = row[d].owner /\ ~r.verifies /\ r.kept = d
      /\ r.candidate = d
  BY DEF Resting
<1> HIDE DEF r
<1>4. DomainTypeOK'  BY <1>1, <1>2, CallMoves DEF DomainTypeOK
<1> QED BY <1>1, <1>2, <1>3, <1>4, CallMoves

LEMMA StartRemovalDoes ==
  ASSUME DomainTypeOK, NEW c \in Calls, NEW d \in Domains, StartRemoval(c, d)
  PROVE  /\ DomainTypeOK' /\ UNCHANGED <<row, primaryLock, lost, tasks>> /\ asked' = asked + 1 /\ Alone /\ "remove" \in tasks
         /\ d \in ClaimedDomains /\ OnStep(c, "rest")
         /\ \A b \in Calls \ {c} : call'[b] = call[b]
         /\ call'[c].step = "detach" /\ call'[c].domain = d /\ call'[c].id = row[d].id
         /\ call'[c].owner = row[d].owner /\ ~call'[c].verifies /\ call'[c].primary = row[d].primary
         /\ call'[c].candidate = Absent
<1> DEFINE r == [Resting EXCEPT !.step = "detach", !.domain = d, !.id = row[d].id, !.owner = row[d].owner,
                                !.primary = row[d].primary]
<1>1. /\ UNCHANGED <<row, primaryLock, lost, tasks>> /\ asked' = asked + 1 /\ Alone /\ "remove" \in tasks
      /\ d \in ClaimedDomains /\ OnStep(c, "rest") /\ Goes(c, r)
  BY DEF StartRemoval, Asks
<1>2. r \in DomainCall  BY <1>1, ClaimedRows DEF Resting, DomainCall, DomainSteps, Checking, DomainRow
<1>3. /\ r.step = "detach" /\ r.domain = d /\ r.id = row[d].id /\ r.owner = row[d].owner /\ ~r.verifies
      /\ r.primary = row[d].primary /\ r.candidate = Absent
  BY DEF Resting
<1> HIDE DEF r
<1>4. DomainTypeOK'  BY <1>1, <1>2, CallMoves DEF DomainTypeOK
<1> QED BY <1>1, <1>2, <1>3, <1>4, CallMoves

\* A step of a call in hand that keeps what it is about.
SameCall(c) ==
    /\ call'[c].domain = call[c].domain /\ call'[c].id = call[c].id /\ call'[c].owner = call[c].owner
    /\ call'[c].verifies = call[c].verifies /\ call'[c].ready = call[c].ready

\* The call turns to another step, perhaps with another choice.
LEMMA CallGoesOn ==
  ASSUME DomainTypeOK, NEW c \in Calls, NEW s \in DomainSteps, Goes(c, [call[c] EXCEPT !.step = s])
  PROVE  /\ call' \in [Calls -> DomainCall] /\ \A b \in Calls \ {c} : call'[b] = call[b]
         /\ SameCall(c) /\ call'[c].step = s
         /\ call'[c].candidate = call[c].candidate /\ call'[c].kept = call[c].kept
<1> DEFINE r == [call[c] EXCEPT !.step = s]
<1>1. call[c] \in DomainCall  BY DEF DomainTypeOK
<1>2. r \in DomainCall  BY <1>1 DEF DomainCall
<1>3. /\ r.step = s /\ r.domain = call[c].domain /\ r.id = call[c].id /\ r.owner = call[c].owner
      /\ r.verifies = call[c].verifies /\ r.ready = call[c].ready
      /\ r.candidate = call[c].candidate /\ r.kept = call[c].kept
  BY <1>1 DEF DomainCall
<1> HIDE DEF r
<1> QED BY <1>2, <1>3, CallMoves DEF r, SameCall

LEMMA AsksDo ==
  ASSUME DomainTypeOK, NEW c \in Calls, HasOwnershipTxt(c) \/ VerifyAtProvider(c)
  PROVE  /\ DomainTypeOK' /\ UNCHANGED <<row, primaryLock, asked, lost, tasks>>
         /\ \A b \in Calls \ {c} : call'[b] = call[b]
         /\ SameCall(c) /\ call[c].step \in Asking /\ call'[c].step \in Asking
<1>1. /\ UNCHANGED <<row, primaryLock, asked, lost, tasks>> /\ call[c].step \in Asking
      /\ \E s \in Asking : Goes(c, [call[c] EXCEPT !.step = s])
  BY DEF HasOwnershipTxt, VerifyAtProvider, OnStep, Asking
<1>2. PICK s \in Asking : Goes(c, [call[c] EXCEPT !.step = s])  BY <1>1
<1>3. s \in DomainSteps  BY DEF DomainSteps, Checking
<1> QED BY <1>1, <1>2, <1>3, CallGoesOn DEF DomainTypeOK

\* A call that is over.
EndsWell(c) ==
    /\ \A b \in Calls \ {c} : call'[b] = call[b]
    /\ call'[c].step = "rest" /\ ~call'[c].verifies /\ call'[c].id = 0

LEMMA CallEnds ==
  ASSUME DomainTypeOK, NEW c \in Calls, Ends(c)
  PROVE  call' \in [Calls -> DomainCall] /\ EndsWell(c)
<1>1. Resting.step = "rest" /\ ~Resting.verifies /\ Resting.id = 0  BY DEF Resting
<1> HIDE DEF Resting
<1> QED BY <1>1, RestingIsACall, CallMoves DEF Ends, EndsWell

LEMMA LoseCallDoes ==
  ASSUME DomainTypeOK, CallsAreAbout, NEW c \in Calls, LoseCall(c)
  PROVE  /\ DomainTypeOK' /\ UNCHANGED <<row, asked, tasks>> /\ EndsWell(c) /\ ~OnStep(c, "rest")
         /\ lost \subseteq lost' /\ (call[c].step \in {"ensure", "write"} => call[c].owner \in lost')
         /\ \A o \in Owners : primaryLock'[o] = IF primaryLock[o] = c THEN Absent ELSE primaryLock[o]
<1>1. /\ UNCHANGED <<row, asked, tasks>> /\ Ends(c) /\ ~OnStep(c, "rest")
      /\ lost' = IF call[c].step \in {"ensure", "write"} THEN lost \cup {call[c].owner} ELSE lost
      /\ primaryLock' = [o \in Owners |-> IF primaryLock[o] = c THEN Absent ELSE primaryLock[o]]
  BY DEF LoseCall
<1>2. lost' \subseteq Owners  BY <1>1 DEF DomainTypeOK, CallsAreAbout, OnStep
<1>3. primaryLock' \in [Owners -> Calls \cup {Absent}]  BY <1>1 DEF DomainTypeOK
<1> QED BY <1>1, <1>2, <1>3, CallEnds DEF DomainTypeOK

LEMMA ReleaseClaimDoes ==
  ASSUME DomainTypeOK, CallsAreAbout, NEW c \in Calls, ReleaseClaim(c)
  PROVE  /\ DomainTypeOK' /\ UNCHANGED <<primaryLock, tasks>> /\ asked' = asked + 1
         /\ OnStep(c, "release") /\ EndsWell(c) /\ call[c].domain \in Domains /\ call[c].owner \in Owners
         /\ \/ UNCHANGED <<row, lost>>
            \/ \E d \in ClaimedDomains :
                 /\ row'[d] \in DomainRow /\ row'[d].owner = call[c].owner /\ row'[d].id = asked + 1
                 /\ ~row'[d].primary /\ row'[d].status = "PENDING"
                 /\ \A e \in Domains \ {d} : row'[e] = row[e]
                 /\ lost' = IF IsRoutingReady(row[d]) THEN lost \cup {row[d].owner} ELSE lost
<1>1. /\ UNCHANGED <<primaryLock, tasks>> /\ asked' = asked + 1 /\ OnStep(c, "release") /\ Ends(c)
  BY DEF ReleaseClaim
<1>2. call[c].domain \in Domains /\ call[c].owner \in Owners  BY <1>1 DEF CallsAreAbout, OnStep
<1>3. CASE UNCHANGED <<row, lost>>  BY <1>1, <1>2, <1>3, CallEnds DEF DomainTypeOK
<1>4. CASE ~UNCHANGED <<row, lost>>
  <2>1. PICK d \in ClaimedDomains : d = call[c].domain  BY <1>4 DEF ReleaseClaim, Present
  <2>2. /\ row' = [row EXCEPT ![d] = NewRow(call[c].owner)]
        /\ lost' = IF IsRoutingReady(row[d]) THEN lost \cup {row[d].owner} ELSE lost
    BY <1>4, <2>1 DEF ReleaseClaim
  <2>3. d \in Domains /\ row[d].owner \in Owners  BY ClaimedRows DEF DomainRow
  <2>4. DomainTypeOK'  BY <1>1, <1>2, <2>2, <2>3, NewRowIsPending, CallEnds DEF DomainTypeOK
  <2> QED BY <1>1, <1>2, <2>2, <2>3, <2>4, NewRowIsPending, CallEnds DEF DomainTypeOK
<1> QED BY <1>3, <1>4

LEMMA ClaimVerificationDoes ==
  ASSUME DomainTypeOK, NEW c \in Calls, ClaimVerification(c)
  PROVE  /\ DomainTypeOK' /\ UNCHANGED <<primaryLock, asked, lost, tasks>> /\ OnStep(c, "claim")
         /\ \/ /\ Present(c) /\ \A e \in Domains \ {call[c].domain} : row'[e] = row[e]
               /\ \E r \in DomainRow : /\ row'[call[c].domain] = r
                    /\ r.owner = row[call[c].domain].owner /\ r.id = row[call[c].domain].id
                    /\ r.primary = row[call[c].domain].primary
                    /\ IF call[c].ready THEN IsRoutingReady(r) <=> IsRoutingReady(row[call[c].domain]) ELSE ~IsRoutingReady(r)
               /\ \A b \in Calls \ {c} : call'[b] = call[b]
               /\ SameCall(c) /\ call'[c].step \in Asking
            \/ UNCHANGED row /\ EndsWell(c)
<1>0. UNCHANGED <<primaryLock, asked, lost, tasks>> /\ OnStep(c, "claim")  BY DEF ClaimVerification
<1>1. CASE Ends(c) /\ UNCHANGED row  BY <1>0, <1>1, CallEnds DEF DomainTypeOK
<1>2. CASE ~(Ends(c) /\ UNCHANGED row)
  <2>1. PICK d \in ClaimedDomains : d = call[c].domain  BY <1>2 DEF ClaimVerification, Present
  <2>2. row[d] \in DomainRow /\ d \in Domains  BY ClaimedRows
  <2> DEFINE r == [row[d] EXCEPT !.verifying = TRUE, !.status = IF call[c].ready THEN @ ELSE "VERIFYING"]
  <2>3. /\ Present(c)
        /\ row' = [row EXCEPT ![d] = r]
        /\ Goes(c, [call[c] EXCEPT !.step = "dns", !.claimed = TRUE])
    <3>1. row' = [row EXCEPT ![d].verifying = TRUE, ![d].status = IF call[c].ready THEN @ ELSE "VERIFYING"]
      BY <1>2, <2>1 DEF ClaimVerification
    <3>2. row' = [row EXCEPT ![d] = r]  BY <2>2, <3>1 DEF DomainTypeOK
    <3> QED BY <1>2, <3>2 DEF ClaimVerification
  <2>4. /\ r \in DomainRow /\ r.owner = row[d].owner /\ r.id = row[d].id /\ r.primary = row[d].primary
        /\ IF call[c].ready THEN IsRoutingReady(r) <=> IsRoutingReady(row[d]) ELSE ~IsRoutingReady(r)
    <3>1. CASE call[c].ready  BY <2>2, <3>1 DEF DomainRow, IsRoutingReady
    <3>2. CASE ~call[c].ready  BY <2>2, <3>2 DEF DomainRow, DomainStatus, IsRoutingReady
    <3> QED BY <3>1, <3>2
  <2> DEFINE k == [call[c] EXCEPT !.step = "dns", !.claimed = TRUE]
  <2>5. call[c] \in DomainCall  BY DEF DomainTypeOK
  <2>6. /\ k \in DomainCall /\ k.step = "dns" /\ k.domain = call[c].domain /\ k.id = call[c].id
        /\ k.owner = call[c].owner /\ k.verifies = call[c].verifies /\ k.ready = call[c].ready
    BY <2>5 DEF DomainCall, DomainSteps, Checking, Asking
  <2> HIDE DEF r, k
  <2>7. /\ call' \in [Calls -> DomainCall] /\ call'[c] = k /\ \A b \in Calls \ {c} : call'[b] = call[b]
    BY <2>3, <2>6, CallMoves DEF k
  <2>8. row' \in [Domains -> DomainRow \cup {Absent}] /\ row'[d] = r /\ \A e \in Domains \ {d} : row'[e] = row[e]
    BY <2>2, <2>3, <2>4 DEF DomainTypeOK
  <2>9. DomainTypeOK'  BY <1>0, <2>7, <2>8 DEF DomainTypeOK
  <2> QED BY <1>0, <2>1, <2>2, <2>3, <2>4, <2>6, <2>7, <2>8, <2>9 DEF SameCall, Asking
<1> QED BY <1>1, <1>2

\* An answer is written to the row; unless it is known to change nothing, a repair follows.
LEMMA ApplyProviderStateDoes ==
  ASSUME DomainTypeOK, NEW c \in Calls, ApplyProviderState(c),
         CallsAreAbout, Verification
  PROVE  /\ DomainTypeOK' /\ UNCHANGED <<primaryLock, asked, lost, tasks>> /\ call[c].step \in Asking
         /\ \/ UNCHANGED row /\ EndsWell(c)
            \/ /\ Present(c) /\ \A e \in Domains \ {call[c].domain} : row'[e] = row[e]
               /\ \E r \in DomainRow :
                    /\ row'[call[c].domain] = r
                    /\ r.owner = row[call[c].domain].owner /\ r.id = row[call[c].domain].id
                    /\ r.primary => row[call[c].domain].primary
                    /\ \/ /\ EndsWell(c) /\ (IsRoutingReady(r) <=> IsRoutingReady(row[call[c].domain]))
                          /\ r.primary = row[call[c].domain].primary
                       \/ /\ SameCall(c) /\ call'[c].step = "ensure"
                          /\ \A b \in Calls \ {c} : call'[b] = call[b]
                          /\ \/ call'[c].candidate = Absent
                             \/ call'[c].candidate = call[c].domain /\ IsRoutingReady(r)
<1>0. /\ UNCHANGED <<primaryLock, asked, lost, tasks>>
      /\ call[c].step \in {"unknown", "unproven", "failed", "waiting", "verified"}
  BY DEF ApplyProviderState
<1>1. CASE ~Present(c)
  <2>1. Ends(c) /\ UNCHANGED row  BY <1>1 DEF ApplyProviderState
  <2> QED BY <1>0, <2>1, CallEnds DEF DomainTypeOK, Asking
<1>2. CASE Present(c)
  <2>1. PICK d \in ClaimedDomains : d = call[c].domain  BY <1>2 DEF Present
  <2>2. row[d] \in DomainRow /\ d \in Domains /\ call[c] \in DomainCall  BY ClaimedRows DEF DomainTypeOK
  <2>3. call[c].ready <=> IsRoutingReady(row[d])  BY <1>0, <1>2, <2>1 DEF Verification, Checking, Asking
  <2>4. ASSUME NEW r \in DomainRow, row' = [row EXCEPT ![d] = [r EXCEPT !.verifying = FALSE]]
        PROVE  /\ row' \in [Domains -> DomainRow \cup {Absent}] /\ \A e \in Domains \ {d} : row'[e] = row[e]
               /\ row'[d] \in DomainRow /\ row'[d].owner = r.owner /\ row'[d].id = r.id
               /\ row'[d].primary = r.primary /\ (IsRoutingReady(row'[d]) <=> IsRoutingReady(r))
    <3>1. [r EXCEPT !.verifying = FALSE] \in DomainRow  BY DEF DomainRow
    <3>2. row'[d] = [r EXCEPT !.verifying = FALSE] /\ \A e \in Domains \ {d} : row'[e] = row[e]
      BY <2>2, <2>4 DEF DomainTypeOK
    <3>3. row' \in [Domains -> DomainRow \cup {Absent}]  BY <2>4, <3>1 DEF DomainTypeOK
    <3> QED BY <3>1, <3>2, <3>3 DEF DomainRow, IsRoutingReady
  <2>5. ASSUME NEW k \in Domains \cup {Absent}, Goes(c, [call[c] EXCEPT !.step = "ensure", !.candidate = k])
        PROVE  /\ call' \in [Calls -> DomainCall] /\ SameCall(c) /\ call'[c].step = "ensure" /\ call'[c].candidate = k
               /\ \A b \in Calls \ {c} : call'[b] = call[b]
    <3> DEFINE q == [call[c] EXCEPT !.step = "ensure", !.candidate = k]
    <3>1. /\ q \in DomainCall /\ q.step = "ensure" /\ q.domain = call[c].domain /\ q.id = call[c].id
          /\ q.owner = call[c].owner /\ q.verifies = call[c].verifies /\ q.ready = call[c].ready
          /\ q.candidate = k
      BY <2>2 DEF DomainCall, DomainSteps
    <3> HIDE DEF q
    <3> QED BY <2>5, <3>1, CallMoves DEF q, SameCall
  <2>6. CASE /\ Ends(c)
             /\ \E s \in DomainStatus : /\ row' = [row EXCEPT ![d] = [[row[d] EXCEPT !.status = s] EXCEPT !.verifying = FALSE]]
                                        /\ s = IF call[c].ready THEN "VERIFIED" ELSE "PENDING"
    <3>1. PICK s \in DomainStatus : /\ row' = [row EXCEPT ![d] = [[row[d] EXCEPT !.status = s] EXCEPT !.verifying = FALSE]]
                                    /\ s = IF call[c].ready THEN "VERIFIED" ELSE "PENDING"
      BY <2>6
    <3> DEFINE r == [row[d] EXCEPT !.status = s]
    <3>2. /\ r \in DomainRow /\ r.owner = row[d].owner /\ r.id = row[d].id /\ r.primary = row[d].primary
          /\ r.status = s /\ r.owned = row[d].owned /\ r.hosted = row[d].hosted /\ r.routed = row[d].routed
      BY <2>2 DEF DomainRow
    <3>3. IsRoutingReady(r) <=> IsRoutingReady(row[d])  BY <2>3, <3>1, <3>2 DEF IsRoutingReady
    <3>4. row' = [row EXCEPT ![d] = [r EXCEPT !.verifying = FALSE]]  BY <3>1
    <3> HIDE DEF r
    <3>5. DomainTypeOK'  BY <1>0, <2>4, <2>6, <3>2, <3>4, CallEnds DEF DomainTypeOK
    <3>6. /\ row'[d] \in DomainRow /\ row'[d].owner = row[d].owner /\ row'[d].id = row[d].id
          /\ row'[d].primary = row[d].primary /\ (IsRoutingReady(row'[d]) <=> IsRoutingReady(row[d]))
          /\ \A e \in Domains \ {d} : row'[e] = row[e]
      BY <2>4, <3>2, <3>3, <3>4
    <3>7. EndsWell(c)  BY <2>6, CallEnds
    <3> QED BY <1>0, <1>2, <2>1, <3>5, <3>6, <3>7 DEF Asking
  <2>7. CASE \E r \in DomainRow, k \in Domains \cup {Absent} :
               /\ row' = [row EXCEPT ![d] = [r EXCEPT !.verifying = FALSE]]
               /\ Goes(c, [call[c] EXCEPT !.step = "ensure", !.candidate = k])
               /\ r.owner = row[d].owner /\ r.id = row[d].id /\ (r.primary => row[d].primary)
               /\ k = Absent \/ (k = d /\ IsRoutingReady(r))
    <3>1. PICK r \in DomainRow, k \in Domains \cup {Absent} :
               /\ row' = [row EXCEPT ![d] = [r EXCEPT !.verifying = FALSE]]
               /\ Goes(c, [call[c] EXCEPT !.step = "ensure", !.candidate = k])
               /\ r.owner = row[d].owner /\ r.id = row[d].id /\ (r.primary => row[d].primary)
               /\ k = Absent \/ (k = d /\ IsRoutingReady(r))
      BY <2>7
    <3>2. DomainTypeOK'  BY <1>0, <2>4, <2>5, <3>1 DEF DomainTypeOK
    <3>3. /\ row'[d] \in DomainRow /\ row'[d].owner = row[d].owner /\ row'[d].id = row[d].id
          /\ row'[d].primary = r.primary /\ (IsRoutingReady(row'[d]) <=> IsRoutingReady(r))
          /\ \A e \in Domains \ {d} : row'[e] = row[e]
      BY <2>4, <3>1
    <3>4. /\ SameCall(c) /\ call'[c].step = "ensure" /\ call'[c].candidate = k
          /\ \A b \in Calls \ {c} : call'[b] = call[b]
      BY <2>5, <3>1
    <3> QED BY <1>0, <1>2, <2>1, <3>1, <3>2, <3>3, <3>4 DEF Asking
  <2>8. /\ Unproven(row[d]) \in DomainRow /\ Unproven(row[d]).owner = row[d].owner /\ Unproven(row[d]).id = row[d].id
        /\ ~Unproven(row[d]).primary
    BY <2>2 DEF Unproven, DomainRow, DomainStatus
  <2>9. /\ Failed(row[d]) \in DomainRow /\ Failed(row[d]).owner = row[d].owner /\ Failed(row[d]).id = row[d].id
        /\ ~Failed(row[d]).primary
    BY <2>2 DEF Failed, DomainRow, DomainStatus
  <2>10. \A hosted \in BOOLEAN :
           /\ Unready(row[d], hosted) \in DomainRow /\ Unready(row[d], hosted).owner = row[d].owner
           /\ Unready(row[d], hosted).id = row[d].id /\ ~Unready(row[d], hosted).primary
    BY <2>2 DEF Unready, DomainRow, DomainStatus
  <2>11. /\ Verified(row[d]) \in DomainRow /\ Verified(row[d]).owner = row[d].owner /\ Verified(row[d]).id = row[d].id
         /\ Verified(row[d]).primary = row[d].primary /\ IsRoutingReady(Verified(row[d]))
    BY <2>2 DEF Verified, DomainRow, DomainStatus, IsRoutingReady
  <2>12. CASE OnStep(c, "unknown")
    <3>1. /\ row' = [row EXCEPT ![d] = [[row[d] EXCEPT !.status = IF call[c].ready THEN "VERIFIED" ELSE "PENDING"]
                                          EXCEPT !.verifying = FALSE]]
          /\ Ends(c)
      BY <1>2, <2>1, <2>12 DEF ApplyProviderState, OnStep
    <3>2. (IF call[c].ready THEN "VERIFIED" ELSE "PENDING") \in DomainStatus  BY DEF DomainStatus
    <3> QED BY <2>6, <3>1, <3>2
  <2>13. CASE OnStep(c, "unproven")
    <3>1. /\ row' = [row EXCEPT ![d] = [Unproven(row[d]) EXCEPT !.verifying = FALSE]]
          /\ Goes(c, [call[c] EXCEPT !.step = "ensure", !.candidate = Absent])
      BY <1>2, <2>1, <2>13 DEF ApplyProviderState, OnStep
    <3> QED BY <2>7, <2>8, <3>1
  <2>14. CASE OnStep(c, "failed") /\ call[c].ready
    <3>1. /\ row' = [row EXCEPT ![d] = [[row[d] EXCEPT !.status = "VERIFIED"] EXCEPT !.verifying = FALSE]]
          /\ Ends(c)
      BY <1>2, <2>1, <2>14 DEF ApplyProviderState, OnStep
    <3> QED BY <2>6, <2>14, <3>1 DEF DomainStatus
  <2>15. CASE OnStep(c, "failed") /\ ~call[c].ready
    <3>1. /\ row' = [row EXCEPT ![d] = [Failed(row[d]) EXCEPT !.verifying = FALSE]]
          /\ Goes(c, [call[c] EXCEPT !.step = "ensure", !.candidate = Absent])
      BY <1>2, <2>1, <2>15 DEF ApplyProviderState, OnStep
    <3> QED BY <2>7, <2>9, <3>1
  <2>16. CASE OnStep(c, "waiting")
    <3>1. /\ \E hosted \in BOOLEAN : row' = [row EXCEPT ![d] = [Unready(row[d], hosted) EXCEPT !.verifying = FALSE]]
          /\ Goes(c, [call[c] EXCEPT !.step = "ensure", !.candidate = Absent])
      BY <1>2, <2>1, <2>16 DEF ApplyProviderState, OnStep
    <3> QED BY <2>7, <2>10, <3>1
  <2>17. CASE OnStep(c, "verified")
    <3>1. /\ row' = [row EXCEPT ![d] = [Verified(row[d]) EXCEPT !.verifying = FALSE]]
          /\ Goes(c, [call[c] EXCEPT !.step = "ensure", !.candidate = d])
      BY <1>2, <2>1, <2>17 DEF ApplyProviderState, OnStep
    <3> QED BY <2>2, <2>7, <2>11, <3>1
  <2> QED BY <1>0, <2>12, <2>13, <2>14, <2>15, <2>16, <2>17 DEF OnStep
<1> QED BY <1>1, <1>2

LEMMA ReadPrimaryDoes ==
  ASSUME DomainTypeOK, NEW c \in Calls, ReadPrimary(c), call[c].owner \in Owners
  PROVE  /\ DomainTypeOK' /\ UNCHANGED <<row, asked, tasks>> /\ OnStep(c, "ensure")
         /\ primaryLock[call[c].owner] = Absent
         /\ primaryLock' = [primaryLock EXCEPT ![call[c].owner] = c]
         /\ \A b \in Calls \ {c} : call'[b] = call[b]
         /\ SameCall(c) /\ call'[c].step = "write"
         /\ call'[c].kept = IF Chosen(c) = {} THEN Absent ELSE CHOOSE d \in Chosen(c) : TRUE
         /\ call'[c].candidate = IF \E d \in Ready(call[c].owner) : row[d].primary THEN Absent ELSE call'[c].kept
         /\ lost' = IF Chooses(c) THEN lost \ {call[c].owner} ELSE lost
<1> DEFINE k == IF Chosen(c) = {} THEN Absent ELSE CHOOSE d \in Chosen(c) : TRUE
           n == IF \E d \in Ready(call[c].owner) : row[d].primary THEN Absent ELSE k
           q == [call[c] EXCEPT !.step = "write", !.kept = k, !.candidate = n]
<1>1. /\ UNCHANGED <<row, asked, tasks>> /\ OnStep(c, "ensure")
      /\ primaryLock[call[c].owner] = Absent
      /\ primaryLock' = [primaryLock EXCEPT ![call[c].owner] = c]
      /\ Goes(c, q) /\ lost' = IF Chooses(c) THEN lost \ {call[c].owner} ELSE lost
  BY DEF ReadPrimary
<1>2. Chosen(c) \subseteq Domains  BY DEF Chosen, Oldest, Ready, DomainsOf, ClaimedDomains
<1>3. k \in Domains \cup {Absent} /\ n \in Domains \cup {Absent}  BY <1>2
<1>4. call[c] \in DomainCall  BY DEF DomainTypeOK
<1> HIDE DEF k, n
<1>5. /\ q \in DomainCall /\ q.step = "write" /\ q.domain = call[c].domain /\ q.id = call[c].id
      /\ q.owner = call[c].owner /\ q.verifies = call[c].verifies /\ q.ready = call[c].ready
      /\ q.kept = k /\ q.candidate = n
  BY <1>3, <1>4 DEF DomainCall, DomainSteps
<1> HIDE DEF q
<1>6. /\ call' \in [Calls -> DomainCall] /\ call'[c] = q /\ \A b \in Calls \ {c} : call'[b] = call[b]
  BY <1>1, <1>5, CallMoves
<1>7. DomainTypeOK'  BY <1>1, <1>6 DEF DomainTypeOK
<1> QED BY <1>1, <1>5, <1>6, <1>7 DEF SameCall, k, n

LEMMA EnsurePrimaryDoes ==
  ASSUME DomainTypeOK, NEW c \in Calls, EnsurePrimaryDomainInvariant(c), call[c].owner \in Owners
  PROVE  /\ DomainTypeOK' /\ UNCHANGED <<asked, lost, tasks>> /\ OnStep(c, "write") /\ EndsWell(c)
         /\ primaryLock' = [primaryLock EXCEPT ![call[c].owner] = Absent]
         /\ \A d \in Domains : row'[d] = Absent <=> row[d] = Absent
         /\ \A d \in ClaimedDomains :
              /\ row'[d].owner = row[d].owner /\ row'[d].id = row[d].id
              /\ IsRoutingReady(row'[d]) <=> IsRoutingReady(row[d])
              /\ row'[d].primary = IF call[c].candidate \in DomainsOf(call[c].owner) \cup {Absent} /\ row[d].owner = call[c].owner
                                   THEN d = call[c].kept /\ (row[d].primary \/ call[c].candidate = d) ELSE row[d].primary
<1> DEFINE o == call[c].owner
           k == call[c].kept
           n == call[c].candidate
           written(d) == [row[d] EXCEPT !.primary = d = k /\ (@ \/ n = d)]
<1>1. /\ UNCHANGED <<asked, lost, tasks>> /\ OnStep(c, "write") /\ Ends(c)
      /\ primaryLock' = [primaryLock EXCEPT ![o] = Absent]
      /\ row' = IF n \in DomainsOf(o) \cup {Absent}
                THEN [d \in Domains |-> IF d \in DomainsOf(o) THEN written(d) ELSE row[d]]
                ELSE row
  BY DEF EnsurePrimaryDomainInvariant
<1>2. ASSUME NEW d \in ClaimedDomains
      PROVE  /\ written(d) \in DomainRow /\ written(d).owner = row[d].owner /\ written(d).id = row[d].id
             /\ written(d).primary = (d = k /\ (row[d].primary \/ n = d))
             /\ (IsRoutingReady(written(d)) <=> IsRoutingReady(row[d]))
  BY ClaimedRows DEF DomainRow, IsRoutingReady
<1>3. DomainsOf(o) \subseteq ClaimedDomains /\ \A d \in ClaimedDomains : d \in DomainsOf(o) <=> row[d].owner = o
  BY DEF DomainsOf
<1> HIDE DEF written
<1>4. row' \in [Domains -> DomainRow \cup {Absent}]  BY <1>1, <1>2, <1>3 DEF DomainTypeOK
<1>5. DomainTypeOK'  BY <1>1, <1>4, CallEnds DEF DomainTypeOK
<1>6. CASE n \in DomainsOf(o) \cup {Absent}
  <2>1. row' = [d \in Domains |-> IF d \in DomainsOf(o) THEN written(d) ELSE row[d]]  BY <1>1, <1>6
  <2>2. \A d \in Domains : row'[d] = Absent <=> row[d] = Absent
    BY <1>2, <1>3, <2>1, DomainAssumption DEF ClaimedDomains
  <2>3. ASSUME NEW d \in ClaimedDomains
        PROVE  /\ row'[d].owner = row[d].owner /\ row'[d].id = row[d].id
               /\ IsRoutingReady(row'[d]) <=> IsRoutingReady(row[d])
               /\ row'[d].primary = IF row[d].owner = o THEN d = k /\ (row[d].primary \/ n = d) ELSE row[d].primary
    <3>0. d \in Domains  BY DEF ClaimedDomains
    <3>1. CASE row[d].owner = o  BY <1>2, <1>3, <2>1, <3>0, <3>1
    <3>2. CASE row[d].owner # o  BY <1>3, <2>1, <3>0, <3>2
    <3> QED BY <3>1, <3>2
  <2> QED BY <1>1, <1>5, <1>6, <2>2, <2>3, CallEnds
<1>7. CASE n \notin DomainsOf(o) \cup {Absent}  BY <1>1, <1>5, <1>7, CallEnds
<1> QED BY <1>6, <1>7

LEMMA RemoveDomainDoes ==
  ASSUME DomainTypeOK, NEW c \in Calls, RemoveDomain(c)
  PROVE  /\ DomainTypeOK' /\ UNCHANGED <<primaryLock, asked, lost, tasks>> /\ OnStep(c, "detach")
         /\ \/ UNCHANGED row /\ EndsWell(c)
            \/ /\ Present(c)
               /\ row'[call[c].domain] = Absent /\ \A e \in Domains \ {call[c].domain} : row'[e] = row[e]
               /\ \/ /\ call[c].primary /\ SameCall(c) /\ call'[c].step = "ensure" /\ call'[c].candidate = call[c].candidate
                     /\ \A b \in Calls \ {c} : call'[b] = call[b]
                  \/ ~call[c].primary /\ EndsWell(c)
<1>0. UNCHANGED <<primaryLock, asked, lost, tasks>> /\ OnStep(c, "detach")  BY DEF RemoveDomain
<1>1. CASE Ends(c) /\ UNCHANGED row  BY <1>0, <1>1, CallEnds DEF DomainTypeOK
<1>2. CASE ~(Ends(c) /\ UNCHANGED row)
  <2>1. /\ Present(c) /\ row' = [row EXCEPT ![call[c].domain] = Absent]
        /\ IF call[c].primary THEN Goes(c, [call[c] EXCEPT !.step = "ensure"]) ELSE Ends(c)
    BY <1>2 DEF RemoveDomain
  <2>2. call[c].domain \in Domains  BY <2>1 DEF Present, ClaimedDomains
  <2>3. /\ row' \in [Domains -> DomainRow \cup {Absent}] /\ row'[call[c].domain] = Absent
        /\ \A e \in Domains \ {call[c].domain} : row'[e] = row[e]
    BY <2>1, <2>2 DEF DomainTypeOK
  <2>4. CASE call[c].primary
    <3>1. "ensure" \in DomainSteps  BY DEF DomainSteps
    <3>2. /\ call' \in [Calls -> DomainCall] /\ \A b \in Calls \ {c} : call'[b] = call[b]
          /\ SameCall(c) /\ call'[c].step = "ensure" /\ call'[c].candidate = call[c].candidate
      BY <2>1, <2>4, <3>1, CallGoesOn
    <3>3. DomainTypeOK'  BY <1>0, <2>3, <3>2 DEF DomainTypeOK
    <3> QED BY <1>0, <2>1, <2>3, <2>4, <3>2, <3>3
  <2>5. CASE ~call[c].primary  BY <1>0, <2>1, <2>3, <2>5, CallEnds DEF DomainTypeOK
  <2> QED BY <2>4, <2>5
<1> QED BY <1>1, <1>2

------------------------
(* Rows, calls and the lock *)

\* No row is new; rows keep their number and their website.
NoNewRows ==
    \A d \in Domains : row'[d] # Absent => row[d] # Absent /\ row'[d].id = row[d].id /\ row'[d].owner = row[d].owner

\* A call in hand goes on or ends.
Proceeds(c) ==
    /\ ~OnStep(c, "rest")
    /\ \/ EndsWell(c)
       \/ /\ ~OnStep(c, "release") /\ SameCall(c) /\ \A b \in Calls \ {c} : call'[b] = call[b]
          /\ call'[c].step \notin {"rest", "release"} /\ (call'[c].step \in Checking => call[c].step \in Checking)

\* The parts of the facts that do not speak of the lock.
CallFacts == DomainTypeOK /\ Numbered /\ CallsAreAbout /\ OneVerifies /\ OneAtATime

LEMMA ProceedingKeepsCallFacts ==
  ASSUME CallFacts, DomainTypeOK', NoNewRows, NEW c \in Calls, Proceeds(c), UNCHANGED <<asked, tasks>>
  PROVE  CallFacts'
<1> USE DEF CallFacts
<1>1. Numbered'
  <2>1. \A d \in ClaimedDomains' : row'[d].id <= asked  BY DEF Numbered, NoNewRows, ClaimedDomains
  <2>2. \A b \in Calls : call'[b].id <= asked
    BY DEF Numbered, Proceeds, EndsWell, SameCall, DomainTypeOK
  <2> QED BY <2>1, <2>2 DEF Numbered
<1>2. CallsAreAbout'
  <2> SUFFICES ASSUME NEW b \in Calls
               PROVE  /\ call'[b].step # "rest" => call'[b].domain \in Domains /\ call'[b].owner \in Owners
                      /\ call'[b].step \notin {"rest", "release"} /\ Present(b)' => row'[call'[b].domain].owner = call'[b].owner
                      /\ call'[b].step \in Checking => call'[b].verifies
                      /\ call'[b].step = "rest" => ~call'[b].verifies
    BY DEF CallsAreAbout, OnStep
  <2>1. CASE b = c /\ EndsWell(c)  BY <2>1 DEF EndsWell, Checking, Asking
  <2>2. CASE ~(b = c /\ EndsWell(c))
    <3>1. /\ call'[b].domain = call[b].domain /\ call'[b].id = call[b].id /\ call'[b].owner = call[b].owner
          /\ call'[b].verifies = call[b].verifies
          /\ (call'[b].step = "rest" <=> call[b].step = "rest") /\ (call'[b].step = "release" <=> call[b].step = "release")
          /\ (call'[b].step \in Checking => call[b].step \in Checking)
      BY <2>2 DEF Proceeds, EndsWell, SameCall, OnStep
    <3>2. Present(b)' => Present(b) /\ row'[call[b].domain].owner = row[call[b].domain].owner
      BY <3>1 DEF Present, NoNewRows, ClaimedDomains
    <3> QED BY <3>1, <3>2 DEF CallsAreAbout, OnStep
  <2> QED BY <2>1, <2>2
<1>3. OneVerifies'  BY DEF OneVerifies, Proceeds, EndsWell, SameCall
<1>4. OneAtATime'  BY DEF OneAtATime, Proceeds, EndsWell, SameCall, OnStep
<1> QED BY <1>1, <1>2, <1>3, <1>4

\* A call that was at rest takes up a row.
LEMMA StartingKeepsCallFacts ==
  ASSUME CallFacts, DomainTypeOK', NEW c \in Calls, NEW d \in ClaimedDomains,
         UNCHANGED <<row, tasks>>, asked' \in {asked, asked + 1}, Alone, OnStep(c, "rest"),
         \A b \in Calls \ {c} : call'[b] = call[b],
         call'[c].step # "rest", call'[c].domain = d, call'[c].id = row[d].id, call'[c].owner \in Owners,
         call'[c].owner = row[d].owner \/ call'[c].step = "release",
         call'[c].step \in Checking => call'[c].verifies,
         call'[c].verifies => ~Locked(d)
  PROVE  CallFacts'
<1> USE DEF CallFacts
<1>0. d \in Domains /\ row[d] \in DomainRow /\ row[d].owner \in Owners /\ asked \in Nat /\ row[d].id \in Nat
  BY ClaimedRows DEF DomainRow, DomainTypeOK
<1>1. Numbered'
  <2>1. \A e \in ClaimedDomains : row[e].id \in Nat  BY ClaimedRows DEF DomainRow
  <2>2. \A b \in Calls : call[b].id \in Nat  BY DEF DomainTypeOK, DomainCall
  <2>3. \A e \in ClaimedDomains' : row'[e].id <= asked'  BY <1>0, <2>1 DEF Numbered, ClaimedDomains
  <2>4. \A b \in Calls : call'[b].id <= asked'  BY <1>0, <2>2 DEF Numbered
  <2> QED BY <2>3, <2>4 DEF Numbered
<1>2. CallsAreAbout'
  <2> SUFFICES ASSUME NEW b \in Calls
               PROVE  /\ call'[b].step # "rest" => call'[b].domain \in Domains /\ call'[b].owner \in Owners
                      /\ call'[b].step \notin {"rest", "release"} /\ Present(b)' => row'[call'[b].domain].owner = call'[b].owner
                      /\ call'[b].step \in Checking => call'[b].verifies
                      /\ call'[b].step = "rest" => ~call'[b].verifies
    BY DEF CallsAreAbout, OnStep
  <2>1. CASE b = c  BY <1>0, <2>1
  <2>2. CASE b # c
    <3>1. call'[b] = call[b] /\ (Present(b)' <=> Present(b))  BY <2>2 DEF Present, ClaimedDomains
    <3> QED BY <3>1 DEF CallsAreAbout, OnStep
  <2> QED BY <2>1, <2>2
<1>3. OneVerifies'  BY DEF OneVerifies, Locked
<1>4. OneAtATime'  BY DEF OneAtATime, OnStep, Alone
<1> QED BY <1>1, <1>2, <1>3, <1>4

\* A row is written anew while a call goes or stays.
LEMMA ClaimingKeepsCallFacts ==
  ASSUME CallFacts, DomainTypeOK', NEW d \in Domains, UNCHANGED tasks, asked' = asked + 1,
         row'[d].id = asked + 1, \A e \in Domains \ {d} : row'[e] = row[e],
         \A b \in Calls : call'[b] = call[b] \/ (call'[b].step = "rest" /\ ~call'[b].verifies /\ call'[b].id = 0)
  PROVE  CallFacts'
<1> USE DEF CallFacts
<1>1. \A e \in ClaimedDomains : row[e].id \in Nat  BY ClaimedRows DEF DomainRow
<1>2. asked \in Nat /\ \A b \in Calls : call[b].id \in Nat  BY DEF DomainTypeOK, DomainCall
<1>3. Numbered'
  <2>1. \A e \in ClaimedDomains' : row'[e].id <= asked'  BY <1>1, <1>2 DEF Numbered, ClaimedDomains
  <2>2. \A b \in Calls : call'[b].id <= asked'  BY <1>2 DEF Numbered
  <2> QED BY <2>1, <2>2 DEF Numbered
<1>4. \A b \in Calls : call'[b] = call[b] /\ Present(b)' => Present(b) /\ row'[call[b].domain] = row[call[b].domain]
  BY <1>2 DEF Present, ClaimedDomains, Numbered
<1>5. CallsAreAbout'  BY <1>4 DEF CallsAreAbout, OnStep, Checking, Asking
<1> QED BY <1>3, <1>5 DEF OneVerifies, OneAtATime, OnStep

LEMMA WithoutTheLock ==
  ASSUME LockHeld, primaryLock' = primaryLock, NEW c \in Calls, \A b \in Calls \ {c} : call'[b] = call[b],
         ~OnStep(c, "write"), call'[c].step # "write"
  PROVE  LockHeld'
  BY DEF LockHeld, OnStep

LEMMA StepKeepsDomainFacts == DomainFacts /\ Verification /\ [DomainNext]_domainVars => DomainFacts'
<1> SUFFICES ASSUME DomainFacts, Verification, [DomainNext]_domainVars PROVE DomainFacts'
  OBVIOUS
<1>0. CallFacts /\ LockHeld /\ DomainTypeOK /\ CallsAreAbout  BY DEF DomainFacts, CallFacts
<1> SUFFICES CallFacts' /\ LockHeld'
  BY DEF DomainFacts, CallFacts
<1>1. CASE UNCHANGED domainVars
  BY <1>0, <1>1 DEF domainVars, CallFacts, DomainTypeOK, Numbered, CallsAreAbout, OneVerifies, OneAtATime, LockHeld,
                    OnStep, Present, ClaimedDomains
<1>2. ASSUME NEW d \in Domains, TwoDaysPass(d) PROVE CallFacts' /\ LockHeld'
  <2>1. /\ DomainTypeOK' /\ UNCHANGED <<primaryLock, call, asked, lost, tasks>>
        /\ d \in ClaimedDomains /\ \A e \in Domains \ {d} : row'[e] = row[e]
        /\ row'[d].owner = row[d].owner /\ row'[d].id = row[d].id
    BY <1>0, <1>2, TwoDaysPassDoes
  <2>2. \A e \in ClaimedDomains' : e \in ClaimedDomains /\ row'[e].id = row[e].id /\ row'[e].owner = row[e].owner
    BY <2>1 DEF ClaimedDomains
  <2>3. Numbered' /\ CallsAreAbout'
    BY <1>0, <2>1, <2>2 DEF CallFacts, Numbered, CallsAreAbout, Present, OnStep
  <2> QED BY <1>0, <2>1, <2>3 DEF CallFacts, OneVerifies, OneAtATime, OnStep, LockHeld
<1>3. ASSUME NEW d \in Domains, NEW o \in Owners, AddDomain(o, d) PROVE CallFacts' /\ LockHeld'
  <2>1. CallFacts'  BY <1>0, <1>3, AddDomainDoes, ClaimingKeepsCallFacts
  <2> QED BY <1>0, <1>3, <2>1, AddDomainDoes DEF LockHeld, OnStep
<1>14. ASSUME NEW c \in Calls, NEW d \in Domains, NEW o \in Owners, JudgeClaim(c, o, d) PROVE CallFacts' /\ LockHeld'
  <2>1. CallFacts'  BY <1>0, <1>14, JudgeClaimDoes, StartingKeepsCallFacts DEF Checking, Asking
  <2> QED BY <1>0, <1>14, <2>1, JudgeClaimDoes, WithoutTheLock DEF OnStep
<1>15. ASSUME NEW c \in Calls, ReleaseClaim(c) PROVE CallFacts' /\ LockHeld'
  <2>1. /\ DomainTypeOK' /\ UNCHANGED <<primaryLock, tasks>> /\ asked' = asked + 1
        /\ OnStep(c, "release") /\ EndsWell(c) /\ call[c].domain \in Domains
    BY <1>0, <1>15, ReleaseClaimDoes
  <2>2. LockHeld'  BY <1>0, <2>1, WithoutTheLock DEF OnStep, EndsWell
  <2>3. PICK d \in Domains : UNCHANGED row \/ (row'[d].id = asked + 1 /\ \A e \in Domains \ {d} : row'[e] = row[e])
    BY <1>0, <1>15, ReleaseClaimDoes DEF ClaimedDomains
  <2>4. CASE UNCHANGED row
    <3>1. \A b \in Calls : call'[b] = call[b] \/ (call'[b].step = "rest" /\ ~call'[b].verifies /\ call'[b].id = 0)
      BY <2>1 DEF EndsWell
    <3>2. \A e \in ClaimedDomains : row[e].id \in Nat  BY <1>0, ClaimedRows DEF DomainRow
    <3>3. asked \in Nat /\ \A b \in Calls : call[b].id \in Nat  BY <1>0 DEF DomainTypeOK, DomainCall
    <3>4. Numbered'
      <4>1. \A e \in ClaimedDomains' : row'[e].id <= asked'
        BY <1>0, <2>1, <2>4, <3>2, <3>3 DEF CallFacts, Numbered, ClaimedDomains
      <4>2. \A b \in Calls : call'[b].id <= asked'  BY <1>0, <2>1, <3>1, <3>3 DEF CallFacts, Numbered
      <4> QED BY <4>1, <4>2 DEF Numbered
    <3>5. CallsAreAbout'
      BY <1>0, <2>4, <3>1 DEF CallsAreAbout, OnStep, Present, ClaimedDomains, Checking, Asking
    <3> QED BY <1>0, <2>1, <2>2, <3>1, <3>4, <3>5 DEF CallFacts, OneVerifies, OneAtATime, OnStep
  <2>5. CASE ~UNCHANGED row  BY <1>0, <2>1, <2>2, <2>3, <2>5, ClaimingKeepsCallFacts DEF EndsWell
  <2> QED BY <2>4, <2>5
<1>4. ASSUME NEW c \in Calls, NEW d \in Domains, StartVerification(c, d) PROVE CallFacts' /\ LockHeld'
  <2>0. row[d].owner \in Owners  BY <1>0, <1>4, StartVerificationDoes, ClaimedRows DEF DomainRow
  <2>1. CallFacts'  BY <1>0, <1>4, <2>0, StartVerificationDoes, StartingKeepsCallFacts
  <2> QED BY <1>0, <1>4, <2>1, StartVerificationDoes, WithoutTheLock DEF OnStep
<1>5. ASSUME NEW c \in Calls, NEW d \in Domains, StartRemoval(c, d) PROVE CallFacts' /\ LockHeld'
  <2>0. row[d].owner \in Owners  BY <1>0, <1>5, StartRemovalDoes, ClaimedRows DEF DomainRow
  <2>1. CallFacts'
    BY <1>0, <1>5, <2>0, StartRemovalDoes, StartingKeepsCallFacts DEF Checking, Asking
  <2> QED BY <1>0, <1>5, <2>1, StartRemovalDoes, WithoutTheLock DEF OnStep
<1>6. ASSUME NEW c \in Calls, NEW d \in Domains, SetPrimaryDomain(c, d) PROVE CallFacts' /\ LockHeld'
  <2>1. CallFacts'
    BY <1>0, <1>6, SetPrimaryDomainDoes, StartingKeepsCallFacts DEF Checking, Asking
  <2>2. LockHeld'
    BY <1>0, <1>6, SetPrimaryDomainDoes, DomainAssumption DEF LockHeld, OnStep, DomainTypeOK
  <2> QED BY <2>1, <2>2
<1>7. ASSUME NEW c \in Calls, HasOwnershipTxt(c) \/ VerifyAtProvider(c) PROVE CallFacts' /\ LockHeld'
  <2>1. /\ DomainTypeOK' /\ UNCHANGED <<row, primaryLock, asked, lost, tasks>>
        /\ \A b \in Calls \ {c} : call'[b] = call[b]
        /\ SameCall(c) /\ call[c].step \in Asking /\ call'[c].step \in Asking
    BY <1>0, <1>7, AsksDo
  <2>2. Proceeds(c) /\ NoNewRows  BY <2>1 DEF Proceeds, NoNewRows, OnStep, Asking, Checking
  <2> QED BY <1>0, <2>1, <2>2, ProceedingKeepsCallFacts, WithoutTheLock DEF OnStep, Asking
<1>8. ASSUME NEW c \in Calls, LoseCall(c) PROVE CallFacts' /\ LockHeld'
  <2>1. /\ DomainTypeOK' /\ UNCHANGED <<row, asked, tasks>> /\ EndsWell(c) /\ ~OnStep(c, "rest")
        /\ \A o \in Owners : primaryLock'[o] = IF primaryLock[o] = c THEN Absent ELSE primaryLock[o]
    BY <1>0, <1>8, LoseCallDoes
  <2>2. Proceeds(c) /\ NoNewRows  BY <2>1 DEF Proceeds, NoNewRows
  <2>3. LockHeld'  BY <1>0, <2>1, DomainAssumption DEF LockHeld, OnStep, EndsWell
  <2> QED BY <1>0, <2>1, <2>2, <2>3, ProceedingKeepsCallFacts
<1>9. ASSUME NEW c \in Calls, ClaimVerification(c) PROVE CallFacts' /\ LockHeld'
  <2>1. DomainTypeOK' /\ UNCHANGED <<primaryLock, asked, lost, tasks>> /\ OnStep(c, "claim")
    BY <1>0, <1>9, ClaimVerificationDoes
  <2>2. NoNewRows  BY <1>0, <1>9, ClaimVerificationDoes DEF NoNewRows, Present, ClaimedDomains
  <2>3. /\ \A b \in Calls \ {c} : call'[b] = call[b]
        /\ EndsWell(c) \/ (SameCall(c) /\ call'[c].step \in Asking)
    BY <1>0, <1>9, ClaimVerificationDoes DEF EndsWell
  <2>4. Proceeds(c)  BY <2>1, <2>3 DEF Proceeds, OnStep, Asking, Checking
  <2> QED BY <1>0, <2>1, <2>2, <2>3, <2>4, ProceedingKeepsCallFacts, WithoutTheLock DEF OnStep, Asking, EndsWell
<1>10. ASSUME NEW c \in Calls, ApplyProviderState(c) PROVE CallFacts' /\ LockHeld'
  <2>1. DomainTypeOK' /\ UNCHANGED <<primaryLock, asked, lost, tasks>> /\ call[c].step \in Asking
    BY <1>0, <1>10, ApplyProviderStateDoes
  <2>2. NoNewRows  BY <1>0, <1>10, ApplyProviderStateDoes DEF NoNewRows, Present, ClaimedDomains
  <2>3. /\ \A b \in Calls \ {c} : call'[b] = call[b]
        /\ EndsWell(c) \/ (SameCall(c) /\ call'[c].step = "ensure")
    BY <1>0, <1>10, ApplyProviderStateDoes DEF EndsWell
  <2>4. Proceeds(c)  BY <2>1, <2>3 DEF Proceeds, OnStep, Asking, Checking
  <2> QED BY <1>0, <2>1, <2>2, <2>3, <2>4, ProceedingKeepsCallFacts, WithoutTheLock DEF OnStep, Asking, EndsWell
<1>11. ASSUME NEW c \in Calls, ReadPrimary(c) PROVE CallFacts' /\ LockHeld'
  <2>0. call[c].owner \in Owners  BY <1>0, <1>11 DEF CallsAreAbout, ReadPrimary, OnStep
  <2>1. /\ DomainTypeOK' /\ UNCHANGED <<row, asked, tasks>> /\ OnStep(c, "ensure")
        /\ primaryLock[call[c].owner] = Absent
        /\ primaryLock' = [primaryLock EXCEPT ![call[c].owner] = c]
        /\ \A b \in Calls \ {c} : call'[b] = call[b]
        /\ SameCall(c) /\ call'[c].step = "write"
    BY <1>0, <1>11, <2>0, ReadPrimaryDoes
  <2>2. Proceeds(c) /\ NoNewRows  BY <2>1 DEF Proceeds, NoNewRows, OnStep, Asking, Checking
  <2>3. LockHeld'
    BY <1>0, <2>0, <2>1, DomainAssumption DEF LockHeld, OnStep, SameCall, DomainTypeOK
  <2> QED BY <1>0, <2>1, <2>2, <2>3, ProceedingKeepsCallFacts
<1>12. ASSUME NEW c \in Calls, EnsurePrimaryDomainInvariant(c) PROVE CallFacts' /\ LockHeld'
  <2>0. call[c].owner \in Owners  BY <1>0, <1>12 DEF CallsAreAbout, EnsurePrimaryDomainInvariant, OnStep
  <2>1. /\ DomainTypeOK' /\ UNCHANGED <<asked, lost, tasks>> /\ OnStep(c, "write") /\ EndsWell(c)
        /\ primaryLock' = [primaryLock EXCEPT ![call[c].owner] = Absent]
        /\ \A d \in Domains : row'[d] = Absent <=> row[d] = Absent
        /\ \A d \in ClaimedDomains : row'[d].owner = row[d].owner /\ row'[d].id = row[d].id
    BY <1>0, <1>12, <2>0, EnsurePrimaryDoes
  <2>2. Proceeds(c) /\ NoNewRows  BY <2>1 DEF Proceeds, NoNewRows, OnStep, ClaimedDomains
  <2>3. LockHeld'
    BY <1>0, <2>0, <2>1, DomainAssumption DEF LockHeld, OnStep, EndsWell, DomainTypeOK
  <2> QED BY <1>0, <2>1, <2>2, <2>3, ProceedingKeepsCallFacts
<1>13. ASSUME NEW c \in Calls, RemoveDomain(c) PROVE CallFacts' /\ LockHeld'
  <2>1. DomainTypeOK' /\ UNCHANGED <<primaryLock, asked, lost, tasks>> /\ OnStep(c, "detach")
    BY <1>0, <1>13, RemoveDomainDoes
  <2>2. NoNewRows  BY <1>0, <1>13, RemoveDomainDoes DEF NoNewRows, Present, ClaimedDomains
  <2>3. /\ \A b \in Calls \ {c} : call'[b] = call[b]
        /\ EndsWell(c) \/ (SameCall(c) /\ call'[c].step = "ensure")
    BY <1>0, <1>13, RemoveDomainDoes DEF EndsWell
  <2>4. Proceeds(c)  BY <2>1, <2>3 DEF Proceeds, OnStep, Asking, Checking
  <2> QED BY <1>0, <2>1, <2>2, <2>3, <2>4, ProceedingKeepsCallFacts, WithoutTheLock DEF OnStep, EndsWell
<1> QED BY <1>1, <1>2, <1>3, <1>4, <1>5, <1>6, <1>7, <1>8, <1>9, <1>10, <1>11, <1>12, <1>13, <1>14,
     <1>15 DEF DomainNext

------------------------
(* The choice of the primary domain *)

LEMMA AlikeRows ==
  ASSUME \A d \in Domains : row'[d] = Absent <=> row[d] = Absent,
         \A d \in ClaimedDomains : /\ row'[d].owner = row[d].owner /\ row'[d].id = row[d].id
                                   /\ row'[d].primary = row[d].primary
                                   /\ (IsRoutingReady(row'[d]) <=> IsRoutingReady(row[d]))
  PROVE  /\ ClaimedDomains' = ClaimedDomains
         /\ \A o \in Owners : Ready(o)' = Ready(o) /\ Primaries(o)' = Primaries(o)
  BY DEF ClaimedDomains, DomainsOf, Ready, Primaries

\* Rows of a website that are not touched.
LEMMA OtherWebsites ==
  ASSUME NEW d \in Domains, \A e \in Domains \ {d} : row'[e] = row[e], NEW p \in Owners,
         d \in ClaimedDomains => row[d].owner # p, d \in ClaimedDomains' => row'[d].owner # p
  PROVE  Ready(p)' = Ready(p) /\ Primaries(p)' = Primaries(p)
  BY DEF ClaimedDomains, DomainsOf, Ready, Primaries

LEMMA OldestExists ==
  ASSUME DomainTypeOK, NEW D \in SUBSET ClaimedDomains, D # {}
  PROVE  Oldest(D) # {}
<1>0. \A d \in D : row[d].id \in Nat  BY ClaimedRows DEF DomainRow
<1> DEFINE R == OpToRel(<, Nat)
           T == {row[d].id : d \in D}
<1>1. T \in SUBSET Nat /\ T # {}  BY <1>0
<1>2. \A k, m \in Nat : <<k, m>> \in R <=> k < m  BY DEF OpToRel
<1>3. IsWellFoundedOn(R, Nat)  BY NatLessThanWellFounded
<1> HIDE DEF R, T
<1>4. PICK x \in T : \A y \in T : ~(<<y, x>> \in R)  BY <1>1, <1>3, WFMin
<1>5. \A y \in T : x <= y
  <2> SUFFICES ASSUME NEW y \in T PROVE x <= y
    OBVIOUS
  <2>1. x \in Nat /\ y \in Nat /\ ~(<<y, x>> \in R)  BY <1>1, <1>4
  <2>2. ~(y < x)  BY <1>2, <2>1
  <2> QED BY <2>1, <2>2
<1>6. PICK d \in D : row[d].id = x  BY <1>4 DEF T
<1>7. \A e \in D : row[d].id <= row[e].id  BY <1>5, <1>6 DEF T
<1> QED BY <1>6, <1>7 DEF Oldest

\* What a repair chooses is ready, and it chooses nothing only if nothing is.
LEMMA ChoiceIsRight ==
  ASSUME DomainTypeOK, AtMostOne, Verification, NEW c \in Calls, OnStep(c, "ensure"), call[c].owner \in Owners,
         Chooses(c) \/ Fine(call[c].owner)
  PROVE  Chosen(c) \subseteq Ready(call[c].owner) /\ (Chosen(c) = {} => Ready(call[c].owner) = {})
<1> DEFINE o == call[c].owner
           P == {d \in Ready(o) : row[d].primary}
<1>1. CASE P # {}
  <2>1. PICK d \in P : TRUE  BY <1>1
  <2>2. \A e \in P : e = d  BY <2>1 DEF AtMostOne, Primaries, Ready
  <2>3. Chosen(c) = {d}
    <3>1. row[d].id \in Nat  BY ClaimedRows DEF Ready, DomainsOf, DomainRow
    <3>2. Oldest(P) = {d}  BY <2>1, <2>2, <3>1 DEF Oldest
    <3> QED BY <1>1, <3>2 DEF Chosen
  <2> QED BY <2>1, <2>3
<1>2. CASE P = {} /\ call[c].candidate # Absent /\ Chooses(c)
  <2>1. Chosen(c) = {call[c].candidate} \cap Ready(o)  BY <1>2 DEF Chosen
  <2>2. call[c].candidate \in Ready(o)  BY <1>2 DEF Verification, Chooses
  <2> QED BY <2>1, <2>2
<1>3. CASE P = {} /\ call[c].candidate = Absent
  <2>1. Chosen(c) = Oldest(Ready(o))  BY <1>3 DEF Chosen
  <2>2. Ready(o) \in SUBSET ClaimedDomains /\ Oldest(Ready(o)) \subseteq Ready(o)
    BY DEF Ready, DomainsOf, Oldest
  <2> QED BY <2>1, <2>2, OldestExists
<1>4. CASE P = {} /\ Fine(o)
  <2>1. Ready(o) = {}  BY <1>4 DEF Fine, Primaries, DomainsOf
  <2>2. Oldest(Ready(o)) = {}  BY <2>1 DEF Oldest
  <2> QED BY <1>4, <2>1, <2>2 DEF Chosen
<1> QED BY <1>1, <1>2, <1>3, <1>4

ChoiceInv == Verification /\ Removal /\ AtMostOne /\ \A o \in Owners : Repaired(o)

\* A call that is neither repairing nor holding the lock, before and after.
LEMMA BystanderKeepsRepaired ==
  ASSUME DomainTypeOK, LockHeld, NEW c \in Calls, \A b \in Calls \ {c} : call'[b] = call[b],
         call[c].step \notin {"ensure", "write"},
         primaryLock' = primaryLock, lost' = lost, NEW o \in Owners, Repaired(o),
         Ready(o)' = Ready(o), Primaries(o)' = Primaries(o), \A b \in Calls : OnStep(b, "ensure") /\ Present(b) => Present(b)'
  PROVE  Repaired(o)'
<1>1. primaryLock[o] # c  BY DEF LockHeld, OnStep
<1>2. primaryLock[o] \in Calls \cup {Absent}  BY DEF DomainTypeOK
<1>3. primaryLock[o] # Absent => call'[primaryLock[o]] = call[primaryLock[o]]  BY <1>1, <1>2
<1>4. \A b \in Calls : OnStep(b, "ensure") => call'[b] = call[b]  BY DEF OnStep
<1> QED BY <1>2, <1>3, <1>4 DEF Repaired, RightChoice, Fine, OnStep, Chooses

\* Rows that stay alike and a call that goes on with its verification or ends.
LEMMA AlikeKeepsChoiceInv ==
  ASSUME DomainFacts, ChoiceInv, NEW c \in Calls, \A b \in Calls \ {c} : call'[b] = call[b],
         call[c].step \in Checking \cup {"detach"}, call'[c].step \in Asking \cup {"rest"},
         (SameCall(c) /\ call[c].step \in Checking) \/ EndsWell(c),
         UNCHANGED <<primaryLock, lost, tasks>>,
         \A d \in Domains : row'[d] = Absent <=> row[d] = Absent,
         \A d \in ClaimedDomains : /\ row'[d].owner = row[d].owner /\ row'[d].id = row[d].id
                                   /\ row'[d].primary = row[d].primary
                                   /\ (IsRoutingReady(row'[d]) <=> IsRoutingReady(row[d]))
  PROVE  ChoiceInv'
<1>1. /\ ClaimedDomains' = ClaimedDomains
      /\ \A o \in Owners : Ready(o)' = Ready(o) /\ Primaries(o)' = Primaries(o)
  BY AlikeRows
<1>0. \A b \in Calls : OnStep(b, "ensure") /\ Present(b) => Present(b)'
  BY <1>1 DEF Present, OnStep, Checking, Asking
<1>2. \A o \in Owners : Repaired(o)'
  BY <1>0, <1>1, BystanderKeepsRepaired DEF DomainFacts, ChoiceInv, Checking, Asking
<1>3. AtMostOne'  BY <1>1 DEF ChoiceInv, AtMostOne
<1>4. Verification'
  <2> SUFFICES ASSUME NEW b \in Calls
               PROVE  /\ call'[b].step \in Checking /\ Present(b)' => (call'[b].ready <=> IsRoutingReady(row'[call'[b].domain]))
                      /\ call'[b].step = "ensure" /\ call'[b].candidate # Absent =>
                           call'[b].candidate = call'[b].domain /\ call'[b].verifies
                           /\ (Present(b)' => call'[b].domain \in Ready(call[b].owner)')
    BY DEF Verification, OnStep
  <2>1. CASE b = c
    <3>1. CASE call'[c].step \in Checking
      <4>1. SameCall(c) /\ call[c].step \in Checking  BY <3>1 DEF EndsWell, Checking, Asking
      <4>2. Present(c)' => Present(c) /\ (IsRoutingReady(row'[call[c].domain]) <=> IsRoutingReady(row[call[c].domain]))
        BY <1>1, <4>1 DEF Present, SameCall
      <4> QED BY <2>1, <3>1, <4>1, <4>2 DEF ChoiceInv, Verification, SameCall, Checking, Asking
    <3>2. CASE call'[c].step \notin Checking  BY <2>1, <3>2 DEF Checking
    <3> QED BY <3>1, <3>2
  <2>2. CASE b # c
    <3>1. call'[b] = call[b]  BY <2>2
    <3>2. Present(b)' => Present(b) /\ (IsRoutingReady(row'[call[b].domain]) <=> IsRoutingReady(row[call[b].domain]))
      BY <1>1, <3>1 DEF Present
    <3>3. call[b].step = "ensure" => call[b].owner \in Owners  BY DEF DomainFacts, CallsAreAbout, OnStep
    <3>4. call[b].step = "ensure" => Ready(call[b].owner)' = Ready(call[b].owner)  BY <1>1, <3>1, <3>3
    <3> QED BY <3>1, <3>2, <3>4 DEF ChoiceInv, Verification, OnStep
  <2> QED BY <2>1, <2>2
<1>5. Removal'
  <2> SUFFICES ASSUME NEW b \in Calls, call'[b].step = "detach"
               PROVE  /\ "alone" \in tasks /\ call'[b].candidate = Absent
                      /\ Present(b)' => call'[b].primary = row'[call'[b].domain].primary
    BY DEF Removal, OnStep
  <2>1. b # c /\ call'[b] = call[b]  BY DEF Asking
  <2>2. Present(b)' => Present(b) /\ row'[call[b].domain].primary = row[call[b].domain].primary
    BY <1>1, <2>1 DEF Present
  <2> QED BY <2>1, <2>2 DEF ChoiceInv, Removal, OnStep
<1> QED BY <1>2, <1>3, <1>4, <1>5 DEF ChoiceInv

\* A call at rest takes up a row without taking the lock.
LEMMA StartingKeepsChoiceInv ==
  ASSUME DomainFacts, ChoiceInv, NEW c \in Calls, \A b \in Calls \ {c} : call'[b] = call[b],
         OnStep(c, "rest"), UNCHANGED <<row, tasks>>,
         call'[c].step # "ensure",
         call'[c].step \in Checking => (call'[c].ready <=> IsRoutingReady(row[call'[c].domain])),
         call'[c].step = "detach" => /\ "alone" \in tasks /\ call'[c].candidate = Absent
                                     /\ call'[c].primary = row[call'[c].domain].primary
  PROVE  Verification' /\ Removal' /\ AtMostOne'
<1>1. AtMostOne'  BY DEF ChoiceInv, AtMostOne, Primaries, DomainsOf, ClaimedDomains
<1>2. \A b \in Calls \ {c} : Present(b)' <=> Present(b)  BY DEF Present, ClaimedDomains
<1>3. Removal'  BY <1>2 DEF ChoiceInv, Removal, OnStep
<1>4. \A b \in Calls \ {c} : Ready(call[b].owner)' = Ready(call[b].owner)
  BY DEF Ready, DomainsOf, ClaimedDomains
<1>5. Verification'  BY <1>2, <1>4 DEF ChoiceInv, Verification, OnStep
<1> QED BY <1>1, <1>3, <1>5

\* A row is written anew, over none or over the claim of another website.
LEMMA ClaimingKeepsChoiceInv ==
  ASSUME DomainFacts, ChoiceInv, NEW d \in Domains, UNCHANGED <<primaryLock, tasks>>, asked' = asked + 1,
         row'[d] \in DomainRow, row'[d].id = asked + 1, ~row'[d].primary, row'[d].status = "PENDING",
         \A e \in Domains \ {d} : row'[e] = row[e],
         lost \subseteq lost', d \in ClaimedDomains /\ IsRoutingReady(row[d]) => row[d].owner \in lost',
         \A b \in Calls : call'[b] = call[b] \/ (OnStep(b, "release") /\ call'[b].step = "rest")
  PROVE  ChoiceInv'
<1> USE DEF DomainFacts, ChoiceInv
<1>1. row'[d] # Absent  BY DomainAssumption
<1>2. \A p \in Owners : Ready(p)' = Ready(p) \ {d} /\ Primaries(p)' = Primaries(p) \ {d}
  BY <1>1 DEF Ready, Primaries, DomainsOf, ClaimedDomains, IsRoutingReady
<1>3. \A p \in Owners : d \in Ready(p) => p \in lost'  BY DEF Ready, DomainsOf
<1>4. asked \in Nat /\ \A b \in Calls : call[b].id \in Nat /\ call[b].id <= asked
  BY DEF DomainTypeOK, DomainCall, Numbered
<1>5. \A b \in Calls : call'[b] = call[b] /\ Present(b)' =>
          Present(b) /\ call[b].domain # d /\ row'[call[b].domain] = row[call[b].domain]
  BY <1>4 DEF Present, ClaimedDomains
<1>6. \A b \in Calls : call'[b] = call[b] /\ call[b].domain # d /\ Present(b) => Present(b)'
  BY DEF Present, ClaimedDomains
<1>7. \A b \in Calls : call'[b].step # "rest" => call'[b] = call[b]  OBVIOUS
<1>8. Verification'
  <2> SUFFICES ASSUME NEW b \in Calls
               PROVE  /\ call'[b].step \in Checking /\ Present(b)' => (call'[b].ready <=> IsRoutingReady(row'[call'[b].domain]))
                      /\ call'[b].step = "ensure" /\ call'[b].candidate # Absent =>
                           call'[b].candidate = call'[b].domain /\ call'[b].verifies
                           /\ (Present(b)' => call'[b].domain \in Ready(call[b].owner)')
    BY <1>7 DEF Verification, OnStep
  <2>1. CASE call'[b].step \in Checking /\ Present(b)'
    BY <1>5, <1>7, <2>1 DEF Verification, OnStep, Checking, Asking
  <2>2. CASE call'[b].step = "ensure"
    <3>1. call'[b] = call[b] /\ call[b].owner \in Owners  BY <1>7, <2>2 DEF CallsAreAbout, OnStep
    <3>2. Present(b)' /\ call[b].domain \in Ready(call[b].owner) => call[b].domain \in Ready(call[b].owner)'
      BY <1>2, <1>5, <3>1
    <3> QED BY <1>5, <2>2, <3>1, <3>2 DEF Verification, OnStep, Checking, Asking
  <2> QED BY <2>1, <2>2 DEF Checking, Asking
<1>9. Removal' /\ AtMostOne'  BY <1>2, <1>5, <1>7 DEF Removal, OnStep, AtMostOne
<1>10. ASSUME NEW p \in Owners, p \notin lost' PROVE Repaired(p)'
  <2>1. p \notin lost /\ d \notin Ready(p) /\ Ready(p)' = Ready(p)  BY <1>2, <1>3, <1>10
  <2>2. CASE \E b \in Calls : OnStep(b, "ensure") /\ call[b].owner = p /\ Chooses(b)
    <3>1. PICK b \in Calls : OnStep(b, "ensure") /\ call[b].owner = p /\ Chooses(b)  BY <2>2
    <3>2. call'[b] = call[b]  BY <3>1 DEF OnStep
    <3>3. call[b].candidate # Absent => Present(b) /\ call[b].domain \in Ready(p)
      BY <3>1 DEF Chooses, Verification
    <3>4. Chooses(b)'  BY <1>6, <2>1, <3>2, <3>3 DEF Chooses
    <3> QED BY <3>1, <3>2, <3>4 DEF Repaired, OnStep
  <2>3. CASE primaryLock[p] # Absent /\ RightChoice(p, call[primaryLock[p]])
    <3>1. primaryLock[p] \in Calls /\ call[primaryLock[p]].step = "write"
      BY <2>3 DEF DomainTypeOK, LockHeld, OnStep
    <3>2. call'[primaryLock[p]] = call[primaryLock[p]]  BY <3>1 DEF OnStep
    <3>3. RightChoice(p, call[primaryLock[p]])'  BY <1>2, <2>1, <2>3, <3>2 DEF RightChoice
    <3> QED BY <2>3, <3>3 DEF Repaired
  <2>4. CASE primaryLock[p] = Absent /\ Fine(p)  BY <1>2, <2>1, <2>4 DEF Repaired, Fine
  <2> QED BY <2>1, <2>2, <2>3, <2>4 DEF Repaired
<1> QED BY <1>8, <1>9, <1>10 DEF Repaired

\* A call that is given up leaves its website to the next choice.
LEMMA LosingKeepsChoiceInv ==
  ASSUME DomainFacts, ChoiceInv, NEW c \in Calls, LoseCall(c)
  PROVE  ChoiceInv'
<1> USE DEF DomainFacts, ChoiceInv
<1>1. /\ UNCHANGED <<row, asked, tasks>> /\ EndsWell(c)
      /\ lost \subseteq lost' /\ (call[c].step \in {"ensure", "write"} => call[c].owner \in lost')
      /\ \A o \in Owners : primaryLock'[o] = IF primaryLock[o] = c THEN Absent ELSE primaryLock[o]
  BY LoseCallDoes
<1>2. /\ ClaimedDomains' = ClaimedDomains
      /\ \A o \in Owners : Ready(o)' = Ready(o) /\ Primaries(o)' = Primaries(o)
  BY <1>1, AlikeRows
<1>3. \A b \in Calls \ {c} : call'[b] = call[b] /\ (Present(b)' <=> Present(b))
  BY <1>1, <1>2 DEF EndsWell, Present
<1>4. call'[c].step = "rest"  BY <1>1 DEF EndsWell
<1>5. Removal' /\ AtMostOne'  BY <1>1, <1>2, <1>3, <1>4 DEF Removal, AtMostOne, OnStep
<1>6. \A b \in Calls \ {c} : OnStep(b, "ensure") => Ready(call[b].owner)' = Ready(call[b].owner)
  <2> SUFFICES ASSUME NEW b \in Calls \ {c}, OnStep(b, "ensure") PROVE Ready(call[b].owner)' = Ready(call[b].owner)
    OBVIOUS
  <2>1. PICK p \in Owners : p = call[b].owner /\ p = call'[b].owner  BY <1>3 DEF CallsAreAbout, OnStep
  <2> QED BY <1>2, <2>1
<1>7. Verification'  BY <1>1, <1>3, <1>4, <1>6 DEF Verification, OnStep, Checking, Asking
<1>8. ASSUME NEW p \in Owners, p \notin lost' PROVE Repaired(p)'
  <2>1. p \notin lost /\ ~(OnStep(c, "ensure") /\ call[c].owner = p)  BY <1>1, <1>8 DEF OnStep
  <2>2. primaryLock[p] # c  BY <1>1, <1>8 DEF LockHeld, OnStep
  <2>3. primaryLock'[p] = primaryLock[p] /\ primaryLock[p] \in Calls \cup {Absent}
    BY <1>1, <2>2 DEF DomainTypeOK
  <2>4. primaryLock[p] # Absent => call'[primaryLock[p]] = call[primaryLock[p]]  BY <1>3, <2>2, <2>3
  <2>5. (\E b \in Calls : OnStep(b, "ensure") /\ call[b].owner = p /\ Chooses(b)) => Repaired(p)'
    BY <1>3, <2>1 DEF Repaired, OnStep, Chooses
  <2> QED BY <1>2, <2>1, <2>3, <2>4, <2>5 DEF Repaired, RightChoice, Fine
<1> QED BY <1>5, <1>7, <1>8 DEF Repaired

\* An answer that is followed by a repair.
LEMMA AnswerKeepsChoiceInv ==
  ASSUME DomainFacts, DomainFacts', ChoiceInv, NEW c \in Calls, UNCHANGED <<primaryLock, asked, lost, tasks>>, call[c].step \in Asking,
         Present(c), \A e \in Domains \ {call[c].domain} : row'[e] = row[e],
         NEW r \in DomainRow, row'[call[c].domain] = r,
         r.owner = row[call[c].domain].owner, r.id = row[call[c].domain].id, r.primary => row[call[c].domain].primary,
         SameCall(c), call'[c].step = "ensure", \A b \in Calls \ {c} : call'[b] = call[b],
         call'[c].candidate = Absent \/ (call'[c].candidate = call[c].domain /\ IsRoutingReady(r))
  PROVE  ChoiceInv'
<1> USE DEF DomainFacts, ChoiceInv
<1>0. PICK d \in ClaimedDomains, o \in Owners : d = call[c].domain /\ o = row[d].owner /\ o = call[c].owner /\ d \in Domains
  BY DEF Present, CallsAreAbout, OnStep, Asking, ClaimedDomains
<1>1. ClaimedDomains' = ClaimedDomains  BY <1>0, DomainAssumption DEF ClaimedDomains
<1>2. \A p \in Owners \ {o} : Ready(p)' = Ready(p) /\ Primaries(p)' = Primaries(p)
  BY <1>0, OtherWebsites
<1>3. \A p \in Owners : Primaries(p)' \subseteq Primaries(p)
  <2> SUFFICES ASSUME NEW p \in Owners, NEW e \in Primaries(p)' PROVE e \in Primaries(p)
    OBVIOUS
  <2>1. e \in ClaimedDomains /\ e \in Domains /\ row'[e].owner = p /\ row'[e].primary
    BY <1>1 DEF Primaries, DomainsOf, ClaimedDomains
  <2>2. row[e].owner = p /\ row[e].primary  BY <1>0, <2>1
  <2> QED BY <2>1, <2>2 DEF Primaries, DomainsOf
<1>4. AtMostOne'  BY <1>3 DEF AtMostOne
<1>5. call[c].verifies /\ call'[c].verifies  BY DEF CallsAreAbout, Checking, SameCall
<1>6. \A b \in Calls \ {c} : call[b].verifies => call[b].domain # d  BY <1>0, <1>5 DEF OneVerifies
<1>7. Removal'
  <2> SUFFICES ASSUME NEW b \in Calls, call'[b].step = "detach"
               PROVE  FALSE
    BY DEF Removal, OnStep
  <2>1. b # c /\ OnStep(b, "detach")  BY DEF OnStep
  <2> QED BY <2>1 DEF Removal, OneAtATime, OnStep, Asking
<1>8. Verification'
  <2> SUFFICES ASSUME NEW b \in Calls
               PROVE  /\ call'[b].step \in Checking /\ Present(b)' => (call'[b].ready <=> IsRoutingReady(row'[call'[b].domain]))
                      /\ call'[b].step = "ensure" /\ call'[b].candidate # Absent =>
                           call'[b].candidate = call'[b].domain /\ call'[b].verifies
                           /\ (Present(b)' => call'[b].domain \in Ready(call[b].owner)')
    BY DEF Verification, OnStep
  <2>1. CASE b = c
    <3>1. call'[c].candidate # Absent => d \in Ready(o)'  BY <1>0, <1>1 DEF Ready, DomainsOf
    <3>2. call'[c].owner = o /\ call'[c].domain = d  BY <1>0 DEF SameCall
    <3>3. d \in Ready(o)' => d \in Ready(call[c].owner)'  BY <3>2
    <3> QED BY <1>0, <1>5, <2>1, <3>1, <3>2, <3>3 DEF Checking, Asking
  <2>2. CASE b # c
    <3>1. call'[b] = call[b]  BY <2>2
    <3>2. CASE call[b].verifies /\ call[b].domain \in Domains
      <4>1. row'[call[b].domain] = row[call[b].domain]  BY <1>0, <1>6, <2>2, <3>2
      <4>2. Present(b)' <=> Present(b)  BY <1>1, <3>1, <4>1 DEF Present
      <4>3. ASSUME call[b].step = "ensure", call[b].candidate # Absent, Present(b) PROVE call[b].domain \in Ready(call[b].owner)'
        <5>1. PICK p \in Owners : p = call[b].owner /\ p = call'[b].owner
          BY <3>1, <4>3 DEF CallsAreAbout, OnStep
        <5>2. call[b].domain \in Ready(p)  BY <4>3, <5>1 DEF Verification, OnStep
        <5>3. call[b].domain \in Ready(p)'  BY <1>1, <4>1, <5>2 DEF Ready, DomainsOf
        <5> QED BY <5>1, <5>3
      <4> QED BY <3>1, <4>1, <4>2, <4>3 DEF Verification, OnStep
    <3>3. CASE ~(call[b].verifies /\ call[b].domain \in Domains)
      <4>1. call[b].step \notin Checking  BY <3>3 DEF CallsAreAbout, OnStep, Checking, Asking
      <4>2. call[b].step = "ensure" => call[b].candidate = Absent
        BY <3>3 DEF CallsAreAbout, OnStep, Verification
      <4> QED BY <3>1, <4>1, <4>2
    <3> QED BY <3>2, <3>3
  <2> QED BY <2>1, <2>2
<1>10. \A b \in Calls : Present(b) => Present(b)'
  <2>1. \A b \in Calls : call'[b].domain = call[b].domain /\ call'[b].id = call[b].id  BY DEF SameCall
  <2>2. \A e \in ClaimedDomains : row'[e].id = row[e].id  BY <1>0 DEF ClaimedDomains
  <2> QED BY <1>1, <2>1, <2>2 DEF Present
<1>9. ASSUME NEW p \in Owners PROVE Repaired(p)'
  <2>1. CASE p = o
    <3>1. call'[c].owner = p  BY <1>0, <2>1 DEF SameCall
    <3>2. Chooses(c)'  BY <1>10 DEF Chooses
    <3> QED BY <3>1, <3>2 DEF Repaired, OnStep
  <2>2. CASE p # o  BY <1>2, <1>10, <2>2, BystanderKeepsRepaired DEF Asking
  <2> QED BY <2>1, <2>2
<1> QED BY <1>4, <1>7, <1>8, <1>9

LEMMA ReadPrimaryKeepsChoiceInv ==
  ASSUME DomainFacts, ChoiceInv, NEW c \in Calls, ReadPrimary(c)
  PROVE  ChoiceInv'
<1> USE DEF DomainFacts, ChoiceInv
<1>0. PICK o \in Owners : o = call[c].owner  BY DEF CallsAreAbout, ReadPrimary, OnStep
<1>1. /\ UNCHANGED <<row, asked, tasks>> /\ OnStep(c, "ensure")
      /\ primaryLock[o] = Absent
      /\ primaryLock' = [primaryLock EXCEPT ![o] = c]
      /\ \A b \in Calls \ {c} : call'[b] = call[b]
      /\ SameCall(c) /\ call'[c].step = "write"
      /\ call'[c].kept = IF Chosen(c) = {} THEN Absent ELSE CHOOSE d \in Chosen(c) : TRUE
      /\ call'[c].candidate = IF \E d \in Ready(o) : row[d].primary THEN Absent ELSE call'[c].kept
      /\ lost' = IF Chooses(c) THEN lost \ {o} ELSE lost
  BY <1>0, ReadPrimaryDoes
<1>2. /\ ClaimedDomains' = ClaimedDomains
      /\ \A p \in Owners : Ready(p)' = Ready(p) /\ Primaries(p)' = Primaries(p)
  BY <1>1, AlikeRows
<1>3. AtMostOne'  BY <1>2 DEF AtMostOne
<1>4. \A b \in Calls \ {c} : Present(b)' <=> Present(b)  BY <1>1, <1>2 DEF Present
<1>5. Removal'  BY <1>1, <1>4 DEF Removal, OnStep
<1>6. \A b \in Calls \ {c} : OnStep(b, "ensure") => Ready(call[b].owner)' = Ready(call[b].owner)
  <2> SUFFICES ASSUME NEW b \in Calls \ {c}, OnStep(b, "ensure") PROVE Ready(call[b].owner)' = Ready(call[b].owner)
    OBVIOUS
  <2>1. PICK p \in Owners : p = call[b].owner /\ p = call'[b].owner  BY <1>1 DEF CallsAreAbout, OnStep
  <2> QED BY <1>2, <2>1
<1>7. Verification'  BY <1>1, <1>4, <1>6 DEF Verification, OnStep, Checking, Asking
<1>8. Chooses(c) \/ Fine(o) => RightChoice(o, call'[c])
  <2> SUFFICES ASSUME Chooses(c) \/ Fine(o) PROVE RightChoice(o, call'[c])
    OBVIOUS
  <2>1. Chosen(c) \subseteq Ready(o) /\ (Chosen(c) = {} => Ready(o) = {})  BY <1>0, <1>1, ChoiceIsRight
  <2>2. Absent \notin Ready(o)  BY DomainAssumption DEF Ready, DomainsOf, ClaimedDomains
  <2>3. call'[c].kept = Absent => Ready(o) = {} /\ call'[c].candidate = Absent  BY <1>1, <2>1, <2>2
  <2>4. call'[c].kept # Absent => call'[c].kept \in Ready(o) /\ call'[c].kept \in Chosen(c)
    BY <1>1, <2>1
  <2>5. (\E d \in Ready(o) : row[d].primary) /\ call'[c].kept # Absent => call'[c].kept \in Primaries(o)
    <3> SUFFICES ASSUME \E d \in Ready(o) : row[d].primary, call'[c].kept # Absent PROVE call'[c].kept \in Primaries(o)
      OBVIOUS
    <3>1. Chosen(c) \subseteq {d \in Ready(o) : row[d].primary}  BY <1>0 DEF Chosen, Oldest
    <3> QED BY <2>4, <3>1 DEF Primaries, Ready
  <2> QED BY <1>1, <2>3, <2>4, <2>5 DEF RightChoice
<1>9. ASSUME NEW p \in Owners, p \notin lost' PROVE Repaired(p)'
  <2>1. CASE p = o /\ (Chooses(c) \/ Fine(o))
    <3>1. primaryLock'[p] = c /\ c # Absent  BY <1>1, <2>1, DomainAssumption DEF DomainTypeOK
    <3>2. RightChoice(p, call[c])'  BY <1>2, <1>8, <2>1 DEF RightChoice
    <3> QED BY <3>1, <3>2 DEF Repaired
  <2>2. ASSUME NEW b \in Calls \ {c}, OnStep(b, "ensure"), call[b].owner = p, Chooses(b) PROVE Repaired(p)'
    <3>1. call'[b] = call[b] /\ Chooses(b)'  BY <1>1, <1>4, <2>2 DEF Chooses
    <3> QED BY <2>2, <3>1 DEF Repaired, OnStep
  <2>3. CASE p = o /\ ~(Chooses(c) \/ Fine(o))
    <3>1. p \notin lost  BY <1>1, <1>9, <2>3
    <3> QED BY <1>1, <2>2, <2>3, <3>1 DEF Repaired
  <2>4. CASE p # o
    <3>1. primaryLock'[p] = primaryLock[p] /\ primaryLock[p] # c /\ p \notin lost
      BY <1>1, <1>9, <2>4 DEF DomainTypeOK, LockHeld, OnStep
    <3>2. primaryLock[p] \in Calls \cup {Absent}  BY DEF DomainTypeOK
    <3>3. primaryLock[p] # Absent => call'[primaryLock[p]] = call[primaryLock[p]]  BY <1>1, <3>1, <3>2
    <3> QED BY <1>0, <1>2, <2>2, <2>4, <3>1, <3>2, <3>3 DEF Repaired, RightChoice, Fine
  <2> QED BY <2>1, <2>3, <2>4
<1> QED BY <1>3, <1>5, <1>7, <1>9 DEF Repaired

LEMMA EnsurePrimaryKeepsChoiceInv ==
  ASSUME DomainFacts, ChoiceInv, NEW c \in Calls, EnsurePrimaryDomainInvariant(c)
  PROVE  ChoiceInv'
<1> USE DEF DomainFacts, ChoiceInv
<1>0. PICK o \in Owners : o = call[c].owner  BY DEF CallsAreAbout, EnsurePrimaryDomainInvariant, OnStep
<1> DEFINE k == call[c].kept
           n == call[c].candidate
<1>1. /\ UNCHANGED <<asked, lost, tasks>> /\ OnStep(c, "write") /\ EndsWell(c)
      /\ primaryLock' = [primaryLock EXCEPT ![o] = Absent]
      /\ \A d \in Domains : row'[d] = Absent <=> row[d] = Absent
      /\ \A d \in ClaimedDomains :
            /\ row'[d].owner = row[d].owner /\ row'[d].id = row[d].id
            /\ IsRoutingReady(row'[d]) <=> IsRoutingReady(row[d])
            /\ row'[d].primary = IF n \in DomainsOf(o) \cup {Absent} /\ row[d].owner = o
                                 THEN d = k /\ (row[d].primary \/ n = d) ELSE row[d].primary
  BY <1>0, EnsurePrimaryDoes
<1>2. /\ ClaimedDomains' = ClaimedDomains
      /\ \A p \in Owners : Ready(p)' = Ready(p) /\ DomainsOf(p)' = DomainsOf(p)
  BY <1>1 DEF ClaimedDomains, Ready, DomainsOf
<1>3. \A p \in Owners \ {o} : Primaries(p)' = Primaries(p)
  BY <1>1, <1>2 DEF Primaries, DomainsOf, ClaimedDomains
<1>4. IF n \in DomainsOf(o) \cup {Absent}
      THEN Primaries(o)' = {d \in {k} \cap DomainsOf(o) : d \in Primaries(o) \/ n = d} ELSE Primaries(o)' = Primaries(o)
  BY <1>1, <1>2 DEF Primaries, DomainsOf, ClaimedDomains
<1>5. AtMostOne'  BY <1>3, <1>4 DEF AtMostOne
<1>6. \A b \in Calls \ {c} : /\ call'[b] = call[b] /\ (Present(b)' <=> Present(b))
                             /\ Present(b) => (IsRoutingReady(row'[call[b].domain]) <=> IsRoutingReady(row[call[b].domain]))
  BY <1>1, <1>2 DEF Present, EndsWell
<1>7. Removal'
  <2> SUFFICES ASSUME NEW b \in Calls, call'[b].step = "detach" PROVE FALSE
    BY DEF Removal, OnStep
  <2>1. b # c /\ OnStep(b, "detach")  BY <1>1 DEF OnStep, EndsWell
  <2> QED BY <1>1, <2>1 DEF Removal, OneAtATime, OnStep
<1>8. \A b \in Calls \ {c} : OnStep(b, "ensure") => Ready(call[b].owner)' = Ready(call[b].owner)
  <2> SUFFICES ASSUME NEW b \in Calls \ {c}, OnStep(b, "ensure") PROVE Ready(call[b].owner)' = Ready(call[b].owner)
    OBVIOUS
  <2>1. PICK p \in Owners : p = call[b].owner /\ p = call'[b].owner  BY <1>6 DEF CallsAreAbout, OnStep
  <2> QED BY <1>2, <2>1
<1>9. Verification'  BY <1>1, <1>6, <1>8 DEF Verification, OnStep, EndsWell, Checking, Asking
<1>10. ASSUME NEW p \in Owners, p \notin lost PROVE Repaired(p)'
  <2>1. CASE \E b \in Calls : OnStep(b, "ensure") /\ call[b].owner = p /\ Chooses(b)
    <3>1. PICK b \in Calls : OnStep(b, "ensure") /\ call[b].owner = p /\ Chooses(b)  BY <2>1
    <3>2. b # c  BY <1>1, <3>1 DEF OnStep
    <3> QED BY <1>6, <3>1, <3>2 DEF Repaired, OnStep, Chooses
  <2>2. CASE p = o /\ ~(\E b \in Calls : OnStep(b, "ensure") /\ call[b].owner = p /\ Chooses(b))
    <3>1. primaryLock[o] = c /\ c # Absent  BY <1>0, <1>1, DomainAssumption DEF LockHeld
    <3>2. RightChoice(o, call[c])  BY <1>10, <2>2, <3>1 DEF Repaired
    <3>3. primaryLock'[o] = Absent  BY <1>1 DEF DomainTypeOK
    <3>4. Fine(o)'
      <4>1. CASE k = Absent
        <5>1. Ready(o)' = {} /\ Primaries(o)' \subseteq {k} \cap DomainsOf(o)
          BY <1>2, <1>4, <3>2, <4>1 DEF RightChoice
        <5>2. Absent \notin DomainsOf(o)  BY DomainAssumption DEF DomainsOf, ClaimedDomains
        <5> QED BY <4>1, <5>1, <5>2 DEF Fine
      <4>2. CASE k # Absent
        <5>1. /\ k \in Ready(o) /\ k \in DomainsOf(o) /\ n \in DomainsOf(o) \cup {Absent}
              /\ k \in Primaries(o) \/ n = k
          BY <3>2, <4>2 DEF RightChoice, Ready, DomainsOf
        <5>2. Ready(o)' = Ready(o) /\ Primaries(o)' = {k}  BY <1>2, <1>4, <5>1
        <5> QED BY <5>1, <5>2 DEF Fine
      <4> QED BY <4>1, <4>2
    <3> QED BY <2>2, <3>3, <3>4 DEF Repaired
  <2>3. CASE p # o /\ ~(\E b \in Calls : OnStep(b, "ensure") /\ call[b].owner = p /\ Chooses(b))
    <3>1. primaryLock'[p] = primaryLock[p] /\ primaryLock[p] # c
      BY <1>0, <1>1, <2>3 DEF DomainTypeOK, LockHeld
    <3>2. primaryLock[p] \in Calls \cup {Absent}  BY DEF DomainTypeOK
    <3>3. primaryLock[p] # Absent => call'[primaryLock[p]] = call[primaryLock[p]]  BY <1>6, <3>1, <3>2
    <3> QED BY <1>2, <1>3, <1>10, <2>3, <3>1, <3>2, <3>3 DEF Repaired, RightChoice, Fine
  <2> QED BY <2>1, <2>2, <2>3
<1> QED BY <1>1, <1>5, <1>7, <1>9, <1>10 DEF Repaired

LEMMA RemovalKeepsChoiceInv ==
  ASSUME DomainFacts, ChoiceInv, NEW c \in Calls, RemoveDomain(c)
  PROVE  ChoiceInv'
<1> USE DEF DomainFacts, ChoiceInv
<1>1. UNCHANGED <<primaryLock, asked, lost, tasks>> /\ OnStep(c, "detach") /\ "alone" \in tasks
  BY RemoveDomainDoes DEF Removal
<1>2. CASE UNCHANGED row /\ EndsWell(c)  BY <1>1, <1>2, AlikeKeepsChoiceInv DEF OnStep, EndsWell
<1>3. CASE ~(UNCHANGED row /\ EndsWell(c))
  <2>1. /\ Present(c)
        /\ row'[call[c].domain] = Absent /\ \A e \in Domains \ {call[c].domain} : row'[e] = row[e]
        /\ \/ /\ call[c].primary /\ SameCall(c) /\ call'[c].step = "ensure" /\ call'[c].candidate = call[c].candidate
              /\ \A b \in Calls \ {c} : call'[b] = call[b]
           \/ ~call[c].primary /\ EndsWell(c)
    BY <1>3, RemoveDomainDoes
  <2>2. PICK d \in ClaimedDomains, o \in Owners : d = call[c].domain /\ o = row[d].owner /\ o = call[c].owner /\ d \in Domains
    BY <1>1, <2>1 DEF Present, CallsAreAbout, OnStep, ClaimedDomains
  <2>3. \A b \in Calls \ {c} : call'[b] = call[b] /\ call[b].step = "rest"
    BY <1>1, <2>1 DEF OneAtATime, OnStep, EndsWell
  <2>4. ClaimedDomains' = ClaimedDomains \ {d}  BY <2>1, <2>2 DEF ClaimedDomains
  <2>5. \A p \in Owners : Ready(p)' = Ready(p) \ {d} /\ Primaries(p)' = Primaries(p) \ {d}
    BY <2>1, <2>2, <2>4 DEF Ready, Primaries, DomainsOf, ClaimedDomains
  <2>6. \A p \in Owners \ {o} : Ready(p)' = Ready(p) /\ Primaries(p)' = Primaries(p)
    BY <2>2, <2>5 DEF Ready, Primaries, DomainsOf
  <2>7. AtMostOne'  BY <2>5 DEF AtMostOne
  <2>8. call'[c].step \in {"rest", "ensure"} /\ (call'[c].step = "ensure" => call'[c].candidate = Absent)
    BY <1>1, <2>1 DEF EndsWell, Removal
  <2>9. Removal' /\ Verification'  BY <2>3, <2>8 DEF Removal, Verification, OnStep, Checking, Asking
  <2>10. ASSUME NEW p \in Owners, p \notin lost PROVE Repaired(p)'
    <3>1. CASE p # o  BY <1>1, <2>3, <2>6, <2>10, <3>1, BystanderKeepsRepaired DEF OnStep
    <3>2. CASE p = o /\ call[c].primary
      <4>1. call'[c].step = "ensure" /\ call'[c].owner = p  BY <2>1, <2>2, <3>2 DEF SameCall
      <4> QED BY <2>8, <4>1 DEF Repaired, OnStep, Chooses
    <3>3. CASE p = o /\ ~call[c].primary
      <4>1. primaryLock[o] = Absent  BY <1>1, <2>3 DEF LockHeld, DomainTypeOK, OnStep
      <4>2. Fine(o)  BY <1>1, <2>3, <2>10, <3>3, <4>1 DEF Repaired, OnStep
      <4>3. d \notin Primaries(o)  BY <1>1, <2>1, <2>2, <3>3 DEF Removal, Primaries
      <4>4. Fine(o)'  BY <2>5, <4>2, <4>3 DEF Fine
      <4> QED BY <1>1, <3>3, <4>1, <4>4 DEF Repaired
    <3> QED BY <3>1, <3>2, <3>3
  <2> QED BY <1>1, <2>7, <2>9, <2>10 DEF Repaired
<1> QED BY <1>2, <1>3

LEMMA StepKeepsChoiceInv ==
  ASSUME RemovalsAreAlone, DomainFacts, DomainFacts', ChoiceInv, [DomainNext]_domainVars
  PROVE  ChoiceInv'
<1> USE DEF DomainFacts, ChoiceInv
<1>1. CASE UNCHANGED domainVars
  <2>1. UNCHANGED <<row, primaryLock, call, asked, lost, tasks>>  BY <1>1 DEF domainVars
  <2> QED
    BY <2>1 DEF Chooses, Verification, Removal, AtMostOne, Repaired, RightChoice, Fine, Primaries, Ready, DomainsOf,
                ClaimedDomains, Present, OnStep
<1>2. ASSUME NEW d \in Domains, TwoDaysPass(d) PROVE ChoiceInv'
  <2>1. /\ UNCHANGED <<primaryLock, call, asked, lost, tasks>>
        /\ d \in ClaimedDomains /\ \A e \in Domains \ {d} : row'[e] = row[e]
        /\ row'[d] \in DomainRow /\ row'[d].owner = row[d].owner /\ row'[d].id = row[d].id
        /\ row'[d].primary = row[d].primary /\ (IsRoutingReady(row'[d]) <=> IsRoutingReady(row[d]))
    BY <1>2, TwoDaysPassDoes
  <2>2. \A e \in Domains : row'[e] = Absent <=> row[e] = Absent
    BY <2>1, DomainAssumption DEF ClaimedDomains
  <2>3. \A e \in ClaimedDomains : /\ row'[e].owner = row[e].owner /\ row'[e].id = row[e].id
                              /\ row'[e].primary = row[e].primary
                              /\ (IsRoutingReady(row'[e]) <=> IsRoutingReady(row[e]))
    BY <2>1 DEF ClaimedDomains
  <2>4. /\ ClaimedDomains' = ClaimedDomains
        /\ \A o \in Owners : Ready(o)' = Ready(o) /\ Primaries(o)' = Primaries(o)
    BY <2>2, <2>3, AlikeRows
  <2>5. \A b \in Calls : (Present(b)' <=> Present(b)) /\ (Present(b) => call[b].domain \in ClaimedDomains)
    BY <2>1, <2>3, <2>4 DEF Present
  <2>6. \A b \in Calls : OnStep(b, "ensure") => Ready(call[b].owner)' = Ready(call[b].owner)
    <3> SUFFICES ASSUME NEW b \in Calls, OnStep(b, "ensure") PROVE Ready(call[b].owner)' = Ready(call[b].owner)
      OBVIOUS
    <3>1. PICK p \in Owners : p = call[b].owner /\ p = call'[b].owner  BY <2>1 DEF CallsAreAbout, OnStep
    <3> QED BY <2>4, <3>1
  <2>7. Verification' /\ Removal'  BY <2>1, <2>3, <2>5, <2>6 DEF Verification, Removal, OnStep
  <2> QED BY <2>1, <2>4, <2>5, <2>7 DEF AtMostOne, Repaired, RightChoice, Fine, OnStep, Chooses
<1>3. ASSUME NEW d \in Domains, NEW o \in Owners, AddDomain(o, d) PROVE ChoiceInv'
  BY <1>3, AddDomainDoes, ClaimingKeepsChoiceInv
<1>14. ASSUME NEW c \in Calls, NEW d \in Domains, NEW o \in Owners, JudgeClaim(c, o, d) PROVE ChoiceInv'
  <2>1. /\ UNCHANGED <<row, primaryLock, lost, tasks>> /\ OnStep(c, "rest")
        /\ \A b \in Calls \ {c} : call'[b] = call[b]
        /\ call'[c].step = "release"
    BY <1>14, JudgeClaimDoes
  <2>2. Verification' /\ Removal' /\ AtMostOne'  BY <2>1, StartingKeepsChoiceInv DEF Checking, Asking
  <2>3. \A p \in Owners : Ready(p)' = Ready(p) /\ Primaries(p)' = Primaries(p)  BY <2>1, AlikeRows
  <2>4. \A b \in Calls : OnStep(b, "ensure") /\ Present(b) => Present(b)'
    BY <2>1 DEF OnStep, Present, ClaimedDomains
  <2> QED BY <2>1, <2>2, <2>3, <2>4, BystanderKeepsRepaired DEF OnStep
<1>15. ASSUME NEW c \in Calls, ReleaseClaim(c) PROVE ChoiceInv'
  <2>1. UNCHANGED <<primaryLock, tasks>> /\ asked' = asked + 1 /\ OnStep(c, "release") /\ EndsWell(c)
    BY <1>15, ReleaseClaimDoes
  <2>2. \A b \in Calls : call'[b] = call[b] \/ (OnStep(b, "release") /\ call'[b].step = "rest")
    BY <2>1 DEF EndsWell
  <2>3. CASE UNCHANGED <<row, lost>>
    <3>1. \A o \in Owners : Ready(o)' = Ready(o) /\ Primaries(o)' = Primaries(o)  BY <2>3, AlikeRows
    <3>2. \A b \in Calls : call'[b].step # "rest" => call'[b] = call[b] /\ (Present(b)' <=> Present(b))
      BY <2>2, <2>3 DEF Present, ClaimedDomains
    <3>3. \A b \in Calls : OnStep(b, "ensure") => call'[b] = call[b] /\ (Present(b) => Present(b)')
      BY <2>2, <2>3 DEF Present, ClaimedDomains, OnStep
    <3>4. \A b \in Calls : OnStep(b, "ensure") => Ready(call[b].owner)' = Ready(call[b].owner)
      <4> SUFFICES ASSUME NEW b \in Calls, OnStep(b, "ensure") PROVE Ready(call[b].owner)' = Ready(call[b].owner)
        OBVIOUS
      <4>1. PICK p \in Owners : p = call[b].owner /\ p = call'[b].owner
        BY <3>3 DEF CallsAreAbout, OnStep
      <4> QED BY <3>1, <4>1
    <3>5. Verification' /\ Removal' /\ AtMostOne'
      BY <2>1, <2>3, <3>1, <3>2, <3>4 DEF Verification, Removal, AtMostOne, OnStep, Checking, Asking
    <3> QED BY <2>1, <2>3, <3>1, <3>3, <3>5, BystanderKeepsRepaired DEF OnStep, EndsWell
  <2>4. CASE ~UNCHANGED <<row, lost>>
    <3>1. PICK d \in ClaimedDomains :
             /\ row'[d] \in DomainRow /\ row'[d].id = asked + 1 /\ ~row'[d].primary /\ row'[d].status = "PENDING"
             /\ \A e \in Domains \ {d} : row'[e] = row[e]
             /\ lost' = IF IsRoutingReady(row[d]) THEN lost \cup {row[d].owner} ELSE lost
      BY <1>15, <2>4, ReleaseClaimDoes
    <3>2. d \in Domains /\ lost \subseteq lost' /\ (IsRoutingReady(row[d]) => row[d].owner \in lost')
      BY <3>1 DEF ClaimedDomains
    <3> QED BY <2>1, <2>2, <3>1, <3>2, ClaimingKeepsChoiceInv
  <2> QED BY <2>3, <2>4
<1>4. ASSUME NEW c \in Calls, NEW d \in Domains, StartVerification(c, d) PROVE ChoiceInv'
  <2>1. /\ UNCHANGED <<row, primaryLock, lost, tasks>> /\ OnStep(c, "rest")
        /\ \A b \in Calls \ {c} : call'[b] = call[b]
        /\ call'[c].step = "claim" /\ call'[c].domain = d
        /\ (call'[c].ready <=> IsRoutingReady(row[d]))
    BY <1>4, StartVerificationDoes
  <2>2. Verification' /\ Removal' /\ AtMostOne'  BY <2>1, StartingKeepsChoiceInv
  <2>3. \A o \in Owners : Ready(o)' = Ready(o) /\ Primaries(o)' = Primaries(o)  BY <2>1, AlikeRows
  <2>4. \A b \in Calls : OnStep(b, "ensure") /\ Present(b) => Present(b)'
    BY <2>1 DEF OnStep, Present, ClaimedDomains
  <2> QED BY <2>4, <2>1, <2>2, <2>3, BystanderKeepsRepaired DEF OnStep
<1>5. ASSUME NEW c \in Calls, NEW d \in Domains, StartRemoval(c, d) PROVE ChoiceInv'
  <2>1. /\ UNCHANGED <<row, primaryLock, lost, tasks>> /\ "remove" \in tasks /\ OnStep(c, "rest")
        /\ \A b \in Calls \ {c} : call'[b] = call[b]
        /\ call'[c].step = "detach" /\ call'[c].domain = d
        /\ call'[c].primary = row[d].primary /\ call'[c].candidate = Absent
    BY <1>5, StartRemovalDoes
  <2>2. "alone" \in tasks  BY <2>1 DEF RemovalsAreAlone, DomainTypeOK
  <2>3. Verification' /\ Removal' /\ AtMostOne'
    BY <2>1, <2>2, StartingKeepsChoiceInv DEF Checking, Asking
  <2>4. \A o \in Owners : Ready(o)' = Ready(o) /\ Primaries(o)' = Primaries(o)  BY <2>1, AlikeRows
  <2>5. \A b \in Calls : OnStep(b, "ensure") /\ Present(b) => Present(b)'
    BY <2>1 DEF OnStep, Present, ClaimedDomains
  <2> QED BY <2>5, <2>1, <2>3, <2>4, BystanderKeepsRepaired DEF OnStep
<1>6. ASSUME NEW c \in Calls, NEW d \in Domains, SetPrimaryDomain(c, d) PROVE ChoiceInv'
  <2>1. PICK o \in Owners : o = row[d].owner  BY <1>6, SetPrimaryDomainDoes
  <2>2. /\ UNCHANGED <<row, tasks>> /\ d \in ClaimedDomains /\ OnStep(c, "rest") /\ IsRoutingReady(row[d])
        /\ primaryLock' = [primaryLock EXCEPT ![o] = c]
        /\ \A b \in Calls \ {c} : call'[b] = call[b]
        /\ call'[c].step = "write" /\ call'[c].kept = d /\ call'[c].candidate = d
        /\ lost' = lost \ {o}
    BY <1>6, <2>1, SetPrimaryDomainDoes
  <2>3. Verification' /\ Removal' /\ AtMostOne'  BY <2>2, StartingKeepsChoiceInv DEF Checking, Asking
  <2>4. \A p \in Owners : Ready(p)' = Ready(p) /\ Primaries(p)' = Primaries(p)  BY <2>2, AlikeRows
  <2>6. \A b \in Calls : OnStep(b, "ensure") => call'[b] = call[b] /\ (Present(b) => Present(b)')
    BY <2>2 DEF OnStep, Present, ClaimedDomains
  <2>5. ASSUME NEW p \in Owners PROVE Repaired(p)'
    <3>1. CASE p = o
      <4>1. primaryLock'[p] = c /\ c # Absent  BY <2>2, <3>1, DomainAssumption DEF DomainTypeOK
      <4>2. d \in Ready(p) /\ d # Absent
        BY <2>1, <2>2, <3>1, DomainAssumption DEF Ready, DomainsOf, ClaimedDomains
      <4>3. RightChoice(p, call[c])'  BY <2>2, <2>4, <4>2 DEF RightChoice
      <4> QED BY <4>1, <4>3 DEF Repaired
    <3>2. CASE p # o
      <4>1. primaryLock'[p] = primaryLock[p] /\ primaryLock[p] # c
        BY <2>2, <3>2 DEF DomainTypeOK, LockHeld, OnStep
      <4>2. primaryLock[p] \in Calls \cup {Absent}  BY DEF DomainTypeOK
      <4>3. primaryLock[p] # Absent => call'[primaryLock[p]] = call[primaryLock[p]]  BY <2>2, <4>1, <4>2
      <4>4. (\E b \in Calls : OnStep(b, "ensure") /\ call[b].owner = p /\ Chooses(b)) => Repaired(p)'
        BY <2>2, <2>6 DEF Repaired, OnStep, Chooses
      <4> QED BY <2>2, <2>4, <3>2, <4>1, <4>2, <4>3, <4>4 DEF Repaired, RightChoice, Fine
    <3> QED BY <3>1, <3>2
  <2> QED BY <2>3, <2>5
<1>7. ASSUME NEW c \in Calls, HasOwnershipTxt(c) \/ VerifyAtProvider(c) PROVE ChoiceInv'
  BY <1>7, AsksDo, AlikeKeepsChoiceInv DEF Checking
<1>8. ASSUME NEW c \in Calls, LoseCall(c) PROVE ChoiceInv'  BY <1>8, LosingKeepsChoiceInv
<1>9. ASSUME NEW c \in Calls, ClaimVerification(c) PROVE ChoiceInv'
  <2>1. UNCHANGED <<primaryLock, lost, tasks>> /\ call[c].step \in Checking
    BY <1>9, ClaimVerificationDoes DEF OnStep, Checking
  <2>2. CASE UNCHANGED row /\ EndsWell(c)  BY <2>1, <2>2, AlikeKeepsChoiceInv DEF EndsWell
  <2>3. CASE ~(UNCHANGED row /\ EndsWell(c))
    <3>1. /\ Present(c) /\ \A e \in Domains \ {call[c].domain} : row'[e] = row[e]
          /\ \A b \in Calls \ {c} : call'[b] = call[b]
          /\ SameCall(c) /\ call'[c].step \in Asking
      BY <1>9, <2>3, ClaimVerificationDoes
    <3>2. PICK r \in DomainRow : /\ row'[call[c].domain] = r
                  /\ r.owner = row[call[c].domain].owner /\ r.id = row[call[c].domain].id
                  /\ r.primary = row[call[c].domain].primary
                  /\ IF call[c].ready THEN IsRoutingReady(r) <=> IsRoutingReady(row[call[c].domain]) ELSE ~IsRoutingReady(r)
      BY <1>9, <2>3, ClaimVerificationDoes
    <3>3. IsRoutingReady(r) <=> IsRoutingReady(row[call[c].domain])
      BY <2>1, <3>1, <3>2 DEF Verification
    <3>4. \A e \in Domains : row'[e] = Absent <=> row[e] = Absent
      BY <3>1, <3>2, DomainAssumption DEF Present, ClaimedDomains
    <3>5. \A e \in ClaimedDomains : /\ row'[e].owner = row[e].owner /\ row'[e].id = row[e].id
                                /\ row'[e].primary = row[e].primary
                                /\ (IsRoutingReady(row'[e]) <=> IsRoutingReady(row[e]))
      BY <3>1, <3>2, <3>3 DEF ClaimedDomains
    <3> QED BY <2>1, <3>1, <3>4, <3>5, AlikeKeepsChoiceInv
  <2> QED BY <2>2, <2>3
<1>10. ASSUME NEW c \in Calls, ApplyProviderState(c) PROVE ChoiceInv'
  <2>1. UNCHANGED <<primaryLock, asked, lost, tasks>> /\ call[c].step \in Asking
    BY <1>10, ApplyProviderStateDoes
  <2>2. CASE UNCHANGED row /\ EndsWell(c)  BY <2>1, <2>2, AlikeKeepsChoiceInv DEF EndsWell, Checking
  <2>3. CASE ~(UNCHANGED row /\ EndsWell(c))
    <3>1. Present(c) /\ \A e \in Domains \ {call[c].domain} : row'[e] = row[e]
      BY <1>10, <2>3, ApplyProviderStateDoes
    <3>2. PICK r \in DomainRow :
                  /\ row'[call[c].domain] = r
                  /\ r.owner = row[call[c].domain].owner /\ r.id = row[call[c].domain].id
                  /\ r.primary => row[call[c].domain].primary
                  /\ \/ /\ EndsWell(c) /\ (IsRoutingReady(r) <=> IsRoutingReady(row[call[c].domain]))
                        /\ r.primary = row[call[c].domain].primary
                     \/ /\ SameCall(c) /\ call'[c].step = "ensure"
                        /\ \A b \in Calls \ {c} : call'[b] = call[b]
                        /\ \/ call'[c].candidate = Absent
                           \/ call'[c].candidate = call[c].domain /\ IsRoutingReady(r)
      BY <1>10, <2>3, ApplyProviderStateDoes
    <3>3. CASE EndsWell(c) /\ (IsRoutingReady(r) <=> IsRoutingReady(row[call[c].domain]))
               /\ r.primary = row[call[c].domain].primary
      <4>1. \A e \in Domains : row'[e] = Absent <=> row[e] = Absent
        BY <3>1, <3>2, DomainAssumption DEF Present, ClaimedDomains
      <4>2. \A e \in ClaimedDomains : /\ row'[e].owner = row[e].owner /\ row'[e].id = row[e].id
                                  /\ row'[e].primary = row[e].primary
                                  /\ (IsRoutingReady(row'[e]) <=> IsRoutingReady(row[e]))
        BY <3>1, <3>2, <3>3 DEF ClaimedDomains
      <4> QED BY <2>1, <3>3, <4>1, <4>2, AlikeKeepsChoiceInv DEF EndsWell, Checking
    <3>4. CASE /\ SameCall(c) /\ call'[c].step = "ensure" /\ \A b \in Calls \ {c} : call'[b] = call[b]
               /\ (call'[c].candidate = Absent \/ (call'[c].candidate = call[c].domain /\ IsRoutingReady(r)))
      BY <2>1, <3>1, <3>2, <3>4, AnswerKeepsChoiceInv
    <3> QED BY <3>2, <3>3, <3>4
  <2> QED BY <2>2, <2>3
<1>11. ASSUME NEW c \in Calls, ReadPrimary(c) PROVE ChoiceInv'  BY <1>11, ReadPrimaryKeepsChoiceInv
<1>12. ASSUME NEW c \in Calls, EnsurePrimaryDomainInvariant(c) PROVE ChoiceInv'
  BY <1>12, EnsurePrimaryKeepsChoiceInv
<1>13. ASSUME NEW c \in Calls, RemoveDomain(c) PROVE ChoiceInv'  BY <1>13, RemovalKeepsChoiceInv
<1> HIDE DEF DomainFacts, ChoiceInv
<1> QED BY <1>1, <1>2, <1>3, <1>4, <1>5, <1>6, <1>7, <1>8, <1>9, <1>10, <1>11, <1>12, <1>13,
     <1>14, <1>15 DEF DomainNext

DomainInv == DomainFacts /\ ChoiceInv

LEMMA InitDomainInv == InitDomains(DomainMixes) => DomainInv
<1> SUFFICES ASSUME InitDomains(DomainMixes) PROVE DomainInv
  OBVIOUS
<1>1. \A c \in Calls : /\ call[c].step = "rest" /\ ~call[c].verifies /\ call[c].id = 0 /\ call[c].domain = Absent
                       /\ call[c] \in DomainCall
  BY RestingIsACall DEF InitDomains, Resting
<1>2. ClaimedDomains = {} /\ asked = 0 /\ lost = {} /\ tasks \in DomainMixes /\ primaryLock = [o \in Owners |-> Absent]
  BY DEF InitDomains, ClaimedDomains
<1>3. DomainTypeOK  BY RestingIsACall DEF InitDomains, DomainTypeOK
<1>4. Numbered /\ CallsAreAbout /\ OneVerifies /\ OneAtATime
  BY <1>1, <1>2 DEF Numbered, CallsAreAbout, OneVerifies, OneAtATime, OnStep, Checking, Asking
<1>5. LockHeld  BY <1>1, <1>2, DomainAssumption DEF LockHeld, OnStep
<1>6. Verification /\ Removal  BY <1>1 DEF Verification, Removal, OnStep, Checking, Asking
<1>7. AtMostOne /\ \A o \in Owners : Repaired(o)
  BY <1>2 DEF AtMostOne, Repaired, Fine, Primaries, Ready, DomainsOf
<1> QED BY <1>3, <1>4, <1>5, <1>6, <1>7 DEF DomainInv, DomainFacts, ChoiceInv

LEMMA DomainInvHolds ==
  ASSUME RemovalsAreAlone
  PROVE  DomainSpec => []DomainInv
<1>1. DomainInv /\ [DomainNext]_domainVars => DomainInv'
  BY StepKeepsDomainFacts, StepKeepsChoiceInv DEF DomainInv, ChoiceInv
<1> QED BY <1>1, InitDomainInv, PTL DEF DomainSpec

\* The custom domains, the lock of the primary one and the requests keep their types, only
\* one verification of a domain is under way, and one transaction of a website holds its lock.
THEOREM DomainsTypeCorrect ==
  ASSUME RemovalsAreAlone
  PROVE  DomainSpec => [](DomainTypeOK /\ OneVerifies /\ LockHeld)
<1>1. DomainInv => DomainTypeOK /\ OneVerifies /\ LockHeld  BY DEF DomainInv, DomainFacts
<1> QED BY <1>1, DomainInvHolds, PTL

\* Once nothing is in progress no website has two primary domains, and one whose last choice
\* was not cut short, and whose ready domain was not released to another, has a ready domain
\* for its primary one as soon as any is ready.  Verifications, claims, releases and choices may
\* overlap and die at any step (ensurePrimaryDomainInvariant under the lock of the website).
THEOREM PrimaryDomainsAreReady ==
  ASSUME RemovalsAreAlone
  PROVE  DomainSpec => []PrimaryIsReady
<1>1. DomainInv => PrimaryIsReady
  <2> SUFFICES ASSUME DomainInv, \A c \in Calls : OnStep(c, "rest"), NEW o \in Owners
               PROVE  /\ Cardinality(Primaries(o)) <= 1
                      /\ o \notin lost => Primaries(o) \subseteq Ready(o) /\ (Ready(o) # {} => Primaries(o) # {})
    BY DEF PrimaryIsReady, Primaries
  <2> USE DEF DomainInv, DomainFacts, ChoiceInv
  <2>1. primaryLock[o] = Absent  BY DEF LockHeld, DomainTypeOK, OnStep
  <2>2. o \notin lost => Fine(o)  BY <2>1 DEF Repaired, OnStep
  <2>3. CASE Primaries(o) = {}  BY <2>2, <2>3, FS_EmptySet DEF Fine
  <2>4. CASE Primaries(o) # {}
    <3>1. PICK d \in Primaries(o) : TRUE  BY <2>4
    <3>2. Primaries(o) = {d}  BY <3>1 DEF AtMostOne
    <3>3. Cardinality(Primaries(o)) = 1  BY <3>2, FS_Singleton
    <3> QED BY <2>2, <3>3 DEF Fine
  <2> QED BY <2>3, <2>4
<1> QED BY <1>1, DomainInvHolds, PTL
------------------------
(* The studio                                                              *)
(*                                                                         *)
(* Every write of the draft raises its number, and a tab that knows the    *)
(* number knows the draft (TabsKnowTheirDraft): a write under the expected *)
(* number is a write on what was seen.  The revisions only grow and none   *)
(* is numbered past the draft, so the receipt of a step stays, and the     *)
(* live snapshot stays the revision it names (SiteIsKnown); a request that *)
(* was applied is recognised by the one or by the other                    *)
(* (AppliedIsRecognised).                                                  *)

Reasons == [what : {"created", "settings", "page", "published", "preserved", "restored", "launched", "step", "services"},
            of : Nat]
Kinds == {"save", "settings", "page", "publish", "restore", "launch", "booking", "services", "step"}
Revisions == [draft : Drafts, reason : Reasons, assets : SUBSET Images]
Selected == [profile : Nat,
             catalog : [Services -> {"absent", "inactive", "active", "bookable", "archived"}],
             offers : SUBSET Services, drops : SUBSET Services]
StudioAsks == [kind : Kinds, expected : Nat, saw : Nat, edit : Nat, logo : Images \cup {None}, booking : BOOLEAN,
               form : Forms \cup {None}, revision : Nat, step : Steps \cup {None}, versions : Selected \cup {None},
               applied : BOOLEAN]
TabStates == [number : 1 .. MaxNumber, saw : Nat, request : StudioAsks \cup {None}, outcome : {"none", "conflict"}]
SiteRows == [status : Statuses, draft : Drafts, number : 1 .. MaxNumber, live : Drafts \cup {None}, liveNumber : Nat]

StudioTypes ==
    /\ site \in SiteRows
    /\ DOMAIN revisions \subseteq 1 .. MaxNumber /\ revisions \in [DOMAIN revisions -> Revisions]
    /\ owner \in [steps : SUBSET Steps, launched : BOOLEAN, profile : Nat]
    /\ catalog \in [Services -> {"absent", "inactive", "active", "bookable", "archived"}]
    /\ forms \in [Forms -> {"absent", "unpublished", "published"}]
    /\ assets \in [Images -> {"none", "linked", "unlinked"}]
    /\ objects \subseteq Images /\ deleting \in Images \cup {None}
    /\ tabs \in [Tabs -> TabStates]
    /\ edits \in Nat

SiteIsKnown ==
    /\ \A n \in DOMAIN revisions : n <= site.number
    /\ site.live # None => site.liveNumber \in DOMAIN revisions /\ revisions[site.liveNumber].draft = site.live
    /\ site.status = "PUBLISHED" => site.live # None
    /\ owner.launched => site.status = "PUBLISHED"

Knows(number, saw) == number <= site.number /\ (number = site.number => saw = site.draft.edit)

TabsKnowTheirDraft ==
    \A t \in Tabs :
        /\ Knows(tabs[t].number, tabs[t].saw)
        /\ tabs[t].request # None => Knows(tabs[t].request.expected, tabs[t].request.saw)
        /\ Has(t, "restore") => tabs[t].request.revision \in DOMAIN revisions

AppliedIsRecognised ==
    \A t \in Tabs :
        /\ Has(t, "step") /\ tabs[t].request.applied => HasReceipt(tabs[t].request)
        /\ Has(t, "launch") /\ tabs[t].request.applied => IsLive

StudioInv == StudioTypes /\ SiteIsKnown /\ TabsKnowTheirDraft /\ AppliedIsRecognised

------------------------
(* What a step does to the website *)

RevisionsGrow ==
    /\ DOMAIN revisions \subseteq DOMAIN revisions'
    /\ \A n \in DOMAIN revisions : revisions'[n] = revisions[n]
    /\ \A n \in DOMAIN revisions' : n \in DOMAIN revisions \/ n <= site'.number

\* A step leaves what is live, or makes a revision live.
SiteGoesOn ==
    /\ site.number <= site'.number
    /\ site'.number = site.number => site'.draft.edit = site.draft.edit
    /\ RevisionsGrow
    /\ \/ /\ site'.live = site.live /\ site'.liveNumber = site.liveNumber
          /\ site'.status \in {site.status, AfterDraftMutation(site.status)}
       \/ /\ site'.status = "PUBLISHED" /\ site'.live # None
          /\ site'.liveNumber \in DOMAIN revisions' /\ revisions'[site'.liveNumber].draft = site'.live
    /\ owner.launched => owner'.launched
    /\ owner'.launched => owner.launched \/ site'.status = "PUBLISHED"

\* The answer of a tab, or its conflict.
TabGoesOn(t) ==
    \/ tabs'[t] = Idle(site'.number, site'.draft.edit)
    \/ /\ tabs[t].request # None
       /\ tabs'[t] = [tabs[t] EXCEPT !.request = [@ EXCEPT !.applied = TRUE]]
       /\ Has(t, "step") => \E n \in DOMAIN revisions' : revisions'[n].reason = Receipt(tabs[t].request)
       /\ Has(t, "launch") => owner'.launched /\ site'.status = "PUBLISHED" /\ site'.live # None
    \/ tabs'[t] = [tabs[t] EXCEPT !.request = None, !.outcome = "conflict"]

Others(t) == tabs' \in [Tabs -> TabStates] /\ \A u \in Tabs \ {t} : tabs'[u] = tabs[u]

\* What the answer of a tab may not do.
ActsKnowingly(t) ==
    LET r == tabs[t].request IN
    /\ r # None /\ r.kind \in {"save", "publish", "restore", "launch", "step"} /\ site'.draft # site.draft
       => site.draft.edit = r.saw
    /\ r # None /\ r.kind \in {"step", "launch"} /\ r.applied
       => site' = site /\ revisions' = revisions /\ tabs'[t].outcome # "conflict"

LEMMA NumbersOfDrafts == MaxNumber \in Nat /\ 1 \in 1 .. MaxNumber /\ None \notin Drafts
  BY StudioAssumption

LEMMA IdleTab ==
  ASSUME NEW n \in 1 .. MaxNumber, NEW e \in Nat
  PROVE  Idle(n, e) \in TabStates /\ Idle(n, e).request = None /\ Idle(n, e).outcome = "none"
         /\ Idle(n, e).number = n /\ Idle(n, e).saw = e
  BY DEF Idle, TabStates

\* A request of a tab is a record; marking it keeps all but the mark.
LEMMA MarkedTab ==
  ASSUME NEW x \in TabStates, x.request # None
  PROVE  LET y == [x EXCEPT !.request = [@ EXCEPT !.applied = TRUE]] IN
         /\ y \in TabStates
         /\ y.number = x.number /\ y.saw = x.saw /\ y.outcome = x.outcome
         /\ y.request.applied
         /\ y.request.kind = x.request.kind /\ y.request.expected = x.request.expected /\ y.request.saw = x.request.saw
         /\ y.request.edit = x.request.edit /\ y.request.revision = x.request.revision
<1> DEFINE q == [x.request EXCEPT !.applied = TRUE]
           y == [x EXCEPT !.request = q]
<1>1. x.request \in StudioAsks  BY DEF TabStates
<1>2. /\ q \in StudioAsks /\ q.applied
      /\ q.kind = x.request.kind /\ q.expected = x.request.expected /\ q.saw = x.request.saw
      /\ q.edit = x.request.edit /\ q.revision = x.request.revision
  BY <1>1 DEF StudioAsks
<1> QED BY <1>2 DEF TabStates

\* What a step that goes on as described leaves true.
LEMMA SiteStaysKnown == StudioInv /\ SiteGoesOn /\ StudioTypes' => SiteIsKnown'
<1> SUFFICES ASSUME StudioInv, SiteGoesOn, StudioTypes' PROVE SiteIsKnown'
  OBVIOUS
<1>1. site.number \in Nat /\ site'.number \in Nat /\ DOMAIN revisions \subseteq Nat
  BY NumbersOfDrafts DEF StudioInv, StudioTypes, SiteRows
<1>2. \A n \in DOMAIN revisions' : n <= site'.number
  BY <1>1 DEF StudioInv, SiteIsKnown, SiteGoesOn, RevisionsGrow
<1>3. site.status = "PUBLISHED" => site'.status = "PUBLISHED"  BY DEF SiteGoesOn, AfterDraftMutation
<1>4. site'.live # None => site'.liveNumber \in DOMAIN revisions' /\ revisions'[site'.liveNumber].draft = site'.live
  BY DEF StudioInv, SiteIsKnown, SiteGoesOn, RevisionsGrow
<1>5. site'.status = "PUBLISHED" => site'.live # None
  BY DEF StudioInv, SiteIsKnown, SiteGoesOn, AfterDraftMutation
<1>6. owner'.launched => site'.status = "PUBLISHED"  BY <1>3 DEF StudioInv, SiteIsKnown, SiteGoesOn
<1> QED BY <1>2, <1>4, <1>5, <1>6 DEF SiteIsKnown

LEMMA KnownDraftStays ==
  ASSUME StudioInv, SiteGoesOn, site' \in SiteRows, NEW n \in Nat, NEW e \in Nat, Knows(n, e)
  PROVE  n <= site'.number /\ (n = site'.number => e = site'.draft.edit)
<1>1. site.number \in Nat /\ site'.number \in Nat
  BY NumbersOfDrafts DEF StudioInv, StudioTypes, SiteRows
<1> QED BY <1>1 DEF Knows, SiteGoesOn

LEMMA ReceiptsStay ==
  ASSUME SiteGoesOn, NEW r, HasReceipt(r)
  PROVE  \E n \in DOMAIN revisions' : revisions'[n].reason = Receipt(r)
  BY DEF SiteGoesOn, RevisionsGrow, HasReceipt

LEMMA LiveStays ==
  ASSUME StudioInv, SiteGoesOn, IsLive
  PROVE  owner'.launched /\ site'.status = "PUBLISHED" /\ site'.live # None
  BY DEF SiteGoesOn, IsLive, AfterDraftMutation

\* What the invariant says of one tab.
TabIsRight(t) ==
    /\ Knows(tabs[t].number, tabs[t].saw)
    /\ tabs[t].request # None => Knows(tabs[t].request.expected, tabs[t].request.saw)
    /\ Has(t, "restore") => tabs[t].request.revision \in DOMAIN revisions
    /\ Has(t, "step") /\ tabs[t].request.applied => HasReceipt(tabs[t].request)
    /\ Has(t, "launch") /\ tabs[t].request.applied => IsLive

LEMMA TabsAreRight == TabsKnowTheirDraft /\ AppliedIsRecognised <=> \A t \in Tabs : TabIsRight(t)
  BY DEF TabsKnowTheirDraft, AppliedIsRecognised, TabIsRight

LEMMA RightNext ==
  ASSUME NEW t \in Tabs,
         LET x == tabs'[t] IN
         /\ x.number <= site'.number /\ (x.number = site'.number => x.saw = site'.draft.edit)
         /\ x.request # None => /\ x.request.expected <= site'.number
                                /\ x.request.expected = site'.number => x.request.saw = site'.draft.edit
         /\ x.request # None /\ x.request.kind = "restore" => x.request.revision \in DOMAIN revisions'
         /\ x.request # None /\ x.request.kind = "step" /\ x.request.applied
               => \E n \in DOMAIN revisions' : revisions'[n].reason = Receipt(x.request)
         /\ x.request # None /\ x.request.kind = "launch" /\ x.request.applied
               => owner'.launched /\ site'.status = "PUBLISHED" /\ site'.live # None
  PROVE  TabIsRight(t)'
  BY DEF TabIsRight, Knows, Has, HasReceipt, IsLive, Receipt

\* A tab that does nothing stays right.
LEMMA BystanderStaysRight ==
  ASSUME StudioInv, SiteGoesOn, site' \in SiteRows, NEW t \in Tabs, tabs'[t] = tabs[t]
  PROVE  TabIsRight(t)'
<1> DEFINE x == tabs[t]
<1>1. TabIsRight(t) /\ x \in TabStates  BY TabsAreRight DEF StudioInv, StudioTypes
<1>2. x.number \in Nat /\ x.saw \in Nat  BY <1>1, NumbersOfDrafts DEF TabStates
<1>3. x.number <= site'.number /\ (x.number = site'.number => x.saw = site'.draft.edit)
  BY <1>1, <1>2, KnownDraftStays DEF TabIsRight
<1>4. ASSUME x.request # None
      PROVE  /\ x.request.expected <= site'.number
             /\ x.request.expected = site'.number => x.request.saw = site'.draft.edit
  <2>1. x.request.expected \in Nat /\ x.request.saw \in Nat  BY <1>1, <1>4 DEF TabStates, StudioAsks
  <2> QED BY <2>1, <1>1, <1>4, KnownDraftStays DEF TabIsRight
<1>5. x.request # None /\ x.request.kind = "restore" => x.request.revision \in DOMAIN revisions'
  BY <1>1 DEF TabIsRight, Has, SiteGoesOn, RevisionsGrow
<1>6. x.request # None /\ x.request.kind = "step" /\ x.request.applied
             => \E n \in DOMAIN revisions' : revisions'[n].reason = Receipt(x.request)
  BY <1>1, ReceiptsStay DEF TabIsRight, Has
<1>7. x.request # None /\ x.request.kind = "launch" /\ x.request.applied
             => owner'.launched /\ site'.status = "PUBLISHED" /\ site'.live # None
  BY <1>1, LiveStays DEF TabIsRight, Has
<1> QED BY <1>3, <1>4, <1>5, <1>6, <1>7, RightNext

LEMMA ActingStaysRight ==
  ASSUME StudioInv, SiteGoesOn, site' \in SiteRows, NEW t \in Tabs, TabGoesOn(t)
  PROVE  TabIsRight(t)'
<1> DEFINE x == tabs[t]
<1>1. TabIsRight(t) /\ x \in TabStates  BY TabsAreRight DEF StudioInv, StudioTypes
<1>2. x.number \in Nat /\ x.saw \in Nat  BY <1>1, NumbersOfDrafts DEF TabStates
<1>3. x.number <= site'.number /\ (x.number = site'.number => x.saw = site'.draft.edit)
  BY <1>1, <1>2, KnownDraftStays DEF TabIsRight
<1>4. CASE tabs'[t] = Idle(site'.number, site'.draft.edit)
  <2>1. site'.number \in 1 .. MaxNumber /\ site'.draft.edit \in Nat /\ site'.number \in Nat
    BY NumbersOfDrafts DEF SiteRows, Drafts
  <2> QED BY <2>1, <1>4, IdleTab, RightNext
<1>5. CASE /\ tabs[t].request # None
           /\ tabs'[t] = [tabs[t] EXCEPT !.request = [@ EXCEPT !.applied = TRUE]]
           /\ Has(t, "step") => \E n \in DOMAIN revisions' : revisions'[n].reason = Receipt(tabs[t].request)
           /\ Has(t, "launch") => owner'.launched /\ site'.status = "PUBLISHED" /\ site'.live # None
  <2> DEFINE y == tabs'[t]
  <2>1. /\ y.number = x.number /\ y.saw = x.saw
        /\ y.request.kind = x.request.kind /\ y.request.expected = x.request.expected /\ y.request.saw = x.request.saw
        /\ y.request.edit = x.request.edit /\ y.request.revision = x.request.revision
    BY <1>1, <1>5, MarkedTab
  <2>2. x.request.expected \in Nat /\ x.request.saw \in Nat  BY <1>1, <1>5 DEF TabStates, StudioAsks
  <2>3. /\ x.request.expected <= site'.number
        /\ x.request.expected = site'.number => x.request.saw = site'.draft.edit
    BY <2>2, <1>1, <1>5, KnownDraftStays DEF TabIsRight
  <2>4. y.request.kind = "restore" => y.request.revision \in DOMAIN revisions'
    BY <2>1, <1>1, <1>5 DEF TabIsRight, Has, SiteGoesOn, RevisionsGrow
  <2>5. Receipt(y.request) = Receipt(x.request)  BY <2>1 DEF Receipt
  <2>6. y.request.kind = "step" => \E n \in DOMAIN revisions' : revisions'[n].reason = Receipt(y.request)
    BY <2>1, <2>5, <1>5 DEF Has
  <2>7. y.request.kind = "launch" => owner'.launched /\ site'.status = "PUBLISHED" /\ site'.live # None
    BY <2>1, <1>5 DEF Has
  <2> HIDE DEF y
  <2> QED BY <2>1, <2>3, <2>4, <2>6, <2>7, <1>3, RightNext DEF y
<1>6. CASE tabs'[t] = [tabs[t] EXCEPT !.request = None, !.outcome = "conflict"]
  <2>1. tabs'[t].request = None /\ tabs'[t].number = x.number /\ tabs'[t].saw = x.saw
    BY <1>1, <1>6 DEF TabStates
  <2> QED BY <2>1, <1>3, RightNext
<1> QED BY <1>4, <1>5, <1>6 DEF TabGoesOn

------------------------
(* What the operators of the studio return *)

LEMMA TypedRow ==
  ASSUME StudioTypes
  PROVE  /\ site.draft \in Drafts /\ site.draft.edit \in Nat /\ site.draft.logo \in Images \cup {None}
         /\ site.draft.form \in Forms \cup {None} /\ site.number \in 1 .. MaxNumber /\ site.number \in Nat
         /\ site.status \in Statuses /\ site.live \in Drafts \cup {None} /\ site.liveNumber \in Nat
  BY NumbersOfDrafts DEF StudioTypes, SiteRows, Drafts

LEMMA RequestIsTyped ==
  ASSUME StudioTypes, NEW t \in Tabs, tabs[t].request # None
  PROVE  /\ tabs[t].request \in StudioAsks /\ tabs[t].request.edit \in Nat
         /\ tabs[t].request.logo \in Images \cup {None} /\ tabs[t].request.form \in Forms \cup {None}
  BY DEF StudioTypes, TabStates, StudioAsks

LEMMA PatchedDraft ==
  ASSUME NEW d \in Drafts, NEW r \in StudioAsks
  PROVE  Patched(d, r) \in Drafts /\ AppliedTo(d, r) \in Drafts
<1>1. Patched(d, r) \in Drafts  BY DEF Patched, Drafts, StudioAsks
<1> QED BY <1>1 DEF AppliedTo

\* A row of the website like the present one, but for its draft and its status.
AlikeSite(s) ==
    /\ s \in SiteRows /\ s.number = site.number /\ s.live = site.live /\ s.liveNumber = site.liveNumber
    /\ s.status = AfterDraftMutation(site.status)

LEMMA EditedSite ==
  ASSUME StudioTypes, NEW r \in StudioAsks
  PROVE  AlikeSite(Edited(r)) /\ Edited(r).draft = Patched(site.draft, r)
<1>1. site \in SiteRows /\ Patched(site.draft, r) \in Drafts  BY TypedRow, PatchedDraft DEF StudioTypes
<1>2. AfterDraftMutation(site.status) \in Statuses  BY TypedRow DEF AfterDraftMutation, Statuses
<1> QED BY <1>1, <1>2 DEF AlikeSite, Edited, SiteRows

LEMMA ConfiguredSite ==
  ASSUME StudioTypes, NEW b, b.draft \in Drafts
  PROVE  AlikeSite(Configured(b)) /\ Configured(b).draft = b.draft
<1>1. site \in SiteRows /\ AfterDraftMutation(site.status) \in Statuses
  BY TypedRow DEF AfterDraftMutation, Statuses, StudioTypes
<1> QED BY <1>1 DEF AlikeSite, Configured, SiteRows

LEMMA SettledSite ==
  ASSUME StudioTypes
  PROVE  LET s == [site EXCEPT !.status = AfterDraftMutation(@)] IN AlikeSite(s) /\ s.draft = site.draft
<1>1. site \in SiteRows /\ AfterDraftMutation(site.status) \in Statuses
  BY TypedRow DEF AfterDraftMutation, Statuses, StudioTypes
<1> QED BY <1>1 DEF AlikeSite, SiteRows

LEMMA PublishedSite ==
  ASSUME StudioTypes, NEW d \in Drafts
  PROVE  /\ Published(d) \in SiteRows /\ Published(d).number = site.number /\ Published(d).draft = d
         /\ Published(d).status = "PUBLISHED" /\ Published(d).live = d /\ Published(d).liveNumber = site.number + 1
<1>1. site \in SiteRows /\ site.number + 1 \in Nat  BY TypedRow DEF StudioTypes
<1> QED BY <1>1 DEF SiteRows, Published, Statuses

LEMMA RecordedRevisions ==
  ASSUME NEW rs, DOMAIN rs \subseteq 1 .. MaxNumber, rs \in [DOMAIN rs -> Revisions], NEW n \in 1 .. MaxNumber,
         n \notin DOMAIN rs, NEW d \in Drafts, NEW reason \in Reasons, NEW images \in SUBSET Images
  PROVE  LET q == Recorded(rs, n, d, reason, images) IN
         /\ DOMAIN q = DOMAIN rs \cup {n} /\ DOMAIN q \subseteq 1 .. MaxNumber /\ q \in [DOMAIN q -> Revisions]
         /\ \A m \in DOMAIN rs : q[m] = rs[m]
         /\ q[n].draft = d /\ q[n].reason = reason
  BY DEF Recorded, Revisions

\* The new row, and the revision that records it.
LEMMA SnapshotDoes ==
  ASSUME StudioTypes, NEW s \in SiteRows, s.number = site.number, NEW reason \in Reasons,
         CreateRevisionSnapshot(s, reason)
  PROVE  /\ site' \in SiteRows /\ site'.number = site.number + 1 /\ site'.draft = s.draft
         /\ site'.status = s.status /\ site'.live = s.live /\ site'.liveNumber = s.liveNumber
         /\ DOMAIN revisions' \subseteq 1 .. MaxNumber /\ revisions' \in [DOMAIN revisions' -> Revisions]
         /\ RevisionsGrow
         /\ site'.number \in DOMAIN revisions'
         /\ revisions'[site'.number].draft = s.draft /\ revisions'[site'.number].reason = reason
<1>1. s.number \in Nat /\ s.number + 1 \in 1 .. MaxNumber /\ MaxNumber \in Nat
  BY NumbersOfDrafts DEF SiteRows, CreateRevisionSnapshot
<1>2. /\ site' \in SiteRows /\ site'.number = site.number + 1 /\ site'.draft = s.draft
      /\ site'.status = s.status /\ site'.live = s.live /\ site'.liveNumber = s.liveNumber
  BY <1>1 DEF SiteRows, CreateRevisionSnapshot
<1>3. Registered \in SUBSET Images /\ s.draft \in Drafts  BY DEF Registered, SiteRows
<1> DEFINE q == Recorded(revisions, s.number + 1, s.draft, reason, Registered)
<1>4. revisions' = q /\ s.number + 1 \notin DOMAIN revisions  BY DEF CreateRevisionSnapshot
<1>5. /\ DOMAIN q = DOMAIN revisions \cup {s.number + 1} /\ DOMAIN q \subseteq 1 .. MaxNumber
      /\ q \in [DOMAIN q -> Revisions]
      /\ \A m \in DOMAIN revisions : q[m] = revisions[m]
      /\ q[s.number + 1].draft = s.draft /\ q[s.number + 1].reason = reason
  <2>1. DOMAIN revisions \subseteq 1 .. MaxNumber /\ revisions \in [DOMAIN revisions -> Revisions]
    BY DEF StudioTypes
  <2>2. s.number + 1 \in 1 .. MaxNumber /\ s.number + 1 \notin DOMAIN revisions  BY <1>1, <1>4
  <2> DEFINE n == s.number + 1
             d == s.draft
             images == Registered
  <2>3. n \in 1 .. MaxNumber /\ n \notin DOMAIN revisions /\ d \in Drafts /\ images \in SUBSET Images
    BY <2>2, <1>3
  <2> HIDE DEF n, d, images
  <2>4. LET p == Recorded(revisions, n, d, reason, images) IN
        /\ DOMAIN p = DOMAIN revisions \cup {n} /\ DOMAIN p \subseteq 1 .. MaxNumber /\ p \in [DOMAIN p -> Revisions]
        /\ \A m \in DOMAIN revisions : p[m] = revisions[m]
        /\ p[n].draft = d /\ p[n].reason = reason
    BY <2>1, <2>3, RecordedRevisions
  <2> QED BY <2>4 DEF n, d, images
<1> HIDE DEF q
<1>6. site'.number = s.number + 1 /\ site'.number \in Nat  BY <1>1, <1>2
<1>7. RevisionsGrow  BY <1>4, <1>5, <1>6 DEF RevisionsGrow
<1> QED BY <1>2, <1>4, <1>5, <1>6, <1>7

\* A draft recorded as the next revision.
LEMMA SnapshotGoesOn ==
  ASSUME StudioTypes, NEW s, AlikeSite(s), NEW reason \in Reasons, CreateRevisionSnapshot(s, reason),
         owner.launched => owner'.launched, owner'.launched => owner.launched
  PROVE  SiteGoesOn
<1>1. s \in SiteRows /\ s.number = site.number  BY DEF AlikeSite
<1>2. /\ site'.number = site.number + 1 /\ site'.status = s.status /\ site'.live = s.live /\ site'.liveNumber = s.liveNumber
      /\ RevisionsGrow
  BY <1>1, SnapshotDoes
<1>3. site.number \in Nat  BY TypedRow
<1> QED BY <1>2, <1>3 DEF SiteGoesOn, AlikeSite

LEMMA PublicationGoesOn ==
  ASSUME StudioTypes, NEW d \in Drafts, NEW reason \in Reasons, CreateRevisionSnapshot(Published(d), reason),
         owner.launched => owner'.launched
  PROVE  SiteGoesOn /\ site'.status = "PUBLISHED" /\ site'.live # None
<1>1. /\ Published(d) \in SiteRows /\ Published(d).number = site.number /\ Published(d).draft = d
      /\ Published(d).status = "PUBLISHED" /\ Published(d).live = d /\ Published(d).liveNumber = site.number + 1
  BY PublishedSite
<1>2. /\ site'.number = site.number + 1 /\ site'.status = "PUBLISHED" /\ site'.live = d
      /\ site'.liveNumber = site.number + 1
      /\ RevisionsGrow
      /\ site'.number \in DOMAIN revisions' /\ revisions'[site'.number].draft = d
  BY <1>1, SnapshotDoes
<1>3. site.number \in Nat /\ d # None  BY TypedRow, NumbersOfDrafts
<1> QED BY <1>2, <1>3 DEF SiteGoesOn

\* The autosave and the booking page: the next number, and no revision.
LEMMA AutosaveGoesOn ==
  ASSUME StudioTypes, NEW s, AlikeSite(s), site.number < MaxNumber, site' = [s EXCEPT !.number = @ + 1],
         revisions' = revisions, owner' = owner
  PROVE  site' \in SiteRows /\ SiteGoesOn
<1>1. s.number \in Nat /\ s.number + 1 \in 1 .. MaxNumber /\ s.number = site.number /\ s \in SiteRows
  BY NumbersOfDrafts, TypedRow DEF AlikeSite, SiteRows
<1>2. /\ site' \in SiteRows /\ site'.number = site.number + 1
      /\ site'.status = s.status /\ site'.live = s.live /\ site'.liveNumber = s.liveNumber
  BY <1>1 DEF SiteRows
<1>3. RevisionsGrow  BY DEF RevisionsGrow
<1> QED BY <1>1, <1>2, <1>3 DEF SiteGoesOn, AlikeSite

\* The answer of a tab, received or lost.
LEMMA AnswerGoesOn ==
  ASSUME StudioTypes, site' \in SiteRows, NEW t \in Tabs, tabs[t].request # None, Answer(t),
         Has(t, "step") => \E n \in DOMAIN revisions' : revisions'[n].reason = Receipt(tabs[t].request),
         Has(t, "launch") => owner'.launched /\ site'.status = "PUBLISHED" /\ site'.live # None
  PROVE  TabGoesOn(t) /\ Others(t)
<1>1. site'.number \in 1 .. MaxNumber /\ site'.draft.edit \in Nat  BY DEF SiteRows, Drafts
<1>2. tabs \in [Tabs -> TabStates] /\ tabs[t] \in TabStates  BY DEF StudioTypes
<1>3. CASE tabs' = [tabs EXCEPT ![t] = Idle(site'.number, site'.draft.edit)]
  <2>1. Idle(site'.number, site'.draft.edit) \in TabStates  BY <1>1, IdleTab
  <2> QED BY <2>1, <1>2, <1>3 DEF TabGoesOn, Others
<1>4. CASE tabs' = [tabs EXCEPT ![t].request.applied = TRUE]
  <2>1. [tabs[t] EXCEPT !.request = [@ EXCEPT !.applied = TRUE]] \in TabStates  BY <1>2, MarkedTab
  <2>2. tabs' = [tabs EXCEPT ![t] = [tabs[t] EXCEPT !.request = [@ EXCEPT !.applied = TRUE]]]  BY <1>4
  <2>3. tabs'[t] = [tabs[t] EXCEPT !.request = [@ EXCEPT !.applied = TRUE]]  BY <2>2, <1>2
  <2> QED BY <2>1, <2>2, <2>3, <1>2 DEF TabGoesOn, Others
<1> QED BY <1>3, <1>4 DEF Answer

------------------------
(* The requests of a tab *)

Acted(t) == StudioTypes' /\ SiteGoesOn /\ TabGoesOn(t) /\ Others(t) /\ ActsKnowingly(t)

FormRows == [Forms -> {"absent", "unpublished", "published"}]
StockRows == [Services -> {"absent", "inactive", "active", "bookable", "archived"}]
OwnerRows == [steps : SUBSET Steps, launched : BOOLEAN, profile : Nat]

LEMMA SiteStays == StudioTypes /\ site' = site /\ revisions' = revisions /\ owner' = owner => SiteGoesOn
  BY TypedRow DEF SiteGoesOn, RevisionsGrow

LEMMA ReasonsAreTyped ==
  /\ \A what \in {"settings", "page", "published", "preserved", "restored", "launched"} : Reason(what) \in Reasons
  /\ \A r \in StudioAsks : Receipt(r) \in Reasons /\ Signature(r) \in Reasons
  BY DEF Reason, Receipt, Signature, Reasons, StudioAsks

\* A request that is neither stale nor known was built on the draft it changes.
LEMMA FreshActsKnowingly ==
  ASSUME StudioInv, NEW t \in Tabs, tabs[t].request # None, ~IsStale(tabs[t].request),
         Has(t, "step") => ~HasReceipt(tabs[t].request), Has(t, "launch") => ~IsLive
  PROVE  ActsKnowingly(t)
<1>1. TabIsRight(t)  BY TabsAreRight DEF StudioInv
<1>2. tabs[t].request.kind \in {"save", "publish", "restore", "launch", "step"} => tabs[t].request.expected = site.number
  BY DEF IsStale, Has
<1> QED BY <1>1, <1>2 DEF ActsKnowingly, TabIsRight, Knows, Has

LEMMA HarmlessActsKnowingly ==
  ASSUME NEW t \in Tabs, site' = site, revisions' = revisions, tabs'[t].outcome # "conflict"
  PROVE  ActsKnowingly(t)
  BY DEF ActsKnowingly

LEMMA OthersActKnowingly ==
  ASSUME NEW t \in Tabs, tabs[t].request.kind \notin {"save", "publish", "restore", "launch", "step"}
  PROVE  ActsKnowingly(t)
  BY DEF ActsKnowingly

LEMMA EditorActs == ASSUME StudioInv, NEW t \in Tabs, GetWebsiteEditor(t) PROVE Acted(t)
<1>1. site' = site /\ revisions' = revisions /\ UNCHANGED <<owner, catalog, forms, assets, objects, deleting, edits>>
  BY DEF GetWebsiteEditor, studio, business, media
<1>2. /\ tabs' = [tabs EXCEPT ![t] = Idle(site.number, site.draft.edit)] /\ tabs \in [Tabs -> TabStates]
      /\ Idle(site.number, site.draft.edit) \in TabStates /\ Idle(site.number, site.draft.edit).outcome = "none"
  BY TypedRow, IdleTab DEF GetWebsiteEditor, StudioInv, StudioTypes
<1>3. TabGoesOn(t) /\ Others(t) /\ tabs'[t].outcome # "conflict"  BY <1>1, <1>2 DEF TabGoesOn, Others
<1>4. StudioTypes'  BY <1>1, <1>3 DEF StudioInv, StudioTypes, Others
<1> QED BY <1>1, <1>3, <1>4, SiteStays, HarmlessActsKnowingly DEF Acted, StudioInv

\* A step or a launch sent again.
LEMMA ReplayActs == ASSUME StudioInv, NEW t \in Tabs, ReplayStep(t) \/ RelaunchWebsite(t) PROVE Acted(t)
<1>1. site' = site /\ revisions' = revisions /\ UNCHANGED <<owner, catalog, forms, assets, objects, deleting, edits>>
  BY DEF ReplayStep, RelaunchWebsite, studio, business, media
<1>2. /\ tabs' = [tabs EXCEPT ![t] = Idle(site.number, site.draft.edit)] /\ tabs \in [Tabs -> TabStates]
      /\ Idle(site.number, site.draft.edit) \in TabStates /\ Idle(site.number, site.draft.edit).outcome = "none"
  BY TypedRow, IdleTab DEF ReplayStep, RelaunchWebsite, StudioInv, StudioTypes
<1>3. TabGoesOn(t) /\ Others(t) /\ tabs'[t].outcome # "conflict"  BY <1>1, <1>2 DEF TabGoesOn, Others
<1>4. StudioTypes'  BY <1>1, <1>3 DEF StudioInv, StudioTypes, Others
<1> QED BY <1>1, <1>3, <1>4, SiteStays, HarmlessActsKnowingly DEF Acted, StudioInv

LEMMA ConflictActs == ASSUME StudioInv, NEW t \in Tabs, AssertExpectedRevision(t) PROVE Acted(t)
<1>1. site' = site /\ revisions' = revisions /\ UNCHANGED <<owner, catalog, forms, assets, objects, deleting, edits>>
  BY DEF AssertExpectedRevision, studio, business, media
<1>2. tabs \in [Tabs -> TabStates] /\ tabs[t] \in TabStates  BY DEF StudioInv, StudioTypes
<1>3. [tabs[t] EXCEPT !.request = None, !.outcome = "conflict"] \in TabStates  BY <1>2 DEF TabStates
<1>4. tabs' = [tabs EXCEPT ![t] = [tabs[t] EXCEPT !.request = None, !.outcome = "conflict"]]
  BY <1>2 DEF AssertExpectedRevision
<1>5. TabGoesOn(t) /\ Others(t)  BY <1>2, <1>3, <1>4 DEF TabGoesOn, Others
<1>6. StudioTypes'  BY <1>1, <1>5 DEF StudioInv, StudioTypes, Others
<1>7. ActsKnowingly(t)
  <2>1. TabIsRight(t)  BY TabsAreRight DEF StudioInv
  <2>2. ~(tabs[t].request.kind = "step" /\ HasReceipt(tabs[t].request)) /\ ~(tabs[t].request.kind = "launch" /\ IsLive)
    BY DEF AssertExpectedRevision, IsStale
  <2> QED BY <2>1, <2>2, <1>1 DEF ActsKnowingly, TabIsRight, Has
<1> QED BY <1>1, <1>5, <1>6, <1>7, SiteStays DEF Acted, StudioInv

\* What is left to show of an answer, once the website has gone on.
LEMMA AnsweredActs ==
  ASSUME StudioInv, NEW t \in Tabs, tabs[t].request # None, Answer(t), SiteGoesOn, ActsKnowingly(t),
         site' \in SiteRows, DOMAIN revisions' \subseteq 1 .. MaxNumber, revisions' \in [DOMAIN revisions' -> Revisions],
         owner' \in OwnerRows, catalog' \in StockRows, forms' \in FormRows,
         assets' \in [Images -> {"none", "linked", "unlinked"}], UNCHANGED <<objects, deleting, edits>>,
         Has(t, "step") => \E n \in DOMAIN revisions' : revisions'[n].reason = Receipt(tabs[t].request),
         Has(t, "launch") => owner'.launched /\ site'.status = "PUBLISHED" /\ site'.live # None
  PROVE  Acted(t)
<1>1. TabGoesOn(t) /\ Others(t)  BY AnswerGoesOn DEF StudioInv
<1>2. StudioTypes'  BY <1>1 DEF StudioInv, StudioTypes, Others, OwnerRows, StockRows, FormRows
<1> QED BY <1>1, <1>2 DEF Acted

LEMMA Unchanged_ ==
  ASSUME StudioTypes
  PROVE  /\ UNCHANGED revisions => DOMAIN revisions' \subseteq 1 .. MaxNumber /\ revisions' \in [DOMAIN revisions' -> Revisions]
         /\ UNCHANGED owner => owner' \in OwnerRows
         /\ UNCHANGED catalog => catalog' \in StockRows
         /\ UNCHANGED forms => forms' \in FormRows
         /\ UNCHANGED assets => assets' \in [Images -> {"none", "linked", "unlinked"}]
  BY DEF StudioTypes, OwnerRows, StockRows, FormRows

LEMMA SaveActs == ASSUME StudioInv, NEW t \in Tabs, SaveEditorState(t) PROVE Acted(t)
<1> DEFINE r == tabs[t].request
<1>1. /\ r # None /\ r.kind = "save" /\ ~IsStale(r) /\ site.number < MaxNumber
      /\ site' = [Edited(r) EXCEPT !.number = @ + 1] /\ Answer(t)
      /\ UNCHANGED <<revisions, owner, catalog, forms, assets, objects, deleting, edits>>
  BY DEF SaveEditorState, Has, business, media
<1>2. r \in StudioAsks /\ AlikeSite(Edited(r))  BY <1>1, RequestIsTyped, EditedSite DEF StudioInv
<1>3. site' \in SiteRows /\ SiteGoesOn  BY <1>1, <1>2, AutosaveGoesOn DEF StudioInv
<1>4. ~Has(t, "step") /\ ~Has(t, "launch")  BY <1>1 DEF Has
<1>5. ActsKnowingly(t)  BY <1>1, <1>4, FreshActsKnowingly
<1> QED BY <1>1, <1>3, <1>4, <1>5, Unchanged_, AnsweredActs DEF StudioInv

LEMMA SettingsActs == ASSUME StudioInv, NEW t \in Tabs, UpdateWebsite(t) \/ UpdatePage(t) PROVE Acted(t)
<1> DEFINE r == tabs[t].request
<1>1. PICK reason \in {Reason("settings"), Reason("page")} :
        /\ r # None /\ r.kind \in {"settings", "page"}
        /\ CreateRevisionSnapshot(Edited(r), reason) /\ Answer(t)
        /\ UNCHANGED <<owner, catalog, forms, assets, objects, deleting, edits>>
  BY DEF UpdateWebsite, UpdatePage, Has, business, media
<1>2. r \in StudioAsks /\ AlikeSite(Edited(r))  BY <1>1, RequestIsTyped, EditedSite DEF StudioInv
<1>r. reason \in Reasons  BY ReasonsAreTyped
<1>3. Edited(r) \in SiteRows /\ Edited(r).number = site.number  BY <1>2 DEF AlikeSite
<1>4. /\ site' \in SiteRows /\ SiteGoesOn
      /\ DOMAIN revisions' \subseteq 1 .. MaxNumber /\ revisions' \in [DOMAIN revisions' -> Revisions]
  BY <1>1, <1>2, <1>r, <1>3, SnapshotDoes, SnapshotGoesOn DEF StudioInv
<1>5. ~Has(t, "step") /\ ~Has(t, "launch") /\ ActsKnowingly(t)  BY <1>1, OthersActKnowingly DEF Has
<1> QED BY <1>1, <1>4, <1>5, Unchanged_, AnsweredActs DEF StudioInv

LEMMA PublishActs == ASSUME StudioInv, NEW t \in Tabs, PublishWebsite(t) PROVE Acted(t)
<1> DEFINE r == tabs[t].request
           d == AppliedTo(site.draft, r)
<1>1. /\ r # None /\ r.kind = "publish" /\ ~IsStale(r)
      /\ CreateRevisionSnapshot(Published(d), Reason("published")) /\ Answer(t)
      /\ UNCHANGED <<owner, catalog, forms, assets, objects, deleting, edits>>
  BY DEF PublishWebsite, Has, business, media
<1>2. r \in StudioAsks /\ d \in Drafts  BY <1>1, RequestIsTyped, PatchedDraft, TypedRow DEF StudioInv
<1>r. Reason("published") \in Reasons  BY ReasonsAreTyped
<1> HIDE DEF d
<1>3. Published(d) \in SiteRows /\ Published(d).number = site.number
  BY <1>2, PublishedSite DEF StudioInv
<1>4. /\ site' \in SiteRows /\ SiteGoesOn
      /\ DOMAIN revisions' \subseteq 1 .. MaxNumber /\ revisions' \in [DOMAIN revisions' -> Revisions]
  BY <1>1, <1>2, <1>r, <1>3, SnapshotDoes, PublicationGoesOn DEF StudioInv
<1>5. ~Has(t, "step") /\ ~Has(t, "launch")  BY <1>1 DEF Has
<1>6. ActsKnowingly(t)  BY <1>1, <1>5, FreshActsKnowingly
<1> QED BY <1>1, <1>4, <1>5, <1>6, Unchanged_, AnsweredActs DEF StudioInv

\* The booking form a draft is wired to is one of the forms.
LEMMA SelectedForms ==
  ASSUME StudioTypes, NEW c, NEW primary, NEW requested \in Forms \cup {None},
         NEW a \in SelectOrCreateBookingForm(c, primary, requested)
  PROVE  a.form \in Forms /\ a.forms \in FormRows
<1>1. \A f \in Forms : \A x \in Attach(f) : x.form \in Forms /\ x.forms \in FormRows
  BY DEF Attach, StudioTypes, FormRows
<1>2. PublishedForms \subseteq Forms /\ Reusable \subseteq Forms /\ {g \in Managed : forms[g] = "absent"} \subseteq Forms
  BY StudioAssumption DEF PublishedForms, Reusable
<1>3. \E f \in Forms : a \in Attach(f)  BY <1>2 DEF SelectOrCreateBookingForm
<1> QED BY <1>1, <1>3

LEMMA ConfiguredForms ==
  ASSUME StudioTypes, NEW c, NEW r \in StudioAsks, NEW b \in ConfigureForAdmin(c, r)
  PROVE  b.draft \in Drafts /\ b.forms \in FormRows
<1>1. site.draft \in Drafts /\ r.edit \in Nat /\ r.form \in Forms \cup {None} /\ forms \in FormRows
  BY TypedRow DEF StudioAsks, StudioTypes, FormRows
<1>2. CASE r.booking
  <2>1. PICK a \in SelectOrCreateBookingForm(c, site.draft.form, r.form) :
          b = [draft |-> [site.draft EXCEPT !.edit = r.edit, !.booking = TRUE, !.form = a.form], forms |-> a.forms]
    BY <1>2 DEF ConfigureForAdmin
  <2>2. a.form \in Forms /\ a.forms \in FormRows  BY <1>1, SelectedForms
  <2> QED BY <1>1, <2>1, <2>2 DEF Drafts
<1>3. CASE ~r.booking
  <2>1. b = [draft |-> [site.draft EXCEPT !.edit = r.edit, !.booking = FALSE], forms |-> forms]
    BY <1>3 DEF ConfigureForAdmin
  <2> QED BY <1>1, <2>1 DEF Drafts
<1> QED BY <1>2, <1>3

LEMMA ConfigureActs == ASSUME StudioInv, NEW t \in Tabs, Configure(t) PROVE Acted(t)
<1> DEFINE r == tabs[t].request
<1>1. PICK b \in ConfigureForAdmin(catalog, r) :
        /\ r # None /\ r.kind = "booking" /\ site.number < MaxNumber
        /\ site' = [Configured(b) EXCEPT !.number = @ + 1] /\ forms' = b.forms /\ Answer(t)
        /\ UNCHANGED <<revisions, owner, catalog, assets, objects, deleting, edits>>
  BY DEF Configure, Has, media
<1>2. r \in StudioAsks  BY <1>1, RequestIsTyped DEF StudioInv
<1>3. b.forms \in FormRows /\ AlikeSite(Configured(b))
  BY <1>2, ConfiguredForms, ConfiguredSite DEF StudioInv
<1>4. site' \in SiteRows /\ SiteGoesOn  BY <1>1, <1>3, AutosaveGoesOn DEF StudioInv
<1>5. ~Has(t, "step") /\ ~Has(t, "launch") /\ ActsKnowingly(t)  BY <1>1, OthersActKnowingly DEF Has
<1> QED BY <1>1, <1>3, <1>4, <1>5, Unchanged_, AnsweredActs DEF StudioInv

LEMMA RestoreActs == ASSUME StudioInv, NEW t \in Tabs, RestoreRevision(t) PROVE Acted(t)
<1> DEFINE r == tabs[t].request
           old == revisions[r.revision]
           back == {i \in {old.draft.logo} \cap old.assets : assets[i] = "none"}
           images == Registered \cup back
           one == Recorded(revisions, site.number + 1, site.draft, Reason("preserved"), images)
           both == Recorded(one, site.number + 2, old.draft, Reason("restored"), images)
<1>1. /\ r # None /\ r.kind = "restore" /\ ~IsStale(r)
      /\ site.number + 2 <= MaxNumber /\ {site.number + 1, site.number + 2} \cap DOMAIN revisions = {}
      /\ assets' = [i \in Images |-> IF i \in back THEN "unlinked" ELSE assets[i]]
      /\ site' = [site EXCEPT !.draft = old.draft, !.status = AfterDraftMutation(@), !.number = @ + 2]
      /\ revisions' = both
      /\ Answer(t)
      /\ UNCHANGED <<owner, catalog, forms, objects, deleting, edits>>
  BY DEF RestoreRevision, Has, business
<1>2. r.revision \in DOMAIN revisions /\ old \in Revisions /\ old.draft \in Drafts /\ old.assets \subseteq Images
  <2>1. r.revision \in DOMAIN revisions  BY <1>1 DEF StudioInv, TabsKnowTheirDraft, Has
  <2>2. old \in Revisions  BY <2>1 DEF StudioInv, StudioTypes
  <2> QED BY <2>1, <2>2 DEF Revisions
<1>3. images \in SUBSET Images /\ assets' \in [Images -> {"none", "linked", "unlinked"}]
  BY <1>1, <1>2 DEF Registered, StudioInv, StudioTypes
<1>4. /\ site.number \in Nat /\ site.number + 1 \in 1 .. MaxNumber /\ site.number + 2 \in 1 .. MaxNumber
      /\ site.draft \in Drafts
  <2>1. site.number + 2 <= MaxNumber /\ MaxNumber \in Nat  BY <1>1, NumbersOfDrafts
  <2>2. site.number \in Nat /\ site.draft \in Drafts  BY TypedRow DEF StudioInv
  <2> QED BY <2>1, <2>2
<1>5. /\ DOMAIN one = DOMAIN revisions \cup {site.number + 1} /\ DOMAIN one \subseteq 1 .. MaxNumber
      /\ one \in [DOMAIN one -> Revisions]
      /\ \A m \in DOMAIN revisions : one[m] = revisions[m]
  <2>1. DOMAIN revisions \subseteq 1 .. MaxNumber /\ revisions \in [DOMAIN revisions -> Revisions]
    BY DEF StudioInv, StudioTypes
  <2> DEFINE n == site.number + 1
             d == site.draft
             reason == Reason("preserved")
  <2>2. n \in 1 .. MaxNumber /\ n \notin DOMAIN revisions /\ d \in Drafts /\ reason \in Reasons
    BY <1>1, <1>4, ReasonsAreTyped
  <2>3. one = Recorded(revisions, n, d, reason, images)  OBVIOUS
  <2> HIDE DEF n, d, reason, images, one
  <2>4. LET q == Recorded(revisions, n, d, reason, images) IN
        /\ DOMAIN q = DOMAIN revisions \cup {n} /\ DOMAIN q \subseteq 1 .. MaxNumber /\ q \in [DOMAIN q -> Revisions]
        /\ \A m \in DOMAIN revisions : q[m] = revisions[m]
    BY <2>1, <2>2, <1>3, RecordedRevisions
  <2> QED BY <2>3, <2>4 DEF n
<1> HIDE DEF one
<1>6. /\ DOMAIN both = DOMAIN one \cup {site.number + 2} /\ DOMAIN both \subseteq 1 .. MaxNumber
      /\ both \in [DOMAIN both -> Revisions]
      /\ \A m \in DOMAIN one : both[m] = one[m]
  <2> DEFINE n == site.number + 2
             d == old.draft
             reason == Reason("restored")
  <2>1. n \in 1 .. MaxNumber /\ n \notin DOMAIN one /\ d \in Drafts /\ reason \in Reasons
    <3>1. site.number + 2 \notin DOMAIN revisions /\ site.number \in Nat  BY <1>1, <1>4
    <3>2. site.number + 2 \notin DOMAIN one
      <4> HIDE DEF one
      <4> QED BY <1>5, <3>1
    <3>3. d \in Drafts /\ reason \in Reasons  BY <1>2, ReasonsAreTyped
    <3> QED BY <1>4, <3>2, <3>3
  <2>2. both = Recorded(one, n, d, reason, images)  OBVIOUS
  <2> HIDE DEF n, d, reason, images, both
  <2>5. DOMAIN one \subseteq 1 .. MaxNumber /\ one \in [DOMAIN one -> Revisions]  BY <1>5
  <2>3. LET q == Recorded(one, n, d, reason, images) IN
        /\ DOMAIN q = DOMAIN one \cup {n} /\ DOMAIN q \subseteq 1 .. MaxNumber /\ q \in [DOMAIN q -> Revisions]
        /\ \A m \in DOMAIN one : q[m] = one[m]
    BY <2>1, <2>5, <1>3, RecordedRevisions
  <2> QED BY <2>2, <2>3 DEF n
<1> HIDE DEF both
<1>7. /\ site' \in SiteRows /\ site'.number = site.number + 2 /\ site'.live = site.live
      /\ site'.liveNumber = site.liveNumber /\ site'.status = AfterDraftMutation(site.status)
  <2>1. site \in SiteRows /\ AfterDraftMutation(site.status) \in Statuses
    BY TypedRow DEF StudioInv, StudioTypes, AfterDraftMutation, Statuses
  <2> QED BY <2>1, <1>1, <1>2, <1>4 DEF SiteRows
<1>8. RevisionsGrow
  <2>1. revisions' = both /\ site.number \in Nat  BY <1>1, <1>4
  <2> QED BY <2>1, <1>5, <1>6, <1>7 DEF RevisionsGrow
<1>9. SiteGoesOn  BY <1>1, <1>4, <1>7, <1>8 DEF SiteGoesOn
<1>10. DOMAIN revisions' \subseteq 1 .. MaxNumber /\ revisions' \in [DOMAIN revisions' -> Revisions]
  BY <1>1, <1>6
<1>11. ~Has(t, "step") /\ ~Has(t, "launch")  BY <1>1 DEF Has
<1>12. ActsKnowingly(t)  BY <1>1, <1>11, FreshActsKnowingly
<1> QED BY <1>1, <1>3, <1>7, <1>9, <1>10, <1>11, <1>12, Unchanged_, AnsweredActs DEF StudioInv

LEMMA StepsOfTheSetup ==
  ASSUME StudioTypes, NEW step \in Steps
  PROVE  WithStep(step) \in OwnerRows /\ WithStep(step).launched = owner.launched
  BY DEF StudioTypes, WithStep, NormalizedSteps, OwnerRows

LEMMA SetupStepsAre == {"business_profile", "branding", "services", "website_address", "review_launch"} \subseteq Steps
  BY StudioAssumption

LEMMA SelectedCatalog ==
  ASSUME StudioTypes, NEW r
  PROVE  SyncServiceCatalogSelection(r) \in StockRows
  BY DEF StudioTypes, SyncServiceCatalogSelection, StockRows

\* The four kinds of step leave a row like the present one and its receipt.
LEMMA SaveStepDoes ==
  ASSUME StudioInv, NEW t \in Tabs, SaveStep(t)
  PROVE  /\ tabs[t].request # None /\ tabs[t].request.kind = "step"
         /\ ~HasReceipt(tabs[t].request) /\ ~IsStale(tabs[t].request)
         /\ Answer(t) /\ UNCHANGED <<assets, objects, deleting, edits>>
         /\ \E s : AlikeSite(s) /\ CreateRevisionSnapshot(s, Receipt(tabs[t].request))
         /\ owner' \in OwnerRows /\ owner'.launched = owner.launched
         /\ catalog' \in StockRows /\ forms' \in FormRows
<1> DEFINE r == tabs[t].request
<1>1. /\ r # None /\ r.kind = "step" /\ ~HasReceipt(r) /\ ~IsStale(r)
      /\ Answer(t) /\ UNCHANGED <<assets, objects, deleting, edits>>
  BY DEF SaveStep, Has, media
<1>2. r \in StudioAsks /\ StudioTypes /\ owner \in OwnerRows
  BY <1>1, RequestIsTyped DEF StudioInv, StudioTypes, OwnerRows
<1>3. \A step \in {"business_profile", "branding", "services", "website_address"} :
         WithStep(step) \in OwnerRows /\ WithStep(step).launched = owner.launched
  BY <1>2, SetupStepsAre, StepsOfTheSetup
<1>4. CASE /\ r.step = "business_profile" /\ owner' = [WithStep(r.step) EXCEPT !.profile = @ + 1]
           /\ CreateRevisionSnapshot([site EXCEPT !.status = AfterDraftMutation(@)], Receipt(r))
           /\ UNCHANGED <<catalog, forms>>
  <2>1. owner' \in OwnerRows /\ owner'.launched = owner.launched  BY <1>3, <1>4 DEF OwnerRows
  <2> QED BY <2>1, <1>1, <1>2, <1>4, SettledSite, Unchanged_
<1>5. CASE /\ r.step = "branding" /\ owner' = WithStep(r.step)
           /\ CreateRevisionSnapshot(Edited(r), Receipt(r)) /\ UNCHANGED <<catalog, forms>>
  BY <1>1, <1>2, <1>3, <1>5, EditedSite, Unchanged_
<1>6. CASE /\ r.step = "services" /\ catalog' = SyncServiceCatalogSelection(r)
           /\ \E b \in ConfigureForAdmin(catalog', r) :
                 CreateRevisionSnapshot(Configured(b), Receipt(r)) /\ forms' = b.forms
           /\ owner' = WithStep(r.step)
  <2>1. PICK b \in ConfigureForAdmin(catalog', r) : CreateRevisionSnapshot(Configured(b), Receipt(r)) /\ forms' = b.forms
    BY <1>6
  <2>2. b.draft \in Drafts /\ b.forms \in FormRows  BY <1>2, ConfiguredForms
  <2>3. AlikeSite(Configured(b))  BY <2>2, <1>2, ConfiguredSite
  <2> QED BY <2>1, <2>2, <2>3, <1>1, <1>2, <1>3, <1>6, SelectedCatalog
<1>7. CASE /\ r.step = "website_address" /\ owner' = WithStep(r.step)
           /\ CreateRevisionSnapshot([site EXCEPT !.status = AfterDraftMutation(@)], Receipt(r))
           /\ UNCHANGED <<catalog, forms>>
  BY <1>1, <1>2, <1>3, <1>7, SettledSite, Unchanged_
<1> QED BY <1>4, <1>5, <1>6, <1>7 DEF SaveStep

LEMMA SaveStepActs == ASSUME StudioInv, NEW t \in Tabs, SaveStep(t) PROVE Acted(t)
<1> DEFINE r == tabs[t].request
<1>1. PICK s : AlikeSite(s) /\ CreateRevisionSnapshot(s, Receipt(r))  BY SaveStepDoes
<1>2. /\ r # None /\ r.kind = "step" /\ ~HasReceipt(r) /\ ~IsStale(r)
      /\ Answer(t) /\ UNCHANGED <<assets, objects, deleting, edits>>
      /\ owner' \in OwnerRows /\ owner'.launched = owner.launched
      /\ catalog' \in StockRows /\ forms' \in FormRows
  BY SaveStepDoes
<1>3. Receipt(r) \in Reasons /\ s \in SiteRows /\ s.number = site.number
  BY <1>1, <1>2, RequestIsTyped, ReasonsAreTyped DEF AlikeSite, StudioInv
<1>4. /\ site' \in SiteRows
      /\ DOMAIN revisions' \subseteq 1 .. MaxNumber /\ revisions' \in [DOMAIN revisions' -> Revisions]
      /\ site'.number \in DOMAIN revisions' /\ revisions'[site'.number].reason = Receipt(r)
  BY <1>1, <1>3, SnapshotDoes DEF StudioInv
<1>5. SiteGoesOn  BY <1>1, <1>2, <1>3, SnapshotGoesOn DEF StudioInv
<1>6. ~Has(t, "launch") /\ ActsKnowingly(t)  BY <1>2, FreshActsKnowingly DEF Has
<1> QED BY <1>2, <1>4, <1>5, <1>6, Unchanged_, AnsweredActs DEF StudioInv

LEMMA ServicesActs == ASSUME StudioInv, NEW t \in Tabs, SaveOnboardingServices(t) PROVE Acted(t)
<1> DEFINE r == tabs[t].request
<1>1. /\ r # None /\ r.kind = "services" /\ Answer(t) /\ UNCHANGED <<assets, objects, deleting, edits>>
  BY DEF SaveOnboardingServices, Has, media
<1>2. r \in StudioAsks /\ StudioTypes  BY <1>1, RequestIsTyped DEF StudioInv
<1>3. ~Has(t, "step") /\ ~Has(t, "launch") /\ ActsKnowingly(t)  BY <1>1, OthersActKnowingly DEF Has
<1>4. CASE UNCHANGED <<site, revisions, business>>
  <2>1. UNCHANGED <<site, revisions, owner, catalog, forms>>  BY <1>4 DEF business
  <2>2. SiteGoesOn /\ site' \in SiteRows  BY <2>1, <1>2, SiteStays DEF StudioTypes
  <2> QED BY <2>1, <2>2, <1>1, <1>2, <1>3, Unchanged_, AnsweredActs
<1>5. CASE /\ catalog' = SyncServiceCatalogSelection(r)
           /\ \E b \in ConfigureForAdmin(catalog', r) :
                 CreateRevisionSnapshot(Configured(b), Signature(r)) /\ forms' = b.forms
           /\ owner' = WithStep("services")
  <2>1. PICK b \in ConfigureForAdmin(catalog', r) : CreateRevisionSnapshot(Configured(b), Signature(r)) /\ forms' = b.forms
    BY <1>5
  <2>2. b.draft \in Drafts /\ b.forms \in FormRows  BY <1>2, ConfiguredForms
  <2>3. AlikeSite(Configured(b))  BY <2>2, <1>2, ConfiguredSite
  <2>4. Signature(r) \in Reasons /\ Configured(b) \in SiteRows /\ Configured(b).number = site.number
    BY <2>3, <1>2, ReasonsAreTyped DEF AlikeSite
  <2>5. owner' \in OwnerRows /\ owner'.launched = owner.launched /\ catalog' \in StockRows /\ forms' \in FormRows
    BY <2>1, <2>2, <1>2, <1>5, SetupStepsAre, StepsOfTheSetup, SelectedCatalog
  <2>6. /\ site' \in SiteRows
        /\ DOMAIN revisions' \subseteq 1 .. MaxNumber /\ revisions' \in [DOMAIN revisions' -> Revisions]
    BY <2>1, <2>4, <1>2, SnapshotDoes
  <2>7. SiteGoesOn  BY <2>1, <2>3, <2>4, <2>5, <1>2, SnapshotGoesOn
  <2> QED BY <2>5, <2>6, <2>7, <1>1, <1>2, <1>3, Unchanged_, AnsweredActs
<1> QED BY <1>4, <1>5 DEF SaveOnboardingServices

LEMMA LaunchActs == ASSUME StudioInv, NEW t \in Tabs, LaunchWebsite(t) PROVE Acted(t)
<1> DEFINE r == tabs[t].request
           d == AppliedTo(site.draft, r)
<1>1. /\ r # None /\ r.kind = "launch" /\ ~IsLive /\ ~IsStale(r) /\ Answer(t)
      /\ owner' = [WithStep("review_launch") EXCEPT !.launched = TRUE]
      /\ UNCHANGED <<catalog, assets, objects, deleting, edits>>
  BY DEF LaunchWebsite, Has, media
<1>2. r \in StudioAsks /\ d \in Drafts /\ StudioTypes
  BY <1>1, RequestIsTyped, PatchedDraft, TypedRow DEF StudioInv
<1>3. owner' \in OwnerRows /\ owner'.launched
  <2>1. WithStep("review_launch") \in OwnerRows  BY <1>2, SetupStepsAre, StepsOfTheSetup
  <2> QED BY <2>1, <1>1 DEF OwnerRows
<1>4. \E x \in Drafts : CreateRevisionSnapshot(Published(x), Reason("launched")) /\ forms' \in FormRows
  <2>1. CASE /\ d.booking
             /\ \E a \in EnsureAttachedForLaunch(d.form) :
                   /\ CreateRevisionSnapshot(Published([d EXCEPT !.form = a.form]), Reason("launched"))
                   /\ forms' = a.forms
    <3>1. PICK a \in SelectOrCreateBookingForm(catalog, d.form, None) :
             CreateRevisionSnapshot(Published([d EXCEPT !.form = a.form]), Reason("launched")) /\ forms' = a.forms
      BY <2>1 DEF EnsureAttachedForLaunch
    <3>2. a.form \in Forms /\ a.forms \in FormRows  BY <1>2, SelectedForms
    <3>3. [d EXCEPT !.form = a.form] \in Drafts  BY <3>2, <1>2 DEF Drafts
    <3> QED BY <3>1, <3>2, <3>3
  <2>2. CASE ~d.booking /\ CreateRevisionSnapshot(Published(d), Reason("launched")) /\ forms' = forms
    BY <2>2, <1>2, Unchanged_
  <2> QED BY <2>1, <2>2 DEF LaunchWebsite
<1>5. PICK x \in Drafts : CreateRevisionSnapshot(Published(x), Reason("launched")) /\ forms' \in FormRows
  BY <1>4
<1> HIDE DEF d
<1>6. Published(x) \in SiteRows /\ Published(x).number = site.number /\ Reason("launched") \in Reasons
  BY <1>2, PublishedSite, ReasonsAreTyped
<1>7. /\ site' \in SiteRows
      /\ DOMAIN revisions' \subseteq 1 .. MaxNumber /\ revisions' \in [DOMAIN revisions' -> Revisions]
  BY <1>2, <1>5, <1>6, SnapshotDoes
<1>8. SiteGoesOn /\ site'.status = "PUBLISHED" /\ site'.live # None
  BY <1>2, <1>3, <1>5, <1>6, PublicationGoesOn
<1>9. ~Has(t, "step")  BY <1>1 DEF Has
<1>10. ActsKnowingly(t)  BY <1>1, <1>9, FreshActsKnowingly
<1> QED BY <1>1, <1>10, <1>2, <1>3, <1>5, <1>7, <1>8, <1>9, Unchanged_, AnsweredActs

------------------------
(* New requests, and what happens outside the studio *)

\* The requests of a kind that a tab may build on what it loaded.
NewAsks(t, kind) ==
    {x \in StudioAsks : x.expected = tabs[t].number /\ x.saw = tabs[t].saw /\ ~x.applied /\ x.kind = kind}

LEMMA AskedIsNew ==
  ASSUME StudioInv, NEW t \in Tabs, NEW kind \in Kinds
  PROVE  Asked(t, kind) \in NewAsks(t, kind)
  BY NumbersOfDrafts DEF StudioInv, StudioTypes, TabStates, Asked, StudioAsks, NewAsks

LEMMA WithLogo ==
  ASSUME NEW t, NEW kind, NEW x \in NewAsks(t, kind), NEW i \in Images \cup {None}
  PROVE  [x EXCEPT !.logo = i] \in NewAsks(t, kind)
  BY DEF NewAsks, StudioAsks

LEMMA WithoutEdit ==
  ASSUME NEW t, NEW kind, NEW x \in NewAsks(t, kind)
  PROVE  [x EXCEPT !.edit = 0] \in NewAsks(t, kind)
  BY DEF NewAsks, StudioAsks

LEMMA WithBooking ==
  ASSUME NEW t, NEW kind, NEW x \in NewAsks(t, kind), NEW b \in BOOLEAN, NEW f \in Forms \cup {None}
  PROVE  Setup(x, b, f) \in NewAsks(t, kind)
  BY DEF NewAsks, StudioAsks, Setup

LEMMA WithVersions ==
  ASSUME NEW t, NEW kind, NEW x \in NewAsks(t, kind), NEW v \in Selected
  PROVE  [x EXCEPT !.versions = v] \in NewAsks(t, kind)
  BY DEF NewAsks, StudioAsks

LEMMA WithAStep ==
  ASSUME NEW t, NEW kind, NEW x \in NewAsks(t, kind), NEW s \in Steps
  PROVE  [x EXCEPT !.step = s] \in NewAsks(t, kind)
  BY DEF NewAsks, StudioAsks

LEMMA NewRequests ==
  ASSUME StudioInv, NEW t \in Tabs, NEW r \in MayAsk(t)
  PROVE  /\ \E kind \in Kinds : r \in NewAsks(t, kind)
         /\ r.kind = "restore" => r.revision \in DOMAIN revisions
<1>1. \A kind \in Kinds : Asked(t, kind) \in NewAsks(t, kind)  BY AskedIsNew
<1>2. ASSUME NEW kind \in Kinds
      PROVE  Pictured(t, kind) \subseteq NewAsks(t, kind) /\ Bare(t, kind) \subseteq NewAsks(t, kind)
  <2>1. \A i \in Logos : [Asked(t, kind) EXCEPT !.logo = i] \in NewAsks(t, kind)
    BY <1>1, WithLogo DEF Logos
  <2>2. [Asked(t, kind) EXCEPT !.edit = 0] \in NewAsks(t, kind)  BY <1>1, WithoutEdit
  <2> QED BY <2>1, <2>2 DEF Pictured, Bare
<1>3. ASSUME NEW kind \in Kinds
      PROVE  Selecting(t, kind) \subseteq NewAsks(t, kind)
  <2>1. Selections \subseteq Selected  BY DEF Selections, Selected, StudioInv, StudioTypes
  <2>2. \A v \in Selections : [Asked(t, kind) EXCEPT !.versions = v] \in NewAsks(t, kind)
    BY <1>1, <2>1, WithVersions
  <2> QED BY <2>2 DEF Selecting
<1>4. ASSUME NEW kind \in Kinds, NEW rs \in SUBSET NewAsks(t, kind)
      PROVE  WithForms(rs) \subseteq NewAsks(t, kind)
  <2>1. ASSUME NEW x \in rs, NEW b \in BOOLEAN, NEW f \in Of("forms", Forms) \cup {None}
        PROVE  Setup(x, b, f) \in NewAsks(t, kind)
    <3>1. x \in NewAsks(t, kind) /\ f \in Forms \cup {None}  BY DEF Of
    <3> QED BY <3>1, WithBooking
  <2>2. ASSUME NEW y \in WithForms(rs) PROVE y \in NewAsks(t, kind)
    <3>1. PICK x \in rs, b \in BOOLEAN, f \in Of("forms", Forms) \cup {None} : y = Setup(x, b, f)
      BY DEF WithForms, Setups
    <3> QED BY <3>1, <2>1
  <2> QED BY <2>2
<1>5. ASSUME NEW kind \in Kinds, NEW rs \in SUBSET NewAsks(t, kind),
             NEW s \in {"business_profile", "branding", "services", "website_address"}
      PROVE  Stepping(s, rs) \subseteq NewAsks(t, kind)
  <2>1. \A x \in rs : [x EXCEPT !.step = s] \in NewAsks(t, kind)  BY WithAStep, SetupStepsAre
  <2> QED BY <2>1 DEF Stepping
<1>6. {"save", "settings", "page", "publish", "restore", "launch", "booking", "services", "step"} = Kinds
  BY DEF Kinds
<1>7. Restoring(t) \subseteq NewAsks(t, "restore") /\ \A x \in Restoring(t) : x.revision \in DOMAIN revisions
  <2>1. DOMAIN revisions \subseteq Nat /\ Asked(t, "restore") \in NewAsks(t, "restore")
    BY <1>1, <1>6, NumbersOfDrafts DEF StudioInv, StudioTypes
  <2>2. SUFFICES ASSUME NEW x \in Restoring(t)
                 PROVE  x \in NewAsks(t, "restore") /\ x.revision \in DOMAIN revisions
    OBVIOUS
  <2>3. PICK n \in DOMAIN revisions : x = [Asked(t, "restore") EXCEPT !.edit = 0, !.revision = n]
    BY DEF Restoring
  <2>4. n \in Nat  BY <2>1
  <2>5. x \in NewAsks(t, "restore") /\ x.revision = n  BY <2>1, <2>3, <2>4 DEF NewAsks, StudioAsks
  <2> QED BY <2>3, <2>5
<1>8. WithForms({Asked(t, "booking")}) \subseteq NewAsks(t, "booking")  BY <1>1, <1>4, <1>6
<1>9. Stepping("services", WithForms(Selecting(t, "services"))) \subseteq NewAsks(t, "services")
  BY <1>3, <1>4, <1>5, <1>6
<1>10. /\ Stepping("services", WithForms(Selecting(t, "step"))) \subseteq NewAsks(t, "step")
       /\ Stepping("branding", Pictured(t, "step")) \subseteq NewAsks(t, "step")
       /\ Stepping("website_address", {Asked(t, "step")}) \subseteq NewAsks(t, "step")
       /\ Stepping("business_profile", Profiling(t)) \subseteq NewAsks(t, "step")
  <2>1. WithForms(Selecting(t, "step")) \subseteq NewAsks(t, "step") /\ Profiling(t) \subseteq NewAsks(t, "step")
    BY <1>3, <1>4, <1>6 DEF Profiling
  <2>2. Pictured(t, "step") \subseteq NewAsks(t, "step") /\ {Asked(t, "step")} \subseteq NewAsks(t, "step")
    BY <1>1, <1>2, <1>6
  <2> QED BY <2>1, <2>2, <1>5, <1>6
<1>11. \/ r \in Restoring(t)
       \/ \E kind \in Kinds \ {"restore"} : r \in Pictured(t, kind) \cup Bare(t, kind) \cup {Asked(t, kind)}
       \/ r \in WithForms({Asked(t, "booking")}) \/ r \in Stepping("services", WithForms(Selecting(t, "services")))
       \/ r \in Stepping("services", WithForms(Selecting(t, "step"))) \/ r \in Stepping("branding", Pictured(t, "step"))
       \/ r \in Stepping("website_address", {Asked(t, "step")}) \/ r \in Stepping("business_profile", Profiling(t))
  BY <1>6 DEF MayAsk, Of
<1>12. r \in Restoring(t) \/ \E kind \in Kinds \ {"restore"} : r \in NewAsks(t, kind)
  BY <1>1, <1>2, <1>6, <1>8, <1>9, <1>10, <1>11
<1> QED BY <1>6, <1>7, <1>12 DEF NewAsks

LEMMA AskActs ==
  ASSUME StudioInv, NEW t \in Tabs, Ask(t)
  PROVE  StudioTypes' /\ SiteGoesOn /\ Others(t) /\ TabIsRight(t)' /\ ActsKnowingly(t)
<1>1. PICK r \in MayAsk(t) : tabs' = [tabs EXCEPT ![t].request = r, ![t].outcome = "none"]  BY DEF Ask
<1>2. /\ tabs[t].request = None /\ edits' = edits + 1
      /\ UNCHANGED <<site, revisions, owner, catalog, forms, assets, objects, deleting>>
  BY DEF Ask, studio, business, media
<1>3. PICK kind \in Kinds : r \in NewAsks(t, kind)  BY NewRequests
<1>4. /\ r \in StudioAsks /\ r.expected = tabs[t].number /\ r.saw = tabs[t].saw /\ ~r.applied
      /\ r.kind = "restore" => r.revision \in DOMAIN revisions
  BY <1>3, NewRequests DEF NewAsks
<1> DEFINE x == [tabs[t] EXCEPT !.request = r, !.outcome = "none"]
<1>5. tabs \in [Tabs -> TabStates] /\ tabs[t] \in TabStates /\ StudioTypes
  BY DEF StudioInv, StudioTypes
<1>6. /\ x \in TabStates /\ x.number = tabs[t].number /\ x.saw = tabs[t].saw /\ x.request = r
  BY <1>4, <1>5 DEF TabStates
<1>7. tabs' = [tabs EXCEPT ![t] = x]  BY <1>1, <1>5
<1> HIDE DEF x
<1>8. Others(t) /\ tabs'[t] = x  BY <1>5, <1>6, <1>7 DEF Others
<1>9. StudioTypes'  BY <1>2, <1>5, <1>8 DEF StudioTypes, Others
<1>10. SiteGoesOn  BY <1>2, <1>5, SiteStays
<1>11. TabIsRight(t)  BY TabsAreRight DEF StudioInv
<1>12. TabIsRight(t)'  BY <1>2, <1>4, <1>6, <1>8, <1>11, RightNext DEF TabIsRight, Knows
<1>13. ActsKnowingly(t)  BY <1>2 DEF ActsKnowingly
<1> QED BY <1>8, <1>9, <1>10, <1>12, <1>13

\* What the older endpoints, the catalogue, the forms and the images do.
Apart == StudioTypes' /\ SiteGoesOn /\ tabs' = tabs

LEMMA CompletionIsApart == ASSUME StudioInv, NEW step \in Steps, CompleteOnboardingStep(step) PROVE Apart
<1>1. /\ owner' = WithStep(step) /\ site' = [site EXCEPT !.status = AfterDraftMutation(@)]
      /\ UNCHANGED <<revisions, catalog, forms, assets, objects, deleting, tabs, edits>>
  BY DEF CompleteOnboardingStep, media
<1>2. StudioTypes /\ owner' \in OwnerRows /\ owner'.launched = owner.launched
  BY <1>1, StepsOfTheSetup DEF StudioInv
<1>3. AlikeSite(site') /\ site'.draft = site.draft  BY <1>1, <1>2, SettledSite
<1>4. StudioTypes'  BY <1>1, <1>2, <1>3 DEF AlikeSite, StudioTypes, OwnerRows
<1>5. SiteGoesOn  BY <1>1, <1>2, <1>3, TypedRow DEF AlikeSite, SiteGoesOn, RevisionsGrow
<1> QED BY <1>1, <1>4, <1>5 DEF Apart

LEMMA OwnerIsApart ==
  ASSUME StudioInv, SkipWebsiteOnboardingSetup \/ FinalizeOnboardingSetup \/ UpdateAdmin
  PROVE  Apart
<1>1. /\ UNCHANGED <<site, revisions, catalog, forms, assets, objects, deleting, tabs, edits>>
      /\ \/ owner' = [owner EXCEPT !.steps = Steps]
         \/ owner' = [owner EXCEPT !.launched = TRUE] /\ site.status = "PUBLISHED"
         \/ owner' = [owner EXCEPT !.profile = @ + 1]
  BY DEF SkipWebsiteOnboardingSetup, FinalizeOnboardingSetup, UpdateAdmin, studio, media
<1>2. owner \in OwnerRows /\ StudioTypes  BY DEF StudioInv, StudioTypes, OwnerRows
<1>3. /\ owner' \in OwnerRows
      /\ owner.launched => owner'.launched
      /\ owner'.launched => owner.launched \/ site.status = "PUBLISHED"
  <2>1. CASE owner' = [owner EXCEPT !.steps = Steps]  BY <2>1, <1>2 DEF OwnerRows
  <2>2. CASE owner' = [owner EXCEPT !.launched = TRUE] /\ site.status = "PUBLISHED"
    BY <2>2, <1>2 DEF OwnerRows
  <2>3. CASE owner' = [owner EXCEPT !.profile = @ + 1]  BY <2>3, <1>2 DEF OwnerRows
  <2> QED BY <1>1, <2>1, <2>2, <2>3
<1>4. StudioTypes'  BY <1>1, <1>2, <1>3 DEF StudioTypes, OwnerRows
<1>5. SiteGoesOn  BY <1>1, <1>2, <1>3, TypedRow DEF SiteGoesOn, RevisionsGrow
<1> QED BY <1>1, <1>4, <1>5 DEF Apart

LEMMA CatalogIsApart ==
  ASSUME StudioInv,
         \/ \E s \in Services : CreateServiceCatalog(s) \/ UpdateServiceCatalog(s) \/ DeleteServiceCatalog(s)
         \/ ImportRecommendedServices
  PROVE  Apart
<1>1. StudioTypes /\ catalog \in StockRows  BY DEF StudioInv, StudioTypes, StockRows
<1>2. UNCHANGED <<site, revisions, owner, forms, assets, objects, deleting, tabs, edits>>
  BY DEF CreateServiceCatalog, UpdateServiceCatalog, DeleteServiceCatalog, ImportRecommendedServices, Stock, studio, media
<1>3. catalog' \in StockRows
  <2>1. CASE \E s \in Services, status \in {"absent", "inactive", "active", "bookable", "archived"} : Stock(s, status)
    BY <2>1, <1>1 DEF Stock, StockRows
  <2>2. CASE ImportRecommendedServices  BY <2>2, <1>1 DEF ImportRecommendedServices, StockRows
  <2> QED BY <2>1, <2>2 DEF CreateServiceCatalog, UpdateServiceCatalog, DeleteServiceCatalog
<1>4. StudioTypes'  BY <1>1, <1>2, <1>3 DEF StudioTypes, StockRows
<1> QED BY <1>1, <1>2, <1>4, SiteStays DEF Apart

LEMMA FormsAreApart ==
  ASSUME StudioInv, NEW f \in Forms, CreateBookingForm(f) \/ TogglePublished(f) \/ DeleteBookingForm(f)
  PROVE  Apart
<1>1. StudioTypes /\ forms \in FormRows  BY DEF StudioInv, StudioTypes, FormRows
<1>2. PICK status \in {"absent", "unpublished", "published"} : Formed(f, status)
  BY DEF CreateBookingForm, TogglePublished, DeleteBookingForm
<1>3. UNCHANGED <<revisions, owner, catalog, assets, objects, deleting, tabs, edits>> /\ forms' \in FormRows
  BY <1>1, <1>2 DEF Formed, FormRows, media
<1>4. CASE UNCHANGED site
  <2>1. StudioTypes'  BY <1>1, <1>3, <1>4 DEF StudioTypes, FormRows
  <2> QED BY <1>1, <1>3, <1>4, <2>1, SiteStays DEF Apart
<1>5. CASE site' = [site EXCEPT !.draft.form = IF @ = f THEN None ELSE @]
  <2> DEFINE d == [site.draft EXCEPT !.form = IF @ = f THEN None ELSE @]
  <2>1. site' = [site EXCEPT !.draft = d]  BY <1>5
  <2>2. d \in Drafts /\ d.edit = site.draft.edit  BY <1>1, TypedRow DEF Drafts
  <2> HIDE DEF d
  <2>3. /\ site' \in SiteRows /\ site'.draft = d /\ site'.number = site.number /\ site'.status = site.status
        /\ site'.live = site.live /\ site'.liveNumber = site.liveNumber
    BY <1>1, <2>1, <2>2 DEF StudioTypes, SiteRows
  <2>4. StudioTypes'  BY <1>1, <1>3, <2>3 DEF StudioTypes, FormRows
  <2>5. SiteGoesOn  BY <1>1, <1>3, <2>2, <2>3, TypedRow DEF SiteGoesOn, RevisionsGrow
  <2> QED BY <1>3, <2>4, <2>5 DEF Apart
<1> QED BY <1>4, <1>5 DEF CreateBookingForm, TogglePublished, DeleteBookingForm

LEMMA ImagesAreApart ==
  ASSUME StudioInv, (\E i \in Images : AttachManagedBrandAsset(i) \/ CheckDeleteAsset(i)) \/ DeleteAsset
  PROVE  Apart
<1>1. UNCHANGED <<site, revisions, owner, catalog, forms, tabs, edits>>
  BY DEF AttachManagedBrandAsset, CheckDeleteAsset, DeleteAsset, studio, business
<1>2. StudioTypes  BY DEF StudioInv
<1>3. /\ assets' \in [Images -> {"none", "linked", "unlinked"}] /\ objects' \subseteq Images
      /\ deleting' \in Images \cup {None}
  BY <1>2 DEF StudioTypes, AttachManagedBrandAsset, CheckDeleteAsset, DeleteAsset
<1>4. StudioTypes'  BY <1>1, <1>2, <1>3 DEF StudioTypes
<1> QED BY <1>1, <1>2, <1>4, SiteStays DEF Apart

------------------------
(* The theorems about the studio *)

LEMMA InitStudioInv == InitStudio(Mixes) => StudioInv
<1> SUFFICES ASSUME InitStudio(Mixes) PROVE StudioInv
  OBVIOUS
<1>1. /\ site = [status |-> "PROVISIONED", draft |-> Blank, number |-> 1, live |-> None, liveNumber |-> 0]
      /\ DOMAIN revisions = {1}
      /\ revisions = [n \in {1} |-> [draft |-> Blank, reason |-> Reason("created"), assets |-> {}]]
      /\ owner = [steps |-> {}, launched |-> FALSE, profile |-> 0]
      /\ catalog = [s \in Services |-> "absent"] /\ forms = [f \in Forms |-> "absent"]
      /\ assets = [i \in Images |-> "none"] /\ objects = {} /\ deleting = None /\ edits = 0
      /\ tabs = [t \in Tabs |-> Idle(1, 0)]
  BY DEF InitStudio
<1>2. Blank \in Drafts /\ Blank.edit = 0 /\ 1 \in 1 .. MaxNumber  BY NumbersOfDrafts DEF Blank, Drafts
<1>3. site \in SiteRows /\ site.number = 1 /\ site.draft.edit = 0 /\ site.live = None /\ site.status = "PROVISIONED"
  BY <1>1, <1>2 DEF SiteRows, Statuses
<1>4. DOMAIN revisions \subseteq 1 .. MaxNumber /\ revisions \in [DOMAIN revisions -> Revisions]
  BY <1>1, <1>2 DEF Revisions, Reasons, Reason
<1>5. Idle(1, 0) \in TabStates /\ Idle(1, 0).request = None /\ Idle(1, 0).number = 1 /\ Idle(1, 0).saw = 0
  BY <1>2, IdleTab
<1>6. StudioTypes  BY <1>1, <1>3, <1>4, <1>5 DEF StudioTypes
<1>7. SiteIsKnown  BY <1>1, <1>3 DEF SiteIsKnown
<1>8. TabsKnowTheirDraft /\ AppliedIsRecognised
  BY <1>1, <1>3, <1>5 DEF TabsKnowTheirDraft, AppliedIsRecognised, Knows, Has
<1> QED BY <1>6, <1>7, <1>8 DEF StudioInv

\* A step of a tab, of something else, or none.
LEMMA StudioStep ==
  ASSUME StudioInv, StudioNext
  PROVE  \/ \E t \in Tabs : /\ StudioTypes' /\ SiteGoesOn /\ Others(t) /\ TabIsRight(t)' /\ ActsKnowingly(t)
         \/ Apart
<1>1. ASSUME NEW t \in Tabs, Acted(t)
      PROVE  StudioTypes' /\ SiteGoesOn /\ Others(t) /\ TabIsRight(t)' /\ ActsKnowingly(t)
  <2>1. site' \in SiteRows  BY <1>1 DEF Acted, StudioTypes
  <2> QED BY <1>1, <2>1, ActingStaysRight DEF Acted
<1>2. ASSUME NEW t \in Tabs,
             \/ GetWebsiteEditor(t) \/ AssertExpectedRevision(t)
             \/ SaveEditorState(t) \/ UpdateWebsite(t) \/ UpdatePage(t) \/ PublishWebsite(t)
             \/ RestoreRevision(t) \/ Configure(t)
             \/ SaveStep(t) \/ ReplayStep(t) \/ SaveOnboardingServices(t) \/ LaunchWebsite(t) \/ RelaunchWebsite(t)
      PROVE  Acted(t)
  BY <1>2, EditorActs, ConflictActs, SaveActs, SettingsActs, PublishActs, RestoreActs, ConfigureActs,
     SaveStepActs, ReplayActs, ServicesActs, LaunchActs
<1>3. ASSUME NEW t \in Tabs, Ask(t)
      PROVE  StudioTypes' /\ SiteGoesOn /\ Others(t) /\ TabIsRight(t)' /\ ActsKnowingly(t)
  BY <1>3, AskActs
<1> QED
  BY <1>1, <1>2, <1>3, CompletionIsApart, OwnerIsApart, CatalogIsApart, FormsAreApart, ImagesAreApart DEF StudioNext

LEMMA StudioInvIsKept == StudioInv /\ [StudioNext]_studioVars => StudioInv'
<1> SUFFICES ASSUME StudioInv, [StudioNext]_studioVars PROVE StudioInv'
  OBVIOUS
<1>1. CASE UNCHANGED studioVars
  BY <1>1 DEF studioVars, StudioInv, StudioTypes, SiteIsKnown, TabsKnowTheirDraft, AppliedIsRecognised, Knows,
              Has, HasReceipt, IsLive
<1>2. CASE StudioNext
  <2>1. StudioTypes' /\ SiteGoesOn /\ site' \in SiteRows  BY <1>2, StudioStep DEF Apart, StudioTypes
  <2>2. \A u \in Tabs : TabIsRight(u)'
    <3>1. ASSUME NEW u \in Tabs, tabs'[u] = tabs[u] PROVE TabIsRight(u)'
      BY <3>1, <2>1, BystanderStaysRight
    <3>2. ASSUME NEW t \in Tabs, Others(t), TabIsRight(t)' PROVE \A u \in Tabs : TabIsRight(u)'
      BY <3>1, <3>2 DEF Others
    <3> QED BY <1>2, <3>1, <3>2, StudioStep DEF Apart
  <2>3. (TabsKnowTheirDraft /\ AppliedIsRecognised)'
    BY <2>2 DEF TabsKnowTheirDraft, AppliedIsRecognised, TabIsRight
  <2> QED BY <2>1, <2>3, SiteStaysKnown DEF StudioInv
<1> QED BY <1>1, <1>2

LEMMA StudioInvHolds == StudioSpec => []StudioInv
<1>1. StudioInv /\ [StudioNext]_studioVars => StudioInv'  BY StudioInvIsKept
<1> QED BY <1>1, InitStudioInv, PTL DEF StudioSpec

\* The row of the website, its revisions, the onboarding, the catalogue, the
\* forms, the images and the tabs keep their types.
THEOREM StudioTypeCorrect == StudioSpec => []StudioTypeOK
<1>1. StudioInv => StudioTypeOK
  <2> SUFFICES ASSUME StudioInv PROVE StudioTypeOK
    OBVIOUS
  <2>1. /\ site.status \in {"PROVISIONED", "DRAFT", "PUBLISHED"} /\ site.number \in 1 .. MaxNumber
        /\ site.draft.form \in Forms \cup {None} /\ site.draft.logo \in Images \cup {None}
    BY TypedRow DEF StudioInv, Statuses
  <2>2. /\ DOMAIN revisions \subseteq 1 .. MaxNumber
        /\ owner.steps \subseteq Steps /\ owner.launched \in BOOLEAN
        /\ objects \subseteq Images /\ deleting \in Images \cup {None}
    BY DEF StudioInv, StudioTypes
  <2>3. \A t \in Tabs : tabs[t].number \in 1 .. MaxNumber  BY DEF StudioInv, StudioTypes, TabStates
  <2> QED BY <2>1, <2>2, <2>3 DEF StudioTypeOK
<1> QED BY <1>1, StudioInvHolds, PTL

\* What visitors see is the revision it names, no revision is numbered past the
\* draft, and a finished onboarding has a live website.
THEOREM LiveSitesAreKnown == StudioSpec => []LiveSiteIsKnown
<1>1. StudioInv => LiveSiteIsKnown
  BY DEF StudioInv, SiteIsKnown, LiveSiteIsKnown, LiveIsTheRevisionItNames, FinishedHasALiveSite
<1> QED BY <1>1, StudioInvHolds, PTL

\* A request changes no draft but the one it was built on, and a step or a
\* launch sent again changes nothing and is not refused.
THEOREM DraftsChangeKnowingly == StudioSpec => DraftsAreChangedKnowingly
<1> DEFINE Seen(t) ==
             LET r == tabs[t].request IN
             /\ r # None
             /\ r.kind \in {"save", "publish", "restore", "launch", "step"}
             /\ tabs'[t] # tabs[t] /\ site'.draft # site.draft
             => site.draft.edit = r.saw
           Recognised(t) ==
             LET r == tabs[t].request IN
             /\ r # None
             /\ r.kind \in {"step", "launch"} /\ r.applied
             /\ tabs'[t] # tabs[t]
             => site' = site /\ revisions' = revisions /\ tabs'[t].outcome # "conflict"
<1>1. ASSUME StudioInv, [StudioNext]_studioVars, NEW u \in Tabs PROVE Seen(u) /\ Recognised(u)
  <2>1. CASE UNCHANGED studioVars  BY <2>1 DEF studioVars
  <2>2. CASE StudioNext
    <3>1. CASE tabs'[u] = tabs[u]  BY <3>1
    <3>2. CASE tabs'[u] # tabs[u]
      <4>1. ActsKnowingly(u)  BY <1>1, <2>2, <3>2, StudioStep DEF Apart, Others
      <4> QED BY <4>1 DEF ActsKnowingly
    <3> QED BY <3>1, <3>2
  <2> QED BY <1>1, <2>1, <2>2
<1>2. StudioInv /\ [StudioNext]_studioVars => \A t \in Tabs : Seen(t)  BY <1>1
<1>3. StudioInv /\ [StudioNext]_studioVars => \A t \in Tabs : Recognised(t)  BY <1>1
<1>4. StudioSpec => NothingIsOverwrittenUnseen
  BY <1>2, StudioInvHolds, PTL DEF StudioSpec, NothingIsOverwrittenUnseen
<1>5. StudioSpec => RetriesAreRecognised
  BY <1>3, StudioInvHolds, PTL DEF StudioSpec, RetriesAreRecognised
<1> QED BY <1>4, <1>5 DEF DraftsAreChangedKnowingly
================================================================================
