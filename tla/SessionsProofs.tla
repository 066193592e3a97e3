----------------------------- MODULE SessionsProofs -----------------------------
(***************************************************************************)
(* Theorems about the sessions of a person, for any number of browsers,    *)
(* tabs, sessions and credentials, and for every mix of handlers; and, at  *)
(* the end, about the notifications that go out by mail.                   *)
(*                                                                         *)
(* Only a refresh holds a lock; every other handler works on rows that may *)
(* have changed since it read them.  The invariant says what it may rely   *)
(* on all the same: nobody else knows the session of a sign-in that is     *)
(* under way (SignInInv), the credential that a session may exchange has   *)
(* been exchanged by nobody (RotationInv), and, while nothing is lost or   *)
(* late, what a browser holds is current or was until a moment ago         *)
(* (GraceInv).                                                             *)
(***************************************************************************)
EXTENDS Sessions, NotificationDelivery, WellFoundedInduction, FiniteSetTheorems, TLAPS

------------------------
(* Types *)

AccountRow == [status : AccountStatus, verified : BOOLEAN, tenant : {"ACTIVE", "SUSPENDED"},
               password : 1..Passwords]
Issued == [family : Nat, from : Nat]

\* What is left to look up, and the passwords that handlers go by.
CallsFit ==
    \A t \in Tabs :
        /\ At(t, "look") \/ At(t, "fill") => call[t].todo # <<>>
        /\ At(t, "create") \/ At(t, "validate") \/ At(t, "activate") \/ At(t, "others") \/ At(t, "bind")
             => call[t].password \in 1..account.password
        /\ At(t, "find") \/ At(t, "revoke") => call[t].password \in 0..account.password

Types ==
    /\ account \in AccountRow
    /\ session \in [Ids -> Columns]
    /\ credential \in Seq(Issued)
    /\ jar \in [Browsers -> Cookies]
    /\ call \in [Tabs -> Call \cup {NoCall}]
    /\ cache \in [Keys -> {"none", "ok", "bad"}]
    /\ settled \in 1..account.password
    /\ CallsFit

\* Only credentials that were issued are stored, kept or presented.
IssuedOnly ==
    /\ \A s \in Ids : /\ session[s].hash \in 0..Len(credential)
                      /\ session[s].hash = 0 <=> session[s].family = 0
    /\ \A b \in Browsers : jar[b].refresh \in 0..Len(credential)
    /\ \A t \in Tabs :
        /\ At(t, "refresh") \/ At(t, "rotate") => call[t].refresh \in 1..Len(credential)
        /\ At(t, "answer") \/ At(t, "invalidate") => call[t].jar.refresh \in 0..Len(credential)
        /\ At(t, "rotate") => (call[t].row.hash = 0 <=> call[t].row.family = 0)
        /\ At(t, "create") => ops \cap {"login", "verify"} # {}
        /\ At(t, "create") /\ call[t].next = "activate" => "verify" \in ops

TypeInv == Types /\ IssuedOnly

------------------------
(* Old credentials *)

\* The session that a call is about or will leave in a jar.
Acts(t) == \E op \in {"validate", "activate", "bind", "others", "refresh", "rotate"} : At(t, op)
Brings(t) == At(t, "answer") \/ At(t, "invalidate")
Names(t, s) == \/ Acts(t) /\ call[t].session = s
               \/ Brings(t) /\ call[t].jar.session = s

NamedExist ==
    \A s \in Ids :
        (\E t \in Tabs : Names(t, s)) \/ (\E b \in Browsers : jar[b].session = s)
            => session[s].status # "NONE"

\* A sign-in that is not through: nobody else knows its session.
Fresh(t) == At(t, "validate") \/ At(t, "activate") \/ (At(t, "bind") /\ call[t].keep # 1)

FreshIsAlone ==
    \A t \in Tabs : Fresh(t) =>
        /\ \A u \in Tabs \ {t} : ~Names(u, call[t].session)
        /\ \A b \in Browsers : jar[b].session # call[t].session

Timely(s) == Open(s) /\ ~session[s].late

\* Sessions that were not inserted late, and those that sign-ins will bind, are of the settled
\* password or a later one.
PasswordsAreCurrent ==
    /\ \A s \in Ids : Timely(s) => session[s].password >= settled
    /\ \A t \in Tabs : Fresh(t) /\ Timely(call[t].session) => call[t].password >= settled

\* Whom a suspended person has open: sign-ins that will be refused.
OnlyRefused ==
    account.status = "SUSPENDED" /\ ~Suspending /\ ops \cap {"verify", "die"} = {} =>
        \A s \in Ids : Timely(s) =>
            /\ session[s].hash = 0
            /\ \E t \in Tabs : /\ At(t, "validate")
                               /\ call[t].session = s
                               /\ call[t].status # "ACTIVE"

SignInInv == NamedExist /\ FreshIsAlone /\ PasswordsAreCurrent /\ OnlyRefused

------------------------
(* Rotation *)

\* The credential that a session may exchange.
Key(s) ==
    IF session[s].hash # 0 THEN session[s].hash
    ELSE IF ops \cap {"login", "verify"} = {} /\ s \in Using THEN s ELSE 0

\* Whoever has locked a row has read it as it is.
RowIsHeld ==
    \A t \in Tabs : At(t, "rotate") =>
        LET row == session[call[t].session] IN
        /\ call[t].row.hash = row.hash
        /\ call[t].row.prev = row.prev
        /\ call[t].row.family = row.family
        /\ row.recent => call[t].row.recent
        /\ \A u \in Tabs \ {t} : ~(At(u, "rotate") /\ call[u].session = call[t].session)

Spent(c) == \E d \in DOMAIN credential : credential[d].from = c

KeysAreUnspent ==
    /\ \A c \in DOMAIN credential : credential[c].from \in 0..Len(credential)
    /\ \A s \in Ids : Key(s) # 0 => Key(s) \in 1..Len(credential) /\ ~Spent(Key(s))
    /\ \A s, r \in Ids : s # r /\ Key(s) = Key(r) => Key(s) = 0

\* What a jar or a call holds for a session.
InJar(b, s, c) == jar[b].session = s /\ jar[b].refresh = c
Presents(t, s, c) == (At(t, "refresh") \/ At(t, "rotate")) /\ call[t].session = s /\ call[t].refresh = c
Carries(t, s, c) == Brings(t) /\ call[t].jar.session = s /\ call[t].jar.refresh = c
Held(s, c) == \/ \E b \in Browsers : InJar(b, s, c)
              \/ \E t \in Tabs : Presents(t, s, c) \/ Carries(t, s, c)

\* A session without a hash exchanges only the credential it was issued with.
LegacyHoldTheirOwn ==
    \A s \in Ids : session[s].hash = 0 =>
        /\ \A c \in 1..Len(credential) : Held(s, c) => c = Key(s)
        /\ \A t \in Tabs : ~Carries(t, s, 0)

RotationInv == RowIsHeld /\ KeysAreUnspent /\ LegacyHoldTheirOwn /\ RotatesOnce

------------------------
(* The grace *)

Undisturbed == ops \cap {"lose", "slow", "change", "die", "login"} = {}

\* A sign-in or a change of the password that is not through: only that of the person who
\* verifies the address, before there is any credential.
Signs(t) == \E op \in {"create", "validate", "activate", "bind", "others"} : At(t, op)
SignsAlone ==
    \A t \in Tabs : Signs(t) =>
        "verify" \in ops /\ Len(credential) = 0 /\ \A u \in Tabs \ {t} : ~Signs(u)

\* Who verifies the address is the only one with a session.
OnlyOne ==
    "verify" \in ops =>
        /\ \A s, r \in Ids : session[s].status # "NONE" /\ session[r].status # "NONE" => s = r
        /\ ~account.verified \/ (\E t \in Tabs : At(t, "create")) =>
             (\A s \in Ids : session[s].status = "NONE") /\ Len(credential) = 0
        /\ ~account.verified => \A t \in Tabs : ~At(t, "create")

\* Otherwise a browser has its own.
ToEachHisOwn ==
    "verify" \notin ops =>
        /\ \A b \in Browsers : jar[b].session \in {0, b}
        /\ \A t \in Tabs :
            /\ At(t, "refresh") \/ At(t, "rotate") => call[t].session = call[t].browser
            /\ At(t, "answer") \/ (At(t, "invalidate") /\ call[t].browser # 0)
                => call[t].jar.session \in {0, call[t].browser}

\* A credential comes with its session.
Paired ==
    /\ \A b \in Browsers : jar[b].session = 0 => jar[b].refresh = 0
    /\ \A t \in Tabs : Brings(t) /\ call[t].jar.session = 0 => call[t].jar.refresh = 0

\* A credential on its way to a browser is the current one, and nobody has it yet.
NewsIsNew(s) ==
    \A c \in 1..Len(credential), t \in Tabs : Carries(t, s, c) =>
        /\ c = Key(s)
        /\ \A b \in Browsers : ~InJar(b, s, c)
        /\ \A u \in Tabs \ {t} : ~Carries(u, s, c) /\ ~Presents(u, s, c)

\* What browsers and their requests hold is current, or was until a moment ago.
HeldIsFine(s) ==
    \A c \in 1..Len(credential) : Held(s, c) =>
        /\ c = Key(s) \/ (session[s].prev = c /\ session[s].recent)
        /\ credential[c].family \in {0, session[s].family}

\* The current credential is exchanged only when the one before it is no longer around.
NothingOlder(s) == \A t \in Tabs : Presents(t, s, Key(s)) => ~session[s].recent

Fine(s) ==
    /\ NewsIsNew(s) /\ HeldIsFine(s) /\ NothingOlder(s)
    /\ session[s].recent => session[s].hash # 0
    /\ session[s].status # "REUSED"

GraceParts == SignsAlone /\ OnlyOne /\ ToEachHisOwn /\ Paired /\ \A s \in Ids : Fine(s)
GraceInv == Undisturbed => GraceParts

SessionsInv == TypeInv /\ SignInInv /\ RotationInv /\ GraceInv
------------------------
(* Lemmas about operators *)

LEMMA Bounds ==
  /\ Devices \in Nat \ {0} /\ Rows \in Nat \ {0} /\ Credentials \in Nat \ {0}
  /\ MaxSessions \in Nat \ {0} /\ Passwords \in Nat \ {0}
  /\ Devices <= Rows
  /\ NoCall \notin Call
  BY SessionsAssumption

LEMMA BrowsersAreNumbers ==
  /\ Browsers \in SUBSET Ids /\ Ids \in SUBSET Nat /\ 0 \notin Ids
  /\ Using \in SUBSET Browsers
  BY Bounds DEF Browsers, Ids, Using

\* What the records of the handlers are made of.
LEMMA CallFields ==
  ASSUME NEW c \in Call
  PROVE  /\ c.op = "create" =>
              /\ c.browser \in Browsers /\ c.status \in AccountStatus /\ c.password \in Nat
              /\ c.next \in {"validate", "activate"}
         /\ c.op = "validate" =>
              /\ c.browser \in Browsers /\ c.session \in Ids
              /\ c.status \in AccountStatus /\ c.password \in Nat
         /\ c.op \in {"activate", "others"} =>
              c.browser \in Browsers /\ c.session \in Ids /\ c.password \in Nat
         /\ c.op = "bind" =>
              /\ c.browser \in Browsers /\ c.session \in Ids
              /\ c.keep \in Nat /\ c.password \in Nat
         /\ c.op = "refresh" =>
              c.browser \in Browsers /\ c.session \in Ids /\ c.refresh \in Nat
         /\ c.op = "rotate" =>
              /\ c.browser \in Browsers /\ c.session \in Ids
              /\ c.refresh \in Nat /\ c.row \in Columns
         /\ c.op = "logout" => c.browser \in Browsers /\ c.session \in Ids
         /\ c.op \in {"find", "revoke"} =>
              /\ c.browser \in Browsers \cup {0} /\ c.password \in Nat
              /\ c.keys \in SUBSET Keys
         /\ c.op = "invalidate" =>
              /\ c.browser \in Browsers \cup {0} /\ c.keys \in SUBSET Keys
              /\ c.jar \in Cookies
         /\ c.op = "answer" => c.browser \in Browsers /\ c.jar \in Cookies
         /\ c.op \in {"look", "admitted"} =>
              c.session \in 0..Rows /\ c.late \in BOOLEAN /\ c.todo \in Seq(Keys)
         /\ c.op = "fill" =>
              /\ c.session \in 0..Rows /\ c.late \in BOOLEAN /\ c.todo \in Seq(Keys)
              /\ c.value \in {"ok", "bad"} /\ c.leads \in BOOLEAN
<1>0. CASE c \in [op : {"create"}, browser : Browsers, status : AccountStatus, password : Nat, next : {"validate", "activate"}]
  BY <1>0
<1>1. CASE c \in [op : {"validate"}, browser : Browsers, session : Ids, status : AccountStatus, password : Nat]
  BY <1>1
<1>2. CASE c \in [op : {"activate", "others"}, browser : Browsers, session : Ids, password : Nat]
  BY <1>2
<1>3. CASE c \in [op : {"bind"}, browser : Browsers, session : Ids, keep : Nat, password : Nat]  BY <1>3
<1>4. CASE c \in [op : {"refresh"}, browser : Browsers, session : Ids, refresh : Nat]  BY <1>4
<1>5. CASE c \in [op : {"rotate"}, browser : Browsers, session : Ids, refresh : Nat, row : Columns]
  BY <1>5
<1>6. CASE c \in [op : {"logout"}, browser : Browsers, session : Ids]  BY <1>6
<1>7. CASE c \in [op : {"find", "revoke"}, browser : Browsers \cup {0}, password : Nat, keys : SUBSET Keys]
  BY <1>7
<1>8. CASE c \in [op : {"invalidate"}, browser : Browsers \cup {0}, keys : SUBSET Keys, jar : Cookies]
  BY <1>8
<1>9. CASE c \in [op : {"answer"}, browser : Browsers, jar : Cookies]  BY <1>9
<1>10. CASE c \in [op : {"look", "admitted"}, session : 0..Rows, late : BOOLEAN, todo : Seq(Keys)]
  BY <1>10
<1>11. CASE c \in [op : {"fill"}, session : 0..Rows, late : BOOLEAN, todo : Seq(Keys), value : {"ok", "bad"}, leads : BOOLEAN]
  BY <1>11
<1> QED BY <1>0, <1>1, <1>2, <1>3, <1>4, <1>5, <1>6, <1>7, <1>8, <1>9, <1>10, <1>11 DEF Call

LEMMA LeastNatural ==
  ASSUME NEW T \in SUBSET Nat, T # {}
  PROVE  \E m \in T : \A k \in T : m <= k
<1> DEFINE R == OpToRel(<, Nat)
<1>1. \A k, m \in Nat : <<k, m>> \in R <=> k < m  BY DEF OpToRel
<1>2. IsWellFoundedOn(R, Nat)  BY NatLessThanWellFounded
<1> HIDE DEF R
<1>3. \E m \in T : \A k \in T : ~(<<k, m>> \in R)  BY <1>2, WFMin
<1>4. PICK m \in T : \A k \in T : ~(<<k, m>> \in R)  BY <1>3
<1>5. ASSUME NEW k \in T PROVE m <= k
  <2>1. k \in Nat /\ m \in Nat /\ ~(<<k, m>> \in R)  BY <1>4
  <2>2. ~(k < m)  BY <1>1, <2>1
  <2> QED BY <2>1, <2>2
<1> QED BY <1>5

\* The next row is one that has not been used.
LEMMA NextRowIsNew ==
  ASSUME MoreRows
  PROVE  NextRow \in Ids /\ session[NextRow].status = "NONE"
<1> DEFINE T == {s \in Ids : session[s].status = "NONE"}
<1>1. T \in SUBSET Nat /\ T # {}  BY BrowsersAreNumbers DEF MoreRows
<1>2. PICK m \in T : \A k \in T : m <= k  BY <1>1, LeastNatural
<1>3. \A r \in 1..(m - 1) : r \in Ids /\ ~(m <= r)  BY <1>2, Bounds DEF Ids
<1>4. \E s \in Ids : session[s].status = "NONE" /\ \A r \in 1..(s - 1) : session[r].status # "NONE"
  BY <1>2, <1>3
<1> QED BY <1>4 DEF NextRow

\* What a step of a handler leaves of the calls.
LEMMA GoIsTyped ==
  ASSUME call \in [Tabs -> Call \cup {NoCall}], NEW t \in Tabs, NEW c \in Call \cup {NoCall}, Go(t, c)
  PROVE  /\ call' \in [Tabs -> Call \cup {NoCall}]
         /\ call'[t] = c
         /\ \A u \in Tabs \ {t} : call'[u] = call[u]
  BY DEF Go

\* Rows are deleted, never changed.
RowsShrink ==
    \A s \in Ids :
        /\ session'[s].hash = session[s].hash
        /\ session'[s].prev = session[s].prev
        /\ session'[s].family = session[s].family
        /\ session'[s].recent = session[s].recent
        /\ session'[s].password = session[s].password
        /\ session'[s].late = session[s].late
        /\ \/ session'[s].status = session[s].status
           \/ session[s].status = "OPEN" /\ session'[s].status \in {"GONE", "REUSED"}

NoneReused == \A s \in Ids : session'[s].status = "REUSED" => session[s].status = "REUSED"

LEMMA DeleteShrinks ==
  ASSUME session \in [Ids -> Columns], NEW t, NEW S, Delete(t, S)
  PROVE  /\ session' \in [Ids -> Columns]
         /\ RowsShrink /\ NoneReused
         /\ \A s \in S \cap Ids : session'[s].status # "OPEN"
<1>1. ASSUME NEW s \in Ids
      PROVE  /\ session[s] \in Columns
             /\ session'[s] = IF s \in S /\ Open(s) THEN [session[s] EXCEPT !.status = "GONE"]
                              ELSE session[s]
  BY DEF Delete
<1>2. \A s \in Ids : session'[s] \in Columns  BY <1>1 DEF Columns, RowStatus
<1>3. session' = [s \in Ids |-> session'[s]]  BY DEF Delete
<1>4. session' \in [Ids -> Columns]  BY <1>2, <1>3
<1>5. RowsShrink /\ NoneReused  BY <1>1, BrowsersAreNumbers DEF Columns, RowsShrink, NoneReused, Open
<1>6. \A s \in S \cap Ids : session'[s].status # "OPEN"  BY <1>1, BrowsersAreNumbers DEF Columns, Open
<1> QED BY <1>4, <1>5, <1>6

LEMMA SameRowsShrink ==
  ASSUME session' = session
  PROVE  RowsShrink /\ NoneReused
  BY DEF RowsShrink, NoneReused

------------------------
(* Types *)

\* A record that a handler may leave behind.
FitsWith(c, password) ==
    c # NoCall =>
        /\ c.op \in {"look", "fill"} => c.todo # <<>>
        /\ c.op \in {"create", "validate", "activate", "others", "bind"} => c.password \in 1..password
        /\ c.op \in {"find", "revoke"} => c.password \in 0..password

LEMMA CallStepTyped ==
  ASSUME Types, NEW t \in Tabs, NEW c \in Call \cup {NoCall}, Go(t, c),
         account' \in AccountRow, account'.password >= account.password,
         FitsWith(c, account'.password)
  PROVE  call' \in [Tabs -> Call \cup {NoCall}] /\ CallsFit'
<1>1. call \in [Tabs -> Call \cup {NoCall}] /\ account \in AccountRow /\ CallsFit  BY DEF Types
<1>2. /\ call' \in [Tabs -> Call \cup {NoCall}]
      /\ call'[t] = c
      /\ \A u \in Tabs \ {t} : call'[u] = call[u]
  BY <1>1, GoIsTyped
<1>3. account.password \in Nat /\ account'.password \in Nat  BY <1>1, Bounds DEF AccountRow
<1>4. CallsFit'  BY <1>1, <1>2, <1>3 DEF CallsFit, At, FitsWith
<1> QED BY <1>2, <1>4

\* Everything but the calls as it was.
LEMMA OnlyCalls ==
  ASSUME Types, NEW t \in Tabs, NEW c \in Call \cup {NoCall}, Go(t, c), FitsWith(c, account.password),
         UNCHANGED <<account, session, credential, jar, cache, settled>>
  PROVE  Types'
<1>1. account' \in AccountRow /\ account'.password >= account.password /\ account'.password = account.password
  BY Bounds DEF Types, AccountRow
<1>2. FitsWith(c, account'.password)  BY <1>1
<1>3. call' \in [Tabs -> Call \cup {NoCall}] /\ CallsFit'  BY <1>1, <1>2, CallStepTyped
<1> QED BY <1>1, <1>3 DEF Types

LEMMA EndFits ==
  ASSUME NEW p
  PROVE  FitsWith(NoCall, p) /\ NoCall \in Call \cup {NoCall}
  BY DEF FitsWith

LEMMA InvalidateFits ==
  ASSUME NEW b \in Browsers \cup {0}, NEW keys \in SUBSET Keys, NEW j \in Cookies, NEW p
  PROVE  /\ [op |-> "invalidate", browser |-> b, keys |-> keys, jar |-> j] \in Call \cup {NoCall}
         /\ FitsWith([op |-> "invalidate", browser |-> b, keys |-> keys, jar |-> j], p)
  BY DEF Call, FitsWith

LEMMA AnswerFits ==
  ASSUME NEW b \in Browsers, NEW j \in Cookies, NEW p
  PROVE  /\ [op |-> "answer", browser |-> b, jar |-> j] \in Call \cup {NoCall}
         /\ FitsWith([op |-> "answer", browser |-> b, jar |-> j], p)
  BY DEF Call, FitsWith

LEMMA EmptyIsCookies == Empty \in Cookies
  BY Bounds DEF Empty, Cookies

LEMMA KeySets ==
  /\ Account \in Keys /\ Tenant \in Keys /\ Ids \in SUBSET Keys /\ OpenRows \in SUBSET Ids
  BY Bounds DEF Account, Tenant, Keys, Ids, OpenRows

\* The facts that every step starts from.
LEMMA TypeFacts ==
  ASSUME Types
  PROVE  /\ account \in AccountRow /\ account.password \in 1..Passwords
         /\ account.status \in AccountStatus
         /\ session \in [Ids -> Columns]
         /\ \A b \in Browsers : jar[b] \in Cookies /\ (jar[b].session # 0 => jar[b].session \in Ids)
         /\ call \in [Tabs -> Call \cup {NoCall}]
         /\ settled \in 1..account.password
         /\ \A t \in Tabs : call[t] # NoCall => call[t] \in Call
  BY Bounds DEF Types, AccountRow, Cookies, Ids

LEMMA TypesInit == InitSessions => Types
<1> SUFFICES ASSUME InitSessions PROVE Types
  OBVIOUS
<1>1. account \in AccountRow /\ account.password = 1
  BY Bounds DEF InitSessions, AccountRow, AccountStatus
<1>2. Cardinality(Using) \in Nat
  <2>1. IsFiniteSet(Browsers)  BY Bounds, FS_Interval DEF Browsers
  <2>2. IsFiniteSet(Using)  BY <2>1, BrowsersAreNumbers, FS_Subset
  <2> QED BY <2>2, FS_CardinalityType
<1>3. session \in [Ids -> Columns] /\ credential \in Seq(Issued) /\ jar \in [Browsers -> Cookies]
  <2>1. CASE ops \cap {"login", "verify"} # {}
    <3>1. NoRow \in Columns  BY DEF NoRow, Columns, RowStatus
    <3>2. credential = <<>>  BY <2>1 DEF InitSessions
    <3> QED BY <2>1, <3>1, <3>2, EmptyIsCookies DEF InitSessions
  <2>2. CASE ops \cap {"login", "verify"} = {}
    <3>1. \A n \in Nat : Stored(n) \in Nat  BY DEF Stored
    <3>2. session \in [Ids -> Columns]
      <4>1. session = [s \in Ids |-> IF s \notin Using THEN NoRow
                          ELSE [status |-> "OPEN", hash |-> Stored(s), prev |-> 0,
                                family |-> Stored(s), recent |-> FALSE, password |-> 1, late |-> FALSE]]
        BY <2>2 DEF InitSessions
      <4>2. ASSUME NEW s \in Ids
            PROVE  [status |-> "OPEN", hash |-> Stored(s), prev |-> 0,
                    family |-> Stored(s), recent |-> FALSE, password |-> 1, late |-> FALSE] \in Columns
        BY <3>1, BrowsersAreNumbers DEF Columns, RowStatus
      <4>3. NoRow \in Columns  BY DEF NoRow, Columns, RowStatus
      <4> QED BY <4>1, <4>2, <4>3
    <3>3. credential \in Seq(Issued)
      <4>1. \A c \in 1..Cardinality(Using) : [family |-> Stored(c), from |-> 0] \in Issued
        BY <1>2, <3>1 DEF Issued
      <4>2. credential = [c \in 1..Cardinality(Using) |-> [family |-> Stored(c), from |-> 0]]
        BY <2>2 DEF InitSessions
      <4> QED BY <1>2, <4>1, <4>2
    <3>4. jar = [b \in Browsers |-> IF b \in Using THEN [session |-> b, refresh |-> b] ELSE Empty]
      BY <2>2 DEF InitSessions
    <3>5. \A b \in Browsers : [session |-> b, refresh |-> b] \in Cookies
      BY Bounds DEF Browsers, Cookies
    <3> QED BY <3>2, <3>3, <3>4, <3>5, EmptyIsCookies
  <2> QED BY <2>1, <2>2
<1>4. call \in [Tabs -> Call \cup {NoCall}] /\ cache \in [Keys -> {"none", "ok", "bad"}]
  BY DEF InitSessions
<1>5. settled \in 1..account.password  BY <1>1 DEF InitSessions
<1>6. CallsFit  BY DEF InitSessions, CallsFit, At
<1> QED BY <1>1, <1>3, <1>4, <1>5, <1>6 DEF Types

\* Deleting rows and going on.
LEMMA DeleteAndGo ==
  ASSUME Types, NEW t \in Tabs, NEW S, Delete(t, S), NEW c \in Call \cup {NoCall}, Go(t, c),
         FitsWith(c, account.password),
         account' = account, credential' = credential, jar' = jar,
         cache' \in [Keys -> {"none", "ok", "bad"}],
         settled' \in 1..account.password
  PROVE  Types'
<1>1. account' \in AccountRow /\ account'.password >= account.password /\ account'.password = account.password
  BY Bounds DEF Types, AccountRow
<1>2. FitsWith(c, account'.password)  BY <1>1
<1>3. call' \in [Tabs -> Call \cup {NoCall}] /\ CallsFit'  BY <1>1, <1>2, CallStepTyped
<1>4. session' \in [Ids -> Columns]  BY DeleteShrinks DEF Types
<1> QED BY <1>1, <1>3, <1>4 DEF Types

\* Changing the account and going on.
LEMMA AccountAndGo ==
  ASSUME Types, NEW t \in Tabs, NEW c \in Call \cup {NoCall}, Go(t, c),
         account' \in AccountRow, account'.password >= account.password,
         FitsWith(c, account'.password),
         UNCHANGED <<session, credential, jar, cache, settled>>
  PROVE  Types'
<1>1. call' \in [Tabs -> Call \cup {NoCall}] /\ CallsFit'  BY CallStepTyped
<1>2. settled' \in 1..account'.password  BY Bounds DEF Types, AccountRow
<1> QED BY <1>1, <1>2 DEF Types

\* A new session.
LEMMA NewRowIsTyped ==
  ASSUME Types, MoreRows, NEW c, c.password \in Nat, session' = [session EXCEPT ![NextRow] = Unbound(c)]
  PROVE  /\ session' \in [Ids -> Columns]
         /\ NextRow \in Ids
         /\ session[NextRow].status = "NONE"
         /\ session'[NextRow] = Unbound(c)
         /\ \A s \in Ids \ {NextRow} : session'[s] = session[s]
<1>1. NextRow \in Ids /\ session[NextRow].status = "NONE"  BY NextRowIsNew
<1> DEFINE s == NextRow
<1>2. s \in Ids /\ session \in [Ids -> Columns] /\ account.password \in Nat  BY <1>1, TypeFacts, Bounds
<1>3. Unbound(c) \in Columns  BY <1>2 DEF Columns, RowStatus, Unbound, Overdue
<1>4. session' = [session EXCEPT ![s] = Unbound(c)]  OBVIOUS
<1> HIDE DEF s
<1>5. session' \in [Ids -> Columns] /\ session'[s] = Unbound(c) /\ \A r \in Ids \ {s} : session'[r] = session[r]
  BY <1>2, <1>3, <1>4
<1> QED BY <1>1, <1>5 DEF s

\* What binding a credential does to the rows; those in excess are some that are open.
Bound(password, late) ==
    [status |-> "OPEN", hash |-> NextCredential, prev |-> 0, family |-> NextCredential,
     recent |-> FALSE, password |-> password, late |-> late]
Excess(t) == (OpenRows \ {call[t].session}) \ Newest(OpenRows \ {call[t].session}, call[t].keep)

LEMMA BindShape ==
  ASSUME NEW t \in Tabs, Bind(t), call[t].session \in Ids, Open(call[t].session)
  PROVE  /\ LockFree(t, {call[t].session} \cup Excess(t))
         /\ session' = [r \in Ids |->
              IF r = call[t].session THEN Bound(call[t].password, session[call[t].session].late)
              ELSE IF r \in Excess(t) THEN [session[r] EXCEPT !.status = "GONE"] ELSE session[r]]
         /\ credential' = Append(credential, [family |-> NextCredential, from |-> 0])
         /\ settled' = IF call[t].keep = 1 THEN call[t].password ELSE settled
         /\ \E keys \in SUBSET Keys :
              Go(t, [op |-> "invalidate", browser |-> call[t].browser, keys |-> keys,
                     jar |-> [session |-> call[t].session, refresh |-> NextCredential]])
         /\ UNCHANGED <<account, jar, cache, ops>>
         /\ At(t, "bind") /\ MoreCredentials
<1>1. (Excess(t) \cup {Account} \cup (IF call[t].keep = 1 THEN {call[t].session} ELSE {})) \in SUBSET Keys
  BY KeySets DEF Excess
<1> QED BY <1>1 DEF Bind, Excess, Bound, Invalidated

\* The three ways in which a refresh ends.
Exchanges(t) ==
    /\ ~FamilyMismatch(call[t].row, call[t].refresh) /\ Current(call[t].row, call[t].refresh)
    /\ session' = [session EXCEPT ![call[t].session] =
                      Rotated(session[call[t].session], call[t].refresh, FamilyOf(call[t].row, call[t].refresh))]
    /\ credential' = Append(credential, [family |-> FamilyOf(call[t].row, call[t].refresh),
                                         from |-> call[t].refresh])
    /\ Go(t, [op |-> "answer", browser |-> call[t].browser,
              jar |-> [session |-> call[t].session, refresh |-> NextCredential]])

LetsPass(t) ==
    /\ ~FamilyMismatch(call[t].row, call[t].refresh)
    /\ ~Current(call[t].row, call[t].refresh) /\ WithinGrace(call[t].row, call[t].refresh)
    /\ Go(t, [op |-> "answer", browser |-> call[t].browser,
              jar |-> [session |-> call[t].session, refresh |-> 0]])
    /\ UNCHANGED <<session, credential>>

Revokes(t) ==
    /\ \/ FamilyMismatch(call[t].row, call[t].refresh)
       \/ ~Current(call[t].row, call[t].refresh) /\ ~WithinGrace(call[t].row, call[t].refresh)
    /\ session' = [r \in Ids |-> IF r \in Family(call[t].row, call[t].session)
                                 THEN [session[r] EXCEPT !.status = "REUSED"] ELSE session[r]]
    /\ Go(t, [op |-> "invalidate", browser |-> call[t].browser,
              keys |-> Family(call[t].row, call[t].session) \cup {Account}, jar |-> Empty])
    /\ UNCHANGED credential

LEMMA RotateShape ==
  ASSUME NEW t, Rotate(t)
  PROVE  /\ At(t, "rotate")
         /\ Exchanges(t) \/ LetsPass(t) \/ Revokes(t)
         /\ UNCHANGED <<account, jar, cache, settled, ops>>
  BY DEF Rotate, Exchanges, LetsPass, Revokes, Answer, Invalidated

\* A look-up that has come out.
LEMMA FoundFits ==
  ASSUME Types, NEW t \in Tabs, At(t, "look") \/ At(t, "fill"), NEW value, Found(t, value)
  PROVE  \E c \in Call \cup {NoCall} : Go(t, c) /\ FitsWith(c, account.password)
<1>1. /\ call[t].session \in 0..Rows /\ call[t].late \in BOOLEAN /\ call[t].todo \in Seq(Keys)
      /\ call[t].todo # <<>>
  BY TypeFacts, CallFields DEF Types, CallsFit, At
<1>2. Tail(call[t].todo) \in Seq(Keys)  BY <1>1
<1>3. CASE value = "bad"  BY <1>3, EndFits DEF Found, End
<1>4. CASE value # "bad"
  <2> DEFINE c == [op |-> IF Tail(call[t].todo) = <<>> THEN "admitted" ELSE "look", session |-> call[t].session,
                   late |-> call[t].late, todo |-> Tail(call[t].todo)]
  <2>1. Go(t, c)  BY <1>4 DEF Found
  <2>2. c \in Call \cup {NoCall}  BY <1>1, <1>2 DEF Call
  <2>3. FitsWith(c, account.password)  BY DEF FitsWith
  <2> HIDE DEF c
  <2> QED BY <2>1, <2>2, <2>3
<1> QED BY <1>3, <1>4

LEMMA TypesStep ==
  ASSUME Types, IssuedOnly, [SessionsNext]_sessionVars
  PROVE  Types'
<1>0. /\ account \in AccountRow /\ account.password \in 1..Passwords /\ account.password \in Nat
      /\ account.status \in AccountStatus
      /\ session \in [Ids -> Columns]
      /\ \A b \in Browsers : jar[b] \in Cookies /\ (jar[b].session # 0 => jar[b].session \in Ids)
      /\ call \in [Tabs -> Call \cup {NoCall}]
      /\ settled \in 1..account.password
      /\ cache \in [Keys -> {"none", "ok", "bad"}]
      /\ credential \in Seq(Issued)
      /\ jar \in [Browsers -> Cookies]
      /\ CallsFit
  BY TypeFacts, Bounds DEF Types
<1>u. Using \in SUBSET Browsers /\ 0 \notin Ids  BY BrowsersAreNumbers
<1>1. ASSUME NEW t \in Tabs, NEW b \in Using, SignIn(t, b) \/ VerifyEmail(t, b)
      PROVE  Types'
  <2>1. ASSUME NEW next \in {"validate", "activate"},
               Go(t, [op |-> "create", browser |-> b, status |-> account.status,
                      password |-> account.password, next |-> next])
        PROVE  Types'
    <3> DEFINE c == [op |-> "create", browser |-> b, status |-> account.status,
                     password |-> account.password, next |-> next]
    <3>1. c \in Call \cup {NoCall} /\ FitsWith(c, account.password)  BY <1>0, <1>u DEF Call, FitsWith
    <3>2. Go(t, c)  BY <2>1
    <3> HIDE DEF c
    <3>3. /\ account' \in AccountRow /\ account'.password = account.password
          /\ UNCHANGED <<session, credential, jar, cache, settled>>
      BY <1>0, <1>1 DEF SignIn, VerifyEmail, AccountRow
    <3>4. FitsWith(c, account'.password) /\ account'.password >= account.password  BY <1>0, <3>1, <3>3
    <3> QED BY <3>1, <3>2, <3>3, <3>4, AccountAndGo
  <2> QED BY <1>1, <2>1 DEF SignIn, VerifyEmail
<1>2. ASSUME NEW t \in Tabs, CreateSession(t)
      PROVE  Types'
  <2>1. /\ call[t] # NoCall /\ call[t].op = "create" /\ call[t].browser \in Browsers
        /\ call[t].status \in AccountStatus /\ call[t].password \in 1..account.password
        /\ call[t].password \in Nat
    BY <1>0, <1>2, TypeFacts, CallFields DEF CreateSession, At, CallsFit
  <2> DEFINE c == IF call[t].next = "activate"
                  THEN [op |-> "activate", browser |-> call[t].browser, session |-> NextRow,
                        password |-> call[t].password]
                  ELSE [op |-> "validate", browser |-> call[t].browser, session |-> NextRow,
                        status |-> call[t].status, password |-> call[t].password]
  <2>2. session' \in [Ids -> Columns] /\ NextRow \in Ids  BY <1>2, <2>1, NewRowIsTyped DEF CreateSession
  <2>3. c \in Call \cup {NoCall} /\ FitsWith(c, account.password)  BY <2>1, <2>2 DEF Call, FitsWith
  <2>4. Go(t, c) /\ UNCHANGED <<account, credential, jar, cache, settled>>  BY <1>2 DEF CreateSession
  <2> HIDE DEF c
  <2>5. account' \in AccountRow /\ account'.password >= account.password /\ FitsWith(c, account'.password)
    BY <1>0, <2>3, <2>4
  <2>6. call' \in [Tabs -> Call \cup {NoCall}] /\ CallsFit'  BY <2>3, <2>4, <2>5, CallStepTyped
  <2> QED BY <1>0, <2>2, <2>4, <2>5, <2>6 DEF Types
<1>3. ASSUME NEW t \in Tabs, NEW b \in Using, StartRefresh(t, b)
      PROVE  Types'
  <2> DEFINE c == [op |-> "refresh", browser |-> b, session |-> jar[b].session,
                   refresh |-> jar[b].refresh]
  <2>1. jar[b] \in Cookies /\ jar[b].session \in Ids /\ jar[b].refresh \in Nat
    BY <1>0, <1>u, <1>3 DEF StartRefresh, Cookies
  <2>2. c \in Call \cup {NoCall} /\ FitsWith(c, account.password)
    BY <1>0, <1>u, <2>1 DEF Call, FitsWith
  <2>3. Go(t, c) /\ UNCHANGED <<account, session, credential, jar, cache, settled>>
    BY <1>3 DEF StartRefresh
  <2> HIDE DEF c
  <2> QED BY <2>2, <2>3, OnlyCalls
<1>4. ASSUME NEW t \in Tabs, NEW b \in Using, StartLogout(t, b)
      PROVE  Types'
  <2> DEFINE c == [op |-> "logout", browser |-> b, session |-> jar[b].session]
  <2>1. jar[b].session \in Ids  BY <1>0, <1>u, <1>4 DEF StartLogout
  <2>2. c \in Call \cup {NoCall} /\ FitsWith(c, account.password)
    BY <1>0, <1>u, <2>1 DEF Call, FitsWith
  <2>3. Go(t, c) /\ UNCHANGED <<account, session, credential, jar, cache, settled>>
    BY <1>4 DEF StartLogout
  <2> HIDE DEF c
  <2> QED BY <2>2, <2>3, OnlyCalls
<1>5. ASSUME NEW t \in Tabs, NEW b \in Using, RevokeOtherSessions(t, b)
      PROVE  Types'
  <2> DEFINE c == [op |-> "invalidate", browser |-> 0, keys |-> Others(jar[b].session), jar |-> Empty]
  <2>1. Others(jar[b].session) \in SUBSET Keys  BY KeySets DEF Others
  <2>2. c \in Call \cup {NoCall} /\ FitsWith(c, account.password)
    BY <2>1, InvalidateFits, EmptyIsCookies
  <2>3. /\ Delete(t, Others(jar[b].session)) /\ Go(t, c)
        /\ UNCHANGED <<account, credential, jar, cache, settled>>
    BY <1>5 DEF RevokeOtherSessions, Invalidated
  <2> HIDE DEF c
  <2>4. cache' \in [Keys -> {"none", "ok", "bad"}] /\ settled' \in 1..account.password  BY <1>0, <2>3
  <2> QED BY <2>2, <2>3, <2>4, DeleteAndGo
<1>6. ASSUME NEW t \in Tabs, NEW b \in Using, ChangePassword(t, b)
      PROVE  Types'
  <2> DEFINE c == [op |-> "others", browser |-> b, session |-> jar[b].session,
                   password |-> account.password + 1]
  <2>1. jar[b].session \in Ids /\ account.password < Passwords
    BY <1>0, <1>u, <1>6 DEF ChangePassword, Open
  <2>2. c \in Call \cup {NoCall} /\ FitsWith(c, account.password + 1)
    BY <1>0, <1>u, <2>1 DEF Call, FitsWith
  <2>3. /\ Go(t, c) /\ UNCHANGED <<session, credential, jar, cache, settled>>
        /\ account' = [account EXCEPT !.password = @ + 1]
    BY <1>6 DEF ChangePassword
  <2> HIDE DEF c
  <2>4. account' \in AccountRow /\ account'.password = account.password + 1
    BY SMTT(30), <1>0, <2>1, <2>3, Bounds DEF AccountRow
  <2>5. account'.password >= account.password /\ FitsWith(c, account'.password)  BY <1>0, <2>2, <2>4
  <2> QED BY <2>2, <2>3, <2>4, <2>5, AccountAndGo
<1>7. ASSUME NEW t \in Tabs, NEW b \in Using, StartRequest(t, b)
      PROVE  Types'
  <2> DEFINE c == [op |-> "look", session |-> jar[b].session, late |-> Revoked(jar[b].session) /\ Announced(jar[b].session),
                   todo |-> IF jar[b].session = 0 THEN <<Account, Tenant>> ELSE <<Account, Tenant, jar[b].session>>]
  <2>1. jar[b].session \in 0..Rows /\ (Revoked(jar[b].session) /\ Announced(jar[b].session)) \in BOOLEAN
    BY <1>0, <1>u DEF Cookies, Revoked, Announced
  <2>1a. c.todo \in Seq(Keys) /\ c.todo # <<>>  BY <1>0, <1>u, <2>1, KeySets
  <2>2. c \in Call \cup {NoCall} /\ FitsWith(c, account.password)
    BY <1>0, <1>u, <2>1, <2>1a DEF Call, FitsWith
  <2>3. Go(t, c) /\ UNCHANGED <<account, session, credential, jar, cache, settled>>
    BY <1>7 DEF StartRequest
  <2> HIDE DEF c
  <2> QED BY <2>2, <2>3, OnlyCalls
<1>8. ASSUME NEW t \in Tabs, NEW b \in Using, NEW s \in Ids, DeleteMySession(t, b, s)
      PROVE  Types'
  <2> DEFINE c == IF s = jar[b].session
                  THEN [op |-> "invalidate", browser |-> b, keys |-> {s, Account}, jar |-> Empty]
                  ELSE [op |-> "invalidate", browser |-> 0, keys |-> {s}, jar |-> Empty]
  <2>1. {s, Account} \in SUBSET Keys /\ {s} \in SUBSET Keys /\ b \in Browsers  BY KeySets, <1>u
  <2>2. c \in Call \cup {NoCall} /\ FitsWith(c, account.password)
    BY <2>1, InvalidateFits, EmptyIsCookies
  <2>3. /\ Delete(t, {s}) /\ Go(t, c)
        /\ UNCHANGED <<account, credential, jar, cache, settled>>
    BY <1>8 DEF DeleteMySession, Invalidated
  <2> HIDE DEF c
  <2>4. cache' \in [Keys -> {"none", "ok", "bad"}] /\ settled' \in 1..account.password  BY <1>0, <2>3
  <2> QED BY <2>2, <2>3, <2>4, DeleteAndGo
<1>9. ASSUME NEW t \in Tabs, NEW b \in Using \cup {0}, SetPassword(t, b)
      PROVE  Types'
  <2> DEFINE c == [op |-> "find", browser |-> b, password |-> account.password + 1, keys |-> {Account}]
  <2>1. account.password < Passwords  BY <1>9 DEF SetPassword
  <2>2. c \in Call \cup {NoCall} /\ FitsWith(c, account.password + 1)
    BY <1>0, <1>u, <2>1, KeySets DEF Call, FitsWith
  <2>3. /\ Go(t, c) /\ UNCHANGED <<session, credential, jar, cache, settled>>
        /\ account' = [account EXCEPT !.password = @ + 1]
    BY <1>9 DEF SetPassword
  <2> HIDE DEF c
  <2>4. account' \in AccountRow /\ account'.password = account.password + 1
    BY <1>0, <2>1, <2>3, Bounds DEF AccountRow
  <2>5. account'.password >= account.password /\ FitsWith(c, account'.password)  BY <1>0, <2>2, <2>4
  <2> QED BY <2>2, <2>3, <2>4, <2>5, AccountAndGo
<1>10. ASSUME NEW t \in Tabs, NEW v \in {"ACTIVE", "SUSPENDED"}, SetStatus(t, v)
      PROVE  Types'
  <2> DEFINE c == IF v = "ACTIVE"
                  THEN [op |-> "invalidate", browser |-> 0, keys |-> {Account}, jar |-> Empty]
                  ELSE [op |-> "find", browser |-> 0, password |-> 0, keys |-> {Account}]
  <2>1. {Account} \in SUBSET Keys /\ {Account} \in SUBSET Keys  BY KeySets
  <2>2. c \in Call \cup {NoCall} /\ FitsWith(c, account.password)
    <3>1. CASE v = "ACTIVE"  BY <2>1, <3>1, InvalidateFits, EmptyIsCookies
    <3>2. CASE v # "ACTIVE"  BY <1>0, <2>1, <3>2 DEF Call, FitsWith
    <3> QED BY <3>1, <3>2
  <2>3. /\ Go(t, c) /\ UNCHANGED <<session, credential, jar, cache, settled>>
        /\ account' = [account EXCEPT !.status = v]
    BY <1>10 DEF SetStatus, Invalidated
  <2> HIDE DEF c
  <2>4. account' \in AccountRow /\ account'.password = account.password
    BY <1>0, <2>3 DEF AccountRow, AccountStatus
  <2>5. account'.password >= account.password /\ FitsWith(c, account'.password)  BY <1>0, <2>2, <2>4
  <2> QED BY <2>2, <2>3, <2>4, <2>5, AccountAndGo
<1>11. ASSUME NEW t \in Tabs, NEW v \in {"ACTIVE", "SUSPENDED"}, SetTenant(t, v)
      PROVE  Types'
  <2> DEFINE c == IF v = "ACTIVE"
                  THEN [op |-> "invalidate", browser |-> 0, keys |-> {Tenant}, jar |-> Empty]
                  ELSE [op |-> "find", browser |-> 0, password |-> 0, keys |-> {Account, Tenant}]
  <2>1. {Tenant} \in SUBSET Keys /\ {Account, Tenant} \in SUBSET Keys  BY KeySets
  <2>2. c \in Call \cup {NoCall} /\ FitsWith(c, account.password)
    <3>1. CASE v = "ACTIVE"  BY <2>1, <3>1, InvalidateFits, EmptyIsCookies
    <3>2. CASE v # "ACTIVE"  BY <1>0, <2>1, <3>2 DEF Call, FitsWith
    <3> QED BY <3>1, <3>2
  <2>3. /\ Go(t, c) /\ UNCHANGED <<session, credential, jar, cache, settled>>
        /\ account' = [account EXCEPT !.tenant = v]
    BY <1>11 DEF SetTenant, Invalidated
  <2> HIDE DEF c
  <2>4. account' \in AccountRow /\ account'.password = account.password
    BY <1>0, <2>3 DEF AccountRow, AccountStatus
  <2>5. account'.password >= account.password /\ FitsWith(c, account'.password)  BY <1>0, <2>2, <2>4
  <2> QED BY <2>2, <2>3, <2>4, <2>5, AccountAndGo
<1>fields. \A t \in Tabs : call[t] # NoCall => call[t] \in Call  BY TypeFacts
<1>12. ASSUME NEW t \in Tabs, Validate(t)
      PROVE  Types'
  <2>1. /\ call[t] # NoCall /\ call[t].op = "validate" /\ call[t].browser \in Browsers
        /\ call[t].session \in Ids /\ call[t].password \in 1..account.password
    BY <1>0, <1>fields, <1>12, CallFields DEF Validate, At, CallsFit
  <2>2. CASE MayUse(call[t].status, account.tenant)
    <3> DEFINE c == [op |-> "bind", browser |-> call[t].browser, session |-> call[t].session,
                     keep |-> MaxSessions, password |-> call[t].password]
    <3>1. c \in Call \cup {NoCall} /\ FitsWith(c, account.password)  BY <2>1, Bounds DEF Call, FitsWith
    <3>2. Go(t, c) /\ UNCHANGED <<account, session, credential, jar, cache, settled>>
      BY <1>12, <2>2 DEF Validate
    <3> HIDE DEF c
    <3> QED BY <3>1, <3>2, OnlyCalls
  <2>3. CASE ~MayUse(call[t].status, account.tenant)
    <3>1. /\ Delete(t, {call[t].session}) /\ Go(t, NoCall)
          /\ UNCHANGED <<account, credential, jar, cache, settled>>
      BY <1>12, <2>3 DEF Validate, End
    <3> QED BY <1>0, <3>1, EndFits, DeleteAndGo
  <2> QED BY <2>2, <2>3
<1>13. ASSUME NEW t \in Tabs, Activate(t)
      PROVE  Types'
  <2> DEFINE c == [op |-> "bind", browser |-> call[t].browser, session |-> call[t].session,
                   keep |-> MaxSessions, password |-> call[t].password]
  <2>1. /\ call[t] # NoCall /\ call[t].op = "activate" /\ call[t].browser \in Browsers
        /\ call[t].session \in Ids /\ call[t].password \in 1..account.password
    BY <1>0, <1>fields, <1>13, CallFields DEF Activate, At, CallsFit
  <2>2. c \in Call \cup {NoCall} /\ FitsWith(c, account.password)  BY <2>1, Bounds DEF Call, FitsWith
  <2>3. /\ Go(t, c) /\ UNCHANGED <<session, credential, jar, cache, settled>>
        /\ account' = [account EXCEPT !.status = "ACTIVE"]
    BY <1>13 DEF Activate
  <2> HIDE DEF c
  <2>4. account' \in AccountRow /\ account'.password = account.password
    BY <1>0, <2>3 DEF AccountRow, AccountStatus
  <2>5. account'.password >= account.password /\ FitsWith(c, account'.password)  BY <1>0, <2>2, <2>4
  <2> QED BY <2>2, <2>3, <2>4, <2>5, AccountAndGo
<1>14. ASSUME NEW t \in Tabs, Bind(t)
      PROVE  Types'
  <2>1. /\ call[t] # NoCall /\ call[t].op = "bind" /\ call[t].browser \in Browsers
        /\ call[t].session \in Ids /\ call[t].password \in 1..account.password
    BY <1>0, <1>fields, <1>14, CallFields DEF Bind, At, CallsFit
  <2>2. CASE Open(call[t].session)
    <3>1. /\ session' = [r \in Ids |->
                IF r = call[t].session THEN Bound(call[t].password, session[call[t].session].late)
                ELSE IF r \in Excess(t) THEN [session[r] EXCEPT !.status = "GONE"] ELSE session[r]]
          /\ credential' = Append(credential, [family |-> NextCredential, from |-> 0])
          /\ settled' \in {call[t].password, settled}
          /\ \E keys \in SUBSET Keys :
               Go(t, [op |-> "invalidate", browser |-> call[t].browser, keys |-> keys,
                      jar |-> [session |-> call[t].session, refresh |-> NextCredential]])
          /\ UNCHANGED <<account, jar, cache>>
      BY <1>14, <2>1, <2>2, BindShape
    <3>2. NextCredential \in Nat  BY <1>0 DEF NextCredential
    <3>3. [session |-> call[t].session, refresh |-> NextCredential] \in Cookies
      BY <2>1, <3>2, Bounds DEF Cookies, Ids
    <3>4. PICK keys \in SUBSET Keys :
            Go(t, [op |-> "invalidate", browser |-> call[t].browser, keys |-> keys,
                   jar |-> [session |-> call[t].session, refresh |-> NextCredential]])
      BY <3>1
    <3> DEFINE c == [op |-> "invalidate", browser |-> call[t].browser, keys |-> keys,
                     jar |-> [session |-> call[t].session, refresh |-> NextCredential]]
    <3>5. c \in Call \cup {NoCall} /\ FitsWith(c, account.password)  BY <2>1, <3>3, InvalidateFits
    <3>6. Go(t, c)  BY <3>4
    <3> HIDE DEF c
    <3>7. account' = account /\ account'.password >= account.password  BY <1>0, <3>1
    <3>7a. account' \in AccountRow /\ FitsWith(c, account'.password)  BY <1>0, <3>5, <3>7
    <3>8. call' \in [Tabs -> Call \cup {NoCall}] /\ CallsFit'  BY <3>5, <3>6, <3>7, <3>7a, CallStepTyped
    <3>9. session' \in [Ids -> Columns]
      <4>0. session[call[t].session].late \in BOOLEAN /\ call[t].password \in Nat
        BY <1>0, <2>1, Bounds DEF Columns, AccountRow
      <4>1. Bound(call[t].password, session[call[t].session].late) \in Columns
        BY <3>2, <4>0 DEF Columns, RowStatus, Bound
      <4>2. \A r \in Ids : session[r] \in Columns /\ [session[r] EXCEPT !.status = "GONE"] \in Columns
        BY ZenonT(40), <1>0 DEF Columns, RowStatus
      <4> QED BY <3>1, <4>1, <4>2
    <3>10. credential' \in Seq(Issued)  BY <1>0, <3>1, <3>2 DEF Issued
    <3>11. settled' \in 1..account'.password  BY <1>0, <2>1, <3>1, <3>7
    <3> QED BY <1>0, <3>1, <3>7, <3>8, <3>9, <3>10, <3>11 DEF Types
  <2>3. CASE ~Open(call[t].session)
    <3>1. Go(t, NoCall) /\ UNCHANGED <<account, session, credential, jar, cache, settled>>
      BY <1>14, <2>3 DEF Bind, End
    <3> QED BY <3>1, EndFits, OnlyCalls
  <2> QED BY <2>2, <2>3
<1>15. ASSUME NEW t \in Tabs, LockSession(t)
      PROVE  Types'
  <2>1. /\ call[t] # NoCall /\ call[t].op = "refresh" /\ call[t].browser \in Browsers
        /\ call[t].session \in Ids /\ call[t].refresh \in Nat
    BY <1>0, <1>fields, <1>15, CallFields DEF LockSession, At
  <2>2. CASE Open(call[t].session) /\ MayUse(account.status, "ACTIVE")
    <3> DEFINE c == [op |-> "rotate", browser |-> call[t].browser, session |-> call[t].session,
                     refresh |-> call[t].refresh, row |-> session[call[t].session]]
    <3>1. c \in Call \cup {NoCall} /\ FitsWith(c, account.password)  BY <1>0, <2>1 DEF Call, FitsWith
    <3>2. Go(t, c) /\ UNCHANGED <<account, session, credential, jar, cache, settled>>
      BY <1>15, <2>2 DEF LockSession
    <3> HIDE DEF c
    <3> QED BY <3>1, <3>2, OnlyCalls
  <2>3. CASE ~(Open(call[t].session) /\ MayUse(account.status, "ACTIVE"))
    <3> DEFINE c == [op |-> "answer", browser |-> call[t].browser, jar |-> Empty]
    <3>1. c \in Call \cup {NoCall} /\ FitsWith(c, account.password)  BY <2>1, AnswerFits, EmptyIsCookies
    <3>2. Go(t, c) /\ UNCHANGED <<account, session, credential, jar, cache, settled>>
      BY <1>15, <2>3 DEF LockSession, Refuse, Answer
    <3> HIDE DEF c
    <3> QED BY <3>1, <3>2, OnlyCalls
  <2> QED BY <2>2, <2>3
<1>16. ASSUME NEW t \in Tabs, Rotate(t)
      PROVE  Types'
  <2>1. /\ call[t] # NoCall /\ call[t].op = "rotate" /\ call[t].browser \in Browsers
        /\ call[t].session \in Ids /\ call[t].refresh \in 1..Len(credential) /\ call[t].row \in Columns
    BY <1>0, <1>fields, <1>16, RotateShape, CallFields DEF IssuedOnly, At
  <2>2. NextCredential \in Nat /\ account' = account /\ UNCHANGED <<jar, cache, settled>>
    BY <1>0, <1>16, RotateShape DEF NextCredential
  <2>3. account' \in AccountRow /\ account'.password >= account.password /\ account'.password = account.password
    BY <1>0, <2>2
  <2>4. CASE Exchanges(t)
    <3> DEFINE c == [op |-> "answer", browser |-> call[t].browser,
                     jar |-> [session |-> call[t].session, refresh |-> NextCredential]]
               f == FamilyOf(call[t].row, call[t].refresh)
    <3>1. [session |-> call[t].session, refresh |-> NextCredential] \in Cookies
      BY <2>1, <2>2, Bounds DEF Cookies, Ids
    <3>2. c \in Call \cup {NoCall} /\ FitsWith(c, account'.password)  BY <2>1, <3>1, AnswerFits
    <3>3. Go(t, c)  BY <2>4 DEF Exchanges
    <3>4. f \in Nat
      <4>1. credential[call[t].refresh] \in Issued  BY <1>0, <2>1
      <4> QED BY <2>1, <2>2, <4>1 DEF FamilyOf, Issued, Columns
    <3>5. session' = [session EXCEPT ![call[t].session] = Rotated(session[call[t].session], call[t].refresh, f)]
      BY <2>4 DEF Exchanges
    <3>6. credential' = Append(credential, [family |-> f, from |-> call[t].refresh])
      BY <2>4 DEF Exchanges
    <3> HIDE DEF c, f
    <3>7. call' \in [Tabs -> Call \cup {NoCall}] /\ CallsFit'  BY <2>3, <3>2, <3>3, CallStepTyped
    <3>8. Rotated(session[call[t].session], call[t].refresh, f) \in Columns
      BY <1>0, <2>1, <2>2, <3>4 DEF Rotated, Columns
    <3>9. session' \in [Ids -> Columns]  BY <1>0, <3>5, <3>8
    <3>10. credential' \in Seq(Issued)  BY <1>0, <2>1, <3>4, <3>6 DEF Issued
    <3> QED BY <1>0, <2>2, <3>7, <3>9, <3>10 DEF Types
  <2>5. CASE LetsPass(t)
    <3> DEFINE c == [op |-> "answer", browser |-> call[t].browser,
                     jar |-> [session |-> call[t].session, refresh |-> 0]]
    <3>1. [session |-> call[t].session, refresh |-> 0] \in Cookies  BY <2>1, Bounds DEF Cookies, Ids
    <3>2. c \in Call \cup {NoCall} /\ FitsWith(c, account.password)  BY <2>1, <3>1, AnswerFits
    <3>3. Go(t, c) /\ UNCHANGED <<account, session, credential, jar, cache, settled>>
      BY <2>2, <2>5 DEF LetsPass
    <3> HIDE DEF c
    <3> QED BY <3>2, <3>3, OnlyCalls
  <2>6. CASE Revokes(t)
    <3> DEFINE c == [op |-> "invalidate", browser |-> call[t].browser,
                     keys |-> Family(call[t].row, call[t].session) \cup {Account}, jar |-> Empty]
    <3>1. (Family(call[t].row, call[t].session) \cup {Account}) \in SUBSET Keys
      BY <2>1, KeySets DEF Family
    <3>2. c \in Call \cup {NoCall} /\ FitsWith(c, account'.password)
      BY <2>1, <3>1, InvalidateFits, EmptyIsCookies
    <3>3. Go(t, c)  BY <2>6 DEF Revokes
    <3> HIDE DEF c
    <3>4. call' \in [Tabs -> Call \cup {NoCall}] /\ CallsFit'  BY <2>3, <3>2, <3>3, CallStepTyped
    <3>5. session' \in [Ids -> Columns]
      <4>1. \A r \in Ids : session[r] \in Columns /\ [session[r] EXCEPT !.status = "REUSED"] \in Columns
        BY ZenonT(40), <1>0 DEF Columns, RowStatus
      <4> QED BY <2>6, <4>1 DEF Revokes
    <3>6. credential' = credential  BY <2>6 DEF Revokes
    <3> QED BY <1>0, <2>2, <3>4, <3>5, <3>6 DEF Types
  <2> QED BY <1>16, <2>4, <2>5, <2>6, RotateShape
<1>17. ASSUME NEW t \in Tabs, Logout(t)
      PROVE  Types'
  <2> DEFINE keys == {call[t].session} \cup (IF Open(call[t].session) THEN {Account} ELSE {})
             c == [op |-> "invalidate", browser |-> call[t].browser, keys |-> keys, jar |-> Empty]
  <2>1. call[t].browser \in Browsers /\ call[t].session \in Ids
    BY <1>0, <1>fields, <1>17, CallFields DEF Logout, At
  <2>2. keys \in SUBSET Keys  BY <2>1, KeySets
  <2>3. c \in Call \cup {NoCall} /\ FitsWith(c, account.password)
    BY <2>1, <2>2, InvalidateFits, EmptyIsCookies
  <2>4. /\ Delete(t, {call[t].session}) /\ Go(t, c)
        /\ UNCHANGED <<account, credential, jar, cache, settled>>
    BY <1>17 DEF Logout, Invalidated
  <2> HIDE DEF c
  <2> QED BY <1>0, <2>3, <2>4, DeleteAndGo
<1>18. ASSUME NEW t \in Tabs, FindSessions(t)
      PROVE  Types'
  <2> DEFINE c == [op |-> "revoke", browser |-> call[t].browser, password |-> call[t].password,
                   keys |-> call[t].keys \cup OpenRows]
  <2>1. /\ call[t].browser \in Browsers \cup {0} /\ call[t].password \in 0..account.password
        /\ call[t].keys \in SUBSET Keys
    BY <1>0, <1>fields, <1>18, CallFields DEF FindSessions, At, CallsFit
  <2>2. c \in Call \cup {NoCall} /\ FitsWith(c, account.password)
    BY <1>0, <2>1, KeySets DEF Call, FitsWith
  <2>3. Go(t, c) /\ UNCHANGED <<account, session, credential, jar, cache, settled>>
    BY <1>18 DEF FindSessions
  <2> HIDE DEF c
  <2> QED BY <2>2, <2>3, OnlyCalls
<1>19. ASSUME NEW t \in Tabs, RevokeAllSessions(t)
      PROVE  Types'
  <2> DEFINE c == [op |-> "invalidate", browser |-> call[t].browser, keys |-> call[t].keys, jar |-> Empty]
  <2>1. /\ call[t].browser \in Browsers \cup {0} /\ call[t].password \in 0..account.password
        /\ call[t].keys \in SUBSET Keys
    BY <1>0, <1>fields, <1>19, CallFields DEF RevokeAllSessions, At, CallsFit
  <2>2. c \in Call \cup {NoCall} /\ FitsWith(c, account.password)
    BY <2>1, InvalidateFits, EmptyIsCookies
  <2>3. /\ Delete(t, Doomed(t)) /\ Go(t, c) /\ UNCHANGED <<account, credential, jar, cache>>
        /\ settled' = IF call[t].password > settled THEN call[t].password ELSE settled
    BY <1>19 DEF RevokeAllSessions, Invalidated
  <2> HIDE DEF c
  <2>4. settled' \in 1..account.password  BY <1>0, <2>1, <2>3
  <2> QED BY <1>0, <2>2, <2>3, <2>4, DeleteAndGo
<1>20. ASSUME NEW t \in Tabs, RevokeOthersOnChange(t)
      PROVE  Types'
  <2> DEFINE c == [op |-> "bind", browser |-> call[t].browser, session |-> call[t].session,
                   keep |-> 1, password |-> call[t].password]
  <2>1. /\ call[t].browser \in Browsers /\ call[t].session \in Ids
        /\ call[t].password \in 1..account.password
    BY <1>0, <1>fields, <1>20, CallFields DEF RevokeOthersOnChange, At, CallsFit
  <2>2. c \in Call \cup {NoCall} /\ FitsWith(c, account.password)  BY <1>0, <2>1 DEF Call, FitsWith
  <2>3. /\ Delete(t, Others(call[t].session)) /\ Go(t, c) /\ UNCHANGED <<account, credential, jar, settled>>
        /\ cache' = [k \in Keys |-> IF k \in Others(call[t].session) THEN "none" ELSE cache[k]]
    BY <1>20 DEF RevokeOthersOnChange
  <2> HIDE DEF c
  <2>4. cache' \in [Keys -> {"none", "ok", "bad"}] /\ settled' \in 1..account.password  BY <1>0, <2>3
  <2> QED BY <2>2, <2>3, <2>4, DeleteAndGo
<1>21. ASSUME NEW t \in Tabs, Invalidate(t)
      PROVE  Types'
  <2>1. /\ call[t] # NoCall /\ call[t].browser \in Browsers \cup {0} /\ call[t].jar \in Cookies
    BY <1>0, <1>fields, <1>21, CallFields DEF Invalidate, At
  <2>2. PICK c \in Call \cup {NoCall} : Go(t, c) /\ FitsWith(c, account.password)
    <3>1. CASE call[t].browser = 0  BY <1>21, <3>1, EndFits DEF Invalidate, End
    <3>2. CASE call[t].browser # 0  BY <1>21, <2>1, <3>2, AnswerFits DEF Invalidate, Answer
    <3> QED BY <3>1, <3>2
  <2>3. UNCHANGED <<account, session, credential, jar, settled>>  BY <1>21 DEF Invalidate
  <2>4. cache' \in [Keys -> {"none", "ok", "bad"}]  BY <1>0, <1>21 DEF Invalidate
  <2>5. account' \in AccountRow /\ account'.password >= account.password /\ account'.password = account.password
    BY <1>0, <2>3
  <2>6. FitsWith(c, account'.password)  BY <2>2, <2>5
  <2>7. call' \in [Tabs -> Call \cup {NoCall}] /\ CallsFit'  BY <2>2, <2>5, <2>6, CallStepTyped
  <2> QED BY <1>0, <2>3, <2>4, <2>5, <2>7 DEF Types
<1>22. ASSUME NEW t \in Tabs, Arrive(t)
      PROVE  Types'
  <2>1. call[t] # NoCall /\ call[t].browser \in Browsers /\ call[t].jar \in Cookies
    BY <1>0, <1>fields, <1>22, CallFields DEF Arrive, At
  <2>2. Go(t, NoCall) /\ UNCHANGED <<account, session, credential, cache, settled>>
    BY <1>22 DEF Arrive, End
  <2>3. account' \in AccountRow /\ account'.password >= account.password /\ account'.password = account.password
    BY <1>0, <2>2
  <2>4. call' \in [Tabs -> Call \cup {NoCall}] /\ CallsFit'  BY <2>2, <2>3, EndFits, CallStepTyped
  <2>5. jar' \in [Browsers -> Cookies]  BY <1>0, <1>22, <2>1 DEF Arrive, Cookies
  <2> QED BY <1>0, <2>2, <2>3, <2>4, <2>5 DEF Types
<1>23. ASSUME NEW t \in Tabs, Look(t)
      PROVE  Types'
  <2>1. At(t, "look") /\ UNCHANGED <<account, session, credential, jar, cache, settled>>
    BY <1>23 DEF Look
  <2>2. /\ call[t].session \in 0..Rows /\ call[t].late \in BOOLEAN /\ call[t].todo \in Seq(Keys)
        /\ call[t].todo # <<>>
    BY <1>0, <1>fields, <2>1, CallFields DEF At, CallsFit
  <2>3. ASSUME NEW value \in {"ok", "bad"}, NEW leads \in BOOLEAN,
               Go(t, [op |-> "fill", session |-> call[t].session, late |-> call[t].late,
                      todo |-> call[t].todo, value |-> value, leads |-> leads])
        PROVE  Types'
    <3> DEFINE c == [op |-> "fill", session |-> call[t].session, late |-> call[t].late,
                     todo |-> call[t].todo, value |-> value, leads |-> leads]
    <3>1. c \in Call \cup {NoCall} /\ FitsWith(c, account.password)  BY <2>2 DEF Call, FitsWith
    <3>2. Go(t, c)  BY <2>3
    <3> HIDE DEF c
    <3> QED BY <2>1, <3>1, <3>2, OnlyCalls
  <2> DEFINE k == Head(call[t].todo)
  <2>4. CASE cache[k] # "none" /\ Found(t, cache[k])
    <3>1. PICK c \in Call \cup {NoCall} : Go(t, c) /\ FitsWith(c, account.password)
      BY <2>1, <2>4, FoundFits
    <3> QED BY <2>1, <3>1, OnlyCalls
  <2>5. CASE Go(t, [op |-> "fill", session |-> call[t].session, late |-> call[t].late,
                    todo |-> call[t].todo, value |-> Truth(k), leads |-> TRUE])
    <3>1. Truth(k) \in {"ok", "bad"}  BY DEF Truth
    <3> QED BY <2>3, <2>5, <3>1
  <2>6. CASE \E v \in Flight(t, k) :
               Go(t, [op |-> "fill", session |-> call[t].session, late |-> call[t].late,
                      todo |-> call[t].todo, value |-> v, leads |-> FALSE])
    <3>1. PICK v \in Flight(t, k) :
               Go(t, [op |-> "fill", session |-> call[t].session, late |-> call[t].late,
                      todo |-> call[t].todo, value |-> v, leads |-> FALSE])
      BY <2>6
    <3>2. v \in {"ok", "bad"}
      <4>1. PICK u \in Tabs : At(u, "fill") /\ v = call[u].value  BY <3>1 DEF Flight
      <4> QED BY <1>fields, <4>1, CallFields DEF At
    <3> QED BY <2>3, <3>1, <3>2
  <2> QED BY <1>23, <2>4, <2>5, <2>6 DEF Look
<1>24. ASSUME NEW t \in Tabs, Fill(t)
      PROVE  Types'
  <2>1. At(t, "fill") /\ UNCHANGED <<account, session, credential, jar, settled>> /\ Found(t, call[t].value)
    BY <1>24 DEF Fill
  <2>2. call[t].value \in {"ok", "bad"}  BY <1>0, <1>fields, <2>1, CallFields DEF At
  <2>3. cache' \in [Keys -> {"none", "ok", "bad"}]  BY <1>0, <1>24, <2>2 DEF Fill
  <2>4. PICK c \in Call \cup {NoCall} : Go(t, c) /\ FitsWith(c, account.password)  BY <2>1, FoundFits
  <2>5. account' \in AccountRow /\ account'.password >= account.password /\ account'.password = account.password
    BY <1>0, <2>1
  <2>6. FitsWith(c, account'.password)  BY <2>4, <2>5
  <2>7. call' \in [Tabs -> Call \cup {NoCall}] /\ CallsFit'  BY <2>4, <2>5, <2>6, CallStepTyped
  <2> QED BY <1>0, <2>1, <2>3, <2>5, <2>7 DEF Types
<1>25. ASSUME NEW t \in Tabs, Admit(t) \/ LoseAnswer(t) \/ Die(t)
      PROVE  Types'
  <2>1. Go(t, NoCall) /\ UNCHANGED <<account, session, credential, jar, cache, settled>>
    BY <1>25 DEF Admit, LoseAnswer, Die, End
  <2> QED BY <2>1, EndFits, OnlyCalls
<1>26. ASSUME NEW s \in Ids, GraceLapses(s)
      PROVE  Types'
  <2>1. session' = [session EXCEPT ![s].recent = FALSE] /\ UNCHANGED <<account, credential, jar, call, cache, settled>>
    BY <1>26 DEF GraceLapses
  <2>2. session' \in [Ids -> Columns]  BY ZenonT(40), <1>0, <2>1 DEF Columns
  <2> QED BY <1>0, <2>1, <2>2 DEF Types, CallsFit, At
<1>27. ASSUME NEW k \in Keys, Expire(k)
      PROVE  Types'
  BY <1>0, <1>27 DEF Expire, Types, CallsFit, At
<1>28. CASE UNCHANGED sessionVars  BY <1>0, <1>28 DEF sessionVars, Types, CallsFit, At
<1> QED BY <1>1, <1>2, <1>3, <1>4, <1>5, <1>6, <1>7, <1>8, <1>9, <1>10, <1>11, <1>12, <1>13, <1>14, <1>15,
     <1>16, <1>17, <1>18, <1>19, <1>20, <1>21, <1>22, <1>23, <1>24, <1>25, <1>26, <1>27, <1>28
     DEF SessionsNext, Start, Proceed

------------------------
(* Quiet steps *)

\* Somebody verifies the address.
Verifies == "verify" \in ops /\ ~account.verified /\ account'.verified

\* The call of t learns of no session and no credential but from itself or from a jar.
QuietCall(t) ==
    /\ ~At(t, "rotate")'
    /\ At(t, "refresh")' =>
        \E b \in Browsers : /\ call'[t].browser = b
                            /\ call'[t].session = jar[b].session /\ jar[b].session # 0
                            /\ call'[t].refresh = jar[b].refresh /\ jar[b].refresh # 0
                            /\ Expired(b)
    /\ Brings(t)' =>
        \/ call'[t].jar = Empty
        \/ /\ Brings(t) /\ call'[t].jar = call[t].jar
           /\ call'[t].browser = call[t].browser /\ call[t].browser # 0
    /\ Acts(t)' =>
        \/ /\ Acts(t) /\ call'[t].session = call[t].session
           /\ Fresh(t)' => Fresh(t) /\ call'[t].password = call[t].password
        \/ ~Fresh(t)' /\ \E b \in Browsers : jar[b].session = call'[t].session
    /\ Signs(t)' => Signs(t) \/ "change" \in ops \/ At(t, "create")'
    /\ At(t, "create")' => /\ "login" \in ops \/ Verifies
                           /\ call'[t].next = "activate" => "verify" \in ops

\* Most steps are: they read, delete rows and go on.
Quiet(t) ==
    /\ QuietCall(t)
    /\ \A u \in Tabs \ {t} : call'[u] = call[u]
    /\ UNCHANGED <<jar, credential, ops>>
    /\ RowsShrink
    /\ NoneReused \/ (At(t, "rotate") /\ Revokes(t))
    /\ settled' = settled \/ \A s \in Ids : session'[s].status # "OPEN"

\* A refresh gets its lock.
Locks(t) ==
    /\ At(t, "refresh") /\ LockFree(t, {call[t].session}) /\ Open(call[t].session)
    /\ Go(t, [op |-> "rotate", browser |-> call[t].browser, session |-> call[t].session,
              refresh |-> call[t].refresh, row |-> session[call[t].session]])
    /\ UNCHANGED <<account, session, credential, jar, cache, settled, ops>>

NothingMoves == UNCHANGED <<account, session, credential, jar, call, settled, ops>>

LEMMA EndIsQuiet ==
  ASSUME NEW t, call'[t] = NoCall
  PROVE  QuietCall(t)
  BY DEF QuietCall, At, Brings, Acts, Signs

LEMMA OtherIsQuiet ==
  ASSUME NEW t, call'[t].op \in {"look", "fill", "admitted", "find", "revoke", "logout"}
  PROVE  QuietCall(t)
  BY DEF QuietCall, At, Brings, Acts, Signs

LEMMA EmptyIsQuiet ==
  ASSUME NEW t, call'[t].op \in {"answer", "invalidate"}, call'[t].jar = Empty
  PROVE  QuietCall(t)
  BY DEF QuietCall, At, Brings, Acts, Signs

\* Steps that delete at most rows.
LEMMA QuietStep ==
  ASSUME Types, NEW t \in Tabs, NEW c, Go(t, c), call'[t] = c => QuietCall(t),
         UNCHANGED <<jar, credential, ops>>,
         session' = session \/ \E S : Delete(t, S),
         settled' = settled \/ \A s \in Ids : session'[s].status # "OPEN"
  PROVE  Quiet(t)
<1>1. call'[t] = c /\ \A u \in Tabs \ {t} : call'[u] = call[u]  BY DEF Go, Types
<1>2. RowsShrink /\ NoneReused  BY SameRowsShrink, DeleteShrinks DEF Types
<1> QED BY <1>1, <1>2 DEF Quiet

\* A session whose credential is found old has a family: all that is revoked was open.
LEMMA RevokedWereOpen ==
  ASSUME IssuedOnly, NEW t \in Tabs, At(t, "rotate"), Revokes(t)
  PROVE  Family(call[t].row, call[t].session) \in SUBSET OpenRows
<1>1. call[t].row.family # 0  BY DEF Revokes, FamilyMismatch, Current, IssuedOnly
<1> QED BY <1>1 DEF Family

LEMMA AllAreDoomed ==
  ASSUME Types, NEW t, Delete(t, Doomed(t))
  PROVE  \A s \in Ids : session'[s].status # "OPEN"
<1>1. ASSUME NEW s \in Ids
      PROVE  session'[s] = IF s \in OpenRows /\ Open(s) THEN [session[s] EXCEPT !.status = "GONE"] ELSE session[s]
  BY DEF Delete, Doomed
<1>2. \A s \in Ids : session[s] \in Columns /\ s # 0  BY BrowsersAreNumbers DEF Types
<1> QED BY <1>1, <1>2 DEF Open, OpenRows, Columns

LEMMA StepKinds ==
  ASSUME Types, IssuedOnly, [SessionsNext]_sessionVars
  PROVE  \/ \E t \in Tabs : Quiet(t)
         \/ \E t \in Tabs : CreateSession(t)
         \/ \E t \in Tabs : Bind(t) /\ Open(call[t].session)
         \/ \E t \in Tabs : Locks(t)
         \/ \E t \in Tabs : Rotate(t) /\ (Exchanges(t) \/ LetsPass(t))
         \/ \E t \in Tabs : Arrive(t)
         \/ \E s \in Ids : GraceLapses(s)
         \/ NothingMoves
<1>0. /\ Using \in SUBSET Browsers /\ 0 \notin Ids
      /\ \A b \in Browsers : jar[b] \in Cookies /\ (jar[b].session # 0 => jar[b].session \in Ids)
      /\ \A t \in Tabs : call[t] # NoCall => call[t] \in Call
  BY BrowsersAreNumbers, TypeFacts
<1>1. ASSUME NEW t \in Tabs, NEW b \in Using, StartLogout(t, b)
      PROVE  Quiet(t)
  <2> DEFINE c == [op |-> "logout", browser |-> b, session |-> jar[b].session]
  <2>1. Go(t, c) /\ UNCHANGED <<jar, credential, settled, ops>>  BY <1>1 DEF StartLogout
  <2>2. session' = session  BY <1>1 DEF StartLogout
  <2>3. call'[t] = c => QuietCall(t)  BY OtherIsQuiet
  <2> HIDE DEF c
  <2> QED BY <2>1, <2>2, <2>3, QuietStep
<1>2. ASSUME NEW t \in Tabs, NEW b \in Using, RevokeOtherSessions(t, b)
      PROVE  Quiet(t)
  <2> DEFINE c == [op |-> "invalidate", browser |-> 0, keys |-> Others(jar[b].session), jar |-> Empty]
  <2>1. Go(t, c) /\ UNCHANGED <<jar, credential, settled, ops>>
    BY <1>2 DEF RevokeOtherSessions, Invalidated
  <2>2. Delete(t, Others(jar[b].session))  BY <1>2 DEF RevokeOtherSessions, Invalidated
  <2>3. call'[t] = c => QuietCall(t)  BY EmptyIsQuiet
  <2> HIDE DEF c
  <2> QED BY <2>1, <2>2, <2>3, QuietStep
<1>3. ASSUME NEW t \in Tabs, NEW b \in Using, ChangePassword(t, b)
      PROVE  Quiet(t)
  <2> DEFINE c == [op |-> "others", browser |-> b, session |-> jar[b].session,
                   password |-> account.password + 1]
  <2>1. Go(t, c) /\ UNCHANGED <<jar, credential, settled, ops>>  BY <1>3 DEF ChangePassword
  <2>2. session' = session  BY <1>3 DEF ChangePassword
  <2>3. call'[t] = c => QuietCall(t)
    BY <1>0, <1>3 DEF QuietCall, At, Brings, Acts, Fresh, Signs, ChangePassword, Starts
  <2> HIDE DEF c
  <2> QED BY <2>1, <2>2, <2>3, QuietStep
<1>4. ASSUME NEW t \in Tabs, NEW b \in Using, StartRequest(t, b)
      PROVE  Quiet(t)
  <2> DEFINE c == [op |-> "look", session |-> jar[b].session, late |-> Revoked(jar[b].session) /\ Announced(jar[b].session),
                   todo |-> IF jar[b].session = 0 THEN <<Account, Tenant>> ELSE <<Account, Tenant, jar[b].session>>]
  <2>1. Go(t, c) /\ UNCHANGED <<jar, credential, settled, ops>>  BY <1>4 DEF StartRequest
  <2>2. session' = session  BY <1>4 DEF StartRequest
  <2>3. call'[t] = c => QuietCall(t)  BY OtherIsQuiet
  <2> HIDE DEF c
  <2> QED BY <2>1, <2>2, <2>3, QuietStep
<1>5. ASSUME NEW t \in Tabs, NEW b \in Using, NEW s \in Ids, DeleteMySession(t, b, s)
      PROVE  Quiet(t)
  <2> DEFINE c == IF s = jar[b].session
                  THEN [op |-> "invalidate", browser |-> b, keys |-> {s, Account}, jar |-> Empty]
                  ELSE [op |-> "invalidate", browser |-> 0, keys |-> {s}, jar |-> Empty]
  <2>1. Go(t, c) /\ UNCHANGED <<jar, credential, settled, ops>>
    BY <1>5 DEF DeleteMySession, Invalidated
  <2>2. Delete(t, {s})  BY <1>5 DEF DeleteMySession, Invalidated
  <2>3. call'[t] = c => QuietCall(t)  BY EmptyIsQuiet
  <2> HIDE DEF c
  <2> QED BY <2>1, <2>2, <2>3, QuietStep
<1>6. ASSUME NEW t \in Tabs, NEW b \in Using \cup {0}, SetPassword(t, b)
      PROVE  Quiet(t)
  <2> DEFINE c == [op |-> "find", browser |-> b, password |-> account.password + 1, keys |-> {Account}]
  <2>1. Go(t, c) /\ UNCHANGED <<jar, credential, settled, ops>>  BY <1>6 DEF SetPassword
  <2>2. session' = session  BY <1>6 DEF SetPassword
  <2>3. call'[t] = c => QuietCall(t)  BY OtherIsQuiet
  <2> HIDE DEF c
  <2> QED BY <2>1, <2>2, <2>3, QuietStep
<1>7. ASSUME NEW t \in Tabs, NEW v \in {"ACTIVE", "SUSPENDED"}, SetStatus(t, v)
      PROVE  Quiet(t)
  <2> DEFINE c == IF v = "ACTIVE"
                  THEN [op |-> "invalidate", browser |-> 0, keys |-> {Account}, jar |-> Empty]
                  ELSE [op |-> "find", browser |-> 0, password |-> 0, keys |-> {Account}]
  <2>1. Go(t, c) /\ UNCHANGED <<jar, credential, settled, ops>>  BY <1>7 DEF SetStatus, Invalidated
  <2>2. session' = session  BY <1>7 DEF SetStatus, Invalidated
  <2>3. call'[t] = c => QuietCall(t)  BY OtherIsQuiet, EmptyIsQuiet
  <2> HIDE DEF c
  <2> QED BY <2>1, <2>2, <2>3, QuietStep
<1>8. ASSUME NEW t \in Tabs, NEW v \in {"ACTIVE", "SUSPENDED"}, SetTenant(t, v)
      PROVE  Quiet(t)
  <2> DEFINE c == IF v = "ACTIVE"
                  THEN [op |-> "invalidate", browser |-> 0, keys |-> {Tenant}, jar |-> Empty]
                  ELSE [op |-> "find", browser |-> 0, password |-> 0, keys |-> {Account, Tenant}]
  <2>1. Go(t, c) /\ UNCHANGED <<jar, credential, settled, ops>>  BY <1>8 DEF SetTenant, Invalidated
  <2>2. session' = session  BY <1>8 DEF SetTenant, Invalidated
  <2>3. call'[t] = c => QuietCall(t)  BY OtherIsQuiet, EmptyIsQuiet
  <2> HIDE DEF c
  <2> QED BY <2>1, <2>2, <2>3, QuietStep
<1>9. ASSUME NEW t \in Tabs, NEW b \in Using, StartRefresh(t, b)
      PROVE  Quiet(t)
  <2> DEFINE c == [op |-> "refresh", browser |-> b, session |-> jar[b].session,
                   refresh |-> jar[b].refresh]
  <2>0. jar[b].session # 0 /\ jar[b].refresh # 0 /\ Expired(b)  BY <1>9 DEF StartRefresh
  <2>1. Go(t, c) /\ UNCHANGED <<jar, credential, settled, ops>>  BY <1>9 DEF StartRefresh
  <2>2. session' = session  BY <1>9 DEF StartRefresh
  <2>3. call'[t] = c => QuietCall(t)  BY <1>0, <2>0 DEF QuietCall, At, Brings, Acts, Fresh, Signs
  <2> HIDE DEF c
  <2> QED BY <2>1, <2>2, <2>3, QuietStep
<1>10. ASSUME NEW t \in Tabs, Validate(t)
      PROVE  Quiet(t)
  <2>1. CASE MayUse(call[t].status, account.tenant)
    <3> DEFINE c == [op |-> "bind", browser |-> call[t].browser, session |-> call[t].session,
                     keep |-> MaxSessions, password |-> call[t].password]
    <3>1. At(t, "validate") /\ Go(t, c) /\ UNCHANGED <<session, jar, credential, settled, ops>>
      BY <1>10, <2>1 DEF Validate
    <3>2. call'[t] = c => QuietCall(t)  BY <3>1 DEF QuietCall, At, Brings, Acts, Fresh, Signs
    <3> HIDE DEF c
    <3> QED BY <3>1, <3>2, QuietStep
  <2>2. CASE ~MayUse(call[t].status, account.tenant)
    <3>1. Delete(t, {call[t].session}) /\ Go(t, NoCall) /\ UNCHANGED <<jar, credential, settled, ops>>
      BY <1>10, <2>2 DEF Validate, End
    <3> QED BY <3>1, EndIsQuiet, QuietStep
  <2> QED BY <2>1, <2>2
<1>11. ASSUME NEW t \in Tabs, Activate(t)
      PROVE  Quiet(t)
  <2> DEFINE c == [op |-> "bind", browser |-> call[t].browser, session |-> call[t].session,
                   keep |-> MaxSessions, password |-> call[t].password]
  <2>1. Go(t, c) /\ UNCHANGED <<jar, credential, settled, ops>>  BY <1>11 DEF Activate
  <2>2. session' = session  BY <1>11 DEF Activate
  <2>3. call'[t] = c => QuietCall(t)  BY <1>11 DEF QuietCall, At, Brings, Acts, Fresh, Signs, Activate
  <2> HIDE DEF c
  <2> QED BY <2>1, <2>2, <2>3, QuietStep
<1>12. ASSUME NEW t \in Tabs, Bind(t) /\ ~Open(call[t].session)
      PROVE  Quiet(t)
  <2>1. Go(t, NoCall) /\ UNCHANGED <<session, jar, credential, settled, ops>>  BY <1>12 DEF Bind, End
  <2> QED BY <2>1, EndIsQuiet, QuietStep
<1>13. ASSUME NEW t \in Tabs, LockSession(t) /\ ~Locks(t)
      PROVE  Quiet(t)
  <2>1. /\ Go(t, [op |-> "answer", browser |-> call[t].browser, jar |-> Empty])
        /\ UNCHANGED <<session, jar, credential, settled, ops>>
    BY <1>13 DEF LockSession, Locks, Refuse, Answer
  <2> DEFINE c == [op |-> "answer", browser |-> call[t].browser, jar |-> Empty]
  <2>2. Go(t, c) /\ (call'[t] = c => QuietCall(t))  BY <2>1, EmptyIsQuiet
  <2> HIDE DEF c
  <2> QED BY <2>1, <2>2, QuietStep
<1>14. ASSUME NEW t \in Tabs, Rotate(t), Revokes(t)
      PROVE  Quiet(t)
  <2>1. /\ At(t, "rotate") /\ settled' = settled /\ UNCHANGED <<jar, credential, ops>>
        /\ session' = [r \in Ids |-> IF r \in Family(call[t].row, call[t].session)
                                     THEN [session[r] EXCEPT !.status = "REUSED"] ELSE session[r]]
    BY <1>14, RotateShape DEF Revokes
  <2> DEFINE c == [op |-> "invalidate", browser |-> call[t].browser,
                   keys |-> Family(call[t].row, call[t].session) \cup {Account}, jar |-> Empty]
  <2>2. Go(t, c) /\ (call'[t] = c => QuietCall(t))  BY <1>14, EmptyIsQuiet DEF Revokes
  <2> HIDE DEF c
  <2>3. call'[t] = c /\ \A u \in Tabs \ {t} : call'[u] = call[u]  BY <2>2 DEF Go, Types
  <2>4. RowsShrink
    <3>1. \A r \in Family(call[t].row, call[t].session) : session[r].status = "OPEN"
      BY <1>14, <2>1, RevokedWereOpen DEF OpenRows, Open
    <3>2. \A r \in Ids : session[r] \in Columns  BY DEF Types
    <3> QED BY <2>1, <3>1, <3>2 DEF RowsShrink, Columns
  <2> QED BY <1>14, <2>1, <2>2, <2>3, <2>4 DEF Quiet
<1>15. ASSUME NEW t \in Tabs, Logout(t)
      PROVE  Quiet(t)
  <2> DEFINE c == [op |-> "invalidate", browser |-> call[t].browser,
                   keys |-> {call[t].session} \cup (IF Open(call[t].session) THEN {Account} ELSE {}), jar |-> Empty]
  <2>1. Go(t, c) /\ UNCHANGED <<jar, credential, settled, ops>>  BY <1>15 DEF Logout, Invalidated
  <2>2. Delete(t, {call[t].session})  BY <1>15 DEF Logout, Invalidated
  <2>3. call'[t] = c => QuietCall(t)  BY EmptyIsQuiet
  <2> HIDE DEF c
  <2> QED BY <2>1, <2>2, <2>3, QuietStep
<1>16. ASSUME NEW t \in Tabs, FindSessions(t)
      PROVE  Quiet(t)
  <2> DEFINE c == [op |-> "revoke", browser |-> call[t].browser, password |-> call[t].password,
                   keys |-> call[t].keys \cup OpenRows]
  <2>1. Go(t, c) /\ UNCHANGED <<jar, credential, settled, ops>>  BY <1>16 DEF FindSessions
  <2>2. session' = session  BY <1>16 DEF FindSessions
  <2>3. call'[t] = c => QuietCall(t)  BY OtherIsQuiet
  <2> HIDE DEF c
  <2> QED BY <2>1, <2>2, <2>3, QuietStep
<1>17. ASSUME NEW t \in Tabs, RevokeAllSessions(t)
      PROVE  Quiet(t)
  <2> DEFINE c == [op |-> "invalidate", browser |-> call[t].browser, keys |-> call[t].keys, jar |-> Empty]
  <2>1. Go(t, c) /\ Delete(t, Doomed(t)) /\ UNCHANGED <<jar, credential, ops>>
    BY <1>17 DEF RevokeAllSessions, Invalidated
  <2>2. call'[t] = c => QuietCall(t)  BY EmptyIsQuiet
  <2> HIDE DEF c
  <2>3. \A s \in Ids : session'[s].status # "OPEN"  BY <2>1, AllAreDoomed
  <2> QED BY <2>1, <2>2, <2>3, QuietStep
<1>18. ASSUME NEW t \in Tabs, RevokeOthersOnChange(t)
      PROVE  Quiet(t)
  <2> DEFINE c == [op |-> "bind", browser |-> call[t].browser, session |-> call[t].session,
                   keep |-> 1, password |-> call[t].password]
  <2>1. Go(t, c) /\ UNCHANGED <<jar, credential, settled, ops>>  BY <1>18 DEF RevokeOthersOnChange
  <2>2. Delete(t, Others(call[t].session))  BY <1>18 DEF RevokeOthersOnChange
  <2>3. call'[t] = c => QuietCall(t)
    BY <1>18 DEF QuietCall, At, Brings, Acts, Fresh, Signs, RevokeOthersOnChange
  <2> HIDE DEF c
  <2> QED BY <2>1, <2>2, <2>3, QuietStep
<1>19. ASSUME NEW t \in Tabs, Invalidate(t)
      PROVE  Quiet(t)
  <2>1. At(t, "invalidate") /\ UNCHANGED <<session, jar, credential, settled, ops>>
    BY <1>19 DEF Invalidate
  <2>2. CASE call[t].browser = 0  BY <1>19, <2>1, <2>2, EndIsQuiet, QuietStep DEF Invalidate, End
  <2>3. CASE call[t].browser # 0
    <3> DEFINE c == [op |-> "answer", browser |-> call[t].browser, jar |-> call[t].jar]
    <3>1. Go(t, c)  BY <1>19, <2>3 DEF Invalidate, Answer
    <3>2. call'[t] = c => QuietCall(t)  BY <2>1, <2>3 DEF QuietCall, At, Brings, Acts, Signs
    <3> HIDE DEF c
    <3> QED BY <2>1, <3>1, <3>2, QuietStep
  <2> QED BY <2>2, <2>3
<1>found. ASSUME NEW t \in Tabs, NEW value, Found(t, value), UNCHANGED <<session, jar, credential, settled, ops>>
          PROVE  Quiet(t)
  <2>1. CASE value = "bad"  BY <1>found, <2>1, EndIsQuiet, QuietStep DEF Found, End
  <2>2. CASE value # "bad"
    <3> DEFINE c == [op |-> IF Tail(call[t].todo) = <<>> THEN "admitted" ELSE "look", session |-> call[t].session,
                     late |-> call[t].late, todo |-> Tail(call[t].todo)]
    <3>1. Go(t, c)  BY <1>found, <2>2 DEF Found
    <3>2. call'[t] = c => QuietCall(t)  BY OtherIsQuiet
    <3> HIDE DEF c
    <3> QED BY <1>found, <3>1, <3>2, QuietStep
  <2> QED BY <2>1, <2>2
<1>20. ASSUME NEW t \in Tabs, Look(t)
      PROVE  Quiet(t)
  <2>1. UNCHANGED <<session, jar, credential, settled, ops>>  BY <1>20 DEF Look
  <2>2. ASSUME NEW value, NEW leads,
               Go(t, [op |-> "fill", session |-> call[t].session, late |-> call[t].late,
                      todo |-> call[t].todo, value |-> value, leads |-> leads])
        PROVE  Quiet(t)
    <3> DEFINE c == [op |-> "fill", session |-> call[t].session, late |-> call[t].late,
                     todo |-> call[t].todo, value |-> value, leads |-> leads]
    <3>1. Go(t, c) /\ (call'[t] = c => QuietCall(t))  BY <2>2, OtherIsQuiet
    <3> HIDE DEF c
    <3> QED BY <2>1, <3>1, QuietStep
  <2>3. \/ \E value : Found(t, value)
        \/ \E value, leads : Go(t, [op |-> "fill", session |-> call[t].session, late |-> call[t].late,
                                   todo |-> call[t].todo, value |-> value, leads |-> leads])
    BY <1>20 DEF Look
  <2> QED BY <1>found, <2>1, <2>2, <2>3
<1>21. ASSUME NEW t \in Tabs, Fill(t)
      PROVE  Quiet(t)
  BY <1>21, <1>found DEF Fill
<1>22. ASSUME NEW t \in Tabs, Admit(t) \/ LoseAnswer(t) \/ Die(t)
      PROVE  Quiet(t)
  <2>1. Go(t, NoCall) /\ UNCHANGED <<session, jar, credential, settled, ops>>
    BY <1>22 DEF Admit, LoseAnswer, Die, End
  <2> QED BY <2>1, EndIsQuiet, QuietStep
<1>si. ASSUME NEW t \in Tabs, NEW b \in Using, SignIn(t, b) \/ VerifyEmail(t, b)
       PROVE  Quiet(t)
  <2>1. PICK next \in {"validate", "activate"} :
          Go(t, [op |-> "create", browser |-> b, status |-> account.status,
                 password |-> account.password, next |-> next])
    BY <1>si DEF SignIn, VerifyEmail
  <2> DEFINE c == [op |-> "create", browser |-> b, status |-> account.status,
                   password |-> account.password, next |-> next]
  <2>2. Go(t, c) /\ UNCHANGED <<session, jar, credential, settled, ops>>
    BY <1>si, <2>1 DEF SignIn, VerifyEmail
  <2>3. "login" \in ops \/ Verifies
    BY <1>si DEF SignIn, VerifyEmail, Starts, Verifies, Types, AccountRow
  <2>4. call'[t] = c => call'[t].next = next  OBVIOUS
  <2>5. call'[t] = c => (next = "activate" => "verify" \in ops)
    <3>1. CASE VerifyEmail(t, b)  BY <3>1 DEF VerifyEmail, Starts
    <3>2. CASE SignIn(t, b)
      <4>1. Go(t, [op |-> "create", browser |-> b, status |-> account.status,
                   password |-> account.password, next |-> "validate"])
        BY <3>2 DEF SignIn
      <4> QED BY <2>1, <4>1 DEF Go, Types
    <3> QED BY <1>si, <3>1, <3>2
  <2>6. call'[t] = c => QuietCall(t)  BY <2>3, <2>4, <2>5 DEF QuietCall, At, Brings, Acts, Signs
  <2> HIDE DEF c
  <2> QED BY <2>2, <2>6, QuietStep
<1>23. ASSUME NEW t \in Tabs, LockSession(t) PROVE Quiet(t) \/ Locks(t)  BY <1>13, <1>23
<1>24. ASSUME NEW t \in Tabs, Rotate(t) PROVE Quiet(t) \/ Exchanges(t) \/ LetsPass(t)
  BY <1>14, <1>24, RotateShape
<1>25. ASSUME NEW t \in Tabs, Bind(t) PROVE Quiet(t) \/ Open(call[t].session)  BY <1>12, <1>25
<1>26. ASSUME NEW k \in Keys, Expire(k) PROVE NothingMoves  BY <1>26 DEF Expire, NothingMoves
<1>27. CASE UNCHANGED sessionVars  BY <1>27 DEF sessionVars, NothingMoves
<1>28. CASE \E t \in Tabs : Start(t)
  BY <1>1, <1>2, <1>3, <1>4, <1>5, <1>6, <1>7, <1>8, <1>9, <1>si, <1>28 DEF Start
<1>29. CASE \E t \in Tabs : Proceed(t)
  BY <1>10, <1>11, <1>15, <1>16, <1>17, <1>18, <1>19, <1>20, <1>21, <1>22, <1>23, <1>24, <1>25, <1>29 DEF Proceed
<1> QED BY <1>22, <1>26, <1>27, <1>28, <1>29 DEF SessionsNext

------------------------
(* What the other steps do *)

OtherCallsStay(t) == \A u \in Tabs \ {t} : call'[u] = call[u]

\* One credential more.
Grows(family, from) ==
    /\ DOMAIN credential' = 1..(Len(credential) + 1) /\ DOMAIN credential = 1..Len(credential)
    /\ Len(credential) \in Nat /\ Len(credential') = Len(credential) + 1
    /\ \A c \in 1..Len(credential) : credential'[c] = credential[c]
    /\ credential'[Len(credential) + 1].family = family
    /\ credential'[Len(credential) + 1].from = from

LEMMA AppendGrows ==
  ASSUME Types, NEW family \in Nat, NEW from \in Nat,
         credential' = Append(credential, [family |-> family, from |-> from])
  PROVE  Grows(family, from)
<1>1. credential \in Seq(Issued) /\ [family |-> family, from |-> from] \in Issued  BY DEF Types, Issued
<1> DEFINE e == [family |-> family, from |-> from]
<1>2. e.family = family /\ e.from = from /\ e \in Issued  BY <1>1
<1>3. credential' = Append(credential, e)  OBVIOUS
<1> HIDE DEF e
<1>4. /\ Len(credential') = Len(credential) + 1 /\ Len(credential) \in Nat
      /\ DOMAIN credential' = 1..(Len(credential) + 1) /\ DOMAIN credential = 1..Len(credential)
      /\ \A c \in 1..Len(credential) : credential'[c] = credential[c]
      /\ credential'[Len(credential) + 1] = e
  BY <1>1, <1>2, <1>3
<1> QED BY <1>2, <1>4 DEF Grows

\* A sign-in inserts a session that was not there.
SignsIn(t, n) ==
    /\ call[t] # NoCall /\ call[t].op = "create" /\ call[t].password \in Nat
    /\ session[n].status = "NONE" /\ session'[n] = Unbound(call[t])
    /\ \A s \in Ids \ {n} : session'[s] = session[s]
    /\ call'[t].op \in {"validate", "activate"} /\ call'[t].session = n
    /\ call'[t].password = call[t].password
    /\ "verify" \notin ops => /\ call'[t] # NoCall /\ call'[t].op = "validate"
                              /\ call'[t].status = call[t].status
    /\ OtherCallsStay(t)
    /\ UNCHANGED <<account, credential, jar, settled, ops>>

LEMMA SignInShape ==
  ASSUME Types, IssuedOnly, NEW t \in Tabs, CreateSession(t)
  PROVE  \E n \in Ids : SignsIn(t, n)
<1>1. /\ call[t] # NoCall /\ call[t].op = "create" /\ call[t].browser \in Browsers
      /\ call[t].status \in AccountStatus /\ call[t].password \in Nat
      /\ call[t].next = "activate" => "verify" \in ops
  BY TypeFacts, CallFields DEF CreateSession, At, IssuedOnly
<1>2. /\ MoreRows /\ session' = [session EXCEPT ![NextRow] = Unbound(call[t])]
      /\ UNCHANGED <<account, credential, jar, settled, ops>>
  BY DEF CreateSession
<1>3. PICK n \in Ids : /\ n = NextRow /\ session[n].status = "NONE" /\ session'[n] = Unbound(call[t])
                       /\ \A s \in Ids \ {n} : session'[s] = session[s]
  BY <1>1, <1>2, NewRowIsTyped
<1> DEFINE v == [op |-> "validate", browser |-> call[t].browser, session |-> n,
                 status |-> call[t].status, password |-> call[t].password]
           a == [op |-> "activate", browser |-> call[t].browser, session |-> n, password |-> call[t].password]
<1>4. v \in Call /\ v # NoCall  BY <1>1, Bounds DEF Call
<1>5. /\ v.op = "validate" /\ v.session = n /\ v.status = call[t].status /\ v.password = call[t].password
      /\ a.op = "activate" /\ a.session = n /\ a.password = call[t].password
  OBVIOUS
<1>6. Go(t, IF call[t].next = "activate" THEN a ELSE v)  BY <1>3 DEF CreateSession
<1> HIDE DEF v, a
<1>7. call'[t] = (IF call[t].next = "activate" THEN a ELSE v) /\ OtherCallsStay(t)
  BY <1>6 DEF Go, Types, OtherCallsStay
<1> QED BY <1>1, <1>2, <1>3, <1>4, <1>5, <1>7 DEF SignsIn

\* Rows other than s are deleted or left alone.
OthersShrink(s) ==
    \A r \in Ids \ {s} :
        /\ session'[r].hash = session[r].hash
        /\ session'[r].prev = session[r].prev
        /\ session'[r].family = session[r].family
        /\ session'[r].recent = session[r].recent
        /\ session'[r].password = session[r].password
        /\ session'[r].late = session[r].late
        /\ \/ session'[r].status = session[r].status
           \/ session[r].status = "OPEN" /\ session'[r].status = "GONE"

\* A session gets the first credential of a new family.
Binds(t, s, c) ==
    /\ call[t] # NoCall /\ call[t].op = "bind" /\ call[t].session = s
    /\ session[s].status = "OPEN"
    /\ c = Len(credential) + 1
    /\ LockFree(t, {s})
    /\ session'[s].status = "OPEN" /\ session'[s].hash = c /\ session'[s].prev = 0 /\ session'[s].family = c
    /\ ~session'[s].recent /\ session'[s].password = call[t].password
    /\ session'[s].late = session[s].late
    /\ OthersShrink(s)
    /\ Grows(c, 0)
    /\ settled' = IF call[t].keep = 1 THEN call[t].password ELSE settled
    /\ call[t].keep = 1 => \A r \in Ids \ {s} : session'[r].status # "OPEN"
    /\ call'[t].op = "invalidate" /\ call'[t].browser = call[t].browser
    /\ call'[t].jar.session = s /\ call'[t].jar.refresh = c
    /\ OtherCallsStay(t)
    /\ UNCHANGED <<account, jar, ops>>

LEMMA EveryOtherIsExcess ==
  ASSUME NEW t, call[t].keep = 1
  PROVE  Excess(t) = OpenRows \ {call[t].session}
<1> DEFINE S == OpenRows \ {call[t].session}
<1>1. IsFiniteSet(Ids)  BY Bounds, FS_Interval DEF Ids
<1>2. ASSUME NEW s \in S PROVE ~(Cardinality({r \in S : r > s}) < 0)
  <2>1. {r \in S : r > s} \in SUBSET Ids  BY DEF OpenRows
  <2>2. IsFiniteSet({r \in S : r > s})  BY <1>1, <2>1, FS_Subset
  <2> QED BY <2>2, FS_CardinalityType
<1>3. Newest(S, 1) = {}  BY <1>2 DEF Newest
<1> QED BY <1>3 DEF Excess

LEMMA BindEffect ==
  ASSUME Types, NEW t \in Tabs, Bind(t), Open(call[t].session)
  PROVE  call[t].session \in Ids /\ Binds(t, call[t].session, Len(credential) + 1)
<1> DEFINE s == call[t].session
           c == Len(credential) + 1
<1>1. /\ call[t] # NoCall /\ call[t].op = "bind" /\ s \in Ids /\ call[t].password \in Nat
      /\ call[t].browser \in Browsers
  BY TypeFacts, CallFields DEF Bind, At
<1>2. /\ LockFree(t, {s} \cup Excess(t))
      /\ session' = [r \in Ids |->
            IF r = s THEN Bound(call[t].password, session[s].late)
            ELSE IF r \in Excess(t) THEN [session[r] EXCEPT !.status = "GONE"] ELSE session[r]]
      /\ credential' = Append(credential, [family |-> c, from |-> 0])
      /\ settled' = IF call[t].keep = 1 THEN call[t].password ELSE settled
      /\ \E keys \in SUBSET Keys :
            Go(t, [op |-> "invalidate", browser |-> call[t].browser, keys |-> keys,
                   jar |-> [session |-> s, refresh |-> c]])
      /\ UNCHANGED <<account, jar, ops>>
  BY <1>1, BindShape DEF NextCredential
<1>3. LockFree(t, {s})  BY <1>2 DEF LockFree
<1>4. session[s].status = "OPEN"  BY DEF Open
<1>5. /\ session'[s].status = "OPEN" /\ session'[s].hash = c /\ session'[s].prev = 0 /\ session'[s].family = c
      /\ ~session'[s].recent /\ session'[s].password = call[t].password
      /\ session'[s].late = session[s].late
  BY <1>1, <1>2 DEF Bound, NextCredential
<1>6. \A r \in Excess(t) : r \in Ids /\ session[r].status = "OPEN"  BY DEF Excess, OpenRows, Open
<1>7. \A r \in Ids : session[r] \in Columns  BY DEF Types
<1>8. OthersShrink(s)  BY <1>2, <1>6, <1>7 DEF OthersShrink, Columns
<1>9. c \in Nat /\ Grows(c, 0)
  <2>1. c \in Nat  BY DEF Types
  <2> QED BY <1>2, <2>1, AppendGrows
<1>10. call[t].keep = 1 => \A r \in Ids \ {s} : session'[r].status # "OPEN"
  <2>1. SUFFICES ASSUME call[t].keep = 1, NEW r \in Ids \ {s} PROVE session'[r].status # "OPEN"  OBVIOUS
  <2>2. r \in Excess(t) <=> session[r].status = "OPEN"
    BY <2>1, EveryOtherIsExcess, BrowsersAreNumbers DEF OpenRows, Open
  <2> QED BY <1>2, <1>7, <2>2 DEF Columns
<1>11. PICK keys \in SUBSET Keys :
            Go(t, [op |-> "invalidate", browser |-> call[t].browser, keys |-> keys,
                   jar |-> [session |-> s, refresh |-> c]])
  BY <1>2
<1>12. /\ call'[t].op = "invalidate" /\ call'[t].browser = call[t].browser
       /\ call'[t].jar.session = s /\ call'[t].jar.refresh = c
       /\ OtherCallsStay(t)
  BY <1>11 DEF Go, Types, OtherCallsStay
<1> QED BY <1>1, <1>2, <1>3, <1>4, <1>5, <1>8, <1>9, <1>10, <1>12 DEF Binds

\* A refresh with its lock exchanges what it presents.
Renews(t, s, c) ==
    /\ call[t] # NoCall /\ call[t].op = "rotate" /\ call[t].session = s
    /\ c = Len(credential) + 1
    /\ Current(call[t].row, call[t].refresh)
    /\ call[t].refresh \in 1..Len(credential)
    /\ session'[s].status = session[s].status /\ session'[s].hash = c /\ session'[s].prev = call[t].refresh
    /\ session'[s].family # 0
    /\ session'[s].family = FamilyOf(call[t].row, call[t].refresh)
    /\ session'[s].recent /\ session'[s].password = session[s].password
    /\ session'[s].late = session[s].late
    /\ \A r \in Ids \ {s} : session'[r] = session[r]
    /\ Grows(FamilyOf(call[t].row, call[t].refresh), call[t].refresh)
    /\ call'[t].op = "answer" /\ call'[t].browser = call[t].browser
    /\ call'[t].jar.session = s /\ call'[t].jar.refresh = c
    /\ OtherCallsStay(t)
    /\ UNCHANGED <<account, jar, settled, ops>>

LEMMA ExchangeEffect ==
  ASSUME Types, IssuedOnly, NEW t \in Tabs, Rotate(t), Exchanges(t)
  PROVE  call[t].session \in Ids /\ Renews(t, call[t].session, Len(credential) + 1)
<1> DEFINE s == call[t].session
           c == Len(credential) + 1
           f == FamilyOf(call[t].row, call[t].refresh)
<1>1. /\ call[t] # NoCall /\ call[t].op = "rotate" /\ s \in Ids /\ call[t].refresh \in 1..Len(credential)
      /\ call[t].browser \in Browsers /\ call[t].row \in Columns
  BY TypeFacts, CallFields, RotateShape DEF IssuedOnly, At
<1>2. UNCHANGED <<account, jar, settled, ops>>  BY RotateShape
<1>3. c \in Nat /\ Len(credential) \in Nat /\ credential[call[t].refresh] \in Issued  BY <1>1 DEF Types
<1>4. f \in Nat /\ f # 0  BY <1>1, <1>3 DEF FamilyOf, Issued, Columns, NextCredential
<1>5. /\ Current(call[t].row, call[t].refresh)
      /\ session' = [session EXCEPT ![s] = Rotated(session[s], call[t].refresh, f)]
      /\ credential' = Append(credential, [family |-> f, from |-> call[t].refresh])
      /\ Go(t, [op |-> "answer", browser |-> call[t].browser, jar |-> [session |-> s, refresh |-> c]])
  BY DEF Exchanges, NextCredential
<1>6. Rotated(session[s], call[t].refresh, f) =
        [status |-> session[s].status, hash |-> c, prev |-> call[t].refresh, family |-> f,
         recent |-> TRUE, password |-> session[s].password, late |-> session[s].late]
  BY DEF Rotated, NextCredential
<1> HIDE DEF f
<1>7. /\ session'[s].status = session[s].status /\ session'[s].hash = c /\ session'[s].prev = call[t].refresh
      /\ session'[s].family = f
      /\ session'[s].recent /\ session'[s].password = session[s].password
      /\ session'[s].late = session[s].late
      /\ \A r \in Ids \ {s} : session'[r] = session[r]
  BY <1>1, <1>5, <1>6 DEF Types
<1>8. Grows(f, call[t].refresh)  BY <1>1, <1>3, <1>4, <1>5, AppendGrows
<1>9. /\ call'[t].op = "answer" /\ call'[t].browser = call[t].browser
      /\ call'[t].jar.session = s /\ call'[t].jar.refresh = c
      /\ OtherCallsStay(t)
  BY <1>5 DEF Go, Types, OtherCallsStay
<1> QED BY <1>1, <1>2, <1>4, <1>5, <1>7, <1>8, <1>9 DEF Renews, f

\* A second tab is told to use what the first one got.
TellsToWait(t, s) ==
    /\ call[t] # NoCall /\ call[t].op = "rotate" /\ call[t].session = s
    /\ ~Current(call[t].row, call[t].refresh)
    /\ call'[t].op = "answer" /\ call'[t].browser = call[t].browser
    /\ call'[t].jar.session = s /\ call'[t].jar.refresh = 0
    /\ OtherCallsStay(t)
    /\ UNCHANGED <<account, session, credential, jar, settled, ops>>

LEMMA PassEffect ==
  ASSUME Types, NEW t \in Tabs, Rotate(t), LetsPass(t)
  PROVE  call[t].session \in Ids /\ TellsToWait(t, call[t].session)
<1>1. call[t] # NoCall /\ call[t].op = "rotate" /\ call[t].session \in Ids
  BY TypeFacts, CallFields, RotateShape DEF At
<1>2. /\ UNCHANGED <<account, session, credential, jar, settled, ops>>
      /\ ~Current(call[t].row, call[t].refresh)
      /\ Go(t, [op |-> "answer", browser |-> call[t].browser,
                jar |-> [session |-> call[t].session, refresh |-> 0]])
  BY RotateShape DEF LetsPass
<1>3. /\ call'[t].op = "answer" /\ call'[t].browser = call[t].browser
      /\ call'[t].jar.session = call[t].session /\ call'[t].jar.refresh = 0
      /\ OtherCallsStay(t)
  BY <1>2 DEF Go, Types, OtherCallsStay
<1> QED BY <1>1, <1>2, <1>3 DEF TellsToWait

LEMMA LockEffect ==
  ASSUME Types, NEW t \in Tabs, Locks(t)
  PROVE  /\ call[t].session \in Ids
         /\ call'[t].op = "rotate" /\ call'[t].browser = call[t].browser
         /\ call'[t].session = call[t].session /\ call'[t].refresh = call[t].refresh
         /\ call'[t].row = session[call[t].session]
         /\ OtherCallsStay(t)
<1>1. call[t] # NoCall /\ call[t].op = "refresh" /\ call[t].session \in Ids
  BY TypeFacts, CallFields DEF Locks, At
<1> QED BY <1>1 DEF Locks, Go, Types, OtherCallsStay

\* An answer reaches its browser.
Reaches(t, b) ==
    /\ call[t] # NoCall /\ call[t].op = "answer" /\ call[t].browser = b /\ call[t].jar \in Cookies
    /\ call'[t] = NoCall
    /\ OtherCallsStay(t)
    /\ \A d \in Browsers \ {b} : jar'[d] = jar[d]
    /\ \/ /\ call[t].jar.refresh = 0 /\ call[t].jar.session # 0
          /\ jar'[b].session = call[t].jar.session /\ jar'[b].refresh = jar[b].refresh
       \/ /\ call[t].jar.refresh # 0 \/ call[t].jar.session = 0
          /\ jar'[b].session = call[t].jar.session /\ jar'[b].refresh = call[t].jar.refresh
    /\ UNCHANGED <<account, session, credential, settled, ops>>

LEMMA ArriveEffect ==
  ASSUME Types, NEW t \in Tabs, Arrive(t)
  PROVE  call[t].browser \in Browsers /\ Reaches(t, call[t].browser)
<1>1. /\ call[t] # NoCall /\ call[t].op = "answer" /\ call[t].browser \in Browsers
      /\ call[t].jar \in Cookies
  BY TypeFacts, CallFields DEF Arrive, At
<1>2. call'[t] = NoCall /\ OtherCallsStay(t)  BY DEF Arrive, End, Go, Types, OtherCallsStay
<1> DEFINE b == call[t].browser
           j == call[t].jar
<1>3. jar' = [jar EXCEPT ![b] = IF j.refresh = 0 /\ j.session # 0 THEN [@ EXCEPT !.session = j.session] ELSE j]
  BY DEF Arrive
<1>4. jar \in [Browsers -> Cookies] /\ b \in Browsers  BY <1>1 DEF Types
<1> HIDE DEF b, j
<1>5. /\ \A d \in Browsers \ {b} : jar'[d] = jar[d]
      /\ jar'[b] = IF j.refresh = 0 /\ j.session # 0 THEN [jar[b] EXCEPT !.session = j.session] ELSE j
  BY <1>3, <1>4
<1>6. \/ /\ j.refresh = 0 /\ j.session # 0
         /\ jar'[b].session = j.session /\ jar'[b].refresh = jar[b].refresh
      \/ /\ j.refresh # 0 \/ j.session = 0
         /\ jar'[b].session = j.session /\ jar'[b].refresh = j.refresh
  BY <1>4, <1>5 DEF Cookies
<1>7. UNCHANGED <<account, session, credential, settled, ops>>  BY DEF Arrive
<1> QED BY <1>1, <1>2, <1>4, <1>5, <1>6, <1>7 DEF Reaches, b, j

\* What a step can be.
LEMMA Steps ==
  ASSUME Types, IssuedOnly, [SessionsNext]_sessionVars
  PROVE  \/ \E t \in Tabs : Quiet(t)
         \/ \E t \in Tabs, n \in Ids : SignsIn(t, n)
         \/ \E t \in Tabs, s \in Ids : Binds(t, s, Len(credential) + 1)
         \/ \E t \in Tabs : Locks(t)
         \/ \E t \in Tabs, s \in Ids : Renews(t, s, Len(credential) + 1)
         \/ \E t \in Tabs, s \in Ids : TellsToWait(t, s)
         \/ \E t \in Tabs, b \in Browsers : Reaches(t, b)
         \/ \E s \in Ids : GraceLapses(s)
         \/ NothingMoves
  BY StepKinds, SignInShape, BindEffect, ExchangeEffect, PassEffect, ArriveEffect, BrowsersAreNumbers

LEMMA IssuedOnlyStep ==
  ASSUME Types, Types', IssuedOnly, [SessionsNext]_sessionVars
  PROVE  IssuedOnly'
<1>0. Len(credential) \in Nat /\ Len(credential)' \in Nat  BY DEF Types
<1>1. ASSUME NEW t \in Tabs, Quiet(t) PROVE IssuedOnly'
  <2>1. Len(credential)' = Len(credential) /\ jar' = jar  BY <1>1 DEF Quiet
  <2>2. Empty.refresh = 0  BY DEF Empty
  <2>3. \A b \in Browsers : jar'[b].refresh \in 0..Len(credential)'  BY <2>1 DEF IssuedOnly
  <2>4. \A s \in Ids : session'[s].hash \in 0..Len(credential)' /\ (session'[s].hash = 0 <=> session'[s].family = 0)
    BY <1>1, <2>1 DEF IssuedOnly, Quiet, RowsShrink
  <2>5. ASSUME NEW u \in Tabs
        PROVE  /\ At(u, "refresh")' \/ At(u, "rotate")' => call'[u].refresh \in 1..Len(credential)'
               /\ At(u, "answer")' \/ At(u, "invalidate")' => call'[u].jar.refresh \in 0..Len(credential)'
               /\ At(u, "rotate")' => (call'[u].row.hash = 0 <=> call'[u].row.family = 0)
               /\ At(u, "create")' => ops' \cap {"login", "verify"} # {}
               /\ At(u, "create")' /\ call'[u].next = "activate" => "verify" \in ops'
    <3>1. CASE u # t  BY <1>1, <2>1, <3>1 DEF IssuedOnly, Quiet, At
    <3>2. CASE u = t
      BY <1>0, <1>1, <2>1, <2>2, <3>2 DEF IssuedOnly, Quiet, QuietCall, Verifies, Brings, At
    <3> QED BY <3>1, <3>2
  <2> QED BY <2>3, <2>4, <2>5 DEF IssuedOnly
<1>2. ASSUME NEW t \in Tabs, NEW n \in Ids, SignsIn(t, n) PROVE IssuedOnly'
  BY <1>0, <1>2 DEF SignsIn, Unbound, IssuedOnly, At, OtherCallsStay
<1>3. ASSUME NEW t \in Tabs, NEW s \in Ids, Binds(t, s, Len(credential) + 1) PROVE IssuedOnly'
  <2>1. OtherCallsStay(t) /\ ops' = ops /\ Len(credential)' = Len(credential) + 1 /\ jar' = jar
    BY <1>0, <1>3 DEF Binds, Grows
  <2>2. ~At(t, "create")'  BY <1>3 DEF Binds, At
  <2>3. \A u \in Tabs : /\ At(u, "create")' => ops' \cap {"login", "verify"} # {}
                        /\ At(u, "create")' /\ call'[u].next = "activate" => "verify" \in ops'
    BY <2>1, <2>2 DEF IssuedOnly, At, OtherCallsStay
  <2>4. \A s2 \in Ids : /\ session'[s2].hash \in 0..Len(credential)'
                        /\ session'[s2].hash = 0 <=> session'[s2].family = 0
    BY <1>0, <1>3, <2>1 DEF Binds, OthersShrink, IssuedOnly
  <2>5. \A u \in Tabs :
          /\ At(u, "refresh")' \/ At(u, "rotate")' => call'[u].refresh \in 1..Len(credential)'
          /\ At(u, "answer")' \/ At(u, "invalidate")' => call'[u].jar.refresh \in 0..Len(credential)'
          /\ At(u, "rotate")' => (call'[u].row.hash = 0 <=> call'[u].row.family = 0)
    BY <1>0, <1>3, <2>1 DEF Binds, IssuedOnly, At, OtherCallsStay
  <2>6. \A b \in Browsers : jar'[b].refresh \in 0..Len(credential)'  BY <1>0, <2>1 DEF IssuedOnly
  <2> QED BY <2>3, <2>4, <2>5, <2>6 DEF IssuedOnly
<1>4. ASSUME NEW t \in Tabs, Locks(t) PROVE IssuedOnly'
  <2>1. /\ At(t, "refresh") /\ call[t].session \in Ids
        /\ call'[t].op = "rotate" /\ call'[t].refresh = call[t].refresh
        /\ call'[t].row = session[call[t].session]
        /\ OtherCallsStay(t) /\ UNCHANGED <<session, credential, jar, ops>>
    BY <1>4, LockEffect DEF Locks
  <2> QED BY <1>0, <2>1 DEF IssuedOnly, At, OtherCallsStay
<1>5. ASSUME NEW t \in Tabs, NEW s \in Ids, Renews(t, s, Len(credential) + 1) PROVE IssuedOnly'
  BY <1>0, <1>5 DEF Renews, Grows, IssuedOnly, At, OtherCallsStay
<1>6. ASSUME NEW t \in Tabs, NEW s \in Ids, TellsToWait(t, s) PROVE IssuedOnly'
  BY <1>0, <1>6 DEF TellsToWait, IssuedOnly, At, OtherCallsStay
<1>7. ASSUME NEW t \in Tabs, NEW b \in Browsers, Reaches(t, b) PROVE IssuedOnly'
  BY <1>0, <1>7 DEF Reaches, IssuedOnly, At, OtherCallsStay
<1>8. ASSUME NEW s \in Ids, GraceLapses(s) PROVE IssuedOnly'
  <2>1. /\ UNCHANGED <<credential, jar, call, ops>>
        /\ \A r \in Ids : session'[r].hash = session[r].hash /\ session'[r].family = session[r].family
    BY <1>8 DEF GraceLapses, Types, Columns
  <2> QED BY <1>0, <2>1 DEF IssuedOnly, At
<1>9. CASE NothingMoves  BY <1>9 DEF NothingMoves, IssuedOnly, At
<1> QED BY <1>1, <1>2, <1>3, <1>4, <1>5, <1>6, <1>7, <1>8, <1>9, Steps

LEMMA SameInterval ==
  ASSUME NEW m \in Nat, NEW n \in Nat, 1..m = 1..n
  PROVE  m = n
<1>1. m >= 1 => m \in 1..n  OBVIOUS
<1>2. n >= 1 => n \in 1..m  OBVIOUS
<1> QED BY <1>1, <1>2

\* Whoever is signed in from the start has the session and the credential of his number.
LEMMA InUseAreCounted ==
  ASSUME InitSessions, ops \cap {"login", "verify"} = {}
  PROVE  /\ Cardinality(Using) \in Nat
         /\ Using = 1..Cardinality(Using)
         /\ credential = [c \in 1..Cardinality(Using) |-> [family |-> Stored(c), from |-> 0]]
         /\ Len(credential) = Cardinality(Using)
<1>1. Cardinality(Browsers) = Devices /\ Cardinality({1}) = 1
  <2>1. 1 \in Int /\ Devices \in Int /\ ~(1 > Devices) /\ Devices - 1 + 1 = Devices  BY Bounds
  <2>2. Cardinality(1..Devices) = IF 1 > Devices THEN 0 ELSE Devices - 1 + 1  BY <2>1, FS_Interval
  <2>3. Cardinality({1}) = 1  BY FS_Singleton
  <2> QED BY <2>1, <2>2, <2>3 DEF Browsers
<1>2. Cardinality(Using) \in Nat /\ Using = 1..Cardinality(Using)
  <2>1. CASE "alone" \in ops
    <3>1. Using = {1} /\ 1..1 = {1}  BY <2>1 DEF Using
    <3> QED BY <1>1, <3>1
  <2>2. CASE "alone" \notin ops
    <3>1. Using = 1..Devices  BY <2>2 DEF Using, Browsers
    <3> QED BY <1>1, <3>1, Bounds DEF Browsers
  <2> QED BY <2>1, <2>2
<1>3. credential = [c \in 1..Cardinality(Using) |-> [family |-> Stored(c), from |-> 0]]
  BY DEF InitSessions
<1>4. Len(credential) = Cardinality(Using)
  <2>1. credential \in Seq(Issued)  BY TypesInit DEF Types
  <2>2. Len(credential) \in Nat /\ DOMAIN credential = 1..Len(credential)  BY <2>1
  <2>3. DOMAIN credential = 1..Cardinality(Using)  BY <1>3
  <2> QED BY <1>2, <2>2, <2>3, SameInterval
<1> QED BY <1>2, <1>3, <1>4

LEMMA InitialRows ==
  ASSUME InitSessions, ops \cap {"login", "verify"} = {}
  PROVE  /\ \A s \in Ids :
              IF s \in Using
              THEN /\ session[s].status = "OPEN" /\ session[s].hash = Stored(s) /\ session[s].prev = 0
                   /\ session[s].family = Stored(s) /\ ~session[s].recent /\ session[s].password = 1
              ELSE /\ session[s].status = "NONE" /\ session[s].hash = 0 /\ session[s].prev = 0
                   /\ session[s].family = 0 /\ ~session[s].recent
         /\ \A b \in Browsers :
              IF b \in Using THEN jar[b].session = b /\ jar[b].refresh = b
              ELSE jar[b].session = 0 /\ jar[b].refresh = 0
<1>1. /\ session = [s \in Ids |-> IF s \notin Using THEN NoRow
                          ELSE [status |-> "OPEN", hash |-> Stored(s), prev |-> 0,
                                family |-> Stored(s), recent |-> FALSE, password |-> 1, late |-> FALSE]]
      /\ jar = [b \in Browsers |-> IF b \in Using THEN [session |-> b, refresh |-> b] ELSE Empty]
  BY DEF InitSessions
<1>2. ASSUME NEW s \in Ids, s \in Using
      PROVE  session[s] = [status |-> "OPEN", hash |-> Stored(s), prev |-> 0,
                           family |-> Stored(s), recent |-> FALSE, password |-> 1, late |-> FALSE]
  BY <1>1, <1>2
<1>3. ASSUME NEW s \in Ids, s \notin Using
      PROVE  session[s] = NoRow
  BY <1>1, <1>3
<1>4. ASSUME NEW b \in Browsers, b \in Using
      PROVE  jar[b] = [session |-> b, refresh |-> b]
  BY <1>1, <1>4
<1>5. ASSUME NEW b \in Browsers, b \notin Using
      PROVE  jar[b] = Empty
  BY <1>1, <1>5
<1>6. ASSUME NEW s \in Ids, s \in Using
      PROVE  /\ session[s].status = "OPEN" /\ session[s].hash = Stored(s) /\ session[s].prev = 0
             /\ session[s].family = Stored(s) /\ ~session[s].recent /\ session[s].password = 1
  <2>1. session[s] = [status |-> "OPEN", hash |-> Stored(s), prev |-> 0,
                      family |-> Stored(s), recent |-> FALSE, password |-> 1, late |-> FALSE]
    BY <1>2, <1>6
  <2> QED BY <2>1
<1>7. ASSUME NEW s \in Ids, s \notin Using
      PROVE  /\ session[s].status = "NONE" /\ session[s].hash = 0 /\ session[s].prev = 0
             /\ session[s].family = 0 /\ ~session[s].recent
  <2>1. session[s] = NoRow  BY <1>3, <1>7
  <2> QED BY <2>1 DEF NoRow
<1>8. ASSUME NEW b \in Browsers, b \in Using
      PROVE  jar[b].session = b /\ jar[b].refresh = b
  <2>1. jar[b] = [session |-> b, refresh |-> b]  BY <1>4, <1>8
  <2> QED BY <2>1
<1>9. ASSUME NEW b \in Browsers, b \notin Using
      PROVE  jar[b].session = 0 /\ jar[b].refresh = 0
  <2>1. jar[b] = Empty  BY <1>5, <1>9
  <2> QED BY <2>1 DEF Empty
<1> QED BY <1>6, <1>7, <1>8, <1>9

LEMMA IssuedOnlyInit == InitSessions => IssuedOnly
<1> SUFFICES ASSUME InitSessions PROVE IssuedOnly
  OBVIOUS
<1>1. CASE ops \cap {"login", "verify"} # {}  BY <1>1 DEF InitSessions, IssuedOnly, At, NoRow, Empty
<1>2. CASE ops \cap {"login", "verify"} = {}
  <2>1. /\ Len(credential) = Cardinality(Using)
        /\ \A b \in Using : b \in 1..Cardinality(Using)
    BY <1>2, InUseAreCounted
  <2>2. \A s \in Ids :
          IF s \in Using THEN session[s].hash = Stored(s) /\ session[s].family = Stored(s)
          ELSE session[s].hash = 0 /\ session[s].family = 0
    BY <1>2, InitialRows
  <2>3. \A b \in Browsers : IF b \in Using THEN jar[b].refresh = b ELSE jar[b].refresh = 0
    BY <1>2, InitialRows
  <2>4. Cardinality(Using) \in Nat  BY <1>2, InUseAreCounted
  <2>5. \A s \in Ids : Stored(s) \in {0, s}  BY DEF Stored
  <2>6. ASSUME NEW s \in Ids
        PROVE  session[s].hash \in 0..Len(credential) /\ (session[s].hash = 0 <=> session[s].family = 0)
    <3>1. CASE s \in Using  BY <2>1, <2>2, <2>4, <2>5, <3>1
    <3>2. CASE s \notin Using  BY <2>1, <2>2, <2>4, <3>2
    <3> QED BY <3>1, <3>2
  <2>7. ASSUME NEW b \in Browsers
        PROVE  jar[b].refresh \in 0..Len(credential)
    <3>1. CASE b \in Using  BY <2>1, <2>3, <2>4, <3>1
    <3>2. CASE b \notin Using  BY <2>1, <2>3, <2>4, <3>2
    <3> QED BY <3>1, <3>2
  <2> QED BY <2>6, <2>7 DEF InitSessions, IssuedOnly, At
<1> QED BY <1>1, <1>2

------------------------
(* Sign-ins *)

\* Calls that stay are the same in every respect.
LEMMA StayingCalls ==
  ASSUME NEW t, OtherCallsStay(t)
  PROVE  \A u \in Tabs \ {t} :
           /\ \A op : At(u, op)' <=> At(u, op)
           /\ Acts(u)' <=> Acts(u)
           /\ Brings(u)' <=> Brings(u)
           /\ \A s : Names(u, s)' <=> Names(u, s)
           /\ Fresh(u)' <=> Fresh(u)
           /\ call'[u] = call[u]
<1> SUFFICES ASSUME NEW u \in Tabs \ {t}
    PROVE  /\ \A op : At(u, op)' <=> At(u, op)
           /\ Acts(u)' <=> Acts(u)
           /\ Brings(u)' <=> Brings(u)
           /\ \A s : Names(u, s)' <=> Names(u, s)
           /\ Fresh(u)' <=> Fresh(u)
           /\ call'[u] = call[u]
  OBVIOUS
<1>1. call'[u] = call[u]  BY DEF OtherCallsStay
<1>2. \A op : At(u, op)' <=> At(u, op)  BY <1>1 DEF At
<1>3. (Acts(u)' <=> Acts(u)) /\ (Brings(u)' <=> Brings(u)) /\ (Fresh(u)' <=> Fresh(u))
  BY <1>1 DEF At, Acts, Brings, Fresh
<1>4. \A s : Names(u, s)' <=> Names(u, s)  BY <1>1, <1>3 DEF Names
<1> QED BY <1>1, <1>2, <1>3, <1>4

\* What the call of t names after the step: what it named before, or what jars hold.
LearnsNothing(t) ==
    \A s \in Ids : Names(t, s)' => Names(t, s) \/ \E b \in Browsers : jar[b].session = s

LEMMA QuietLearnsNothing ==
  ASSUME Types, NEW t \in Tabs, Quiet(t)
  PROVE  LearnsNothing(t) /\ OtherCallsStay(t)
<1>1. OtherCallsStay(t) /\ QuietCall(t)  BY DEF Quiet, OtherCallsStay
<1>2. Empty.session = 0 /\ 0 \notin Ids  BY BrowsersAreNumbers DEF Empty
<1>3. ASSUME NEW s \in Ids, Acts(t)', call'[t].session = s
      PROVE  Names(t, s) \/ \E b \in Browsers : jar[b].session = s
  BY <1>1, <1>3 DEF QuietCall, Names
<1>4. ASSUME NEW s \in Ids, Brings(t)', call'[t].jar.session = s
      PROVE  Names(t, s)
  BY <1>1, <1>2, <1>4 DEF QuietCall, Names
<1> QED BY <1>1, <1>3, <1>4 DEF Names, LearnsNothing

LEMMA OthersLearnNothing ==
  ASSUME Types, NEW t \in Tabs, NEW s \in Ids,
         Binds(t, s, Len(credential) + 1) \/ Renews(t, s, Len(credential) + 1) \/ TellsToWait(t, s)
  PROVE  /\ LearnsNothing(t) /\ OtherCallsStay(t) /\ ~Fresh(t)' /\ jar' = jar /\ Names(t, s)
         /\ \A r \in Ids : session'[r].status = session[r].status
                           \/ (session[r].status = "OPEN" /\ session'[r].status = "GONE")
<1>1. call[t] # NoCall /\ call[t].op \in {"bind", "rotate"} /\ call[t].session = s
  BY DEF Binds, Renews, TellsToWait
<1>2. Names(t, s)  BY <1>1 DEF Names, Acts, At
<1>3. call'[t].op \in {"invalidate", "answer"} /\ call'[t].jar.session = s
  BY DEF Binds, Renews, TellsToWait
<1>4. LearnsNothing(t) /\ ~Fresh(t)'  BY <1>2, <1>3 DEF LearnsNothing, Names, Acts, At, Fresh
<1>5. OtherCallsStay(t) /\ jar' = jar  BY DEF Binds, Renews, TellsToWait
<1>6. \A r \in Ids : session'[r].status = session[r].status
                     \/ (session[r].status = "OPEN" /\ session'[r].status = "GONE")
  BY DEF Binds, Renews, TellsToWait, OthersShrink
<1> QED BY <1>2, <1>4, <1>5, <1>6

LEMMA LocksLearnNothing ==
  ASSUME Types, NEW t \in Tabs, Locks(t)
  PROVE  LearnsNothing(t) /\ OtherCallsStay(t) /\ ~Fresh(t)' /\ UNCHANGED <<session, jar, settled>>
<1>1. /\ At(t, "refresh") /\ call'[t].op = "rotate" /\ call'[t].session = call[t].session
      /\ OtherCallsStay(t) /\ UNCHANGED <<session, jar, settled>>
  BY LockEffect DEF Locks
<1> QED BY <1>1 DEF LearnsNothing, Names, Acts, Brings, At, Fresh

LEMMA ReachesLearnNothing ==
  ASSUME Types, NEW t \in Tabs, NEW b \in Browsers, Reaches(t, b)
  PROVE  /\ OtherCallsStay(t) /\ ~Fresh(t)' /\ (\A s : ~Names(t, s)') /\ UNCHANGED <<session, settled>>
         /\ \A s \in Ids, d \in Browsers : jar'[d].session = s => jar[d].session = s \/ Names(t, s)
<1>1. OtherCallsStay(t) /\ UNCHANGED <<session, settled>> /\ call'[t] = NoCall  BY DEF Reaches
<1>2. ~Fresh(t)' /\ \A s : ~Names(t, s)'  BY <1>1 DEF Fresh, Names, Acts, Brings, At
<1>3. \A s \in Ids, d \in Browsers : jar'[d].session = s => jar[d].session = s \/ Names(t, s)
  BY DEF Reaches, Names, Brings, At
<1> QED BY <1>1, <1>2, <1>3

LEMMA GraceKeeps ==
  ASSUME Types, NEW s \in Ids, GraceLapses(s)
  PROVE  /\ session[s].recent /\ ~session'[s].recent
         /\ "slow" \in ops \/ ~InUse(session[s].prev)
         /\ \A r \in Ids : /\ session'[r].status = session[r].status
                           /\ session'[r].hash = session[r].hash
                           /\ session'[r].prev = session[r].prev
                           /\ session'[r].family = session[r].family
                           /\ session'[r].password = session[r].password
                           /\ session'[r].late = session[r].late
                           /\ r # s => session'[r].recent = session[r].recent
         /\ UNCHANGED <<account, credential, jar, call, settled, ops>>
  BY DEF GraceLapses, Types, Columns

LEMMA NamedExistStep ==
  ASSUME Types, IssuedOnly, NamedExist, [SessionsNext]_sessionVars
  PROVE  NamedExist'
<1>1. ASSUME NEW t \in Tabs, LearnsNothing(t), OtherCallsStay(t), jar' = jar,
             \A r \in Ids : session[r].status # "NONE" => session'[r].status # "NONE"
      PROVE  NamedExist'
  <2>1. \A u \in Tabs, r \in Ids : Names(u, r)' => Names(u, r) \/ \E b \in Browsers : jar[b].session = r
    BY <1>1, StayingCalls DEF LearnsNothing
  <2> QED BY <1>1, <2>1 DEF NamedExist
<1>2. ASSUME NEW t \in Tabs, Quiet(t) PROVE NamedExist'
  <2>1. jar' = jar /\ \A r \in Ids : session[r].status # "NONE" => session'[r].status # "NONE"
    BY <1>2 DEF Quiet, RowsShrink
  <2> QED BY <1>1, <1>2, <2>1, QuietLearnsNothing
<1>3. ASSUME NEW t \in Tabs, NEW n \in Ids, SignsIn(t, n) PROVE NamedExist'
  <2>1. \A r \in Ids : Names(t, r)' => r = n  BY <1>3 DEF SignsIn, Names, Acts, Brings, At
  <2>2. session'[n].status = "OPEN" /\ \A r \in Ids \ {n} : session'[r] = session[r]
    BY <1>3 DEF SignsIn, Unbound
  <2>3. \A u \in Tabs \ {t}, r \in Ids : Names(u, r)' => Names(u, r)  BY <1>3, StayingCalls DEF SignsIn
  <2>4. jar' = jar  BY <1>3 DEF SignsIn
  <2> QED BY <2>1, <2>2, <2>3, <2>4 DEF NamedExist
<1>4. ASSUME NEW t \in Tabs, NEW s \in Ids,
             Binds(t, s, Len(credential) + 1) \/ Renews(t, s, Len(credential) + 1) \/ TellsToWait(t, s)
      PROVE  NamedExist'
  BY <1>1, <1>4, OthersLearnNothing
<1>5. ASSUME NEW t \in Tabs, Locks(t) PROVE NamedExist'  BY <1>1, <1>5, LocksLearnNothing
<1>6. ASSUME NEW t \in Tabs, NEW b \in Browsers, Reaches(t, b) PROVE NamedExist'
  <2>1. \A u \in Tabs, r \in Ids : Names(u, r)' => Names(u, r)
    BY <1>6, ReachesLearnNothing, StayingCalls
  <2>2. session' = session /\ \A r \in Ids, d \in Browsers : jar'[d].session = r => jar[d].session = r \/ Names(t, r)
    BY <1>6, ReachesLearnNothing
  <2> QED BY <2>1, <2>2 DEF NamedExist
<1>7. ASSUME NEW s \in Ids, GraceLapses(s) PROVE NamedExist'
  <2>1. UNCHANGED <<jar, call>> /\ \A r \in Ids : session'[r].status = session[r].status
    BY <1>7, GraceKeeps
  <2> QED BY <2>1 DEF NamedExist, Names, Acts, Brings, At
<1>8. CASE NothingMoves  BY <1>8 DEF NothingMoves, NamedExist, Names, Acts, Brings, At
<1> QED BY <1>2, <1>3, <1>4, <1>5, <1>6, <1>7, <1>8, Steps

\* The session of a sign-in is one that there is.
LEMMA FreshHasSession ==
  ASSUME Types, NEW t \in Tabs, Fresh(t)
  PROVE  call[t] # NoCall /\ call[t].session \in Ids /\ Names(t, call[t].session)
<1>1. call[t] # NoCall /\ call[t].op \in {"validate", "activate", "bind"}  BY DEF Fresh, At
<1>2. call[t].session \in Ids  BY <1>1, TypeFacts, CallFields
<1> QED BY <1>1, <1>2 DEF Names, Acts, At

LEMMA FreshIsAloneStep ==
  ASSUME Types, IssuedOnly, NamedExist, FreshIsAlone, [SessionsNext]_sessionVars
  PROVE  FreshIsAlone'
<1>1. ASSUME NEW t \in Tabs, LearnsNothing(t), OtherCallsStay(t), jar' = jar,
             Fresh(t)' => Fresh(t) /\ call'[t].session = call[t].session
      PROVE  FreshIsAlone'
  <2>1. \A u \in Tabs : Fresh(u)' => Fresh(u) /\ call'[u].session = call[u].session
    BY <1>1, StayingCalls
  <2>2. \A u \in Tabs, r \in Ids : Names(u, r)' => Names(u, r) \/ \E b \in Browsers : jar[b].session = r
    BY <1>1, StayingCalls DEF LearnsNothing
  <2> QED BY <1>1, <2>1, <2>2, FreshHasSession DEF FreshIsAlone
<1>2. ASSUME NEW t \in Tabs, Quiet(t) PROVE FreshIsAlone'
  <2>1. Fresh(t)' => Acts(t)'  BY DEF Fresh, Acts
  <2>2. jar' = jar /\ (Fresh(t)' => Fresh(t) /\ call'[t].session = call[t].session)
    BY <1>2, <2>1 DEF Quiet, QuietCall
  <2> QED BY <1>1, <1>2, <2>2, QuietLearnsNothing
<1>3. ASSUME NEW t \in Tabs, NEW n \in Ids, SignsIn(t, n) PROVE FreshIsAlone'
  <2>1. \A r : Names(t, r)' => r = n  BY <1>3 DEF SignsIn, Names, Acts, Brings, At
  <2>2. call'[t].session = n /\ session[n].status = "NONE" /\ jar' = jar  BY <1>3 DEF SignsIn
  <2>3. \A u \in Tabs \ {t} : /\ \A r : Names(u, r)' <=> Names(u, r)
                              /\ Fresh(u)' <=> Fresh(u)
                              /\ call'[u] = call[u]
    BY <1>3, StayingCalls DEF SignsIn
  <2>4. (\A u \in Tabs : ~Names(u, n)) /\ \A d \in Browsers : jar[d].session # n  BY <2>2 DEF NamedExist
  <2>5. ASSUME NEW u \in Tabs, Fresh(u)', NEW r, call'[u].session = r
        PROVE  /\ \A v \in Tabs \ {u} : ~Names(v, r)'
               /\ \A d \in Browsers : jar'[d].session # r
    <3>1. CASE u = t  BY <2>2, <2>3, <2>4, <2>5, <3>1
    <3>2. CASE u # t
      <4>1. Fresh(u) /\ call[u].session = r  BY <2>3, <2>5, <3>2
      <4>2. Names(u, r) /\ r # n  BY <2>4, <4>1, FreshHasSession
      <4>3. (\A v \in Tabs \ {u} : ~Names(v, r)) /\ \A d \in Browsers : jar[d].session # r
        BY <4>1 DEF FreshIsAlone
      <4> QED BY <2>1, <2>2, <2>3, <4>2, <4>3
    <3> QED BY <3>1, <3>2
  <2> QED BY <2>5 DEF FreshIsAlone, Names
<1>4. ASSUME NEW t \in Tabs, NEW s \in Ids,
             Binds(t, s, Len(credential) + 1) \/ Renews(t, s, Len(credential) + 1) \/ TellsToWait(t, s)
      PROVE  FreshIsAlone'
  BY <1>1, <1>4, OthersLearnNothing
<1>5. ASSUME NEW t \in Tabs, Locks(t) PROVE FreshIsAlone'  BY <1>1, <1>5, LocksLearnNothing
<1>6. ASSUME NEW t \in Tabs, NEW b \in Browsers, Reaches(t, b) PROVE FreshIsAlone'
  <2>1. /\ \A u \in Tabs : Fresh(u)' => Fresh(u) /\ call'[u].session = call[u].session /\ u # t
        /\ \A u \in Tabs : \A r : Names(u, r)' => Names(u, r)
    BY <1>6, ReachesLearnNothing, StayingCalls
  <2>2. \A r \in Ids, d \in Browsers : jar'[d].session = r => jar[d].session = r \/ Names(t, r)
    BY <1>6, ReachesLearnNothing
  <2> QED BY <2>1, <2>2, FreshHasSession DEF FreshIsAlone
<1>7. ASSUME NEW s \in Ids, GraceLapses(s) PROVE FreshIsAlone'
  <2>1. UNCHANGED <<jar, call>>  BY <1>7, GraceKeeps
  <2> QED BY <2>1 DEF FreshIsAlone, Fresh, Names, Acts, Brings, At
<1>8. CASE NothingMoves  BY <1>8 DEF NothingMoves, FreshIsAlone, Fresh, Names, Acts, Brings, At
<1> QED BY <1>2, <1>3, <1>4, <1>5, <1>6, <1>7, <1>8, Steps

LEMMA PasswordsStep ==
  ASSUME Types, Types', IssuedOnly, NamedExist, FreshIsAlone, PasswordsAreCurrent, [SessionsNext]_sessionVars
  PROVE  PasswordsAreCurrent'
<1>0. /\ settled \in Nat /\ settled' \in Nat /\ account.password \in Nat /\ settled <= account.password
      /\ \A s \in Ids : s # 0 /\ session[s].password \in Nat /\ session'[s].password \in Nat
  BY BrowsersAreNumbers, Bounds DEF Types, AccountRow, Columns
<1>f. \A t \in Tabs : Fresh(t) => call[t].session \in Ids  BY FreshHasSession
<1>1. ASSUME NEW t \in Tabs, OtherCallsStay(t), settled' = settled,
             Fresh(t)' => /\ Fresh(t) /\ call'[t].session = call[t].session
                          /\ call'[t].password = call[t].password,
             \A r \in Ids : /\ session'[r].password = session[r].password
                            /\ session'[r].late = session[r].late
                            /\ session'[r].status = "OPEN" => session[r].status = "OPEN"
      PROVE  PasswordsAreCurrent'
  <2>1. \A u \in Tabs : Fresh(u)' => /\ Fresh(u) /\ call'[u].session = call[u].session
                                     /\ call'[u].password = call[u].password
    BY <1>1, StayingCalls
  <2> QED BY <1>0, <1>f, <1>1, <2>1 DEF PasswordsAreCurrent, Timely, Open
<1>2. ASSUME NEW t \in Tabs, Quiet(t) PROVE PasswordsAreCurrent'
  <2>1. Fresh(t)' => Acts(t)'  BY DEF Fresh, Acts
  <2>2. Fresh(t)' => /\ Fresh(t) /\ call'[t].session = call[t].session
                     /\ call'[t].password = call[t].password
    BY <1>2, <2>1 DEF Quiet, QuietCall
  <2>3. CASE settled' = settled  BY <1>1, <1>2, <2>2, <2>3, QuietLearnsNothing DEF Quiet, RowsShrink
  <2>4. CASE \A s \in Ids : session'[s].status # "OPEN"
    <3>1. \A u \in Tabs : Fresh(u)' => call'[u].session \in Ids
      BY <1>2, <1>f, <2>2, QuietLearnsNothing, StayingCalls
    <3> QED BY <2>4, <3>1 DEF PasswordsAreCurrent, Timely, Open
  <2> QED BY <1>2, <2>3, <2>4 DEF Quiet
<1>3. ASSUME NEW t \in Tabs, NEW n \in Ids, SignsIn(t, n) PROVE PasswordsAreCurrent'
  <2>1. /\ settled' = settled /\ call'[t].session = n /\ call'[t].password = call[t].password
        /\ session'[n].password = call[t].password
        /\ call[t].password >= settled \/ session'[n].late
        /\ \A r \in Ids \ {n} : session'[r] = session[r]
    BY <1>0, <1>3 DEF SignsIn, Unbound, Overdue
  <2>2. \A u \in Tabs \ {t} : (Fresh(u)' <=> Fresh(u)) /\ call'[u] = call[u]
    BY <1>3, StayingCalls DEF SignsIn
  <2>3. \A r \in Ids : Timely(r)' => session'[r].password >= settled'
    BY <1>0, <2>1 DEF PasswordsAreCurrent, Timely, Open
  <2>4. session[n].status = "NONE"  BY <1>3 DEF SignsIn
  <2>5. ASSUME NEW u \in Tabs, Fresh(u)', NEW r, call'[u].session = r, Timely(r)'
        PROVE  call'[u].password >= settled'
    <3>1. CASE u = t  BY <1>0, <2>1, <2>5, <3>1 DEF Timely
    <3>2. CASE u # t
      <4>1. Fresh(u) /\ call[u].session = r /\ call'[u].password = call[u].password  BY <2>2, <2>5, <3>2
      <4>2. r \in Ids /\ Names(u, r)  BY <4>1, FreshHasSession
      <4>3. r # n  BY <2>4, <4>2 DEF NamedExist
      <4>4. Timely(r)  BY <2>1, <2>5, <4>2, <4>3 DEF Timely, Open
      <4> QED BY <1>0, <2>1, <4>1, <4>4 DEF PasswordsAreCurrent
    <3> QED BY <3>1, <3>2
  <2> QED BY <2>3, <2>5 DEF PasswordsAreCurrent, Timely, Open
<1>4. ASSUME NEW t \in Tabs, NEW s \in Ids, Binds(t, s, Len(credential) + 1) PROVE PasswordsAreCurrent'
  <2>1. /\ call[t] # NoCall /\ call[t].op = "bind" /\ call[t].session = s
        /\ session[s].status = "OPEN" /\ session'[s].password = call[t].password
        /\ session'[s].late = session[s].late
        /\ settled' = IF call[t].keep = 1 THEN call[t].password ELSE settled
        /\ call[t].keep = 1 => \A r \in Ids \ {s} : session'[r].status # "OPEN"
        /\ \A r \in Ids \ {s} :
              /\ session'[r].password = session[r].password
              /\ session'[r].late = session[r].late
              /\ session'[r].status = "OPEN" => session[r].status = "OPEN"
    BY <1>4 DEF Binds, OthersShrink
  <2>2. ~Fresh(t)' /\ Names(t, s) /\ \A u \in Tabs \ {t} : (Fresh(u)' <=> Fresh(u)) /\ call'[u] = call[u]
    BY <1>4, OthersLearnNothing, StayingCalls
  <2>3. call[t].password \in Nat  BY <2>1, TypeFacts, CallFields
  <2>4. \A u \in Tabs : Fresh(u)' => u # t /\ Fresh(u) /\ call'[u] = call[u] /\ call[u].session # s
    BY <2>2 DEF FreshIsAlone
  <2>5. CASE call[t].keep = 1
    <3>1. settled' = call[t].password  BY <2>1, <2>5
    <3>2. \A r \in Ids : Timely(r)' => r = s  BY <2>1, <2>5 DEF Timely, Open
    <3>3. PasswordsAreCurrent'
      <4>1. session'[s].password = settled'  BY <2>1, <3>1
      <4>2. \A r \in Ids : Timely(r)' => session'[r].password >= settled'  BY <1>0, <3>2, <4>1
      <4>3. \A u \in Tabs : Fresh(u)' =>
              ~(/\ call'[u].session # 0 /\ session'[call'[u].session].status = "OPEN"
                /\ ~session'[call'[u].session].late)
        BY <1>f, <2>4, <3>2 DEF Timely, Open
      <4> QED BY <4>2, <4>3 DEF PasswordsAreCurrent, Timely, Open
    <3> QED BY <3>3
  <2>6. CASE call[t].keep # 1
    <3>1. settled' = settled /\ Fresh(t)  BY <2>1, <2>6 DEF Fresh, At
    <3>2. ~session[s].late => call[t].password >= settled
      BY <1>0, <2>1, <3>1 DEF PasswordsAreCurrent, Timely, Open
    <3>3. ASSUME NEW r \in Ids, Timely(r)' PROVE session'[r].password >= settled'
      <4>1. CASE r = s  BY <2>1, <3>1, <3>2, <3>3, <4>1 DEF Timely
      <4>2. CASE r # s
        <5>1. session'[r].password = session[r].password /\ session'[r].late = session[r].late /\ (session'[r].status = "OPEN" => session[r].status = "OPEN")
          BY <2>1, <4>2
        <5>2. Timely(r)  BY <3>3, <5>1 DEF Timely, Open
        <5> QED BY <3>1, <5>1, <5>2 DEF PasswordsAreCurrent
      <4> QED BY <4>1, <4>2
    <3>4. ASSUME NEW u \in Tabs, Fresh(u)', NEW r, call'[u].session = r, Timely(r)'
          PROVE  call'[u].password >= settled'
      <4>1. Fresh(u) /\ call'[u] = call[u] /\ r # s /\ r \in Ids  BY <1>f, <2>4, <3>4
      <4>2. session'[r].late = session[r].late /\ (session'[r].status = "OPEN" => session[r].status = "OPEN")
        BY <2>1, <4>1
      <4>3. Timely(r)  BY <3>4, <4>1, <4>2 DEF Timely, Open
      <4> QED BY <3>1, <3>4, <4>1, <4>3 DEF PasswordsAreCurrent
    <3> QED BY <3>3, <3>4 DEF PasswordsAreCurrent, Timely, Open
  <2> QED BY <2>5, <2>6
<1>5. ASSUME NEW t \in Tabs, NEW s \in Ids,
             Renews(t, s, Len(credential) + 1) \/ TellsToWait(t, s)
      PROVE  PasswordsAreCurrent'
  <2>1. OtherCallsStay(t) /\ ~Fresh(t)' /\ settled' = settled
    BY <1>5, OthersLearnNothing DEF Renews, TellsToWait
  <2>2. \A r \in Ids : /\ session'[r].password = session[r].password
                       /\ session'[r].late = session[r].late
                       /\ session'[r].status = "OPEN" => session[r].status = "OPEN"
    BY <1>5 DEF Renews, TellsToWait
  <2> QED BY <1>1, <2>1, <2>2
<1>6. ASSUME NEW t \in Tabs, Locks(t) PROVE PasswordsAreCurrent'  BY <1>1, <1>6, LocksLearnNothing
<1>7. ASSUME NEW t \in Tabs, NEW b \in Browsers, Reaches(t, b) PROVE PasswordsAreCurrent'
  BY <1>1, <1>7, ReachesLearnNothing
<1>8. ASSUME NEW s \in Ids, GraceLapses(s) PROVE PasswordsAreCurrent'
  <2>1. /\ UNCHANGED <<call, settled>>
        /\ \A r \in Ids : /\ session'[r].status = session[r].status /\ session'[r].password = session[r].password
                          /\ session'[r].late = session[r].late
    BY <1>8, GraceKeeps
  <2> QED BY <1>0, <1>f, <2>1 DEF PasswordsAreCurrent, Timely, Open, Fresh, At
<1>9. CASE NothingMoves  BY <1>9 DEF NothingMoves, PasswordsAreCurrent, Timely, Open, Fresh, At
<1> QED BY <1>2, <1>3, <1>4, <1>5, <1>6, <1>7, <1>8, <1>9, Steps

------------------------
(* Suspension *)

\* A call changes only by its own steps.
LEMMA WhoMoves ==
  ASSUME Types, [SessionsNext]_sessionVars, NEW u \in Tabs, call[u] # NoCall
  PROVE  call'[u] = call[u] \/ Proceed(u) \/ LoseAnswer(u) \/ Die(u)
<1>0. ASSUME NEW t \in Tabs, NEW c, Go(t, c) PROVE t = u \/ call'[u] = call[u]  BY <1>0 DEF Go, Types
<1>1. ASSUME NEW t \in Tabs, Start(t) PROVE call'[u] = call[u]
  <2>1. call[t] = NoCall /\ \E c : Go(t, c)
    <3>1. ASSUME NEW b \in Using, SignIn(t, b) \/ VerifyEmail(t, b) \/ StartRefresh(t, b) \/ StartLogout(t, b)
          PROVE  call[t] = NoCall /\ \E c : Go(t, c)
      BY <3>1 DEF SignIn, VerifyEmail, StartRefresh, StartLogout, Starts
    <3>2. ASSUME NEW b \in Using, RevokeOtherSessions(t, b) \/ ChangePassword(t, b) \/ StartRequest(t, b)
          PROVE  call[t] = NoCall /\ \E c : Go(t, c)
      BY <3>2 DEF RevokeOtherSessions, ChangePassword, StartRequest, Starts, Invalidated
    <3>3. ASSUME NEW b \in Using, NEW s \in Ids, DeleteMySession(t, b, s)
          PROVE  call[t] = NoCall /\ \E c : Go(t, c)
      BY <3>3 DEF DeleteMySession, Starts, Invalidated
    <3>4. ASSUME NEW b \in Using \cup {0}, SetPassword(t, b)
          PROVE  call[t] = NoCall /\ \E c : Go(t, c)
      BY <3>4 DEF SetPassword, Starts
    <3>5. ASSUME NEW v \in {"ACTIVE", "SUSPENDED"}, SetStatus(t, v) \/ SetTenant(t, v)
          PROVE  call[t] = NoCall /\ \E c : Go(t, c)
      BY <3>5 DEF SetStatus, SetTenant, Starts, Invalidated
    <3> QED BY <1>1, <3>1, <3>2, <3>3, <3>4, <3>5 DEF Start
  <2> QED BY <1>0, <2>1
<1>2. ASSUME NEW t \in Tabs, Proceed(t) \/ LoseAnswer(t) \/ Die(t) PROVE t = u \/ call'[u] = call[u]
  <2>1. \E c : Go(t, c)
    <3>1. CreateSession(t) \/ Validate(t) \/ Activate(t) \/ Bind(t) \/ LockSession(t) => \E c : Go(t, c)
      BY DEF CreateSession, Validate, Activate, Bind, LockSession, End, Invalidated, Refuse, Answer
    <3>2. Rotate(t) \/ Logout(t) \/ FindSessions(t) \/ RevokeAllSessions(t) \/ RevokeOthersOnChange(t) => \E c : Go(t, c)
      BY DEF Rotate, Logout, FindSessions, RevokeAllSessions, RevokeOthersOnChange, Invalidated, Answer
    <3>3. Invalidate(t) \/ Arrive(t) \/ Admit(t) \/ LoseAnswer(t) \/ Die(t) => \E c : Go(t, c)
      BY DEF Invalidate, Arrive, Admit, LoseAnswer, Die, End, Answer
    <3>4. Look(t) \/ Fill(t) => \E c : Go(t, c)  BY DEF Look, Fill, Found, End
    <3> QED BY <1>2, <3>1, <3>2, <3>3, <3>4 DEF Proceed
  <2> QED BY <1>0, <2>1
<1>3. ASSUME NEW s \in Ids, GraceLapses(s) PROVE call' = call  BY <1>3 DEF GraceLapses
<1>4. ASSUME NEW k \in Keys, Expire(k) PROVE call' = call  BY <1>4 DEF Expire
<1>5. CASE UNCHANGED sessionVars  BY <1>5 DEF sessionVars
<1> QED BY <1>1, <1>2, <1>3, <1>4, <1>5 DEF SessionsNext

\* An account stays as it is, is activated, or somebody sets about revoking its sessions.
LEMMA StatusSteps ==
  ASSUME Types, [SessionsNext]_sessionVars
  PROVE  account'.status \in {account.status, "ACTIVE"} \/ Suspending'
<1>0. account \in AccountRow  BY DEF Types
<1>1. ASSUME NEW t \in Tabs, Start(t)
      PROVE  account'.status \in {account.status, "ACTIVE"} \/ Suspending'
  <2>1. ASSUME NEW b \in Using, SignIn(t, b) \/ StartRefresh(t, b) \/ StartLogout(t, b)
                                \/ RevokeOtherSessions(t, b) \/ StartRequest(t, b)
        PROVE  account' = account
    BY <2>1 DEF SignIn, StartRefresh, StartLogout, RevokeOtherSessions, StartRequest
  <2>2. ASSUME NEW b \in Using, NEW s \in Ids, DeleteMySession(t, b, s) PROVE account' = account
    BY <2>2 DEF DeleteMySession
  <2>3. ASSUME NEW b \in Using, VerifyEmail(t, b) PROVE account'.status = account.status
    BY <1>0, <2>3 DEF VerifyEmail, AccountRow
  <2>4. ASSUME NEW b \in Using, ChangePassword(t, b) PROVE account'.status = account.status
    BY <1>0, <2>4 DEF ChangePassword, AccountRow
  <2>5. ASSUME NEW b \in Using \cup {0}, SetPassword(t, b) PROVE account'.status = account.status
    BY <1>0, <2>5 DEF SetPassword, AccountRow
  <2>6. ASSUME NEW v \in {"ACTIVE", "SUSPENDED"}, SetTenant(t, v) PROVE account'.status = account.status
    BY <1>0, <2>6 DEF SetTenant, AccountRow
  <2>7. ASSUME NEW v \in {"ACTIVE", "SUSPENDED"}, SetStatus(t, v)
        PROVE  account'.status = "ACTIVE" \/ Suspending'
    <3>1. CASE v = "ACTIVE"  BY <1>0, <2>7, <3>1 DEF SetStatus, AccountRow
    <3>2. CASE v # "ACTIVE"
      <4> DEFINE c == [op |-> "find", browser |-> 0, password |-> 0, keys |-> {Account}]
      <4>1. Go(t, c) /\ c.op = "find" /\ c \in Call  BY <2>7, <3>2, KeySets DEF SetStatus, Call
      <4>2. c # NoCall  BY <4>1, Bounds
      <4> HIDE DEF c
      <4>3. call'[t] = c  BY <4>1 DEF Go, Types
      <4> QED BY <4>1, <4>2, <4>3 DEF Suspending, At
    <3> QED BY <3>1, <3>2
  <2> QED BY <1>1, <2>1, <2>2, <2>3, <2>4, <2>5, <2>6, <2>7 DEF Start
<1>2. ASSUME NEW t \in Tabs, Proceed(t) \/ LoseAnswer(t) \/ Die(t)
      PROVE  account'.status \in {account.status, "ACTIVE"}
  <2>1. Activate(t) => account'.status = "ACTIVE"  BY <1>0 DEF Activate, AccountRow
  <2>2. Proceed(t) \/ LoseAnswer(t) \/ Die(t) => Activate(t) \/ account' = account
    BY DEF Proceed, CreateSession, Validate, Bind, LockSession, Rotate, Logout, FindSessions, RevokeAllSessions,
           RevokeOthersOnChange, Invalidate, Arrive, Look, Fill, Admit, LoseAnswer, Die
  <2> QED BY <1>2, <2>1, <2>2
<1>3. ASSUME NEW s \in Ids, GraceLapses(s) PROVE account' = account  BY <1>3 DEF GraceLapses
<1>4. ASSUME NEW k \in Keys, Expire(k) PROVE account' = account  BY <1>4 DEF Expire
<1>5. CASE UNCHANGED sessionVars  BY <1>5 DEF sessionVars
<1> QED BY <1>1, <1>2, <1>3, <1>4, <1>5 DEF SessionsNext

\* Who revokes all sessions leaves none.
LEMMA SuspendingEnds ==
  ASSUME Types, [SessionsNext]_sessionVars, Suspending, "die" \notin ops
  PROVE  Suspending' \/ \A s \in Ids : session'[s].status # "OPEN"
<1>1. PICK u \in Tabs : At(u, "find") \/ At(u, "revoke")  BY DEF Suspending
<1>2. call[u] # NoCall /\ call[u].op \in {"find", "revoke"} /\ call[u] \in Call
  BY <1>1, TypeFacts DEF At
<1>3. CASE call'[u] = call[u]  BY <1>1, <1>3 DEF Suspending, At
<1>4. CASE Proceed(u) \/ LoseAnswer(u) \/ Die(u)
  <2>1. FindSessions(u) \/ RevokeAllSessions(u)
    BY <1>2, <1>4 DEF Proceed, CreateSession, Validate, Activate, Bind, LockSession, Rotate, Logout,
           RevokeOthersOnChange, Invalidate, Arrive, Look, Fill, Admit, LoseAnswer, Die, At
  <2>2. CASE FindSessions(u)
    <3> DEFINE c == [op |-> "revoke", browser |-> call[u].browser, password |-> call[u].password,
                     keys |-> call[u].keys \cup OpenRows]
    <3>1. Go(u, c) /\ c.op = "revoke" /\ call[u].op = "find"  BY <2>2 DEF FindSessions, At
    <3>2. c \in Call
      <4>1. /\ call[u].browser \in Browsers \cup {0} /\ call[u].password \in Nat
            /\ call[u].keys \in SUBSET Keys
        BY <1>2, CallFields
      <4>2. OpenRows \in SUBSET Keys  BY KeySets DEF OpenRows
      <4> QED BY <4>1, <4>2 DEF Call
    <3>3. c # NoCall  BY <3>2, Bounds
    <3> HIDE DEF c
    <3>4. call'[u] = c  BY <3>1 DEF Go, Types
    <3> QED BY <3>1, <3>3, <3>4 DEF Suspending, At
  <2>3. CASE RevokeAllSessions(u)  BY <2>3, AllAreDoomed DEF RevokeAllSessions
  <2> QED BY <2>1, <2>2, <2>3
<1> QED BY <1>2, <1>3, <1>4, WhoMoves

\* A sign-in that is not allowed ends with its session.
LEMMA RefusedEnds ==
  ASSUME Types, [SessionsNext]_sessionVars, "die" \notin ops,
         NEW u \in Tabs, At(u, "validate"), call[u].status # "ACTIVE"
  PROVE  call'[u] = call[u] \/ session'[call[u].session].status # "OPEN"
<1>1. call[u] # NoCall /\ call[u].op = "validate" /\ call[u].session \in Ids
  BY TypeFacts, CallFields DEF At
<1>2. CASE Proceed(u) \/ LoseAnswer(u) \/ Die(u)
  <2>1. Validate(u)
    BY <1>1, <1>2 DEF Proceed, CreateSession, FindSessions, RevokeAllSessions, Activate, Bind, LockSession, Rotate, Logout,
           RevokeOthersOnChange, Invalidate, Arrive, Look, Fill, Admit, LoseAnswer, Die, At
  <2>2. Delete(u, {call[u].session})  BY <2>1 DEF Validate, MayUse
  <2>3. \A s \in {call[u].session} \cap Ids : session'[s].status # "OPEN"
    BY <2>2, DeleteShrinks DEF Types
  <2> QED BY <1>1, <2>3
<1> QED BY <1>1, <1>2, WhoMoves

LEMMA OnlyRefusedStep ==
  ASSUME Types, Types', IssuedOnly, NamedExist, FreshIsAlone, OnlyRefused, [SessionsNext]_sessionVars
  PROVE  OnlyRefused'
<1>0. ops' = ops
  BY Steps DEF Quiet, SignsIn, Binds, Locks, Renews, TellsToWait, Reaches, GraceLapses, NothingMoves
<1> SUFFICES ASSUME account'.status = "SUSPENDED", ~Suspending', ops \cap {"verify", "die"} = {},
                    NEW s \in Ids, Timely(s)'
             PROVE  /\ session'[s].hash = 0
                    /\ \E u \in Tabs : /\ At(u, "validate")'
                                       /\ call'[u].session = s
                                       /\ call'[u].status # "ACTIVE"
  BY <1>0 DEF OnlyRefused, At
<1>1. account.status = "SUSPENDED"  BY StatusSteps
<1>2. s # 0 /\ session'[s].status = "OPEN" /\ ~session'[s].late  BY DEF Timely, Open
<1>3. ~Suspending  BY <1>2, SuspendingEnds
<1>4. \A r \in Ids : Timely(r) =>
          /\ session[r].hash = 0
          /\ \E u \in Tabs : At(u, "validate") /\ call[u].session = r /\ call[u].status # "ACTIVE"
  BY <1>1, <1>3 DEF OnlyRefused
\* The sign-in of an open session is still under way.
<1>5. ASSUME Timely(s), session'[s].hash = session[s].hash
      PROVE  /\ session'[s].hash = 0
             /\ \E u \in Tabs : At(u, "validate")' /\ call'[u].session = s /\ call'[u].status # "ACTIVE"
  <2>1. PICK u \in Tabs : At(u, "validate") /\ call[u].session = s /\ call[u].status # "ACTIVE"
    BY <1>4, <1>5
  <2>2. call'[u] = call[u]  BY <1>2, <2>1, RefusedEnds
  <2>3. At(u, "validate")' /\ call'[u].session = s /\ call'[u].status # "ACTIVE"  BY <2>1, <2>2 DEF At
  <2> QED BY <1>4, <1>5, <2>3
\* Nobody else acts on it.
<1>6. ASSUME NEW t \in Tabs, Names(t, s), ~At(t, "validate") PROVE ~Timely(s)
  <2>1. SUFFICES ASSUME Timely(s) PROVE FALSE  OBVIOUS
  <2>2. PICK u \in Tabs : At(u, "validate") /\ call[u].session = s  BY <1>4, <2>1
  <2>3. u # t /\ Fresh(u)  BY <1>6, <2>2 DEF Fresh
  <2> QED BY <1>6, <2>2, <2>3 DEF FreshIsAlone
<1>7. ASSUME session'[s].hash = session[s].hash, session'[s].late = session[s].late,
             session'[s].status = "OPEN" => session[s].status = "OPEN"
      PROVE  /\ session'[s].hash = 0
             /\ \E u \in Tabs : At(u, "validate")' /\ call'[u].session = s /\ call'[u].status # "ACTIVE"
  BY <1>2, <1>5, <1>7 DEF Timely, Open
<1>8. ASSUME NEW t \in Tabs, Quiet(t)
      PROVE  session'[s].hash = session[s].hash /\ session'[s].late = session[s].late
             /\ (session'[s].status = "OPEN" => session[s].status = "OPEN")
  BY <1>8 DEF Quiet, RowsShrink
<1>9. ASSUME NEW t \in Tabs, NEW n \in Ids, SignsIn(t, n)
      PROVE  /\ session'[s].hash = 0
             /\ \E u \in Tabs : At(u, "validate")' /\ call'[u].session = s /\ call'[u].status # "ACTIVE"
  <2>1. CASE s = n
    <3>1. call'[t].op = "validate" /\ call'[t].session = s /\ call'[t].status # "ACTIVE"
      BY <1>1, <1>2, <1>3, <1>9, <2>1 DEF SignsIn, Unbound, Overdue
    <3>2. call'[t] # NoCall  BY <1>9 DEF SignsIn
    <3>3. session'[s].hash = 0  BY <1>9, <2>1 DEF SignsIn, Unbound
    <3> QED BY <3>1, <3>2, <3>3 DEF At
  <2>2. CASE s # n  BY <1>7, <1>9, <2>2 DEF SignsIn
  <2> QED BY <2>1, <2>2
<1>10. ASSUME NEW t \in Tabs, NEW r \in Ids,
              Binds(t, r, Len(credential) + 1) \/ Renews(t, r, Len(credential) + 1) \/ TellsToWait(t, r)
       PROVE  session'[s].hash = session[s].hash /\ session'[s].late = session[s].late
             /\ (session'[s].status = "OPEN" => session[s].status = "OPEN")
  <2>1. Names(t, r) /\ ~At(t, "validate")
    BY <1>10, OthersLearnNothing DEF Binds, Renews, TellsToWait, At
  <2>2. CASE r = s
    <3>1. ~Timely(s)  BY <1>6, <2>1, <2>2
    <3>2. session[s].status # "OPEN"
      BY <1>2, <1>10, <2>2, <3>1 DEF Timely, Open, Binds, Renews, TellsToWait
    <3> QED BY <1>2, <1>10, <2>2, <3>2 DEF Binds, Renews, TellsToWait
  <2>3. CASE r # s  BY <1>10, <2>3 DEF Binds, Renews, TellsToWait, OthersShrink
  <2> QED BY <2>2, <2>3
<1>11. ASSUME (\E t \in Tabs : Locks(t)) \/ (\E t \in Tabs, b \in Browsers : Reaches(t, b)) \/ NothingMoves
       PROVE  session' = session
  BY <1>11 DEF Locks, Reaches, NothingMoves
<1>12. ASSUME NEW r \in Ids, GraceLapses(r)
       PROVE  session'[s].hash = session[s].hash /\ session'[s].late = session[s].late
             /\ (session'[s].status = "OPEN" => session[s].status = "OPEN")
  BY <1>12, GraceKeeps
<1> QED BY <1>7, <1>8, <1>9, <1>10, <1>11, <1>12, Steps

------------------------

LEMMA TypeInvariant == InitSessions /\ [][SessionsNext]_sessionVars => []TypeInv
<1>1. InitSessions => TypeInv  BY TypesInit, IssuedOnlyInit DEF TypeInv
<1>2. TypeInv /\ [SessionsNext]_sessionVars => TypeInv'  BY TypesStep, IssuedOnlyStep DEF TypeInv
<1> QED BY <1>1, <1>2, PTL

\* Every variable of a person's sessions has its type, and a session that has a credential
\* has a family (the columns of the session table and the cookies of auth.controller).
THEOREM SessionsTypeCorrect == SessionsSpec => []SessionsTypeOK
<1>1. TypeInv => SessionsTypeOK
  <2> SUFFICES ASSUME TypeInv PROVE SessionsTypeOK
    OBVIOUS
  <2>1. account.status \in AccountStatus /\ account.tenant \in {"ACTIVE", "SUSPENDED"}
    BY DEF TypeInv, Types, AccountRow
  <2>2. \A s \in Ids : session[s].status \in RowStatus  BY DEF TypeInv, Types, Columns
  <2>3. \A b \in Browsers : jar[b].session \in 0..Rows  BY DEF TypeInv, Types, Cookies
  <2>4. settled \in 1..account.password  BY DEF TypeInv, Types
  <2> QED BY <2>1, <2>2, <2>3, <2>4 DEF TypeInv, IssuedOnly, SessionsTypeOK
<1>2. SessionsSpec => InitSessions /\ [][SessionsNext]_sessionVars  BY DEF SessionsSpec
<1> QED BY <1>1, <1>2, TypeInvariant, PTL

LEMMA SignInInvInit == InitSessions => SignInInv
<1> SUFFICES ASSUME InitSessions PROVE SignInInv
  OBVIOUS
<1>1. \A t \in Tabs : ~Fresh(t) /\ ~Suspending /\ \A s : ~Names(t, s)
  BY DEF InitSessions, Fresh, Suspending, Names, Acts, Brings, At
<1>2. account.status # "SUSPENDED" /\ settled = 1  BY DEF InitSessions
<1>3. \A s \in Ids : Timely(s) => session[s].password = 1
  <2>1. CASE ops \cap {"login", "verify"} # {}  BY <2>1 DEF InitSessions, Timely, Open, NoRow
  <2>2. CASE ops \cap {"login", "verify"} = {}  BY <2>2, InitialRows DEF Timely, Open
  <2> QED BY <2>1, <2>2
<1>4. \A s \in Ids, b \in Browsers : jar[b].session = s => session[s].status # "NONE"
  <2>1. CASE ops \cap {"login", "verify"} # {}  BY <2>1, BrowsersAreNumbers DEF InitSessions, Empty
  <2>2. CASE ops \cap {"login", "verify"} = {}
    <3>1. \A b \in Browsers : b \in Ids /\ 0 \notin Ids  BY BrowsersAreNumbers
    <3>2. \A b \in Browsers : IF b \in Using THEN jar[b].session = b ELSE jar[b].session = 0
      BY <2>2, InitialRows
    <3>3. \A s \in Ids : s \in Using => session[s].status = "OPEN"  BY <2>2, InitialRows
    <3> QED BY <3>1, <3>2, <3>3
  <2> QED BY <2>1, <2>2
<1> QED BY <1>1, <1>2, <1>3, <1>4 DEF SignInInv, NamedExist, FreshIsAlone, PasswordsAreCurrent, OnlyRefused

LEMMA SignInInvariant == InitSessions /\ [][SessionsNext]_sessionVars => []SignInInv
<1>1. TypeInv /\ TypeInv' /\ SignInInv /\ [SessionsNext]_sessionVars => SignInInv'
  BY NamedExistStep, FreshIsAloneStep, PasswordsStep, OnlyRefusedStep DEF SignInInv, TypeInv
<1> QED BY <1>1, SignInInvInit, TypeInvariant, PTL

\* Once a change or a reset of the password has been answered, every session that can be
\* refreshed is of that password or a later one; once a suspension is through, none can be
\* refreshed until it is lifted (bindRefreshCredentialToSession finds the row gone that
\* revokeAllSessionsForUser deleted): all but the sessions of logins that were accepted
\* before and inserted after that deletion (late).
THEOREM OldCredentialsAreRefused == SessionsSpec => []OldCredentialsAreOut
<1>1. TypeInv /\ SignInInv => OldCredentialsAreOut
  <2> SUFFICES ASSUME TypeInv, SignInInv, NEW s \in OpenRows, session[s].hash # 0, ~session[s].late
               PROVE  /\ session[s].password >= settled
                      /\ account.status # "SUSPENDED" \/ Suspending \/ ops \cap {"verify", "die"} # {}
    BY DEF OldCredentialsAreOut
  <2>1. s \in Ids /\ Timely(s)  BY DEF OpenRows, Timely
  <2> QED BY <2>1 DEF SignInInv, PasswordsAreCurrent, OnlyRefused
<1>2. SessionsSpec => InitSessions /\ [][SessionsNext]_sessionVars  BY DEF SessionsSpec
<1> QED BY <1>1, <1>2, TypeInvariant, SignInInvariant, PTL

------------------------
(* Rotation *)

LEMMA OpsStay ==
  ASSUME Types, IssuedOnly, [SessionsNext]_sessionVars
  PROVE  ops' = ops
  BY Steps DEF Quiet, SignsIn, Binds, Locks, Renews, TellsToWait, Reaches, GraceLapses, NothingMoves

LEMMA KeySteps ==
  ASSUME ops' = ops, NEW s \in Ids
  PROVE  /\ session'[s].hash = session[s].hash => Key(s)' = Key(s)
         /\ session'[s].hash # 0 => Key(s)' = session'[s].hash
         /\ session[s].hash # 0 => Key(s) = session[s].hash
         /\ session'[s].hash = 0 /\ ops \cap {"login", "verify"} # {} => Key(s)' = 0
  BY DEF Key, Using

\* What other calls present and carry stays.
LEMMA StayingHolds ==
  ASSUME NEW t, OtherCallsStay(t)
  PROVE  \A u \in Tabs \ {t} : \A s, c :
           (Presents(u, s, c)' <=> Presents(u, s, c)) /\ (Carries(u, s, c)' <=> Carries(u, s, c))
<1>1. \A u \in Tabs \ {t} : call'[u] = call[u]  BY DEF OtherCallsStay
<1> QED BY <1>1 DEF Presents, Carries, Brings, At

\* Calls and jars get nothing that none of them had.
NobodyGets(s) ==
    /\ \A b \in Browsers : \A c : InJar(b, s, c)' => InJar(b, s, c)
    /\ \A u \in Tabs : \A c : /\ Presents(u, s, c)' => Presents(u, s, c) \/ \E b \in Browsers : InJar(b, s, c)
                              /\ Carries(u, s, c)' => Carries(u, s, c)

LEMMA QuietHolds ==
  ASSUME Types, NEW t \in Tabs, Quiet(t), NEW s \in Ids
  PROVE  NobodyGets(s)
<1>1. OtherCallsStay(t) /\ QuietCall(t) /\ jar' = jar  BY DEF Quiet, OtherCallsStay
<1>2. Empty.session = 0 /\ s # 0  BY BrowsersAreNumbers DEF Empty
<1>3. ASSUME NEW c, Presents(t, s, c)' PROVE \E b \in Browsers : InJar(b, s, c)
  BY <1>1, <1>3 DEF QuietCall, Presents, InJar
<1>4. ASSUME NEW c, Carries(t, s, c)' PROVE Carries(t, s, c)  BY <1>1, <1>2, <1>4 DEF QuietCall, Carries
<1>5. \A b \in Browsers : \A c : InJar(b, s, c)' => InJar(b, s, c)  BY <1>1 DEF InJar
<1> QED BY <1>1, <1>3, <1>4, <1>5, StayingHolds DEF NobodyGets

LEMMA SignInHolds ==
  ASSUME Types, NEW t \in Tabs, NEW n \in Ids, SignsIn(t, n), NEW s \in Ids
  PROVE  NobodyGets(s)
<1>1. OtherCallsStay(t) /\ jar' = jar /\ call'[t].op \in {"validate", "activate"}  BY DEF SignsIn
<1>2. \A c : ~Presents(t, s, c)' /\ ~Carries(t, s, c)'  BY <1>1 DEF Presents, Carries, Brings, At
<1>3. \A d \in Browsers : \A c : InJar(d, s, c)' => InJar(d, s, c)  BY <1>1 DEF InJar
<1> QED BY <1>1, <1>2, <1>3, StayingHolds DEF NobodyGets

LEMMA OtherHolds ==
  ASSUME Types, NEW t \in Tabs, NEW s \in Ids, NEW r \in Ids \ {s},
         Binds(t, s, Len(credential) + 1) \/ Renews(t, s, Len(credential) + 1) \/ TellsToWait(t, s)
  PROVE  NobodyGets(r)
<1>1. OtherCallsStay(t) /\ jar' = jar /\ call'[t].op \in {"invalidate", "answer"} /\ call'[t].jar.session = s
  BY DEF Binds, Renews, TellsToWait
<1>2. \A c : ~Presents(t, r, c)' /\ ~Carries(t, r, c)'  BY <1>1 DEF Presents, Carries, Brings, At
<1>3. \A d \in Browsers : \A c : InJar(d, r, c)' => InJar(d, r, c)  BY <1>1 DEF InJar
<1> QED BY <1>1, <1>2, <1>3, StayingHolds DEF NobodyGets

LEMMA LockHolds ==
  ASSUME Types, NEW t \in Tabs, Locks(t), NEW s \in Ids
  PROVE  NobodyGets(s)
<1>1. /\ OtherCallsStay(t) /\ jar' = jar /\ call'[t].op = "rotate"
      /\ call'[t].session = call[t].session /\ call'[t].refresh = call[t].refresh /\ At(t, "refresh")
  BY LockEffect DEF Locks
<1>2. \A c : (Presents(t, s, c)' => Presents(t, s, c)) /\ ~Carries(t, s, c)'
  BY <1>1 DEF Presents, Carries, Brings, At
<1>3. \A d \in Browsers : \A c : InJar(d, s, c)' => InJar(d, s, c)  BY <1>1 DEF InJar
<1> QED BY <1>1, <1>2, <1>3, StayingHolds DEF NobodyGets

LEMMA SameHolds ==
  ASSUME UNCHANGED <<jar, call>>, NEW s
  PROVE  NobodyGets(s)
  BY DEF NobodyGets, InJar, Presents, Carries, Brings, At

LEMMA ReachHolds ==
  ASSUME Types, NEW t \in Tabs, NEW b \in Browsers, Reaches(t, b), NEW s \in Ids
  PROVE  /\ \A u \in Tabs : \A c : /\ Presents(u, s, c)' => Presents(u, s, c) /\ u # t
                                   /\ Carries(u, s, c)' => Carries(u, s, c) /\ u # t
         /\ \A d \in Browsers \ {b} : \A c : InJar(d, s, c)' => InJar(d, s, c)
         /\ \A c : InJar(b, s, c)' => Carries(t, s, c) \/ (Carries(t, s, 0) /\ jar[b].refresh = c)
<1>1. OtherCallsStay(t) /\ call'[t] = NoCall /\ At(t, "answer") /\ \A d \in Browsers \ {b} : jar'[d] = jar[d]
  BY DEF Reaches, At
<1>2. \A c : ~Presents(t, s, c)' /\ ~Carries(t, s, c)'  BY <1>1 DEF Presents, Carries, Brings, At
<1>3. \A d \in Browsers \ {b} : \A c : InJar(d, s, c)' => InJar(d, s, c)  BY <1>1 DEF InJar
<1>4. \A c : InJar(b, s, c)' => Carries(t, s, c) \/ (Carries(t, s, 0) /\ jar[b].refresh = c)
  BY <1>1, BrowsersAreNumbers DEF Reaches, InJar, Carries, Brings
<1> QED BY <1>1, <1>2, <1>3, <1>4, StayingHolds

LEMMA RowIsHeldStep ==
  ASSUME Types, IssuedOnly, NamedExist, RowIsHeld, [SessionsNext]_sessionVars
  PROVE  RowIsHeld'
<1>0. ASSUME NEW u \in Tabs, At(u, "rotate") PROVE call[u].session \in Ids /\ session[call[u].session].status # "NONE"
  <2>1. call[u].session \in Ids /\ Names(u, call[u].session)
    BY <1>0, TypeFacts, CallFields DEF At, Names, Acts
  <2> QED BY <2>1 DEF NamedExist
\* Rows that are locked stay, but for their grace.
<1>1. ASSUME NEW t \in Tabs, OtherCallsStay(t), ~At(t, "rotate")',
             \A u \in Tabs \ {t} : At(u, "rotate") =>
                LET s == call[u].session IN
                /\ session'[s].hash = session[s].hash /\ session'[s].prev = session[s].prev
                /\ session'[s].family = session[s].family /\ session'[s].recent = session[s].recent
      PROVE  RowIsHeld'
  <2>1. \A u \in Tabs : At(u, "rotate")' => u # t /\ At(u, "rotate") /\ call'[u] = call[u]
    BY <1>1, StayingCalls
  <2> QED BY <1>1, <2>1 DEF RowIsHeld
<1>2. ASSUME NEW t \in Tabs, Quiet(t) PROVE RowIsHeld'
  <2>1. OtherCallsStay(t) /\ ~At(t, "rotate")'  BY <1>2 DEF Quiet, QuietCall, OtherCallsStay
  <2> QED BY <1>0, <1>1, <1>2, <2>1 DEF Quiet, RowsShrink
<1>3. ASSUME NEW t \in Tabs, NEW n \in Ids, SignsIn(t, n) PROVE RowIsHeld'
  <2>1. OtherCallsStay(t) /\ ~At(t, "rotate")'  BY <1>3 DEF SignsIn, At
  <2> QED BY <1>0, <1>1, <1>3, <2>1 DEF SignsIn
<1>4. ASSUME NEW t \in Tabs, NEW s \in Ids, Binds(t, s, Len(credential) + 1) PROVE RowIsHeld'
  <2>1. OtherCallsStay(t) /\ ~At(t, "rotate")'  BY <1>4 DEF Binds, At
  <2>2. \A u \in Tabs \ {t} : At(u, "rotate") => call[u].session # s  BY <1>4 DEF Binds, LockFree
  <2> QED BY <1>0, <1>1, <1>4, <2>1, <2>2 DEF Binds, OthersShrink
<1>5. ASSUME NEW t \in Tabs, Locks(t) PROVE RowIsHeld'
  <2>1. /\ OtherCallsStay(t) /\ session' = session /\ call'[t].session = call[t].session
        /\ call'[t].row = session[call[t].session]
        /\ \A u \in Tabs \ {t} : ~(At(u, "rotate") /\ call[u].session = call[t].session)
    BY <1>5, LockEffect DEF Locks, LockFree
  <2>2. \A u \in Tabs \ {t} : (At(u, "rotate")' <=> At(u, "rotate")) /\ call'[u] = call[u]
    BY <2>1, StayingCalls
  <2> QED BY <2>1, <2>2 DEF RowIsHeld
<1>6. ASSUME NEW t \in Tabs, NEW s \in Ids, Renews(t, s, Len(credential) + 1) PROVE RowIsHeld'
  <2>1. OtherCallsStay(t) /\ ~At(t, "rotate")'  BY <1>6 DEF Renews, At
  <2>2. \A u \in Tabs \ {t} : At(u, "rotate") => call[u].session # s  BY <1>6 DEF Renews, RowIsHeld, At
  <2> QED BY <1>0, <1>1, <1>6, <2>1, <2>2 DEF Renews
<1>7. ASSUME NEW t \in Tabs, NEW s \in Ids, TellsToWait(t, s) PROVE RowIsHeld'
  <2>1. OtherCallsStay(t) /\ ~At(t, "rotate")'  BY <1>7 DEF TellsToWait, At
  <2> QED BY <1>1, <1>7, <2>1 DEF TellsToWait
<1>8. ASSUME NEW t \in Tabs, NEW b \in Browsers, Reaches(t, b) PROVE RowIsHeld'
  <2>1. OtherCallsStay(t) /\ ~At(t, "rotate")'  BY <1>8 DEF Reaches, At
  <2> QED BY <1>1, <1>8, <2>1 DEF Reaches
<1>9. ASSUME NEW s \in Ids, GraceLapses(s) PROVE RowIsHeld'
  <2>1. /\ UNCHANGED call
        /\ \A r \in Ids : /\ session'[r].hash = session[r].hash /\ session'[r].prev = session[r].prev
                          /\ session'[r].family = session[r].family
                          /\ session'[r].recent => session[r].recent
    BY <1>9, GraceKeeps
  <2> QED BY <1>0, <2>1 DEF RowIsHeld, At
<1>10. CASE NothingMoves  BY <1>10 DEF NothingMoves, RowIsHeld, At
<1> QED BY <1>2, <1>3, <1>4, <1>5, <1>6, <1>7, <1>8, <1>9, <1>10, Steps

\* What is exchanged is the key of the session.
LEMMA ExchangedIsKey ==
  ASSUME Types, IssuedOnly, RowIsHeld, LegacyHoldTheirOwn,
         NEW t \in Tabs, NEW s \in Ids, Renews(t, s, Len(credential) + 1)
  PROVE  call[t].refresh = Key(s) /\ Key(s) # 0
<1>1. /\ call[t] # NoCall /\ call[t].op = "rotate" /\ call[t].session = s
      /\ Current(call[t].row, call[t].refresh) /\ call[t].refresh \in 1..Len(credential)
  BY DEF Renews
<1>2. call[t].row.hash = session[s].hash  BY <1>1 DEF RowIsHeld, At
<1>3. Presents(t, s, call[t].refresh)  BY <1>1 DEF Presents, At
<1>4. CASE session[s].hash = 0  BY <1>1, <1>3, <1>4 DEF LegacyHoldTheirOwn, Held
<1>5. CASE session[s].hash # 0
  <2>1. call[t].refresh = session[s].hash  BY <1>1, <1>2, <1>5 DEF Current
  <2> QED BY <1>5, <2>1 DEF Key
<1> QED BY <1>1, <1>4, <1>5

\* A credential more, that is from none or from the key of the session that gets it.
LEMMA KeyChanges ==
  ASSUME Types, IssuedOnly, KeysAreUnspent, RotatesOnce, ops' = ops,
         NEW s \in Ids, NEW family, NEW from, Grows(family, from),
         from = 0 \/ from = Key(s),
         session'[s].hash = Len(credential) + 1,
         \A r \in Ids \ {s} : session'[r].hash = session[r].hash
  PROVE  KeysAreUnspent' /\ RotatesOnce'
<1> DEFINE n == Len(credential) + 1
<1>1. /\ n \in Nat /\ n # 0 /\ Len(credential) \in Nat /\ Len(credential') = n
      /\ DOMAIN credential' = 1..n /\ DOMAIN credential = 1..Len(credential)
      /\ \A c \in 1..Len(credential) : credential'[c] = credential[c]
      /\ credential'[n].from = from
  BY DEF Grows
<1>2. Key(s)' = n /\ \A r \in Ids \ {s} : Key(r)' = Key(r)  BY <1>1, KeySteps
<1>3. \A r \in Ids : Key(r) # 0 => Key(r) \in 1..Len(credential) /\ Key(r) # n
  BY <1>1 DEF KeysAreUnspent
<1>4. /\ \A c \in 1..Len(credential) : credential[c].from \in 0..Len(credential)
      /\ \A r \in Ids, c \in 1..Len(credential) : Key(r) # 0 => credential[c].from # Key(r)
      /\ \A r, q \in Ids : r # q /\ Key(r) = Key(q) => Key(r) = 0
  BY <1>1 DEF KeysAreUnspent, Spent
<1>5. from \in 0..Len(credential) /\ from # n  BY <1>1, <1>3
<1> HIDE DEF n
<1>6. \A c \in 1..n : c = n \/ c \in 1..Len(credential)  BY <1>1 DEF n
<1>7. \A c \in 0..Len(credential) : c \in 0..n  BY <1>1 DEF n
<1>8. \A c \in 1..n : credential'[c].from \in 0..n /\ credential'[c].from # n
  BY <1>1, <1>4, <1>5, <1>6, <1>7 DEF n
<1>9. \A r \in Ids \ {s} : Key(r) # 0 => Key(r) \in 1..n /\ \A c \in 1..n : credential'[c].from # Key(r)
  <2> SUFFICES ASSUME NEW r \in Ids \ {s}, Key(r) # 0
               PROVE  Key(r) \in 1..n /\ \A c \in 1..n : credential'[c].from # Key(r)
    OBVIOUS
  <2>1. from # Key(r)  BY <1>4
  <2>2. Key(r) \in 1..n  BY <1>1, <1>3 DEF n
  <2> QED BY <1>1, <1>4, <1>6, <2>1, <2>2
<1>10. \A r, q \in Ids : r # q /\ Key(r)' = Key(q)' => Key(r)' = 0  BY <1>2, <1>3, <1>4
<1>11. KeysAreUnspent'  BY <1>1, <1>2, <1>8, <1>9, <1>10 DEF KeysAreUnspent, Spent
<1>12. RotatesOnce'
  <2> SUFFICES ASSUME NEW c \in 1..n, NEW d \in 1..n, c # d, credential'[c].from # 0,
                      credential'[c].from = credential'[d].from
               PROVE  FALSE
    BY <1>1 DEF RotatesOnce
  <2>1. \A e \in 1..Len(credential) : from # 0 => credential[e].from # from  BY <1>4
  <2>2. CASE c = n \/ d = n  BY <1>1, <1>6, <2>1, <2>2
  <2>3. CASE c # n /\ d # n  BY <1>1, <1>6, <2>3 DEF RotatesOnce
  <2> QED BY <2>2, <2>3
<1> QED BY <1>11, <1>12

LEMMA KeysStep ==
  ASSUME Types, IssuedOnly, RotationInv, [SessionsNext]_sessionVars
  PROVE  KeysAreUnspent' /\ RotatesOnce'
<1>0. ops' = ops /\ KeysAreUnspent /\ RotatesOnce  BY OpsStay DEF RotationInv
<1>1. ASSUME credential' = credential, \A s \in Ids : Key(s)' = Key(s) \/ Key(s)' = 0
      PROVE  KeysAreUnspent' /\ RotatesOnce'
  BY <1>0, <1>1 DEF KeysAreUnspent, Spent, RotatesOnce
<1>2. ASSUME credential' = credential, \A s \in Ids : session'[s].hash = session[s].hash
      PROVE  KeysAreUnspent' /\ RotatesOnce'
  BY <1>0, <1>1, <1>2, KeySteps
<1>3. ASSUME NEW t \in Tabs, Quiet(t) PROVE KeysAreUnspent' /\ RotatesOnce'
  BY <1>2, <1>3 DEF Quiet, RowsShrink
<1>4. ASSUME NEW t \in Tabs, NEW n \in Ids, SignsIn(t, n) PROVE KeysAreUnspent' /\ RotatesOnce'
  <2>1. /\ credential' = credential /\ session'[n].hash = 0 /\ ops \cap {"login", "verify"} # {}
        /\ \A s \in Ids \ {n} : session'[s].hash = session[s].hash
    BY <1>4 DEF SignsIn, Unbound, IssuedOnly, At
  <2> QED BY <1>0, <1>1, <2>1, KeySteps
<1>5. ASSUME NEW t \in Tabs, NEW s \in Ids, Binds(t, s, Len(credential) + 1) PROVE KeysAreUnspent' /\ RotatesOnce'
  <2>1. /\ Grows(Len(credential) + 1, 0) /\ session'[s].hash = Len(credential) + 1
        /\ \A r \in Ids \ {s} : session'[r].hash = session[r].hash
    BY <1>5 DEF Binds, OthersShrink
  <2> QED BY <1>0, <2>1, KeyChanges
<1>6. ASSUME NEW t \in Tabs, NEW s \in Ids, Renews(t, s, Len(credential) + 1) PROVE KeysAreUnspent' /\ RotatesOnce'
  <2>1. /\ Grows(FamilyOf(call[t].row, call[t].refresh), call[t].refresh)
        /\ session'[s].hash = Len(credential) + 1
        /\ \A r \in Ids \ {s} : session'[r].hash = session[r].hash
    BY <1>6 DEF Renews
  <2>2. call[t].refresh = Key(s)  BY <1>6, ExchangedIsKey DEF RotationInv
  <2> QED BY <1>0, <2>1, <2>2, KeyChanges
<1>7. ASSUME \/ \E t \in Tabs : Locks(t)
             \/ \E t \in Tabs, s \in Ids : TellsToWait(t, s)
             \/ \E t \in Tabs, b \in Browsers : Reaches(t, b)
             \/ NothingMoves
      PROVE  UNCHANGED <<session, credential>>
  BY <1>7 DEF Locks, TellsToWait, Reaches, NothingMoves
<1>8. ASSUME NEW s \in Ids, GraceLapses(s) PROVE KeysAreUnspent' /\ RotatesOnce'
  BY <1>2, <1>8, GraceKeeps
<1> QED BY <1>2, <1>3, <1>4, <1>5, <1>6, <1>7, <1>8, Steps

LEMMA HoldersName ==
  ASSUME Types, NEW s \in Ids, NEW c, Held(s, c)
  PROVE  (\E t \in Tabs : Names(t, s)) \/ (\E b \in Browsers : jar[b].session = s)
  BY DEF Held, InJar, Presents, Carries, Names, Acts, Brings, At

LEMMA HeldWereIssued ==
  ASSUME Types, IssuedOnly, NEW s, NEW c, Held(s, c)
  PROVE  c \in 0..Len(credential)
<1>1. Len(credential) \in Nat  BY DEF Types
<1> QED BY <1>1 DEF IssuedOnly, Held, InJar, Presents, Carries, Brings

\* What nobody gets is held as before.
LEMMA HeldStays ==
  ASSUME NEW s, NobodyGets(s)
  PROVE  \A c : Held(s, c)' => Held(s, c)
  BY DEF NobodyGets, Held

LEMMA LegacyStep ==
  ASSUME Types, Types', IssuedOnly, IssuedOnly', NamedExist, RotationInv, [SessionsNext]_sessionVars
  PROVE  LegacyHoldTheirOwn'
<1>0. ops' = ops /\ LegacyHoldTheirOwn /\ RowIsHeld  BY OpsStay DEF RotationInv
<1>1. ASSUME NEW s \in Ids, session'[s].hash = 0, session[s].hash = 0, NobodyGets(s)
      PROVE  /\ \A c \in 1..Len(credential)' : Held(s, c)' => c = Key(s)'
             /\ \A t \in Tabs : ~Carries(t, s, 0)'
  <2>1. Key(s)' = Key(s)  BY <1>0, <1>1, KeySteps
  <2>2. ASSUME NEW c \in 1..Len(credential)', Held(s, c)' PROVE c = Key(s)
    <3>1. Held(s, c)  BY <1>1, <2>2, HeldStays
    <3>2. c \in 0..Len(credential) /\ c # 0  BY <3>1, HeldWereIssued DEF Types
    <3>3. c \in 1..Len(credential)  BY <3>2 DEF Types
    <3> QED BY <1>0, <1>1, <3>1, <3>3 DEF LegacyHoldTheirOwn
  <2>3. \A t \in Tabs : ~Carries(t, s, 0)'  BY <1>0, <1>1 DEF LegacyHoldTheirOwn, NobodyGets
  <2> QED BY <2>1, <2>2, <2>3
<1>2. ASSUME \A s \in Ids : session'[s].hash = session[s].hash /\ NobodyGets(s)
      PROVE  LegacyHoldTheirOwn'
  BY <1>1, <1>2 DEF LegacyHoldTheirOwn
<1>3. ASSUME NEW t \in Tabs, Quiet(t) PROVE LegacyHoldTheirOwn'
  BY <1>2, <1>3, QuietHolds DEF Quiet, RowsShrink
<1>4. ASSUME NEW t \in Tabs, NEW n \in Ids, SignsIn(t, n) PROVE LegacyHoldTheirOwn'
  <2>1. \A s \in Ids : NobodyGets(s)  BY <1>4, SignInHolds
  <2>2. session[n].status = "NONE" /\ \A s \in Ids \ {n} : session'[s] = session[s]  BY <1>4 DEF SignsIn
  <2>3. \A c : ~Held(n, c)  BY <2>2, HoldersName DEF NamedExist
  <2>4. (\A c : ~Held(n, c)') /\ \A u \in Tabs : ~Carries(u, n, 0)'
    <3>1. \A c : ~Held(n, c)'  BY <2>1, <2>3, HeldStays
    <3>2. \A u \in Tabs : ~Carries(u, n, 0)  BY <2>3 DEF Held
    <3> QED BY <2>1, <3>1, <3>2 DEF NobodyGets
  <2>5. ASSUME NEW s \in Ids, session'[s].hash = 0
        PROVE  /\ \A c \in 1..Len(credential)' : Held(s, c)' => c = Key(s)'
               /\ \A u \in Tabs : ~Carries(u, s, 0)'
    <3>1. CASE s = n  BY <2>4, <3>1
    <3>2. CASE s # n  BY <1>1, <2>1, <2>2, <2>5, <3>2
    <3> QED BY <3>1, <3>2
  <2> QED BY <2>5 DEF LegacyHoldTheirOwn
<1>5. ASSUME NEW t \in Tabs, NEW s \in Ids,
             Binds(t, s, Len(credential) + 1) \/ Renews(t, s, Len(credential) + 1) \/ TellsToWait(t, s)
      PROVE  LegacyHoldTheirOwn'
  <2>1. session'[s].hash # 0
    <3>1. Len(credential) + 1 # 0  BY DEF Types
    <3>2. CASE Binds(t, s, Len(credential) + 1) \/ Renews(t, s, Len(credential) + 1)
      BY <3>1, <3>2 DEF Binds, Renews
    <3>3. CASE TellsToWait(t, s)
      <4>1. call[t] # NoCall /\ call[t].op = "rotate" /\ call[t].session = s /\ session' = session /\ call[t].row.hash # 0
        BY <3>3 DEF TellsToWait, Current
      <4> QED BY <1>0, <4>1 DEF RowIsHeld, At
    <3> QED BY <1>5, <3>2, <3>3
  <2>2. \A r \in Ids \ {s} : session'[r].hash = session[r].hash /\ NobodyGets(r)
    BY <1>5, OtherHolds DEF Binds, Renews, TellsToWait, OthersShrink
  <2>3. \A r \in Ids : session'[r].hash = 0 => r # s /\ session[r].hash = 0 /\ NobodyGets(r)
    BY <2>1, <2>2
  <2> QED BY <1>1, <2>3 DEF LegacyHoldTheirOwn
<1>6. ASSUME NEW t \in Tabs, Locks(t) PROVE LegacyHoldTheirOwn'  BY <1>2, <1>6, LockHolds DEF Locks
<1>7. ASSUME NEW t \in Tabs, NEW b \in Browsers, Reaches(t, b) PROVE LegacyHoldTheirOwn'
  <2>1. session' = session /\ credential' = credential  BY <1>7 DEF Reaches
  <2>2. ASSUME NEW s \in Ids, session[s].hash = 0
        PROVE  /\ \A c \in 1..Len(credential) : Held(s, c)' => c = Key(s)
               /\ \A u \in Tabs : ~Carries(u, s, 0)'
    <3>1. \A u \in Tabs : ~Carries(u, s, 0)  BY <1>0, <2>2 DEF LegacyHoldTheirOwn
    <3>2. \A c : Held(s, c)' => Held(s, c)  BY <1>7, <3>1, ReachHolds DEF Held
    <3>3. \A u \in Tabs : ~Carries(u, s, 0)'  BY <1>7, <3>1, ReachHolds
    <3> QED BY <1>0, <2>2, <3>2, <3>3 DEF LegacyHoldTheirOwn
  <2>3. \A s \in Ids : Key(s)' = Key(s)  BY <1>0, <2>1, KeySteps
  <2> QED BY <2>1, <2>2, <2>3 DEF LegacyHoldTheirOwn
<1>8. ASSUME NEW s \in Ids, GraceLapses(s) PROVE LegacyHoldTheirOwn'
  BY <1>2, <1>8, GraceKeeps, SameHolds
<1>9. CASE NothingMoves  BY <1>2, <1>9, SameHolds DEF NothingMoves
<1> QED BY <1>3, <1>4, <1>5, <1>6, <1>7, <1>8, <1>9, Steps

LEMMA RotationInvInit == InitSessions => RotationInv
<1> SUFFICES ASSUME InitSessions PROVE RotationInv
  OBVIOUS
<1>1. \A t \in Tabs : call[t] = NoCall  BY DEF InitSessions
<1>2. RowIsHeld /\ \A t \in Tabs : \A s, c : ~Presents(t, s, c) /\ ~Carries(t, s, c)
  BY <1>1 DEF RowIsHeld, Presents, Carries, Brings, At
<1>3. CASE ops \cap {"login", "verify"} # {}
  <2>1. credential = <<>> /\ \A s \in Ids : Key(s) = 0  BY <1>3 DEF InitSessions, Key, NoRow
  <2>2. DOMAIN credential = {}  BY <2>1
  <2>3. KeysAreUnspent /\ RotatesOnce  BY <2>1, <2>2 DEF KeysAreUnspent, RotatesOnce
  <2>4. \A s \in Ids, b \in Browsers : jar[b].session # s
    BY <1>3, BrowsersAreNumbers DEF InitSessions, Empty
  <2>5. LegacyHoldTheirOwn  BY <1>2, <2>4 DEF LegacyHoldTheirOwn, Held, InJar
  <2> QED BY <1>2, <2>3, <2>5 DEF RotationInv
<1>4. CASE ops \cap {"login", "verify"} = {}
  <2> DEFINE n == Cardinality(Using)
  <2>1. /\ n \in Nat /\ Using = 1..n /\ Len(credential) = n
        /\ credential = [c \in 1..n |-> [family |-> Stored(c), from |-> 0]]
    BY <1>4, InUseAreCounted
  <2> HIDE DEF n
  <2>2. DOMAIN credential = 1..n /\ \A c \in 1..n : credential[c].from = 0  BY <2>1
  <2>3. \A s \in Ids : s # 0 /\ Stored(s) \in {0, s}  BY BrowsersAreNumbers DEF Stored
  <2>4. ASSUME NEW s \in Ids
        PROVE  Key(s) = IF s \in Using THEN s ELSE 0
    <3>1. CASE s \in Using  BY <1>4, <2>3, <3>1, InitialRows DEF Key
    <3>2. CASE s \notin Using  BY <1>4, <3>2, InitialRows DEF Key
    <3> QED BY <3>1, <3>2
  <2>5. KeysAreUnspent
    <3>1. \A c \in DOMAIN credential : credential[c].from \in 0..Len(credential)  BY <2>1, <2>2
    <3>2. \A s \in Ids : Key(s) # 0 => Key(s) \in 1..Len(credential) /\ ~Spent(Key(s))
      BY <2>1, <2>2, <2>4 DEF Spent
    <3>3. \A s, r \in Ids : s # r /\ Key(s) = Key(r) => Key(s) = 0  BY <2>4
    <3> QED BY <3>1, <3>2, <3>3 DEF KeysAreUnspent
  <2>6. RotatesOnce  BY <2>2 DEF RotatesOnce
  <2>7. \A s \in Ids, b \in Browsers : \A c : InJar(b, s, c) => c = Key(s)
    <3>1. \A b \in Browsers : IF b \in Using THEN jar[b].session = b /\ jar[b].refresh = b
                              ELSE jar[b].session = 0 /\ jar[b].refresh = 0
      BY <1>4, InitialRows
    <3> QED BY <2>3, <2>4, <3>1, BrowsersAreNumbers DEF InJar
  <2>8. LegacyHoldTheirOwn  BY <1>2, <2>7 DEF LegacyHoldTheirOwn, Held
  <2> QED BY <1>2, <2>5, <2>6, <2>8 DEF RotationInv
<1> QED BY <1>3, <1>4

LEMMA RotationInvariant == InitSessions /\ [][SessionsNext]_sessionVars => []RotationInv
<1>1. TypeInv /\ TypeInv' /\ SignInInv /\ RotationInv /\ [SessionsNext]_sessionVars => RotationInv'
  <2> SUFFICES ASSUME TypeInv, TypeInv', SignInInv, RotationInv, [SessionsNext]_sessionVars
               PROVE  RotationInv'
    OBVIOUS
  <2>1. RowIsHeld'  BY RowIsHeldStep DEF TypeInv, SignInInv, RotationInv
  <2>2. KeysAreUnspent' /\ RotatesOnce'  BY KeysStep DEF TypeInv
  <2>3. LegacyHoldTheirOwn'  BY LegacyStep DEF TypeInv, SignInInv
  <2> QED BY <2>1, <2>2, <2>3 DEF RotationInv
<1> QED BY <1>1, RotationInvInit, TypeInvariant, SignInInvariant, PTL

------------------------
(* The grace *)

LEMMA VerifiedStays ==
  ASSUME Types, [SessionsNext]_sessionVars, account.verified
  PROVE  account'.verified
<1>0. account \in AccountRow  BY DEF Types
<1>1. ASSUME NEW t \in Tabs, Start(t) PROVE account'.verified
  <2>1. ASSUME NEW b \in Using, SignIn(t, b) \/ StartRefresh(t, b) \/ StartLogout(t, b)
                                \/ RevokeOtherSessions(t, b) \/ StartRequest(t, b)
        PROVE  account' = account
    BY <2>1 DEF SignIn, StartRefresh, StartLogout, RevokeOtherSessions, StartRequest
  <2>2. ASSUME NEW b \in Using, NEW s \in Ids, DeleteMySession(t, b, s) PROVE account' = account
    BY <2>2 DEF DeleteMySession
  <2>3. ASSUME NEW b \in Using, VerifyEmail(t, b) PROVE account'.verified
    BY <1>0, <2>3 DEF VerifyEmail, AccountRow
  <2>4. ASSUME NEW b \in Using, ChangePassword(t, b) PROVE account'.verified = account.verified
    BY <1>0, <2>4 DEF ChangePassword, AccountRow
  <2>5. ASSUME NEW b \in Using \cup {0}, SetPassword(t, b) PROVE account'.verified = account.verified
    BY <1>0, <2>5 DEF SetPassword, AccountRow
  <2>6. ASSUME NEW v \in {"ACTIVE", "SUSPENDED"}, SetTenant(t, v) PROVE account'.verified = account.verified
    BY <1>0, <2>6 DEF SetTenant, AccountRow
  <2>7. ASSUME NEW v \in {"ACTIVE", "SUSPENDED"}, SetStatus(t, v) PROVE account'.verified = account.verified
    BY <1>0, <2>7 DEF SetStatus, AccountRow
  <2> QED BY <1>1, <2>1, <2>2, <2>3, <2>4, <2>5, <2>6, <2>7 DEF Start
<1>2. ASSUME NEW t \in Tabs, Proceed(t) \/ LoseAnswer(t) \/ Die(t) PROVE account'.verified
  <2>1. Activate(t) => account'.verified = account.verified  BY <1>0 DEF Activate, AccountRow
  <2>2. Proceed(t) \/ LoseAnswer(t) \/ Die(t) => Activate(t) \/ account' = account
    BY DEF Proceed, CreateSession, Validate, Bind, LockSession, Rotate, Logout, FindSessions, RevokeAllSessions,
           RevokeOthersOnChange, Invalidate, Arrive, Look, Fill, Admit, LoseAnswer, Die
  <2> QED BY <1>2, <2>1, <2>2
<1>3. ASSUME NEW s \in Ids, GraceLapses(s) PROVE account' = account  BY <1>3 DEF GraceLapses
<1>4. ASSUME NEW k \in Keys, Expire(k) PROVE account' = account  BY <1>4 DEF Expire
<1>5. CASE UNCHANGED sessionVars  BY <1>5 DEF sessionVars
<1> QED BY <1>1, <1>2, <1>3, <1>4, <1>5 DEF SessionsNext

\* A row that no step touches, whose credentials nobody gets but from a browser that has
\* found its access token expired.
LEMMA FineStays ==
  ASSUME Types, IssuedOnly, ops' = ops, NEW s \in Ids, Fine(s), NobodyGets(s),
         session'[s].hash = session[s].hash, session'[s].prev = session[s].prev,
         session'[s].family = session[s].family, session'[s].recent = session[s].recent,
         session'[s].status # "REUSED",
         \A c \in 1..Len(credential) : credential'[c] = credential[c],
         Len(credential') \in Nat,
         \A u \in Tabs : \A c : Presents(u, s, c)' =>
            \/ Presents(u, s, c)
            \/ \E b \in Browsers : InJar(b, s, c) /\ (session[s].recent => c # session[s].hash)
  PROVE  Fine(s)'
<1>0. Len(credential) \in Nat  BY DEF Types
<1>1. Key(s)' = Key(s)  BY KeySteps
<1>2. ASSUME NEW c \in 1..Len(credential)', Held(s, c)'
      PROVE  Held(s, c) /\ c \in 1..Len(credential)
  <2>1. Held(s, c)  BY <1>2, HeldStays
  <2>2. c \in 0..Len(credential)  BY <2>1, HeldWereIssued
  <2>3. c # 0  BY <1>2
  <2> QED BY <1>0, <2>1, <2>2, <2>3
<1>3. ASSUME NEW c \in 1..Len(credential)', NEW t \in Tabs, Carries(t, s, c)'
      PROVE  /\ c = Key(s)'
             /\ \A b \in Browsers : ~InJar(b, s, c)'
             /\ \A u \in Tabs \ {t} : ~Carries(u, s, c)' /\ ~Presents(u, s, c)'
  <2>1. Carries(t, s, c)  BY <1>3 DEF NobodyGets
  <2>2. c \in 1..Len(credential)  BY <1>2, <1>3 DEF Held
  <2>3. /\ c = Key(s)
        /\ \A b \in Browsers : ~InJar(b, s, c)
        /\ \A u \in Tabs \ {t} : ~Carries(u, s, c) /\ ~Presents(u, s, c)
    BY <2>1, <2>2 DEF Fine, NewsIsNew
  <2> QED BY <1>1, <2>3 DEF NobodyGets
<1>4. NewsIsNew(s)'  BY <1>3 DEF NewsIsNew
<1>5. HeldIsFine(s)'  BY <1>1, <1>2 DEF Fine, HeldIsFine
<1>6. ASSUME NEW t \in Tabs, Presents(t, s, Key(s))' PROVE ~session[s].recent
  <2>0. PICK c : c = Key(s)  OBVIOUS
  <2>1. Presents(t, s, c)'  BY <1>1, <1>6, <2>0 DEF Presents
  <2>2. session[s].recent => c = session[s].hash  BY <2>0 DEF Fine, Key
  <2>3. CASE Presents(t, s, c)  BY <2>0, <2>3 DEF Fine, NothingOlder
  <2>4. CASE ~Presents(t, s, c)  BY <2>1, <2>2, <2>4
  <2> QED BY <2>3, <2>4
<1>7. NothingOlder(s)'  BY <1>6 DEF NothingOlder
<1> QED BY <1>4, <1>5, <1>7 DEF Fine

LEMMA CreatesStay ==
  ASSUME NEW t \in Tabs, OtherCallsStay(t), ~Signs(t)'
  PROVE  \A u \in Tabs : At(u, "create")' => At(u, "create")
  BY StayingCalls DEF Signs

LEMMA OnlyOneStays ==
  ASSUME OnlyOne, ops' = ops, account.verified => account'.verified,
         \A s \in Ids : session'[s].status # "NONE" => session[s].status # "NONE",
         \A u \in Tabs : At(u, "create")' => At(u, "create") \/ Verifies,
         "verify" \in ops /\ (~account.verified \/ \E u \in Tabs : At(u, "create"))
            => Len(credential)' = Len(credential)
  PROVE  OnlyOne'
  BY DEF OnlyOne, Verifies

\* What is rotated is never found old: it is current, or within its grace.
LEMMA NothingIsReused ==
  ASSUME Types, IssuedOnly, RowIsHeld, NEW t \in Tabs, At(t, "rotate"), \A s \in Ids : Fine(s)
  PROVE  ~Revokes(t)
<1> DEFINE s == call[t].session
           c == call[t].refresh
           row == call[t].row
<1>1. s \in Ids /\ c \in 1..Len(credential)  BY TypeFacts, CallFields DEF At, IssuedOnly
<1>2. /\ row.hash = session[s].hash /\ row.prev = session[s].prev /\ row.family = session[s].family
      /\ session[s].recent => row.recent
  BY DEF RowIsHeld
<1>3. Held(s, c)  BY DEF Held, Presents
<1> HIDE DEF s, c, row
<1>4. /\ c = Key(s) \/ (session[s].prev = c /\ session[s].recent)
      /\ credential[c].family \in {0, session[s].family}
  BY <1>1, <1>3 DEF Fine, HeldIsFine
<1>5. ~FamilyMismatch(row, c)  BY <1>2, <1>4 DEF FamilyMismatch
<1>6. Current(row, c) \/ WithinGrace(row, c)  BY <1>2, <1>4 DEF Current, WithinGrace, Key
<1> QED BY <1>5, <1>6 DEF Revokes, s, c, row

\* The jars and the calls of others stay; the call of t names no other session than before.
LEMMA HisOwnStays ==
  ASSUME ToEachHisOwn, ops' = ops, jar' = jar, NEW t \in Tabs, OtherCallsStay(t),
         "verify" \notin ops =>
            /\ At(t, "refresh")' \/ At(t, "rotate")' => call'[t].session = call'[t].browser
            /\ At(t, "answer")' \/ (At(t, "invalidate")' /\ call'[t].browser # 0)
                => call'[t].jar.session \in {0, call'[t].browser}
  PROVE  ToEachHisOwn'
<1>1. \A u \in Tabs \ {t} : call'[u] = call[u] /\ \A op : At(u, op)' <=> At(u, op)  BY StayingCalls
<1> QED BY <1>1 DEF ToEachHisOwn

LEMMA PairedStays ==
  ASSUME Paired, jar' = jar, NEW t \in Tabs, OtherCallsStay(t),
         Brings(t)' /\ call'[t].jar.session = 0 => call'[t].jar.refresh = 0
  PROVE  Paired'
<1>1. \A u \in Tabs \ {t} : call'[u] = call[u] /\ (Brings(u)' <=> Brings(u))  BY StayingCalls
<1> QED BY <1>1 DEF Paired

LEMMA SignsStay ==
  ASSUME SignsAlone, ops' = ops, NEW t \in Tabs, OtherCallsStay(t), Signs(t)' => Signs(t),
         Len(credential)' = Len(credential) \/ \A u \in Tabs \ {t} : ~Signs(u)
  PROVE  SignsAlone' \/ Signs(t)'
<1>1. \A u \in Tabs \ {t} : Signs(u)' <=> Signs(u)  BY StayingCalls DEF Signs
<1> QED BY <1>1 DEF SignsAlone

\* Nobody signs in before the address is verified.
LEMMA NobodySigns ==
  ASSUME Types, NamedExist, OnlyOne, "verify" \in ops, ~account.verified
  PROVE  (\A u \in Tabs : ~Signs(u)) /\ Len(credential) = 0
<1>1. (\A s \in Ids : session[s].status = "NONE") /\ Len(credential) = 0 /\ \A u \in Tabs : ~At(u, "create")
  BY DEF OnlyOne
<1>2. ASSUME NEW u \in Tabs, Signs(u) PROVE FALSE
  <2>1. call[u] # NoCall /\ call[u].op \in {"validate", "activate", "bind", "others"}
    BY <1>1, <1>2 DEF Signs, At
  <2>2. call[u].session \in Ids  BY <2>1, TypeFacts, CallFields
  <2>3. Names(u, call[u].session)  BY <2>1, <2>2 DEF Names, Acts, At
  <2> QED BY <1>1, <2>2, <2>3 DEF NamedExist
<1> QED BY <1>1, <1>2

LEMMA GraceQuiet ==
  ASSUME TypeInv, NamedExist, RotationInv, Undisturbed, GraceParts, account.verified => account'.verified,
         NEW t \in Tabs, Quiet(t)
  PROVE  GraceParts'
<1>0. /\ OtherCallsStay(t) /\ QuietCall(t) /\ UNCHANGED <<jar, credential, ops>> /\ RowsShrink
      /\ Types /\ IssuedOnly /\ RowIsHeld /\ "change" \notin ops /\ "slow" \notin ops /\ "login" \notin ops
      /\ SignsAlone /\ OnlyOne /\ ToEachHisOwn /\ Paired /\ \A s \in Ids : Fine(s)
  BY DEF Quiet, OtherCallsStay, TypeInv, RotationInv, Undisturbed, GraceParts
<1>1. NoneReused  BY <1>0, NothingIsReused DEF Quiet
<1>2. SignsAlone'
  <2>0. \A u \in Tabs \ {t} : Signs(u)' => Signs(u)  BY <1>0, StayingCalls DEF Signs
  <2>1. CASE At(t, "create")'
    <3>1. "verify" \in ops /\ ~account.verified  BY <1>0, <2>1 DEF QuietCall, Verifies
    <3>2. (\A u \in Tabs : ~Signs(u)) /\ Len(credential) = 0  BY <1>0, <3>1, NobodySigns
    <3> QED BY <1>0, <2>0, <3>1, <3>2 DEF SignsAlone
  <2>2. CASE ~At(t, "create")'
    <3>1. Signs(t)' => Signs(t)  BY <1>0, <2>2 DEF QuietCall
    <3> QED BY <1>0, <2>0, <3>1 DEF SignsAlone
  <2> QED BY <2>1, <2>2
<1>3. OnlyOne'
  <2>1. \A u \in Tabs : At(u, "create")' => At(u, "create") \/ Verifies
    BY <1>0, StayingCalls DEF QuietCall
  <2> QED BY <1>0, <2>1, OnlyOneStays DEF RowsShrink
<1>4. ToEachHisOwn'
  <2> SUFFICES ASSUME "verify" \notin ops
               PROVE  /\ At(t, "refresh")' \/ At(t, "rotate")' => call'[t].session = call'[t].browser
                      /\ At(t, "answer")' \/ (At(t, "invalidate")' /\ call'[t].browser # 0)
                          => call'[t].jar.session \in {0, call'[t].browser}
    BY <1>0, HisOwnStays
  <2>1. At(t, "refresh")' \/ At(t, "rotate")' => call'[t].session = call'[t].browser
    BY <1>0 DEF QuietCall, ToEachHisOwn
  <2>2. ASSUME Brings(t)' PROVE call'[t].jar.session \in {0, call'[t].browser}
    <3>1. CASE call'[t].jar = Empty  BY <3>1 DEF Empty
    <3>2. CASE Brings(t) /\ call'[t].jar = call[t].jar /\ call'[t].browser = call[t].browser /\ call[t].browser # 0
      BY <1>0, <3>2 DEF ToEachHisOwn, Brings
    <3> QED BY <1>0, <2>2, <3>1, <3>2 DEF QuietCall
  <2> QED BY <2>1, <2>2 DEF Brings
<1>5. Paired'
  <2>1. Brings(t)' /\ call'[t].jar.session = 0 => call'[t].jar.refresh = 0
    BY <1>0 DEF QuietCall, Paired, Empty
  <2> QED BY <1>0, <2>1, PairedStays
<1>6. ASSUME NEW s \in Ids PROVE Fine(s)'
  <2>1. ASSUME NEW u \in Tabs, NEW c, Presents(u, s, c)'
        PROVE  \/ Presents(u, s, c)
               \/ \E b \in Browsers : InJar(b, s, c) /\ (session[s].recent => c # session[s].hash)
    <3>1. CASE u # t  BY <1>0, <2>1, <3>1, StayingHolds
    <3>2. CASE u = t
      <4>1. At(t, "refresh")' /\ call'[t].session = s /\ call'[t].refresh = c
        BY <1>0, <2>1, <3>2 DEF Presents, QuietCall
      <4>2. PICK b \in Browsers : /\ call'[t].session = jar[b].session /\ call'[t].refresh = jar[b].refresh
                                  /\ Expired(b)
        BY <1>0, <4>1 DEF QuietCall
      <4> QED BY <1>0, <4>1, <4>2 DEF InJar, Expired
    <3> QED BY <3>1, <3>2
  <2>2. NobodyGets(s)  BY <1>0, QuietHolds
  <2>3. session'[s].status # "REUSED"  BY <1>0, <1>1 DEF NoneReused, Fine
  <2>4. Len(credential') \in Nat  BY <1>0 DEF Types
  <2> QED BY <1>0, <2>1, <2>2, <2>3, <2>4, FineStays DEF RowsShrink
<1> QED BY <1>2, <1>3, <1>4, <1>5, <1>6 DEF GraceParts

GraceFacts ==
    /\ Types /\ Types' /\ IssuedOnly /\ NamedExist /\ RowIsHeld /\ KeysAreUnspent /\ LegacyHoldTheirOwn
    /\ "login" \notin ops /\ "change" \notin ops /\ "slow" \notin ops
    /\ SignsAlone /\ OnlyOne /\ ToEachHisOwn /\ Paired /\ \A s \in Ids : Fine(s)

\* Who signs in while it is all undisturbed verifies the address: there was no session.
LEMMA GraceSignIn ==
  ASSUME GraceFacts, NEW t \in Tabs, NEW n \in Ids, SignsIn(t, n)
  PROVE  GraceParts'
<1>0. /\ OtherCallsStay(t) /\ UNCHANGED <<account, jar, credential, ops>> /\ At(t, "create")
      /\ call'[t].op \in {"validate", "activate"} /\ ~At(t, "create")'
      /\ session'[n] = Unbound(call[t]) /\ \A s \in Ids \ {n} : session'[s] = session[s]
  BY DEF SignsIn, At
<1>s. "verify" \in ops /\ Len(credential) = 0 /\ \A u \in Tabs \ {t} : ~Signs(u)
  BY <1>0 DEF GraceFacts, SignsAlone, Signs
<1>1. (\A s \in Ids : session[s].status = "NONE") /\ Len(credential)' = 0 /\ account.verified
  BY <1>0, <1>s DEF GraceFacts, OnlyOne
<1>3a. \A u \in Tabs \ {t} : ~Signs(u)'  BY <1>0, <1>s, StayingCalls DEF Signs
<1>2. SignsAlone'  BY <1>0, <1>1, <1>s, <1>3a DEF SignsAlone
<1>3. OnlyOne'
  <2>1. \A s \in Ids : session'[s].status # "NONE" => s = n  BY <1>0, <1>1
  <2>2. \A u \in Tabs : ~At(u, "create")'  BY <1>0, <1>3a DEF Signs
  <2> QED BY <1>0, <1>1, <2>1, <2>2 DEF OnlyOne
<1>4. ToEachHisOwn'  BY <1>0, <1>s DEF ToEachHisOwn
<1>5. Paired'
  <2>1. ~Brings(t)'  BY <1>0 DEF Brings, At
  <2> QED BY <1>0, <2>1, PairedStays DEF GraceFacts
<1>6. ASSUME NEW s \in Ids PROVE Fine(s)'
  <2>1. \A c : ~Held(s, c)  BY <1>1, HoldersName DEF NamedExist, GraceFacts
  <2>2. \A c : ~Held(s, c)'  BY <2>1, SignInHolds, HeldStays DEF GraceFacts
  <2>3. (\A u \in Tabs : \A c : ~Carries(u, s, c)') /\ (\A u \in Tabs : ~Presents(u, s, Key(s))')
    BY <2>2 DEF Held, Presents
  <2>4. session'[s].status # "REUSED" /\ (session'[s].recent => session'[s].hash # 0)
    <3>1. CASE s = n  BY <1>0, <3>1 DEF Unbound
    <3>2. CASE s # n  BY <1>0, <3>2 DEF GraceFacts, Fine
    <3> QED BY <3>1, <3>2
  <2> QED BY <2>2, <2>3, <2>4 DEF Fine, NewsIsNew, HeldIsFine, NothingOlder
<1> QED BY <1>2, <1>3, <1>4, <1>5, <1>6 DEF GraceParts

\* Other sessions do not notice.
LEMMA OthersStayFine ==
  ASSUME GraceFacts, NEW t \in Tabs, NEW s \in Ids, NEW r \in Ids \ {s},
         Binds(t, s, Len(credential) + 1) \/ Renews(t, s, Len(credential) + 1) \/ TellsToWait(t, s)
  PROVE  Fine(r)'
<1>1. /\ OtherCallsStay(t) /\ UNCHANGED <<jar, ops>> /\ call'[t].op \in {"invalidate", "answer"}
      /\ session'[r].hash = session[r].hash /\ session'[r].prev = session[r].prev
      /\ session'[r].family = session[r].family /\ session'[r].recent = session[r].recent
      /\ session'[r].status = session[r].status \/ session'[r].status = "GONE"
  BY DEF Binds, Renews, TellsToWait, OthersShrink
<1>2. \A c \in 1..Len(credential) : credential'[c] = credential[c]
  BY DEF Binds, Renews, TellsToWait, Grows
<1>3. Len(credential') \in Nat  BY DEF GraceFacts, Types
<1>4. \A u \in Tabs : \A c : Presents(u, r, c)' => Presents(u, r, c)
  <2>1. \A c : ~Presents(t, r, c)'  BY <1>1 DEF Presents, At
  <2> QED BY <1>1, <2>1, StayingHolds
<1>5. NobodyGets(r)  BY OtherHolds DEF GraceFacts
<1>6. session'[r].status # "REUSED"  BY <1>1 DEF GraceFacts, Fine
<1> QED BY <1>1, <1>2, <1>3, <1>4, <1>5, <1>6, FineStays DEF GraceFacts

\* The first credential of a session: there was none.
LEMMA GraceBind ==
  ASSUME GraceFacts, NEW t \in Tabs, NEW s \in Ids, Binds(t, s, Len(credential) + 1)
  PROVE  GraceParts'
<1>0. /\ OtherCallsStay(t) /\ UNCHANGED <<account, jar, ops>> /\ Signs(t) /\ ~Signs(t)'
      /\ call'[t].op = "invalidate" /\ call'[t].jar.session = s /\ s # 0
      /\ call'[t].jar.refresh = Len(credential) + 1
      /\ session[s].status = "OPEN"
      /\ session'[s].status = "OPEN" /\ session'[s].hash = Len(credential) + 1 /\ ~session'[s].recent
      /\ session'[s].family = Len(credential) + 1
      /\ \A r \in Ids \ {s} : session'[r].status = session[r].status \/ session[r].status = "OPEN"
      /\ credential'[Len(credential) + 1].family = Len(credential) + 1
      /\ Len(credential') = Len(credential) + 1
  BY BrowsersAreNumbers DEF Binds, Signs, At, OthersShrink, Grows
<1>1. "verify" \in ops /\ Len(credential) = 0 /\ \A u \in Tabs \ {t} : ~Signs(u)
  BY <1>0 DEF GraceFacts, SignsAlone
<1>2. SignsAlone'  BY <1>0, <1>1, SignsStay DEF GraceFacts
<1>3. OnlyOne'
  <2>1. account.verified /\ \A u \in Tabs : ~At(u, "create")  BY <1>0, <1>1 DEF GraceFacts, OnlyOne
  <2> QED BY <1>0, <2>1, OnlyOneStays, CreatesStay DEF GraceFacts
<1>4. ToEachHisOwn'  BY <1>0, <1>1 DEF ToEachHisOwn
<1>5. Paired'  BY <1>0, PairedStays DEF GraceFacts
<1>6. Fine(s)'
  <2>1. Key(s)' = 1 /\ session'[s].hash = 1 /\ Len(credential)' = 1  BY <1>0, <1>1, KeySteps
  <2>2. ASSUME NEW u \in Tabs, NEW c \in 1..1
        PROVE  /\ ~Presents(u, s, c)' /\ (Carries(u, s, c)' => u = t)
    <3>1. \A d : Held(s, d) => d \in 0..0  BY <1>1, HeldWereIssued DEF GraceFacts
    <3>2. ~Held(s, c) /\ c = 1  BY <3>1
    <3>3. CASE u = t  BY <1>0, <3>3 DEF Presents, At
    <3>4. CASE u # t  BY <1>0, <3>2, <3>4, StayingHolds DEF Held
    <3> QED BY <3>3, <3>4
  <2>3. ASSUME NEW b \in Browsers, NEW c \in 1..1 PROVE ~InJar(b, s, c)'
    <3>1. \A d : Held(s, d) => d \in 0..0  BY <1>1, HeldWereIssued DEF GraceFacts
    <3>2. ~Held(s, c)  BY <3>1
    <3> QED BY <1>0, <3>2 DEF Held, InJar
  <2>4. NewsIsNew(s)'  BY <2>1, <2>2, <2>3 DEF NewsIsNew
  <2>5. HeldIsFine(s)'  BY <1>0, <1>1, <2>1 DEF HeldIsFine
  <2>6. NothingOlder(s)'  BY <1>0 DEF NothingOlder
  <2> QED BY <1>0, <2>4, <2>5, <2>6 DEF Fine
<1>7. \A r \in Ids \ {s} : Fine(r)'  BY OthersStayFine
<1> QED BY <1>2, <1>3, <1>4, <1>5, <1>6, <1>7 DEF GraceParts

\* One credential for another: what was the current one is the one before it.
LEMMA GraceRenew ==
  ASSUME GraceFacts, NEW t \in Tabs, NEW s \in Ids, Renews(t, s, Len(credential) + 1)
  PROVE  GraceParts'
<1>n. PICK n, p, f : n = Len(credential) + 1 /\ p = call[t].refresh
                     /\ f = FamilyOf(call[t].row, call[t].refresh)
  OBVIOUS
<1>0. /\ OtherCallsStay(t) /\ UNCHANGED <<account, jar, ops>> /\ ~Signs(t)'
      /\ At(t, "rotate") /\ call[t].session = s /\ s # 0 /\ p \in 1..Len(credential)
      /\ call'[t].op = "answer" /\ call'[t].browser = call[t].browser
      /\ call'[t].jar.session = s /\ call'[t].jar.refresh = n
      /\ session'[s].status = session[s].status /\ session'[s].hash = n /\ session'[s].prev = p
      /\ session'[s].family = f /\ f # 0 /\ session'[s].recent
      /\ \A r \in Ids \ {s} : session'[r] = session[r]
      /\ \A c \in 1..Len(credential) : credential'[c] = credential[c]
      /\ credential'[n].family = f /\ Len(credential') = n
  BY <1>n, BrowsersAreNumbers DEF Renews, Signs, At, Grows
<1>1. Len(credential) \in Nat /\ n \in Nat /\ n # 0 /\ n \notin 1..Len(credential)
      /\ \A c \in 1..n : c = n \/ c \in 1..Len(credential)
  BY <1>n DEF GraceFacts, Types
<1>2. p = Key(s) /\ Key(s) # 0  BY <1>n, ExchangedIsKey DEF GraceFacts
<1>3. SignsAlone'
  <2>1. \A u \in Tabs : ~Signs(u)  BY <1>0, <1>1 DEF GraceFacts, SignsAlone
  <2> QED BY <1>0, <2>1, SignsStay DEF GraceFacts
<1>4. session[s].status # "NONE"
  <2>1. Names(t, s)  BY <1>0 DEF Names, Acts
  <2> QED BY <2>1 DEF GraceFacts, NamedExist
<1>5. OnlyOne'
  <2>1. "verify" \in ops => account.verified /\ \A u \in Tabs : ~At(u, "create")
    BY <1>4 DEF GraceFacts, OnlyOne
  <2> QED BY <1>0, <2>1, OnlyOneStays, CreatesStay DEF GraceFacts
<1>6. ToEachHisOwn'
  <2>1. "verify" \notin ops => call[t].browser = s  BY <1>0 DEF GraceFacts, ToEachHisOwn
  <2>2. ~At(t, "refresh")' /\ ~At(t, "rotate")' /\ call'[t].jar.session = s /\ call'[t].browser = call[t].browser
    BY <1>0 DEF At
  <2> QED BY <1>0, <2>1, <2>2, HisOwnStays DEF GraceFacts
<1>7. Paired'  BY <1>0, PairedStays DEF GraceFacts
<1>8. ~session[s].recent
  <2>1. Presents(t, s, p)  BY <1>0, <1>n DEF Presents
  <2> QED BY <1>2, <2>1 DEF GraceFacts, Fine, NothingOlder
<1>9. call[t].row.family = session[s].family  BY <1>0 DEF GraceFacts, RowIsHeld
<1>10. Key(s)' = n  BY <1>0, <1>1, KeySteps
<1>11. \A c : Held(s, c) => c \in 0..Len(credential) /\ c # n
  <2>1. \A c : Held(s, c) => c \in 0..Len(credential)  BY HeldWereIssued DEF GraceFacts
  <2> QED BY <1>1, <2>1
<1>12. \A u \in Tabs \ {t} : \A c : (Presents(u, s, c)' <=> Presents(u, s, c)) /\ (Carries(u, s, c)' <=> Carries(u, s, c))
  BY <1>0, StayingHolds
<1>13. \A c : ~Presents(t, s, c)' /\ (Carries(t, s, c)' => c = n)
  BY <1>0 DEF Presents, Carries, Brings, At
<1>14. \A b \in Browsers : \A c : InJar(b, s, c)' <=> InJar(b, s, c)
  BY <1>0 DEF InJar
\* Nobody else is on the way with a credential: the one that is exchanged had arrived.
<1>15. \A u \in Tabs \ {t}, c \in 1..n : ~Carries(u, s, c)'
  <2> SUFFICES ASSUME NEW u \in Tabs \ {t}, NEW c \in 1..n, Carries(u, s, c) PROVE FALSE
    BY <1>12
  <2>1. c \in 1..Len(credential)  BY <1>1, <1>11 DEF Held
  <2>2. c = Key(s) /\ ~Presents(t, s, c)  BY <1>0, <2>1 DEF GraceFacts, Fine, NewsIsNew
  <2> QED BY <1>0, <1>2, <1>n, <2>2 DEF Presents
<1>16. NewsIsNew(s)'
  <2> SUFFICES ASSUME NEW c \in 1..n, NEW u \in Tabs, Carries(u, s, c)'
               PROVE  /\ c = Key(s)'
                      /\ \A b \in Browsers : ~InJar(b, s, c)'
                      /\ \A v \in Tabs \ {u} : ~Carries(v, s, c)' /\ ~Presents(v, s, c)'
    BY <1>0 DEF NewsIsNew
  <2>1. u = t /\ c = n  BY <1>13, <1>15
  <2>2. \A b \in Browsers : ~InJar(b, s, n)'  BY <1>11, <1>14 DEF Held
  <2>3. \A v \in Tabs \ {t} : ~Presents(v, s, n)'  BY <1>11, <1>12 DEF Held
  <2>4. \A v \in Tabs \ {t} : ~Carries(v, s, n)'  BY <1>11, <1>12 DEF Held
  <2> QED BY <1>10, <2>1, <2>2, <2>3, <2>4
<1>17. HeldIsFine(s)'
  <2> SUFFICES ASSUME NEW c \in 1..n, Held(s, c)'
               PROVE  /\ c = n \/ c = p
                      /\ credential'[c].family \in {0, f}
    BY <1>0, <1>10 DEF HeldIsFine
  <2>1. CASE c = n  BY <1>0, <2>1
  <2>2. CASE c # n
    <3>1. c \in 1..Len(credential) /\ Held(s, c)  BY <1>1, <1>12, <1>13, <1>14, <2>2 DEF Held
    <3>2. c = Key(s) /\ credential[c].family \in {0, session[s].family}
      BY <1>8, <3>1 DEF GraceFacts, Fine, HeldIsFine
    <3>3. credential[p].family \in {0, f}  BY <1>2, <1>9, <1>n, <3>2 DEF FamilyOf
    <3> QED BY <1>0, <1>2, <3>1, <3>2, <3>3
  <2> QED BY <2>1, <2>2
<1>18. NothingOlder(s)'
  <2>1. \A u \in Tabs : ~Presents(u, s, n)'  BY <1>11, <1>12, <1>13 DEF Held
  <2> QED BY <1>10, <2>1 DEF NothingOlder, Presents
<1>19. Fine(s)'  BY <1>0, <1>1, <1>16, <1>17, <1>18 DEF GraceFacts, Fine
<1>20. \A r \in Ids \ {s} : Fine(r)'  BY OthersStayFine
<1> QED BY <1>3, <1>5, <1>6, <1>7, <1>19, <1>20 DEF GraceParts


\* A second tab is told to wait: its answer leaves the refresh cookie as it is.
LEMMA GraceWaits ==
  ASSUME GraceFacts, NEW t \in Tabs, NEW s \in Ids, TellsToWait(t, s)
  PROVE  GraceParts'
<1>0. /\ OtherCallsStay(t) /\ UNCHANGED <<account, session, credential, jar, ops>> /\ ~Signs(t)'
      /\ At(t, "rotate") /\ call[t].session = s /\ s # 0
      /\ call'[t].op = "answer" /\ call'[t].browser = call[t].browser
      /\ call'[t].jar.session = s /\ call'[t].jar.refresh = 0
  BY BrowsersAreNumbers DEF TellsToWait, Signs, At
<1>1. SignsAlone'  BY <1>0, SignsStay DEF GraceFacts
<1>2. OnlyOne'  BY <1>0, OnlyOneStays, CreatesStay DEF GraceFacts
<1>3. ToEachHisOwn'
  <2>1. "verify" \notin ops => call[t].browser = s  BY <1>0 DEF GraceFacts, ToEachHisOwn
  <2>2. ~At(t, "refresh")' /\ ~At(t, "rotate")'  BY <1>0 DEF At
  <2> QED BY <1>0, <2>1, <2>2, HisOwnStays DEF GraceFacts
<1>4. Paired'  BY <1>0, PairedStays DEF GraceFacts
<1>5. Key(s)' = Key(s)  BY <1>0, KeySteps
<1>6. \A u \in Tabs \ {t} : \A c : (Presents(u, s, c)' <=> Presents(u, s, c)) /\ (Carries(u, s, c)' <=> Carries(u, s, c))
  BY <1>0, StayingHolds
<1>7. \A c : ~Presents(t, s, c)' /\ (Carries(t, s, c)' => c = 0)
  BY <1>0 DEF Presents, Carries, Brings, At
<1>8. \A b \in Browsers : \A c : InJar(b, s, c)' <=> InJar(b, s, c)  BY <1>0 DEF InJar
<1>9. \A c \in 1..Len(credential) : c # 0  BY DEF GraceFacts, Types
<1>10. NewsIsNew(s)'
  <2>1. ASSUME NEW c \in 1..Len(credential), NEW u \in Tabs, Carries(u, s, c)'
        PROVE  /\ c = Key(s)
               /\ \A b \in Browsers : ~InJar(b, s, c)'
               /\ \A v \in Tabs \ {u} : ~Carries(v, s, c)' /\ ~Presents(v, s, c)'
    <3>1. u # t /\ Carries(u, s, c)  BY <1>6, <1>7, <1>9, <2>1
    <3>2. /\ c = Key(s)
          /\ \A b \in Browsers : ~InJar(b, s, c)
          /\ \A v \in Tabs \ {u} : ~Carries(v, s, c) /\ ~Presents(v, s, c)
      BY <3>1 DEF GraceFacts, Fine, NewsIsNew
    <3> QED BY <1>6, <1>7, <1>8, <1>9, <3>2
  <2> QED BY <1>0, <1>5, <2>1 DEF NewsIsNew
<1>11. HeldIsFine(s)'
  <2>1. \A c \in 1..Len(credential) : Held(s, c)' => Held(s, c)  BY <1>6, <1>7, <1>8, <1>9 DEF Held
  <2> QED BY <1>0, <1>5, <2>1 DEF GraceFacts, Fine, HeldIsFine
<1>12. NothingOlder(s)'
  <2>1. \A u \in Tabs : Presents(u, s, Key(s))' => Presents(u, s, Key(s))
    <3>1. PICK k : k = Key(s)  OBVIOUS
    <3>2. \A u \in Tabs : Presents(u, s, k)' => Presents(u, s, k)  BY <1>6, <1>7
    <3> QED BY <1>5, <3>1, <3>2 DEF Presents
  <2> QED BY <1>0, <2>1 DEF GraceFacts, Fine, NothingOlder
<1>13. Fine(s)'  BY <1>0, <1>10, <1>11, <1>12 DEF GraceFacts, Fine
<1>14. \A r \in Ids \ {s} : Fine(r)'  BY OthersStayFine
<1> QED BY <1>1, <1>2, <1>3, <1>4, <1>13, <1>14 DEF GraceParts

LEMMA GraceLock ==
  ASSUME GraceFacts, NEW t \in Tabs, Locks(t)
  PROVE  GraceParts'
<1>0. /\ OtherCallsStay(t) /\ UNCHANGED <<account, session, credential, jar, ops>> /\ ~Signs(t)'
      /\ At(t, "refresh") /\ call'[t].op = "rotate"
      /\ call'[t].session = call[t].session /\ call'[t].browser = call[t].browser
      /\ call'[t].refresh = call[t].refresh
  BY LockEffect DEF GraceFacts, Locks, Signs, At
<1>1. SignsAlone'  BY <1>0, SignsStay DEF GraceFacts
<1>2. OnlyOne'  BY <1>0, OnlyOneStays, CreatesStay DEF GraceFacts
<1>3. ToEachHisOwn'
  <2>1. "verify" \notin ops => call'[t].session = call'[t].browser  BY <1>0 DEF GraceFacts, ToEachHisOwn
  <2>2. ~At(t, "answer")' /\ ~At(t, "invalidate")'  BY <1>0 DEF At
  <2> QED BY <1>0, <2>1, <2>2, HisOwnStays DEF GraceFacts
<1>4. Paired'
  <2>1. ~Brings(t)'  BY <1>0 DEF Brings, At
  <2> QED BY <1>0, <2>1, PairedStays DEF GraceFacts
<1>5. ASSUME NEW s \in Ids PROVE Fine(s)'
  <2>1. NobodyGets(s)  BY LockHolds DEF GraceFacts
  <2>2. \A u \in Tabs : \A c : Presents(u, s, c)' => Presents(u, s, c)
    <3>1. \A c : Presents(t, s, c)' => Presents(t, s, c)  BY <1>0 DEF Presents, At
    <3> QED BY <1>0, <3>1, StayingHolds
  <2>3. Len(credential') \in Nat /\ session'[s].status # "REUSED"  BY <1>0 DEF GraceFacts, Types, Fine
  <2> QED BY <1>0, <2>1, <2>2, <2>3, FineStays DEF GraceFacts
<1> QED BY <1>1, <1>2, <1>3, <1>4, <1>5 DEF GraceParts

\* A jar gets a credential with its session, or keeps the one it has of that session.
LEMMA ReachedWasOnItsWay ==
  ASSUME GraceFacts, NEW t \in Tabs, NEW b \in Browsers, Reaches(t, b), NEW s \in Ids,
         NEW c \in 1..Len(credential), InJar(b, s, c)'
  PROVE  Carries(t, s, c) \/ InJar(b, s, c)
<1>1. Carries(t, s, c) \/ (Carries(t, s, 0) /\ jar[b].refresh = c)  BY ReachHolds DEF GraceFacts
<1>2. ASSUME Carries(t, s, 0), jar[b].refresh = c PROVE InJar(b, s, c)
  <2>1. c # 0 /\ jar[b].session # 0  BY <1>2 DEF GraceFacts, Paired, Types
  <2>2. jar[b].session \in Ids /\ s # 0  BY <2>1, TypeFacts, BrowsersAreNumbers DEF GraceFacts
  <2>3. call[t] # NoCall /\ call[t].op = "answer" /\ call[t].browser = b /\ call[t].jar.session = s
    BY <1>2 DEF Reaches, Carries
  <2>4. CASE "verify" \notin ops
    <3>1. call[t].jar.session \in {0, b} /\ jar[b].session \in {0, b}
      BY <2>3, <2>4 DEF GraceFacts, ToEachHisOwn, At
    <3> QED BY <1>2, <2>1, <2>2, <2>3, <3>1 DEF InJar
  <2>5. CASE "verify" \in ops
    <3>1. session[jar[b].session].status # "NONE"  BY <2>2 DEF GraceFacts, NamedExist
    <3>2. Names(t, s)  BY <2>3 DEF Names, Brings, At
    <3>3. session[s].status # "NONE"  BY <3>2 DEF GraceFacts, NamedExist
    <3>4. jar[b].session = s  BY <2>2, <2>5, <3>1, <3>3 DEF GraceFacts, OnlyOne
    <3> QED BY <1>2, <3>4 DEF InJar
  <2> QED BY <2>4, <2>5
<1> QED BY <1>1, <1>2

LEMMA GraceReaches ==
  ASSUME GraceFacts, NEW t \in Tabs, NEW b \in Browsers, Reaches(t, b)
  PROVE  GraceParts'
<1>0. /\ OtherCallsStay(t) /\ UNCHANGED <<account, session, credential, ops>> /\ ~Signs(t)'
      /\ At(t, "answer") /\ call[t].browser = b /\ call'[t] = NoCall
      /\ \A d \in Browsers \ {b} : jar'[d] = jar[d]
      /\ jar'[b].session = call[t].jar.session
      /\ call[t].jar.session = 0 => jar'[b].refresh = call[t].jar.refresh
  BY DEF Reaches, Signs, At
<1>1. SignsAlone'  BY <1>0, SignsStay DEF GraceFacts
<1>2. OnlyOne'  BY <1>0, OnlyOneStays, CreatesStay DEF GraceFacts
<1>3. \A u \in Tabs \ {t} : call'[u] = call[u] /\ (\A op : At(u, op)' <=> At(u, op)) /\ (Brings(u)' <=> Brings(u))
  BY <1>0, StayingCalls
<1>4. ~Brings(t)' /\ \A op : ~At(t, op)'  BY <1>0 DEF Brings, At
<1>5. ToEachHisOwn'
  <2>1. "verify" \notin ops => call[t].jar.session \in {0, b}  BY <1>0 DEF GraceFacts, ToEachHisOwn
  <2>2. "verify" \notin ops => \A d \in Browsers : jar'[d].session \in {0, d}
    BY <1>0, <2>1 DEF GraceFacts, ToEachHisOwn
  <2> QED BY <1>0, <1>3, <1>4, <2>2 DEF GraceFacts, ToEachHisOwn
<1>6. Paired'
  <2>1. call[t].jar.session = 0 => call[t].jar.refresh = 0  BY <1>0 DEF GraceFacts, Paired, Brings
  <2>2. \A d \in Browsers : jar'[d].session = 0 => jar'[d].refresh = 0
    BY <1>0, <2>1 DEF GraceFacts, Paired
  <2> QED BY <1>3, <1>4, <2>2 DEF GraceFacts, Paired
<1>7. ASSUME NEW s \in Ids PROVE Fine(s)'
  <2>0. Key(s)' = Key(s)  BY <1>0, KeySteps
  <2>1. \A u \in Tabs : \A c : /\ Presents(u, s, c)' => Presents(u, s, c) /\ u # t
                               /\ Carries(u, s, c)' => Carries(u, s, c) /\ u # t
    BY ReachHolds DEF GraceFacts
  <2>2. \A d \in Browsers, c \in 1..Len(credential) :
           InJar(d, s, c)' => InJar(d, s, c) \/ Carries(t, s, c)
    BY ReachHolds, ReachedWasOnItsWay DEF GraceFacts
  <2>3. NewsIsNew(s)'
    <3>1. ASSUME NEW c \in 1..Len(credential), NEW u \in Tabs, Carries(u, s, c)'
          PROVE  /\ c = Key(s)
                 /\ \A d \in Browsers : ~InJar(d, s, c)'
                 /\ \A v \in Tabs \ {u} : ~Carries(v, s, c)' /\ ~Presents(v, s, c)'
      <4>1. u # t /\ Carries(u, s, c)  BY <2>1, <3>1
      <4>2. /\ c = Key(s)
            /\ \A d \in Browsers : ~InJar(d, s, c)
            /\ \A v \in Tabs \ {u} : ~Carries(v, s, c) /\ ~Presents(v, s, c)
        BY <4>1 DEF GraceFacts, Fine, NewsIsNew
      <4> QED BY <2>1, <2>2, <4>1, <4>2
    <3> QED BY <1>0, <2>0, <3>1 DEF NewsIsNew
  <2>4. HeldIsFine(s)'
    <3>1. \A c \in 1..Len(credential) : Held(s, c)' => Held(s, c)  BY <2>1, <2>2 DEF Held
    <3> QED BY <1>0, <2>0, <3>1 DEF GraceFacts, Fine, HeldIsFine
  <2>5. NothingOlder(s)'
    <3>1. PICK k : k = Key(s)  OBVIOUS
    <3>2. \A u \in Tabs : Presents(u, s, k)' => Presents(u, s, k)  BY <2>1
    <3>3. \A u \in Tabs : Presents(u, s, Key(s))' => Presents(u, s, Key(s))
      BY <2>0, <3>1, <3>2 DEF Presents
    <3> QED BY <1>0, <3>3 DEF GraceFacts, Fine, NothingOlder
  <2> QED BY <1>0, <2>3, <2>4, <2>5 DEF GraceFacts, Fine
<1> QED BY <1>1, <1>2, <1>5, <1>6, <1>7 DEF GraceParts

\* When the grace is over, nobody holds the credential before the current one.
LEMMA GraceEnds ==
  ASSUME GraceFacts, NEW s \in Ids, GraceLapses(s)
  PROVE  GraceParts'
<1>0. /\ UNCHANGED <<account, credential, jar, call, settled, ops>>
      /\ ~session'[s].recent /\ ~InUse(session[s].prev)
      /\ \A r \in Ids : /\ session'[r].status = session[r].status
                        /\ session'[r].hash = session[r].hash
                        /\ session'[r].prev = session[r].prev
                        /\ session'[r].family = session[r].family
                        /\ r # s => session'[r].recent = session[r].recent
  BY GraceKeeps DEF GraceFacts
<1>1. SignsAlone' /\ ToEachHisOwn' /\ Paired'
  BY <1>0 DEF GraceFacts, SignsAlone, Signs, ToEachHisOwn, Paired, Brings, At
<1>2. OnlyOne'  BY <1>0, OnlyOneStays DEF GraceFacts, At
<1>3. \A r \in Ids : NobodyGets(r)  BY <1>0, SameHolds
<1>4. \A u \in Tabs : \A r, c : Presents(u, r, c)' <=> Presents(u, r, c)  BY <1>0 DEF Presents, At
<1>5. Len(credential') \in Nat /\ \A r \in Ids : session'[r].status # "REUSED"
  BY <1>0 DEF GraceFacts, Types, Fine
<1>6. ASSUME NEW r \in Ids \ {s} PROVE Fine(r)'  BY <1>0, <1>3, <1>4, <1>5, FineStays DEF GraceFacts
<1>7. Fine(s)'
  <2>0. Key(s)' = Key(s)  BY <1>0, KeySteps
  <2>1. NewsIsNew(s)'
    <3>1. \A u \in Tabs : \A c : Carries(u, s, c)' <=> Carries(u, s, c)  BY <1>0 DEF Carries, Brings, At
    <3>2. \A d \in Browsers : \A c : InJar(d, s, c)' <=> InJar(d, s, c)  BY <1>0 DEF InJar
    <3> QED BY <1>0, <1>4, <2>0, <3>1, <3>2 DEF GraceFacts, Fine, NewsIsNew
  <2>2. ASSUME NEW c \in 1..Len(credential), Held(s, c) PROVE c = Key(s) /\ credential[c].family \in {0, session[s].family}
    <3>1. /\ c = Key(s) \/ session[s].prev = c
          /\ credential[c].family \in {0, session[s].family}
      BY <2>2 DEF GraceFacts, Fine, HeldIsFine
    <3>2. CASE \E u \in Tabs : Carries(u, s, c)  BY <3>1, <3>2 DEF GraceFacts, Fine, NewsIsNew
    <3>3. CASE (\E b \in Browsers : InJar(b, s, c)) \/ (\E u \in Tabs : Presents(u, s, c))
      <4>1. InUse(c)  BY <3>3 DEF InUse, InJar, Presents
      <4> QED BY <1>0, <3>1, <4>1
    <3> QED BY <2>2, <3>2, <3>3 DEF Held
  <2>3. HeldIsFine(s)'
    <3>1. \A c : Held(s, c)' => Held(s, c)  BY <1>3, HeldStays
    <3> QED BY <1>0, <2>0, <2>2, <3>1 DEF HeldIsFine
  <2>4. NothingOlder(s)'  BY <1>0 DEF NothingOlder
  <2> QED BY <1>0, <1>5, <2>1, <2>3, <2>4 DEF Fine
<1> QED BY <1>1, <1>2, <1>6, <1>7 DEF GraceParts

LEMMA GraceNothing ==
  ASSUME GraceFacts, NothingMoves
  PROVE  GraceParts'
<1>0. UNCHANGED <<account, session, credential, jar, call, settled, ops>>  BY DEF NothingMoves
<1>1. SignsAlone' /\ ToEachHisOwn' /\ Paired'
  BY <1>0 DEF GraceFacts, SignsAlone, Signs, ToEachHisOwn, Paired, Brings, At
<1>2. OnlyOne'  BY <1>0, OnlyOneStays DEF GraceFacts, At
<1>3. \A u \in Tabs : \A r, c : Presents(u, r, c)' <=> Presents(u, r, c)  BY <1>0 DEF Presents, At
<1>4. ASSUME NEW r \in Ids PROVE Fine(r)'
  <2>1. NobodyGets(r)  BY <1>0, SameHolds
  <2>2. Len(credential') \in Nat /\ session'[r].status # "REUSED"  BY <1>0 DEF GraceFacts, Types, Fine
  <2> QED BY <1>0, <1>3, <2>1, <2>2, FineStays DEF GraceFacts
<1> QED BY <1>1, <1>2, <1>4 DEF GraceParts

LEMMA GraceInvInit == InitSessions => GraceInv
<1> SUFFICES ASSUME InitSessions, Undisturbed PROVE GraceParts
  BY DEF GraceInv
<1>1. \A t \in Tabs : call[t] = NoCall  BY DEF InitSessions
<1>2. /\ SignsAlone /\ \A t \in Tabs : ~Brings(t) /\ ~At(t, "refresh") /\ ~At(t, "rotate")
      /\ \A t \in Tabs : \A s, c : ~Presents(t, s, c) /\ ~Carries(t, s, c)
  BY <1>1 DEF SignsAlone, Signs, Presents, Carries, Brings, At
<1>3. "login" \notin ops  BY DEF Undisturbed
<1>4. CASE "verify" \in ops
  <2>1. /\ credential = <<>> /\ \A s \in Ids : session[s] = NoRow
        /\ \A b \in Browsers : jar[b] = Empty
    BY <1>4 DEF InitSessions
  <2>2. \A s \in Ids : session[s].status = "NONE" /\ session[s].recent = FALSE  BY <2>1 DEF NoRow
  <2>3. Len(credential) = 0  BY <2>1
  <2>4. OnlyOne  BY <1>1, <2>2, <2>3 DEF OnlyOne, At
  <2>5. ToEachHisOwn  BY <1>4 DEF ToEachHisOwn
  <2>6. Paired  BY <1>2, <2>1 DEF Paired, Empty
  <2>7. \A s \in Ids, b \in Browsers : \A c : ~InJar(b, s, c)
    BY <2>1, BrowsersAreNumbers DEF InJar, Empty
  <2>8. \A s \in Ids : Fine(s)  BY <1>2, <2>2, <2>7 DEF Fine, NewsIsNew, HeldIsFine, NothingOlder, Held
  <2> QED BY <1>2, <2>4, <2>5, <2>6, <2>8 DEF GraceParts
<1>5. CASE "verify" \notin ops
  <2>0. ops \cap {"login", "verify"} = {}  BY <1>3, <1>5
  <2>1. \A b \in Browsers : IF b \in Using THEN jar[b].session = b /\ jar[b].refresh = b
                            ELSE jar[b].session = 0 /\ jar[b].refresh = 0
    BY <2>0, InitialRows
  <2>2. \A s \in Ids : session[s].status # "REUSED" /\ ~session[s].recent  BY <2>0, InitialRows
  <2>3. ToEachHisOwn  BY <1>2, <2>1 DEF ToEachHisOwn, Brings
  <2>4. Paired  BY <1>2, <2>1 DEF Paired
  <2>5. OnlyOne  BY <1>5 DEF OnlyOne
  <2>6. ASSUME NEW s \in Ids, NEW c \in 1..Len(credential), Held(s, c)
        PROVE  c = Key(s) /\ credential[c].family \in {0, session[s].family}
    <3>1. PICK b \in Browsers : InJar(b, s, c)  BY <1>2, <2>6 DEF Held
    <3>2. s # 0 /\ c = s /\ s \in Using  BY <2>1, <3>1, BrowsersAreNumbers DEF InJar
    <3>3. session[s].hash = Stored(s) /\ session[s].family = Stored(s)  BY <2>0, <3>2, InitialRows
    <3>4. credential[c].family = Stored(c)
      <4>1. /\ credential = [d \in 1..Cardinality(Using) |-> [family |-> Stored(d), from |-> 0]]
            /\ Len(credential) = Cardinality(Using)
        BY <2>0, InUseAreCounted
      <4> QED BY <2>6, <4>1
    <3>5. Stored(s) \in {0, s}  BY DEF Stored
    <3>6. Key(s) = s  BY <2>0, <3>2, <3>3, <3>5 DEF Key
    <3> QED BY <3>2, <3>3, <3>4, <3>6
  <2>7. \A s \in Ids : Fine(s)  BY <1>2, <2>2, <2>6 DEF Fine, NewsIsNew, HeldIsFine, NothingOlder
  <2> QED BY <1>2, <2>3, <2>4, <2>5, <2>7 DEF GraceParts
<1> QED BY <1>4, <1>5

LEMMA GraceStep ==
  ASSUME TypeInv, TypeInv', SignInInv, RotationInv, GraceInv, [SessionsNext]_sessionVars
  PROVE  GraceInv'
<1>0. ops' = ops  BY OpsStay DEF TypeInv
<1> SUFFICES ASSUME Undisturbed PROVE GraceParts'
  BY <1>0 DEF GraceInv, Undisturbed
<1>1. GraceParts /\ GraceFacts /\ (account.verified => account'.verified)
  BY VerifiedStays DEF GraceInv, GraceParts, GraceFacts, TypeInv, SignInInv, RotationInv, Undisturbed
<1>2. ASSUME NEW t \in Tabs, Quiet(t) PROVE GraceParts'  BY <1>1, <1>2, GraceQuiet DEF SignInInv
<1> QED BY <1>1, <1>2, Steps, GraceSignIn, GraceBind, GraceLock, GraceRenew, GraceWaits, GraceReaches,
     GraceEnds, GraceNothing DEF TypeInv

LEMMA GraceInvariant == InitSessions /\ [][SessionsNext]_sessionVars => []GraceInv
<1>1. /\ TypeInv /\ TypeInv' /\ SignInInv /\ RotationInv /\ GraceInv /\ [SessionsNext]_sessionVars
      => GraceInv'
  BY GraceStep
<1> QED BY <1>1, GraceInvInit, TypeInvariant, SignInInvariant, RotationInvariant, PTL

\* Tabs that refresh with the same credential at once do not hurt each other: a credential
\* is exchanged at most once (the row lock of getNewToken), and as long as no answer is
\* lost, no request outlives the grace, the password stays and the person does not sign in
\* again, no session is revoked as reused (REFRESH_TOKEN_REUSE_GRACE_MS).
THEOREM RefreshesAreSafe == SessionsSpec => []RefreshesMeetSafely
<1>1. RotationInv /\ GraceInv => RefreshesMeetSafely
  BY DEF RotationInv, GraceInv, GraceParts, Fine, Undisturbed, RefreshesMeetSafely, TabsStaySignedIn
<1>2. SessionsSpec => InitSessions /\ [][SessionsNext]_sessionVars  BY DEF SessionsSpec
<1> QED BY <1>1, <1>2, RotationInvariant, GraceInvariant, PTL
------------------------
(* The mails of the notifications.  A claim sends its mail at most once, and    *)
(* no two workers hold the same claim; so what was mailed and what may still be *)
(* mailed (Unsent) is never more than the attempts.  That the two rows agree    *)
(* rests, while workers are timely, on a claim being the latest one for as long *)
(* as it is held, and on the row waiting until markFailed has written to both.  *)

\* The attempts on a row whose mail has not gone out and may.
Unsent(e) ==
    {n \in 1..attempts[e] :
        \E w \in Workers :
            /\ ClaimOn(e, n) \in claims[w]
            /\ current[w] = ClaimOn(e, n) => step[w] \in {"loaded", "begun"}}

MailsFit == \A e \in Events : mails[e] + Cardinality(Unsent(e)) <= attempts[e]

SentWasMailed ==
    /\ \A e \in Events : delivery[e] = "SENT" => mails[e] > 0
    /\ \A w \in Workers : step[w] = "accepted" => mails[current[w].event] > 0

\* A worker that demotes a notification has given its claim back.
GivenBack == \A w \in Workers : step[w] \in {"demote-retry", "demote-failed"} => current[w] \notin claims[w]

FencedInv == NotificationTypeOK /\ ClaimsAreFenced /\ GivenBack

MailInv == FencedInv /\ MailsFit /\ SentWasMailed

\* What timely workers may rely on.
InHand == \A w \in Workers : \A c \in claims[w] : Matches(c) /\ lockedAt[c.event] = "fresh"

Demoting ==
    \A w \in Workers :
        /\ step[w] = "demote-retry" => status[current[w].event] = "RETRY" /\ ~due[current[w].event]
        /\ step[w] = "demote-failed" => status[current[w].event] = "DEAD"

Returning == \A w \in Workers : step[w] = "returned" => delivery[current[w].event] \in {"SENT", "CANCELLED"}

Settled ==
    \A e \in Events :
        /\ status[e] = "PROCESSED" => delivery[e] \in {"SENT", "CANCELLED"}
        /\ delivery[e] = "FAILED" => status[e] = "DEAD"

OnTime == timely => InHand /\ Demoting /\ Returning /\ Settled

\* How a step moves a worker on.
LEMMA ClaimsAreRecords ==
  ASSUME NotificationTypeOK, NEW w \in Workers, NEW c \in claims[w]
  PROVE  /\ c \in Claim /\ c.event \in Events /\ c.attempt \in 1..MaxAttempts
         /\ c = ClaimOn(c.event, c.attempt)
  BY DEF NotificationTypeOK, TypeOK, Claim, ClaimOn

LEMMA AtWork ==
  ASSUME NotificationTypeOK, NEW w \in Workers, step[w] # "idle"
  PROVE  /\ current[w] \in Claim /\ current[w].event \in Events /\ current[w].attempt \in 1..MaxAttempts
         /\ step[w] \notin {"demote-retry", "demote-failed"} => current[w] \in claims[w]
  BY DEF NotificationTypeOK, TypeOK, Claim, ClaimOn

LEMMA FencedInvInit == NotificationInit => FencedInv
  BY OutboxAssumption
  DEF NotificationInit, Init, FencedInv, NotificationTypeOK, TypeOK, Status, DeliveryStatus, Step, ClaimsAreFenced, GivenBack

LEMMA EnqueueKeepsFencedInv ==
  ASSUME FencedInv, NEW e \in Events, EnqueueNotification(e) \/ Wait(e)
  PROVE  FencedInv'
  BY ZenonT(40) DEF FencedInv, NotificationTypeOK, TypeOK, Status, DeliveryStatus, Step, ClaimsAreFenced, GivenBack,
         EnqueueNotification, Enqueue, Wait, ReachNextAttempt, LockTimesOut, jobVars

LEMMA ClaimKeepsFencedInv ==
  ASSUME FencedInv, NEW w \in Workers, ClaimNotifications(w)
  PROVE  FencedInv'
<1>1. PICK rows \in SUBSET {e \in Events : Claimable(e)} :
        /\ status' = [e \in Events |-> IF e \in rows THEN "PROCESSING" ELSE status[e]]
        /\ lockedAt' = [e \in Events |-> IF e \in rows THEN "fresh" ELSE lockedAt[e]]
        /\ attempts' = [e \in Events |-> IF e \in rows THEN attempts[e] + 1 ELSE attempts[e]]
        /\ claims' = [claims EXCEPT ![w] = {ClaimOn(e, attempts[e] + 1) : e \in rows}]
  BY DEF ClaimNotifications, ClaimBatch, NextAttempt
<1>2. UNCHANGED <<due, delivery, current, step, mails, allowed, timely>> /\ step[w] = "idle"
  BY DEF ClaimNotifications, ClaimBatch, jobVars
<1>3. /\ status \in [Events -> Status] /\ attempts \in [Events -> 0..MaxAttempts]
      /\ lockedAt \in [Events -> {"null", "fresh", "stale"}] /\ claims \in [Workers -> SUBSET Claim]
  BY DEF FencedInv, NotificationTypeOK, TypeOK
<1>4. \A e \in rows : e \in Events /\ attempts[e] < MaxAttempts /\ attempts[e] + 1 \in 1..MaxAttempts
  BY <1>1, <1>3, OutboxAssumption DEF Claimable
<1>5. claims' \in [Workers -> SUBSET Claim]
  <2>1. \A e \in rows : ClaimOn(e, attempts[e] + 1) \in Claim  BY <1>4 DEF Claim, ClaimOn
  <2> QED BY <1>1, <1>3, <2>1
<1>6. /\ claims'[w] = {ClaimOn(e, attempts[e] + 1) : e \in rows}
      /\ \A u \in Workers \ {w} : claims'[u] = claims[u]
  BY <1>1, <1>3
<1>7. NotificationTypeOK'
  <2>1. TypeOK'
    <3>1. status' \in [Events -> Status] /\ lockedAt' \in [Events -> {"null", "fresh", "stale"}]
      BY <1>1, <1>3 DEF Status
    <3>2. attempts' \in [Events -> 0..MaxAttempts]  BY <1>1, <1>3, <1>4, OutboxAssumption
    <3>3. due' \in [Events -> BOOLEAN]  BY <1>2 DEF FencedInv, NotificationTypeOK, TypeOK
    <3> QED BY <3>1, <3>2, <3>3, <1>5 DEF TypeOK
  <2> QED BY <1>2, <1>6, <2>1 DEF FencedInv, NotificationTypeOK
<1>8. ClaimsAreFenced'
  <2>1. \A u \in Workers, d \in Claim : d \in claims[u] =>
          d.event \in Events /\ d.attempt \in Nat /\ d.attempt <= attempts[d.event] /\ attempts[d.event] \in Nat
    BY <1>3 DEF FencedInv, ClaimsAreFenced, Claim
  <2>2. \A d \in claims'[w] :
          d.event \in Events /\ d.attempt = attempts[d.event] + 1 /\ attempts'[d.event] = d.attempt
    BY <1>1, <1>4, <1>6 DEF ClaimOn
  <2>3. \A e \in Events : attempts[e] <= attempts'[e] /\ attempts[e] \in Nat /\ attempts'[e] \in Nat
    BY <1>1, <1>3
  <2> SUFFICES ASSUME NEW v \in Workers, NEW c \in claims'[v]
               PROVE  /\ c.attempt <= attempts'[c.event]
                      /\ \A u \in Workers : c \in claims'[u] => u = v
    BY DEF ClaimsAreFenced
  <2>4. c \in Claim  BY <1>5
  <2>5. CASE v = w  BY <1>6, <2>1, <2>2, <2>3, <2>4, <2>5
  <2>6. CASE v # w
    <3>1. c \in claims[v] /\ c \notin claims'[w]  BY <1>6, <2>1, <2>2, <2>4, <2>6
    <3> QED BY <1>6, <2>1, <2>3, <2>4, <3>1 DEF FencedInv, ClaimsAreFenced
  <2> QED BY <2>5, <2>6
<1>9. GivenBack'  BY <1>2, <1>6 DEF FencedInv, GivenBack
<1> QED BY <1>7, <1>8, <1>9 DEF FencedInv

\* Every other step of a worker drops claims at most.
LEMMA WorkKeepsFencedInv ==
  ASSUME FencedInv, NEW w \in Workers, Work(w) \/ Crash(w)
  PROVE  FencedInv'
<1> USE DEF FencedInv
<1>0. /\ status \in [Events -> Status] /\ attempts \in [Events -> 0..MaxAttempts]
      /\ lockedAt \in [Events -> {"null", "fresh", "stale"}] /\ claims \in [Workers -> SUBSET Claim]
      /\ due \in [Events -> BOOLEAN]
      /\ delivery \in [Events -> DeliveryStatus] /\ mails \in [Events -> Nat]
      /\ current \in [Workers -> Claim \cup {NoClaim}] /\ step \in [Workers -> Step]
      /\ allowed \in BOOLEAN /\ timely \in BOOLEAN
  BY DEF NotificationTypeOK, TypeOK
<1>1. /\ claims' \in [Workers -> SUBSET Claim] /\ \A u \in Workers : claims'[u] \subseteq claims[u]
      /\ attempts' = attempts
  BY <1>0 DEF Work, Crash, Load, Cancel, Begin, SendEmail, RecordSent, Throw, Succeed, Fail, Demote,
              MarkProcessed, MarkFailed, vars, tableVars
<1>2. ClaimsAreFenced'  BY <1>1 DEF ClaimsAreFenced
<1>3. TypeOK'
  <2>1. CASE Succeed(w) \/ Fail(w)
    <3>1. current[w] \in Claim /\ current[w].event \in Events  BY <2>1, AtWork DEF Succeed, Fail
    <3> QED BY <1>0, <1>1, <2>1, <3>1 DEF TypeOK, Succeed, Fail, MarkProcessed, MarkFailed, tableVars, Status
  <2>2. CASE ~(Succeed(w) \/ Fail(w))
    BY <1>0, <1>1, <2>2
    DEF TypeOK, Work, Crash, Load, Cancel, Begin, SendEmail, RecordSent, Throw, Demote, vars, tableVars
  <2> QED BY <2>1, <2>2
<1>4. /\ delivery' \in [Events -> DeliveryStatus] /\ mails' \in [Events -> Nat]
      /\ allowed' \in BOOLEAN /\ timely' \in BOOLEAN
  <2>1. CASE SendEmail(w)  BY <1>0, <2>1, AtWork DEF SendEmail, vars
  <2>2. CASE Work(w) /\ ~SendEmail(w)
    BY <1>0, <2>2 DEF DeliveryStatus, Work, Load, Cancel, Begin, RecordSent, Throw, Succeed, Fail, Demote
  <2>3. CASE Crash(w)  BY <1>0, <2>3 DEF Crash
  <2> QED BY <2>1, <2>2, <2>3
<1>5. /\ current' \in [Workers -> Claim \cup {NoClaim}] /\ step' \in [Workers -> Step]
      /\ \A u \in Workers \ {w} : current'[u] = current[u] /\ step'[u] = step[u] /\ claims'[u] = claims[u]
      /\ step'[w] = "idle" <=> current'[w] = NoClaim
      /\ step'[w] \notin {"idle", "demote-retry", "demote-failed"} => current'[w] \in claims'[w]
  <2>1. CASE Load(w)
    <3>1. PICK c \in claims[w] : /\ current' = [current EXCEPT ![w] = c]
                                 /\ Goto(w, IF MaySkip(c.event) THEN "returned" ELSE "loaded")
      BY <2>1 DEF Load
    <3>2. c \in Claim /\ c # NoClaim /\ claims' = claims
      BY <1>0, <2>1, NotificationAssumption DEF Load, vars
    <3> QED BY <1>0, <3>1, <3>2 DEF Goto, Step
  <2>2. CASE Cancel(w) \/ Begin(w) \/ SendEmail(w) \/ RecordSent(w) \/ Throw(w)
    <3>1. /\ UNCHANGED <<claims, current>> /\ step[w] \notin {"idle", "demote-retry", "demote-failed"}
          /\ \E s \in Step \ {"idle", "demote-retry", "demote-failed"} : step' = [step EXCEPT ![w] = s]
      BY <2>2 DEF Cancel, Begin, SendEmail, RecordSent, Throw, vars, Goto, Step
    <3>2. current[w] # NoClaim /\ current[w] \in claims[w]  BY <3>1 DEF NotificationTypeOK
    <3> QED BY <1>0, <3>1, <3>2
  <2>3. CASE Succeed(w) \/ Demote(w) \/ Crash(w)
    <3>1. Idle(w) /\ \A u \in Workers \ {w} : claims'[u] = claims[u]
      BY <1>0, <2>3 DEF Succeed, Demote, Crash, MarkProcessed, vars
    <3> QED BY <1>0, <3>1 DEF Idle, Goto, Step
  <2>4. CASE Fail(w)
    <3>1. current[w] \in Claim /\ current[w] # NoClaim  BY <2>4, AtWork, NotificationAssumption DEF Fail
    <3>2. \A u \in Workers \ {w} : claims'[u] = claims[u]  BY <1>0, <2>4 DEF Fail, MarkFailed
    <3>3. \/ UNCHANGED current /\ \E s \in {"demote-retry", "demote-failed"} : step' = [step EXCEPT ![w] = s]
          \/ Idle(w)
      BY <2>4 DEF Fail, Goto, AfterFailure
    <3> QED BY <1>0, <3>1, <3>2, <3>3 DEF Idle, Goto, Step
  <2> QED BY <2>1, <2>2, <2>3, <2>4 DEF Work
<1>6. \A u \in Workers :
        /\ step'[u] = "idle" <=> current'[u] = NoClaim
        /\ step'[u] \notin {"idle", "demote-retry", "demote-failed"} => current'[u] \in claims'[u]
  BY <1>5 DEF NotificationTypeOK
<1>7. step'[w] \in {"demote-retry", "demote-failed"} => current'[w] \notin claims'[w]
  <2>1. CASE Fail(w)
    <3>1. claims'[w] = claims[w] \ {current[w]}  BY <1>0, <2>1 DEF Fail, MarkFailed
    <3>2. UNCHANGED current \/ step'[w] = "idle"  BY <1>0, <2>1 DEF Fail, Idle, Goto
    <3> QED BY <3>1, <3>2
  <2>2. CASE ~Fail(w)
    BY <1>0, <2>2 DEF Work, Load, Cancel, Begin, SendEmail, RecordSent, Throw, Succeed, Demote, Crash, Idle, Goto
  <2> QED BY <2>1, <2>2
<1>8. GivenBack'  BY <1>5, <1>7 DEF GivenBack
<1> QED BY <1>2, <1>3, <1>4, <1>5, <1>6, <1>8 DEF NotificationTypeOK

LEMMA StepKeepsFencedInv == FencedInv /\ [NotificationNext]_allVars => FencedInv'
<1>1. ASSUME FencedInv, ToggleAccess PROVE FencedInv'
  BY <1>1 DEF ToggleAccess, vars, FencedInv, NotificationTypeOK, TypeOK, ClaimsAreFenced, GivenBack
<1>2. ASSUME FencedInv, UNCHANGED allVars PROVE FencedInv'
  BY <1>2 DEF allVars, jobVars, vars, FencedInv, NotificationTypeOK, TypeOK, ClaimsAreFenced, GivenBack
<1> QED BY <1>1, <1>2, EnqueueKeepsFencedInv, ClaimKeepsFencedInv, WorkKeepsFencedInv DEF NotificationNext

LEMMA FencedInvHolds == NotificationSpec => []FencedInv
  BY FencedInvInit, StepKeepsFencedInv, PTL DEF NotificationSpec

------------------------
(* No more mails than attempts *)

LEMMA UnsentIsFinite ==
  ASSUME FencedInv, NEW e \in Events
  PROVE  /\ IsFiniteSet(Unsent(e)) /\ Cardinality(Unsent(e)) \in Nat
         /\ \A S : S \subseteq Unsent(e) =>
               Cardinality(S) \in Nat /\ Cardinality(S) <= Cardinality(Unsent(e))
<1>1. attempts[e] \in Nat  BY DEF FencedInv, NotificationTypeOK, TypeOK
<1>2. IsFiniteSet(1..attempts[e])  BY <1>1, FS_Interval
<1>3. IsFiniteSet(Unsent(e))  BY <1>2, FS_Subset DEF Unsent
<1> QED BY <1>3, FS_Subset, FS_CardinalityType

\* A step that neither claims nor mails leaves no more to be mailed.
LEMMA NoMoreUnsent ==
  ASSUME FencedInv, MailsFit, attempts' = attempts, mails' = mails,
         \A e \in Events : Unsent(e)' \subseteq Unsent(e)
  PROVE  MailsFit'
<1> SUFFICES ASSUME NEW e \in Events
             PROVE  mails'[e] + Cardinality(Unsent(e)') <= attempts'[e]
  BY DEF MailsFit
<1>1. Cardinality(Unsent(e)') \in Nat /\ Cardinality(Unsent(e)') <= Cardinality(Unsent(e))
  BY UnsentIsFinite
<1>2. Cardinality(Unsent(e)) \in Nat /\ mails[e] \in Nat /\ attempts[e] \in Nat
  BY UnsentIsFinite DEF FencedInv, NotificationTypeOK, TypeOK
<1> QED BY <1>1, <1>2 DEF MailsFit

LEMMA FewerClaims ==
  ASSUME FencedInv, MailsFit, UNCHANGED <<attempts, mails>>, NEW w \in Workers,
         \A u \in Workers \ {w} : current'[u] = current[u] /\ step'[u] = step[u] /\ claims'[u] = claims[u],
         claims'[w] \subseteq claims[w],
         \A c \in claims'[w] :
            (current'[w] = c => step'[w] \in {"loaded", "begun"})
            => (current[w] = c => step[w] \in {"loaded", "begun"})
  PROVE  MailsFit'
<1> SUFFICES ASSUME NEW e \in Events PROVE Unsent(e)' \subseteq Unsent(e)
  BY NoMoreUnsent
<1> SUFFICES ASSUME NEW n \in Unsent(e)' PROVE n \in Unsent(e)
  OBVIOUS
<1>1. n \in 1..attempts[e]  BY DEF Unsent
<1>2. PICK u \in Workers :
        /\ ClaimOn(e, n) \in claims'[u]
        /\ current'[u] = ClaimOn(e, n) => step'[u] \in {"loaded", "begun"}
  BY DEF Unsent, ClaimOn
<1>3. ClaimOn(e, n) \in claims[u] /\ (current[u] = ClaimOn(e, n) => step[u] \in {"loaded", "begun"})
  BY <1>2
<1> QED BY <1>1, <1>3 DEF Unsent

LEMMA ClaimKeepsMailsFit ==
  ASSUME FencedInv, MailsFit, NEW w \in Workers, ClaimNotifications(w)
  PROVE  MailsFit'
<1>1. PICK rows \in SUBSET {e \in Events : Claimable(e)} :
        /\ attempts' = [e \in Events |-> IF e \in rows THEN attempts[e] + 1 ELSE attempts[e]]
        /\ claims' = [claims EXCEPT ![w] = {ClaimOn(e, attempts[e] + 1) : e \in rows}]
  BY DEF ClaimNotifications, ClaimBatch, NextAttempt
<1>2. UNCHANGED <<current, step, mails>> /\ claims[w] = {} /\ step[w] = "idle"
  BY DEF ClaimNotifications, ClaimBatch, jobVars
<1>3. attempts \in [Events -> Nat] /\ mails \in [Events -> Nat] /\ claims \in [Workers -> SUBSET Claim]
  BY DEF FencedInv, NotificationTypeOK, TypeOK
<1>4. /\ claims'[w] = {ClaimOn(e, attempts[e] + 1) : e \in rows}
      /\ \A u \in Workers \ {w} : claims'[u] = claims[u]
  BY <1>1, <1>3
<1> SUFFICES ASSUME NEW e \in Events
             PROVE  mails'[e] + Cardinality(Unsent(e)') <= attempts'[e]
  BY DEF MailsFit
<1>5. \A n \in Unsent(e)' : n \in Unsent(e) \/ (e \in rows /\ n = attempts[e] + 1)
  <2> SUFFICES ASSUME NEW n \in Unsent(e)', ~(e \in rows /\ n = attempts[e] + 1)
               PROVE  n \in Unsent(e)
    OBVIOUS
  <2>1. PICK u \in Workers :
          /\ ClaimOn(e, n) \in claims'[u]
          /\ current'[u] = ClaimOn(e, n) => step'[u] \in {"loaded", "begun"}
    BY DEF Unsent, ClaimOn
  <2>2. n \in 1..attempts[e]  BY <1>1, <1>3 DEF Unsent
  <2>3. u # w
    <3> SUFFICES ASSUME u = w PROVE FALSE
      OBVIOUS
    <3>1. PICK d \in rows : ClaimOn(e, n) = ClaimOn(d, attempts[d] + 1)  BY <1>4, <2>1
    <3> QED BY <3>1 DEF ClaimOn
  <2> QED BY <1>2, <1>4, <2>1, <2>2, <2>3 DEF Unsent
<1>6. /\ Cardinality(Unsent(e)) \in Nat /\ IsFiniteSet(Unsent(e))
      /\ mails[e] + Cardinality(Unsent(e)) <= attempts[e]
  BY UnsentIsFinite DEF MailsFit
<1>7. CASE e \in rows
  <2>1. attempts'[e] = attempts[e] + 1  BY <1>1, <1>7
  <2>2. Unsent(e)' \subseteq Unsent(e) \cup {attempts[e] + 1}  BY <1>5
  <2>3. attempts[e] + 1 \notin Unsent(e)  BY <1>3 DEF Unsent
  <2>4. /\ IsFiniteSet(Unsent(e) \cup {attempts[e] + 1})
        /\ Cardinality(Unsent(e) \cup {attempts[e] + 1}) = Cardinality(Unsent(e)) + 1
    BY <1>6, <2>3, FS_AddElement
  <2>5. /\ Cardinality(Unsent(e)') <= Cardinality(Unsent(e)) + 1
        /\ Cardinality(Unsent(e)') \in Nat
    BY <2>2, <2>4, FS_Subset, FS_CardinalityType
  <2> QED BY <1>2, <1>3, <1>6, <2>1, <2>5
<1>8. CASE e \notin rows
  <2>1. Unsent(e)' \subseteq Unsent(e)  BY <1>5, <1>8
  <2>2. Cardinality(Unsent(e)') \in Nat /\ Cardinality(Unsent(e)') <= Cardinality(Unsent(e))
    BY <2>1, UnsentIsFinite
  <2> QED BY <1>1, <1>2, <1>3, <1>6, <1>8, <2>2
<1> QED BY <1>7, <1>8

LEMMA SendKeepsMailsFit ==
  ASSUME FencedInv, MailsFit, NEW w \in Workers, SendEmail(w)
  PROVE  MailsFit'
<1>1. /\ mails' = [mails EXCEPT ![current[w].event] = @ + 1]
      /\ step' = [step EXCEPT ![w] = "accepted"] /\ step[w] = "begun"
      /\ UNCHANGED <<claims, attempts, current>>
  BY DEF SendEmail, Goto, vars
<1>2. /\ attempts \in [Events -> Nat] /\ mails \in [Events -> Nat] /\ claims \in [Workers -> SUBSET Claim]
      /\ step \in [Workers -> Step]
  BY DEF FencedInv, NotificationTypeOK, TypeOK
<1>3. current[w] \in claims[w] /\ current[w].event \in Events  BY <1>1, AtWork DEF FencedInv
<1>4. PICK d \in Events, k \in 1..MaxAttempts : d = current[w].event /\ current[w] = ClaimOn(d, k)
  BY <1>3, ClaimsAreRecords DEF FencedInv
<1>5. ASSUME NEW e \in Events PROVE Unsent(e)' \subseteq Unsent(e)
  <2> SUFFICES ASSUME NEW n \in Unsent(e)' PROVE n \in Unsent(e)
    OBVIOUS
  <2>1. PICK u \in Workers :
          /\ ClaimOn(e, n) \in claims[u]
          /\ current[u] = ClaimOn(e, n) => step'[u] \in {"loaded", "begun"}
    BY <1>1 DEF Unsent, ClaimOn
  <2>2. current[u] = ClaimOn(e, n) => step[u] \in {"loaded", "begun"}  BY <1>1, <1>2, <2>1
  <2> QED BY <1>1, <2>1, <2>2 DEF Unsent
<1>6. k \in Unsent(d) /\ k \notin Unsent(d)'
  <2>1. k <= attempts[d] /\ \A u \in Workers : current[w] \in claims[u] => u = w
    BY <1>3, <1>4, ClaimsAreRecords DEF FencedInv, ClaimsAreFenced, ClaimOn
  <2>2. k \in Unsent(d)  BY <1>1, <1>2, <1>3, <1>4, <2>1 DEF Unsent
  <2>3. ASSUME k \in Unsent(d)' PROVE FALSE
    <3>1. PICK u \in Workers :
            /\ ClaimOn(d, k) \in claims[u]
            /\ current[u] = ClaimOn(d, k) => step'[u] \in {"loaded", "begun"}
      BY <1>1, <2>3 DEF Unsent, ClaimOn
    <3>2. u = w  BY <1>4, <2>1, <3>1
    <3> QED BY <1>1, <1>2, <1>4, <3>1, <3>2
  <2> QED BY <2>2, <2>3
<1> SUFFICES ASSUME NEW e \in Events
             PROVE  mails'[e] + Cardinality(Unsent(e)') <= attempts'[e]
  BY DEF MailsFit
<1>7. /\ Cardinality(Unsent(e)) \in Nat /\ IsFiniteSet(Unsent(e))
      /\ mails[e] + Cardinality(Unsent(e)) <= attempts[e]
  BY UnsentIsFinite DEF MailsFit
<1>8. CASE e = d
  <2>1. Unsent(e)' \subseteq Unsent(e) \ {k}  BY <1>5, <1>6, <1>8
  <2>2. /\ IsFiniteSet(Unsent(e) \ {k}) /\ Cardinality(Unsent(e) \ {k}) = Cardinality(Unsent(e)) - 1
    BY <1>6, <1>7, <1>8, FS_RemoveElement
  <2>3. /\ Cardinality(Unsent(e)') <= Cardinality(Unsent(e)) - 1
        /\ Cardinality(Unsent(e)') \in Nat
    BY <2>1, <2>2, FS_Subset, FS_CardinalityType
  <2>4. mails'[e] = mails[e] + 1  BY <1>1, <1>2, <1>4, <1>8
  <2> QED BY <1>1, <1>2, <1>7, <2>3, <2>4
<1>9. CASE e # d
  <2>1. Cardinality(Unsent(e)') \in Nat /\ Cardinality(Unsent(e)') <= Cardinality(Unsent(e))
    BY <1>5, UnsentIsFinite
  <2> QED BY <1>1, <1>2, <1>4, <1>7, <1>9, <2>1
<1> QED BY <1>8, <1>9

LEMMA MailInvInit == NotificationInit => MailInv
<1> SUFFICES ASSUME NotificationInit PROVE MailInv
  OBVIOUS
<1>1. FencedInv  BY FencedInvInit
<1>2. \A e \in Events : Unsent(e) = {} /\ mails[e] = 0 /\ attempts[e] = 0
  BY DEF NotificationInit, Init, Unsent
<1>3. MailsFit  BY <1>2, FS_EmptySet DEF MailsFit
<1> QED BY <1>1, <1>3 DEF NotificationInit, MailInv, SentWasMailed

\* Claims that are dropped mail no more.
LEMMA WorkKeepsMailsFit ==
  ASSUME FencedInv, MailsFit, NEW w \in Workers, Work(w) \/ Crash(w)
  PROVE  MailsFit'
<1>0. claims \in [Workers -> SUBSET Claim] /\ current \in [Workers -> Claim \cup {NoClaim}] /\ step \in [Workers -> Step]
  BY DEF FencedInv, NotificationTypeOK, TypeOK
<1>1. CASE SendEmail(w)  BY <1>1, SendKeepsMailsFit
<1>2. CASE Load(w)
  <2>1. PICK c \in claims[w] : /\ current' = [current EXCEPT ![w] = c]
                               /\ Goto(w, IF MaySkip(c.event) THEN "returned" ELSE "loaded")
    BY <1>2 DEF Load
  <2>2. UNCHANGED <<claims, attempts, mails>> /\ current[w] = NoClaim
    BY <1>2 DEF Load, vars, FencedInv, NotificationTypeOK
  <2>3. NoClaim \notin claims[w]  BY <1>0, NotificationAssumption
  <2> QED BY <1>0, <2>1, <2>2, <2>3, FewerClaims DEF Goto
<1>3. CASE Cancel(w) \/ Begin(w) \/ RecordSent(w) \/ Throw(w)
  <2>1. /\ UNCHANGED <<claims, attempts, mails, current>>
        /\ \E s \in {"returned", "thrown"} : step' = [step EXCEPT ![w] = s]
        \/ /\ UNCHANGED <<claims, attempts, mails, current>>
           /\ step[w] = "loaded" /\ step' = [step EXCEPT ![w] = "begun"]
    BY <1>3 DEF Cancel, Begin, RecordSent, Throw, vars, Goto
  <2> QED BY <1>0, <2>1, FewerClaims
<1>4. CASE Succeed(w) \/ Fail(w)
  <2>1. /\ claims' = [claims EXCEPT ![w] = claims[w] \ {current[w]}] /\ UNCHANGED <<attempts, mails>>
    BY <1>4 DEF Succeed, Fail, MarkProcessed, MarkFailed, tableVars
  <2>2. \A u \in Workers \ {w} : current'[u] = current[u] /\ step'[u] = step[u]
    BY <1>0, <1>4 DEF Succeed, Fail, Idle, Goto
  <2>3. /\ claims'[w] = claims[w] \ {current[w]}
        /\ \A u \in Workers \ {w} : claims'[u] = claims[u]
    BY <1>0, <2>1
  <2> QED BY <2>1, <2>2, <2>3, FewerClaims
<1>5. CASE Demote(w)
  <2>1. Idle(w) /\ UNCHANGED <<claims, attempts, mails>>  BY <1>5 DEF Demote, vars
  <2>3. current[w] \notin claims[w]  BY <1>5 DEF Demote, FencedInv, GivenBack
  <2>4. /\ current' = [current EXCEPT ![w] = NoClaim] /\ step' = [step EXCEPT ![w] = "idle"]
    BY <2>1 DEF Idle, Goto
  <2> QED BY <1>0, <2>1, <2>3, <2>4, FewerClaims
<1>6. CASE Crash(w)
  <2>1. /\ claims' = [claims EXCEPT ![w] = {}] /\ UNCHANGED <<attempts, mails>>
        /\ current' = [current EXCEPT ![w] = NoClaim] /\ step' = [step EXCEPT ![w] = "idle"]
    BY <1>6 DEF Crash, Idle, Goto, tableVars
  <2> QED BY <1>0, <2>1, FewerClaims
<1> QED BY <1>1, <1>2, <1>3, <1>4, <1>5, <1>6 DEF Work

LEMMA StepKeepsMailInv == MailInv /\ [NotificationNext]_allVars => MailInv'
<1> SUFFICES ASSUME MailInv, [NotificationNext]_allVars PROVE MailInv'
  OBVIOUS
<1>0. /\ FencedInv /\ MailsFit /\ FencedInv'
      /\ delivery \in [Events -> DeliveryStatus] /\ mails \in [Events -> Nat] /\ step \in [Workers -> Step]
      /\ current \in [Workers -> Claim \cup {NoClaim}]
  BY StepKeepsFencedInv DEF MailInv, FencedInv, NotificationTypeOK
<1>1. CASE \E e \in Events : EnqueueNotification(e) \/ Wait(e)
  <2>1. /\ UNCHANGED <<attempts, claims, current, step, mails>>
        /\ \A e \in Events : delivery'[e] = delivery[e] \/ delivery'[e] = "QUEUED"
    BY <1>0, <1>1 DEF EnqueueNotification, Enqueue, Wait, ReachNextAttempt, LockTimesOut, jobVars
  <2>2. MailsFit'  BY <1>0, <2>1, NoMoreUnsent DEF Unsent
  <2> QED BY <1>0, <2>1, <2>2 DEF MailInv, SentWasMailed
<1>2. ASSUME NEW w \in Workers, ClaimNotifications(w) PROVE MailInv'
  <2>1. UNCHANGED <<delivery, current, step, mails>>  BY <1>2 DEF ClaimNotifications, jobVars
  <2> QED BY <1>0, <1>2, <2>1, ClaimKeepsMailsFit DEF MailInv, SentWasMailed
<1>3. ASSUME NEW w \in Workers, Work(w) \/ Crash(w) PROVE MailInv'
  <2>1. MailsFit'  BY <1>0, <1>3, WorkKeepsMailsFit
  <2>2. SentWasMailed'
    <3>1. CASE SendEmail(w)
      <4>1. current[w].event \in Events  BY <1>0, <3>1, AtWork DEF SendEmail, FencedInv
      <4> QED BY <1>0, <3>1, <4>1 DEF MailInv, SentWasMailed, SendEmail, Goto, vars
    <3>2. CASE RecordSent(w)
      <4>1. current[w].event \in Events  BY <1>0, <3>2, AtWork DEF RecordSent, FencedInv
      <4> QED BY <1>0, <3>2, <4>1 DEF MailInv, SentWasMailed, RecordSent, Goto
    <3>3. CASE ~SendEmail(w) /\ ~RecordSent(w)
      <4>1. /\ UNCHANGED mails /\ \A u \in Workers \ {w} : step'[u] = step[u] /\ current'[u] = current[u]
            /\ step'[w] # "accepted"
            /\ \A e \in Events : delivery'[e] = "SENT" => delivery[e] = "SENT"
        BY <1>0, <1>3, <3>3 DEF Work, Load, Cancel, Begin, Throw, Succeed, Fail, Demote, Crash, Idle, Goto, AfterFailure
      <4> QED BY <4>1 DEF MailInv, SentWasMailed
    <3> QED BY <3>1, <3>2, <3>3
  <2> QED BY <1>0, <2>1, <2>2 DEF MailInv
<1>4. CASE ToggleAccess \/ UNCHANGED allVars
  <2>1. UNCHANGED <<attempts, claims, current, step, mails, delivery>>
    BY <1>4 DEF ToggleAccess, allVars, jobVars, vars
  <2>2. MailsFit'  BY <1>0, <2>1, NoMoreUnsent DEF Unsent
  <2> QED BY <1>0, <2>1, <2>2 DEF MailInv, SentWasMailed
<1> QED BY <1>1, <1>2, <1>3, <1>4 DEF NotificationNext

LEMMA MailInvHolds == NotificationSpec => []MailInv
  BY MailInvInit, StepKeepsMailInv, PTL DEF NotificationSpec

------------------------
(* The two rows while workers are timely *)

LEMMA OnTimeInit == NotificationInit => OnTime
  BY DEF NotificationInit, Init, OnTime, InHand, Demoting, Returning, Settled

LEMMA ProducersKeepOnTime ==
  ASSUME FencedInv, OnTime, timely, NEW e \in Events, EnqueueNotification(e) \/ Wait(e)
  PROVE  OnTime'
<1>0. /\ status \in [Events -> Status] /\ attempts \in [Events -> 0..MaxAttempts]
      /\ lockedAt \in [Events -> {"null", "fresh", "stale"}] /\ claims \in [Workers -> SUBSET Claim]
      /\ due \in [Events -> BOOLEAN] /\ delivery \in [Events -> DeliveryStatus]
  BY DEF FencedInv, NotificationTypeOK, TypeOK
<1>1. UNCHANGED <<attempts, claims, current, step>>
  BY DEF EnqueueNotification, Enqueue, Wait, ReachNextAttempt, LockTimesOut, jobVars
<1>2. \A w \in Workers : \A c \in claims[w] : c.event \in Events /\ c = ClaimOn(c.event, c.attempt)
  BY ClaimsAreRecords DEF FencedInv
<1>3. \A w \in Workers : step[w] # "idle" => current[w].event \in Events  BY AtWork DEF FencedInv
<1>4. CASE EnqueueNotification(e)
  <2>1. /\ status[e] = "ABSENT" /\ status' = [status EXCEPT ![e] = "PENDING"] /\ lockedAt' = lockedAt
        /\ delivery' = [delivery EXCEPT ![e] = "QUEUED"]
        /\ \A f \in Events \ {e} : due'[f] = due[f]
    BY <1>0, <1>4 DEF EnqueueNotification, Enqueue
  <2>2. InHand'  BY <1>0, <1>1, <1>2, <2>1 DEF OnTime, InHand, Matches
  <2>3. Demoting'  BY <1>0, <1>1, <1>3, <2>1 DEF OnTime, Demoting
  <2>4. Returning'
    <3>1. \A w \in Workers : step[w] = "returned" => status[current[w].event] = "PROCESSING"
      BY AtWork DEF OnTime, InHand, Matches, FencedInv
    <3> QED BY <1>0, <1>1, <1>3, <2>1, <3>1 DEF OnTime, Returning
  <2>5. Settled'  BY <1>0, <2>1 DEF OnTime, Settled
  <2> QED BY <2>2, <2>3, <2>4, <2>5 DEF OnTime
<1>5. CASE Wait(e)
  <2>1. UNCHANGED <<status, delivery>>  BY <1>5 DEF Wait, ReachNextAttempt, LockTimesOut, jobVars
  <2>2. InHand'
    <3>1. lockedAt' = lockedAt \/ (lockedAt' = [lockedAt EXCEPT ![e] = "stale"] /\ \A w \in Workers : ClaimOn(e, attempts[e]) \notin claims[w])
      BY <1>5 DEF Wait, ReachNextAttempt, LockTimesOut
    <3> QED BY <1>0, <1>1, <1>2, <2>1, <3>1 DEF OnTime, InHand, Matches
  <2>3. Demoting'
    <3>1. due' = due \/ (due' = [due EXCEPT ![e] = TRUE] /\ \A w \in Workers : step[w] = "demote-retry" => current[w].event # e)
      BY <1>5 DEF Wait, ReachNextAttempt, LockTimesOut
    <3> QED BY <1>0, <1>1, <1>3, <2>1, <3>1 DEF OnTime, Demoting
  <2> QED BY <1>1, <2>1, <2>2, <2>3 DEF OnTime, Returning, Settled
<1> QED BY <1>4, <1>5

LEMMA ClaimKeepsOnTime ==
  ASSUME FencedInv, OnTime, timely, NEW w \in Workers, ClaimNotifications(w)
  PROVE  OnTime'
<1>0. /\ status \in [Events -> Status] /\ attempts \in [Events -> 0..MaxAttempts]
      /\ lockedAt \in [Events -> {"null", "fresh", "stale"}] /\ claims \in [Workers -> SUBSET Claim]
  BY DEF FencedInv, NotificationTypeOK, TypeOK
<1>1. PICK rows \in SUBSET {e \in Events : Claimable(e)} :
        /\ status' = [e \in Events |-> IF e \in rows THEN "PROCESSING" ELSE status[e]]
        /\ lockedAt' = [e \in Events |-> IF e \in rows THEN "fresh" ELSE lockedAt[e]]
        /\ attempts' = [e \in Events |-> IF e \in rows THEN attempts[e] + 1 ELSE attempts[e]]
        /\ claims' = [claims EXCEPT ![w] = {ClaimOn(e, attempts[e] + 1) : e \in rows}]
  BY DEF ClaimNotifications, ClaimBatch, NextAttempt
<1>2. UNCHANGED <<due, delivery, current, step>>  BY DEF ClaimNotifications, ClaimBatch, jobVars
<1>3. \A e \in rows : /\ e \in Events /\ lockedAt[e] # "fresh" /\ due[e]
                      /\ status[e] \in {"PENDING", "RETRY", "PROCESSING"}
  BY <1>1 DEF Claimable
<1>4. InHand'
  <2> SUFFICES ASSUME NEW u \in Workers, NEW c \in claims'[u]
               PROVE  /\ status'[c.event] = "PROCESSING" /\ attempts'[c.event] = c.attempt
                      /\ lockedAt'[c.event] = "fresh"
    BY DEF InHand, Matches
  <2>1. CASE u = w
    <3>1. PICK e \in rows : c = ClaimOn(e, attempts[e] + 1)  BY <1>0, <1>1, <2>1
    <3> QED BY <1>1, <1>3, <3>1 DEF ClaimOn
  <2>2. CASE u # w
    <3>1. c \in claims[u]  BY <1>0, <1>1, <2>2
    <3>2. /\ c.event \in Events /\ status[c.event] = "PROCESSING" /\ attempts[c.event] = c.attempt
          /\ lockedAt[c.event] = "fresh"
      BY <3>1, ClaimsAreRecords DEF OnTime, InHand, Matches, FencedInv
    <3> QED BY <1>1, <1>3, <3>2
  <2> QED BY <2>1, <2>2
<1>5. Demoting'
  <2> SUFFICES ASSUME NEW u \in Workers
               PROVE  /\ step[u] = "demote-retry" => status'[current[u].event] = "RETRY" /\ ~due[current[u].event]
                      /\ step[u] = "demote-failed" => status'[current[u].event] = "DEAD"
    BY <1>2 DEF Demoting
  <2>1. step[u] \in {"demote-retry", "demote-failed"} => current[u].event \in Events
    BY AtWork DEF FencedInv
  <2> QED BY <1>1, <1>3, <2>1 DEF OnTime, Demoting
<1>6. Settled'  BY <1>1, <1>2, <1>3 DEF OnTime, Settled
<1> QED BY <1>2, <1>4, <1>5, <1>6 DEF OnTime, Returning

\* Whoever else works on this row holds another claim, hence none.
LEMMA OnlyClaimant ==
  ASSUME FencedInv, InHand, NEW w \in Workers, NEW u \in Workers,
         step[w] \notin {"idle", "demote-retry", "demote-failed"},
         step[u] \notin {"idle", "demote-retry", "demote-failed"},
         current[u].event = current[w].event
  PROVE  u = w
<1>1. current[u] \in claims[u] /\ current[w] \in claims[w]  BY AtWork DEF FencedInv
<1>2. current[u].attempt = current[w].attempt  BY <1>1 DEF InHand, Matches
<1>3. current[u] = current[w]  BY <1>1, <1>2, ClaimsAreRecords DEF FencedInv
<1> QED BY <1>1, <1>3 DEF FencedInv, ClaimsAreFenced

\* The steps that leave the outbox row alone.
LEMMA DeliveryKeepsOnTime ==
  ASSUME FencedInv, OnTime, timely, NEW w \in Workers,
         Load(w) \/ Cancel(w) \/ Begin(w) \/ SendEmail(w) \/ RecordSent(w) \/ Throw(w)
  PROVE  OnTime'
<1>0. /\ delivery \in [Events -> DeliveryStatus] /\ step \in [Workers -> Step]
      /\ current \in [Workers -> Claim \cup {NoClaim}]
      /\ InHand /\ Demoting /\ Returning /\ Settled
  BY DEF FencedInv, NotificationTypeOK, OnTime
<1>1. UNCHANGED <<status, attempts, lockedAt, due, claims>>
  BY DEF Load, Cancel, Begin, SendEmail, RecordSent, Throw, vars
<1>2. /\ \A u \in Workers \ {w} : step'[u] = step[u] /\ current'[u] = current[u]
      /\ step'[w] \notin {"demote-retry", "demote-failed"}
  BY <1>0 DEF Load, Cancel, Begin, SendEmail, RecordSent, Throw, Goto
<1>3. InHand' /\ Demoting'  BY <1>0, <1>1, <1>2 DEF InHand, Matches, Demoting
<1>4. CASE Load(w)
  <2>1. PICK c \in claims[w] : /\ current' = [current EXCEPT ![w] = c]
                               /\ Goto(w, IF MaySkip(c.event) THEN "returned" ELSE "loaded")
    BY <1>4 DEF Load
  <2>2. step'[w] = "returned" => delivery[current'[w].event] = "SENT"  BY <1>0, <2>1 DEF Goto, MaySkip
  <2>3. delivery' = delivery  BY <1>4 DEF Load
  <2> QED BY <1>0, <1>1, <1>2, <1>3, <2>2, <2>3 DEF OnTime, Returning, Settled
<1>5. CASE SendEmail(w) \/ Throw(w)
  <2>1. UNCHANGED <<delivery, current>> /\ step'[w] # "returned"
    BY <1>0, <1>5 DEF SendEmail, Throw, Goto
  <2> QED BY <1>0, <1>1, <1>2, <1>3, <2>1 DEF OnTime, Returning, Settled
<1>6. CASE Cancel(w) \/ Begin(w) \/ RecordSent(w)
  <2>1. PICK e \in Events : e = current[w].event
    BY <1>6, AtWork DEF Cancel, Begin, RecordSent, FencedInv
  <2>2. /\ step[w] \in {"loaded", "accepted"} /\ current' = current
        /\ \A f \in Events \ {e} : delivery'[f] = delivery[f]
        /\ delivery'[e] \in {"SENT", "CANCELLED", "PROCESSING"}
        /\ step'[w] = "returned" => delivery'[e] \in {"SENT", "CANCELLED"}
    BY <1>0, <1>6, <2>1 DEF Cancel, Begin, RecordSent, Goto
  <2>3. status[e] = "PROCESSING"  BY <1>0, <2>1, <2>2, AtWork DEF InHand, Matches, FencedInv
  <2>4. Settled'  BY <1>0, <1>1, <2>2, <2>3 DEF Settled
  <2>5. ASSUME NEW u \in Workers, step'[u] = "returned" PROVE delivery'[current'[u].event] \in {"SENT", "CANCELLED"}
    <3>1. CASE u = w  BY <2>1, <2>2, <2>5, <3>1
    <3>2. CASE u # w
      <4>1. step[u] = "returned" /\ current[u].event \in Events
        BY <1>2, <2>5, <3>2, AtWork DEF FencedInv
      <4>2. current[u].event # e  BY <1>0, <2>1, <2>2, <3>2, <4>1, OnlyClaimant
      <4> QED BY <1>0, <2>2, <4>1, <4>2 DEF Returning
    <3> QED BY <3>1, <3>2
  <2> QED BY <1>3, <2>4, <2>5 DEF OnTime, Returning
<1> QED BY <1>4, <1>5, <1>6

LEMMA SettlingKeepsOnTime ==
  ASSUME FencedInv, OnTime, timely, NEW w \in Workers, Succeed(w) \/ Fail(w)
  PROVE  OnTime'
<1>0. /\ status \in [Events -> Status] /\ attempts \in [Events -> 0..MaxAttempts]
      /\ lockedAt \in [Events -> {"null", "fresh", "stale"}] /\ due \in [Events -> BOOLEAN]
      /\ claims \in [Workers -> SUBSET Claim]
      /\ step \in [Workers -> Step] /\ current \in [Workers -> Claim \cup {NoClaim}]
      /\ InHand /\ Demoting /\ Returning /\ Settled
  BY DEF FencedInv, NotificationTypeOK, TypeOK, OnTime
<1>1. PICK e \in Events : e = current[w].event  BY AtWork DEF Succeed, Fail, FencedInv
<1>2. /\ current[w] \in claims[w] /\ step[w] \in {"returned", "thrown"} /\ delivery' = delivery
      /\ claims' = [claims EXCEPT ![w] = claims[w] \ {current[w]}] /\ attempts' = attempts
  BY DEF Succeed, Fail, MarkProcessed, MarkFailed, tableVars
<1>3. Matches(current[w]) /\ status[e] = "PROCESSING"  BY <1>0, <1>1, <1>2 DEF InHand, Matches
<1>4. /\ \A f \in Events \ {e} : status'[f] = status[f] /\ lockedAt'[f] = lockedAt[f] /\ due'[f] = due[f]
      /\ \A u \in Workers \ {w} : step'[u] = step[u] /\ current'[u] = current[u]
  BY ZenonT(40), <1>0, <1>1, <1>3 DEF Succeed, Fail, MarkProcessed, MarkFailed, tableVars, Idle, Goto
<1>5. \/ /\ status'[e] = "PROCESSED" /\ step[w] = "returned" /\ step'[w] = "idle"
      \/ /\ status'[e] = "RETRY" /\ due'[e] = FALSE /\ step'[w] = "demote-retry" /\ current'[w] = current[w]
      \/ /\ status'[e] = "DEAD" /\ step'[w] = "demote-failed" /\ current'[w] = current[w]
  <2>1. CASE Succeed(w)  BY <1>0, <1>1, <1>3, <2>1 DEF Succeed, MarkProcessed, Idle, Goto
  <2>2. CASE Fail(w)
    BY <1>0, <1>1, <1>3, <2>2 DEF Fail, MarkFailed, Goto, AfterFailure, IsLastAttempt
  <2> QED BY <2>1, <2>2
<1>6. ASSUME NEW u \in Workers, NEW c \in claims'[u] PROVE c \in claims[u] /\ c.event \in Events /\ c.event # e
  <2>1. c \in claims[u] /\ c.event \in Events /\ c = ClaimOn(c.event, c.attempt)
    BY <1>0, <1>2, <1>6, ClaimsAreRecords DEF FencedInv
  <2>2. current[w] = ClaimOn(e, current[w].attempt)  BY <1>1, <1>2, ClaimsAreRecords DEF FencedInv
  <2>3. ASSUME c.event = e PROVE FALSE
    <3>1. c = current[w]  BY <1>0, <1>1, <1>2, <2>1, <2>2, <2>3 DEF InHand, Matches
    <3>2. u = w  BY <1>2, <2>1, <3>1 DEF FencedInv, ClaimsAreFenced
    <3> QED BY <1>0, <1>2, <1>6, <3>1, <3>2
  <2> QED BY <2>1, <2>3
<1>7. InHand'  BY <1>0, <1>2, <1>4, <1>6 DEF InHand, Matches
<1>8. Demoting'
  <2> SUFFICES ASSUME NEW u \in Workers
               PROVE  /\ step'[u] = "demote-retry" => status'[current'[u].event] = "RETRY" /\ ~due'[current'[u].event]
                      /\ step'[u] = "demote-failed" => status'[current'[u].event] = "DEAD"
    BY DEF Demoting
  <2>1. CASE u = w  BY <1>1, <1>5, <2>1
  <2>2. CASE u # w
    <3>1. step[u] \in {"demote-retry", "demote-failed"} => current[u].event \in Events /\ current[u].event # e
      BY <1>0, <1>3, AtWork DEF FencedInv, Demoting
    <3> QED BY <1>0, <1>4, <2>2, <3>1 DEF Demoting
  <2> QED BY <2>1, <2>2
<1>9. Returning'  BY <1>0, <1>2, <1>4, <1>5 DEF Returning
<1>10. Settled'  BY <1>0, <1>1, <1>2, <1>3, <1>4, <1>5 DEF Settled, Returning
<1> QED BY <1>7, <1>8, <1>9, <1>10 DEF OnTime

LEMMA DemoteKeepsOnTime ==
  ASSUME FencedInv, OnTime, timely, NEW w \in Workers, Demote(w)
  PROVE  OnTime'
<1>0. /\ delivery \in [Events -> DeliveryStatus]
      /\ step \in [Workers -> Step] /\ current \in [Workers -> Claim \cup {NoClaim}]
      /\ InHand /\ Demoting /\ Returning /\ Settled
  BY DEF FencedInv, NotificationTypeOK, OnTime
<1>1. PICK e \in Events : e = current[w].event  BY AtWork DEF Demote, FencedInv
<1>2. /\ UNCHANGED <<status, attempts, lockedAt, due, claims>>
      /\ \A u \in Workers \ {w} : step'[u] = step[u] /\ current'[u] = current[u]
      /\ step'[w] = "idle"
      /\ \A f \in Events \ {e} : delivery'[f] = delivery[f]
  BY <1>0, <1>1 DEF Demote, Idle, Goto, vars
<1>3. /\ status[e] \in {"RETRY", "DEAD"}
      /\ delivery'[e] = "FAILED" => delivery[e] = "FAILED" \/ status[e] = "DEAD"
  BY <1>0, <1>1 DEF Demote, Demoting
<1>4. InHand' /\ Demoting' /\ Settled'  BY <1>0, <1>2, <1>3 DEF InHand, Matches, Demoting, Settled
<1>5. Returning'
  <2> SUFFICES ASSUME NEW u \in Workers, step'[u] = "returned"
               PROVE  delivery'[current'[u].event] \in {"SENT", "CANCELLED"}
    BY DEF Returning
  <2>1. u # w /\ step[u] = "returned" /\ current'[u] = current[u]  BY <1>2
  <2>2. current[u].event \in Events /\ status[current[u].event] = "PROCESSING"
    BY <1>0, <2>1, AtWork DEF FencedInv, InHand, Matches
  <2> QED BY <1>0, <1>2, <1>3, <2>1, <2>2 DEF Returning
<1> QED BY <1>4, <1>5 DEF OnTime

LEMMA CrashKeepsOnTime ==
  ASSUME FencedInv, OnTime, timely, NEW w \in Workers, Crash(w)
  PROVE  OnTime'
<1>0. /\ claims \in [Workers -> SUBSET Claim]
      /\ step \in [Workers -> Step] /\ current \in [Workers -> Claim \cup {NoClaim}]
      /\ InHand /\ Demoting /\ Returning /\ Settled
  BY DEF FencedInv, NotificationTypeOK, TypeOK, OnTime
<1>1. /\ UNCHANGED <<status, attempts, lockedAt, due, delivery>>
      /\ \A u \in Workers : claims'[u] \subseteq claims[u]
      /\ \A u \in Workers \ {w} : step'[u] = step[u] /\ current'[u] = current[u]
      /\ step'[w] = "idle"
  BY <1>0 DEF Crash, Idle, Goto, tableVars
<1> QED BY <1>0, <1>1 DEF OnTime, InHand, Matches, Demoting, Returning, Settled

LEMMA StepKeepsOnTime == FencedInv /\ OnTime /\ [NotificationNext]_allVars => OnTime'
<1> SUFFICES ASSUME FencedInv, OnTime, [NotificationNext]_allVars PROVE OnTime'
  OBVIOUS
<1>1. timely' = timely
  BY DEF NotificationNext, EnqueueNotification, Wait, ClaimNotifications, Work, Load, Cancel, Begin, SendEmail,
         RecordSent, Throw, Succeed, Fail, Demote, Crash, ToggleAccess, allVars, jobVars
<1>2. CASE ~timely  BY <1>1, <1>2 DEF OnTime
<1>3. CASE timely
  <2>1. CASE ToggleAccess \/ UNCHANGED allVars
    <3>1. UNCHANGED <<status, attempts, lockedAt, due, claims, delivery, current, step>>
      BY <2>1 DEF ToggleAccess, allVars, jobVars, vars
    <3> QED BY <1>3, <3>1 DEF OnTime, InHand, Matches, Demoting, Returning, Settled
  <2> QED BY <1>3, <2>1, ProducersKeepOnTime, ClaimKeepsOnTime, DeliveryKeepsOnTime, SettlingKeepsOnTime,
       DemoteKeepsOnTime, CrashKeepsOnTime DEF NotificationNext, Work
<1> QED BY <1>2, <1>3

\* The outbox row and the delivery row agree although they are updated one after the other and
\* half of the updates match by id alone: with any number of workers that overlap and die, a
\* notification called SENT did go out and there are no more mails than attempts; with workers
\* faster than their locks, PROCESSED means sent or refused, and FAILED is dead-lettered.
THEOREM NotificationRowsAgree == NotificationSpec => []RowsAgree
<1>1. MailInv /\ OnTime => RowsAgree
  <2> SUFFICES ASSUME MailInv, OnTime, NEW e \in Events PROVE mails[e] <= attempts[e]
    BY DEF MailInv, SentWasMailed, OnTime, Settled, RowsAgree
  <2>1. Cardinality(Unsent(e)) \in Nat /\ mails[e] \in Nat /\ attempts[e] \in Nat
    BY UnsentIsFinite DEF MailInv, FencedInv, NotificationTypeOK, TypeOK
  <2> QED BY <2>1 DEF MailInv, MailsFit
<1>2. NotificationSpec => []OnTime
  <2>1. FencedInv /\ OnTime /\ [NotificationNext]_allVars => OnTime'  BY StepKeepsOnTime
  <2> QED BY <2>1, OnTimeInit, FencedInvHolds, PTL DEF NotificationSpec
<1> QED BY <1>1, <1>2, MailInvHolds, PTL
================================================================================
