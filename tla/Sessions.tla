-------------------------------- MODULE Sessions --------------------------------
(***************************************************************************)
(* The sessions of one person: signing in, the rotation of refresh         *)
(* credentials, revocation, passwords, suspension, and the gate every      *)
(* request passes (auth.service, sessionSecurity.service, session.service, *)
(* user.service, checkAuth and authRuntimeCache).                          *)
(*                                                                         *)
(* A browser keeps its cookies in one jar that its tabs share; a request   *)
(* sends what was in the jar when it started, and its answer changes the   *)
(* jar when it arrives.  A refresh locks the row of its session; every     *)
(* other handler is a series of single statements.                         *)
(***************************************************************************)
EXTENDS Naturals, Sequences, FiniteSets

CONSTANTS
    Devices,      \* number of browsers
    Tabs,         \* concurrent requests
    Rows,         \* bound: sessions that can be created; rows are numbered as created
    Credentials,  \* bound: refresh credentials that can be issued
    MaxSessions,  \* MAX_SESSIONS
    Passwords,    \* bound: passwords the account has had
    Mixes,        \* sets of handlers, one of which is in use in a behaviour
    NoCall

Browsers == 1..Devices
Ids == 1..Rows

\* What checkAuth looks up: the account, its tenant, the session; "account" and
\* "tenant" are 0 and Rows + 1 so that keys are numbers.
Account == 0
Tenant == Rows + 1
Keys == 0..(Rows + 1)

\* REUSED: deleted because an old credential was presented.
RowStatus == {"NONE", "OPEN", "GONE", "REUSED"}

\* An account that is deleted is treated as a suspended one.
AccountStatus == {"PENDING", "ACTIVE", "SUSPENDED"}

\* The columns of a row, and what a browser keeps; 0 is none.  late is a history: the row
\* was inserted by a sign-in that was accepted before a deletion of sessions it was subject
\* to, and missed it.
Columns == [status : RowStatus, hash : Nat, prev : Nat, family : Nat, recent : BOOLEAN, password : Nat,
            late : BOOLEAN]
Cookies == [session : 0..Rows, refresh : Nat]

\* What a handler has read.
Call ==
    [op : {"create"}, browser : Browsers, status : AccountStatus, password : Nat, next : {"validate", "activate"}]
    \cup [op : {"validate"}, browser : Browsers, session : Ids, status : AccountStatus, password : Nat]
    \cup [op : {"activate", "others"}, browser : Browsers, session : Ids, password : Nat]
    \cup [op : {"bind"}, browser : Browsers, session : Ids, keep : Nat, password : Nat]
    \cup [op : {"refresh"}, browser : Browsers, session : Ids, refresh : Nat]
    \cup [op : {"rotate"}, browser : Browsers, session : Ids, refresh : Nat, row : Columns]
    \cup [op : {"logout"}, browser : Browsers, session : Ids]
    \cup [op : {"find", "revoke"}, browser : Browsers \cup {0}, password : Nat, keys : SUBSET Keys]
    \cup [op : {"invalidate"}, browser : Browsers \cup {0}, keys : SUBSET Keys, jar : Cookies]
    \cup [op : {"answer"}, browser : Browsers, jar : Cookies]
    \cup [op : {"look", "admitted"}, session : 0..Rows, late : BOOLEAN, todo : Seq(Keys)]
    \cup [op : {"fill"}, session : 0..Rows, late : BOOLEAN, todo : Seq(Keys),
          value : {"ok", "bad"}, leads : BOOLEAN]

ASSUME SessionsAssumption ==
    /\ {Devices, Rows, Credentials, MaxSessions, Passwords} \subseteq Nat \ {0}
    /\ Devices \leq Rows
    /\ NoCall \notin Call

VARIABLES
    account,     \* [status, verified, tenant, password]
    session,     \* [Ids -> row of the session table]
    credential,  \* the refresh credentials issued: [family, from] each
    jar,         \* [Browsers -> [session, refresh]]; 0 is none
    call,        \* [Tabs -> what a handler has read, or NoCall]
    cache,       \* [Keys -> what Redis holds for checkAuth]
    settled,     \* password of the last change or reset that was answered
    ops          \* never changes: the handlers in use

sessionVars == <<account, session, credential, jar, call, cache, settled, ops>>

\* The browsers that are in use: one is enough for some questions.
Using == IF "alone" \in ops THEN {1} ELSE Browsers

NoRow == [status |-> "NONE", hash |-> 0, prev |-> 0, family |-> 0, recent |-> FALSE,
          password |-> 0, late |-> FALSE]
Empty == [session |-> 0, refresh |-> 0]

\* Credentials issued before they were stored have no family, and their sessions no hash.
Stored(c) == IF "legacy" \in ops THEN 0 ELSE c

\* Nobody is signed in, or every browser in use is.
InitSessions ==
    /\ ops \in Mixes
    /\ account = [status |-> IF "verify" \in ops THEN "PENDING" ELSE "ACTIVE",
                  verified |-> "verify" \notin ops, tenant |-> "ACTIVE", password |-> 1]
    /\ IF ops \cap {"login", "verify"} # {}
       THEN /\ session = [s \in Ids |-> NoRow]
            /\ credential = <<>>
            /\ jar = [b \in Browsers |-> Empty]
       ELSE /\ session = [s \in Ids |-> IF s \notin Using THEN NoRow
                            ELSE [status |-> "OPEN", hash |-> Stored(s), prev |-> 0,
                                  family |-> Stored(s), recent |-> FALSE, password |-> 1, late |-> FALSE]]
            /\ credential = [c \in 1..Cardinality(Using) |-> [family |-> Stored(c), from |-> 0]]
            /\ jar = [b \in Browsers |-> IF b \in Using THEN [session |-> b, refresh |-> b] ELSE Empty]
    /\ call = [t \in Tabs |-> NoCall]
    /\ cache = [k \in Keys |-> "none"]
    /\ settled = 1

Open(s) == s # 0 /\ session[s].status = "OPEN"
OpenRows == {s \in Ids : Open(s)}

At(t, op) == call[t] # NoCall /\ call[t].op = op
Go(t, c) == call' = [call EXCEPT ![t] = c]
End(t) == Go(t, NoCall)

\* The answer that a browser is waiting for.
Answer(t, b, j) == Go(t, [op |-> "answer", browser |-> b, jar |-> j])
Refuse(t, b) == Answer(t, b, Empty)

Starts(t, op) == op \in ops /\ call[t] = NoCall

\* Mutation of LockFree: nobody waits.
LockFreeAlways(t, S) == TRUE

\* No other request holds the lock of a row: statements on it wait.
LockFree(t, S) == \A u \in Tabs \ {t} : ~(At(u, "rotate") /\ call[u].session \in S)

\* Rows that are deleted wait for their locks.
Delete(t, S) ==
    /\ LockFree(t, S)
    /\ session' = [s \in Ids |-> IF s \in S /\ Open(s) THEN [session[s] EXCEPT !.status = "GONE"]
                                 ELSE session[s]]

\* The last step of a handler: Redis forgets the keys, unless it is down.  Browser 0: no
\* cookie changes.
Invalidated(t, b, keys, j) ==
    Go(t, [op |-> "invalidate", browser |-> b, keys |-> keys, jar |-> j])

Invalidate(t) ==
    /\ At(t, "invalidate")
    /\ \/ cache' = [k \in Keys |-> IF k \in call[t].keys THEN "none" ELSE cache[k]]
       \/ "outage" \in ops /\ UNCHANGED cache
    /\ IF call[t].browser = 0 THEN End(t) ELSE Answer(t, call[t].browser, call[t].jar)
    /\ UNCHANGED <<account, session, credential, jar, settled, ops>>

--------------------------------------------------------------------------------
(* Signing in *)

\* assertAccountCanUseAuthenticatedApp
MayUse(status, tenant) == status = "ACTIVE" /\ tenant = "ACTIVE"

NextRow ==
    CHOOSE s \in Ids : session[s].status = "NONE" /\ \A r \in 1..(s - 1) : session[r].status # "NONE"

MoreRows == \E s \in Ids : session[s].status = "NONE"

\* A suspension that has not come to its deletion of the sessions.
Suspending == \E t \in Tabs : At(t, "find") \/ At(t, "revoke")

\* The sign-in was accepted with a password, or for an active account, whose sessions have
\* been deleted since.
Overdue(c) ==
    \/ c.password < settled
    \/ c.status = "ACTIVE" /\ account.status = "SUSPENDED" /\ ~Suspending

\* A session as Better Auth creates it.
Unbound(c) == [status |-> "OPEN", hash |-> 0, prev |-> 0, family |-> 0, recent |-> FALSE,
               password |-> c.password, late |-> Overdue(c)]

\* Better Auth reads the account, with its password, and compares them.
SignIn(t, b) ==
    /\ Starts(t, "login")
    /\ account.verified
    /\ Go(t, [op |-> "create", browser |-> b, status |-> account.status, password |-> account.password,
              next |-> "validate"])
    /\ UNCHANGED <<account, session, credential, jar, cache, settled, ops>>

\* Its last statement: a session without a credential, whatever became of the account.
CreateSession(t) ==
    LET c == call[t] IN
    /\ At(t, "create") /\ MoreRows
    /\ session' = [session EXCEPT ![NextRow] = Unbound(c)]
    /\ Go(t, IF c.next = "activate"
              THEN [op |-> "activate", browser |-> c.browser, session |-> NextRow, password |-> c.password]
              ELSE [op |-> "validate", browser |-> c.browser, session |-> NextRow, status |-> c.status,
                    password |-> c.password])
    /\ UNCHANGED <<account, credential, jar, cache, settled, ops>>

\* The status is the one Better Auth returned, the tenant's is read now.
Validate(t) ==
    /\ At(t, "validate")
    /\ IF MayUse(call[t].status, account.tenant)
       THEN /\ Go(t, [op |-> "bind", browser |-> call[t].browser, session |-> call[t].session,
                      keep |-> MaxSessions, password |-> call[t].password])
            /\ UNCHANGED session
       ELSE /\ Delete(t, {call[t].session})
            /\ End(t)
    /\ UNCHANGED <<account, credential, jar, cache, settled, ops>>

\* assertEmailVerificationCandidate and Better Auth's check of the code, which goes on to
\* create a session.
VerifyEmail(t, b) ==
    /\ Starts(t, "verify")
    /\ ~account.verified
    /\ account' = [account EXCEPT !.verified = TRUE]
    /\ Go(t, [op |-> "create", browser |-> b, status |-> account.status, password |-> account.password,
              next |-> "activate"])
    /\ UNCHANGED <<session, credential, jar, cache, settled, ops>>

\* The status is not looked at.
Activate(t) ==
    /\ At(t, "activate")
    /\ account' = [account EXCEPT !.status = "ACTIVE"]
    /\ Go(t, [op |-> "bind", browser |-> call[t].browser, session |-> call[t].session,
              keep |-> MaxSessions, password |-> call[t].password])
    /\ UNCHANGED <<session, credential, jar, cache, settled, ops>>

\* The n - 1 newest of S: those that stay beside the one that is bound.
Newest(S, n) == {s \in S : Cardinality({r \in S : r > s}) < n - 1}

MoreCredentials == Len(credential) < Credentials
NextCredential == Len(credential) + 1

\* bindRefreshCredentialToSession: one statement that binds a new credential of a new
\* family, or finds the session gone, and deletes the oldest sessions of the person.
Bind(t) ==
    LET s == call[t].session
        others == OpenRows \ {s}
        excess == others \ Newest(others, call[t].keep)
        c == NextCredential
    IN
    /\ At(t, "bind") /\ MoreCredentials
    /\ \/ /\ Open(s)
          /\ LockFree(t, {s} \cup excess)
          /\ session' = [r \in Ids |->
                IF r = s THEN [status |-> "OPEN", hash |-> c, prev |-> 0, family |-> c,
                               recent |-> FALSE, password |-> call[t].password, late |-> session[s].late]
                ELSE IF r \in excess THEN [session[r] EXCEPT !.status = "GONE"]
                ELSE session[r]]
          /\ credential' = Append(credential, [family |-> c, from |-> 0])
          /\ settled' = IF call[t].keep = 1 THEN call[t].password ELSE settled
          /\ Invalidated(t, call[t].browser,
                         excess \cup {Account} \cup (IF call[t].keep = 1 THEN {s} ELSE {}),
                         [session |-> s, refresh |-> c])
       \/ ~Open(s) /\ End(t) /\ UNCHANGED <<session, credential, settled>>
    /\ UNCHANGED <<account, jar, cache, ops>>

--------------------------------------------------------------------------------
(* Refreshing *)

\* The browser asks when its access token has expired: not within the grace after it got
\* a new one, unless requests are slow.
Expired(b) ==
    LET row == session[jar[b].session]
    IN "slow" \in ops \/ ~row.recent \/ jar[b].refresh # row.hash

StartRefresh(t, b) ==
    /\ Starts(t, "refresh")
    /\ jar[b].session # 0 /\ jar[b].refresh # 0
    /\ Expired(b)
    /\ Go(t, [op |-> "refresh", browser |-> b, session |-> jar[b].session,
              refresh |-> jar[b].refresh])
    /\ UNCHANGED <<account, session, credential, jar, cache, settled, ops>>

\* SELECT ... FOR UPDATE; the tenant is not looked at.
LockSession(t) ==
    LET c == call[t] IN
    /\ At(t, "refresh")
    /\ LockFree(t, {c.session})
    /\ IF Open(c.session) /\ MayUse(account.status, "ACTIVE")
       THEN Go(t, [op |-> "rotate", browser |-> c.browser, session |-> c.session,
                   refresh |-> c.refresh, row |-> session[c.session]])
       ELSE Refuse(t, c.browser)
    /\ UNCHANGED <<account, session, credential, jar, cache, settled, ops>>

\* Mutation of WithinGrace: there is no grace.
NeverWithinGrace(row, refresh) == FALSE

\* The credential before the current one, a few seconds after it was replaced.
WithinGrace(row, refresh) == row.prev = refresh /\ row.recent

Current(row, refresh) == row.hash = 0 \/ row.hash = refresh

FamilyMismatch(row, refresh) ==
    row.family # 0 /\ credential[refresh].family \notin {0, row.family}

\* An old session gets the family its credential claims, or a new one.
FamilyOf(row, refresh) ==
    IF row.family # 0 THEN row.family
    ELSE IF credential[refresh].family # 0 THEN credential[refresh].family ELSE NextCredential

\* Sessions of one family go together; a session without one goes alone.
Family(row, s) == IF row.family = 0 THEN {s} ELSE {r \in OpenRows : session[r].family = row.family}

Rotated(row, refresh, family) ==
    [status |-> row.status, hash |-> NextCredential, prev |-> refresh, family |-> family,
     recent |-> TRUE, password |-> row.password, late |-> row.late]

\* The rest of the transaction: rotate, let a second tab pass, or revoke the family.
Rotate(t) ==
    LET c == call[t]
        s == c.session
        mismatch == FamilyMismatch(c.row, c.refresh)
        f == FamilyOf(c.row, c.refresh)
    IN
    /\ At(t, "rotate")
    /\ \/ /\ ~mismatch /\ Current(c.row, c.refresh)
          /\ MoreCredentials
          /\ session' = [session EXCEPT ![s] = Rotated(session[s], c.refresh, f)]
          /\ credential' = Append(credential, [family |-> f, from |-> c.refresh])
          /\ Answer(t, c.browser, [session |-> s, refresh |-> NextCredential])
       \/ /\ ~mismatch /\ ~Current(c.row, c.refresh) /\ WithinGrace(c.row, c.refresh)
          /\ Answer(t, c.browser, [session |-> s, refresh |-> 0])
          /\ UNCHANGED <<session, credential>>
       \/ /\ mismatch \/ (~Current(c.row, c.refresh) /\ ~WithinGrace(c.row, c.refresh))
          /\ session' = [r \in Ids |-> IF r \in Family(c.row, s)
                                       THEN [session[r] EXCEPT !.status = "REUSED"]
                                       ELSE session[r]]
          /\ Invalidated(t, c.browser, Family(c.row, s) \cup {Account}, Empty)
          /\ UNCHANGED credential
    /\ UNCHANGED <<account, jar, cache, settled, ops>>

\* A credential that a tab may still present.
InUse(c) ==
    \/ \E b \in Browsers : jar[b].refresh = c
    \/ \E t \in Tabs : (At(t, "refresh") \/ At(t, "rotate")) /\ call[t].refresh = c

\* REFRESH_TOKEN_REUSE_GRACE_MS pass; unless requests are slow, all that were under way
\* have been answered by then.
GraceLapses(s) ==
    /\ session[s].recent
    /\ "slow" \in ops \/ ~InUse(session[s].prev)
    /\ session' = [session EXCEPT ![s].recent = FALSE]
    /\ UNCHANGED <<account, credential, jar, call, cache, settled, ops>>

\* Set-Cookie: a refresh cookie that is not sent stays, an empty answer clears the jar.
Arrive(t) ==
    LET j == call[t].jar
        b == call[t].browser
    IN
    /\ At(t, "answer")
    /\ jar' = [jar EXCEPT ![b] = IF j.refresh = 0 /\ j.session # 0
                                 THEN [@ EXCEPT !.session = j.session] ELSE j]
    /\ End(t)
    /\ UNCHANGED <<account, session, credential, cache, settled, ops>>

LoseAnswer(t) ==
    /\ "lose" \in ops
    /\ At(t, "answer")
    /\ End(t)
    /\ UNCHANGED <<account, session, credential, jar, cache, settled, ops>>

\* The process dies: locks are gone, nothing else is undone.
Die(t) ==
    /\ "die" \in ops
    /\ call[t] # NoCall
    /\ End(t)
    /\ UNCHANGED <<account, session, credential, jar, cache, settled, ops>>

--------------------------------------------------------------------------------
(* Revocation and passwords *)

StartLogout(t, b) ==
    /\ Starts(t, "logout")
    /\ jar[b].session # 0
    /\ Go(t, [op |-> "logout", browser |-> b, session |-> jar[b].session])
    /\ UNCHANGED <<account, session, credential, jar, cache, settled, ops>>

\* revokeSessionByTokenWithOwner
Logout(t) ==
    LET s == call[t].session IN
    /\ At(t, "logout")
    /\ Delete(t, {s})
    /\ Invalidated(t, call[t].browser, {s} \cup (IF Open(s) THEN {Account} ELSE {}), Empty)
    /\ UNCHANGED <<account, credential, jar, cache, settled, ops>>

\* revokeSessionByIdForUser: any session of one's own, from any browser.
DeleteMySession(t, b, s) ==
    /\ Starts(t, "delete")
    /\ jar[b].session # 0 /\ Open(s)
    /\ Delete(t, {s})
    /\ IF s = jar[b].session THEN Invalidated(t, b, {s, Account}, Empty)
       ELSE Invalidated(t, 0, {s}, Empty)
    /\ UNCHANGED <<account, credential, jar, cache, settled, ops>>

\* revokeOtherSessionsForUser: nothing is deleted unless the session itself is there.
Others(s) == IF Open(s) THEN OpenRows \ {s} ELSE {}

RevokeOtherSessions(t, b) ==
    LET s == jar[b].session IN
    /\ Starts(t, "others")
    /\ Open(s)
    /\ Delete(t, Others(s))
    /\ Invalidated(t, 0, Others(s), Empty)
    /\ UNCHANGED <<account, credential, jar, cache, settled, ops>>

\* Better Auth stores the new password: by a mailed code, or by the business for its staff
\* (browser 0).
SetPassword(t, b) ==
    /\ Starts(t, "reset")
    /\ account.password < Passwords
    /\ account' = [account EXCEPT !.password = @ + 1]
    /\ Go(t, [op |-> "find", browser |-> b, password |-> account.password + 1, keys |-> {Account}])
    /\ UNCHANGED <<session, credential, jar, cache, settled, ops>>

\* Suspension, deletion and reactivation of the account, by an administrator.
SetStatus(t, v) ==
    /\ Starts(t, "suspend")
    /\ account.status # v
    /\ account' = [account EXCEPT !.status = v]
    /\ IF v = "ACTIVE" THEN Invalidated(t, 0, {Account}, Empty)
       ELSE Go(t, [op |-> "find", browser |-> 0, password |-> 0, keys |-> {Account}])
    /\ UNCHANGED <<session, credential, jar, cache, settled, ops>>

\* mutateLifecycle, of the business the person works for.
SetTenant(t, v) ==
    /\ Starts(t, "tenant")
    /\ account.tenant # v
    /\ account' = [account EXCEPT !.tenant = v]
    /\ IF v = "ACTIVE" THEN Invalidated(t, 0, {Tenant}, Empty)
       ELSE Go(t, [op |-> "find", browser |-> 0, password |-> 0, keys |-> {Account, Tenant}])
    /\ UNCHANGED <<session, credential, jar, cache, settled, ops>>

\* revokeAllSessionsForUser reads the tokens to invalidate first ...
FindSessions(t) ==
    /\ At(t, "find")
    /\ Go(t, [op |-> "revoke", browser |-> call[t].browser, password |-> call[t].password,
              keys |-> call[t].keys \cup OpenRows])
    /\ UNCHANGED <<account, session, credential, jar, cache, settled, ops>>

\* Mutation of Doomed: those that were bound.
DoomedBound(t) == {s \in OpenRows : session[s].hash # 0}

\* ... and deletes every session there is by then.
Doomed(t) == OpenRows

RevokeAllSessions(t) ==
    /\ At(t, "revoke")
    /\ Delete(t, Doomed(t))
    /\ settled' = IF call[t].password > settled THEN call[t].password ELSE settled
    /\ Invalidated(t, call[t].browser, call[t].keys, Empty)
    /\ UNCHANGED <<account, credential, jar, cache, ops>>

\* Better Auth checks the session and the old password, and stores the new one.
ChangePassword(t, b) ==
    LET s == jar[b].session IN
    /\ Starts(t, "change")
    /\ Open(s) /\ account.password < Passwords
    /\ account' = [account EXCEPT !.password = @ + 1]
    /\ Go(t, [op |-> "others", browser |-> b, session |-> s, password |-> account.password + 1])
    /\ UNCHANGED <<session, credential, jar, cache, settled, ops>>

\* The other sessions go (their keys are invalidated with those of Bind), then the one
\* that is left gets a new credential.
RevokeOthersOnChange(t) ==
    LET c == call[t] IN
    /\ At(t, "others")
    /\ Delete(t, Others(c.session))
    /\ cache' = [k \in Keys |-> IF k \in Others(c.session) THEN "none" ELSE cache[k]]
    /\ Go(t, [op |-> "bind", browser |-> c.browser, session |-> c.session, keep |-> 1,
              password |-> c.password])
    /\ UNCHANGED <<account, credential, jar, settled, ops>>

--------------------------------------------------------------------------------
(* The gate: checkAuth and its caches *)

Revoked(s) == s # 0 /\ session[s].status \in {"GONE", "REUSED"}

\* Nobody has yet to tell Redis that the session is gone.
Announced(s) == \A t \in Tabs : ~(At(t, "invalidate") /\ s \in call[t].keys)

\* A request with an access token, and the session cookie if there is one.
StartRequest(t, b) ==
    LET s == jar[b].session IN
    /\ Starts(t, "request")
    /\ Go(t, [op |-> "look", session |-> s, late |-> Revoked(s) /\ Announced(s),
              todo |-> IF s = 0 THEN <<Account, Tenant>> ELSE <<Account, Tenant, s>>])
    /\ UNCHANGED <<account, session, credential, jar, cache, settled, ops>>

Truth(k) ==
    LET fine == IF k = Account THEN account.status \notin {"SUSPENDED", "DELETED"}
                ELSE IF k = Tenant THEN account.tenant = "ACTIVE" ELSE Open(k)
    IN IF fine THEN "ok" ELSE "bad"

\* The read of another request of the process that is under way: singleFlight.
Flight(t, k) == {call[u].value : u \in {v \in Tabs \ {t} :
                    At(v, "fill") /\ call[v].leads /\ Head(call[v].todo) = k}}

\* The next of the look-ups has come out.
Found(t, value) ==
    LET rest == Tail(call[t].todo) IN
    IF value = "bad" THEN End(t)
    ELSE Go(t, [op |-> IF rest = <<>> THEN "admitted" ELSE "look", session |-> call[t].session,
                late |-> call[t].late, todo |-> rest])

Look(t) ==
    LET k == Head(call[t].todo)
        read(value, leads) == Go(t, [op |-> "fill", session |-> call[t].session,
            late |-> call[t].late, todo |-> call[t].todo, value |-> value, leads |-> leads])
    IN
    /\ At(t, "look")
    /\ \/ cache[k] # "none" /\ Found(t, cache[k])
       \/ cache[k] = "none" /\ Flight(t, k) = {} /\ read(Truth(k), TRUE)
       \/ cache[k] = "none" /\ \E v \in Flight(t, k) : read(v, FALSE)
    /\ UNCHANGED <<account, session, credential, jar, cache, settled, ops>>

\* Redis is told what was read, however long ago.
Fill(t) ==
    /\ At(t, "fill")
    /\ \/ cache' = [cache EXCEPT ![Head(call[t].todo)] = call[t].value]
       \/ "outage" \in ops /\ UNCHANGED cache
    /\ Found(t, call[t].value)
    /\ UNCHANGED <<account, session, credential, jar, settled, ops>>

Admit(t) ==
    /\ At(t, "admitted")
    /\ End(t)
    /\ UNCHANGED <<account, session, credential, jar, cache, settled, ops>>

\* Mutation of Expires: the key has no time to live.
ExpiresNever(k) == FALSE

\* SETEX
Expires(k) == cache[k] # "none"

Expire(k) ==
    /\ Expires(k)
    /\ cache' = [cache EXCEPT ![k] = "none"]
    /\ UNCHANGED <<account, session, credential, jar, call, settled, ops>>

--------------------------------------------------------------------------------

\* What a request does once it has started.
Proceed(t) ==
    \/ CreateSession(t) \/ Validate(t) \/ Activate(t) \/ Bind(t) \/ LockSession(t) \/ Rotate(t) \/ Logout(t)
    \/ FindSessions(t) \/ RevokeAllSessions(t) \/ RevokeOthersOnChange(t) \/ Invalidate(t)
    \/ Arrive(t) \/ Look(t) \/ Fill(t) \/ Admit(t)

Start(t) ==
    \/ \E b \in Using :
        \/ SignIn(t, b) \/ VerifyEmail(t, b) \/ StartRefresh(t, b) \/ StartLogout(t, b)
        \/ RevokeOtherSessions(t, b) \/ ChangePassword(t, b) \/ StartRequest(t, b)
        \/ \E s \in Ids : DeleteMySession(t, b, s)
    \/ \E b \in Using \cup {0} : SetPassword(t, b)
    \/ \E v \in {"ACTIVE", "SUSPENDED"} : SetStatus(t, v) \/ SetTenant(t, v)

SessionsNext ==
    \/ \E t \in Tabs : Start(t) \/ Proceed(t) \/ LoseAnswer(t) \/ Die(t)
    \/ \E s \in Ids : GraceLapses(s)
    \/ \E k \in Keys : Expire(k)

\* Requests that have started go on, and keys in Redis expire.
SessionsFairness ==
    /\ \A t \in Tabs : WF_sessionVars(Proceed(t))
    /\ \A k \in Keys : WF_sessionVars(Expire(k))

SessionsSpec == InitSessions /\ [][SessionsNext]_sessionVars /\ SessionsFairness

--------------------------------------------------------------------------------
(* Properties *)

\* Every variable has its type; a session that has a credential has a family.
SessionsTypeOK ==
    /\ account.status \in AccountStatus
    /\ account.tenant \in {"ACTIVE", "SUSPENDED"}
    /\ \A s \in Ids : /\ session[s].status \in RowStatus
                      /\ session[s].hash \in 0..Len(credential)
                      /\ session[s].hash = 0 <=> session[s].family = 0
    /\ \A b \in Browsers : jar[b].session \in 0..Rows /\ jar[b].refresh \in 0..Len(credential)
    /\ settled \in 1..account.password

\* A refresh credential is exchanged for a new one at most once, whatever the tabs do at
\* the same time (the row lock of getNewToken).
RotatesOnce ==
    \A c, d \in DOMAIN credential :
        c # d /\ credential[c].from # 0 => credential[c].from # credential[d].from

\* Tabs that refresh at the same time do not sign each other out: unless an answer is
\* lost, a request takes longer than the grace, the password is changed, or the person
\* signs in again meanwhile, no session is deleted because an old credential was presented
\* (REFRESH_TOKEN_REUSE_GRACE_MS).
TabsStaySignedIn ==
    ops \cap {"lose", "slow", "change", "die", "login"} = {} => \A s \in Ids : session[s].status # "REUSED"

\* Tabs that share a credential may refresh at once: one exchange, and nobody is signed
\* out.
RefreshesMeetSafely == RotatesOnce /\ TabsStaySignedIn

\* Once a change or a reset of the password has been answered, every session that one
\* can refresh is of that password or a later one.
\* Once a suspension is through, none can be refreshed until it is lifted: a sign-in that
\* had its session by then survives neither, at whatever step it is.  One that was accepted
\* and has yet to insert its session does survive (late).  Verifying the address is left
\* out: it activates the account whatever its status.
OldCredentialsAreOut ==
    \A s \in OpenRows : session[s].hash # 0 /\ ~session[s].late =>
        /\ session[s].password >= settled
        /\ account.status # "SUSPENDED" \/ Suspending \/ ops \cap {"verify", "die"} # {}

\* A session that was revoked is refused for good after some time, and so is an account
\* that stays suspended: what Redis was told too late expires.
Admitted(s) == \E t \in Tabs : At(t, "admitted") /\ call[t].session = s
RevokedIsRefusedInTheEnd ==
    /\ \A s \in Ids : <>[](Revoked(s) => ~Admitted(s))
    /\ \/ []<>(account.status # "SUSPENDED")
       \/ <>[]~(\E t \in Tabs : At(t, "admitted"))

\* Revocation is immediate: a request that starts after it was announced is refused.
RevocationIsImmediate == \A t \in Tabs : At(t, "admitted") => ~call[t].late
================================================================================
