------------------------- MODULE TenantAccessCacheProofs -------------------------
(***************************************************************************)
(* Theorems about TenantAccessCache for any number of calls, tokens and    *)
(* commits.                                                                *)
(*                                                                         *)
(* AnswersAreFresh is not inductive: a fresh answer comes from an entry or *)
(* from SQL, an entry of the current epoch comes from a call that was      *)
(* about to store, and such a call captured the current epoch before it    *)
(* read SQL.  The last part is what the order "epoch before SQL" buys, and *)
(* it survives an invalidation because the new epoch was never held.       *)
(***************************************************************************)
EXTENDS TenantAccessCache, TLAPS

Checking(q) == q.confirming /\ q.step \in {"get", "setnx", "reget"}

\* Everything a call knows is true of the database and of the current epoch.
CallIsSound(q) ==
    /\ q.epoch \in used \cup {None}
    /\ q.since <= confirmed
    /\ q.version <= db
    /\ q.step \in {"read", "store"} \/ Checking(q) => q.epoch # None
    /\ q.step = "store" \/ Checking(q) => (q.epoch = epoch => q.version >= confirmed)
    /\ q.step \in {"store", "answered"} => q.version >= q.since

CallsAreSound == \A r \in Requests : CallIsSound(request[r])

EntryIsCommitted ==
    entry # None => entry.version <= db /\ entry.epoch \in used

IInv ==
    /\ TypeOK
    /\ CurrentEntryIsFresh
    /\ EntryIsCommitted
    /\ CallsAreSound

------------------------
(* The invariant *)

LEMMA InitIInv == Init => IInv
  BY CacheAssumption
  DEF Init, IInv, TypeOK, CurrentEntryIsFresh, EntryIsCommitted, CallsAreSound,
      CallIsSound, Checking, Request, Step

\* A step of one call keeps the invariant if the call stays sound and the shared
\* state stands still.
LEMMA OwnStep ==
  ASSUME IInv, NEW r \in Requests, NEW q \in Request, Set(r, q),
         UNCHANGED <<db, confirmed, redisVars>>, CallIsSound(q)
  PROVE  IInv'
<1>1. request' \in [Requests -> Request]  BY DEF IInv, TypeOK, Set
<1>2. TypeOK' /\ CurrentEntryIsFresh' /\ EntryIsCommitted'
  BY <1>1 DEF IInv, TypeOK, CurrentEntryIsFresh, EntryIsCommitted, redisVars
<1>3. \A s \in Requests : request'[s] = IF s = r THEN q ELSE request[s]  BY DEF IInv, TypeOK, Set
<1>4. \A s \in Requests : CallIsSound(request'[s])  BY <1>3 DEF IInv, CallsAreSound
<1>5. CallsAreSound'  BY <1>4 DEF CallsAreSound, CallIsSound, redisVars
<1> QED BY <1>2, <1>5 DEF IInv

\* What the answer e of getGeneration does to a sound call, if e is the epoch
\* or a failure.
LEMMA GenerationIsSound ==
  ASSUME IInv, NEW r \in Requests, request[r].step \in {"get", "setnx", "reget"},
         NEW e \in {epoch, None}
  PROVE  LET q == IF request[r].confirming THEN Checked(request[r], e)
                                           ELSE Captured(request[r], e)
         IN  q \in Request /\ CallIsSound(q)
<1>1. /\ request[r] \in Request /\ CallIsSound(request[r])
      /\ epoch \in used \cup {None} /\ used \subseteq Token
      /\ confirmed \in Nat /\ db \in Nat
  BY DEF IInv, TypeOK, CallsAreSound
<1>2. CASE request[r].confirming
  <2> DEFINE q == Checked(request[r], e)
  <2>1. q \in Request  BY <1>1 DEF Checked, Request, Step
  <2>2. CallIsSound(q)  BY <1>1, <1>2 DEF Checked, CallIsSound, Checking, Request, Step
  <2> QED BY <1>2, <2>1, <2>2
<1>3. CASE ~request[r].confirming
  <2> DEFINE q == Captured(request[r], e)
  <2>1. q \in Request  BY <1>1 DEF Captured, Request, Step
  <2>2. CallIsSound(q)  BY <1>1, <1>3 DEF Captured, CallIsSound, Checking, Request, Step
  <2> QED BY <1>3, <2>1, <2>2
<1> QED BY <1>2, <1>3

LEMMA GetGenerationKeepsIInv ==
  ASSUME IInv, NEW r \in Requests, GetGeneration(r)
  PROVE  IInv'
<1>1. At(r, "get") /\ UNCHANGED <<db, confirmed, redisVars>>  BY DEF GetGeneration
<1>2. CASE Generation(r, None) \/ (epoch # None /\ Generation(r, epoch))
  <2>1. PICK e \in {epoch, None} : Generation(r, e)  BY <1>2
  <2> QED BY <1>1, <2>1, GenerationIsSound, OwnStep DEF Generation, At
<1>3. CASE Set(r, [request[r] EXCEPT !.step = "setnx"])
  <2> DEFINE q == [request[r] EXCEPT !.step = "setnx"]
  <2>1. q \in Request  BY DEF IInv, TypeOK, Request, Step
  <2>2. CallIsSound(q)  BY <1>1 DEF IInv, TypeOK, CallsAreSound, CallIsSound, Checking, Request, At
  <2> QED BY <1>1, <1>3, <2>1, <2>2, OwnStep
<1> QED BY <1>2, <1>3 DEF GetGeneration

LEMMA RegetGenerationKeepsIInv ==
  ASSUME IInv, NEW r \in Requests, RegetGeneration(r)
  PROVE  IInv'
<1>1. PICK e \in {epoch, None} : Generation(r, e)  BY DEF RegetGeneration
<1> QED BY <1>1, GenerationIsSound, OwnStep DEF RegetGeneration, Generation, At

\* A token the key never held makes no call unsound: none captured it.
LEMMA NewEpochKeepsCallsSound ==
  ASSUME IInv, NEW t \in FreshToken, epoch' = t, used' = used \cup {t}, db' = db,
         confirmed' \in {confirmed, db},
         NEW r \in Requests, request'[r] = request[r]
  PROVE  CallIsSound(request[r])'
<1>1. CallIsSound(request[r]) /\ request[r] \in Request /\ confirmed <= db
      /\ confirmed \in Nat /\ db \in Nat
  BY DEF IInv, TypeOK, CallsAreSound
<1>2. t \notin used /\ t # None  BY CacheAssumption DEF FreshToken
<1>3. request[r].epoch # t  BY <1>1, <1>2 DEF CallIsSound
<1>4. confirmed <= confirmed'  BY <1>1
<1> QED BY <1>1, <1>2, <1>3, <1>4 DEF CallIsSound, Checking, Request

LEMMA SetGenerationKeepsIInv ==
  ASSUME IInv, NEW r \in Requests, SetGeneration(r)
  PROVE  IInv'
<1>1. At(r, "setnx") /\ UNCHANGED <<db, confirmed>>  BY DEF SetGeneration
<1>2. CASE Generation(r, None) /\ UNCHANGED redisVars
  BY <1>1, <1>2, GenerationIsSound, OwnStep DEF Generation, At
<1>3. CASE epoch # None /\ Set(r, [request[r] EXCEPT !.step = "reget"]) /\ UNCHANGED redisVars
  <2> DEFINE q == [request[r] EXCEPT !.step = "reget"]
  <2>1. q \in Request  BY DEF IInv, TypeOK, Request, Step
  <2>2. CallIsSound(q)  BY <1>1 DEF IInv, TypeOK, CallsAreSound, CallIsSound, Checking, Request, At
  <2> QED BY <1>1, <1>3, <2>1, <2>2, OwnStep
<1>4. ASSUME epoch = None, NEW t \in FreshToken, epoch' = t, used' = used \cup {t},
             entry' = entry, NEW e \in {t, None}, Generation(r, e)
      PROVE  IInv'
  <2>1. t \in Token /\ t \notin used /\ t # None  BY CacheAssumption DEF FreshToken
  <2>2. request[r] \in Request /\ CallIsSound(request[r]) /\ request \in [Requests -> Request]
    BY DEF IInv, TypeOK, CallsAreSound
  <2> DEFINE q == IF request[r].confirming THEN Checked(request[r], e)
                                           ELSE Captured(request[r], e)
  <2>3. q \in Request  BY <2>1, <2>2 DEF Checked, Captured, Request, Step
  <2>4. request' = [request EXCEPT ![r] = q]  BY <1>4 DEF Generation, Set
  <2>5. request' \in [Requests -> Request] /\ request'[r] = q
        /\ \A s \in Requests \ {r} : request'[s] = request[s]
    BY <2>2, <2>3, <2>4
  <2>6. TypeOK'  BY <1>1, <1>4, <2>1, <2>5 DEF IInv, TypeOK
  <2>7. CurrentEntryIsFresh' /\ EntryIsCommitted'
    BY <1>1, <1>4, <2>1 DEF IInv, CurrentEntryIsFresh, EntryIsCommitted
  <2>8. CallIsSound(request[r])'
    <3>1. CASE request[r].confirming
      <4>1. q = [request[r] EXCEPT !.step = "load"]
        BY <1>1, <1>4, <2>1, <2>2, <3>1 DEF Checked, CallIsSound, Checking, At, Request
      <4>2. /\ request'[r].step = "load" /\ request'[r].epoch = request[r].epoch
            /\ request'[r].since = request[r].since /\ request'[r].version = request[r].version
        BY <2>2, <2>5, <4>1 DEF Request
      <4> QED BY <1>1, <1>4, <2>2, <4>2 DEF CallIsSound, Checking
    <3>2. CASE ~request[r].confirming
      <4>1. /\ q.step \in {"load", "read"} /\ q.confirming = request[r].confirming
            /\ q.epoch = e /\ q.since = request[r].since /\ q.version = request[r].version
            /\ e = None => q.step = "load"
        BY <2>2, <3>2 DEF Captured, Request
      <4>2. ~request'[r].confirming  BY <2>5, <3>2, <4>1
      <4> QED BY <1>1, <1>4, <2>1, <2>2, <2>5, <4>1, <4>2 DEF CallIsSound, Checking
    <3> QED BY <3>1, <3>2
  <2>9. \A s \in Requests : CallIsSound(request[s])'  BY <1>1, <1>4, <2>5, <2>8, NewEpochKeepsCallsSound
  <2> QED BY <2>6, <2>7, <2>9 DEF IInv, CallsAreSound
<1> QED BY <1>2, <1>3, <1>4 DEF SetGeneration

\* A step that only moves a sound call on, keeping what it has captured.
LEMMA BeginKeepsIInv ==
  ASSUME IInv, NEW r \in Requests, Begin(r)
  PROVE  IInv'
<1>1. PICK authoritative \in BOOLEAN :
        Set(r, [step |-> "get", confirming |-> FALSE, authoritative |-> authoritative,
                attempt |-> 0, epoch |-> None, version |-> 0,
                since |-> confirmed, begun |-> db])
  BY DEF Begin
<1> DEFINE q == [step |-> "get", confirming |-> FALSE, authoritative |-> authoritative,
                 attempt |-> 0, epoch |-> None, version |-> 0,
                 since |-> confirmed, begun |-> db]
<1>2. q \in Request  BY DEF IInv, TypeOK, Request, Step
<1>3. CallIsSound(q)  BY DEF IInv, TypeOK, CallIsSound, Checking
<1> QED BY <1>1, <1>2, <1>3, OwnStep DEF Begin

LEMMA ReadCachedKeepsIInv ==
  ASSUME IInv, NEW r \in Requests, ReadCached(r)
  PROVE  IInv'
<1>1. At(r, "read") /\ UNCHANGED <<db, confirmed, redisVars>>  BY DEF ReadCached
<1>2. /\ request[r] \in Request /\ CallIsSound(request[r])
      /\ confirmed \in Nat /\ db \in Nat
  BY DEF IInv, TypeOK, CallsAreSound
<1>3. CASE Set(r, [request[r] EXCEPT !.step = "load"])
  <2> DEFINE q == [request[r] EXCEPT !.step = "load"]
  <2>1. q \in Request  BY <1>2 DEF Request, Step
  <2>2. CallIsSound(q)  BY <1>2 DEF CallIsSound, Checking, Request
  <2> QED BY <1>1, <1>3, <2>1, <2>2, OwnStep
<1>4. CASE /\ entry # None /\ entry.epoch = request[r].epoch
           /\ Set(r, [request[r] EXCEPT !.step = "get", !.confirming = TRUE,
                                        !.version = entry.version])
  <2> DEFINE q == [request[r] EXCEPT !.step = "get", !.confirming = TRUE,
                                     !.version = entry.version]
  <2>1. /\ entry.version \in Nat /\ entry.version <= db
        /\ entry.epoch = epoch => entry.version >= confirmed
    BY <1>4 DEF IInv, TypeOK, Entry, EntryIsCommitted, CurrentEntryIsFresh
  <2>2. q \in Request  BY <1>2, <2>1 DEF Request, Step
  <2>3. CallIsSound(q)  BY <1>1, <1>2, <1>4, <2>1 DEF CallIsSound, Checking, Request, At
  <2> QED BY <1>1, <1>4, <2>2, <2>3, OwnStep
<1> QED BY <1>3, <1>4 DEF ReadCached

\* A retry forgets nothing but the value.
LEMMA AgainIsSound ==
  ASSUME IInv, NEW q \in Request, q.epoch \in used \cup {None},
         q.since <= confirmed, q.version <= db
  PROVE  Again(q) \in Request /\ CallIsSound(Again(q))
<1>1. CASE q.attempt < 2
  <2>1. Again(q) = [q EXCEPT !.attempt = @ + 1, !.step = "get", !.confirming = FALSE]  BY <1>1 DEF Again
  <2>2. q.attempt + 1 \in 0 .. 2  BY <1>1 DEF Request
  <2> QED BY <2>1, <2>2 DEF Request, Step, CallIsSound, Checking
<1>2. CASE ~(q.attempt < 2)
  <2>1. Again(q) = [q EXCEPT !.step = "refused"]  BY <1>2 DEF Again
  <2> QED BY <2>1 DEF Request, Step, CallIsSound, Checking
<1> QED BY <1>1, <1>2

\* What SQL returns now is as new as anything confirmed.
LEMMA LoadKeepsIInv ==
  ASSUME IInv, NEW r \in Requests, LoadTenantAccess(r) \/ Reload(r)
  PROVE  IInv'
<1>1. UNCHANGED <<db, confirmed, redisVars>>  BY DEF LoadTenantAccess, Reload
<1>2. /\ request[r] \in Request /\ CallIsSound(request[r])
      /\ confirmed \in Nat /\ db \in Nat /\ confirmed <= db
  BY DEF IInv, TypeOK, CallsAreSound
<1> DEFINE loaded == [request[r] EXCEPT !.version = db]
<1>3. /\ loaded \in Request /\ loaded.epoch = request[r].epoch
      /\ loaded.since = request[r].since /\ loaded.version = db
  BY <1>2 DEF Request
<1>4. ASSUME NEW step \in {"answered", "store"}, step = "store" => request[r].epoch # None,
             Set(r, [loaded EXCEPT !.step = step])
      PROVE  IInv'
  <2> DEFINE q == [loaded EXCEPT !.step = step]
  <2>1. q \in Request  BY <1>3 DEF Request, Step
  <2>2. /\ q.step = step /\ q.epoch = request[r].epoch /\ q.version = db
        /\ q.since = request[r].since
    BY <1>3 DEF Request
  <2>3. CallIsSound(q)  BY <1>2, <1>4, <2>1, <2>2 DEF CallIsSound, Checking, Request
  <2> QED BY <1>1, <1>4, <2>1, <2>3, OwnStep
<1>5. CASE Reload(r)
  <2>1. [request[r] EXCEPT !.version = db, !.step = "answered"] =
        [loaded EXCEPT !.step = "answered"]
    BY <1>2 DEF Request
  <2> QED BY <1>4, <1>5, <2>1 DEF Reload
<1>6. CASE LoadTenantAccess(r)
  <2>1. CASE Set(r, Again(loaded))
    <3>1. loaded.epoch \in used \cup {None} /\ loaded.since <= confirmed /\ loaded.version <= db
      BY <1>2, <1>3 DEF CallIsSound
    <3>2. loaded \in Request  BY <1>3
    <3>3. Again(loaded) \in Request /\ CallIsSound(Again(loaded))  BY <3>1, <3>2, AgainIsSound
    <3> QED BY <1>1, <2>1, <3>3, OwnStep
  <2>2. CASE Set(r, [loaded EXCEPT !.step =
                        IF loaded.epoch = None THEN "answered" ELSE "store"])
    <3>1. CASE loaded.epoch = None  BY <1>3, <1>4, <2>2, <3>1
    <3>2. CASE loaded.epoch # None  BY <1>3, <1>4, <2>2, <3>2
    <3> QED BY <3>1, <3>2
  <2> QED BY <1>6, <2>1, <2>2 DEF LoadTenantAccess
<1> QED BY <1>5, <1>6

\* Only the current epoch's holder writes the entry, and what it writes is fresh.
LEMMA StoreKeepsIInv ==
  ASSUME IInv, NEW r \in Requests, Store(r)
  PROVE  IInv'
<1>1. At(r, "store") /\ UNCHANGED <<db, confirmed, epoch, used>>  BY DEF Store
<1>2. /\ request[r] \in Request /\ CallIsSound(request[r])
      /\ confirmed \in Nat /\ db \in Nat /\ request \in [Requests -> Request]
      /\ used \subseteq Token
  BY DEF IInv, TypeOK, CallsAreSound
<1>3. ASSUME NEW step \in {"answered", "reload"}
      PROVE  LET q == [request[r] EXCEPT !.step = step] IN q \in Request /\ CallIsSound(q)
  <2> DEFINE q == [request[r] EXCEPT !.step = step]
  <2>1. q \in Request  BY <1>2 DEF Request, Step
  <2>2. CallIsSound(q)  BY <1>1, <1>2 DEF CallIsSound, Checking, Request, At
  <2> QED BY <2>1, <2>2
<1>4. CASE entry' = entry
  <2>1. UNCHANGED <<db, confirmed, redisVars>>  BY <1>1, <1>4 DEF redisVars
  <2>2. CASE Set(r, Again(request[r]))
    <3>1. Again(request[r]) \in Request /\ CallIsSound(Again(request[r]))
      BY <1>2, AgainIsSound DEF CallIsSound
    <3> QED BY <2>1, <2>2, <3>1, OwnStep
  <2>3. CASE \E step \in {"answered", "reload"} : Set(r, [request[r] EXCEPT !.step = step])
    BY <1>3, <2>1, <2>3, OwnStep
  <2> QED BY <2>2, <2>3 DEF Store
<1>5. CASE entry' # entry
  <2>1. /\ epoch = request[r].epoch
        /\ entry' = [epoch |-> request[r].epoch, version |-> request[r].version]
    BY <1>5 DEF Store, MayStore, Carried
  <2>2. PICK step \in {"answered", "reload"} : Set(r, [request[r] EXCEPT !.step = step])
    BY <1>5 DEF Store
  <2> DEFINE q == [request[r] EXCEPT !.step = step]
  <2>3. /\ request' \in [Requests -> Request] /\ request'[r] = q
        /\ \A s \in Requests \ {r} : request'[s] = request[s]
    BY <1>2, <1>3, <2>2 DEF Set
  <2>4. request[r].epoch \in used /\ request[r].version >= confirmed
        /\ request[r].version <= db /\ request[r].version \in Nat
    BY <1>1, <1>2, <2>1 DEF CallIsSound, At, Request
  <2>5. TypeOK'  BY <1>1, <1>2, <2>1, <2>3, <2>4 DEF IInv, TypeOK, Entry
  <2>6. CurrentEntryIsFresh' /\ EntryIsCommitted'
    BY <1>1, <2>1, <2>4 DEF CurrentEntryIsFresh, EntryIsCommitted
  <2>7. \A s \in Requests : CallIsSound(request'[s])  BY <1>3, <2>3 DEF IInv, CallsAreSound
  <2>8. CallsAreSound'  BY <1>1, <2>7 DEF CallsAreSound, CallIsSound
  <2> QED BY <2>5, <2>6, <2>8 DEF IInv
<1> QED BY <1>4, <1>5

\* An invalidation makes every value in flight one of a past epoch.
LEMMA InvalidateKeepsIInv ==
  ASSUME IInv, InvalidateTenantAccess
  PROVE  IInv'
<1>1. PICK t \in FreshToken : epoch' = t /\ used' = used \cup {t}  BY DEF InvalidateTenantAccess
<1>2. /\ entry' = None /\ confirmed' \in {confirmed, db} /\ db' = db /\ request' = request
  BY DEF InvalidateTenantAccess
<1>3. TypeOK'  BY <1>1, <1>2 DEF IInv, TypeOK, FreshToken
<1>4. CurrentEntryIsFresh' /\ EntryIsCommitted'  BY <1>2 DEF CurrentEntryIsFresh, EntryIsCommitted
<1>5. \A r \in Requests : CallIsSound(request[r])'  BY <1>1, <1>2, NewEpochKeepsCallsSound
<1> QED BY <1>3, <1>4, <1>5 DEF IInv, CallsAreSound

\* A lost key invalidates nothing that is still there.
LEMMA LossKeepsIInv ==
  ASSUME IInv, LoseEntry \/ LoseEpoch
  PROVE  IInv'
<1>1. /\ db' = db /\ confirmed' = confirmed /\ used' = used /\ request' = request
      /\ epoch' \in {epoch, None} /\ entry' \in {entry, None}
  BY DEF LoseEntry, LoseEpoch
<1>2. TypeOK'  BY <1>1 DEF IInv, TypeOK
<1>3. entry # None => entry.epoch # None  BY CacheAssumption DEF IInv, TypeOK, Entry
<1>4. CurrentEntryIsFresh' /\ EntryIsCommitted'
  BY <1>1, <1>3 DEF IInv, CurrentEntryIsFresh, EntryIsCommitted
<1>5. \A r \in Requests : CallIsSound(request[r])'  BY <1>1 DEF IInv, CallsAreSound, CallIsSound
<1> QED BY <1>2, <1>4, <1>5 DEF IInv, CallsAreSound

LEMMA CommitKeepsIInv ==
  ASSUME IInv, Commit
  PROVE  IInv'
<1>1. /\ db' = db + 1 /\ db \in Nat /\ confirmed' = confirmed /\ epoch' = epoch
      /\ used' = used /\ entry' = entry /\ request' = request
  BY DEF IInv, TypeOK, Commit, redisVars
<1>2. TypeOK'  BY <1>1 DEF IInv, TypeOK
<1>3. CurrentEntryIsFresh' /\ EntryIsCommitted'
  BY <1>1 DEF IInv, TypeOK, Entry, CurrentEntryIsFresh, EntryIsCommitted
<1>4. \A r \in Requests : request[r].version \in Nat  BY DEF IInv, TypeOK, Request
<1>5. \A r \in Requests : CallIsSound(request[r])'  BY <1>1, <1>4 DEF IInv, CallsAreSound, CallIsSound
<1> QED BY <1>2, <1>3, <1>5 DEF IInv, CallsAreSound

LEMMA NextKeepsIInv == IInv /\ [Next]_vars => IInv'
<1> SUFFICES ASSUME IInv, [Next]_vars PROVE IInv'
  OBVIOUS
<1>1. CASE \E r \in Requests :
             \/ Begin(r) \/ GetGeneration(r) \/ SetGeneration(r) \/ RegetGeneration(r)
             \/ ReadCached(r) \/ LoadTenantAccess(r) \/ Store(r) \/ Reload(r)
  BY <1>1, BeginKeepsIInv, GetGenerationKeepsIInv, SetGenerationKeepsIInv,
     RegetGenerationKeepsIInv, ReadCachedKeepsIInv, LoadKeepsIInv, StoreKeepsIInv
<1>2. CASE Commit  BY <1>2, CommitKeepsIInv
<1>3. CASE InvalidateTenantAccess  BY <1>3, InvalidateKeepsIInv
<1>4. CASE LoseEntry \/ LoseEpoch  BY <1>4, LossKeepsIInv
<1>5. CASE UNCHANGED vars
  <2>1. UNCHANGED <<db, confirmed, epoch, used, entry, request>>  BY <1>5 DEF vars, redisVars
  <2>2. TypeOK' /\ CurrentEntryIsFresh' /\ EntryIsCommitted'
    BY <2>1 DEF IInv, TypeOK, CurrentEntryIsFresh, EntryIsCommitted
  <2>3. CallsAreSound'  BY <2>1 DEF IInv, CallsAreSound, CallIsSound
  <2> QED BY <2>2, <2>3 DEF IInv
<1> QED BY <1>1, <1>2, <1>3, <1>4, <1>5 DEF Next

LEMMA IInvHolds == Spec => []IInv
  BY InitIInv, NextKeepsIInv, PTL DEF Spec

------------------------
(* The theorems *)

\* Every variable keeps its type.
THEOREM TypeCorrect == Spec => []TypeOK
  BY IInvHolds, PTL DEF IInv

\* The entry of the current epoch is never older than the last confirmed
\* invalidation: the store script refuses every query that started before it.
THEOREM EntriesAreFresh == Spec => []CurrentEntryIsFresh
  BY IInvHolds, PTL DEF IInv

\* resolveTenantAccess never answers from before what was confirmed when it was
\* called, however many calls, invalidations, evictions and failures overlap.
THEOREM FreshAnswersOnly == Spec => []AnswersAreFresh
<1>1. IInv => AnswersAreFresh  BY DEF IInv, CallsAreSound, CallIsSound, AnswersAreFresh, At
<1> QED BY <1>1, IInvHolds, PTL

------------------------
(* The refinement *)

\* A step of call r that neither begins nor ends it, or ends it.
MovesOn(r) ==
    /\ request[r].step \notin {"idle", "answered"}
    /\ \A s \in Requests \ {r} : request'[s] = request[s]
    /\ request'[r].step # "idle"
    /\ request'[r].since = request[r].since
    /\ UNCHANGED <<db, confirmed>>

LEMMA StepsMoveOn ==
  ASSUME IInv, NEW r \in Requests,
         \/ GetGeneration(r) \/ SetGeneration(r) \/ RegetGeneration(r)
         \/ ReadCached(r) \/ LoadTenantAccess(r) \/ Store(r) \/ Reload(r)
  PROVE  MovesOn(r)
<1>1. /\ request \in [Requests -> Request]
      /\ request[r] \in Request
  BY DEF IInv, TypeOK
<1>2. UNCHANGED <<db, confirmed>>
  BY DEF GetGeneration, SetGeneration, RegetGeneration, ReadCached, LoadTenantAccess, Store, Reload
<1>3. request[r].step \notin {"idle", "answered"}
  BY DEF GetGeneration, SetGeneration, RegetGeneration, ReadCached, LoadTenantAccess,
         Store, Reload, At
<1>4. ASSUME NEW q, Set(r, q), q.step # "idle", q.since = request[r].since
      PROVE  MovesOn(r)
  BY <1>1, <1>2, <1>3, <1>4 DEF MovesOn, Set
<1>5. ASSUME NEW e, Generation(r, e) PROVE MovesOn(r)
  <2> DEFINE q == IF request[r].confirming THEN Checked(request[r], e)
                                           ELSE Captured(request[r], e)
  <2>1. q.step # "idle" /\ q.since = request[r].since  BY <1>1 DEF Checked, Captured, Request
  <2> QED BY <1>4, <1>5, <2>1 DEF Generation
<1>6. ASSUME NEW step \in Step \ {"idle"}, Set(r, [request[r] EXCEPT !.step = step])
      PROVE  MovesOn(r)
  <2>1. /\ [request[r] EXCEPT !.step = step].step # "idle"
        /\ [request[r] EXCEPT !.step = step].since = request[r].since
    BY <1>1 DEF Request
  <2> QED BY <1>4, <1>6, <2>1
<1>7. ASSUME NEW q \in Request, q.since = request[r].since, Set(r, Again(q))
      PROVE  MovesOn(r)
  <2>1. Again(q).step # "idle" /\ Again(q).since = q.since  BY DEF Again, Request
  <2> QED BY <1>4, <1>7, <2>1
<1>8. CASE GetGeneration(r) \/ SetGeneration(r) \/ RegetGeneration(r)
  <2>1. \/ \E e : Generation(r, e)
        \/ \E step \in {"setnx", "reget"} : Set(r, [request[r] EXCEPT !.step = step])
    BY <1>8 DEF GetGeneration, SetGeneration, RegetGeneration
  <2> QED BY <1>5, <1>6, <2>1 DEF Step
<1>9. CASE ReadCached(r)
  <2>1. CASE Set(r, [request[r] EXCEPT !.step = "load"])  BY <1>6, <2>1 DEF Step
  <2>2. CASE Set(r, [request[r] EXCEPT !.step = "get", !.confirming = TRUE,
                                       !.version = entry.version])
    <3> DEFINE q == [request[r] EXCEPT !.step = "get", !.confirming = TRUE,
                                       !.version = entry.version]
    <3>1. q.step # "idle" /\ q.since = request[r].since  BY <1>1 DEF Request
    <3> QED BY <1>4, <2>2, <3>1
  <2> QED BY <1>9, <2>1, <2>2 DEF ReadCached
<1>10. CASE LoadTenantAccess(r) \/ Reload(r)
  <2> DEFINE loaded == [request[r] EXCEPT !.version = db]
  <2>1. loaded \in Request /\ loaded.since = request[r].since  BY <1>1 DEF IInv, TypeOK, Request
  <2>2. CASE Set(r, Again(loaded))  BY <1>7, <2>1, <2>2
  <2>3. ASSUME NEW step \in {"answered", "store"}, Set(r, [loaded EXCEPT !.step = step])
        PROVE  MovesOn(r)
    <3>1. [loaded EXCEPT !.step = step].step # "idle"
          /\ [loaded EXCEPT !.step = step].since = request[r].since
      BY <2>1 DEF Request
    <3> QED BY <1>4, <2>3, <3>1
  <2>4. CASE Reload(r)
    <3>1. [request[r] EXCEPT !.version = db, !.step = "answered"] =
          [loaded EXCEPT !.step = "answered"]
      BY <1>1 DEF Request
    <3> QED BY <2>3, <2>4, <3>1 DEF Reload
  <2>5. CASE Set(r, [loaded EXCEPT !.step =
                        IF loaded.epoch = None THEN "answered" ELSE "store"])
    <3>1. CASE loaded.epoch = None  BY <2>3, <2>5, <3>1
    <3>2. CASE loaded.epoch # None  BY <2>3, <2>5, <3>2
    <3> QED BY <3>1, <3>2
  <2> QED BY <1>10, <2>2, <2>4, <2>5 DEF LoadTenantAccess
<1>11. CASE Store(r)
  <2>1. \/ \E step \in {"answered", "reload"} : Set(r, [request[r] EXCEPT !.step = step])
        \/ Set(r, Again(request[r]))
    BY <1>11 DEF Store
  <2> QED BY <1>1, <1>6, <1>7, <2>1 DEF Step
<1> QED BY <1>8, <1>9, <1>10, <1>11

\* A call that is answered answers freshly; any other move is invisible.
LEMMA MovingOnRefines ==
  ASSUME IInv, IInv', NEW r \in Requests, MovesOn(r)
  PROVE  Fresh!Answer(r) \/ UNCHANGED Fresh!freshVars
<1>1. askedSince' = askedSince  BY DEF MovesOn, askedSince, At
<1>2. request[r] \in Request /\ request'[r] \in Request  BY DEF IInv, TypeOK
<1>3. CASE request'[r].step # "answered"
  <2>1. answeredWith' = answeredWith  BY <1>3 DEF MovesOn, answeredWith, At
  <2> QED BY <1>1, <2>1 DEF MovesOn, Fresh!freshVars
<1>4. CASE request'[r].step = "answered"
  <2> DEFINE v == request'[r].version
  <2>1. /\ request'[r].version >= request[r].since /\ request'[r].version <= db
        /\ db \in Nat
    BY <1>4 DEF IInv, TypeOK, CallsAreSound, CallIsSound, MovesOn
  <2>2. v \in askedSince[r] .. db  BY <1>2, <2>1 DEF MovesOn, askedSince, At, Request
  <2>3. askedSince[r] # None /\ answeredWith[r] = None
    BY <1>2, CacheAssumption DEF MovesOn, askedSince, answeredWith, At, Request
  <2>4. answeredWith' = [answeredWith EXCEPT ![r] = v]  BY <1>4 DEF MovesOn, answeredWith, At
  <2> QED BY <1>1, <2>2, <2>3, <2>4 DEF Fresh!Answer, MovesOn
<1> QED BY <1>3, <1>4

LEMMA BeginRefines ==
  ASSUME IInv, NEW r \in Requests, Begin(r)
  PROVE  Fresh!Ask(r)
<1>1. PICK q : /\ Set(r, q) /\ q.step = "get" /\ q.since = confirmed  BY DEF Begin
<1>2. request \in [Requests -> Request]  BY DEF IInv, TypeOK
<1>3. askedSince' = [askedSince EXCEPT ![r] = confirmed]  BY <1>1, <1>2 DEF Set, askedSince, At
<1>4. answeredWith' = [answeredWith EXCEPT ![r] = None]  BY <1>1, <1>2 DEF Set, answeredWith, At
<1> QED BY <1>3, <1>4 DEF Fresh!Ask, Begin

LEMMA StepRefines == IInv /\ IInv' /\ [Next]_vars => [Fresh!FreshNext]_Fresh!freshVars
<1> SUFFICES ASSUME IInv, IInv', [Next]_vars PROVE [Fresh!FreshNext]_Fresh!freshVars
  OBVIOUS
<1>1. ASSUME NEW r \in Requests, Begin(r) PROVE Fresh!FreshNext
  BY <1>1, BeginRefines DEF Fresh!FreshNext
<1>2. ASSUME NEW r \in Requests,
             \/ GetGeneration(r) \/ SetGeneration(r) \/ RegetGeneration(r)
             \/ ReadCached(r) \/ LoadTenantAccess(r) \/ Store(r) \/ Reload(r)
      PROVE  [Fresh!FreshNext]_Fresh!freshVars
  <2>1. MovesOn(r)  BY <1>2, StepsMoveOn
  <2> QED BY <2>1, MovingOnRefines DEF Fresh!FreshNext
<1>3. CASE Commit
  BY <1>3 DEF Commit, Fresh!FreshNext, Fresh!Mutate, askedSince, answeredWith, At
<1>4. CASE InvalidateTenantAccess
  <2>1. db' = db /\ request' = request /\ confirmed' \in {confirmed, db}
    BY <1>4 DEF InvalidateTenantAccess
  <2>2. askedSince' = askedSince /\ answeredWith' = answeredWith
    BY <2>1 DEF askedSince, answeredWith, At
  <2> QED BY <2>1, <2>2 DEF Fresh!FreshNext, Fresh!Confirm, Fresh!freshVars
<1>5. CASE LoseEntry \/ LoseEpoch \/ UNCHANGED vars
  <2>1. db' = db /\ request' = request /\ confirmed' = confirmed  BY <1>5 DEF LoseEntry, LoseEpoch, vars
  <2> QED BY <2>1 DEF Fresh!freshVars, askedSince, answeredWith, At
<1> QED BY <1>1, <1>2, <1>3, <1>4, <1>5 DEF Next

LEMMA InitRefines == Init => Fresh!FreshInit
  BY DEF Init, Fresh!FreshInit, askedSince, answeredWith, At

\* resolveTenantAccess and invalidateTenantAccess implement a cache that answers
\* freshly, for any number of calls, tokens and commits.
THEOREM CacheImplementsFreshAnswers == Spec => ImplementsFreshAnswers
  BY InitRefines, StepRefines, IInvHolds, PTL DEF Spec, ImplementsFreshAnswers, Fresh!FreshSpec
================================================================================
