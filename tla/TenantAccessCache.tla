--------------------------- MODULE TenantAccessCache ---------------------------
(***************************************************************************)
(* The Redis cache of one tenant's access resolution and its invalidation  *)
(* epoch.                                                                  *)
(*                                                                         *)
(* A resolution captures the epoch before it reads SQL and stores what it  *)
(* read only if the epoch is still the same; an invalidation replaces the  *)
(* epoch by a fresh random token and drops the entry in one script.        *)
(* Everything else is a separate await: between any two of them another    *)
(* request, an invalidation, an eviction or a Redis error may come.  The   *)
(* resolution itself is abstracted to the version of the tenant's rows it  *)
(* was computed from; an entry whose validUntil has passed is one that     *)
(* may vanish at any time (TenantAccess models the deadline).              *)
(***************************************************************************)
EXTENDS Naturals

CONSTANTS
    Requests,    \* concurrent calls of resolveTenantAccess
    Token,       \* what randomUUID can return
    MaxVersion,  \* bound on commits
    None

ASSUME CacheAssumption ==
    /\ None \notin Token
    /\ None \notin Nat
    /\ MaxVersion \in Nat

VARIABLES
    db,         \* version of the tenant's rows in PostgreSQL
    confirmed,  \* version covered by the last invalidation that returned true
    epoch,      \* the generation key, or None
    used,       \* tokens the generation key has held
    entry,      \* the cached resolution [epoch, version], or None
    request     \* [Requests -> the state of a resolveTenantAccess call]

vars == <<db, confirmed, epoch, used, entry, request>>
redisVars == <<epoch, used, entry>>

Entry == [epoch : Token, version : Nat]

Step == {"idle", "get", "setnx", "reget", "read", "load", "store", "reload",
         "answered", "refused"}

Request ==
    [step : Step,
     confirming : BOOLEAN,         \* getGeneration is called by readCached's last check
     authoritative : BOOLEAN,      \* SQL-backed: bypassCache
     attempt : 0 .. 2,
     epoch : Token \cup {None},    \* the captured generation
     version : Nat,                \* of the value in hand
     since : Nat,                  \* confirmed when the call began
     begun : Nat]                  \* db when the call began

Init ==
    /\ db = 0
    /\ confirmed = 0
    /\ epoch = None
    /\ used = {}
    /\ entry = None
    /\ request = [r \in Requests |->
           [step |-> "idle", confirming |-> FALSE, authoritative |-> FALSE, attempt |-> 0,
            epoch |-> None, version |-> 0, since |-> 0, begun |-> 0]]

Set(r, q) == request' = [request EXCEPT ![r] = q]
At(r, step) == request[r].step = step

\* The epoch restarts, as a counter would, when its key is lost.
FreshTokenRestarts == IF epoch = None THEN Token ELSE Token \ used

\* randomUUID never returns a token twice.
FreshToken == Token \ used

--------------------------------------------------------------------------------
(* resolveTenantAccess *)

Begin(r) ==
    /\ request[r].step \in {"idle", "answered", "refused"}
    /\ \E authoritative \in BOOLEAN :
          Set(r, [step |-> "get", confirming |-> FALSE, authoritative |-> authoritative,
                  attempt |-> 0, epoch |-> None, version |-> 0,
                  since |-> confirmed, begun |-> db])
    /\ UNCHANGED <<db, confirmed, redisVars>>

Captured(q, e) ==
    [q EXCEPT !.epoch = e, !.step = IF q.authoritative \/ e = None THEN "load" ELSE "read"]

Checked(q, e) ==
    [q EXCEPT !.step = IF e = q.epoch THEN "answered" ELSE "load"]

\* getGeneration returns e (None when Redis failed) to whoever called it.
Generation(r, e) ==
    Set(r, IF request[r].confirming THEN Checked(request[r], e) ELSE Captured(request[r], e))

GetGeneration(r) ==
    /\ At(r, "get")
    /\ \/ Generation(r, None)
       \/ epoch # None /\ Generation(r, epoch)
       \/ epoch = None /\ Set(r, [request[r] EXCEPT !.step = "setnx"])
    /\ UNCHANGED <<db, confirmed, redisVars>>

\* SET NX takes effect even when its reply is lost.
SetGeneration(r) ==
    /\ At(r, "setnx")
    /\ \/ /\ Generation(r, None)
          /\ UNCHANGED redisVars
       \/ /\ epoch = None
          /\ \E t \in FreshToken :
                /\ epoch' = t
                /\ used' = used \cup {t}
                /\ Generation(r, t) \/ Generation(r, None)
          /\ UNCHANGED entry
       \/ /\ epoch # None
          /\ Set(r, [request[r] EXCEPT !.step = "reget"])
          /\ UNCHANGED redisVars
    /\ UNCHANGED <<db, confirmed>>

RegetGeneration(r) ==
    /\ At(r, "reget")
    /\ Generation(r, None) \/ Generation(r, epoch)
    /\ UNCHANGED <<db, confirmed, redisVars>>

\* An entry of another epoch is a miss, and so is a Redis error.
ReadCached(r) ==
    /\ At(r, "read")
    /\ \/ Set(r, [request[r] EXCEPT !.step = "load"])
       \/ /\ entry # None
          /\ entry.epoch = request[r].epoch
          /\ Set(r, [request[r] EXCEPT !.step = "get", !.confirming = TRUE,
                                       !.version = entry.version])
    /\ UNCHANGED <<db, confirmed, redisVars>>

Again(q) ==
    IF q.attempt < 2
    THEN [q EXCEPT !.attempt = @ + 1, !.step = "get", !.confirming = FALSE]
    ELSE [q EXCEPT !.step = "refused"]

\* The second disjunct: the value was no longer valid when the query returned.
LoadTenantAccess(r) ==
    /\ At(r, "load")
    /\ LET loaded == [request[r] EXCEPT !.version = db]
       IN  \/ Set(r, [loaded EXCEPT !.step = IF loaded.epoch = None THEN "answered" ELSE "store"])
           \/ Set(r, Again(loaded))
    /\ UNCHANGED <<db, confirmed, redisVars>>

\* The generation a resolution carries.
Carried(q) == q.epoch

\* What the store script compares.
MayStore(q) == epoch = Carried(q)

Store(r) ==
    /\ At(r, "store")
    /\ \/ /\ MayStore(request[r])
          /\ entry' = [epoch |-> Carried(request[r]), version |-> request[r].version]
          /\ \E step \in {"answered", "reload"} : Set(r, [request[r] EXCEPT !.step = step])
       \/ /\ ~MayStore(request[r])
          /\ Set(r, Again(request[r]))
          /\ UNCHANGED entry
       \/ /\ Set(r, [request[r] EXCEPT !.step = "reload"])
          /\ UNCHANGED entry
    /\ UNCHANGED <<db, confirmed, epoch, used>>

\* Redis failed during the store: the value in hand may predate an invalidation.
Reload(r) ==
    /\ At(r, "reload")
    /\ Set(r, [request[r] EXCEPT !.version = db, !.step = "answered"])
    /\ UNCHANGED <<db, confirmed, redisVars>>

--------------------------------------------------------------------------------
(* Mutations, invalidateTenantAccess and the loss of keys *)

Commit ==
    /\ db < MaxVersion
    /\ db' = db + 1
    /\ UNCHANGED <<confirmed, redisVars, request>>

\* The caller learns of success only if the reply arrives.
InvalidateTenantAccess ==
    /\ \E t \in FreshToken : epoch' = t /\ used' = used \cup {t}
    /\ entry' = None
    /\ confirmed' \in {confirmed, db}
    /\ UNCHANGED <<db, request>>

\* Expiry or eviction; FLUSHDB is both.
LoseEntry ==
    /\ entry # None
    /\ entry' = None
    /\ UNCHANGED <<db, confirmed, epoch, used, request>>

LoseEpoch ==
    /\ epoch # None
    /\ epoch' = None
    /\ UNCHANGED <<db, confirmed, used, entry, request>>

Next ==
    \/ \E r \in Requests :
          \/ Begin(r) \/ GetGeneration(r) \/ SetGeneration(r) \/ RegetGeneration(r)
          \/ ReadCached(r) \/ LoadTenantAccess(r) \/ Store(r) \/ Reload(r)
    \/ Commit
    \/ InvalidateTenantAccess
    \/ LoseEntry
    \/ LoseEpoch

Spec == Init /\ [][Next]_vars

--------------------------------------------------------------------------------
(* Properties *)

\* Every variable has its type; confirmed versions are committed ones, and the epoch
\* is a token that was drawn for it.
TypeOK ==
    /\ db \in Nat
    /\ confirmed \in 0 .. db
    /\ epoch \in used \cup {None}
    /\ used \subseteq Token
    /\ entry \in Entry \cup {None}
    /\ request \in [Requests -> Request]

\* The cached resolution of the current epoch is never older than the last
\* confirmed invalidation, whatever was in flight when it ran.
CurrentEntryIsFresh ==
    entry # None /\ entry.epoch = epoch => entry.version >= confirmed

\* A call is never answered from before what was confirmed when it began, through
\* evictions, lost replies and Redis errors (resolveUncachedTenantAccess).
AnswersAreFresh ==
    \A r \in Requests : At(r, "answered") => request[r].version >= request[r].since

\* What a call was promised, and what it got.
askedSince == [r \in Requests |-> IF At(r, "idle") THEN None ELSE request[r].since]
answeredWith == [r \in Requests |-> IF At(r, "answered") THEN request[r].version ELSE None]
Fresh == INSTANCE FreshAnswers WITH
    Nobody <- None, truth <- db, since <- askedSince, answer <- answeredWith

\* The requests, epochs and scripts implement a cache that answers freshly.
ImplementsFreshAnswers == Fresh!FreshSpec
================================================================================
