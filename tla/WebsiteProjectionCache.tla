------------------------ MODULE WebsiteProjectionCache ------------------------
(***************************************************************************)
(* The Redis cache of one website's public projection: a fresh copy, a     *)
(* longer-lived stale copy, a rebuild lock and a generation counter.       *)
(*                                                                         *)
(* A request that finds no fresh copy rebuilds it if it gets the lock,     *)
(* serves the stale copy if another request is rebuilding, and otherwise   *)
(* waits a while before it loads for itself.  What is stored is fenced by  *)
(* the generation read before the load; an invalidation increments it and  *)
(* drops both copies and the lock in one script.                           *)
(*                                                                         *)
(* The projection is abstracted to the version of the rows it was built    *)
(* from.  An envelope also carries the access epoch of TenantAccessCache,  *)
(* which can only turn a hit into a miss and a store into a refusal; both  *)
(* are possible here at any time, since any Redis call may fail.           *)
(***************************************************************************)
EXTENDS Naturals

CONSTANTS
    Requests,    \* concurrent calls of getOrLoad
    MaxVersion,  \* bound on commits
    MaxEpoch,    \* bound on invalidations
    MayEvict,    \* whether Redis may lose the generation key
    Nobody

ASSUME ProjectionAssumption ==
    /\ MaxVersion \in Nat /\ MaxEpoch \in Nat
    /\ MayEvict \in BOOLEAN
    /\ Nobody \notin Nat /\ Nobody \notin Requests

VARIABLES
    db,          \* version of the website's rows
    confirmed,   \* version covered by the last invalidation reported as done
    generation,  \* the generation counter; a missing key counts as 0
    fresh,       \* the fresh copy's version, or Nobody
    stale,       \* the stale copy's version, or Nobody
    lock,        \* the rebuild lock's owner, or Nobody
    request      \* [Requests -> the state of a getOrLoad call]

vars == <<db, confirmed, generation, fresh, stale, lock, request>>
redisVars == <<generation, fresh, stale, lock>>

Copy == Nat \cup {Nobody}

Request ==
    [step : {"idle", "get", "lock", "recheck", "capture", "load", "store", "direct",
             "release", "stale", "wait", "answered"},
     owner : BOOLEAN,      \* holds, or held, the rebuild lock
     round : {1, 2},       \* of loadAndCacheCurrentGeneration
     generation : Nat,     \* captured before the load
     version : Nat,        \* of the value in hand
     since : Nat]          \* confirmed when the call began

NewRequest(s) ==
    [step |-> "get", owner |-> FALSE, round |-> 1, generation |-> 0, version |-> 0, since |-> s]

Init ==
    /\ db = 0 /\ confirmed = 0
    /\ generation = 0
    /\ fresh = Nobody /\ stale = Nobody /\ lock = Nobody
    /\ request = [r \in Requests |-> [NewRequest(0) EXCEPT !.step = "idle"]]

At(r, step) == request[r].step = step
Go(r, step) == request' = [request EXCEPT ![r].step = step]

\* The call returns v; the owner of the lock releases it first.
Return(r, v) ==
    request' = [request EXCEPT ![r].version = v,
                               ![r].step = IF request[r].owner THEN "release" ELSE "answered"]

Hit(r, copy) == copy # Nobody /\ Return(r, copy)

--------------------------------------------------------------------------------
(* getOrLoad *)

Begin(r) ==
    /\ request[r].step \in {"idle", "answered"}
    /\ request' = [request EXCEPT ![r] = NewRequest(confirmed)]
    /\ UNCHANGED <<db, confirmed, redisVars>>

GetFresh(r) ==
    /\ At(r, "get")
    /\ Hit(r, fresh) \/ Go(r, "lock")
    /\ UNCHANGED <<db, confirmed, redisVars>>

\* SET NX takes effect even when its reply is lost; an error means loading
\* without any cache.
AcquireRebuildLock(r) ==
    /\ At(r, "lock")
    /\ \/ /\ lock = Nobody
          /\ lock' = r
          /\ \/ request' = [request EXCEPT ![r].step = "recheck", ![r].owner = TRUE]
             \/ Go(r, "direct")
       \/ /\ lock # Nobody
          /\ Go(r, "stale")
          /\ UNCHANGED lock
       \/ /\ Go(r, "direct")
          /\ UNCHANGED lock
    /\ UNCHANGED <<db, confirmed, generation, fresh, stale>>

Recheck(r) ==
    /\ At(r, "recheck")
    /\ Hit(r, fresh) \/ Go(r, "capture")
    /\ UNCHANGED <<db, confirmed, redisVars>>

GetStale(r) ==
    /\ At(r, "stale")
    /\ Hit(r, stale) \/ Go(r, "wait")
    /\ UNCHANGED <<db, confirmed, redisVars>>

\* Nobody gives up before the lock's owner is done.
WaitForOwner(r) ==
    /\ At(r, "wait")
    /\ Hit(r, fresh) \/ (lock = Nobody /\ Go(r, "capture"))
    /\ UNCHANGED <<db, confirmed, redisVars>>

\* A poll finds the owner's fill, or the wait is over.
WaitForFreshFill(r) ==
    /\ At(r, "wait")
    /\ Hit(r, fresh) \/ Go(r, "capture")
    /\ UNCHANGED <<db, confirmed, redisVars>>

\* loadAndCacheCurrentGeneration captures the generation twice at most.
GetGeneration(r) ==
    /\ At(r, "capture")
    /\ \/ request' = [request EXCEPT ![r].generation = generation, ![r].step = "load"]
       \/ Go(r, "direct")
    /\ UNCHANGED <<db, confirmed, redisVars>>

\* The second round stores what the first one loaded.
ReadOnceLoad(r) ==
    /\ At(r, "load")
    /\ request' = [request EXCEPT ![r].version = IF request[r].round = 1 THEN db ELSE @,
                                  ![r].step = "store"]
    /\ UNCHANGED <<db, confirmed, redisVars>>

Load(r) ==
    /\ At(r, "load")
    /\ request' = [request EXCEPT ![r].version = db, ![r].step = "store"]
    /\ UNCHANGED <<db, confirmed, redisVars>>

LoadDirect(r) ==
    /\ At(r, "direct")
    /\ Return(r, db)
    /\ UNCHANGED <<db, confirmed, redisVars>>

SameGeneration(r) == generation = request[r].generation

\* The reply may be lost after the script has stored both copies.
SetForGeneration(r) ==
    /\ At(r, "store")
    /\ LET stored == Return(r, request[r].version)
           refused == IF request[r].round = 1
                      THEN request' = [request EXCEPT ![r].round = 2, ![r].step = "capture"]
                      ELSE Return(r, request[r].version)
       IN  \/ /\ SameGeneration(r)
              /\ fresh' = request[r].version
              /\ stale' = request[r].version
              /\ stored \/ refused
           \/ /\ refused
              /\ UNCHANGED <<fresh, stale>>
    /\ UNCHANGED <<db, confirmed, generation, lock>>

LockWithout(r) == IF lock = r THEN Nobody ELSE lock

ReleaseRebuildLock(r) ==
    /\ At(r, "release")
    /\ lock' \in {lock, LockWithout(r)}
    /\ Go(r, "answered")
    /\ UNCHANGED <<db, confirmed, generation, fresh, stale>>

\* The process serving the call dies; what it held in Redis stays.
Abandon(r) ==
    /\ request[r].step \notin {"idle", "answered"}
    /\ Go(r, "idle")
    /\ UNCHANGED <<db, confirmed, redisVars>>

--------------------------------------------------------------------------------
(* Mutations, invalidateWebsite and the loss of keys *)

Commit ==
    /\ db < MaxVersion
    /\ db' = db + 1
    /\ UNCHANGED <<confirmed, redisVars, request>>

\* The caller learns that it is done only if the reply arrives.
InvalidateWebsite ==
    /\ generation < MaxEpoch
    /\ generation' = generation + 1
    /\ fresh' = Nobody /\ stale' = Nobody /\ lock' = Nobody
    /\ confirmed' \in {confirmed, db}
    /\ UNCHANGED <<db, request>>

ExpireOrEvict ==
    /\ \/ fresh' = Nobody /\ UNCHANGED <<generation, stale, lock>>
       \/ stale' = Nobody /\ UNCHANGED <<generation, fresh, lock>>
       \/ lock' = Nobody /\ UNCHANGED <<generation, fresh, stale>>
       \/ MayEvict /\ generation' = 0 /\ UNCHANGED <<fresh, stale, lock>>
    /\ UNCHANGED <<db, confirmed, request>>

Proceed(r) ==
    \/ GetFresh(r) \/ AcquireRebuildLock(r) \/ Recheck(r) \/ GetStale(r) \/ WaitForFreshFill(r)
    \/ GetGeneration(r) \/ Load(r) \/ LoadDirect(r) \/ SetForGeneration(r)
    \/ ReleaseRebuildLock(r)

Next ==
    \/ \E r \in Requests : Begin(r) \/ Proceed(r) \/ Abandon(r)
    \/ Commit
    \/ InvalidateWebsite
    \/ ExpireOrEvict

Spec == Init /\ [][Next]_vars

\* A call that is being served goes on; nothing else is bound to happen.
Fairness == \A r \in Requests : WF_vars(Proceed(r))
FairSpec == Spec /\ Fairness

--------------------------------------------------------------------------------
(* Properties *)

\* Every variable has its type.
TypeOK ==
    /\ db \in Nat
    /\ confirmed \in 0 .. db
    /\ generation \in Nat
    /\ fresh \in Copy /\ stale \in Copy
    /\ lock \in Requests \cup {Nobody}
    /\ request \in [Requests -> Request]

\* What a call was promised, and what it got.
askedSince == [r \in Requests |-> IF At(r, "idle") THEN Nobody ELSE request[r].since]
answeredWith == [r \in Requests |-> IF At(r, "answered") THEN request[r].version ELSE Nobody]
Fresh == INSTANCE FreshAnswers WITH
    truth <- db, since <- askedSince, answer <- answeredWith

\* The four ways of answering (fresh copy, stale copy, owner's rebuild, own load)
\* implement a cache that answers freshly.
ImplementsFreshAnswers == Fresh!FreshSpec

\* No call takes the rebuild lock away from the call that holds it: one that lost the
\* lock to its TTL or to an invalidation releases nothing (releaseRebuildLock).
NobodyElseReleasesTheLock ==
    [][\A r, s \in Requests :
          r # s /\ lock = r /\ request'[s] # request[s] => lock' = r]_vars

\* A call that is not abandoned is answered, even if the owner of the lock died
\* with it (waitForFreshFill is bounded).
EveryCallEnds ==
    \A r \in Requests : ~At(r, "idle") ~> request[r].step \in {"idle", "answered"}
================================================================================
