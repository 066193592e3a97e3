------------------------------ MODULE FreshAnswers ------------------------------
(***************************************************************************)
(* What a cache with explicit invalidation promises, without saying how:   *)
(* committed versions of some authoritative state become "confirmed" when  *)
(* an invalidation reports success, and a request is answered with a       *)
(* version no older than what was confirmed when the request began.        *)
(*                                                                         *)
(* TenantAccessCache and WebsiteProjectionCache are the detailed           *)
(* specifications: both fill Redis with what they read from SQL, and both  *)
(* fence the fill with an epoch that an invalidation changes.              *)
(***************************************************************************)
EXTENDS Naturals

CONSTANTS Requests, Nobody

VARIABLES
    truth,      \* the committed version
    confirmed,  \* the version the last successful invalidation covered
    since,      \* [Requests -> what was confirmed when the request began, or Nobody]
    answer      \* [Requests -> the version it was answered with, or Nobody]

freshVars == <<truth, confirmed, since, answer>>

FreshInit ==
    /\ truth = 0
    /\ confirmed = 0
    /\ since = [r \in Requests |-> Nobody]
    /\ answer = [r \in Requests |-> Nobody]

Mutate ==
    /\ truth' = truth + 1
    /\ UNCHANGED <<confirmed, since, answer>>

Confirm ==
    /\ confirmed' = truth
    /\ UNCHANGED <<truth, since, answer>>

Ask(r) ==
    /\ since' = [since EXCEPT ![r] = confirmed]
    /\ answer' = [answer EXCEPT ![r] = Nobody]
    /\ UNCHANGED <<truth, confirmed>>

Answer(r) ==
    /\ since[r] # Nobody
    /\ answer[r] = Nobody
    /\ \E v \in since[r] .. truth : answer' = [answer EXCEPT ![r] = v]
    /\ UNCHANGED <<truth, confirmed, since>>

\* A request may go away without an answer.
Withdraw(r) ==
    /\ since[r] # Nobody /\ answer[r] = Nobody
    /\ since' = [since EXCEPT ![r] = Nobody]
    /\ UNCHANGED <<truth, confirmed, answer>>

FreshNext ==
    \/ Mutate
    \/ Confirm
    \/ \E r \in Requests : Ask(r) \/ Answer(r) \/ Withdraw(r)

FreshSpec == FreshInit /\ [][FreshNext]_freshVars
================================================================================
