------------------------------ MODULE OutboxLease ------------------------------
(***************************************************************************)
(* What the durable outbox promises about one row, without saying how a    *)
(* claim is represented: a row is granted to one worker at a time, only    *)
(* the worker it is granted to may settle it, a settled row stays settled, *)
(* and a row is granted at most MaxAttempts times.                         *)
(*                                                                         *)
(* OutboxQueue is the detailed specification: there the grant is nothing   *)
(* but the pair (status = PROCESSING, attempts) that the worker compares   *)
(* when it settles the row.                                                *)
(***************************************************************************)
EXTENDS Naturals

CONSTANTS Events, Workers, MaxAttempts

VARIABLES
    stage,    \* [Events -> {"none", "waiting", "granted", "settled"}]
    holder,   \* [Events -> SUBSET Workers]: the worker entitled to settle
    grants    \* [Events -> Nat]: how often the row has been granted

leaseVars == <<stage, holder, grants>>

LeaseInit ==
    /\ stage = [e \in Events |-> "none"]
    /\ holder = [e \in Events |-> {}]
    /\ grants = [e \in Events |-> 0]

Submit(e) ==
    /\ stage[e] = "none"
    /\ stage' = [stage EXCEPT ![e] = "waiting"]
    /\ UNCHANGED <<holder, grants>>

\* A batch is granted in one step; a row that was already granted is taken
\* away from its former holder.
Grant(w, rows) ==
    /\ \A e \in rows : stage[e] \in {"waiting", "granted"} /\ grants[e] < MaxAttempts
    /\ stage' = [e \in Events |-> IF e \in rows THEN "granted" ELSE stage[e]]
    /\ holder' = [e \in Events |-> IF e \in rows THEN {w} ELSE holder[e]]
    /\ grants' = [e \in Events |-> IF e \in rows THEN grants[e] + 1 ELSE grants[e]]

\* The holder finishes the row for good, or gives it back for another attempt.
Settle(e, w) ==
    /\ stage[e] = "granted"
    /\ holder[e] = {w}
    /\ \/ stage' = [stage EXCEPT ![e] = "settled"]
       \/ /\ grants[e] < MaxAttempts
          /\ stage' = [stage EXCEPT ![e] = "waiting"]
    /\ holder' = [holder EXCEPT ![e] = {}]
    /\ UNCHANGED grants

\* A worker that dies gives up everything it held.
Forfeit(w) ==
    /\ holder' = [e \in Events |-> holder[e] \ {w}]
    /\ UNCHANGED <<stage, grants>>

LeaseNext ==
    \/ \E e \in Events : Submit(e)
    \/ \E w \in Workers, rows \in SUBSET Events : Grant(w, rows)
    \/ \E e \in Events, w \in Workers : Settle(e, w)
    \/ \E w \in Workers : Forfeit(w)

LeaseSpec == LeaseInit /\ [][LeaseNext]_leaseVars
================================================================================
