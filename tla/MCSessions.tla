------------------------------- MODULE MCSessions -------------------------------
(* The sessions of a person, with the handlers that meet in a behaviour; or, in
   behaviours of their own, the mails that the office's notifications send.      *)
EXTENDS Sessions, NotificationDelivery

\* Tabs of one browser that refresh at the same time; the same with slow or lost answers;
\* passwords; sign-ins; suspension; the gate.
MCMixes == {{},
            {"refresh"},
            {"refresh", "legacy"},
            {"refresh", "lose", "slow", "logout", "alone"},
            {"refresh", "change", "alone"},
            {"refresh", "slow", "die"},
            {"login", "reset"},
            {"login", "delete", "alone"},
            {"change", "reset", "others"},
            {"login", "suspend", "alone"},
            {"verify", "suspend"},
            {"request", "logout", "alone"},
            {"request", "suspend", "outage", "alone"},
            {"request", "tenant", "alone"}}

MCInit == InitSessions /\ NotificationInit /\ (ops # {} => timely)

MCNext ==
    \/ ops # {} /\ SessionsNext /\ UNCHANGED allVars
    \/ ops = {} /\ NotificationNext /\ UNCHANGED sessionVars

\* The part that is not in use enables none of its actions.
MCSpec == MCInit /\ [][MCNext]_<<sessionVars, allVars>> /\ SessionsFairness /\ NotificationFairness
================================================================================
