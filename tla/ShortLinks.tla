----------------------------- MODULE ShortLinks -----------------------------
(***************************************************************************)
(* What the dashboard (src/backend/apps/qr/dashboard.py) promises to those *)
(* who print a short code: from the moment it is given out it leads to one *)
(* destination at a time, which its owner may change, until it is          *)
(* withdrawn; it is then withdrawn for good, and nobody gets it again.     *)
(***************************************************************************)

CONSTANTS Shorts, Dests

VARIABLES given, \* the short codes that were ever given out
          leads  \* the destination of each, a set of one; none when withdrawn

Init ==
    /\ given = {}
    /\ leads = [s \in Shorts |-> {}]

Give(s, d) ==
    /\ s \notin given
    /\ given' = given \cup {s}
    /\ leads' = [leads EXCEPT ![s] = {d}]

Repoint(s, d) ==
    /\ leads[s] # {}
    /\ leads' = [leads EXCEPT ![s] = {d}]
    /\ UNCHANGED given

Withdraw(S) ==
    /\ leads' = [s \in Shorts |-> IF s \in S THEN {} ELSE leads[s]]
    /\ UNCHANGED given

Next ==
    \/ \E s \in Shorts, d \in Dests : Give(s, d) \/ Repoint(s, d)
    \/ \E S \in SUBSET Shorts : Withdraw(S)

Spec == Init /\ [][Next]_<<given, leads>>

\* A short code leads nowhere, or, when it was given out, to one destination.
OneDestination ==
    \A s \in Shorts : \/ leads[s] = {}
                      \/ s \in given /\ \E d \in Dests : leads[s] = {d}

\* A short code that was withdrawn never leads anywhere again.
Withdrawn == {s \in given : leads[s] = {}}
WithdrawnForGood == [][Withdrawn \subseteq Withdrawn']_<<given, leads>>
=============================================================================
