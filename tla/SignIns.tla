------------------------------- MODULE SignIns -------------------------------
(***************************************************************************)
(* What the server promises to whoever holds a refresh token               *)
(* (refresh_session and the sign-ins of                                    *)
(* src/backend/apps/accounts/services.py): a sign-in is a line of tokens.  *)
(* A token is issued only with the first of a line or in exchange for      *)
(* another, none is exchanged twice, and when the sign-in has ended it has *)
(* ended for good.                                                         *)
(***************************************************************************)
EXTENDS Naturals

CONSTANT Families \* the sign-ins there may be

VARIABLES issued,    \* how many tokens each sign-in has had; 0, if it has not begun
          exchanged, \* how many of them were exchanged
          ended      \* the sign-ins that are over

Begun(f) == issued[f] # 0

Init ==
    /\ issued \in [Families -> {0, 1}]
    /\ exchanged = [f \in Families |-> 0]
    /\ ended = {}

\* A token of the sign-in that was not exchanged yet is exchanged for a new one.
Renew(f) ==
    /\ Begun(f) /\ f \notin ended
    /\ issued' = [issued EXCEPT ![f] = @ + 1]
    /\ exchanged' = [exchanged EXCEPT ![f] = @ + 1]
    /\ UNCHANGED ended

\* Sign-ins that had begun end, at once with the beginning of another at most:
\* linking a provider to an unverified account ends those that were there.
End ==
    /\ UNCHANGED exchanged
    /\ ended \subseteq ended' /\ \A f \in ended' \ ended : Begun(f)
    /\ \/ UNCHANGED issued
       \/ \E f \in Families : /\ ~Begun(f)
                              /\ issued' = [issued EXCEPT ![f] = 1]

Next ==
    \/ End
    \/ \E f \in Families : Renew(f)

Spec == Init /\ [][Next]_<<issued, exchanged, ended>>

\* A sign-in that has begun always has exactly one token that was not exchanged:
\* its holder is never left with none, and no two can be used.
OneTokenLeft == \A f \in Families : Begun(f) => issued[f] = exchanged[f] + 1
=============================================================================
