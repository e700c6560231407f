--------------------------- MODULE BrowserSession ---------------------------
(***************************************************************************)
(* The sign-in of the web front end, as the browser keeps it               *)
(* (src/frontend/src/lib/auth.ts, api.ts, enterprise.ts).                  *)
(*                                                                         *)
(* Each tab has a store of its own in memory, which every change writes to *)
(* the one localStorage of the browser and which is read back only when a  *)
(* page is loaded.  Two HTTP clients of a tab use the store; each renews   *)
(* an access token that was refused, once for all its requests that wait.  *)
(* A JavaScript task runs to its end: an action is the arrival of one      *)
(* answer, or one act of the user, with all that follows from it.          *)
(*                                                                         *)
(* The server is external: a sign-in is a family of sessions, each of      *)
(* which replaces the one before it (module Sessions has its inside).      *)
(* Time is left out: an access token may lapse at any moment, and whether  *)
(* less than two minutes remain of one is any.                             *)
(***************************************************************************)
EXTENDS Naturals, FiniteSets

CONSTANTS Tabs,        \* tabs of one browser
          Clients,     \* the clients in use, of "api" and "enterprise"
          Requests,    \* calls that may be under way at the same time
          None,        \* null
          ExpiresIn,   \* does the answer of the server name expires_in?
          MaxFamilies, \* bound: sign-ins
          MaxSessions, \* bound: sessions of a sign-in, until its expires_at
          MaxEvents    \* bound: sign-ins, answers lost and pages reloaded

ASSUME BrowserSessionAssumption ==
    /\ Clients \subseteq {"api", "enterprise"}
    /\ ExpiresIn \subseteq BOOLEAN
    /\ MaxFamilies \in Nat
    /\ MaxSessions \in Nat \ {0}
    /\ MaxEvents \in Nat
    /\ None \notin Tabs /\ None \notin (1 .. MaxFamilies) \X (1 .. MaxSessions)

Families == 1 .. MaxFamilies
Tokens == Families \X (1 .. MaxSessions)
Stored == Tokens \cup {None}

VARIABLES
    access,  \* accessToken of each tab
    refresh, \* refreshToken of each tab
    expiry,  \* tabs whose store knows tokenExpiresAt
    disk,    \* "qrapp-auth" in localStorage
    broken,  \* tabs whose refreshInFlight is for ever a promise of false
    asks,    \* calls of /auth/refresh
    req,     \* the other calls
    current, \* server: the session of each sign-in that is not replaced
    dead,    \* server: sign-ins whose family is revoked
    lapsed,  \* server: sign-ins whose access token has expired
    rotated, \* history: refresh tokens the page of a tab has exchanged
    askers,  \* history: the clients that sent a token of a sign-in
    mishaps, \* history: how many answers were lost and pages reloaded
    unsure   \* history: sign-ins of which an answer never arrived, or a page was
             \* loaded with a token that had been replaced

store == <<access, refresh, expiry, disk>>
server == <<current, dead, lapsed>>
history == <<rotated, askers, mishaps, unsure>>
vars == <<store, broken, asks, req, server, history>>

Answers == {"pending", "rotated", "refused", "lost"}
Asks == [tab : Tabs \cup {None}, client : Clients, token : Tokens,
         answer : Answers, raced : BOOLEAN]

\* No call, or it ended, in an answer or an error.
Ended == [at |-> "ended", tab |-> None, client |-> None, token |-> None, retried |-> FALSE]

UnderWay == {"before", "sent", "fine", "unauthorized", "waiting"}
Calls == {Ended} \cup [at : UnderWay, tab : Tabs, client : Clients, token : Stored,
                       retried : BOOLEAN]

TypeOK ==
    /\ access \in [Tabs -> Stored]
    /\ refresh \in [Tabs -> Stored]
    /\ expiry \subseteq Tabs
    /\ disk \in [access : Stored, refresh : Stored, expiry : BOOLEAN]
    /\ broken \subseteq Tabs
    /\ asks \subseteq Asks
    /\ req \in [Requests -> Calls]
    /\ current \in [Families -> 0 .. MaxSessions]
    /\ dead \subseteq Families
    /\ lapsed \subseteq Families
    /\ rotated \in [Tabs -> SUBSET Tokens]
    /\ askers \in [Families -> SUBSET (Tabs \X Clients)]
    /\ mishaps \in Nat
    /\ unsure \subseteq Families

Init ==
    /\ access = [t \in Tabs |-> None]
    /\ refresh = [t \in Tabs |-> None]
    /\ expiry = {}
    /\ disk = [access |-> None, refresh |-> None, expiry |-> FALSE]
    /\ broken = {}
    /\ asks = {}
    /\ req = [r \in Requests |-> Ended]
    /\ current = [f \in Families |-> 0]
    /\ dead = {}
    /\ lapsed = {}
    /\ rotated = [t \in Tabs |-> {}]
    /\ askers = [f \in Families |-> {}]
    /\ mishaps = 0
    /\ unsure = {}

\* Bound.
EventsLeft == mishaps + Cardinality({f \in Families : current[f] # 0}) < MaxEvents

-----------------------------------------------------------------------------
(* The store *)

\* Mutation: the refresh token is kept from the answer before.
SetTokensKeepingRefresh(t, token, known) ==
    /\ access' = [access EXCEPT ![t] = token]
    /\ refresh' = [refresh EXCEPT ![t] = IF @ = None THEN token ELSE @]
    /\ expiry' = IF known THEN expiry \cup {t} ELSE expiry \ {t}
    /\ disk' = [access |-> token, refresh |-> refresh'[t], expiry |-> known]

\* Both tokens are of the session the server just started.
setTokens(t, token, known) ==
    /\ access' = [access EXCEPT ![t] = token]
    /\ refresh' = [refresh EXCEPT ![t] = token]
    /\ expiry' = IF known THEN expiry \cup {t} ELSE expiry \ {t}
    /\ disk' = [access |-> token, refresh |-> token, expiry |-> known]

\* Nothing tells the server, nor the other tabs.
logout(t) ==
    /\ access' = [access EXCEPT ![t] = None]
    /\ refresh' = [refresh EXCEPT ![t] = None]
    /\ expiry' = expiry \ {t}
    /\ disk' = [access |-> None, refresh |-> None, expiry |-> FALSE]

\* The answer to a sign-in, a registration or the callback of a provider.
SignIn(t) ==
    /\ EventsLeft
    /\ \E f \in Families :
        /\ current[f] = 0
        /\ \A g \in Families : g < f => current[g] # 0
        /\ current' = [current EXCEPT ![f] = 1]
        /\ \E known \in ExpiresIn : setTokens(t, <<f, 1>>, known)
    /\ UNCHANGED <<broken, asks, req, dead, lapsed, history>>

SignOut(t) ==
    /\ access[t] # None
    /\ logout(t)
    /\ UNCHANGED <<broken, asks, req, server, history>>

\* Any other change of the store writes all of it, the tokens as this tab has
\* them too.
setProfile(t) ==
    /\ disk' = [access |-> access[t], refresh |-> refresh[t], expiry |-> t \in expiry]
    /\ UNCHANGED <<access, refresh, expiry, broken, asks, req, server, history>>

-----------------------------------------------------------------------------
(* Renewing the tokens *)

InFlight(t, c) == {a \in asks : a.tab = t /\ a.client = c}

Ask(t, c) == [tab |-> t, client |-> c, token |-> refresh[t],
              answer |-> "pending", raced |-> FALSE]

\* refreshTokens answers false at once: without a token, or because an earlier
\* call had none.  That call of the enterprise client returned before its try,
\* and left the promise it had stored.
RefreshFails(t, c) ==
    /\ InFlight(t, c) = {}
    /\ \/ refresh[t] = None
       \/ c = "enterprise" /\ t \in broken

\* Mutation: every caller sends a call of its own.
RefreshParallel(t, c) ==
    /\ refresh[t] # None
    /\ ~(c = "enterprise" /\ t \in broken)
    /\ asks' = asks \cup {Ask(t, c)}
    /\ askers' = [askers EXCEPT ![refresh[t][1]] = @ \cup {<<t, c>>}]

\* refreshTokens begins to wait: for the call under way, or for its own.
RefreshWaits(t, c) ==
    \/ /\ InFlight(t, c) # {}
       /\ UNCHANGED <<asks, askers>>
    \/ /\ InFlight(t, c) = {}
       /\ ~RefreshFails(t, c)
       /\ asks' = asks \cup {Ask(t, c)}
       /\ askers' = [askers EXCEPT ![refresh[t][1]] = @ \cup {<<t, c>>}]

-----------------------------------------------------------------------------
(* Calls *)

\* A page of the dashboard calls the server.  Calls of pages that nobody is
\* signed in for, which carry no token, are left out.
Send(r, t, c) ==
    /\ req[r].at = "ended"
    /\ access[t] # None
    /\ req' = [req EXCEPT ![r] = [at |-> "sent", tab |-> t, client |-> c,
                                  token |-> access[t], retried |-> FALSE]]
    /\ UNCHANGED <<store, broken, asks, server, history>>

\* The interceptor of api.ts renews a token first that is about to lapse.
SendRenewing(r, t) ==
    /\ "api" \in Clients
    /\ req[r].at = "ended"
    /\ access[t] # None /\ refresh[t] # None /\ t \in expiry
    /\ RefreshWaits(t, "api")
    /\ req' = [req EXCEPT ![r] = [at |-> "before", tab |-> t, client |-> "api",
                                  token |-> None, retried |-> FALSE]]
    /\ UNCHANGED <<store, broken, server, rotated, mishaps, unsure>>

\* An answer other than 401, or an error.
Receive(r) ==
    /\ req[r].at = "fine"
    /\ req' = [req EXCEPT ![r] = Ended]
    /\ UNCHANGED <<store, broken, asks, server, history>>

\* Mutation: 401 is met with a renewal however often.
UnauthorizedAgain(r) ==
    /\ req[r].at = "unauthorized"
    /\ RefreshWaits(req[r].tab, req[r].client)
    /\ req' = [req EXCEPT ![r].at = "waiting"]
    /\ UNCHANGED <<store, broken, server, rotated, mishaps, unsure>>

\* 401: the tokens are renewed, and the call is repeated.
Unauthorized(r) ==
    /\ req[r].at = "unauthorized" /\ ~req[r].retried
    /\ RefreshWaits(req[r].tab, req[r].client)
    /\ req' = [req EXCEPT ![r].at = "waiting"]
    /\ UNCHANGED <<store, broken, server, rotated, mishaps, unsure>>

\* 401 where nothing can be renewed: whoever is signed in is signed out, and
\* the page says that the session has expired.
UnauthorizedFails(r) ==
    LET t == req[r].tab  c == req[r].client IN
    /\ req[r].at = "unauthorized" /\ ~req[r].retried
    /\ RefreshFails(t, c)
    /\ logout(t)
    /\ broken' = IF c = "enterprise" THEN broken \cup {t} ELSE broken
    /\ req' = [req EXCEPT ![r] = Ended]
    /\ UNCHANGED <<asks, server, history>>

\* 401 to the second attempt is an error like any other.
Rejected(r) ==
    /\ req[r].at = "unauthorized" /\ req[r].retried
    /\ req' = [req EXCEPT ![r] = Ended]
    /\ UNCHANGED <<store, broken, asks, server, history>>

-----------------------------------------------------------------------------
(* The answer to a renewal reaches the tab, and all that waited for it *)

\* The call goes on in the task that stored the pair, and what tests its expiry
\* before a call is sent (api.ts) finds it just begun.
Resent(q, token) == [q EXCEPT !.at = "sent", !.token = token, !.retried = (q.at = "waiting")]

Waiting(a, at) == {r \in Requests : /\ req[r].at = at
                                    /\ req[r].tab = a.tab /\ req[r].client = a.client}

\* Mutation: only one of those that waited goes on.
RenewedOne(a) ==
    /\ a \in asks /\ a.tab # None /\ a.answer = "rotated"
    /\ \E next \in {<<a.token[1], a.token[2] + 1>>} :
        /\ \E known \in ExpiresIn : setTokens(a.tab, next, known)
        /\ \E w \in Waiting(a, "waiting") \cup Waiting(a, "before") :
            req' = [req EXCEPT ![w] = Resent(req[w], next)]
    /\ asks' = asks \ {a}
    /\ rotated' = [rotated EXCEPT ![a.tab] = @ \cup {a.token}]
    /\ UNCHANGED <<broken, server, askers, mishaps, unsure>>

\* The store takes the new pair, and every call is sent (again) with it.
Renewed(a) ==
    /\ a \in asks /\ a.tab # None /\ a.answer = "rotated"
    /\ \E next \in {<<a.token[1], a.token[2] + 1>>} :
        /\ \E known \in ExpiresIn : setTokens(a.tab, next, known)
        /\ req' = [r \in Requests |->
                    IF r \in Waiting(a, "waiting") \cup Waiting(a, "before")
                    THEN Resent(req[r], next) ELSE req[r]]
    /\ asks' = asks \ {a}
    /\ rotated' = [rotated EXCEPT ![a.tab] = @ \cup {a.token}]
    /\ UNCHANGED <<broken, server, askers, mishaps, unsure>>

\* Mutation: the calls that were not sent yet are forgotten.
NotRenewedForgets(a) ==
    /\ a \in asks /\ a.tab # None /\ a.answer \in {"refused", "lost"}
    /\ IF Waiting(a, "waiting") # {} THEN logout(a.tab) ELSE UNCHANGED store
    /\ req' = [r \in Requests |-> IF r \in Waiting(a, "waiting") THEN Ended ELSE req[r]]
    /\ asks' = asks \ {a}
    /\ UNCHANGED <<broken, server, history>>

\* It failed: a call that met 401 signs the tab out, whichever sign-in it has
\* by now; one that had not been sent goes out with what the store holds.
NotRenewed(a) ==
    /\ a \in asks /\ a.tab # None /\ a.answer \in {"refused", "lost"}
    /\ IF Waiting(a, "waiting") # {} THEN logout(a.tab) ELSE UNCHANGED store
    /\ \E token \in {access[a.tab], access'[a.tab]} :
        req' = [r \in Requests |->
                  CASE r \in Waiting(a, "waiting") -> Ended
                    [] r \in Waiting(a, "before") -> Resent(req[r], token)
                    [] OTHER -> req[r]]
    /\ asks' = asks \ {a}
    /\ UNCHANGED <<broken, server, history>>

-----------------------------------------------------------------------------
(* The browser *)

Outdated(token) == IF token # None /\ token[2] # current[token[1]] THEN {token[1]} ELSE {}

\* A page is loaded anew: what its scripts waited for is lost on them, and the
\* store is what localStorage has.
Reload(t) ==
    /\ EventsLeft
    /\ access' = [access EXCEPT ![t] = disk.access]
    /\ refresh' = [refresh EXCEPT ![t] = IF disk.access = None THEN None ELSE disk.refresh]
    /\ expiry' = IF disk.access # None /\ disk.expiry THEN expiry \cup {t} ELSE expiry \ {t}
    /\ broken' = broken \ {t}
    /\ asks' = {IF a.tab = t THEN [a EXCEPT !.tab = None] ELSE a : a \in asks}
    /\ unsure' = unsure \cup {a.token[1] : a \in {x \in asks : x.tab = t}} \cup Outdated(disk.refresh)
    /\ req' = [r \in Requests |-> IF req[r].tab = t THEN Ended ELSE req[r]]
    /\ rotated' = [rotated EXCEPT ![t] = {}]
    /\ mishaps' = mishaps + 1
    /\ UNCHANGED <<disk, server, askers>>

\* The connection fails before or after the server did its part.
Lose(a) ==
    /\ EventsLeft
    /\ a \in asks /\ a.tab # None /\ a.answer # "lost"
    /\ asks' = (asks \ {a}) \cup {[a EXCEPT !.answer = "lost"]}
    /\ mishaps' = mishaps + 1
    /\ unsure' = unsure \cup {a.token[1]}
    /\ UNCHANGED <<store, broken, req, server, rotated, askers>>

-----------------------------------------------------------------------------
(* The server *)

Honoured(token) == /\ token # None
                   /\ token[2] = current[token[1]]
                   /\ token[1] \notin dead \cup lapsed

\* Without a token the call may still pass, by a cookie.
Serve(r) ==
    /\ req[r].at = "sent"
    /\ \E at \in {"fine", "unauthorized"} :
        /\ req[r].token # None => at = IF Honoured(req[r].token) THEN "fine" ELSE "unauthorized"
        /\ req' = [req EXCEPT ![r].at = at, ![r].token = None]
    /\ UNCHANGED <<store, broken, asks, server, history>>

Replaced(a) == a.token[1] \in dead \/ a.token[2] # current[a.token[1]]

\* Mutation: every rotation starts a lifetime anew.
RotateForEver(a) ==
    /\ a \in asks /\ a.answer = "pending" /\ ~Replaced(a)
    /\ current' = [current EXCEPT ![a.token[1]] = @ + 1]
    /\ lapsed' = lapsed \ {a.token[1]}
    /\ asks' = {[b EXCEPT !.answer = "rotated"] : b \in {a}}
               \cup {IF b.token = a.token THEN [b EXCEPT !.raced = TRUE] ELSE b : b \in asks \ {a}}
    /\ UNCHANGED <<store, broken, req, dead, history>>

\* The session is replaced, or has reached its expires_at.
Rotate(a) ==
    /\ a \in asks /\ a.answer = "pending" /\ ~Replaced(a)
    /\ IF a.token[2] < MaxSessions
       THEN /\ current' = [current EXCEPT ![a.token[1]] = @ + 1]
            /\ lapsed' = lapsed \ {a.token[1]}
            /\ asks' = {[b EXCEPT !.answer = "rotated"] : b \in {a}}
                       \cup {IF b.token = a.token THEN [b EXCEPT !.raced = TRUE] ELSE b : b \in asks \ {a}}
       ELSE /\ asks' = (asks \ {a}) \cup {[a EXCEPT !.answer = "refused"]}
            /\ UNCHANGED <<current, lapsed>>
    /\ UNCHANGED <<store, broken, req, dead, history>>

\* A token that was replaced revokes its family, unless the two calls met in the
\* database, where the error rolls the revocation back.
DetectReuse(a) ==
    /\ a \in asks /\ a.answer = "pending" /\ Replaced(a)
    /\ asks' = (asks \ {a}) \cup {[a EXCEPT !.answer = "refused"]}
    /\ \/ dead' = dead \cup {a.token[1]}
       \/ a.raced /\ dead' = dead
    /\ UNCHANGED <<store, broken, req, current, lapsed, history>>

\* The answer to a page that is gone.
Orphan(a) ==
    /\ a \in asks /\ a.tab = None /\ a.answer # "pending"
    /\ asks' = asks \ {a}
    /\ UNCHANGED <<store, broken, req, server, history>>

Lapse(f) ==
    /\ current[f] # 0 /\ f \notin lapsed
    /\ lapsed' = lapsed \cup {f}
    /\ UNCHANGED <<store, broken, asks, req, current, dead, history>>

-----------------------------------------------------------------------------

Answer(r) == \/ Receive(r) \/ Unauthorized(r) \/ UnauthorizedFails(r) \/ Rejected(r)
             \/ Serve(r)

Settle(a) == Renewed(a) \/ NotRenewed(a) \/ Rotate(a) \/ DetectReuse(a) \/ Orphan(a)

Next ==
    \/ \E t \in Tabs : SignIn(t) \/ SignOut(t) \/ setProfile(t) \/ Reload(t)
    \/ \E r \in Requests, t \in Tabs : SendRenewing(r, t) \/ \E c \in Clients : Send(r, t, c)
    \/ \E r \in Requests : Answer(r)
    \/ \E a \in asks : Settle(a) \/ Lose(a)
    \/ \E f \in Families : Lapse(f)

Spec == Init /\ [][Next]_vars

SettleOf(t, c) == \E a \in InFlight(t, c) : Settle(a)

\* Every call ends, in an answer or an error, and is then handled.
FairAnswer(r) == WF_vars(Answer(r))
FairRenewal(t, c) == WF_vars(SettleOf(t, c))

FairSpec ==
    /\ Spec
    /\ \A r \in Requests : FairAnswer(r)
    /\ \A t \in Tabs, c \in Clients : FairRenewal(t, c)

-----------------------------------------------------------------------------
(* Properties *)

\* The reuse detection of the server is never set off by one client of one tab
\* alone, unless an answer was lost on it or it was loaded with an old token: the
\* calls that meet 401 at the same time renew the tokens once (api.ts:122,
\* enterprise.ts:66).
OneClientIsNoReplay ==
    \A f \in dead : f \in unsure \/ \E x, y \in askers[f] : x # y

\* A tab never holds a refresh token that its page has already exchanged: the
\* next renewal would revoke the sign-in (auth.ts:36).
NoSpentToken ==
    \A t \in Tabs : refresh[t] \notin rotated[t]

\* The server, as it is seen from here, keeps the promise that it keeps inside
\* (Sessions), with any tabs, clients and mishaps between it and its user.
Replacements == [f \in Families |-> IF current[f] = 0 THEN 0 ELSE current[f] - 1]

Promise == INSTANCE SignIns WITH issued <- current, exchanged <- Replacements, ended <- dead

Implements == Promise!Spec

\* What fairness is about is enabled: a call that was sent, or whose answer is
\* there, can go on, and so can a renewal.
CanAnswer(r) == ENABLED <<Answer(r)>>_vars
CanSettle(t, c) == ENABLED <<SettleOf(t, c)>>_vars
StepsAreEnabled ==
    /\ \A r \in Requests : req[r].at \in {"sent", "fine", "unauthorized"} => CanAnswer(r)
    /\ \A t \in Tabs, c \in Clients : InFlight(t, c) # {} => CanSettle(t, c)

\* A call that waits for a renewal waits for one that is under way: however the
\* answers, the failures and the reloads fall, none is forgotten by the one
\* renewal that its tab and client have (api.ts:122, enterprise.ts:66).
NobodyIsForgotten ==
    \A r \in Requests :
        req[r].at \in {"before", "waiting"} => InFlight(req[r].tab, req[r].client) # {}

\* No call is stuck: it can go on, or waits for a renewal that can.
CallsGoOn == NobodyIsForgotten /\ StepsAreEnabled

\* Every call of a page ends, those that wait for a renewal of others too
\* (enterprise.ts:66).
Settles(r, t) == (req[r].at \in UnderWay /\ req[r].tab = t) ~> (req[r].at = "ended")

RequestsSettle == \A r \in Requests, t \in Tabs : Settles(r, t)
=============================================================================
