------------------------------ MODULE Sessions ------------------------------
(***************************************************************************)
(* The sign-in sessions of one account of the Django backend               *)
(* (src/backend/apps/accounts/services.py): password and OAuth sign-in,    *)
(* refresh-token rotation, sign-out, password reset and password change,   *)
(* run by concurrent requests.                                             *)
(*                                                                         *)
(* A request is a sequence of SQL statements in PostgreSQL's READ          *)
(* COMMITTED isolation; the settings do not set ATOMIC_REQUESTS, so a      *)
(* statement outside transaction.atomic() commits by itself.  An action is *)
(* one statement, or the statements of one transaction between which no    *)
(* other request can tell a difference:                                    *)
(*  - what a transaction writes becomes visible in the action that commits *)
(*    it; the row locks it takes before that are in rowLock and userLock;  *)
(*  - an UPDATE over several rows takes its snapshot in one action, locks  *)
(*    the rows one by one, in any order, and writes them when it has all;  *)
(*    a row committed in between is not in the snapshot;                   *)
(*  - of transactions that wait for each other in a circle PostgreSQL ends *)
(*    one, which writes nothing, and whose caller is told of an error.     *)
(*                                                                         *)
(* Foreign keys lock a referenced row in a mode that conflicts with none   *)
(* of these updates, which change no key.                                  *)
(***************************************************************************)
EXTENDS Naturals, FiniteSets

CONSTANTS Procs,       \* requests being served at the same time
          Tokens,      \* the password-reset tokens issued to the account
          MaxSessions, \* bound: rows of the sessions table
          MaxTime,     \* bound: the clock
          Lifetime,    \* REFRESH_TOKEN_DURATION, in clock ticks
          LockLimit,   \* failed attempts that lock the account (5)
          MaxBlind,    \* bound: sign-ins while Redis cannot be read
          Nobody       \* no request

Ids == 1 .. MaxSessions

ASSUME SessionsAssumption ==
    /\ MaxSessions \in Nat \ {0}
    /\ MaxTime \in Nat
    /\ Lifetime \in Nat \ {0}
    /\ LockLimit \in Nat \ {0}
    /\ MaxBlind \in Nat
    /\ IsFiniteSet(Procs) /\ Nobody \notin Procs
    /\ Tokens \cap Ids = {}

VARIABLES
    rows,       \* the ids of the committed rows of the sessions table
    family,     \* family_id: the id of the session the family began with
    expiresAt,  \* expires_at
    replacedBy, \* replaced_by, 0 for NULL
    revoked,    \* the ids of the rows whose revoked_at is not NULL
    rowLock,    \* the transaction that holds each session row's lock
    user,       \* the users row: password usable, email verified, OAuth linked
    userLock,   \* the transaction that holds the users row's lock
    usedTok,    \* the reset tokens whose used_at is not NULL
    failures,   \* lock:login:<email>, the counter of failed sign-ins
    blind,      \* history: sign-ins since it was cleared that could not read it
    now,        \* the clock
    pc,         \* where each request is
    arg,        \* the session or the token a request is about
    snap        \* the rows in the snapshot of the UPDATE a request runs

table == <<rows, family, expiresAt, replacedBy, revoked>>
locks == <<rowLock, userLock>>
counter == <<failures, blind>>
account == <<user, usedTok, counter>>
local == <<pc, arg, snap>>
vars == <<table, locks, account, now, local>>

\* The states of a request that is going to insert a session.
Inserting == {"login_touch", "login_insert", "refresh_lock", "refresh_commit",
              "oauth_secure", "oauth_apply", "oauth_secured", "oauth_link", "oauth_touch",
              "oauth_linked"}

\* The states of a request that runs an UPDATE over several session rows.
Updating == {"reuse_apply", "reuse_locked", "reset_apply", "change_apply", "oauth_apply"}

Stages == Inserting \cup Updating \cup
    {"idle", "login_verify", "reuse_update", "reset_begin", "change_begin"}

TypeOK ==
    /\ rows \subseteq Ids
    /\ family \in [Ids -> Ids]
    /\ expiresAt \in [Ids -> Nat]
    /\ replacedBy \in [Ids -> Ids \cup {0}]
    /\ revoked \subseteq rows
    /\ rowLock \in [Ids -> Procs \cup {Nobody}]
    /\ user \in [usable : BOOLEAN, verified : BOOLEAN, linked : BOOLEAN]
    /\ userLock \in Procs \cup {Nobody}
    /\ usedTok \subseteq Tokens
    /\ failures \in Nat /\ blind \in Nat
    /\ now \in Nat
    /\ pc \in [Procs -> Stages]
    /\ arg \in [Procs -> Ids \cup Tokens \cup {0}]
    /\ snap \in [Procs -> SUBSET Ids]

(***************************************************************************)
(* After registration: one unverified user with a password, signed in.     *)
(***************************************************************************)
Init ==
    /\ rows = {1}
    /\ family = [s \in Ids |-> s]
    /\ expiresAt = [s \in Ids |-> Lifetime]
    /\ replacedBy = [s \in Ids |-> 0]
    /\ revoked = {}
    /\ rowLock = [s \in Ids |-> Nobody]
    /\ user = [usable |-> TRUE, verified |-> FALSE, linked |-> FALSE]
    /\ userLock = Nobody
    /\ usedTok = {}
    /\ failures = 0 /\ blind = 0
    /\ now = 0
    /\ pc = [p \in Procs |-> "idle"]
    /\ arg = [p \in Procs |-> 0]
    /\ snap = [p \in Procs |-> {}]

-----------------------------------------------------------------------------
(* Helpers *)

Live(s) == s \in rows \ revoked
Active(s) == Live(s) /\ expiresAt[s] > now
LiveRows == rows \ revoked
FamilyRows(f) == {s \in rows : family[s] = f}

\* The bound on the table: a request that would insert a row too many is not
\* admitted.
Room == Cardinality(rows) + Cardinality({p \in Procs : pc[p] \in Inserting})
            < MaxSessions

\* The id of a new row: any that no row has.  Which one it is makes no
\* difference, no definition and no property compares ids.
NextId(id) == id \in Ids \ rows /\ \A i \in Ids \ rows : id <= i

\* Request p goes to a stage, or ends and forgets its locals.
Goto(p, stage) == pc' = [pc EXCEPT ![p] = stage]
Done(p) ==
    /\ pc' = [pc EXCEPT ![p] = "idle"]
    /\ arg' = [arg EXCEPT ![p] = 0]
    /\ snap' = [snap EXCEPT ![p] = {}]

\* INSERT of a session that begins a family of its own, and the rows the same
\* transaction revokes before it.
start_session(id, ended) ==
    /\ NextId(id)
    /\ rows' = rows \cup {id}
    /\ family' = [family EXCEPT ![id] = id]
    /\ expiresAt' = [expiresAt EXCEPT ![id] = now + Lifetime]
    /\ revoked' = revoked \cup ended
    /\ UNCHANGED replacedBy

\* UPDATE sessions SET revoked_at = now: a row of the snapshot is locked, once
\* no other transaction has its lock, and is written when the transaction commits.
BeginUpdate(p, ids, stage) ==
    /\ snap' = [snap EXCEPT ![p] = ids]
    /\ Goto(p, stage)

LockRow(p, s) ==
    /\ pc[p] \in Updating
    /\ s \in snap[p]
    /\ rowLock[s] = Nobody
    /\ rowLock' = [rowLock EXCEPT ![s] = p]
    /\ UNCHANGED <<table, userLock, account, now, local>>

\* Mutation: an UPDATE does not wait for row locks.
HasRowsAlways(p) == TRUE

HasRows(p) == \A s \in snap[p] : rowLock[s] = p

RevokeSnapshot(p) ==
    /\ revoked' = revoked \cup snap[p]
    /\ UNCHANGED <<rows, family, expiresAt, replacedBy>>

\* A transaction ends and its locks are released.
Unlock(p) ==
    /\ rowLock' = [s \in Ids |-> IF rowLock[s] = p THEN Nobody ELSE rowLock[s]]
    /\ userLock' = IF userLock = p THEN Nobody ELSE userLock

RollBack(p) ==
    /\ Unlock(p)
    /\ Done(p)
    /\ UNCHANGED <<table, account, now>>

-----------------------------------------------------------------------------
(* login: the account lock is read; the users row, whose password is       *)
(* verified, is read and the counter written; then, each by itself,        *)
(* last_login is saved (which waits for the users row) and the session     *)
(* inserted.                                                               *)
(* Redis may fail at every use: an account whose lock cannot be read is    *)
(* not locked, and a counter that cannot be written stays as it is.        *)

\* Mutation: the account lock is not tested.
LoginCheckNothing(p) ==
    /\ pc[p] = "idle"
    /\ Goto(p, "login_verify")
    /\ UNCHANGED <<table, locks, account, now, arg, snap>>

LoginCheck(p) ==
    /\ pc[p] = "idle"
    /\ \/ failures < LockLimit /\ UNCHANGED blind
       \/ blind < MaxBlind /\ blind' = blind + 1
    /\ Goto(p, "login_verify")
    /\ UNCHANGED <<table, locks, user, usedTok, failures, now, arg, snap>>

ClearFailures == failures' = 0 /\ blind' = 0

\* Mutation: a right password takes one attempt off the counter.
LoginVerifyDecrements(p) ==
    /\ pc[p] = "login_verify"
    /\ user.usable
    /\ Room
    /\ failures' = failures - 1
    /\ Goto(p, "login_touch")
    /\ UNCHANGED <<table, locks, user, usedTok, blind, now, arg, snap>>

\* The password is right, and the counter is cleared.
LoginVerify(p) ==
    /\ pc[p] = "login_verify"
    /\ user.usable
    /\ Room
    /\ ClearFailures \/ UNCHANGED counter
    /\ Goto(p, "login_touch")
    /\ UNCHANGED <<table, locks, user, usedTok, now, arg, snap>>

\* It is not, and the attempt is counted.
LoginReject(p) ==
    /\ pc[p] = "login_verify"
    /\ failures' \in {failures, failures + 1}
    /\ Done(p)
    /\ UNCHANGED <<table, locks, user, usedTok, blind, now>>

LoginTouch(p) ==
    /\ pc[p] = "login_touch"
    /\ userLock = Nobody
    /\ Goto(p, "login_insert")
    /\ UNCHANGED <<table, locks, account, now, arg, snap>>

LoginInsert(p) ==
    /\ pc[p] = "login_insert"
    /\ \E id \in Ids : start_session(id, {})
    /\ Done(p)
    /\ UNCHANGED <<locks, account, now>>

\* The counter's key expires in Redis.
FailuresExpire ==
    /\ failures > 0
    /\ ClearFailures
    /\ UNCHANGED <<table, locks, user, usedTok, now, local>>

-----------------------------------------------------------------------------
(* refresh_session *)

\* The session is looked up by its token, without a lock.
RefreshLookup(p, s) ==
    /\ pc[p] = "idle"
    /\ s \in rows
    /\ \/ /\ replacedBy[s] # 0 \/ s \in revoked
          /\ Goto(p, "reuse_update")
       \/ /\ replacedBy[s] = 0 /\ s \notin revoked
          /\ now <= expiresAt[s]
          /\ Room
          /\ Goto(p, "refresh_lock")
    /\ arg' = [arg EXCEPT ![p] = s]
    /\ UNCHANGED <<table, locks, account, now, snap>>

\* The token was used before: an UPDATE of the family, by itself.
ReuseUpdate(p) ==
    /\ pc[p] = "reuse_update"
    /\ BeginUpdate(p, FamilyRows(family[arg[p]]), "reuse_apply")
    /\ UNCHANGED <<table, locks, account, now, arg>>

ReuseApply(p) ==
    /\ pc[p] = "reuse_apply"
    /\ HasRows(p)
    /\ RevokeSnapshot(p)
    /\ Unlock(p)
    /\ Done(p)
    /\ UNCHANGED <<account, now>>

\* Mutation: the test is not repeated on the locked row.
RefreshLockUnchecked(p) ==
    /\ pc[p] = "refresh_lock"
    /\ rowLock[arg[p]] = Nobody
    /\ rowLock' = [rowLock EXCEPT ![arg[p]] = p]
    /\ Goto(p, "refresh_commit")
    /\ UNCHANGED <<table, userLock, account, now, arg, snap>>

\* SELECT ... FOR UPDATE, and the test repeated on the locked row.
RefreshLock(p) ==
    /\ pc[p] = "refresh_lock"
    /\ rowLock[arg[p]] = Nobody
    /\ replacedBy[arg[p]] = 0 /\ arg[p] \notin revoked
    /\ rowLock' = [rowLock EXCEPT ![arg[p]] = p]
    /\ Goto(p, "refresh_commit")
    /\ UNCHANGED <<table, userLock, account, now, arg, snap>>

\* The repeated test fails: the family is updated while the lock on the row is
\* held, and ApiError is raised inside transaction.atomic(), which rolls the
\* update back.
RefreshReuse(p) ==
    /\ pc[p] = "refresh_lock"
    /\ rowLock[arg[p]] = Nobody
    /\ replacedBy[arg[p]] # 0 \/ arg[p] \in revoked
    /\ rowLock' = [rowLock EXCEPT ![arg[p]] = p]
    /\ BeginUpdate(p, FamilyRows(family[arg[p]]), "reuse_locked")
    /\ UNCHANGED <<table, userLock, account, now, arg>>

RefreshReuseRolledBack(p) ==
    /\ pc[p] = "reuse_locked"
    /\ HasRows(p)
    /\ RollBack(p)

\* The rotation with the successor's expiry and the rows it revokes left open,
\* for mutations of RefreshCommit.
Rotate(p, expiry, ended) ==
    LET s == arg[p] IN
    /\ pc[p] = "refresh_commit"
    /\ \E id \in Ids :
        /\ NextId(id)
        /\ rows' = rows \cup {id}
        /\ family' = [family EXCEPT ![id] = family[s]]
        /\ expiresAt' = [expiresAt EXCEPT ![id] = expiry]
        /\ replacedBy' = [replacedBy EXCEPT ![s] = id]
    /\ revoked' = revoked \cup ended
    /\ rowLock' = [rowLock EXCEPT ![s] = Nobody]
    /\ Done(p)
    /\ UNCHANGED <<userLock, account, now>>

\* Mutation: the replaced session is not revoked.
RefreshCommitKeepsOld(p) == Rotate(p, expiresAt[arg[p]], {})

\* Mutation: every rotation begins a new lifetime.
RefreshCommitRenews(p) == Rotate(p, now + Lifetime, {arg[p]})

\* The successor is inserted, the locked row is saved, the transaction commits.
RefreshCommit(p) ==
    LET s == arg[p] IN
    /\ pc[p] = "refresh_commit"
    /\ \E id \in Ids :
        /\ NextId(id)
        /\ rows' = rows \cup {id}
        /\ family' = [family EXCEPT ![id] = family[s]]
        /\ expiresAt' = [expiresAt EXCEPT ![id] = expiresAt[s]]
        /\ replacedBy' = [replacedBy EXCEPT ![s] = id]
    /\ revoked' = revoked \cup {s}
    /\ rowLock' = [rowLock EXCEPT ![s] = Nobody]
    /\ Done(p)
    /\ UNCHANGED <<userLock, account, now>>

-----------------------------------------------------------------------------
(* logout and revoke_user_session: one UPDATE of one row. *)

logout(s) ==
    /\ s \in rows
    /\ rowLock[s] = Nobody
    /\ revoked' = revoked \cup {s}
    /\ UNCHANGED <<rows, family, expiresAt, replacedBy, locks, account, now, local>>

revoke_user_session(current, s) ==
    /\ Active(current)
    /\ Live(s)
    /\ rowLock[s] = Nobody
    /\ revoked' = revoked \cup {s}
    /\ UNCHANGED <<rows, family, expiresAt, replacedBy, locks, account, now, local>>

-----------------------------------------------------------------------------
(* verify_email's effect on the account. *)

verify_email ==
    /\ userLock = Nobody
    /\ user' = [user EXCEPT !.verified = TRUE]
    /\ UNCHANGED <<table, locks, usedTok, counter, now, local>>

-----------------------------------------------------------------------------
(* reset_password: the token is read without a lock (it is unexpired), then *)
(* locked with the users row; its sessions are updated from a snapshot.     *)

ResetLookup(p, t) ==
    /\ pc[p] = "idle"
    /\ arg' = [arg EXCEPT ![p] = t]
    /\ Goto(p, "reset_begin")
    /\ UNCHANGED <<table, locks, account, now, snap>>

ResetBegin(p) ==
    /\ pc[p] = "reset_begin"
    /\ userLock = Nobody
    /\ arg[p] \notin usedTok
    /\ userLock' = p
    /\ BeginUpdate(p, LiveRows, "reset_apply")
    /\ UNCHANGED <<table, rowLock, account, now, arg>>

ResetRefused(p) ==
    /\ pc[p] = "reset_begin"
    /\ userLock = Nobody
    /\ arg[p] \in usedTok
    /\ Done(p)
    /\ UNCHANGED <<table, locks, account, now>>

ResetCommit(p) ==
    /\ pc[p] = "reset_apply"
    /\ HasRows(p)
    /\ RevokeSnapshot(p)
    /\ user' = [user EXCEPT !.usable = TRUE, !.verified = TRUE]
    /\ usedTok' = usedTok \cup {arg[p]}
    /\ ClearFailures \/ UNCHANGED counter
    /\ Unlock(p)
    /\ Done(p)
    /\ UNCHANGED now

-----------------------------------------------------------------------------
(* change_password, from the signed-in session s; the current password is  *)
(* verified against the users row the authentication read.                 *)

ChangeLookup(p, s) ==
    /\ pc[p] = "idle"
    /\ Active(s)
    /\ user.usable
    /\ arg' = [arg EXCEPT ![p] = s]
    /\ Goto(p, "change_begin")
    /\ UNCHANGED <<table, locks, account, now, snap>>

\* Mutation: the users row is not written first.
ChangeBeginWithSessions(p) ==
    /\ pc[p] = "change_begin"
    /\ BeginUpdate(p, LiveRows \ {arg[p]}, "change_apply")
    /\ UNCHANGED <<table, locks, account, now, arg>>

ChangeBegin(p) ==
    /\ pc[p] = "change_begin"
    /\ userLock = Nobody
    /\ userLock' = p
    /\ BeginUpdate(p, LiveRows \ {arg[p]}, "change_apply")
    /\ UNCHANGED <<table, rowLock, account, now, arg>>

ChangeCommit(p) ==
    /\ pc[p] = "change_apply"
    /\ HasRows(p)
    /\ RevokeSnapshot(p)
    /\ user' = [user EXCEPT !.usable = TRUE]
    /\ Unlock(p)
    /\ Done(p)
    /\ UNCHANGED <<usedTok, counter, now>>

-----------------------------------------------------------------------------
(* google_login and github_login for the account's own email: one           *)
(* transaction that links the provider the first time, securing an account  *)
(* whose email is unverified (_secure_unverified_account), and signs in.    *)
(* The provider's answer is external, and says that the user is signed in.  *)

OAuthBegin(p) ==
    /\ pc[p] = "idle"
    /\ Room
    /\ \/ user.linked /\ Goto(p, "oauth_linked")
       \/ ~user.linked /\ user.verified /\ Goto(p, "oauth_link")
       \/ ~user.linked /\ ~user.verified /\ Goto(p, "oauth_secure")
    /\ UNCHANGED <<table, locks, account, now, arg, snap>>

SecureUnverified(p) ==
    /\ pc[p] = "oauth_secure"
    /\ userLock = Nobody
    /\ userLock' = p
    /\ BeginUpdate(p, LiveRows, "oauth_apply")
    /\ UNCHANGED <<table, rowLock, account, now, arg>>

SecureSessions(p) ==
    /\ pc[p] = "oauth_apply"
    /\ HasRows(p)
    /\ Goto(p, "oauth_secured")
    /\ UNCHANGED <<table, locks, account, now, arg, snap>>

\* The INSERT of the OAuthAccount waits for a transaction that has inserted it
\* and not committed.
LinkFree == \A q \in Procs : pc[q] # "oauth_touch"

\* After it the users row, which is its own, and the session: it commits.
SecureCommit(p) ==
    /\ pc[p] = "oauth_secured"
    /\ LinkFree /\ ~user.linked
    /\ \E id \in Ids : start_session(id, snap[p])
    /\ user' = [usable |-> FALSE, verified |-> TRUE, linked |-> TRUE]
    /\ Unlock(p)
    /\ Done(p)
    /\ UNCHANGED <<usedTok, counter, now>>

OAuthLink(p) ==
    /\ pc[p] = "oauth_link"
    /\ LinkFree /\ ~user.linked
    /\ Goto(p, "oauth_touch")
    /\ UNCHANGED <<table, locks, account, now, arg, snap>>

\* last_login is saved, which waits for the users row, and the session inserted.
OAuthSignIn(p) ==
    /\ pc[p] \in {"oauth_linked", "oauth_touch"}
    /\ userLock = Nobody
    /\ \E id \in Ids : start_session(id, {})
    /\ user' = [user EXCEPT !.linked = TRUE]
    /\ Done(p)
    /\ UNCHANGED <<locks, usedTok, counter, now>>

\* The provider was linked by another request in the meantime: the INSERT
\* breaks oauth_accounts_provider_user_uniq and everything is rolled back.
OAuthConflict(p) ==
    /\ pc[p] \in {"oauth_link", "oauth_secured"}
    /\ LinkFree /\ user.linked
    /\ RollBack(p)

-----------------------------------------------------------------------------
(* PostgreSQL *)

\* The stages that wait for the users row, and for the OAuthAccount.
NeedsUser == {"login_touch", "reset_begin", "change_begin", "oauth_secure", "oauth_touch",
              "oauth_linked"}
NeedsLink == {"oauth_link", "oauth_secured"}

\* The requests whose transactions have what p waits for.
WaitsFor(p) ==
    {q \in Procs \ {p} :
        \/ pc[p] \in NeedsUser /\ userLock = q
        \/ pc[p] \in NeedsLink /\ pc[q] = "oauth_touch"
        \/ pc[p] \in Updating /\ \E s \in snap[p] : rowLock[s] = q
        \/ pc[p] = "refresh_lock" /\ rowLock[arg[p]] = q}

\* Circles of n + 1 waiters.
Circles(n) ==
    {c \in [0 .. n -> Procs] :
        /\ \A i \in 0 .. n - 1 : c[i + 1] \in WaitsFor(c[i])
        /\ c[0] \in WaitsFor(c[n])}

\* The deadlock detection ends a transaction that is in a circle of waiters.
Deadlocked(p) ==
    /\ \E n \in 1 .. Cardinality(Procs) - 1 : \E c \in Circles(n) : c[0] = p
    /\ RollBack(p)

-----------------------------------------------------------------------------

Tick ==
    /\ now < MaxTime
    /\ now' = now + 1
    /\ UNCHANGED <<table, locks, account, local>>

\* What an admitted request does next.
Proceed(p) ==
    \/ LoginVerify(p) \/ LoginReject(p) \/ LoginTouch(p) \/ LoginInsert(p)
    \/ ReuseUpdate(p) \/ ReuseApply(p)
    \/ RefreshLock(p) \/ RefreshReuse(p) \/ RefreshReuseRolledBack(p) \/ RefreshCommit(p)
    \/ ResetBegin(p) \/ ResetRefused(p) \/ ResetCommit(p)
    \/ ChangeBegin(p) \/ ChangeCommit(p)
    \/ SecureUnverified(p) \/ SecureSessions(p) \/ SecureCommit(p)
    \/ OAuthLink(p) \/ OAuthSignIn(p) \/ OAuthConflict(p)
    \/ \E s \in Ids : LockRow(p, s)

Arrive(p) ==
    \/ LoginCheck(p) \/ OAuthBegin(p)
    \/ \E s \in Ids : RefreshLookup(p, s) \/ ChangeLookup(p, s)
    \/ \E t \in Tokens : ResetLookup(p, t)

Next ==
    \/ \E p \in Procs : Arrive(p) \/ Proceed(p) \/ Deadlocked(p)
    \/ \E s \in Ids : logout(s)
    \/ \E current, s \in Ids : revoke_user_session(current, s)
    \/ verify_email
    \/ FailuresExpire
    \/ Tick

Spec == Init /\ [][Next]_vars

-----------------------------------------------------------------------------
(* Properties *)

FamilyDead(f) == FamilyRows(f) # {} /\ FamilyRows(f) \subseteq revoked

\* Rotation replaces a session by one successor: however many requests present
\* tokens of a family at the same time, at most one of its sessions is live.
\* (refresh_session repeats its test on the locked row.)
OneLivePerFamily ==
    \A s, t \in LiveRows : family[s] = family[t] => s = t

\* A family is one line of rotations: its sessions other than the first are
\* each the replacement of exactly one revoked session of the family, so no
\* token was honoured twice.
FamilyIsALine ==
    /\ \A s \in rows : replacedBy[s] # 0 =>
          /\ replacedBy[s] \in rows /\ s \in revoked
          /\ family[replacedBy[s]] = family[s]
    /\ \A s \in rows : s # family[s] =>
          Cardinality({t \in rows : replacedBy[t] = s}) = 1

\* However often it is rotated, a sign-in lasts REFRESH_TOKEN_DURATION from
\* its first session: all sessions of a family expire together, and no
\* session is to live for longer than Lifetime from now.
RotationKeepsExpiry ==
    /\ \A s, t \in rows : family[s] = family[t] => expiresAt[s] = expiresAt[t]
    /\ \A s \in rows : expiresAt[s] <= now + Lifetime

\* Once every session of a family is revoked (by sign-out, reuse detection, a
\* password change or reset), no rotation begun before brings it back.
DeadFamilyStaysDead ==
    [][\A f \in Ids : FamilyDead(f) => FamilyDead(f)']_vars

\* A transaction that is about to rotate a session holds its lock and the
\* session is live: nobody revokes or rotates it in between.
RotationHoldsLiveRow ==
    \A p \in Procs : pc[p] = "refresh_commit" =>
        rowLock[arg[p]] = p /\ Live(arg[p])

\* The account lock is tested before the attempt is counted, so attempts made
\* at the same time pass it together, and so do those that cannot read it: the
\* attempts counted and under way exceed the limit by less than the number of
\* requests being served and of sign-ins that found Redis out of order.
Attempting == {p \in Procs : pc[p] = "login_verify"}

LockOvershoot == failures + Cardinality(Attempting) < LockLimit + Cardinality(Procs) + blind

\* The promise (SignIns): each sign-in is a line of tokens, none of which is
\* exchanged twice or after the end, whatever requests present which of them.
Issued == [f \in Ids |-> Cardinality(FamilyRows(f))]
Exchanged == [f \in Ids |-> Cardinality({s \in rows : family[s] = f /\ replacedBy[s] # 0})]
Ended == {family[s] : s \in rows} \ {family[s] : s \in LiveRows}

Promise == INSTANCE SignIns
           WITH Families <- Ids, issued <- Issued, exchanged <- Exchanged, ended <- Ended

Implements == Promise!Spec

SomeId == \E id \in Ids : NextId(id)

\* A request can go on: the guards of one of its actions hold.
CanProceed(p) ==
    \/ pc[p] \in {"login_verify", "reuse_update"}
    \/ pc[p] \in {"login_insert", "refresh_commit"} /\ SomeId
    \/ pc[p] \in {"login_touch", "reset_begin", "change_begin", "oauth_secure"} /\ userLock = Nobody
    \/ pc[p] \in {"oauth_linked", "oauth_touch"} /\ userLock = Nobody /\ SomeId
    \/ pc[p] = "oauth_link" /\ LinkFree
    \/ pc[p] = "oauth_secured" /\ LinkFree /\ (user.linked \/ SomeId)
    \/ pc[p] = "refresh_lock" /\ rowLock[arg[p]] = Nobody
    \/ pc[p] \in Updating /\ (HasRows(p) \/ \E s \in snap[p] : rowLock[s] = Nobody)

\* Whoever cannot go on waits for another's transaction.
NobodyIsStuck == \A p \in Procs : pc[p] # "idle" => CanProceed(p) \/ WaitsFor(p) # {}

\* A deadlock needs the answer to a reused token, which locks the family in any
\* order, in one of two ways with a row already locked, or a first provider
\* sign-in, which has its OAuthAccount before the users row.  Resets, changes of
\* the password and securing sign-ins do not deadlock with each other, with
\* rotations or with sign-ins, in whatever order their updates lock the rows:
\* all lock the users row first, and a rotation waits for nothing once it has
\* its row.
CanCircle == {"reuse_apply", "reuse_locked", "oauth_touch"}

CirclesAreKnown ==
    \A n \in 1 .. Cardinality(Procs) - 1 : \A c \in Circles(n) : \E i \in 0 .. n : pc[c[i]] \in CanCircle

\* Every request that is under way goes on, or waits for one that has what it
\* needs; circles of waiters are of the known kinds, and PostgreSQL breaks them.
WaitersAreServed ==
    /\ NobodyIsStuck
    /\ CirclesAreKnown
    /\ \A p \in Procs : CanProceed(p) => ENABLED Proceed(p)

\* "refresh token reuse detected; all sessions in this family were revoked":
\* the family is dead once refresh_session has answered so under the lock.
ReuseReportIsTrue ==
    [][\A p \in Procs :
          pc[p] = "reuse_locked" /\ HasRows(p) /\ pc'[p] = "idle" =>
              \A f \in {family[arg[p]]} : FamilyDead(f)']_vars

\* reset_password: "Reset user password, mark email verified, and revoke all
\* existing sessions": no session that exists when it commits is live after.
ResetRevokesAllSessions ==
    [][\A p \in Procs :
          pc[p] = "reset_apply" /\ HasRows(p) /\ pc'[p] = "idle" => LiveRows' = {}]_vars

=============================================================================
