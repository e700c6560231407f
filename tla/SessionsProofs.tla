--------------------------- MODULE SessionsProofs ---------------------------
(***************************************************************************)
(* Proofs about Sessions, for any number of requests and sessions.         *)
(***************************************************************************)
EXTENDS Sessions, FiniteSetTheorems, TLAPS

\* The request's argument is of the kind its stage needs.
ArgOK ==
    \A p \in Procs :
        /\ pc[p] \in {"refresh_lock", "refresh_commit"} => arg[p] \in rows
        /\ pc[p] \in {"reset_begin", "reset_apply"} => arg[p] \in Tokens

\* Snapshots hold committed rows only.
SnapOK == \A p \in Procs : snap[p] \subseteq rows

\* The session a family began with is in the table.
FamilyHasRoot == \A s \in rows : family[s] \in rows

\* A securing sign-in that has updated the sessions has all their locks.
SecuredHoldsRows == \A p \in Procs : pc[p] = "oauth_secured" => HasRows(p)

TInv == TypeOK /\ ArgOK /\ SnapOK

IInv == TInv /\ FamilyHasRoot /\ RotationHoldsLiveRow /\ SecuredHoldsRows /\ OneLivePerFamily

-----------------------------------------------------------------------------

LEMMA InitTInv == Init => TInv
BY SessionsAssumption DEF Init, TInv, TypeOK, ArgOK, SnapOK, Ids, Stages, Inserting, Updating

USE DEF Done, Goto, BeginUpdate

\* The end of a transaction leaves the locks what they are.
LEMMA UnlockType ==
    ASSUME TypeOK, NEW p \in Procs, Unlock(p)
    PROVE  /\ rowLock' \in [Ids -> Procs \cup {Nobody}]
           /\ userLock' \in Procs \cup {Nobody}
BY DEF TypeOK, Unlock

LEMMA NextTInv == TInv /\ [Next]_vars => TInv'
<1> SUFFICES ASSUME TInv, [Next]_vars PROVE TInv'
  OBVIOUS
<1> USE SessionsAssumption DEF TInv, TypeOK, ArgOK, SnapOK
<1>1. ASSUME NEW p \in Procs, Arrive(p) PROVE TInv'
  <2> USE DEF Stages, Inserting
  <2>1. CASE LoginCheck(p)
    BY <2>1 DEF LoginCheck, table, locks
  <2>3. CASE OAuthBegin(p)
    BY <2>3 DEF OAuthBegin, table, locks, account, counter
  <2>4. ASSUME NEW s \in Ids, RefreshLookup(p, s) PROVE TInv'
    BY <2>4 DEF RefreshLookup, table, locks, account, counter
  <2>5. ASSUME NEW s \in Ids, ChangeLookup(p, s) PROVE TInv'
    BY <2>5 DEF ChangeLookup, table, locks, account, counter
  <2>6. ASSUME NEW t \in Tokens, ResetLookup(p, t) PROVE TInv'
    BY <2>6 DEF ResetLookup, table, locks, account, counter
  <2>7. QED
    BY <1>1, <2>1, <2>3, <2>4, <2>5, <2>6 DEF Arrive
<1>2. ASSUME NEW p \in Procs, Proceed(p) PROVE TInv'
  <2> USE DEF Stages, Inserting, Updating
  <2>1. CASE LoginVerify(p)
    BY <2>1 DEF LoginVerify, ClearFailures, table, locks, counter
  <2>2. CASE LoginReject(p)
    BY <2>2 DEF LoginReject, table, locks
  <2>3. CASE LoginTouch(p)
    BY <2>3 DEF LoginTouch, table, locks, account, counter
  <2>4. CASE LoginInsert(p)
    BY <2>4 DEF LoginInsert, start_session, NextId, locks, account, counter
  <2>5. CASE ReuseUpdate(p)
    BY <2>5 DEF ReuseUpdate, FamilyRows, table, locks, account, counter
  <2>6. CASE ReuseApply(p)
    BY <2>6, UnlockType DEF ReuseApply, RevokeSnapshot, account, counter
  <2>7. CASE RefreshLock(p)
    BY <2>7 DEF RefreshLock, table, account, counter
  <2>8. CASE RefreshReuse(p)
    BY <2>8 DEF RefreshReuse, FamilyRows, table, account, counter
  <2>9. CASE RefreshReuseRolledBack(p)
    BY <2>9, UnlockType DEF RefreshReuseRolledBack, RollBack, table, account, counter
  <2>10. CASE RefreshCommit(p)
    BY <2>10 DEF RefreshCommit, NextId, account, counter
  <2>11. CASE ResetBegin(p)
    BY <2>11 DEF ResetBegin, LiveRows, table, account, counter
  <2>12. CASE ResetRefused(p)
    BY <2>12 DEF ResetRefused, table, locks, account, counter
  <2>13. CASE ResetCommit(p)
    <3>1. user' \in [usable : BOOLEAN, verified : BOOLEAN, linked : BOOLEAN]
      BY <2>13 DEF ResetCommit
    <3>2. usedTok' \subseteq Tokens /\ failures' \in Nat /\ blind' \in Nat /\ now' \in Nat
      BY <2>13 DEF ResetCommit, ClearFailures, counter
    <3>3. rows' = rows /\ revoked' \subseteq rows /\ UNCHANGED <<family, expiresAt, replacedBy>>
      BY <2>13 DEF ResetCommit, RevokeSnapshot
    <3>4. Unlock(p) /\ Done(p)
      BY <2>13 DEF ResetCommit
    <3> QED
      BY <3>1, <3>2, <3>3, <3>4, UnlockType
  <2>14. CASE ChangeBegin(p)
    BY <2>14 DEF ChangeBegin, LiveRows, table, account, counter
  <2>15. CASE ChangeCommit(p)
    BY <2>15, UnlockType DEF ChangeCommit, RevokeSnapshot, counter
  <2>16. CASE SecureUnverified(p)
    BY <2>16 DEF SecureUnverified, LiveRows, table, account, counter
  <2>17. CASE SecureSessions(p)
    BY <2>17 DEF SecureSessions, table, locks, account, counter
  <2>18. CASE SecureCommit(p)
    <3>1. PICK id \in Ids : start_session(id, snap[p])
      BY <2>18 DEF SecureCommit
    <3>2. /\ rows' \subseteq Ids /\ rows \subseteq rows' /\ revoked' \subseteq rows'
          /\ family' \in [Ids -> Ids] /\ expiresAt' \in [Ids -> Nat]
          /\ replacedBy' = replacedBy
      BY <3>1 DEF start_session, NextId
    <3>3. UNCHANGED <<usedTok, failures, blind, now>> /\ Done(p) /\ Unlock(p)
          /\ user' \in [usable : BOOLEAN, verified : BOOLEAN, linked : BOOLEAN]
      BY <2>18 DEF SecureCommit, counter
    <3> QED
      BY <3>2, <3>3, UnlockType
  <2>19. CASE OAuthLink(p)
    BY <2>19 DEF OAuthLink, table, locks, account, counter
  <2>20. CASE OAuthSignIn(p)
    <3>1. PICK id \in Ids : start_session(id, {})
      BY <2>20 DEF OAuthSignIn
    <3>2. user' \in [usable : BOOLEAN, verified : BOOLEAN, linked : BOOLEAN]
      BY <2>20 DEF OAuthSignIn
    <3>3. /\ rows' \subseteq Ids /\ rows \subseteq rows' /\ revoked' \subseteq rows'
          /\ family' \in [Ids -> Ids] /\ expiresAt' \in [Ids -> Nat]
          /\ replacedBy' = replacedBy
      BY <3>1 DEF start_session, NextId
    <3>4. UNCHANGED <<rowLock, userLock, usedTok, failures, blind, now>> /\ Done(p)
      BY <2>20 DEF OAuthSignIn, locks, counter
    <3>5. QED
      BY <3>2, <3>3, <3>4
  <2>21. CASE OAuthConflict(p)
    BY <2>21, UnlockType DEF OAuthConflict, RollBack, table, account, counter
  <2>22. ASSUME NEW s \in Ids, LockRow(p, s) PROVE TInv'
    BY <2>22 DEF LockRow, table, account, counter, local
  <2>23. QED
    BY <1>2, <2>1, <2>2, <2>3, <2>4, <2>5, <2>6, <2>7, <2>8, <2>9, <2>10, <2>11, <2>12,
       <2>13, <2>14, <2>15, <2>16, <2>17, <2>18, <2>19, <2>20, <2>21, <2>22 DEF Proceed
<1>3. ASSUME NEW p \in Procs, Deadlocked(p) PROVE TInv'
  <2>1. RollBack(p)
    BY <1>3 DEF Deadlocked
  <2> QED
    BY <2>1, UnlockType DEF RollBack, Stages, table, account, counter
<1>4. ASSUME NEW s \in Ids, logout(s) PROVE TInv'
  BY <1>4 DEF logout, locks, account, counter, local
<1>5. ASSUME NEW c \in Ids, NEW s \in Ids, revoke_user_session(c, s) PROVE TInv'
  BY <1>5 DEF revoke_user_session, Live, locks, account, counter, local
<1>6. CASE verify_email
  BY <1>6 DEF verify_email, table, locks, counter, local
<1>7. CASE FailuresExpire
  BY <1>7 DEF FailuresExpire, ClearFailures, table, locks, local
<1>8. CASE Tick
  BY <1>8 DEF Tick, table, locks, account, counter, local
<1>9. CASE UNCHANGED vars
  BY <1>9 DEF vars, table, locks, account, counter, local
<1>10. QED
  BY <1>1, <1>2, <1>3, <1>4, <1>5, <1>6, <1>7, <1>8, <1>9 DEF Next

\* The tables, the locks and the locals of the requests keep their shape, a
\* row is revoked only if it exists, and snapshots hold committed rows.
THEOREM TypeCorrect == Spec => []TypeOK
<1>1. TInv => TypeOK
  BY DEF TInv
<1>2. QED
  BY InitTInv, NextTInv, <1>1, PTL DEF Spec

-----------------------------------------------------------------------------
(* One step at a time *)

\* What a step may do to the table: insert nothing, sign in, or rotate.
LEMMA TableSteps ==
    ASSUME TInv, [Next]_vars
    PROVE  \/ /\ UNCHANGED <<rows, family, replacedBy, expiresAt>>
              /\ revoked \subseteq revoked' /\ now' \in Nat /\ now <= now'
           \/ /\ now' = now
              /\ \E id \in Ids, ended \in SUBSET Ids : ended \subseteq rows /\ start_session(id, ended)
           \/ \E p \in Procs : RefreshCommit(p)
<1> DEFINE Quietly == /\ UNCHANGED <<rows, family, replacedBy, expiresAt>>
                      /\ revoked \subseteq revoked' /\ now' \in Nat /\ now <= now'
<1>t. now \in Nat /\ \A p \in Procs : snap[p] \in SUBSET Ids /\ snap[p] \subseteq rows
  BY DEF TInv, TypeOK, SnapOK
<1>n. {} \in SUBSET Ids /\ {} \subseteq rows
  OBVIOUS
<1>1. ASSUME NEW p \in Procs, Arrive(p) PROVE Quietly
  BY <1>1, <1>t DEF Arrive, LoginCheck, OAuthBegin, RefreshLookup, ChangeLookup, ResetLookup, table
<1>2. ASSUME NEW p \in Procs, Proceed(p)
      PROVE  \/ Quietly \/ RefreshCommit(p)
             \/ /\ now' = now
                /\ \E id \in Ids, ended \in SUBSET Ids : ended \subseteq rows /\ start_session(id, ended)
  <2>1. CASE LoginInsert(p) \/ OAuthSignIn(p)
    BY <1>n, <2>1 DEF LoginInsert, OAuthSignIn
  <2>2. CASE SecureCommit(p)
    BY <1>t, <2>2 DEF SecureCommit
  <2>3. CASE LoginVerify(p) \/ LoginReject(p) \/ LoginTouch(p) \/ ReuseUpdate(p)
             \/ RefreshLock(p) \/ RefreshReuse(p) \/ RefreshReuseRolledBack(p) \/ ResetBegin(p)
             \/ ResetRefused(p) \/ ChangeBegin(p)
    BY <1>t, <2>3 DEF LoginVerify, LoginReject, LoginTouch, ReuseUpdate, RefreshLock, RefreshReuse,
         RefreshReuseRolledBack, RollBack, ResetBegin, ResetRefused, ChangeBegin, table
  <2>4. CASE SecureUnverified(p) \/ SecureSessions(p) \/ OAuthLink(p) \/ OAuthConflict(p)
             \/ \E s \in Ids : LockRow(p, s)
    BY <1>t, <2>4 DEF SecureUnverified, SecureSessions, OAuthLink, OAuthConflict, RollBack, LockRow,
         table
  <2>5. CASE ReuseApply(p) \/ ResetCommit(p) \/ ChangeCommit(p)
    BY <1>t, <2>5 DEF ReuseApply, ResetCommit, ChangeCommit, RevokeSnapshot
  <2> QED
    BY <1>2, <2>1, <2>2, <2>3, <2>4, <2>5 DEF Proceed
<1>3. ASSUME NEW s \in Ids, logout(s) PROVE Quietly
  BY <1>3, <1>t DEF logout
<1>4. ASSUME NEW c \in Ids, NEW s \in Ids, revoke_user_session(c, s) PROVE Quietly
  BY <1>4, <1>t DEF revoke_user_session
<1>5. CASE verify_email \/ FailuresExpire \/ Tick \/ UNCHANGED vars
  BY <1>t, <1>5 DEF verify_email, FailuresExpire, Tick, vars, table
<1>6. ASSUME NEW p \in Procs, Deadlocked(p) PROVE Quietly
  BY <1>t, <1>6 DEF Deadlocked, RollBack, table
<1> QED
  BY <1>1, <1>2, <1>3, <1>4, <1>5, <1>6 DEF Next

\* A step of one request leaves the others where they are, with what they have locked.
Stays(q) ==
    /\ pc'[q] = pc[q] /\ arg'[q] = arg[q] /\ snap'[q] = snap[q]
    /\ \A s \in Ids : rowLock'[s] = q <=> rowLock[s] = q
    /\ userLock' = q <=> userLock = q

LEMMA OthersStay ==
    ASSUME TInv, RotationHoldsLiveRow, NEW p \in Procs, NEW q \in Procs \ {p},
           Arrive(p) \/ Proceed(p) \/ Deadlocked(p)
    PROVE  Stays(q)
<1> USE SessionsAssumption DEF Stays
<1>t. /\ pc \in [Procs -> Stages] /\ arg \in [Procs -> Ids \cup Tokens \cup {0}]
      /\ snap \in [Procs -> SUBSET Ids]
      /\ rowLock \in [Ids -> Procs \cup {Nobody}] /\ userLock \in Procs \cup {Nobody}
  BY DEF TInv, TypeOK
<1>u. ASSUME Unlock(p)
      PROVE  /\ \A s \in Ids : rowLock'[s] = q <=> rowLock[s] = q
             /\ userLock' = q <=> userLock = q
  BY <1>t, <1>u DEF Unlock
<1>1. CASE Arrive(p)
  BY <1>1, <1>t DEF Arrive, LoginCheck, OAuthBegin, RefreshLookup, ChangeLookup, ResetLookup, locks
<1>2. CASE LoginVerify(p) \/ LoginReject(p) \/ LoginTouch(p) \/ LoginInsert(p) \/ ReuseUpdate(p)
           \/ ResetRefused(p) \/ SecureSessions(p) \/ OAuthLink(p) \/ OAuthSignIn(p)
  <2>1. UNCHANGED <<rowLock, userLock>>
    BY <1>2 DEF LoginVerify, LoginReject, LoginTouch, LoginInsert, ReuseUpdate, ResetRefused,
       SecureSessions, OAuthLink, OAuthSignIn, locks
  <2>2. pc'[q] = pc[q] /\ arg'[q] = arg[q] /\ snap'[q] = snap[q]
    BY <1>2, <1>t DEF LoginVerify, LoginReject, LoginTouch, LoginInsert, ReuseUpdate, ResetRefused,
       SecureSessions, OAuthLink, OAuthSignIn
  <2> QED
    BY <2>1, <2>2
<1>3. CASE ReuseApply(p) \/ RefreshReuseRolledBack(p) \/ ResetCommit(p) \/ ChangeCommit(p)
           \/ SecureCommit(p) \/ OAuthConflict(p) \/ Deadlocked(p)
  <2>1. Unlock(p) /\ Done(p)
    BY <1>3 DEF ReuseApply, RefreshReuseRolledBack, RollBack, ResetCommit, ChangeCommit,
       SecureCommit, OAuthConflict, Deadlocked
  <2> QED
    BY <1>t, <1>u, <2>1
<1>4. CASE RefreshLock(p)
  BY <1>t, <1>4 DEF RefreshLock
<1>5. CASE RefreshReuse(p)
  BY <1>t, <1>5 DEF RefreshReuse
<1>6. CASE RefreshCommit(p)
  <2>1. rowLock[arg[p]] = p /\ rowLock' = [rowLock EXCEPT ![arg[p]] = Nobody] /\ userLock' = userLock
    BY <1>6 DEF RefreshCommit, RotationHoldsLiveRow
  <2>2. Done(p)
    BY <1>6 DEF RefreshCommit
  <2> QED
    BY <1>t, <2>1, <2>2
<1>7. CASE ResetBegin(p) \/ ChangeBegin(p) \/ SecureUnverified(p)
  BY <1>t, <1>7 DEF ResetBegin, ChangeBegin, SecureUnverified
<1>8. ASSUME NEW s \in Ids, LockRow(p, s) PROVE Stays(q)
  BY <1>t, <1>8 DEF LockRow, local
<1> QED
  BY <1>1, <1>2, <1>3, <1>4, <1>5, <1>6, <1>7, <1>8 DEF Proceed

\* A step that is no request's leaves all of them where they are.
LEMMA OutsideSteps ==
    ASSUME [Next]_vars, ~\E p \in Procs : Arrive(p) \/ Proceed(p) \/ Deadlocked(p)
    PROVE  UNCHANGED <<pc, arg, snap, rowLock, userLock>>
BY DEF Next, logout, revoke_user_session, verify_email, FailuresExpire, Tick, vars, locks, local

\* A row that is revoked is not locked by a rotation.
LEMMA RevokesNoRotation ==
    ASSUME TInv, SecuredHoldsRows, RotationHoldsLiveRow, [Next]_vars,
           NEW s \in revoked' \ revoked, NEW q \in Procs, pc'[q] = "refresh_commit"
    PROVE  rowLock[s] # q
<1> USE SessionsAssumption
<1>t. pc \in [Procs -> Stages] /\ rows \subseteq Ids /\ \A p \in Procs : snap[p] \subseteq Ids
  BY DEF TInv, TypeOK
<1>1. ASSUME NEW p \in Procs, Arrive(p) PROVE FALSE
  BY <1>1 DEF Arrive, LoginCheck, OAuthBegin, RefreshLookup, ChangeLookup, ResetLookup, table
<1>2. ASSUME NEW p \in Procs, Proceed(p) PROVE rowLock[s] # q
  <2>1. CASE LoginInsert(p) \/ OAuthSignIn(p)
    BY <2>1 DEF LoginInsert, OAuthSignIn, start_session
  <2>2. CASE LoginVerify(p) \/ LoginReject(p) \/ LoginTouch(p) \/ ReuseUpdate(p)
             \/ RefreshLock(p) \/ RefreshReuse(p) \/ RefreshReuseRolledBack(p) \/ ResetBegin(p)
             \/ ResetRefused(p) \/ ChangeBegin(p)
    BY <2>2 DEF LoginVerify, LoginReject, LoginTouch, ReuseUpdate, RefreshLock, RefreshReuse,
         RefreshReuseRolledBack, RollBack, ResetBegin, ResetRefused, ChangeBegin, table
  <2>3. CASE SecureUnverified(p) \/ SecureSessions(p) \/ OAuthLink(p) \/ OAuthConflict(p)
             \/ \E r \in Ids : LockRow(p, r)
    BY <2>3 DEF SecureUnverified, SecureSessions, OAuthLink, OAuthConflict, RollBack, LockRow, table
  <2>4. CASE ReuseApply(p) \/ ResetCommit(p) \/ ChangeCommit(p)
    <3>1. s \in snap[p] /\ HasRows(p) /\ Done(p)
      BY <2>4 DEF ReuseApply, ResetCommit, ChangeCommit, RevokeSnapshot
    <3>2. q # p /\ rowLock[s] = p
      BY <1>t, <3>1 DEF HasRows
    <3> QED
      BY <3>2
  <2>5. CASE SecureCommit(p)
    <3>1. s \in snap[p] /\ pc[p] = "oauth_secured" /\ Done(p)
      BY <2>5 DEF SecureCommit, start_session
    <3>2. q # p /\ rowLock[s] = p
      BY <1>t, <3>1 DEF SecuredHoldsRows, HasRows
    <3> QED
      BY <3>2
  <2>6. CASE RefreshCommit(p)
    <3>1. s = arg[p] /\ pc[p] = "refresh_commit" /\ Done(p)
      BY <2>6 DEF RefreshCommit
    <3>2. q # p
      BY <1>t, <3>1
    <3> QED
      BY <3>1, <3>2, <2>6 DEF RotationHoldsLiveRow
  <2> QED
    BY <1>2, <2>1, <2>2, <2>3, <2>4, <2>5, <2>6 DEF Proceed
<1>3. ASSUME NEW r \in Ids, logout(r) PROVE rowLock[s] # q
  BY <1>3 DEF logout
<1>4. ASSUME NEW c \in Ids, NEW r \in Ids, revoke_user_session(c, r) PROVE rowLock[s] # q
  BY <1>4 DEF revoke_user_session
<1>5. CASE verify_email \/ FailuresExpire \/ Tick \/ UNCHANGED vars
  BY <1>5 DEF verify_email, FailuresExpire, Tick, vars, table
<1>6. ASSUME NEW p \in Procs, Deadlocked(p) PROVE FALSE
  BY <1>6 DEF Deadlocked, RollBack, table
<1> QED
  BY <1>1, <1>2, <1>3, <1>4, <1>5, <1>6 DEF Next

-----------------------------------------------------------------------------
(* One live session of each family *)

LEMMA InitIInv == Init => IInv
<1>1. Init => TInv
  BY InitTInv
<1>2. Init => FamilyHasRoot /\ RotationHoldsLiveRow /\ SecuredHoldsRows /\ OneLivePerFamily
  BY SessionsAssumption DEF Init, FamilyHasRoot, RotationHoldsLiveRow, SecuredHoldsRows,
       OneLivePerFamily, LiveRows, Ids
<1>3. QED
  BY <1>1, <1>2 DEF IInv

\* A sign-in begins a family of its own, and a rotation replaces the one live session
\* of its family.
LEMMA NextOneLive ==
    ASSUME IInv, [Next]_vars
    PROVE  FamilyHasRoot' /\ OneLivePerFamily'
<1> USE DEF IInv, TInv, TypeOK
<1>1. CASE UNCHANGED <<rows, family>> /\ revoked \subseteq revoked'
  BY <1>1 DEF FamilyHasRoot, OneLivePerFamily, LiveRows
<1>2. ASSUME NEW id \in Ids, NEW ended \in SUBSET Ids, start_session(id, ended)
      PROVE  FamilyHasRoot' /\ OneLivePerFamily'
  <2> USE <1>2 DEF start_session, NextId
  <2>1. FamilyHasRoot'
    BY DEF FamilyHasRoot
  <2>2. \A s \in rows : family'[s] = family[s] /\ family[s] # id
    BY DEF FamilyHasRoot
  <2>3. LiveRows' \subseteq LiveRows \cup {id} /\ family'[id] = id
    BY DEF LiveRows
  <2>4. OneLivePerFamily'
    BY <2>2, <2>3 DEF OneLivePerFamily, LiveRows
  <2> QED
    BY <2>1, <2>4
<1>3. ASSUME NEW p \in Procs, RefreshCommit(p)
      PROVE  FamilyHasRoot' /\ OneLivePerFamily'
  <2> DEFINE s == arg[p]
  <2>1. s \in rows /\ Live(s)
    BY <1>3 DEF RefreshCommit, RotationHoldsLiveRow, ArgOK
  <2>2. PICK id \in Ids :
          /\ id \notin rows
          /\ rows' = rows \cup {id}
          /\ family' = [family EXCEPT ![id] = family[s]]
    BY <1>3 DEF RefreshCommit, NextId
  <2>3. revoked' = revoked \cup {s}
    BY <1>3 DEF RefreshCommit
  <2>4. FamilyHasRoot'
    BY <2>1, <2>2 DEF FamilyHasRoot
  <2>5. LiveRows' \subseteq (LiveRows \ {s}) \cup {id}
    BY <2>2, <2>3 DEF LiveRows
  <2>6. \A t \in LiveRows \ {s} : family'[t] = family[t] /\ family[t] # family[s]
    BY <2>1, <2>2 DEF OneLivePerFamily, LiveRows, Live
  <2>7. OneLivePerFamily'
    BY <2>2, <2>5, <2>6 DEF OneLivePerFamily, LiveRows
  <2> QED
    BY <2>4, <2>7
<1> QED
  BY <1>1, <1>2, <1>3, TableSteps

\* A request comes to its rotation by locking a live row.
LEMMA ToRotation ==
    ASSUME IInv, NEW p \in Procs, Arrive(p) \/ Proceed(p) \/ Deadlocked(p),
           pc'[p] = "refresh_commit"
    PROVE  RefreshLock(p) \/ \E s \in Ids : LockRow(p, s)
<1>t. pc \in [Procs -> Stages]
  BY DEF IInv, TInv, TypeOK
<1>1. CASE Arrive(p)
  BY <1>1, <1>t DEF Arrive, LoginCheck, OAuthBegin, RefreshLookup, ChangeLookup, ResetLookup
<1>2. CASE Deadlocked(p)
  BY <1>2, <1>t DEF Deadlocked, RollBack
<1>3. CASE LoginVerify(p) \/ LoginReject(p) \/ LoginTouch(p) \/ LoginInsert(p) \/ ReuseUpdate(p)
           \/ ReuseApply(p) \/ RefreshReuse(p) \/ RefreshReuseRolledBack(p) \/ RefreshCommit(p)
           \/ ResetBegin(p) \/ ResetRefused(p) \/ ResetCommit(p) \/ ChangeBegin(p)
  BY <1>3, <1>t DEF LoginVerify, LoginReject, LoginTouch, LoginInsert, ReuseUpdate, ReuseApply,
       RefreshReuse, RefreshReuseRolledBack, RollBack, RefreshCommit, ResetBegin, ResetRefused,
       ResetCommit, ChangeBegin
<1>4. CASE ChangeCommit(p) \/ SecureUnverified(p) \/ SecureSessions(p) \/ SecureCommit(p)
           \/ OAuthLink(p) \/ OAuthSignIn(p) \/ OAuthConflict(p)
  BY <1>4, <1>t DEF ChangeCommit, SecureUnverified, SecureSessions, SecureCommit, OAuthLink,
       OAuthSignIn, OAuthConflict, RollBack
<1> QED
  BY <1>1, <1>2, <1>3, <1>4 DEF Proceed

LEMMA NextRotation ==
    ASSUME IInv, TInv', [Next]_vars
    PROVE  RotationHoldsLiveRow'
<1> SUFFICES ASSUME NEW q \in Procs, pc'[q] = "refresh_commit"
             PROVE  (rowLock[arg[q]] = q /\ Live(arg[q]))'
  BY DEF RotationHoldsLiveRow
<1> USE SessionsAssumption
<1>t. /\ pc \in [Procs -> Stages] /\ arg \in [Procs -> Ids \cup Tokens \cup {0}]
      /\ rowLock \in [Ids -> Procs \cup {Nobody}] /\ TInv /\ SecuredHoldsRows
      /\ RotationHoldsLiveRow /\ rows \subseteq Ids
  BY DEF IInv, TInv, TypeOK
<1>r. rows \subseteq rows'
  <2>1. CASE UNCHANGED rows
    BY <2>1
  <2>2. ASSUME NEW id \in Ids, NEW ended \in SUBSET Ids, start_session(id, ended)
        PROVE  rows \subseteq rows'
    BY <2>2 DEF start_session
  <2>3. ASSUME NEW p \in Procs, RefreshCommit(p) PROVE rows \subseteq rows'
    BY <2>3 DEF RefreshCommit
  <2> QED
    BY <1>t, <2>1, <2>2, <2>3, TableSteps
\* Whoever was at its rotation still is, and its row was left alone.
<1>1. ASSUME pc[q] = "refresh_commit", arg'[q] = arg[q],
             \A s \in Ids : rowLock[s] = q => rowLock'[s] = q
      PROVE  (rowLock[arg[q]] = q /\ Live(arg[q]))'
  <2>1. rowLock[arg[q]] = q /\ Live(arg[q]) /\ arg[q] \in Ids
    BY <1>1, <1>t DEF RotationHoldsLiveRow, Live
  <2>2. arg[q] \notin revoked' \ revoked
    BY <1>t, <2>1, RevokesNoRotation
  <2> QED
    BY <1>1, <1>r, <2>1, <2>2 DEF Live
<1>2. ASSUME NEW p \in Procs, Arrive(p) \/ Proceed(p) \/ Deadlocked(p)
      PROVE  (rowLock[arg[q]] = q /\ Live(arg[q]))'
  <2>1. CASE q # p
    <3>1. Stays(q)
      BY <1>t, <1>2, <2>1, OthersStay
    <3> QED
      BY <1>1, <3>1 DEF Stays
  <2>2. CASE q = p
    <3>1. CASE RefreshLock(p)
      BY <1>t, <2>2, <3>1 DEF RefreshLock, table, TInv, ArgOK, Live
    <3>2. ASSUME NEW s \in Ids, LockRow(p, s) PROVE FALSE
      BY <1>t, <2>2, <3>2 DEF LockRow, Updating, local
    <3> QED
      BY <1>2, <2>2, <3>1, <3>2, ToRotation
  <2> QED
    BY <2>1, <2>2
<1>3. CASE UNCHANGED <<pc, arg, snap, rowLock, userLock>>
  BY <1>1, <1>3
<1> QED
  BY <1>2, <1>3, OutsideSteps

LEMMA NextSecured ==
    ASSUME IInv, [Next]_vars
    PROVE  SecuredHoldsRows'
<1> SUFFICES ASSUME NEW q \in Procs, pc'[q] = "oauth_secured" PROVE HasRows(q)'
  BY DEF SecuredHoldsRows
<1>t. /\ pc \in [Procs -> Stages] /\ snap \in [Procs -> SUBSET Ids] /\ TInv
      /\ RotationHoldsLiveRow /\ SecuredHoldsRows
  BY DEF IInv, TInv, TypeOK
<1>2. ASSUME NEW p \in Procs, Arrive(p) \/ Proceed(p) \/ Deadlocked(p)
      PROVE  HasRows(q)'
  <2>1. CASE q # p
    <3>1. Stays(q)
      BY <1>t, <1>2, <2>1, OthersStay
    <3> QED
      BY <1>t, <3>1 DEF Stays, SecuredHoldsRows, HasRows
  <2>2. CASE q = p
    <3>1. CASE SecureSessions(p)
      BY <1>t, <2>2, <3>1 DEF SecureSessions, HasRows, locks
    <3>2. ASSUME NEW s \in Ids, LockRow(p, s) PROVE FALSE
      BY <2>2, <3>2 DEF LockRow, Updating, local
    <3>3. CASE Arrive(p) \/ Deadlocked(p)
      BY <1>t, <2>2, <3>3 DEF Arrive, LoginCheck, OAuthBegin, RefreshLookup, ChangeLookup,
         ResetLookup, Deadlocked, RollBack
    <3>4. CASE LoginVerify(p) \/ LoginReject(p) \/ LoginTouch(p) \/ LoginInsert(p)
               \/ ReuseUpdate(p) \/ ReuseApply(p) \/ RefreshLock(p) \/ RefreshReuse(p)
               \/ RefreshReuseRolledBack(p) \/ RefreshCommit(p) \/ ResetBegin(p)
      BY <1>t, <2>2, <3>4 DEF LoginVerify, LoginReject, LoginTouch, LoginInsert, ReuseUpdate,
         ReuseApply, RefreshLock, RefreshReuse, RefreshReuseRolledBack, RollBack, RefreshCommit,
         ResetBegin
    <3>5. CASE ResetRefused(p) \/ ResetCommit(p) \/ ChangeBegin(p) \/ ChangeCommit(p)
               \/ SecureUnverified(p) \/ SecureCommit(p) \/ OAuthLink(p) \/ OAuthSignIn(p)
               \/ OAuthConflict(p)
      BY <1>t, <2>2, <3>5 DEF ResetRefused, ResetCommit, ChangeBegin, ChangeCommit,
         SecureUnverified, SecureCommit, OAuthLink, OAuthSignIn, OAuthConflict, RollBack
    <3> QED
      BY <1>2, <3>1, <3>2, <3>3, <3>4, <3>5 DEF Proceed
  <2> QED
    BY <2>1, <2>2
<1>3. CASE UNCHANGED <<pc, arg, snap, rowLock, userLock>>
  BY <1>t, <1>3 DEF SecuredHoldsRows, HasRows
<1> QED
  BY <1>2, <1>3, OutsideSteps

LEMMA NextIInv == IInv /\ [Next]_vars => IInv'
<1> SUFFICES ASSUME IInv, [Next]_vars PROVE IInv'
  OBVIOUS
<1>1. TInv'
  BY NextTInv DEF IInv
<1> QED
  BY <1>1, NextOneLive, NextRotation, NextSecured DEF IInv

\* However many requests present tokens of a family at once, at most one of
\* its sessions is live (refresh_session).
THEOREM AtMostOneLive == Spec => []OneLivePerFamily
<1>1. IInv => OneLivePerFamily
  BY DEF IInv
<1>2. QED
  BY InitIInv, NextIInv, <1>1, PTL DEF Spec

\* The row a request is about to rotate stays locked by it and live.
THEOREM RotatedRowIsLive == Spec => []RotationHoldsLiveRow
<1>1. IInv => RotationHoldsLiveRow
  BY DEF IInv
<1>2. QED
  BY InitIInv, NextIInv, <1>1, PTL DEF Spec

-----------------------------------------------------------------------------

\* A step that inserts no row and revokes some keeps a dead family dead.
LEMMA DeadIfNoInsert ==
    ASSUME UNCHANGED <<rows, family>>, revoked \subseteq revoked', NEW f \in Ids, FamilyDead(f)
    PROVE  FamilyDead(f)'
BY DEF FamilyDead, FamilyRows

LEMMA NextDead ==
    ASSUME IInv, [Next]_vars, NEW f \in Ids, FamilyDead(f)
    PROVE  FamilyDead(f)'
<1>1. FamilyRows(f) # {} /\ FamilyRows(f) \subseteq rows /\ FamilyRows(f) \subseteq revoked
  BY DEF FamilyDead, FamilyRows
<1>2. ASSUME NEW id \in Ids, NEW ended \in SUBSET Ids, start_session(id, ended)
      PROVE  FamilyDead(f)'
  <2>1. id \notin rows /\ family \in [Ids -> Ids] /\ rows \subseteq Ids
    BY <1>2 DEF start_session, NextId, IInv, TInv, TypeOK
  <2>2. f # id
    BY <1>1, <2>1 DEF FamilyRows, IInv, FamilyHasRoot
  <2>3. FamilyRows(f)' = FamilyRows(f)
    BY <1>2, <2>1, <2>2 DEF start_session, FamilyRows
  <2>4. QED
    BY <1>1, <1>2, <2>3 DEF start_session, FamilyDead
<1>3. ASSUME NEW p \in Procs, RefreshCommit(p) PROVE FamilyDead(f)'
  <2>1. family \in [Ids -> Ids] /\ rows \subseteq Ids /\ arg[p] \in rows \ revoked
    BY <1>3 DEF RefreshCommit, IInv, TInv, TypeOK, ArgOK, RotationHoldsLiveRow, Live
  <2>2. f # family[arg[p]]
    BY <1>1, <2>1 DEF FamilyRows
  <2>3. FamilyRows(f)' = FamilyRows(f)
    BY <1>3, <2>1, <2>2 DEF RefreshCommit, NextId, FamilyRows
  <2>4. QED
    BY <1>1, <1>3, <2>3 DEF RefreshCommit, FamilyDead
<1>4. QED
  BY <1>2, <1>3, DeadIfNoInsert, TableSteps DEF IInv

\* Sign-out, reuse detection and password changes are final: no rotation that
\* was under way brings a family back once all its sessions are revoked.
THEOREM NoRevival == Spec => DeadFamilyStaysDead
<1>1. IInv /\ [Next]_vars => [\A f \in Ids : FamilyDead(f) => FamilyDead(f)']_vars
  BY NextDead
<1>2. QED
  BY InitIInv, NextIInv, <1>1, PTL DEF Spec, DeadFamilyStaysDead

-----------------------------------------------------------------------------
(* Families *)

\* Nothing replaces what is not there: a row not in the table has no successor
\* yet, so that the one that gets its id begins without one.
UnusedHaveNoSuccessor == \A s \in Ids \ rows : replacedBy[s] = 0

\* The first part of FamilyIsALine.
SuccessorsAreKin ==
    \A s \in rows : replacedBy[s] # 0 =>
        replacedBy[s] \in rows /\ s \in revoked /\ family[replacedBy[s]] = family[s]

Predecessors(s) == {t \in rows : replacedBy[t] = s}

\* The second part, by name.
OnePredecessor == \A s \in rows : s # family[s] => Cardinality(Predecessors(s)) = 1

LInv == IInv /\ UnusedHaveNoSuccessor /\ FamilyIsALine /\ RotationKeepsExpiry

LEMMA LineParts == FamilyIsALine <=> SuccessorsAreKin /\ OnePredecessor
BY DEF FamilyIsALine, SuccessorsAreKin, OnePredecessor, Predecessors

LEMMA LinePartsNext == FamilyIsALine' <=> SuccessorsAreKin' /\ OnePredecessor'
BY DEF FamilyIsALine, SuccessorsAreKin, OnePredecessor, Predecessors

LEMMA InitLInv == Init => LInv
<1> SUFFICES ASSUME Init PROVE LInv
  OBVIOUS
<1>1. SuccessorsAreKin /\ OnePredecessor /\ UnusedHaveNoSuccessor
  BY SessionsAssumption DEF Init, SuccessorsAreKin, OnePredecessor, UnusedHaveNoSuccessor, Ids
<1>2. RotationKeepsExpiry
  BY SessionsAssumption DEF Init, RotationKeepsExpiry, Ids
<1> QED
  BY <1>1, <1>2, InitIInv, LineParts DEF LInv

\* A step that inserts no row keeps the families as they are.
LEMMA QuietFamilies ==
    ASSUME LInv, UNCHANGED <<rows, family, replacedBy, expiresAt>>, revoked \subseteq revoked',
           now' \in Nat, now <= now'
    PROVE  UnusedHaveNoSuccessor' /\ FamilyIsALine' /\ RotationKeepsExpiry'
<1>1. SuccessorsAreKin' /\ OnePredecessor'
  BY LineParts DEF LInv, SuccessorsAreKin, OnePredecessor, Predecessors
<1>2. RotationKeepsExpiry'
  <2>1. now \in Nat /\ Lifetime \in Nat /\ \A s \in rows : expiresAt[s] \in Nat
    BY SessionsAssumption DEF LInv, IInv, TInv, TypeOK
  <2> QED
    BY <2>1 DEF LInv, RotationKeepsExpiry
<1> QED
  BY <1>1, <1>2, LinePartsNext DEF LInv, UnusedHaveNoSuccessor

\* A sign-in begins a family of one, with a lifetime from now.
LEMMA SignInFamilies ==
    ASSUME LInv, now' = now, NEW id \in Ids, NEW ended \in SUBSET Ids, start_session(id, ended)
    PROVE  UnusedHaveNoSuccessor' /\ FamilyIsALine' /\ RotationKeepsExpiry'
<1> USE DEF LInv, IInv, TInv, TypeOK
<1>1. /\ id \notin rows /\ rows' = rows \cup {id} /\ replacedBy' = replacedBy
      /\ family'[id] = id /\ \A s \in rows : family'[s] = family[s] /\ family[s] # id
      /\ \A s \in rows : expiresAt'[s] = expiresAt[s]
      /\ expiresAt'[id] = now + Lifetime
      /\ revoked \subseteq revoked'
  BY DEF start_session, NextId, FamilyHasRoot
<1>2. replacedBy[id] = 0 /\ 0 \notin Ids /\ rows \subseteq Ids
  BY <1>1 DEF UnusedHaveNoSuccessor, Ids
<1>3. SuccessorsAreKin'
  BY <1>1, <1>2, LineParts DEF SuccessorsAreKin
<1>4. \A s \in rows : Predecessors(s)' = Predecessors(s)
  BY <1>1, <1>2 DEF Predecessors
<1>5. OnePredecessor'
  BY <1>1, <1>4, LineParts DEF OnePredecessor
<1>6. UnusedHaveNoSuccessor'
  BY <1>1 DEF UnusedHaveNoSuccessor
<1>7. RotationKeepsExpiry'
  <2>1. now \in Nat /\ Lifetime \in Nat /\ \A s \in rows : expiresAt[s] \in Nat
    BY SessionsAssumption
  <2> QED
    BY <1>1, <2>1 DEF RotationKeepsExpiry
<1> QED
  BY <1>3, <1>5, <1>6, <1>7, LinePartsNext

\* A rotation gives the live session of a family, which has no successor yet, a
\* successor of the same family, that expires with it.
LEMMA RotationFamilies ==
    ASSUME LInv, NEW p \in Procs, RefreshCommit(p)
    PROVE  UnusedHaveNoSuccessor' /\ FamilyIsALine' /\ RotationKeepsExpiry'
<1> DEFINE old == arg[p]
<1> USE DEF LInv, IInv, TInv, TypeOK
<1>1. old \in rows /\ old \notin revoked
  BY DEF RefreshCommit, RotationHoldsLiveRow, Live
<1>2. PICK id \in Ids :
        /\ id \notin rows /\ rows' = rows \cup {id}
        /\ family' = [family EXCEPT ![id] = family[old]]
        /\ expiresAt' = [expiresAt EXCEPT ![id] = expiresAt[old]]
        /\ replacedBy' = [replacedBy EXCEPT ![old] = id]
        /\ revoked' = revoked \cup {old} /\ now' = now
  BY DEF RefreshCommit, NextId
<1>3. replacedBy[id] = 0 /\ 0 \notin Ids /\ rows \subseteq Ids /\ id # old
  BY <1>1, <1>2 DEF UnusedHaveNoSuccessor, Ids
<1>4. replacedBy[old] = 0
  BY <1>1, LineParts DEF SuccessorsAreKin
<1>5. family[old] \in rows
  BY <1>1 DEF FamilyHasRoot
<1>6. SuccessorsAreKin'
  <2> SUFFICES ASSUME NEW s \in rows', replacedBy'[s] # 0
               PROVE  /\ replacedBy'[s] \in rows' /\ s \in revoked'
                      /\ family'[replacedBy'[s]] = family'[s]
    BY DEF SuccessorsAreKin
  <2>1. CASE s = old
    BY <1>1, <1>2, <1>3, <2>1
  <2>2. CASE s # old
    <3>1. s \in rows /\ replacedBy'[s] = replacedBy[s]
      BY <1>2, <1>3, <2>2
    <3>2. replacedBy[s] \in rows /\ s \in revoked /\ family[replacedBy[s]] = family[s]
      BY <3>1, LineParts DEF SuccessorsAreKin
    <3> QED
      BY <1>2, <3>1, <3>2
  <2> QED
    BY <2>1, <2>2
<1>7. OnePredecessor'
  <2> SUFFICES ASSUME NEW s \in rows', s # family'[s]
               PROVE  Cardinality(Predecessors(s)') = 1
    BY DEF OnePredecessor
  <2>1. CASE s = id
    <3>1. \A t \in rows : replacedBy[t] # id
      BY <1>2, <1>3, LineParts DEF SuccessorsAreKin
    <3>2. Predecessors(s)' = {old}
      BY <1>1, <1>2, <1>3, <2>1, <3>1 DEF Predecessors
    <3> QED
      BY <3>2, FS_Singleton
  <2>2. CASE s # id
    <3>1. s \in rows /\ family'[s] = family[s] /\ s # 0
      BY <1>2, <1>3, <2>2
    <3>2. Predecessors(s)' = Predecessors(s)
      BY <1>1, <1>2, <1>3, <1>4, <2>2, <3>1 DEF Predecessors
    <3> QED
      BY <3>1, <3>2, LineParts DEF OnePredecessor
  <2> QED
    BY <2>1, <2>2
<1>8. UnusedHaveNoSuccessor'
  BY <1>1, <1>2 DEF UnusedHaveNoSuccessor
<1>9. RotationKeepsExpiry'
  BY <1>1, <1>2, <1>3 DEF RotationKeepsExpiry
<1> QED
  BY <1>6, <1>7, <1>8, <1>9, LinePartsNext

LEMMA NextLInv == LInv /\ [Next]_vars => LInv'
<1> SUFFICES ASSUME LInv, [Next]_vars PROVE LInv'
  OBVIOUS
<1>1. IInv'
  BY NextIInv DEF LInv
<1>2. UnusedHaveNoSuccessor' /\ FamilyIsALine' /\ RotationKeepsExpiry'
  BY TableSteps, QuietFamilies, SignInFamilies, RotationFamilies DEF LInv, IInv
<1> QED
  BY <1>1, <1>2 DEF LInv

\* The sessions of a family other than the first each replace one revoked session
\* of it: no refresh token was honoured twice, however many requests brought it
\* (refresh_session).
THEOREM FamiliesAreLines == Spec => []FamilyIsALine
<1>1. LInv => FamilyIsALine
  BY DEF LInv
<1>2. QED
  BY InitLInv, NextLInv, <1>1, PTL DEF Spec

\* However often its tokens are rotated, a sign-in ends when its first session
\* does (refresh_session passes expires_at on).
THEOREM RotationsDoNotExtend == Spec => []RotationKeepsExpiry
<1>1. LInv => RotationKeepsExpiry
  BY DEF LInv
<1>2. QED
  BY InitLInv, NextLInv, <1>1, PTL DEF Spec

-----------------------------------------------------------------------------
(* The promise *)

Spent(f) == {s \in FamilyRows(f) : replacedBy[s] # 0}

LEMMA FamilyFinite ==
    ASSUME TypeOK, NEW f \in Ids
    PROVE  /\ IsFiniteSet(FamilyRows(f)) /\ IsFiniteSet(Spent(f))
           /\ Cardinality(FamilyRows(f)) = 0 <=> FamilyRows(f) = {}
<1>1. IsFiniteSet(Ids)
  BY SessionsAssumption, FS_Interval DEF Ids
<1>2. FamilyRows(f) \in SUBSET Ids /\ Spent(f) \in SUBSET Ids
  BY DEF TypeOK, FamilyRows, Spent
<1>3. IsFiniteSet(FamilyRows(f)) /\ IsFiniteSet(Spent(f))
  BY <1>1, <1>2, FS_Subset
<1> QED
  BY <1>3, FS_EmptySet

\* The families that are over are those whose sessions are all revoked.
LEMMA EndedIs ==
    ASSUME TypeOK
    PROVE  Ended = {f \in Ids : FamilyDead(f)}
BY DEF Ended, FamilyDead, FamilyRows, LiveRows, TypeOK

LEMMA EndedIsNext ==
    ASSUME TypeOK'
    PROVE  Ended' = {f \in Ids : FamilyDead(f)'}
BY DEF Ended, FamilyDead, FamilyRows, LiveRows, TypeOK

LEMMA InitPromise == Init => Promise!Init
<1> SUFFICES ASSUME Init PROVE Promise!Init
  OBVIOUS
<1>1. /\ 1 \in Ids /\ rows = {1} /\ revoked = {} /\ family = [s \in Ids |-> s]
      /\ replacedBy = [s \in Ids |-> 0]
  BY SessionsAssumption DEF Init, Ids
<1>2. \A f \in Ids : /\ FamilyRows(f) = IF f = 1 THEN {1} ELSE {}
                     /\ Spent(f) = {}
  BY <1>1 DEF FamilyRows, Spent
<1>3. Issued = [f \in Ids |-> IF f = 1 THEN 1 ELSE 0]
  BY <1>2, FS_EmptySet, FS_Singleton DEF Issued
<1>4. Exchanged = [f \in Ids |-> 0]
  BY <1>2, FS_EmptySet DEF Exchanged, Spent, FamilyRows
<1>5. Ended = {}
  BY <1>1 DEF Ended, LiveRows
<1> QED
  BY <1>3, <1>4, <1>5 DEF Promise!Init

\* A step that inserts no row ends sign-ins, or leaves them as they are.
LEMMA QuietPromise ==
    ASSUME LInv, TypeOK', UNCHANGED <<rows, family, replacedBy>>, revoked \subseteq revoked'
    PROVE  Promise!Next
<1>1. \A f \in Ids : FamilyRows(f)' = FamilyRows(f) /\ Spent(f)' = Spent(f)
  BY DEF FamilyRows, Spent
<1>2. Issued' = Issued /\ Exchanged' = Exchanged
  BY <1>1 DEF Issued, Exchanged, Spent
<1>3. Ended \subseteq Ended'
  BY DeadIfNoInsert, EndedIs, EndedIsNext DEF LInv, IInv, TInv
<1>4. \A f \in Ended' : f \in Ids /\ Issued[f] # 0
  BY <1>1, FamilyFinite, EndedIsNext DEF FamilyDead, Issued, LInv, IInv, TInv
<1>5. Promise!End
  BY <1>2, <1>3, <1>4 DEF Promise!End, Promise!Begun
<1> QED
  BY <1>5 DEF Promise!Next

\* A sign-in begins, and those end whose rows its transaction revokes.
LEMMA SignInPromise ==
    ASSUME LInv, TypeOK', NEW id \in Ids, NEW ended \in SUBSET Ids, ended \subseteq rows,
           start_session(id, ended)
    PROVE  Promise!Next
<1>1. /\ id \notin rows /\ rows' = rows \cup {id} /\ revoked' = revoked \cup ended
      /\ family' = [family EXCEPT ![id] = id] /\ replacedBy' = replacedBy
  BY DEF start_session, NextId
<1>2. /\ rows \subseteq Ids /\ revoked \subseteq rows /\ family \in [Ids -> Ids]
      /\ FamilyHasRoot /\ TypeOK /\ replacedBy[id] = 0
  BY <1>1 DEF LInv, IInv, TInv, TypeOK, UnusedHaveNoSuccessor
<1>3. FamilyRows(id) = {} /\ FamilyRows(id)' = {id} /\ Spent(id) = {} /\ Spent(id)' = {}
  BY <1>1, <1>2 DEF FamilyRows, FamilyHasRoot, Spent
<1>4. \A f \in Ids \ {id} : FamilyRows(f)' = FamilyRows(f) /\ Spent(f)' = Spent(f)
  BY <1>1, <1>2 DEF FamilyRows, Spent
<1>5. ~FamilyDead(id)'
  BY <1>1, <1>2, <1>3 DEF FamilyDead, FamilyRows
<1>6. Issued[id] = 0 /\ Issued' = [Issued EXCEPT ![id] = 1]
  BY <1>3, <1>4, FS_EmptySet, FS_Singleton DEF Issued
<1>7. Exchanged' = Exchanged
  <2>1. \A f \in Ids : Spent(f)' = Spent(f)
    BY <1>3, <1>4
  <2> QED
    BY <2>1 DEF Exchanged, Spent, FamilyRows
<1>8. Ended \subseteq Ended'
  BY <1>1, <1>2, <1>3, <1>4, EndedIs, EndedIsNext DEF FamilyDead
<1>9. \A f \in Ended' : f \in Ids /\ Issued[f] # 0
  <2> SUFFICES ASSUME NEW f \in Ended' PROVE f \in Ids /\ Issued[f] # 0
    OBVIOUS
  <2>1. f \in Ids \ {id} /\ FamilyRows(f)' # {}
    BY <1>5, EndedIsNext DEF FamilyDead
  <2> QED
    BY <1>2, <1>4, <2>1, FamilyFinite DEF Issued
<1>10. Promise!End
  BY <1>6, <1>7, <1>8, <1>9 DEF Promise!End, Promise!Begun
<1> QED
  BY <1>10 DEF Promise!Next

\* A rotation exchanges a token of a sign-in that is not over, which was not
\* exchanged before.
LEMMA RotationPromise ==
    ASSUME LInv, TypeOK', NEW p \in Procs, RefreshCommit(p)
    PROVE  Promise!Next
<1>0. PICK old, g : old = arg[p] /\ g = family[old]
  OBVIOUS
<1>1. /\ old \in rows /\ old \notin revoked /\ g \in Ids
      /\ rows \subseteq Ids /\ revoked \subseteq rows /\ family \in [Ids -> Ids]
      /\ replacedBy \in [Ids -> Ids \cup {0}] /\ TypeOK
  BY <1>0 DEF RefreshCommit, LInv, IInv, TInv, TypeOK, ArgOK, RotationHoldsLiveRow, Live
<1>2. PICK id \in Ids : /\ id \notin rows /\ rows' = rows \cup {id}
                        /\ family' = [family EXCEPT ![id] = g]
                        /\ replacedBy' = [replacedBy EXCEPT ![old] = id]
                        /\ revoked' = revoked \cup {old}
  BY <1>0 DEF RefreshCommit, NextId
<1>3. replacedBy[old] = 0 /\ replacedBy[id] = 0 /\ id # 0 /\ id # old
  BY <1>1, <1>2, LineParts DEF LInv, SuccessorsAreKin, UnusedHaveNoSuccessor, Ids
<1>4. FamilyRows(g)' = FamilyRows(g) \cup {id} /\ id \notin FamilyRows(g) /\ old \in FamilyRows(g)
  BY <1>0, <1>1, <1>2 DEF FamilyRows
<1>5. \A f \in Ids \ {g} : FamilyRows(f)' = FamilyRows(f) /\ old \notin FamilyRows(f)
  BY <1>0, <1>1, <1>2 DEF FamilyRows
<1>6. Spent(g)' = Spent(g) \cup {old} /\ old \notin Spent(g)
  BY <1>1, <1>2, <1>3, <1>4 DEF Spent
<1>7. \A f \in Ids \ {g} : Spent(f)' = Spent(f)
  BY <1>1, <1>2, <1>5 DEF Spent, FamilyRows
<1>8. Issued' = [Issued EXCEPT ![g] = @ + 1]
  <2>1. IsFiniteSet(FamilyRows(g))
    BY <1>1, FamilyFinite
  <2>2. Cardinality(FamilyRows(g) \cup {id}) = Cardinality(FamilyRows(g)) + 1
    BY <1>4, <2>1, FS_AddElement
  <2> QED
    BY <1>1, <1>4, <1>5, <2>2 DEF Issued
<1>9. Exchanged' = [Exchanged EXCEPT ![g] = @ + 1]
  <2>1. IsFiniteSet(Spent(g))
    BY <1>1, FamilyFinite
  <2>2. Cardinality(Spent(g) \cup {old}) = Cardinality(Spent(g)) + 1
    BY <1>6, <2>1, FS_AddElement
  <2>3. Exchanged = [f \in Ids |-> Cardinality(Spent(f))]
    BY DEF Exchanged, Spent, FamilyRows
  <2>4. Exchanged' = [f \in Ids |-> Cardinality(Spent(f)')]
    BY DEF Exchanged, Spent, FamilyRows
  <2> QED
    BY <1>1, <1>6, <1>7, <2>2, <2>3, <2>4
<1>10. ~FamilyDead(g) /\ ~FamilyDead(g)'
  BY <1>1, <1>2, <1>3, <1>4 DEF FamilyDead
<1>11. Ended' = Ended
  <2>1. \A f \in Ids \ {g} : FamilyDead(f)' <=> FamilyDead(f)
    BY <1>2, <1>5 DEF FamilyDead
  <2>2. Ended = {f \in Ids : FamilyDead(f)} /\ Ended' = {f \in Ids : FamilyDead(f)'}
    BY <1>1, EndedIs, EndedIsNext
  <2> QED
    BY <1>10, <2>1, <2>2
<1>12. Issued[g] # 0 /\ g \notin Ended
  BY <1>1, <1>4, <1>10, FamilyFinite, EndedIs DEF Issued
<1>13. Promise!Renew(g)
  BY <1>8, <1>9, <1>11, <1>12 DEF Promise!Renew, Promise!Begun
<1> QED
  BY <1>1, <1>13 DEF Promise!Next

\* Whatever requests present which tokens at the same time, a sign-in is a line of
\* tokens, none of which is exchanged twice or after the end of the sign-in
\* (refresh_session, logout, reset_password, _secure_unverified_account).
THEOREM SessionsImplement == Spec => Implements
<1>1. LInv /\ [Next]_vars => [Promise!Next]_<<Issued, Exchanged, Ended>>
  BY NextTInv, TableSteps, QuietPromise, SignInPromise, RotationPromise DEF LInv, IInv, TInv
<1>2. QED
  BY InitPromise, InitLInv, NextLInv, <1>1, PTL DEF Spec, Implements, Promise!Spec

-----------------------------------------------------------------------------
(* The account lock *)

LEMMA AttemptingFinite ==
    /\ IsFiniteSet(Attempting) /\ Cardinality(Attempting) \in Nat
    /\ Cardinality(Attempting) <= Cardinality(Procs)
    /\ Cardinality(Procs) \in Nat
<1>1. Attempting \in SUBSET Procs
  BY DEF Attempting
<1> QED
  BY <1>1, SessionsAssumption, FS_Subset, FS_CardinalityType

LEMMA AttemptingFiniteNext ==
    /\ IsFiniteSet(Attempting') /\ Cardinality(Attempting') \in Nat
    /\ Cardinality(Attempting') <= Cardinality(Procs)
<1>1. Attempting' \in SUBSET Procs
  BY DEF Attempting
<1> QED
  BY <1>1, SessionsAssumption, FS_Subset, FS_CardinalityType

\* What a step may do to the counter and to the attempts under way: let one in that
\* found the account open, or that could not look; count one; or clear the counter.
LEMMA AttemptSteps ==
    ASSUME TypeOK, [Next]_vars
    PROVE  \/ failures < LockLimit /\ UNCHANGED counter
           \/ /\ failures' = failures /\ blind' = blind + 1
              /\ \E p \in Procs : Attempting' \subseteq Attempting \cup {p}
           \/ UNCHANGED counter /\ Attempting' \subseteq Attempting
           \/ ClearFailures
           \/ \E p \in Attempting : /\ failures' \in {failures, failures + 1} /\ blind' = blind
                                    /\ Attempting' = Attempting \ {p}
<1> USE DEF TypeOK, Attempting
<1>1. ASSUME NEW p \in Procs, LoginCheck(p)
      PROVE  \/ failures < LockLimit /\ UNCHANGED counter
             \/ /\ failures' = failures /\ blind' = blind + 1
                /\ Attempting' \subseteq Attempting \cup {p}
  BY <1>1 DEF LoginCheck, counter
<1>2. ASSUME NEW p \in Procs, Arrive(p), ~LoginCheck(p)
      PROVE  UNCHANGED counter /\ Attempting' \subseteq Attempting
  BY <1>2 DEF Arrive, OAuthBegin, RefreshLookup, ChangeLookup, ResetLookup, account
<1>3. ASSUME NEW p \in Procs, LoginReject(p)
      PROVE  /\ p \in Attempting /\ failures' \in {failures, failures + 1} /\ blind' = blind
             /\ Attempting' = Attempting \ {p}
  BY <1>3 DEF LoginReject
<1>4. ASSUME NEW p \in Procs, Proceed(p), ~LoginReject(p)
      PROVE  ClearFailures \/ (UNCHANGED counter /\ Attempting' \subseteq Attempting)
  <2>1. CASE LoginVerify(p)
    BY <2>1 DEF LoginVerify
  <2>2. CASE ResetCommit(p)
    BY <2>2 DEF ResetCommit
  <2>3. CASE LoginTouch(p) \/ ReuseUpdate(p) \/ RefreshLock(p) \/ RefreshReuse(p)
             \/ RefreshReuseRolledBack(p) \/ ResetBegin(p) \/ ResetRefused(p) \/ ChangeBegin(p)
    BY <2>3 DEF LoginTouch, ReuseUpdate, RefreshLock, RefreshReuse, RefreshReuseRolledBack,
       RollBack, ResetBegin, ResetRefused, ChangeBegin, account
  <2>4. CASE LoginInsert(p) \/ RefreshCommit(p) \/ SecureCommit(p) \/ OAuthSignIn(p)
             \/ ReuseApply(p) \/ ChangeCommit(p)
    BY <2>4 DEF LoginInsert, RefreshCommit, SecureCommit, OAuthSignIn, ReuseApply, ChangeCommit,
       account
  <2>5. CASE SecureUnverified(p) \/ SecureSessions(p) \/ OAuthLink(p) \/ OAuthConflict(p)
             \/ \E s \in Ids : LockRow(p, s)
    BY <2>5 DEF SecureUnverified, SecureSessions, OAuthLink, OAuthConflict, RollBack, LockRow,
       account, local
  <2> QED
    BY <1>4, <2>1, <2>2, <2>3, <2>4, <2>5 DEF Proceed
<1>5. ASSUME NEW s \in Ids, logout(s) PROVE UNCHANGED <<counter, pc>>
  BY <1>5 DEF logout, account, local
<1>6. ASSUME NEW c \in Ids, NEW s \in Ids, revoke_user_session(c, s)
      PROVE  UNCHANGED <<counter, pc>>
  BY <1>6 DEF revoke_user_session, account, local
<1>7. CASE verify_email \/ Tick \/ UNCHANGED vars
  BY <1>7 DEF verify_email, Tick, vars, account, local
<1>8. CASE FailuresExpire
  BY <1>8 DEF FailuresExpire
<1>9. ASSUME NEW p \in Procs, Deadlocked(p)
      PROVE  UNCHANGED counter /\ Attempting' \subseteq Attempting
  BY <1>9 DEF Deadlocked, RollBack, account
<1> QED
  BY <1>1, <1>2, <1>3, <1>4, <1>5, <1>6, <1>7, <1>8, <1>9 DEF Next

LEMMA NextOvershoot == TypeOK /\ LockOvershoot /\ [Next]_vars => LockOvershoot'
<1> SUFFICES ASSUME TypeOK, LockOvershoot, [Next]_vars PROVE LockOvershoot'
  OBVIOUS
<1> DEFINE n == Cardinality(Attempting)
           n2 == Cardinality(Attempting')
           all == Cardinality(Procs)
<1>t. /\ failures \in Nat /\ blind \in Nat /\ LockLimit \in Nat \ {0}
      /\ n \in Nat /\ n2 \in Nat /\ all \in Nat /\ n2 <= all
  BY SessionsAssumption, AttemptingFinite, AttemptingFiniteNext DEF TypeOK
<1>0. failures + n < LockLimit + all + blind
  BY DEF LockOvershoot
<1>s. SUFFICES failures' + n2 < LockLimit + all + blind'
  BY DEF LockOvershoot
<1> HIDE DEF n, n2, all
<1>1. CASE failures < LockLimit /\ UNCHANGED counter
  BY <1>1, <1>t DEF counter
<1>2. ASSUME NEW p \in Procs, Attempting' \subseteq Attempting \cup {p},
             failures' = failures, blind' = blind + 1
      PROVE  failures' + n2 < LockLimit + all + blind'
  <2>1. n2 <= Cardinality(Attempting \cup {p}) /\ Cardinality(Attempting \cup {p}) \in {n, n + 1}
    BY <1>2, AttemptingFinite, FS_Subset, FS_AddElement DEF n, n2
  <2> QED
    BY <1>0, <1>2, <1>t, <2>1
<1>3. CASE UNCHANGED counter /\ Attempting' \subseteq Attempting
  <2>1. n2 <= n
    BY <1>3, AttemptingFinite, FS_Subset DEF n, n2
  <2> QED
    BY <1>0, <1>3, <2>1, <1>t DEF counter
<1>4. CASE ClearFailures
  BY <1>4, <1>t DEF ClearFailures
<1>5. ASSUME NEW p \in Attempting, failures' \in {failures, failures + 1}, blind' = blind,
             Attempting' = Attempting \ {p}
      PROVE  failures' + n2 < LockLimit + all + blind'
  <2>1. n2 = n - 1
    BY <1>5, AttemptingFinite, FS_RemoveElement DEF n, n2
  <2>2. CASE failures' = failures
    BY <1>0, <1>5, <2>1, <2>2, <1>t
  <2>3. CASE failures' = failures + 1
    BY <1>0, <1>5, <2>1, <2>3, <1>t
  <2> QED
    BY <1>5, <2>2, <2>3
<1> QED
  BY <1>1, <1>2, <1>3, <1>4, <1>5, AttemptSteps

\* Attempts that were under way when the account was locked exceed the limit by fewer
\* than there are requests, and each time that Redis could not be read by one more
\* (login counts after it has tested, and an error passes the test).
THEOREM LockHolds == Spec => []LockOvershoot
<1>1. Init => LockOvershoot
  <2> SUFFICES ASSUME Init PROVE LockOvershoot
    OBVIOUS
  <2>1. Attempting = {} /\ failures = 0 /\ blind = 0
    BY DEF Init, Attempting
  <2> QED
    BY <2>1, FS_EmptySet, AttemptingFinite, SessionsAssumption DEF LockOvershoot
<1>2. QED
  BY <1>1, NextOvershoot, TypeCorrect, PTL DEF Spec

-----------------------------------------------------------------------------
(* Who waits for whom *)

\* The stages of a transaction that has the users row.
WithUser == {"reset_apply", "change_apply", "oauth_apply", "oauth_secured"}

\* The lock of a session row is held by a request that rotates the row, or by one
\* that updates or has updated the rows of its snapshot.
RowHolders == \A s \in Ids : rowLock[s] # Nobody =>
    \/ pc[rowLock[s]] = "refresh_commit" /\ arg[rowLock[s]] = s
    \/ pc[rowLock[s]] \in Updating \cup {"oauth_secured"} /\ s \in snap[rowLock[s]]

\* The lock of the users row is held by who changes the account.
UserHolder == \A p \in Procs : userLock = p <=> pc[p] \in WithUser

\* The ids are given out one after the other, and every request that has yet to
\* insert a session finds one.
Dense == \E n \in 0 .. MaxSessions : rows = 1 .. n
Inserters == {p \in Procs : pc[p] \in Inserting}
Reserved == Cardinality(rows) + Cardinality(Inserters) <= MaxSessions

WInv == IInv /\ RowHolders /\ UserHolder /\ Dense /\ Reserved

LEMMA RowsFinite ==
    ASSUME TypeOK
    PROVE  /\ IsFiniteSet(rows) /\ Cardinality(rows) \in Nat
           /\ IsFiniteSet(Inserters) /\ Cardinality(Inserters) \in Nat
<1>1. IsFiniteSet(Ids)
  BY SessionsAssumption, FS_Interval DEF Ids
<1>2. rows \in SUBSET Ids /\ Inserters \in SUBSET Procs
  BY DEF TypeOK, Inserters
<1> QED
  BY <1>1, <1>2, SessionsAssumption, FS_Subset, FS_CardinalityType

\* Where ids were given out one after the other, the next one is known.
LEMMA NextIdIs ==
    ASSUME NEW n \in 0 .. MaxSessions, rows = 1 .. n
    PROVE  /\ n = Cardinality(rows)
           /\ \A id \in Ids : NextId(id) <=> id = n + 1
<1>1. n \in Nat
  BY SessionsAssumption
<1>2. Cardinality(rows) = n
  BY <1>1, FS_Interval
<1>3. ASSUME NEW id \in Ids PROVE NextId(id) <=> id = n + 1
  <2>1. CASE n + 1 \in Ids
    <3>1. n + 1 \notin rows /\ \A i \in Ids \ rows : n + 1 <= i
      BY <1>1, SessionsAssumption DEF Ids
    <3> QED
      BY <2>1, <3>1, <1>1, SessionsAssumption DEF NextId, Ids
  <2>2. CASE n + 1 \notin Ids
    BY <2>2, <1>1, SessionsAssumption DEF NextId, Ids
  <2> QED
    BY <2>1, <2>2
<1> QED
  BY <1>2, <1>3

LEMMA ReservedIsThere ==
    ASSUME WInv, NEW p \in Inserters
    PROVE  SomeId
<1>1. PICK n \in 0 .. MaxSessions : rows = 1 .. n
  BY DEF WInv, Dense
<1>2. Cardinality(Inserters) # 0
  BY RowsFinite, FS_EmptySet DEF WInv, IInv, TInv
<1>3. n < MaxSessions
  BY <1>1, <1>2, NextIdIs, RowsFinite, SessionsAssumption DEF WInv, IInv, TInv, Reserved
<1>4. n + 1 \in Ids
  BY <1>3, SessionsAssumption DEF Ids
<1> QED
  BY <1>1, <1>4, NextIdIs DEF SomeId

LEMMA InitWInv == Init => WInv
<1> SUFFICES ASSUME Init PROVE WInv
  OBVIOUS
<1>1. IInv
  BY InitIInv
<1>2. RowHolders /\ UserHolder
  BY SessionsAssumption DEF Init, RowHolders, UserHolder, WithUser
<1>3. rows = 1 .. 1 /\ 1 \in 0 .. MaxSessions
  BY SessionsAssumption DEF Init
<1>4. Inserters = {}
  BY DEF Init, Inserters, Inserting
<1>5. Reserved
  BY <1>3, <1>4, NextIdIs, FS_EmptySet, SessionsAssumption DEF Reserved
<1> QED
  BY <1>1, <1>2, <1>3, <1>5 DEF WInv, Dense

\* What a step may do to the rows and to those who are going to insert one.
Admits == Room /\ rows' = rows /\ \E p \in Procs : Inserters' \subseteq Inserters \cup {p}
Inserts == \E p \in Inserters, id \in Ids :
    NextId(id) /\ rows' = rows \cup {id} /\ Inserters' = Inserters \ {p}

LEMMA RowSteps ==
    ASSUME TInv, [Next]_vars
    PROVE  \/ rows' = rows /\ Inserters' \subseteq Inserters
           \/ Admits \/ Inserts
<1> USE DEF Inserters, Inserting
<1> DEFINE Keeps == rows' = rows /\ Inserters' \subseteq Inserters
<1>t. pc \in [Procs -> Stages]
  BY DEF TInv, TypeOK
<1>1. ASSUME NEW p \in Procs, Arrive(p) PROVE Keeps \/ Admits
  <2>1. CASE OAuthBegin(p)
    BY <1>t, <2>1 DEF OAuthBegin, Admits, table
  <2>2. CASE LoginCheck(p) \/ (\E t \in Tokens : ResetLookup(p, t))
    BY <1>t, <2>2 DEF LoginCheck, ResetLookup, table
  <2>3. ASSUME NEW s \in Ids, ChangeLookup(p, s) PROVE Keeps
    BY <1>t, <2>3 DEF ChangeLookup, table
  <2>4. ASSUME NEW s \in Ids, RefreshLookup(p, s) PROVE Keeps \/ Admits
    BY <1>t, <2>4 DEF RefreshLookup, table, Admits
  <2> QED
    BY <1>1, <2>1, <2>2, <2>3, <2>4 DEF Arrive
<1>2. ASSUME NEW p \in Procs, Proceed(p) PROVE Keeps \/ Admits \/ Inserts
  <2>1. CASE LoginInsert(p)
    BY <1>t, <2>1 DEF LoginInsert, start_session, Inserts
  <2>2. CASE OAuthSignIn(p)
    BY <1>t, <2>2 DEF OAuthSignIn, start_session, Inserts
  <2>3. CASE SecureCommit(p)
    BY <1>t, <2>3 DEF SecureCommit, start_session, Inserts
  <2>4. CASE RefreshCommit(p)
    BY <1>t, <2>4 DEF RefreshCommit, Inserts
  <2>5. CASE LoginVerify(p)
    BY <1>t, <2>5 DEF LoginVerify, Admits, table
  <2>6. CASE LoginReject(p) \/ LoginTouch(p) \/ ReuseUpdate(p)
             \/ RefreshLock(p) \/ RefreshReuse(p) \/ RefreshReuseRolledBack(p) \/ ResetBegin(p)
             \/ ResetRefused(p) \/ ChangeBegin(p)
    BY <1>t, <2>6 DEF LoginReject, LoginTouch, ReuseUpdate, RefreshLock, RefreshReuse,
         RefreshReuseRolledBack, RollBack, ResetBegin, ResetRefused, ChangeBegin, table
  <2>7. CASE SecureUnverified(p) \/ SecureSessions(p) \/ OAuthLink(p) \/ OAuthConflict(p)
             \/ \E s \in Ids : LockRow(p, s)
    BY <1>t, <2>7 DEF SecureUnverified, SecureSessions, OAuthLink, OAuthConflict, RollBack, LockRow,
         table, local
  <2>8. CASE ReuseApply(p) \/ ResetCommit(p) \/ ChangeCommit(p)
    BY <1>t, <2>8 DEF ReuseApply, ResetCommit, ChangeCommit, RevokeSnapshot
  <2> QED
    BY <1>2, <2>1, <2>2, <2>3, <2>4, <2>5, <2>6, <2>7, <2>8 DEF Proceed
<1>3. ASSUME NEW s \in Ids, logout(s) PROVE Keeps
  BY <1>3 DEF logout, local
<1>4. ASSUME NEW c \in Ids, NEW s \in Ids, revoke_user_session(c, s) PROVE Keeps
  BY <1>4 DEF revoke_user_session, local
<1>5. CASE verify_email \/ FailuresExpire \/ Tick \/ UNCHANGED vars
  BY <1>5 DEF verify_email, FailuresExpire, Tick, vars, table, local
<1>6. ASSUME NEW p \in Procs, Deadlocked(p) PROVE Keeps
  BY <1>t, <1>6 DEF Deadlocked, RollBack, table
<1> QED
  BY <1>1, <1>2, <1>3, <1>4, <1>5, <1>6 DEF Next

LEMMA NextReserved ==
    ASSUME WInv, TInv', [Next]_vars
    PROVE  Dense' /\ Reserved'
<1>0. /\ IsFiniteSet(rows) /\ Cardinality(rows) \in Nat
      /\ IsFiniteSet(Inserters) /\ Cardinality(Inserters) \in Nat
  BY RowsFinite DEF WInv, IInv, TInv
<1>f. IsFiniteSet(Inserters') /\ Cardinality(Inserters') \in Nat
  <2>1. Inserters' \in SUBSET Procs
    BY DEF Inserters
  <2> QED
    BY <2>1, SessionsAssumption, FS_Subset, FS_CardinalityType
<1>1. CASE rows' = rows /\ Inserters' \subseteq Inserters
  <2>1. Cardinality(Inserters') <= Cardinality(Inserters)
    BY <1>0, <1>1, FS_Subset
  <2> QED
    BY <1>0, <1>f, <1>1, <2>1, SessionsAssumption DEF WInv, Dense, Reserved
<1>2. CASE Admits
  <2>1. PICK p \in Procs : Inserters' \subseteq Inserters \cup {p}
    BY <1>2 DEF Admits
  <2>2. Cardinality(Inserters') <= Cardinality(Inserters \cup {p})
    BY <1>0, <2>1, FS_Subset, FS_AddElement
  <2>3. Cardinality(Inserters \cup {p}) <= Cardinality(Inserters) + 1
    <3>1. Cardinality(Inserters \cup {p})
            \in {Cardinality(Inserters), Cardinality(Inserters) + 1}
      BY <1>0, FS_AddElement
    <3> QED
      BY <1>0, <3>1
  <2>4. Cardinality(Inserters \cup {p}) \in Nat
    BY <1>0, FS_AddElement, FS_CardinalityType
  <2>5. Cardinality(rows) + Cardinality(Inserters) < MaxSessions /\ rows' = rows
    BY <1>2 DEF Admits, Room, Inserters
  <2> QED
    BY <1>0, <1>f, <2>2, <2>3, <2>4, <2>5, SessionsAssumption DEF WInv, Dense, Reserved
<1>3. CASE Inserts
  <2>1. PICK p \in Inserters, id \in Ids :
            NextId(id) /\ rows' = rows \cup {id} /\ Inserters' = Inserters \ {p}
    BY <1>3 DEF Inserts
  <2>2. PICK n \in 0 .. MaxSessions : rows = 1 .. n
    BY DEF WInv, Dense
  <2>3. id = n + 1 /\ n \in Nat
    BY <2>1, <2>2, NextIdIs, SessionsAssumption
  <2>4. n + 1 \in 0 .. MaxSessions /\ rows' = 1 .. n + 1
    BY <2>1, <2>2, <2>3, SessionsAssumption DEF Ids
  <2>5. Cardinality(rows') = n + 1 /\ Cardinality(rows) = n
    BY <2>2, <2>3, <2>4, FS_Interval
  <2>6. Cardinality(Inserters') = Cardinality(Inserters) - 1
    BY <1>0, <2>1, FS_RemoveElement
  <2> QED
    BY <1>0, <1>f, <2>3, <2>4, <2>5, <2>6, SessionsAssumption DEF WInv, Dense, Reserved
<1> QED
  BY <1>1, <1>2, <1>3, RowSteps DEF WInv, IInv

\* What a request itself may come to hold by a step of its own.
LEMMA OwnLocks ==
    ASSUME WInv, NEW p \in Procs, Arrive(p) \/ Proceed(p) \/ Deadlocked(p)
    PROVE  /\ \A s \in Ids : rowLock'[s] = p =>
                \/ pc'[p] = "refresh_commit" /\ arg'[p] = s
                \/ pc'[p] \in Updating \cup {"oauth_secured"} /\ s \in snap'[p]
           /\ userLock' = p <=> pc'[p] \in WithUser
<1> USE SessionsAssumption DEF WithUser, Updating
<1>t. /\ pc \in [Procs -> Stages] /\ arg \in [Procs -> Ids \cup Tokens \cup {0}]
      /\ snap \in [Procs -> SUBSET Ids]
      /\ rowLock \in [Ids -> Procs \cup {Nobody}] /\ userLock \in Procs \cup {Nobody}
      /\ Nobody \notin Procs
  BY DEF WInv, IInv, TInv, TypeOK
<1>h. /\ \A s \in Ids : rowLock[s] = p =>
           \/ pc[p] = "refresh_commit" /\ arg[p] = s
           \/ pc[p] \in Updating \cup {"oauth_secured"} /\ s \in snap[p]
      /\ userLock = p <=> pc[p] \in WithUser
  BY <1>t DEF WInv, RowHolders, UserHolder
<1>u. ASSUME Unlock(p), Done(p)
      PROVE  (\A s \in Ids : rowLock'[s] # p) /\ userLock' # p /\ pc'[p] = "idle"
  BY <1>t, <1>u DEF Unlock
<1>1. CASE Arrive(p)
  <2>1. pc[p] = "idle" /\ UNCHANGED <<rowLock, userLock>>
    BY <1>1 DEF Arrive, LoginCheck, OAuthBegin, RefreshLookup, ChangeLookup, ResetLookup, locks
  <2>2. pc'[p] \notin WithUser
    BY <1>1, <1>t DEF Arrive, LoginCheck, OAuthBegin, RefreshLookup, ChangeLookup, ResetLookup
  <2> QED
    BY <1>h, <2>1, <2>2
<1>2. CASE LoginVerify(p) \/ LoginReject(p) \/ LoginTouch(p) \/ LoginInsert(p) \/ ReuseUpdate(p)
           \/ ResetRefused(p) \/ OAuthLink(p) \/ OAuthSignIn(p)
  <2>1. /\ UNCHANGED <<rowLock, userLock>>
        /\ pc[p] \notin Updating \cup {"oauth_secured", "refresh_commit"}
    BY <1>2 DEF LoginVerify, LoginReject, LoginTouch, LoginInsert, ReuseUpdate, ResetRefused,
       OAuthLink, OAuthSignIn, locks
  <2>2. pc'[p] \notin WithUser
    BY <1>2, <1>t DEF LoginVerify, LoginReject, LoginTouch, LoginInsert, ReuseUpdate, ResetRefused,
       OAuthLink, OAuthSignIn
  <2> QED
    BY <1>h, <2>1, <2>2
<1>3. CASE ReuseApply(p) \/ RefreshReuseRolledBack(p) \/ ResetCommit(p) \/ ChangeCommit(p)
           \/ SecureCommit(p) \/ OAuthConflict(p) \/ Deadlocked(p)
  <2>1. Unlock(p) /\ Done(p)
    BY <1>3 DEF ReuseApply, RefreshReuseRolledBack, RollBack, ResetCommit, ChangeCommit,
       SecureCommit, OAuthConflict, Deadlocked
  <2> QED
    BY <1>u, <2>1
<1>4. CASE RefreshLock(p)
  <2>1. /\ pc[p] = "refresh_lock" /\ pc'[p] = "refresh_commit" /\ arg'[p] = arg[p]
        /\ rowLock' = [rowLock EXCEPT ![arg[p]] = p] /\ userLock' = userLock
    BY <1>t, <1>4 DEF RefreshLock
  <2> QED
    BY <1>t, <1>h, <2>1
<1>5. CASE RefreshReuse(p)
  <2>1. /\ pc[p] = "refresh_lock" /\ pc'[p] = "reuse_locked"
        /\ rowLock' = [rowLock EXCEPT ![arg[p]] = p] /\ userLock' = userLock
        /\ snap'[p] = FamilyRows(family[arg[p]])
    BY <1>t, <1>5 DEF RefreshReuse
  <2>2. arg[p] \in FamilyRows(family[arg[p]])
    BY <2>1 DEF WInv, IInv, TInv, ArgOK, FamilyRows
  <2> QED
    BY <1>t, <1>h, <2>1, <2>2
<1>6. CASE RefreshCommit(p)
  <2>1. /\ pc[p] = "refresh_commit" /\ rowLock' = [rowLock EXCEPT ![arg[p]] = Nobody]
        /\ userLock' = userLock /\ pc'[p] = "idle"
    BY <1>t, <1>6 DEF RefreshCommit
  <2> QED
    BY <1>t, <1>h, <2>1
<1>7. CASE ResetBegin(p) \/ ChangeBegin(p) \/ SecureUnverified(p)
  <2>1. /\ pc[p] \in {"reset_begin", "change_begin", "oauth_secure"} /\ pc'[p] \in WithUser
        /\ rowLock' = rowLock /\ userLock' = p
    BY <1>t, <1>7 DEF ResetBegin, ChangeBegin, SecureUnverified
  <2> QED
    BY <1>t, <1>h, <2>1
<1>8. CASE SecureSessions(p)
  <2>1. /\ pc[p] = "oauth_apply" /\ pc'[p] = "oauth_secured" /\ snap'[p] = snap[p]
        /\ rowLock' = rowLock /\ userLock' = userLock
    BY <1>t, <1>8 DEF SecureSessions, locks
  <2> QED
    BY <1>t, <1>h, <2>1
<1>9. ASSUME NEW s \in Ids, LockRow(p, s)
      PROVE  /\ \A r \in Ids : rowLock'[r] = p =>
                  \/ pc'[p] = "refresh_commit" /\ arg'[p] = r
                  \/ pc'[p] \in Updating \cup {"oauth_secured"} /\ r \in snap'[p]
             /\ userLock' = p <=> pc'[p] \in WithUser
  <2>1. /\ pc[p] \in Updating /\ s \in snap[p] /\ UNCHANGED <<pc, arg, snap, userLock>>
        /\ rowLock' = [rowLock EXCEPT ![s] = p]
    BY <1>9 DEF LockRow, local
  <2> QED
    BY <1>t, <1>h, <2>1
<1> QED
  BY <1>1, <1>2, <1>3, <1>4, <1>5, <1>6, <1>7, <1>8, <1>9 DEF Proceed

LEMMA NextHolders ==
    ASSUME WInv, TInv', [Next]_vars
    PROVE  RowHolders' /\ UserHolder'
<1> USE SessionsAssumption
<1>t. /\ TInv /\ RotationHoldsLiveRow
      /\ rowLock \in [Ids -> Procs \cup {Nobody}] /\ rowLock' \in [Ids -> Procs \cup {Nobody}]
  BY DEF WInv, IInv, TInv, TypeOK
<1>1. ASSUME NEW p \in Procs, Arrive(p) \/ Proceed(p) \/ Deadlocked(p)
      PROVE  RowHolders' /\ UserHolder'
  <2>1. \A q \in Procs \ {p} : Stays(q)
    BY <1>t, <1>1, OthersStay
  <2>2. ASSUME NEW s \in Ids, rowLock'[s] # Nobody
        PROVE  \/ pc'[rowLock'[s]] = "refresh_commit" /\ arg'[rowLock'[s]] = s
               \/ pc'[rowLock'[s]] \in Updating \cup {"oauth_secured"} /\ s \in snap'[rowLock'[s]]
    <3>1. rowLock'[s] \in Procs
      BY <1>t, <2>2
    <3>2. CASE rowLock'[s] = p
      BY <1>1, <3>2, OwnLocks
    <3>3. CASE rowLock'[s] # p
      <4>1. rowLock[s] = rowLock'[s] /\ Stays(rowLock'[s])
        BY <2>1, <3>1, <3>3 DEF Stays
      <4> QED
        BY <2>2, <4>1 DEF Stays, WInv, RowHolders
    <3> QED
      BY <3>2, <3>3
  <2>3. ASSUME NEW q \in Procs PROVE userLock' = q <=> pc'[q] \in WithUser
    <3>1. CASE q = p
      BY <1>1, <3>1, OwnLocks
    <3>2. CASE q # p
      BY <2>1, <3>2 DEF Stays, WInv, UserHolder
    <3> QED
      BY <3>1, <3>2
  <2> QED
    BY <2>2, <2>3 DEF RowHolders, UserHolder
<1>2. CASE UNCHANGED <<pc, arg, snap, rowLock, userLock>>
  BY <1>2 DEF WInv, RowHolders, UserHolder
<1> QED
  BY <1>1, <1>2, OutsideSteps

LEMMA NextWInv == WInv /\ [Next]_vars => WInv'
<1> SUFFICES ASSUME WInv, [Next]_vars PROVE WInv'
  OBVIOUS
<1>1. IInv' /\ TInv'
  BY NextIInv DEF WInv, IInv
<1> QED
  BY <1>1, NextReserved, NextHolders DEF WInv

LEMMA Served == WInv => NobodyIsStuck
<1> SUFFICES ASSUME WInv, NEW p \in Procs, pc[p] # "idle"
             PROVE  CanProceed(p) \/ WaitsFor(p) # {}
  BY DEF NobodyIsStuck
<1>t. /\ \A q \in Procs : pc[q] \in Stages
      /\ rowLock \in [Ids -> Procs \cup {Nobody}] /\ userLock \in Procs \cup {Nobody}
      /\ \A q \in Procs : snap[q] \subseteq Ids
      /\ \A q \in Procs : pc[q] = "refresh_lock" => arg[q] \in Ids
  BY DEF WInv, IInv, TInv, TypeOK, ArgOK
<1>1. pc[p] \in Inserting => SomeId
  BY ReservedIsThere DEF Inserters
<1>2. CASE pc[p] \in NeedsUser
  <2>1. CASE userLock = Nobody
    BY <1>1, <1>2, <2>1 DEF CanProceed, Inserting, NeedsUser
  <2>2. CASE userLock # Nobody
    <3>1. userLock \in Procs /\ pc[userLock] \in WithUser
      BY <1>t, <2>2 DEF WInv, UserHolder
    <3>2. userLock # p
      BY <1>2, <3>1 DEF WithUser, NeedsUser
    <3> QED
      BY <1>2, <3>1, <3>2 DEF WaitsFor
  <2> QED
    BY <2>1, <2>2
<1>3. CASE pc[p] \in NeedsLink
  <2>1. CASE LinkFree
    BY <1>1, <1>3, <2>1 DEF CanProceed, Inserting, NeedsLink
  <2>2. ASSUME NEW q \in Procs, pc[q] = "oauth_touch" PROVE q \in WaitsFor(p)
    BY <1>3, <2>2 DEF WaitsFor, NeedsLink
  <2> QED
    BY <2>1, <2>2 DEF LinkFree
<1>4. CASE pc[p] = "refresh_lock"
  <2>1. CASE rowLock[arg[p]] = Nobody
    BY <1>4, <2>1 DEF CanProceed
  <2>2. CASE rowLock[arg[p]] # Nobody
    <3>1. rowLock[arg[p]] \in Procs /\ pc[rowLock[arg[p]]] # "refresh_lock"
      BY <1>t, <1>4, <2>2 DEF WInv, RowHolders, Updating
    <3> QED
      BY <1>4, <3>1 DEF WaitsFor
  <2> QED
    BY <2>1, <2>2
<1>5. CASE pc[p] \in Updating
  <2>1. CASE HasRows(p) \/ \E s \in snap[p] : rowLock[s] = Nobody
    BY <1>5, <2>1 DEF CanProceed
  <2>2. CASE ~HasRows(p) /\ \A s \in snap[p] : rowLock[s] # Nobody
    <3>1. PICK s \in snap[p] : rowLock[s] # p /\ rowLock[s] \in Procs
      BY <1>t, <2>2 DEF HasRows
    <3> QED
      BY <1>5, <3>1 DEF WaitsFor
  <2> QED
    BY <2>1, <2>2
<1>6. CASE pc[p] \in {"login_verify", "reuse_update", "login_insert", "refresh_commit"}
  BY <1>1, <1>6 DEF CanProceed, Inserting
<1> QED
  BY <1>t, <1>2, <1>3, <1>4, <1>5, <1>6 DEF Stages, Inserting, Updating, NeedsUser, NeedsLink

\* Of two requests that wait, one for the other, the other has the users row, unless it
\* is at a stage of CanCircle.
LEMMA WaitedForHasUser ==
    ASSUME WInv, NEW p \in Procs, NEW q \in WaitsFor(p), WaitsFor(q) # {}, pc[q] \notin CanCircle
    PROVE  userLock = q
<1>t. /\ rowLock \in [Ids -> Procs \cup {Nobody}] /\ Nobody \notin Procs
      /\ \A r \in Procs : snap[r] \subseteq Ids
      /\ \A r \in Procs : pc[r] = "refresh_lock" => arg[r] \in Ids
  BY SessionsAssumption DEF WInv, IInv, TInv, TypeOK, ArgOK
<1>1. q \in Procs
  BY DEF WaitsFor
<1>2. pc[q] # "refresh_commit"
  BY DEF WaitsFor, NeedsUser, NeedsLink, Updating
<1>3. ASSUME NEW s \in Ids, rowLock[s] = q PROVE userLock = q
  BY <1>t, <1>1, <1>2, <1>3 DEF WInv, RowHolders, UserHolder, WithUser, Updating, CanCircle
<1>4. CASE pc[p] \in NeedsLink /\ pc[q] = "oauth_touch"
  BY <1>4 DEF CanCircle
<1> QED
  BY <1>t, <1>3, <1>4 DEF WaitsFor

LEMMA NoOtherCircle == WInv => CirclesAreKnown
<1> SUFFICES ASSUME WInv, NEW n \in 1 .. Cardinality(Procs) - 1, NEW c \in Circles(n),
                    \A i \in 0 .. n : pc[c[i]] \notin CanCircle
             PROVE  FALSE
  BY DEF CirclesAreKnown
<1>1. n \in Nat /\ 1 <= n
  BY SessionsAssumption, FS_CardinalityType
<1>2. /\ \A i \in 0 .. n : c[i] \in Procs
      /\ \A i \in 0 .. n - 1 : c[i + 1] \in WaitsFor(c[i])
      /\ c[0] \in WaitsFor(c[n])
  BY DEF Circles
<1>3. c[1] \in WaitsFor(c[0]) /\ c[1] \in Procs
  BY <1>1, <1>2
<1>4. WaitsFor(c[1]) # {} /\ WaitsFor(c[0]) # {}
  <2>1. CASE n = 1
    BY <1>2, <1>3, <2>1
  <2>2. CASE n # 1
    <3>1. 1 \in 0 .. n - 1
      BY <1>1, <2>2
    <3> QED
      BY <1>2, <1>3, <3>1
  <2> QED
    BY <2>1, <2>2
<1>5. userLock = c[1]
  BY <1>1, <1>2, <1>3, <1>4, WaitedForHasUser
<1>6. userLock = c[0]
  BY <1>1, <1>2, <1>4, WaitedForHasUser
<1>7. c[1] # c[0]
  BY <1>3 DEF WaitsFor
<1> QED
  BY <1>5, <1>6, <1>7

\* For any number of requests: who cannot go on waits for another's transaction, and a
\* circle of waiters has one that answers a reused token or links a provider in it; all
\* the others lock the users row before session rows, and refresh_session, which locks
\* a session row, waits for nothing after it.
THEOREM DeadlocksAreKnown == Spec => [](NobodyIsStuck /\ CirclesAreKnown)
  BY InitWInv, NextWInv, Served, NoOtherCircle, PTL DEF Spec

\* Each sign-in of the account has exactly one session whose token was not exchanged,
\* however its tokens are presented: what the promise says of the table.
THEOREM OneTokenIsLeft == Spec => []Promise!OneTokenLeft
<1> DEFINE Counts == /\ Issued \in [Ids -> Nat] /\ Exchanged \in [Ids -> Nat]
                     /\ \A f \in Ids : Issued[f] # 0 => Issued[f] = Exchanged[f] + 1
                     /\ \A f \in Ids : Issued[f] = 0 => Exchanged[f] = 0
<1>1. Promise!Init => Counts
  <2> SUFFICES ASSUME Promise!Init PROVE Counts
    OBVIOUS
  <2>1. Issued \in [Ids -> {0, 1}] /\ Exchanged = [f \in Ids |-> 0]
    BY DEF Promise!Init
  <2> QED
    BY <2>1
<1>2. Counts /\ [Promise!Next]_<<Issued, Exchanged, Ended>> => Counts'
  <2> SUFFICES ASSUME Counts, [Promise!Next]_<<Issued, Exchanged, Ended>> PROVE Counts'
    OBVIOUS
  <2>1. PICK i, x, i2, x2 : i = Issued /\ x = Exchanged /\ i2 = Issued' /\ x2 = Exchanged'
    OBVIOUS
  <2>2. \/ i2 = i /\ x2 = x
        \/ \E f \in Ids : i[f] # 0 /\ i2 = [i EXCEPT ![f] = @ + 1] /\ x2 = [x EXCEPT ![f] = @ + 1]
        \/ \E f \in Ids : i[f] = 0 /\ i2 = [i EXCEPT ![f] = 1] /\ x2 = x
    BY <2>1 DEF Promise!Next, Promise!Renew, Promise!End, Promise!Begun
  <2>3. /\ i \in [Ids -> Nat] /\ x \in [Ids -> Nat]
        /\ \A f \in Ids : i[f] # 0 => i[f] = x[f] + 1
        /\ \A f \in Ids : i[f] = 0 => x[f] = 0
    BY <2>1
  <2>4. /\ i2 \in [Ids -> Nat] /\ x2 \in [Ids -> Nat]
        /\ \A f \in Ids : i2[f] # 0 => i2[f] = x2[f] + 1
        /\ \A f \in Ids : i2[f] = 0 => x2[f] = 0
    <3> HIDE <2>1
    <3> QED
      BY <2>2, <2>3
  <2> QED
    BY <2>1, <2>4
<1>3. Counts => Promise!OneTokenLeft
  BY DEF Promise!OneTokenLeft, Promise!Begun
<1> HIDE DEF Counts
<1> QED
  BY <1>1, <1>2, <1>3, SessionsImplement, PTL DEF Implements, Promise!Spec
=============================================================================
