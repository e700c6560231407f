--------------------------- MODULE DashboardProofs ---------------------------
(* What holds of Dashboard for any number of requests, codes and edits.      *)
EXTENDS Dashboard, FiniteSetTheorems, TLAPS

-----------------------------------------------------------------------------
(* The inductive invariant *)

\* A request writes to a row it has read, and what it carries fits its stage.
\* The number of a version is one above a number the code has; once inserted,
\* it is one of the code's numbers.
Locally(p) ==
    LET r == req[p] IN
    /\ pc[p] \in Editing \cup {"toggle", "delete"} => r.code \in codes
    /\ pc[p] = "toggle" => r.status \in Statuses
    /\ pc[p] \in {"number", "version"} => Dynamic(r.code) /\ r.dest \in Dests
    /\ pc[p] = "number" => r.no = 0
    /\ pc[p] = "version" => \E n \in Numbers(r.code) : r.no = n + 1
    /\ pc[p] = "save" /\ r.no # 0 => Dynamic(r.code) /\ r.no \in Numbers(r.code)
    /\ pc[p] = "created" => r.short \in Shorts
Requests == \A p \in Procs : Locally(p)

\* Versions belong to rows, and there are finitely many.
VersionsHaveRows ==
    /\ IsFiniteSet(versions)
    /\ \A v \in versions : v.code \in codes

\* p has inserted version n of c and has not made it current.
Saving(p, c, n) == pc[p] = "save" /\ req[p].code = c /\ req[p].no = n /\ n # 0

\* A version not yet current belongs to one request, which has not been refused.
SavingIsAlone ==
    \A p \in Procs, c \in Ids, n \in Nat : Saving(p, c, n) =>
        /\ current[c] # n
        /\ \A v \in refused : ~(v.code = c /\ v.no = n)
        /\ \A q \in Procs : Saving(q, c, n) => q = p

\* No two creations in progress have the same short code.
HeldByOne == \A p, q \in Procs : req[p].short = req[q].short /\ req[p].short # None => p = q

Names == ShortCodesAreUnique /\ HeldByOne
Versioning == VersionsHaveRows /\ VersionsAreNumbered /\ CurrentIsOwnVersion
Refusals == SavingIsAlone /\ RefusedEditServesNothing

IInv == TypeOK /\ Requests /\ Versioning /\ Refusals /\ Names

-----------------------------------------------------------------------------
(* Types *)

\* The types of the locals of a request.
LEMMA LocalsType ==
    /\ NoLocals \in Locals
    /\ \A r \in Locals : /\ r.code \in Ids \cup {0} /\ r.dest \in Dests \cup {None}
                         /\ r.status \in Statuses \cup {"keep"} /\ r.no \in Nat
                         /\ r.short \in Shorts \cup {None} /\ r.tries \in Nat
  BY DEF NoLocals, Locals

\* One more field of the locals.
LEMMA LocalsUpdate ==
    ASSUME NEW r \in Locals
    PROVE  /\ \A n \in Nat : [r EXCEPT !.no = n] \in Locals
           /\ \A s \in Shorts : [r EXCEPT !.short = s] \in Locals
           /\ [r EXCEPT !.tries = @ + 1] \in Locals
           /\ \A c \in Ids : [r EXCEPT !.code = c] \in Locals
           /\ \A c \in Ids, s \in Statuses : [r EXCEPT !.code = c, !.status = s] \in Locals
           /\ \A c \in Ids, d \in Dests \cup {None}, s \in Statuses \cup {"keep"} :
                 [r EXCEPT !.code = c, !.dest = d, !.status = s] \in Locals
<1>1. \A n \in Nat : [r EXCEPT !.no = n] \in Locals
  BY DEF Locals
<1>2. \A s \in Shorts : [r EXCEPT !.short = s] \in Locals
  BY DEF Locals
<1>3. [r EXCEPT !.tries = @ + 1] \in Locals
  BY DEF Locals
<1>4. \A c \in Ids : [r EXCEPT !.code = c] \in Locals
  BY DEF Locals
<1>5. \A c \in Ids, s \in Statuses : [r EXCEPT !.code = c, !.status = s] \in Locals
  BY DEF Locals
<1>6. \A c \in Ids, d \in Dests \cup {None}, s \in Statuses \cup {"keep"} :
         [r EXCEPT !.code = c, !.dest = d, !.status = s] \in Locals
  BY DEF Locals
<1> QED BY <1>1, <1>2, <1>3, <1>4, <1>5, <1>6

\* A request that ends leaves a typed state.
LEMMA DoneType ==
    ASSUME TypeOK, NEW p \in Procs, Done(p)
    PROVE  /\ pc' \in [Procs -> {"idle", "toggle", "delete"} \cup Creating \cup Editing]
           /\ req' \in [Procs -> Locals]
  BY LocalsType DEF TypeOK, Done

LEMMA InitType == Init => TypeOK
  BY LocalsType DEF Init, TypeOK, Statuses

LEMMA NextType == TypeOK /\ Requests /\ [Next]_vars => TypeOK'
<1> SUFFICES ASSUME TypeOK, Requests, [Next]_vars PROVE TypeOK'
  OBVIOUS
<1> USE DashboardAssumption
<1>1. ASSUME NEW p \in Procs, CreateCheck(p) \/ CreateFail(p) PROVE TypeOK'
  BY <1>1, DoneType DEF CreateCheck, CreateFail, Goto, TypeOK, Creating, table, history
<1>2. ASSUME NEW p \in Procs, CreateStatic(p) PROVE TypeOK'
  BY <1>2, DoneType DEF CreateStatic, Insert, TypeOK, history
<1>3. ASSUME NEW p \in Procs, NEW s \in Shorts, TryCode(p, s) PROVE TypeOK'
  <2>1. req[p] \in Locals
    BY DEF TypeOK
  <2>2. [req[p] EXCEPT !.tries = @ + 1] \in Locals /\ [req[p] EXCEPT !.short = s] \in Locals
    BY <2>1, LocalsUpdate
  <2>3. req' \in [Procs -> Locals]
    BY <1>3, <2>2 DEF TryCode, TypeOK
  <2> QED BY <1>3, <2>3 DEF TryCode, Goto, TypeOK, Creating, table, history
<1>4. ASSUME NEW p \in Procs, NEW d \in Dests, CreateCommit(p, d) PROVE TypeOK'
  <2>1. req[p].short \in Shorts \cup {None}
    BY LocalsType DEF TypeOK
  <2>2. PICK id \in Ids : /\ Insert(id, req[p].short, 1)
                          /\ versions' = versions \cup {[code |-> id, no |-> 1, dest |-> d]}
    BY <1>4 DEF CreateCommit
  <2>3. versions' \subseteq Version
    BY <2>2 DEF TypeOK, Version
  <2> QED BY <1>4, <2>1, <2>2, <2>3, DoneType DEF CreateCommit, Insert, TypeOK
<1>5. ASSUME NEW p \in Procs, NEW c \in Ids, NEW d \in Dests \cup {None},
             NEW s \in Statuses \cup {"keep"}, UpdateRead(p, c, d, s) PROVE TypeOK'
  <2>1. req' \in [Procs -> Locals]
    BY <1>5, LocalsType, LocalsUpdate DEF UpdateRead, TypeOK
  <2> QED BY <1>5, <2>1 DEF UpdateRead, Goto, TypeOK, Editing, table, history
<1>6. ASSUME NEW p \in Procs, UpdateNumber(p) PROVE TypeOK'
  <2>1. PICK n \in Numbers(req[p].code) : req' = [req EXCEPT ![p].no = n + 1]
    BY <1>6 DEF UpdateNumber
  <2>2. n + 1 \in Nat
    BY DEF Numbers, VersionsOf, TypeOK, Version
  <2>3. req[p] \in Locals
    BY DEF TypeOK
  <2>4. [req[p] EXCEPT !.no = n + 1] \in Locals
    BY <2>2, <2>3, LocalsUpdate
  <2>5. req' \in [Procs -> Locals]
    BY <2>1, <2>4 DEF TypeOK
  <2> QED BY <1>6, <2>5 DEF UpdateNumber, Goto, TypeOK, Editing, table, history
<1>7. ASSUME NEW p \in Procs, UpdateVersion(p) PROVE TypeOK'
  <2>1. PICK n \in Numbers(req[p].code) : req[p].no = n + 1
    BY <1>7 DEF UpdateVersion, Requests, Locally
  <2>2. req[p].no \in Nat \ {0}
    BY <2>1 DEF Numbers, VersionsOf, TypeOK, Version
  <2>3. req[p].dest \in Dests /\ req[p].code \in Ids
    BY <1>7 DEF UpdateVersion, Requests, Locally, TypeOK, Editing
  <2>4. versions' \subseteq Version
    BY <1>7, <2>2, <2>3 DEF UpdateVersion, TypeOK, Version
  <2> QED BY <1>7, <2>4 DEF UpdateVersion, Goto, TypeOK, Editing, table
<1>8. ASSUME NEW p \in Procs, UpdateConflict(p) \/ UpdateRefused(p) PROVE TypeOK'
  BY <1>8, DoneType DEF UpdateConflict, UpdateRefused, TypeOK, table, history
<1>9. ASSUME NEW p \in Procs, UpdateSave(p) PROVE TypeOK'
  <2>1. req[p].no \in Nat /\ req[p].status \in Statuses \cup {"keep"}
    BY LocalsType DEF TypeOK
  <2> QED BY <1>9, <2>1, DoneType DEF UpdateSave, TypeOK, history
<1>10. ASSUME NEW p \in Procs, NEW c \in Ids, ToggleRead(p, c) \/ DeleteRead(p, c) PROVE TypeOK'
  <2> DEFINE s == IF status[c] = "active" THEN "paused" ELSE "active"
  <2>1. s \in Statuses
    BY DEF Statuses
  <2>2. /\ [NoLocals EXCEPT !.code = c, !.status = s] \in Locals
        /\ [NoLocals EXCEPT !.code = c] \in Locals
    BY <2>1, LocalsType, LocalsUpdate
  <2>3. req' \in [Procs -> Locals]
    BY <1>10, <2>2 DEF ToggleRead, DeleteRead, TypeOK
  <2> QED BY <1>10, <2>3 DEF ToggleRead, DeleteRead, Goto, TypeOK, table, history
<1>11. ASSUME NEW p \in Procs, ToggleSave(p) \/ DeleteSave(p) PROVE TypeOK'
  <2>1. req[p].code \in codes /\ (pc[p] = "toggle" => req[p].status \in Statuses)
    BY <1>11 DEF ToggleSave, DeleteSave, Requests, Locally
  <2> QED BY <1>11, <2>1, DoneType DEF ToggleSave, DeleteSave, TypeOK, history
<1>12. ASSUME NEW ids \in SUBSET codes, NEW s \in Statuses, BulkStatus(ids, s) PROVE TypeOK'
  BY <1>12 DEF BulkStatus, TypeOK, history
<1>13. ASSUME NEW ids \in SUBSET codes, BulkDelete(ids) PROVE TypeOK'
  BY <1>13 DEF BulkDelete, TypeOK, LiveCodes, history
<1>14. CASE UNCHANGED vars
  BY <1>14 DEF vars, table, history, TypeOK
<1> QED
  BY <1>1, <1>2, <1>3, <1>4, <1>5, <1>6, <1>7, <1>8, <1>9, <1>10, <1>11, <1>12, <1>13, <1>14
  DEF Next, Create, Update, ToggleOrDelete

-----------------------------------------------------------------------------
(* Requests *)

\* Rows and versions are only added, and a row keeps its short code.
LEMMA Grows ==
    ASSUME TypeOK, Requests, [Next]_vars
    PROVE  /\ versions \subseteq versions' /\ codes \subseteq codes'
           /\ deleted \subseteq deleted'
           /\ \A c \in codes : short'[c] = short[c]
<1>1. ASSUME NEW p \in Procs, Create(p)
      PROVE  /\ versions \subseteq versions' /\ codes \subseteq codes' /\ deleted \subseteq deleted'
             /\ \A c \in codes : short'[c] = short[c]
  BY <1>1 DEF Create, CreateCheck, CreateStatic, CreateFail, TryCode, CreateCommit, Insert,
              TypeOK, table, history
<1>2. ASSUME NEW p \in Procs, Update(p)
      PROVE  UNCHANGED <<codes, short, deleted>> /\ versions \subseteq versions'
  BY <1>2 DEF Update, UpdateRead, UpdateNumber, UpdateVersion, UpdateConflict, UpdateRefused,
              UpdateSave, table, history
<1>3. ASSUME NEW p \in Procs, ToggleOrDelete(p)
      PROVE  UNCHANGED <<codes, short, versions>> /\ deleted \subseteq deleted'
  BY <1>3 DEF ToggleOrDelete, ToggleRead, ToggleSave, DeleteRead, DeleteSave, table, history
<1>4. ASSUME NEW ids \in SUBSET codes, BulkDelete(ids) \/ \E s \in Statuses : BulkStatus(ids, s)
      PROVE  UNCHANGED <<codes, short, versions>> /\ deleted \subseteq deleted'
  BY <1>4 DEF BulkDelete, BulkStatus, history
<1>5. CASE UNCHANGED vars
  BY <1>5 DEF vars, table, history
<1> QED BY <1>1, <1>2, <1>3, <1>4, <1>5 DEF Next

\* A step is a request's, and leaves the locals of the others alone, or it is
\* nobody's and leaves all of them alone.
LEMMA OthersWait ==
    ASSUME TypeOK, [Next]_vars, NEW q \in Procs
    PROVE  \/ pc'[q] = pc[q] /\ req'[q] = req[q]
           \/ Create(q) \/ Update(q) \/ ToggleOrDelete(q)
<1>1. ASSUME NEW p \in Procs, p # q, Create(p) PROVE pc'[q] = pc[q] /\ req'[q] = req[q]
  BY <1>1 DEF Create, CreateCheck, CreateStatic, CreateFail, TryCode, CreateCommit,
              Goto, Done, TypeOK
<1>2. ASSUME NEW p \in Procs, p # q, Update(p) PROVE pc'[q] = pc[q] /\ req'[q] = req[q]
  BY <1>2 DEF Update, UpdateRead, UpdateNumber, UpdateVersion, UpdateConflict, UpdateRefused,
              UpdateSave, Goto, Done, TypeOK
<1>3. ASSUME NEW p \in Procs, p # q, ToggleOrDelete(p) PROVE pc'[q] = pc[q] /\ req'[q] = req[q]
  BY <1>3 DEF ToggleOrDelete, ToggleRead, ToggleSave, DeleteRead, DeleteSave, Goto, Done, TypeOK
<1>4. ASSUME NEW ids \in SUBSET codes, BulkDelete(ids) \/ \E s \in Statuses : BulkStatus(ids, s)
      PROVE  pc'[q] = pc[q] /\ req'[q] = req[q]
  BY <1>4 DEF BulkDelete, BulkStatus
<1>5. CASE UNCHANGED vars
  BY <1>5 DEF vars
<1> QED BY <1>1, <1>2, <1>3, <1>4, <1>5 DEF Next

\* The numbers of a code only grow.
LEMMA NumbersGrow ==
    ASSUME versions \subseteq versions', NEW c
    PROVE  Numbers(c) \subseteq Numbers(c)'
  BY DEF Numbers, VersionsOf

LEMMA InitRequests == Init => Requests
  BY DEF Init, Requests, Locally, Editing

LEMMA NextRequests == TypeOK /\ Requests /\ [Next]_vars => Requests'
<1> SUFFICES ASSUME TypeOK, Requests, [Next]_vars, NEW q \in Procs PROVE Locally(q)'
  BY DEF Requests
<1>0. PICK row, no : row = req[q].code /\ no = req[q].no
  OBVIOUS
<1>1. /\ codes \subseteq codes'
      /\ \A c \in codes : short'[c] = short[c]
      /\ \A n : n \in Numbers(row) => n \in Numbers(row)'
  BY Grows, NumbersGrow
<1>2. Locally(q) /\ req[q] \in Locals
  BY DEF Requests, TypeOK
<1>4. CASE pc'[q] = pc[q] /\ req'[q] = req[q]
  BY <1>0, <1>1, <1>2, <1>4 DEF Locally, Dynamic, Editing
<1>5. CASE Done(q)
  BY <1>5 DEF Done, Locally, TypeOK, Editing
<1>6. ASSUME CreateCheck(q) PROVE Locally(q)'
  BY <1>6 DEF CreateCheck, Goto, Locally, TypeOK, Editing
<1>7. ASSUME NEW s \in Shorts, TryCode(q, s) PROVE Locally(q)'
  BY <1>2, <1>7 DEF TryCode, Goto, Locally, TypeOK, Editing, Locals
<1>8. ASSUME NEW c \in Ids, NEW d \in Dests \cup {None}, NEW s \in Statuses \cup {"keep"},
             UpdateRead(q, c, d, s) PROVE Locally(q)'
  <2>1. req'[q] = [NoLocals EXCEPT !.code = c, !.dest = d, !.status = s]
    BY <1>8 DEF UpdateRead, TypeOK
  <2>2. req'[q].code = c /\ req'[q].dest = d /\ req'[q].no = 0
    BY <2>1 DEF NoLocals
  <2>3. pc'[q] = IF Dynamic(c) /\ d \notin {None, destination(c)} THEN "number" ELSE "save"
    BY <1>8 DEF UpdateRead, Goto, TypeOK
  <2> QED BY <1>8, <2>2, <2>3 DEF UpdateRead, Locally, Dynamic, LiveCodes, Editing, table
<1>9. ASSUME UpdateNumber(q) PROVE Locally(q)'
  <2>1. PICK n \in Numbers(row) : req'[q] = [req[q] EXCEPT !.no = n + 1]
    BY <1>0, <1>9 DEF UpdateNumber, TypeOK
  <2>2. req'[q].code = row /\ req'[q].dest = req[q].dest /\ req'[q].no = n + 1
    BY <1>0, <1>2, <2>1 DEF Locals
  <2>3. row \in codes /\ Dynamic(row) /\ req[q].dest \in Dests
    BY <1>0, <1>2, <1>9 DEF UpdateNumber, Locally, Editing
  <2>4. n \in Numbers(row)' /\ Dynamic(row)' /\ pc'[q] = "version"
    BY <1>1, <1>9, <2>3 DEF UpdateNumber, Goto, TypeOK, Dynamic, table
  <2> QED BY <1>1, <2>2, <2>3, <2>4 DEF Locally
<1>10. ASSUME UpdateVersion(q) PROVE Locally(q)'
  <2> DEFINE v == [code |-> row, no |-> no, dest |-> req[q].dest]
  <2>1. v \in versions' /\ v.code = row /\ v.no = no
    BY <1>0, <1>10 DEF UpdateVersion
  <2>2. no \in Numbers(row)'
    BY <2>1 DEF Numbers, VersionsOf
  <2>3. row \in codes /\ Dynamic(row)
    BY <1>0, <1>2, <1>10 DEF UpdateVersion, Locally, Editing
  <2>4. Dynamic(row)' /\ pc'[q] = "save" /\ req'[q] = req[q]
    BY <1>10, <2>3 DEF UpdateVersion, Goto, TypeOK, Dynamic, table
  <2> QED BY <1>0, <1>1, <2>2, <2>3, <2>4 DEF Locally
<1>11. ASSUME NEW c \in Ids, ToggleRead(q, c) PROVE Locally(q)'
  <2>1. req'[q].code = c /\ req'[q].status \in Statuses /\ pc'[q] = "toggle" /\ c \in codes
    BY <1>11 DEF ToggleRead, Goto, TypeOK, NoLocals, Statuses, LiveCodes
  <2> QED BY <1>1, <2>1 DEF Locally
<1>12. ASSUME NEW c \in Ids, DeleteRead(q, c) PROVE Locally(q)'
  <2>1. req'[q].code = c /\ pc'[q] = "delete" /\ c \in codes
    BY <1>12 DEF DeleteRead, Goto, TypeOK, NoLocals, LiveCodes
  <2> QED BY <1>1, <2>1 DEF Locally
<1>13. CASE Create(q)
  BY <1>5, <1>6, <1>7, <1>13 DEF Create, CreateStatic, CreateFail, CreateCommit
<1>14. CASE Update(q)
  BY <1>5, <1>8, <1>9, <1>10, <1>14 DEF Update, UpdateConflict, UpdateRefused, UpdateSave
<1>15. CASE ToggleOrDelete(q)
  BY <1>5, <1>11, <1>12, <1>15 DEF ToggleOrDelete, ToggleSave, DeleteSave
<1> QED BY <1>4, <1>13, <1>14, <1>15, OthersWait

-----------------------------------------------------------------------------
(* Versions *)

\* A new version changes the versions and the numbers of its own code only.
LEMMA AddVersion ==
    ASSUME VersionsHaveRows, NEW v, v \notin versions, versions' = versions \cup {v},
           NEW c
    PROVE  /\ IsFiniteSet(versions')
           /\ IF c = v.code
              THEN /\ Numbers(c)' = Numbers(c) \cup {v.no}
                   /\ Cardinality(VersionsOf(c)') = Cardinality(VersionsOf(c)) + 1
              ELSE Numbers(c)' = Numbers(c) /\ VersionsOf(c)' = VersionsOf(c)
<1>1. IsFiniteSet(versions')
  BY FS_AddElement DEF VersionsHaveRows
<1>2. CASE c = v.code
  <2>1. VersionsOf(c)' = VersionsOf(c) \cup {v} /\ v \notin VersionsOf(c)
    BY <1>2 DEF VersionsOf
  <2>2. IsFiniteSet(VersionsOf(c))
    BY FS_Subset DEF VersionsHaveRows, VersionsOf
  <2>3. Cardinality(VersionsOf(c) \cup {v}) = Cardinality(VersionsOf(c)) + 1
    BY <2>1, <2>2, FS_AddElement
  <2>4. Numbers(c)' = Numbers(c) \cup {v.no}
    BY <2>1 DEF Numbers
  <2> QED BY <1>1, <1>2, <2>1, <2>3, <2>4
<1>3. CASE c # v.code
  <2>1. VersionsOf(c)' = VersionsOf(c)
    BY <1>3 DEF VersionsOf
  <2> QED BY <1>1, <1>3, <2>1 DEF Numbers
<1> QED BY <1>2, <1>3

\* The versions of a code are finitely many.
LEMMA CountType ==
    ASSUME VersionsHaveRows, NEW c
    PROVE  Cardinality(VersionsOf(c)) \in Nat
<1>1. IsFiniteSet(VersionsOf(c))
  BY FS_Subset DEF VersionsHaveRows, VersionsOf
<1> QED BY <1>1, FS_CardinalityType

\* What the creation of a row adds to the table.
LEMMA Inserted ==
    ASSUME TypeOK, NEW id, NEW code, NEW no, id \in Ids, Insert(id, code, no)
    PROVE  /\ id \notin codes /\ codes' = codes \cup {id}
           /\ short'[id] = code /\ current'[id] = no
           /\ \A c \in codes : short'[c] = short[c] /\ current'[c] = current[c]
  BY DEF Insert, TypeOK

LEMMA InitVersioning == Init => Versioning
  BY FS_EmptySet
  DEF Init, Versioning, VersionsHaveRows, VersionsAreNumbered, CurrentIsOwnVersion

LEMMA NextVersioning == TypeOK /\ Requests /\ Versioning /\ [Next]_vars => Versioning'
<1> SUFFICES ASSUME TypeOK, Requests, Versioning, [Next]_vars PROVE Versioning'
  OBVIOUS
<1> USE DEF Versioning
<1>1. ASSUME UNCHANGED <<codes, short, versions>>,
             \A c \in codes : Dynamic(c) => current'[c] \in Numbers(c)
      PROVE  Versioning'
  BY <1>1 DEF VersionsHaveRows, VersionsAreNumbered, CurrentIsOwnVersion, Dynamic,
              Numbers, VersionsOf
<1>2. ASSUME UNCHANGED <<codes, short, current, versions>> PROVE Versioning'
  BY <1>1, <1>2 DEF CurrentIsOwnVersion
<1>3. \A c : c \notin codes => VersionsOf(c) = {} /\ Numbers(c) = {}
  BY DEF VersionsHaveRows, VersionsOf, Numbers
<1>4. ASSUME NEW p \in Procs, CreateStatic(p) PROVE Versioning'
  <2>1. PICK id \in Ids : Insert(id, None, 0) /\ versions' = versions
    BY <1>4 DEF CreateStatic, history
  <2>2. \A c \in codes' : Numbers(c)' = Numbers(c) /\ VersionsOf(c)' = VersionsOf(c)
    BY <2>1 DEF Numbers, VersionsOf
  <2>3. \A c \in codes : Dynamic(c)' = Dynamic(c) /\ current'[c] = current[c]
    BY <2>1, Inserted DEF Dynamic
  <2>4. id \notin codes /\ codes' = codes \cup {id} /\ ~Dynamic(id)'
    BY <2>1, Inserted DEF Dynamic
  <2>5. VersionsHaveRows'
    BY <2>1, <2>4 DEF VersionsHaveRows
  <2>6. VersionsAreNumbered'
    BY <1>3, <2>2, <2>3, <2>4 DEF VersionsAreNumbered
  <2>7. CurrentIsOwnVersion'
    BY <2>2, <2>3, <2>4 DEF CurrentIsOwnVersion
  <2> QED BY <2>5, <2>6, <2>7
<1>5. ASSUME NEW p \in Procs, NEW d \in Dests, CreateCommit(p, d) PROVE Versioning'
  <2> DEFINE V(id) == [code |-> id, no |-> 1, dest |-> d]
  <2>1. PICK id \in Ids, code \in Shorts :
           Insert(id, code, 1) /\ versions' = versions \cup {V(id)}
    BY <1>5 DEF CreateCommit, Requests, Locally
  <2>2. PICK v : v = V(id)
    OBVIOUS
  <2>3. v.code = id /\ v.no = 1 /\ versions' = versions \cup {v}
    BY <2>1, <2>2
  <2>4. /\ id \notin codes /\ codes' = codes \cup {id} /\ current'[id] = 1
        /\ \A c \in codes : Dynamic(c)' = Dynamic(c) /\ current'[c] = current[c]
    BY <2>1, Inserted DEF Dynamic
  <2>5. Dynamic(id)'
    BY <2>1, Inserted, DashboardAssumption DEF Dynamic
  <2>6. v \notin versions
    BY <2>3, <2>4 DEF VersionsHaveRows
  <2>7. \A c \in codes : Numbers(c)' = Numbers(c) /\ VersionsOf(c)' = VersionsOf(c)
    BY <2>3, <2>4, <2>6, AddVersion
  <2>8. IsFiniteSet(versions') /\ Numbers(id)' = {1} /\ Cardinality(VersionsOf(id)') = 1
    <3>1. /\ IsFiniteSet(versions')
          /\ Numbers(id)' = Numbers(id) \cup {v.no}
          /\ Cardinality(VersionsOf(id)') = Cardinality(VersionsOf(id)) + 1
      BY <2>3, <2>6, AddVersion
    <3>2. Numbers(id) = {} /\ Cardinality(VersionsOf(id)) = 0
      BY <1>3, <2>4, FS_EmptySet
    <3> QED BY <2>3, <3>1, <3>2
  <2>9. VersionsHaveRows'
    BY <2>3, <2>4, <2>8 DEF VersionsHaveRows
  <2>10. 1 .. 1 = {1}
    OBVIOUS
  <2>11. VersionsAreNumbered'
    BY <2>4, <2>5, <2>7, <2>8, <2>10 DEF VersionsAreNumbered
  <2>12. CurrentIsOwnVersion'
    BY <2>4, <2>7, <2>8 DEF CurrentIsOwnVersion
  <2> QED BY <2>9, <2>11, <2>12
<1>6. ASSUME NEW p \in Procs, UpdateVersion(p) PROVE Versioning'
  <2>1. PICK v : v = [code |-> req[p].code, no |-> req[p].no, dest |-> req[p].dest]
    OBVIOUS
  <2>2. /\ v.code \in codes /\ Dynamic(v.code) /\ v.no \notin Numbers(v.code)
        /\ \E n \in Numbers(v.code) : v.no = n + 1
        /\ versions' = versions \cup {v} /\ UNCHANGED <<codes, short, current>>
    BY <1>6, <2>1 DEF UpdateVersion, Requests, Locally, Editing, table
  <2>3. v \notin versions
    BY <2>2 DEF Numbers, VersionsOf
  <2>4. /\ \A c \in codes : c # v.code =>
               Numbers(c)' = Numbers(c) /\ VersionsOf(c)' = VersionsOf(c)
        /\ IsFiniteSet(versions')
        /\ Numbers(v.code)' = Numbers(v.code) \cup {v.no}
        /\ Cardinality(VersionsOf(v.code)') = Cardinality(VersionsOf(v.code)) + 1
    BY <2>2, <2>3, AddVersion
  <2> DEFINE k == Cardinality(VersionsOf(v.code))
  <2>5. k \in Nat /\ Numbers(v.code) = 1 .. k
    BY <2>2, CountType DEF VersionsAreNumbered
  <2>6. Numbers(v.code)' = 1 .. (k + 1)
    BY <2>2, <2>4, <2>5
  <2>7. VersionsHaveRows'
    BY <2>2, <2>4 DEF VersionsHaveRows
  <2>8. \A c \in codes : Dynamic(c)' = Dynamic(c)
    BY <2>2 DEF Dynamic
  <2>9. VersionsAreNumbered'
    BY <2>2, <2>4, <2>6, <2>8 DEF VersionsAreNumbered
  <2>10. CurrentIsOwnVersion'
    BY <2>2, <2>4, <2>8 DEF CurrentIsOwnVersion
  <2> QED BY <2>7, <2>9, <2>10
<1>7. ASSUME NEW p \in Procs, UpdateSave(p) PROVE Versioning'
  <2>1. UNCHANGED <<codes, short, versions>>
    BY <1>7 DEF UpdateSave, history
  <2>2. \A c \in codes : Dynamic(c) => current'[c] \in Numbers(c)
    BY <1>7 DEF UpdateSave, Requests, Locally, CurrentIsOwnVersion, TypeOK
  <2> QED BY <1>1, <2>1, <2>2
<1>8. ASSUME NEW p \in Procs,
             \/ CreateCheck(p) \/ CreateFail(p) \/ \E s \in Shorts : TryCode(p, s)
             \/ \E c \in Ids, d \in Dests \cup {None}, s \in Statuses \cup {"keep"} :
                   UpdateRead(p, c, d, s)
             \/ UpdateNumber(p) \/ UpdateConflict(p) \/ UpdateRefused(p)
             \/ ToggleOrDelete(p)
      PROVE  Versioning'
  BY <1>2, <1>8 DEF CreateCheck, CreateFail, TryCode, UpdateRead, UpdateNumber,
     UpdateConflict, UpdateRefused, ToggleOrDelete, ToggleRead, ToggleSave, DeleteRead,
     DeleteSave, table, history
<1>9. ASSUME NEW ids \in SUBSET codes, BulkDelete(ids) \/ \E s \in Statuses : BulkStatus(ids, s)
      PROVE  Versioning'
  BY <1>2, <1>9 DEF BulkDelete, BulkStatus, history
<1>10. CASE UNCHANGED vars
  BY <1>2, <1>10 DEF vars, table, history
<1> QED BY <1>4, <1>5, <1>6, <1>7, <1>8, <1>9, <1>10 DEF Next, Create, Update

-----------------------------------------------------------------------------
(* Refusals *)

\* What is left of the invariant when no row, number or refusal changes.
LEMMA RefusalsKept ==
    ASSUME Refusals, UNCHANGED <<codes, current, refused>>,
           \A p \in Procs, c \in Ids, n \in Nat : Saving(p, c, n)' => Saving(p, c, n)
    PROVE  Refusals'
  BY DEF Refusals, SavingIsAlone, RefusedEditServesNothing

LEMMA InitRefusals == Init => Refusals
  BY DEF Init, Refusals, SavingIsAlone, RefusedEditServesNothing, Saving

LEMMA NextRefusals ==
    TypeOK /\ Requests /\ Versioning /\ Refusals /\ [Next]_vars => Refusals'
<1> SUFFICES ASSUME TypeOK, Requests, Versioning, Refusals, [Next]_vars PROVE Refusals'
  OBVIOUS
<1>1. \A p \in Procs, c \in Ids, n \in Nat :
         Saving(p, c, n) => c \in codes /\ n \in Numbers(c)
  BY DEF Saving, Requests, Locally, Editing
<1>2. \A v \in refused : v.code \in codes /\ v.code \in Ids /\ v.no \in Numbers(v.code)
  BY DEF TypeOK, Versioning, VersionsHaveRows, Numbers, VersionsOf
<1>3. ASSUME NEW p \in Procs, Done(p), NEW q \in Procs, NEW c \in Ids, NEW n \in Nat,
             Saving(q, c, n)'
      PROVE  q # p /\ Saving(q, c, n)
  BY <1>3 DEF Done, Saving, TypeOK
<1>4. ASSUME NEW p \in Procs, NEW id \in Ids, NEW code, NEW no,
             Insert(id, code, no), Done(p), refused' = refused
      PROVE  Refusals'
  <2>1. /\ id \notin codes /\ codes' = codes \cup {id}
        /\ \A c \in codes : current'[c] = current[c]
    BY <1>4, Inserted
  <2>2. SavingIsAlone'
    BY <1>1, <1>3, <1>4, <2>1 DEF Refusals, SavingIsAlone
  <2>3. RefusedEditServesNothing'
    BY <1>2, <1>4, <2>1 DEF Refusals, RefusedEditServesNothing
  <2> QED BY <2>2, <2>3 DEF Refusals
<1>5. ASSUME NEW p \in Procs, CreateStatic(p) PROVE Refusals'
  BY <1>4, <1>5 DEF CreateStatic, history
<1>6. ASSUME NEW p \in Procs, NEW d \in Dests, CreateCommit(p, d) PROVE Refusals'
  BY <1>4, <1>6 DEF CreateCommit
<1>7. ASSUME NEW p \in Procs, UpdateVersion(p) PROVE Refusals'
  <2>1. PICK row, no : row = req[p].code /\ no = req[p].no
    OBVIOUS
  <2>2. /\ row \in codes /\ Dynamic(row) /\ no \notin Numbers(row)
        /\ UNCHANGED <<codes, current, refused, req>>
        /\ pc' = [pc EXCEPT ![p] = "save"] /\ pc[p] = "version"
    BY <1>7, <2>1 DEF UpdateVersion, Requests, Locally, Editing, Goto, table
  <2>3. \A q \in Procs, c \in Ids, n \in Nat :
           Saving(q, c, n)' => Saving(q, c, n) \/ (q = p /\ c = row /\ n = no)
    BY <2>1, <2>2 DEF Saving, TypeOK
  <2>4. current[row] # no
    BY <2>2 DEF Versioning, CurrentIsOwnVersion
  <2>5. \A v \in refused : ~(v.code = row /\ v.no = no)
    BY <1>2, <2>2
  <2>6. \A q \in Procs, c \in Ids, n \in Nat : Saving(q, c, n) => ~(c = row /\ n = no)
    BY <1>1, <2>2
  <2>7. SavingIsAlone'
    BY <2>2, <2>3, <2>4, <2>5, <2>6 DEF Refusals, SavingIsAlone
  <2>8. RefusedEditServesNothing'
    BY <2>2 DEF Refusals, RefusedEditServesNothing
  <2> QED BY <2>7, <2>8 DEF Refusals
<1>8. ASSUME NEW p \in Procs, UpdateRefused(p) PROVE Refusals'
  <2>1. PICK row, no : row = req[p].code /\ no = req[p].no
    OBVIOUS
  <2>2. /\ pc[p] = "save" /\ row \in Ids /\ no \in Nat /\ Done(p)
        /\ UNCHANGED <<codes, current>>
    BY <1>8, <2>1, LocalsType DEF UpdateRefused, Requests, Locally, Editing, TypeOK, table
  <2>3. \A v \in refused' : v \in refused \/ (v.code = row /\ v.no = no /\ v \in versions)
    BY <1>8, <2>1 DEF UpdateRefused
  <2>4. \A v \in versions : v.no # 0
    BY DEF TypeOK, Version
  <2>5. no # 0 => Saving(p, row, no)
    BY <2>1, <2>2 DEF Saving
  <2>6. ASSUME NEW q \in Procs, NEW c \in Ids, NEW n \in Nat, Saving(q, c, n)'
        PROVE  Saving(q, c, n) /\ ~(c = row /\ n = no)
    <3>1. Saving(q, c, n) /\ q # p /\ n # 0
      BY <1>3, <2>2, <2>6 DEF Saving
    <3> QED BY <2>2, <2>5, <3>1 DEF Refusals, SavingIsAlone
  <2>7. SavingIsAlone'
    BY <2>2, <2>3, <2>6 DEF Refusals, SavingIsAlone
  <2>8. no # 0 => current[row] # no
    BY <2>2, <2>5 DEF Refusals, SavingIsAlone
  <2>9. RefusedEditServesNothing'
    BY <2>2, <2>3, <2>4, <2>8 DEF Refusals, RefusedEditServesNothing
  <2> QED BY <2>7, <2>9 DEF Refusals
<1>9. ASSUME NEW p \in Procs, UpdateSave(p) PROVE Refusals'
  <2>1. PICK row, no : row = req[p].code /\ no = req[p].no
    OBVIOUS
  <2>2. /\ pc[p] = "save" /\ row \in Ids /\ no \in Nat /\ Done(p)
        /\ UNCHANGED <<codes, refused>>
        /\ current' = IF no = 0 THEN current ELSE [current EXCEPT ![row] = no]
    BY <1>9, <2>1, LocalsType DEF UpdateSave, Requests, Locally, Editing, TypeOK, history
  <2>3. no # 0 => Saving(p, row, no)
    BY <2>1, <2>2 DEF Saving
  <2>4. \A c \in Ids : current'[c] = current[c] \/ (c = row /\ current'[c] = no /\ no # 0)
    BY <2>2 DEF TypeOK
  <2>5. ASSUME NEW q \in Procs, NEW c \in Ids, NEW n \in Nat, Saving(q, c, n)'
        PROVE  Saving(q, c, n) /\ ~(c = row /\ n = no)
    <3>1. Saving(q, c, n) /\ q # p /\ n # 0
      BY <1>3, <2>2, <2>5 DEF Saving
    <3> QED BY <2>2, <2>3, <3>1 DEF Refusals, SavingIsAlone
  <2>6. SavingIsAlone'
    BY <2>2, <2>4, <2>5 DEF Refusals, SavingIsAlone
  <2>7. no # 0 => \A v \in refused : ~(v.code = row /\ v.no = no)
    BY <2>2, <2>3 DEF Refusals, SavingIsAlone
  <2>8. RefusedEditServesNothing'
    BY <2>2, <2>4, <2>7 DEF Refusals, RefusedEditServesNothing, TypeOK
  <2> QED BY <2>6, <2>8 DEF Refusals
<1>10. ASSUME NEW p \in Procs, NEW c \in Ids, NEW d \in Dests \cup {None},
              NEW s \in Statuses \cup {"keep"}, UpdateRead(p, c, d, s)
       PROVE  Refusals'
  <2>1. req' = [req EXCEPT ![p] = [NoLocals EXCEPT !.code = c, !.dest = d, !.status = s]]
    BY <1>10 DEF UpdateRead
  <2>2. req'[p].no = 0 /\ \A q \in Procs : q # p => req'[q] = req[q]
    BY <2>1 DEF NoLocals, TypeOK
  <2>3. UNCHANGED <<codes, current, refused>> /\ \A q \in Procs : q # p => pc'[q] = pc[q]
    BY <1>10 DEF UpdateRead, Goto, TypeOK, table, history
  <2> QED BY <2>2, <2>3, RefusalsKept DEF Saving
<1>11. ASSUME NEW p \in Procs,
              \/ CreateCheck(p) \/ UpdateNumber(p) \/ \E s \in Shorts : TryCode(p, s)
              \/ \E c \in Ids : ToggleRead(p, c) \/ DeleteRead(p, c)
       PROVE  Refusals'
  <2>1. /\ UNCHANGED <<codes, current, refused>>
        /\ pc'[p] # "save" /\ \A q \in Procs : q # p => pc'[q] = pc[q] /\ req'[q] = req[q]
    BY <1>11 DEF CreateCheck, UpdateNumber, TryCode, ToggleRead, DeleteRead, Goto, TypeOK,
                 table, history
  <2> QED BY <2>1, RefusalsKept DEF Saving
<1>12. ASSUME NEW p \in Procs,
              CreateFail(p) \/ UpdateConflict(p) \/ ToggleSave(p) \/ DeleteSave(p)
       PROVE  Refusals'
  <2>1. UNCHANGED <<codes, current, refused>> /\ Done(p)
    BY <1>12 DEF CreateFail, UpdateConflict, ToggleSave, DeleteSave, table, history
  <2> QED BY <1>3, <2>1, RefusalsKept
<1>13. ASSUME NEW ids \in SUBSET codes, BulkDelete(ids) \/ \E s \in Statuses : BulkStatus(ids, s)
       PROVE  Refusals'
  BY <1>13, RefusalsKept DEF BulkDelete, BulkStatus, history, Saving
<1>14. CASE UNCHANGED vars
  BY <1>14, RefusalsKept DEF vars, table, history, Saving
<1> QED BY <1>5, <1>6, <1>7, <1>8, <1>9, <1>10, <1>11, <1>12, <1>13, <1>14
        DEF Next, Create, Update, ToggleOrDelete

-----------------------------------------------------------------------------
(* Short codes *)

\* A step that adds no row and gives no request a short code keeps the names.
LEMMA NamesKept ==
    ASSUME Names, UNCHANGED <<codes, short>>,
           \A p \in Procs : req'[p].short \in {None, req[p].short}
    PROVE  Names'
  BY DEF Names, ShortCodesAreUnique, HeldByOne, Taken, Dynamic

LEMMA InitNames == Init => Names
  BY DEF Init, Names, ShortCodesAreUnique, HeldByOne, NoLocals

LEMMA NextNames == TypeOK /\ Requests /\ Names /\ [Next]_vars => Names'
<1> SUFFICES ASSUME TypeOK, Requests, Names, [Next]_vars PROVE Names'
  OBVIOUS
<1>1. ASSUME NEW p \in Procs, Done(p)
      PROVE  req'[p].short = None /\ \A q \in Procs : q # p => req'[q] = req[q]
  BY <1>1 DEF Done, TypeOK, NoLocals
<1>2. ASSUME NEW p \in Procs, Done(p), UNCHANGED <<codes, short>> PROVE Names'
  BY <1>1, <1>2, NamesKept
<1>3. ASSUME NEW p \in Procs, CreateStatic(p) PROVE Names'
  <2>1. PICK id \in Ids : Insert(id, None, 0)
    BY <1>3 DEF CreateStatic
  <2>2. /\ id \notin codes /\ codes' = codes \cup {id} /\ short'[id] = None
        /\ \A c \in codes : short'[c] = short[c]
    BY <2>1, Inserted
  <2>3. req'[p].short = None /\ \A q \in Procs : q # p => req'[q] = req[q]
    BY <1>1, <1>3 DEF CreateStatic
  <2>4. ShortCodesAreUnique'
    BY <2>2, <2>3 DEF Names, ShortCodesAreUnique, Taken, Dynamic
  <2>5. HeldByOne'
    BY <2>3 DEF Names, HeldByOne
  <2> QED BY <2>4, <2>5 DEF Names
<1>4. ASSUME NEW p \in Procs, NEW d \in Dests, CreateCommit(p, d) PROVE Names'
  <2>1. PICK id \in Ids, s \in Shorts : s = req[p].short /\ Insert(id, s, 1)
    BY <1>4 DEF CreateCommit, Requests, Locally
  <2>2. /\ id \notin codes /\ codes' = codes \cup {id} /\ short'[id] = s
        /\ \A c \in codes : short'[c] = short[c]
    BY <2>1, Inserted
  <2>3. req'[p].short = None /\ \A q \in Procs : q # p => req'[q] = req[q]
    BY <1>1, <1>4 DEF CreateCommit
  <2>4. s # None /\ \A c \in codes : short[c] # s
    BY <2>1, DashboardAssumption DEF Names, ShortCodesAreUnique, Taken
  <2>5. \A q \in Procs : q # p => req[q].short # s
    BY <2>1, <2>4 DEF Names, HeldByOne
  <2>6. \A c, e \in codes' : Dynamic(c)' /\ short'[c] = short'[e] => c = e
    BY <2>2, <2>4 DEF Names, ShortCodesAreUnique, Dynamic
  <2>7. \A q \in Procs : req'[q].short # None => ~Taken(req[q].short)' /\ req'[q] = req[q]
    BY <2>2, <2>3, <2>5 DEF Names, ShortCodesAreUnique, Taken
  <2>8. ShortCodesAreUnique'
    BY <2>6, <2>7 DEF ShortCodesAreUnique, Taken
  <2>9. HeldByOne'
    BY <2>3 DEF Names, HeldByOne
  <2> QED BY <2>8, <2>9 DEF Names
<1>5. ASSUME NEW p \in Procs, NEW s \in Shorts, TryCode(p, s) PROVE Names'
  <2>1. req[p] \in Locals /\ UNCHANGED <<codes, short>> /\ ~Held(s)
    BY <1>5 DEF TryCode, TypeOK, table
  <2>2. CASE req' = [req EXCEPT ![p].tries = @ + 1]
    <3>1. req'[p].short = req[p].short /\ \A q \in Procs : q # p => req'[q] = req[q]
      BY <2>1, <2>2 DEF Locals, TypeOK
    <3> QED BY <2>1, <3>1, NamesKept
  <2>3. CASE ~Taken(s) /\ req' = [req EXCEPT ![p].short = s]
    <3>1. req'[p].short = s /\ \A q \in Procs : q # p => req'[q] = req[q]
      BY <2>1, <2>3 DEF Locals, TypeOK
    <3>2. \A q \in Procs : req[q].short # s
      BY <2>1 DEF Held
    <3>3. ShortCodesAreUnique'
      BY <2>1, <2>3, <3>1 DEF Names, ShortCodesAreUnique, Taken, Dynamic
    <3>4. HeldByOne'
      BY <3>1, <3>2 DEF Names, HeldByOne
    <3> QED BY <3>3, <3>4 DEF Names
  <2> QED BY <1>5, <2>2, <2>3 DEF TryCode
<1>6. ASSUME NEW p \in Procs, Update(p) \/ ToggleOrDelete(p) PROVE Names'
  <2>1. UNCHANGED <<codes, short>>
    BY <1>6 DEF Update, UpdateRead, UpdateNumber, UpdateVersion, UpdateConflict,
       UpdateRefused, UpdateSave, ToggleOrDelete, ToggleRead, ToggleSave, DeleteRead,
       DeleteSave, table
  <2>2. CASE Done(p)
    BY <1>2, <2>1, <2>2
  <2>3. ASSUME NEW n, req' = [req EXCEPT ![p].no = n] PROVE Names'
    <3>1. req[p] \in Locals
      BY DEF TypeOK
    <3>2. req'[p].short = req[p].short /\ \A q \in Procs : q # p => req'[q] = req[q]
      BY <2>3, <3>1 DEF Locals, TypeOK
    <3> QED BY <2>1, <3>2, NamesKept
  <2>4. CASE UpdateNumber(p)
    BY <2>3, <2>4 DEF UpdateNumber
  <2>5. CASE UpdateVersion(p)
    BY <2>1, <2>5, NamesKept DEF UpdateVersion
  <2>6. ASSUME NEW c \in Ids, NEW d \in Dests \cup {None}, NEW s \in Statuses \cup {"keep"},
               UpdateRead(p, c, d, s)
        PROVE  Names'
    <3>1. req' = [req EXCEPT ![p] = [NoLocals EXCEPT !.code = c, !.dest = d, !.status = s]]
      BY <2>6 DEF UpdateRead
    <3>2. req'[p].short = None /\ \A q \in Procs : q # p => req'[q] = req[q]
      BY <3>1 DEF TypeOK, NoLocals
    <3> QED BY <2>1, <3>2, NamesKept
  <2>7. ASSUME NEW c \in Ids, ToggleRead(p, c) \/ DeleteRead(p, c) PROVE Names'
    <3>1. req'[p].short = None /\ \A q \in Procs : q # p => req'[q] = req[q]
      BY <2>7 DEF ToggleRead, DeleteRead, TypeOK, NoLocals
    <3> QED BY <2>1, <3>1, NamesKept
  <2> QED BY <1>6, <2>2, <2>4, <2>5, <2>6, <2>7
          DEF Update, UpdateConflict, UpdateRefused, UpdateSave, ToggleOrDelete,
              ToggleSave, DeleteSave
<1>7. ASSUME NEW p \in Procs, CreateCheck(p) \/ CreateFail(p) PROVE Names'
  BY <1>2, <1>7, NamesKept DEF CreateCheck, CreateFail, table
<1>8. ASSUME NEW ids \in SUBSET codes, BulkDelete(ids) \/ \E s \in Statuses : BulkStatus(ids, s)
      PROVE  Names'
  BY <1>8, NamesKept DEF BulkDelete, BulkStatus
<1>9. CASE UNCHANGED vars
  BY <1>9, NamesKept DEF vars, table
<1> QED BY <1>3, <1>4, <1>5, <1>6, <1>7, <1>8, <1>9 DEF Next, Create

-----------------------------------------------------------------------------
(* The quota *)

Creators == {p \in Procs : pc[p] \in Creating}

LEMMA Finite ==
    ASSUME TypeOK
    PROVE  /\ IsFiniteSet(LiveCodes) /\ Cardinality(LiveCodes) \in Nat
           /\ IsFiniteSet(Creators) /\ Cardinality(Creators) \in Nat
           /\ Cardinality(Creators) <= Cardinality(Procs) /\ Cardinality(Procs) \in Nat
<1>1. IsFiniteSet(Ids) /\ LiveCodes \subseteq Ids
  BY DashboardAssumption, FS_Interval DEF Ids, LiveCodes, TypeOK
<1>2. IsFiniteSet(Procs) /\ Creators \subseteq Procs
  BY DashboardAssumption DEF Creators
<1>3. IsFiniteSet(LiveCodes) /\ IsFiniteSet(Creators)
  BY <1>1, <1>2, FS_Subset
<1>4. Cardinality(Creators) <= Cardinality(Procs)
  BY <1>2, FS_Subset
<1> QED BY <1>2, <1>3, <1>4, FS_CardinalityType

\* Fewer live codes and fewer creations keep the bound.
LEMMA QuotaKept ==
    ASSUME TypeOK, QuotaOvershoot, LiveCodes' \subseteq LiveCodes, Creators' \subseteq Creators
    PROVE  QuotaOvershoot'
<1>1. /\ Cardinality(LiveCodes') \in Nat /\ Cardinality(Creators') \in Nat
      /\ Cardinality(LiveCodes') <= Cardinality(LiveCodes)
      /\ Cardinality(Creators') <= Cardinality(Creators)
  BY Finite, FS_Subset, FS_CardinalityType
<1> QED BY <1>1, Finite, DashboardAssumption DEF QuotaOvershoot, Creators

LEMMA InitQuota == TypeOK /\ Init => QuotaOvershoot
<1> SUFFICES ASSUME TypeOK, Init PROVE QuotaOvershoot
  OBVIOUS
<1>1. LiveCodes = {} /\ Creators = {}
  BY DEF Init, LiveCodes, Creators, Creating
<1>2. Cardinality(LiveCodes) = 0 /\ Cardinality(Creators) = 0
  BY <1>1, FS_EmptySet
<1> QED BY <1>2, Finite, DashboardAssumption DEF QuotaOvershoot, Creators

LEMMA NextQuota == TypeOK /\ TypeOK' /\ QuotaOvershoot /\ [Next]_vars => QuotaOvershoot'
<1> SUFFICES ASSUME TypeOK, TypeOK', QuotaOvershoot, [Next]_vars PROVE QuotaOvershoot'
  OBVIOUS
<1>1. ASSUME NEW p \in Procs, CreateCheck(p) PROVE QuotaOvershoot'
  <2>1. LiveCodes' = LiveCodes /\ Cardinality(LiveCodes) < Limit
    BY <1>1 DEF CreateCheck, LiveCodes, table
  <2>2. Creators' \subseteq Procs
    BY DEF Creators
  <2>3. Cardinality(Creators') <= Cardinality(Procs) /\ Cardinality(Creators') \in Nat
    BY <2>2, DashboardAssumption, FS_Subset, FS_CardinalityType
  <2> QED BY <2>1, <2>3, Finite, DashboardAssumption DEF QuotaOvershoot, Creators
<1>2. ASSUME NEW p \in Procs, NEW id \in Ids, NEW code, NEW no,
             pc[p] \in Creating, Insert(id, code, no), Done(p)
      PROVE  QuotaOvershoot'
  <2>1. LiveCodes' = LiveCodes \cup {id} /\ id \notin LiveCodes
    BY <1>2, Inserted DEF Insert, LiveCodes, TypeOK
  <2>2. Creators' = Creators \ {p} /\ p \in Creators
    BY <1>2 DEF Done, Creators, Creating, TypeOK
  <2>3. Cardinality(LiveCodes') = Cardinality(LiveCodes) + 1
    BY <2>1, Finite, FS_AddElement
  <2>4. Cardinality(Creators') = Cardinality(Creators) - 1
    BY <2>2, Finite, FS_RemoveElement
  <2> QED BY <2>3, <2>4, Finite, DashboardAssumption DEF QuotaOvershoot, Creators
<1>3. ASSUME NEW p \in Procs, CreateStatic(p) \/ \E d \in Dests : CreateCommit(p, d)
      PROVE  QuotaOvershoot'
  BY <1>2, <1>3 DEF CreateStatic, CreateCommit, Creating
<1>4. ASSUME NEW p \in Procs,
             CreateFail(p) \/ (\E s \in Shorts : TryCode(p, s)) \/ Update(p) \/ ToggleOrDelete(p)
      PROVE  QuotaOvershoot'
  <2>1. LiveCodes' \subseteq LiveCodes
    BY <1>4 DEF CreateFail, TryCode, Update, UpdateRead, UpdateNumber, UpdateVersion,
       UpdateConflict, UpdateRefused, UpdateSave, ToggleOrDelete, ToggleRead, ToggleSave,
       DeleteRead, DeleteSave, LiveCodes, table
  <2>2. pc'[p] \in Creating => pc[p] \in Creating
    BY <1>4 DEF CreateFail, TryCode, Update, UpdateRead, UpdateNumber, UpdateVersion,
       UpdateConflict, UpdateRefused, UpdateSave, ToggleOrDelete, ToggleRead, ToggleSave,
       DeleteRead, DeleteSave, Goto, Done, Creating, TypeOK
  <2>3. \A q \in Procs : q # p => pc'[q] = pc[q]
    BY <1>4 DEF CreateFail, TryCode, Update, UpdateRead, UpdateNumber, UpdateVersion,
       UpdateConflict, UpdateRefused, UpdateSave, ToggleOrDelete, ToggleRead, ToggleSave,
       DeleteRead, DeleteSave, Goto, Done, TypeOK
  <2>4. Creators' \subseteq Creators
    BY <2>2, <2>3 DEF Creators
  <2> QED BY <2>1, <2>4, QuotaKept
<1>5. ASSUME NEW ids \in SUBSET codes, BulkDelete(ids) \/ \E s \in Statuses : BulkStatus(ids, s)
      PROVE  QuotaOvershoot'
  <2>1. LiveCodes' \subseteq LiveCodes /\ Creators' \subseteq Creators
    BY <1>5 DEF BulkDelete, BulkStatus, LiveCodes, Creators
  <2> QED BY <2>1, QuotaKept
<1>6. CASE UNCHANGED vars
  <2>1. LiveCodes' \subseteq LiveCodes /\ Creators' \subseteq Creators
    BY <1>6 DEF vars, table, LiveCodes, Creators
  <2> QED BY <2>1, QuotaKept
<1> QED BY <1>1, <1>3, <1>4, <1>5, <1>6 DEF Next, Create

-----------------------------------------------------------------------------
(* Theorems *)

LEMMA Inductive == IInv /\ [Next]_vars => IInv'
  BY NextType, NextRequests, NextVersioning, NextRefusals, NextNames DEF IInv

\* The inductive invariant holds of the specification.
THEOREM Invariance == Spec => []IInv
<1>1. Init => IInv
  BY InitType, InitRequests, InitVersioning, InitRefusals, InitNames DEF IInv
<1> QED BY <1>1, Inductive, PTL DEF Spec

\* The columns, the versions and the locals of the requests keep their types.
THEOREM TypeCorrect == Spec => []TypeOK
<1>1. IInv => TypeOK
  BY DEF IInv
<1> QED BY <1>1, Invariance, PTL

\* However many requests create codes at once, the workspace exceeds its plan
\* by less than their number.
THEOREM OvershootIsBounded == Spec => []QuotaOvershoot
<1>1. Init => QuotaOvershoot
  BY InitType, InitQuota
<1>2. TypeOK /\ TypeOK' /\ QuotaOvershoot /\ [Next]_vars => QuotaOvershoot'
  BY NextQuota
<1> QED BY <1>1, <1>2, TypeCorrect, PTL DEF Spec

\* The numbers of a code's versions are 1, 2, ... without a gap, though edits
\* compute them from a maximum that other edits change.
THEOREM NumbersHaveNoGap == Spec => []VersionsAreNumbered
<1>1. IInv => VersionsAreNumbered
  BY DEF IInv, Versioning
<1> QED BY <1>1, Invariance, PTL

\* A dynamic code always leads to one of its own versions.
THEOREM AlwaysLeadsSomewhere == Spec => []CurrentIsOwnVersion
<1>1. IInv => CurrentIsOwnVersion
  BY DEF IInv, Versioning
<1> QED BY <1>1, Invariance, PTL

\* The version left behind by an edit that was refused never becomes current.
THEOREM RefusedIsNeverServed == Spec => []RefusedEditServesNothing
<1>1. IInv => RefusedEditServesNothing
  BY DEF IInv, Refusals
<1> QED BY <1>1, Invariance, PTL

\* No two codes ever have the same short code.
THEOREM ShortCodesStayUnique == Spec => []ShortCodesAreUnique
<1>1. IInv => ShortCodesAreUnique
  BY DEF IInv, Names
<1> QED BY <1>1, Invariance, PTL

\* No request drops a row or a version, or changes a short code.
THEOREM PrintedCodeIsStable == Spec => PrintedCodeNeverChanges
<1>1. IInv /\ [Next]_vars =>
        [ /\ versions \subseteq versions'
          /\ codes \subseteq codes'
          /\ \A c \in codes : short'[c] = short[c] ]_vars
  BY Grows DEF IInv
<1> QED BY <1>1, Invariance, PTL DEF Spec, PrintedCodeNeverChanges

\* A deleted code stays deleted, whatever was read before it was.
THEOREM NoReturn == Spec => DeletedStaysDeleted
<1>1. IInv /\ [Next]_vars => [deleted \subseteq deleted']_vars
  BY Grows DEF IInv
<1> QED BY <1>1, Invariance, PTL DEF Spec, DeletedStaysDeleted

-----------------------------------------------------------------------------
(* The promise *)

\* A version is known by its code and its number.
VersionsAreKnown == \A v, w \in versions : v.code = w.code /\ v.no = w.no => v = w

LInv == IInv /\ VersionsAreKnown

\* The versions short code s leads to.
Served(s) == {v \in versions : /\ v.code \in LiveCodes /\ short[v.code] = s
                               /\ v.no = current[v.code]}

LEMMA LeadsTo == \A s \in Shorts : Leads[s] = {v.dest : v \in Served(s)}
  BY DEF Leads, Served

LEMMA LeadsToNext == \A s \in Shorts : Leads'[s] = {v.dest : v \in Served(s)'}
  BY DEF Leads, Served

LEMMA SameLeads ==
    ASSUME \A s \in Shorts : Served(s)' = Served(s)
    PROVE  Leads' = Leads
<1>1. \A s \in Shorts : Leads'[s] = Leads[s]
  BY LeadsTo, LeadsToNext
<1> QED BY <1>1 DEF Leads

\* What a step may do to the rows and their versions.
Begins(id, code, no) == id \in Ids /\ Insert(id, code, no)
Points(c, no) ==
    /\ c \in codes /\ Dynamic(c) /\ no \in Numbers(c)
    /\ current' = [current EXCEPT ![c] = no]
    /\ UNCHANGED <<codes, short, deleted, versions>>
Adds(v) ==
    /\ v.code \in codes /\ Dynamic(v.code) /\ v.no \notin Numbers(v.code)
    /\ versions' = versions \cup {v}
    /\ UNCHANGED <<codes, short, deleted, current>>
Drops ==
    /\ deleted \subseteq deleted' /\ deleted' \subseteq codes
    /\ UNCHANGED <<codes, short, current, versions>>

LEMMA LinkSteps ==
    ASSUME LInv, [Next]_vars
    PROVE  \/ \E id \in Ids : Begins(id, None, 0) /\ versions' = versions
           \/ \E id \in Ids, p \in Procs, d \in Dests :
                 /\ pc[p] = "created" /\ Begins(id, req[p].short, 1)
                 /\ versions' = versions \cup {[code |-> id, no |-> 1, dest |-> d]}
           \/ \E c \in codes, no \in Nat : Points(c, no)
           \/ \E v : Adds(v)
           \/ Drops
<1>t. TypeOK /\ Requests /\ deleted \subseteq codes
  BY DEF LInv, IInv, TypeOK
<1>d. UNCHANGED <<codes, short, deleted, current, versions>> => Drops
  BY <1>t DEF Drops
<1>1. ASSUME NEW p \in Procs, CreateStatic(p)
      PROVE  \E id \in Ids : Begins(id, None, 0) /\ versions' = versions
  BY <1>1 DEF CreateStatic, Begins, history
<1>2. ASSUME NEW p \in Procs, NEW d \in Dests, CreateCommit(p, d)
      PROVE  \E id \in Ids :
                 /\ pc[p] = "created" /\ Begins(id, req[p].short, 1)
                 /\ versions' = versions \cup {[code |-> id, no |-> 1, dest |-> d]}
  BY <1>2 DEF CreateCommit, Begins
<1>3. ASSUME NEW p \in Procs, CreateCheck(p) \/ CreateFail(p) \/ \E s \in Shorts : TryCode(p, s)
      PROVE  Drops
  BY <1>d, <1>3 DEF CreateCheck, CreateFail, TryCode, table, history
<1>4. ASSUME NEW p \in Procs, UpdateVersion(p) PROVE \E v : Adds(v)
  <2>1. PICK v : v = [code |-> req[p].code, no |-> req[p].no, dest |-> req[p].dest]
    OBVIOUS
  <2>2. v.code = req[p].code /\ v.no = req[p].no
    BY <2>1
  <2>3. req[p].code \in codes /\ Dynamic(req[p].code)
    BY <1>t, <1>4 DEF UpdateVersion, Requests, Locally, Editing
  <2> QED BY <1>4, <2>1, <2>2, <2>3 DEF UpdateVersion, Adds, table
<1>5. ASSUME NEW p \in Procs, UpdateSave(p)
      PROVE  Drops \/ \E c \in codes, no \in Nat : Points(c, no)
  <2>1. UNCHANGED <<codes, short, deleted, versions>>
    BY <1>5 DEF UpdateSave, history
  <2>2. CASE req[p].no = 0
    BY <1>d, <1>5, <2>1, <2>2 DEF UpdateSave
  <2>3. CASE req[p].no # 0
    <3>1. PICK c, no : c = req[p].code /\ no = req[p].no
      OBVIOUS
    <3>2. c \in codes /\ Dynamic(c) /\ no \in Numbers(c) /\ no \in Nat
      BY <1>t, <1>5, <2>3, <3>1, LocalsType DEF UpdateSave, Requests, Locally, Editing, TypeOK
    <3>3. current' = [current EXCEPT ![c] = no]
      BY <1>5, <2>3, <3>1 DEF UpdateSave
    <3> QED BY <2>1, <3>2, <3>3 DEF Points
  <2> QED BY <2>2, <2>3
<1>6. ASSUME NEW p \in Procs,
             \/ \E c \in Ids, d \in Dests \cup {None}, s \in Statuses \cup {"keep"} :
                   UpdateRead(p, c, d, s)
             \/ UpdateNumber(p) \/ UpdateConflict(p) \/ UpdateRefused(p)
      PROVE  Drops
  BY <1>d, <1>6 DEF UpdateRead, UpdateNumber, UpdateConflict, UpdateRefused, table, history
<1>7. ASSUME NEW p \in Procs, ToggleOrDelete(p) PROVE Drops
  <2>1. CASE DeleteSave(p)
    <3>1. req[p].code \in codes
      BY <1>t, <2>1 DEF DeleteSave, Requests, Locally
    <3> QED BY <1>t, <2>1, <3>1 DEF DeleteSave, Drops, history
  <2>2. CASE ToggleSave(p) \/ \E c \in Ids : ToggleRead(p, c) \/ DeleteRead(p, c)
    BY <1>d, <2>2 DEF ToggleSave, ToggleRead, DeleteRead, table, history
  <2> QED BY <1>7, <2>1, <2>2 DEF ToggleOrDelete
<1>8. ASSUME NEW ids \in SUBSET codes, BulkDelete(ids) \/ \E s \in Statuses : BulkStatus(ids, s)
      PROVE  Drops
  BY <1>t, <1>d, <1>8 DEF BulkDelete, BulkStatus, Drops, LiveCodes, history
<1>9. CASE UNCHANGED vars
  BY <1>d, <1>9 DEF vars, table, history
<1>10. ASSUME NEW p \in Procs, Create(p)
       PROVE  \/ \E id \in Ids : Begins(id, None, 0) /\ versions' = versions
              \/ \E id \in Ids, d \in Dests :
                    /\ pc[p] = "created" /\ Begins(id, req[p].short, 1)
                    /\ versions' = versions \cup {[code |-> id, no |-> 1, dest |-> d]}
              \/ Drops
  BY <1>1, <1>2, <1>3, <1>10 DEF Create
<1>11. ASSUME NEW p \in Procs, Update(p)
       PROVE  Drops \/ (\E v : Adds(v)) \/ \E c \in codes, no \in Nat : Points(c, no)
  BY <1>4, <1>5, <1>6, <1>11 DEF Update
<1> QED BY <1>7, <1>8, <1>9, <1>10, <1>11 DEF Next

LEMMA NextKnown ==
    ASSUME LInv, [Next]_vars
    PROVE  VersionsAreKnown'
<1> USE DEF VersionsAreKnown
<1>1. ASSUME NEW id \in Ids, NEW p \in Procs, NEW d \in Dests, Begins(id, req[p].short, 1),
             versions' = versions \cup {[code |-> id, no |-> 1, dest |-> d]}
      PROVE  VersionsAreKnown'
  <2>1. \A v \in versions : v.code # id
    BY <1>1, Inserted DEF Begins, LInv, IInv, Versioning, VersionsHaveRows
  <2> QED BY <1>1, <2>1 DEF LInv
<1>2. ASSUME NEW v, Adds(v) PROVE VersionsAreKnown'
  <2>1. \A w \in versions : ~(w.code = v.code /\ w.no = v.no)
    BY <1>2 DEF Adds, Numbers, VersionsOf
  <2> QED BY <1>2, <2>1 DEF Adds, LInv
<1>3. versions' = versions => VersionsAreKnown'
  BY DEF LInv
<1> QED BY <1>1, <1>2, <1>3, LinkSteps DEF Points, Drops

\* A static code has no short code.
LEMMA StaticPromise ==
    ASSUME LInv, NEW id \in Ids, Begins(id, None, 0), versions' = versions
    PROVE  UNCHANGED <<Given, Leads>>
<1>1. /\ id \notin codes /\ codes' = codes \cup {id} /\ short'[id] = None
      /\ \A c \in codes : short'[c] = short[c] /\ current'[c] = current[c]
      /\ deleted' = deleted
  BY Inserted DEF Begins, LInv, IInv, Insert
<1>2. None \notin Shorts
  BY DashboardAssumption
<1>3. \A v \in versions : v.code \in codes
  BY DEF LInv, IInv, Versioning, VersionsHaveRows
<1>4. \A s \in Shorts : Taken(s)' <=> Taken(s)
  BY <1>1, <1>2 DEF Taken
<1>5. \A s \in Shorts : Served(s)' = Served(s)
  BY <1>1, <1>3 DEF Served, LiveCodes
<1> QED BY <1>4, <1>5, SameLeads DEF Given

\* A dynamic code gives out a short code that was never in use.
LEMMA GivePromise ==
    ASSUME LInv, NEW id \in Ids, NEW p \in Procs, NEW d \in Dests, pc[p] = "created",
           Begins(id, req[p].short, 1),
           versions' = versions \cup {[code |-> id, no |-> 1, dest |-> d]}
    PROVE  Promise!Next
<1>1. PICK t : t = req[p].short
  OBVIOUS
<1>2. /\ id \notin codes /\ codes' = codes \cup {id} /\ short'[id] = t /\ current'[id] = 1
      /\ \A c \in codes : short'[c] = short[c] /\ current'[c] = current[c]
      /\ deleted' = deleted /\ deleted \subseteq codes
  BY <1>1, Inserted DEF Begins, LInv, IInv, Insert, TypeOK
<1>3. t \in Shorts /\ t # None
  BY <1>1, DashboardAssumption DEF LInv, IInv, Requests, Locally
<1>4. ~Taken(t)
  BY <1>1, <1>3 DEF LInv, IInv, Names, ShortCodesAreUnique
<1>5. \A v \in versions : v.code \in codes
  BY DEF LInv, IInv, Versioning, VersionsHaveRows
<1>6. PICK n : n = [code |-> id, no |-> 1, dest |-> d]
  OBVIOUS
<1>7. n.code = id /\ n.no = 1 /\ n.dest = d /\ versions' = versions \cup {n}
  BY <1>6
<1>8. t \notin Given /\ Given' = Given \cup {t}
  BY <1>2, <1>3, <1>4 DEF Given, Taken
<1>9. Served(t)' = {n}
  BY <1>2, <1>4, <1>5, <1>7 DEF Served, LiveCodes, Taken
<1>10. \A s \in Shorts \ {t} : Served(s)' = Served(s)
  BY <1>2, <1>5, <1>7 DEF Served, LiveCodes
<1>11. Leads'[t] = {d} /\ \A s \in Shorts \ {t} : Leads'[s] = Leads[s]
  <2>1. Leads'[t] = {v.dest : v \in {n}}
    BY <1>3, <1>9, LeadsToNext
  <2>2. ASSUME NEW s \in Shorts \ {t} PROVE Leads'[s] = Leads[s]
    BY <1>10, LeadsTo, LeadsToNext
  <2> QED BY <1>7, <2>1, <2>2
<1>12. Leads' = [Leads EXCEPT ![t] = {d}]
  BY <1>3, <1>11 DEF Leads
<1>13. Promise!Give(t, d)
  BY <1>8, <1>12 DEF Promise!Give
<1> QED BY <1>3, <1>13 DEF Promise!Next

\* A version that is inserted is not current.
LEMMA AddPromise ==
    ASSUME LInv, NEW v, Adds(v)
    PROVE  UNCHANGED <<Given, Leads>>
<1>1. /\ versions' = versions \cup {v} /\ UNCHANGED <<codes, short, deleted, current>>
      /\ v.code \in codes /\ Dynamic(v.code) /\ v.no \notin Numbers(v.code)
  BY DEF Adds
<1>2. v.no # current[v.code]
  BY <1>1 DEF LInv, IInv, Versioning, CurrentIsOwnVersion
<1>3. \A s \in Shorts : Served(s)' = Served(s)
  BY <1>1, <1>2 DEF Served, LiveCodes
<1>4. Given' = Given
  BY <1>1 DEF Given, Taken
<1> QED BY <1>3, <1>4, SameLeads

\* An edit repoints the code, if it was not deleted in the meantime.
LEMMA PointPromise ==
    ASSUME LInv, NEW c \in codes, NEW no \in Nat, Points(c, no)
    PROVE  Promise!Next \/ UNCHANGED <<Given, Leads>>
<1>1. /\ current' = [current EXCEPT ![c] = no] /\ UNCHANGED <<codes, short, deleted, versions>>
      /\ Dynamic(c) /\ c \in Ids /\ current \in [Ids -> Nat]
      /\ short \in [Ids -> Shorts \cup {None}] /\ codes \subseteq Ids
  BY DEF Points, LInv, IInv, TypeOK
<1>2. Given' = Given
  BY <1>1 DEF Given, Taken
<1>3. CASE c \in deleted
  <2>1. \A s \in Shorts : Served(s)' = Served(s)
    BY <1>1, <1>3 DEF Served, LiveCodes
  <2> QED BY <1>2, <2>1, SameLeads
<1>4. CASE c \notin deleted
  <2>1. PICK t \in Shorts : t = short[c]
    BY <1>1 DEF Dynamic
  <2>2. PICK v \in versions : v.code = c /\ v.no = no
    BY DEF Points, Numbers, VersionsOf
  <2>3. v.dest \in Dests
    BY <2>2 DEF LInv, IInv, TypeOK, Version
  <2>4. \A e \in codes : short[e] = t => e = c
    BY <1>1, <2>1 DEF Dynamic, LInv, IInv, Names, ShortCodesAreUnique
  <2>5. Served(t)' = {v}
    BY <1>1, <1>4, <2>1, <2>2, <2>4 DEF Served, LiveCodes, LInv, VersionsAreKnown
  <2>6. \A s \in Shorts \ {t} : Served(s)' = Served(s)
    BY <1>1, <2>1 DEF Served, LiveCodes
  <2>7. Served(t) # {}
    <3>1. current[c] \in Numbers(c)
      BY <1>1 DEF LInv, IInv, Versioning, CurrentIsOwnVersion
    <3>2. PICK w \in versions : w.code = c /\ w.no = current[c]
      BY <3>1 DEF Numbers, VersionsOf
    <3> QED BY <1>4, <2>1, <3>2 DEF Served, LiveCodes
  <2>8. Leads[t] # {}
    BY <2>7, LeadsTo
  <2>9. Leads'[t] = {v.dest}
    <3>1. Leads'[t] = {w.dest : w \in {v}}
      BY <2>5, LeadsToNext
    <3> QED BY <3>1
  <2>10. ASSUME NEW s \in Shorts \ {t} PROVE Leads'[s] = Leads[s]
    BY <2>6, LeadsTo, LeadsToNext
  <2>11. Leads' = [Leads EXCEPT ![t] = {v.dest}]
    BY <2>9, <2>10 DEF Leads
  <2>12. Promise!Repoint(t, v.dest)
    BY <1>2, <2>8, <2>11 DEF Promise!Repoint
  <2> QED BY <2>3, <2>12 DEF Promise!Next
<1> QED BY <1>3, <1>4

\* A deletion withdraws the short codes of the codes it deletes.
LEMMA DropPromise ==
    ASSUME LInv, Drops
    PROVE  Promise!Next
<1>1. PICK S \in SUBSET Shorts : S = {s \in Shorts : \E c \in deleted' : short[c] = s}
  OBVIOUS
<1>2. /\ deleted \subseteq deleted' /\ deleted' \subseteq codes
      /\ UNCHANGED <<codes, short, current, versions>>
  BY DEF Drops
<1>3. ASSUME NEW s \in S PROVE Leads'[s] = {}
  <2>1. PICK c \in deleted' : short[c] = s
    BY <1>1
  <2>2. s # None
    BY DashboardAssumption
  <2>3. \A e \in codes : short[e] = s => e = c
    BY <1>2, <2>1, <2>2 DEF Dynamic, LInv, IInv, Names, ShortCodesAreUnique
  <2>4. Served(s)' = {}
    BY <1>2, <2>1, <2>3 DEF Served, LiveCodes
  <2>5. Leads'[s] = {v.dest : v \in {}}
    BY <2>4, LeadsToNext
  <2> QED BY <2>5
<1>4. ASSUME NEW s \in Shorts \ S PROVE Leads'[s] = Leads[s]
  <2>1. \A c \in deleted' : short[c] # s
    BY <1>1
  <2>2. Served(s)' = Served(s)
    BY <1>2, <2>1 DEF Served, LiveCodes
  <2> QED BY <2>2, LeadsTo, LeadsToNext
<1>5. Leads' = [s \in Shorts |-> IF s \in S THEN {} ELSE Leads[s]]
  BY <1>3, <1>4 DEF Leads
<1>6. Given' = Given
  BY <1>2 DEF Given, Taken
<1>7. Promise!Withdraw(S)
  BY <1>5, <1>6 DEF Promise!Withdraw
<1> QED BY <1>7 DEF Promise!Next

\* A printed short code leads to one destination at a time, from the commit that gives it
\* out until its code is deleted, and then never again, whatever creations, edits,
\* toggles and deletions are under way (dashboard.py).
THEOREM DashboardImplements == Spec => Implements
<1>1. Init => Promise!Init /\ LInv
  <2> SUFFICES ASSUME Init PROVE Promise!Init /\ VersionsAreKnown
    BY InitType, InitRequests, InitVersioning, InitRefusals, InitNames DEF IInv, LInv
  <2>1. Given = {} /\ \A s \in Shorts : Served(s) = {}
    BY DEF Init, Given, Taken, Served
  <2>2. \A s \in Shorts : Leads[s] = {}
    <3>1. ASSUME NEW s \in Shorts PROVE Leads[s] = {v.dest : v \in {}}
      BY <2>1, LeadsTo
    <3> QED BY <3>1
  <2>3. Leads = [s \in Shorts |-> {}]
    BY <2>2 DEF Leads
  <2>4. VersionsAreKnown
    BY DEF Init, VersionsAreKnown
  <2> QED BY <2>1, <2>3, <2>4 DEF Promise!Init
<1>2. LInv /\ [Next]_vars => LInv' /\ [Promise!Next]_<<Given, Leads>>
  BY Inductive, NextKnown, LinkSteps, StaticPromise, GivePromise, AddPromise, PointPromise,
     DropPromise DEF LInv
<1> QED BY <1>1, <1>2, PTL DEF Spec, Implements, Promise!Spec

\* A short code leads to one destination at most, and to none before it was given out.
THEOREM LeadsToOne == Spec => []Promise!OneDestination
<1>1. Promise!Init => Promise!OneDestination
  BY DEF Promise!Init, Promise!OneDestination
<1>2. Promise!OneDestination /\ [Promise!Next]_<<Given, Leads>> => Promise!OneDestination'
  <2> SUFFICES ASSUME Promise!OneDestination, [Promise!Next]_<<Given, Leads>>,
                      NEW s \in Shorts, Leads'[s] # {}
               PROVE  s \in Given' /\ \E d \in Dests : Leads'[s] = {d}
    BY DEF Promise!OneDestination
  <2>0. DOMAIN Leads = Shorts
    BY DEF Leads
  <2>1. PICK g, l : g = Given /\ l = Leads /\ DOMAIN l = Shorts
    BY <2>0
  <2>2. l[s] = {} \/ (s \in g /\ \E d \in Dests : l[s] = {d})
    BY <2>1 DEF Promise!OneDestination
  <2>3. CASE UNCHANGED <<Given, Leads>>
    BY <2>1, <2>2, <2>3
  <2>4. ASSUME NEW t \in Shorts, NEW d \in Dests, Promise!Give(t, d) \/ Promise!Repoint(t, d)
        PROVE  s \in Given' /\ \E e \in Dests : Leads'[s] = {e}
    <3>1. l[t] = {} \/ (t \in g /\ \E e \in Dests : l[t] = {e})
      BY <2>1 DEF Promise!OneDestination
    <3> QED
      BY <2>1, <2>2, <2>4, <3>1 DEF Promise!Give, Promise!Repoint
  <2>5. ASSUME NEW S \in SUBSET Shorts, Promise!Withdraw(S)
        PROVE  s \in Given' /\ \E d \in Dests : Leads'[s] = {d}
    BY <2>1, <2>2, <2>5 DEF Promise!Withdraw
  <2> QED
    BY <2>3, <2>4, <2>5 DEF Promise!Next
<1> QED
  BY <1>1, <1>2, DashboardImplements, PTL DEF Implements, Promise!Spec

\* A short code whose code was deleted never leads anywhere again.
THEOREM WithdrawnIsForGood == Spec => Promise!WithdrawnForGood
<1>1. [Promise!Next]_<<Given, Leads>> => Promise!Withdrawn \subseteq Promise!Withdrawn'
  <2> SUFFICES ASSUME [Promise!Next]_<<Given, Leads>>, NEW s \in Promise!Withdrawn
               PROVE  s \in Promise!Withdrawn'
    OBVIOUS
  <2>0. DOMAIN Leads = Shorts
    BY DEF Leads
  <2>1. PICK g, l : g = Given /\ l = Leads /\ DOMAIN l = Shorts
    BY <2>0
  <2>2. s \in Shorts /\ s \in g /\ l[s] = {}
    BY <2>1 DEF Promise!Withdrawn, Given
  <2>3. s \in Given' /\ Leads'[s] = {}
    BY <2>1, <2>2 DEF Promise!Next, Promise!Give, Promise!Repoint, Promise!Withdraw
  <2> QED
    BY <2>3 DEF Promise!Withdrawn
<1> QED
  BY <1>1, DashboardImplements, PTL DEF Implements, Promise!Spec, Promise!WithdrawnForGood
=============================================================================
