------------------------------ MODULE Dashboard ------------------------------
(***************************************************************************)
(* The QR codes of one workspace as the dashboard of the Django backend    *)
(* creates, edits, toggles, bulk-edits and deletes them                    *)
(* (src/backend/apps/qr/dashboard.py and views.py), by concurrent          *)
(* requests.                                                               *)
(*                                                                         *)
(* Every request reads first and writes what it computed later.  Only the  *)
(* inserts of a creation share a transaction: each statement of an edit    *)
(* commits by itself, and what it has written stays when a later field of  *)
(* the body is refused.  A save writes the columns it names and no other.  *)
(*                                                                         *)
(* Names, designs, folders, tags and the payload of a static code are left *)
(* out: the last writer of each wins and nothing here depends on them.     *)
(***************************************************************************)
EXTENDS Naturals, FiniteSets

CONSTANTS Procs,       \* requests being served at the same time
          Shorts,      \* short codes
          Dests,       \* destinations
          None,        \* no short code, or no destination in the body
          Limit,       \* max_qr_codes of the workspace's plan
          MaxTries,    \* tries of _save_with_unique_code (8)
          MaxCodes,    \* bound: rows of qr_codes
          MaxVersions  \* bound: edits are admitted with fewer versions than this

Ids == 1 .. MaxCodes

ASSUME DashboardAssumption ==
    /\ IsFiniteSet(Procs)
    /\ None \notin Shorts \cup Dests
    /\ Limit \in Nat \ {0}
    /\ MaxTries \in Nat \ {0}
    /\ MaxCodes \in Nat
    /\ MaxVersions \in Nat

VARIABLES
    codes,    \* the ids of the committed rows of qr_codes
    short,    \* short_code of a dynamic code, None for a static one
    status,   \* status
    deleted,  \* the ids of the rows whose deleted_at is not NULL
    current,  \* version_no of current_version, 0 for NULL
    versions, \* qr_versions
    refused,  \* history: the versions made by edits that were then refused
    pc,       \* where each request is
    req       \* the locals of each request

table == <<codes, short, status, deleted, current>>
history == <<versions, refused>>
vars == <<table, history, pc, req>>

Statuses == {"active", "paused"}
Version == [code : Ids, no : Nat \ {0}, dest : Dests]

\* code: the row read; dest and status: what the request will write; no: the
\* number of the version it makes; short and tries: of _save_with_unique_code.
Locals == [code : Ids \cup {0}, dest : Dests \cup {None},
           status : Statuses \cup {"keep"}, no : Nat,
           short : Shorts \cup {None}, tries : Nat]
NoLocals == [code |-> 0, dest |-> None, status |-> "keep", no |-> 0,
             short |-> None, tries |-> 0]

Creating == {"create", "created"}
Editing == {"number", "version", "save"}

TypeOK ==
    /\ codes \subseteq Ids
    /\ short \in [Ids -> Shorts \cup {None}]
    /\ status \in [Ids -> Statuses]
    /\ deleted \subseteq codes
    /\ current \in [Ids -> Nat]
    /\ versions \subseteq Version
    /\ refused \subseteq versions
    /\ pc \in [Procs -> {"idle", "toggle", "delete"} \cup Creating \cup Editing]
    /\ req \in [Procs -> Locals]

Init ==
    /\ codes = {}
    /\ short = [c \in Ids |-> None]
    /\ status = [c \in Ids |-> "active"]
    /\ deleted = {}
    /\ current = [c \in Ids |-> 0]
    /\ versions = {}
    /\ refused = {}
    /\ pc = [p \in Procs |-> "idle"]
    /\ req = [p \in Procs |-> NoLocals]

-----------------------------------------------------------------------------
(* Helpers *)

LiveCodes == codes \ deleted
Dynamic(c) == short[c] # None
VersionsOf(c) == {v \in versions : v.code = c}
Numbers(c) == {v.no : v \in VersionsOf(c)}

\* The address a dynamic code leads to.
destination(c) ==
    (CHOOSE v \in versions : v.code = c /\ v.no = current[c]).dest

\* Bounds: a request that would add a row too many is not admitted.
RoomForCode ==
    Cardinality(codes) + Cardinality({p \in Procs : pc[p] \in Creating}) < MaxCodes
RoomForVersion ==
    Cardinality(versions) + Cardinality({p \in Procs : pc[p] \in Editing}) < MaxVersions

Goto(p, stage) == pc' = [pc EXCEPT ![p] = stage]
Done(p) ==
    /\ pc' = [pc EXCEPT ![p] = "idle"]
    /\ req' = [req EXCEPT ![p] = NoLocals]

-----------------------------------------------------------------------------
(* create *)

\* Mutation: off by one.
CreateCheckByOne(p) ==
    /\ pc[p] = "idle"
    /\ RoomForCode
    /\ Cardinality(LiveCodes) <= Limit
    /\ Goto(p, "create")
    /\ UNCHANGED <<table, history, req>>

\* The codes are counted against the plan, outside the transaction.
CreateCheck(p) ==
    /\ pc[p] = "idle"
    /\ RoomForCode
    /\ Cardinality(LiveCodes) < Limit
    /\ Goto(p, "create")
    /\ UNCHANGED <<table, history, req>>

\* The next id, for the insert that commits.
Insert(id, code, no) ==
    /\ id \in Ids \ codes /\ \A i \in Ids \ codes : id <= i
    /\ codes' = codes \cup {id}
    /\ short' = [short EXCEPT ![id] = code]
    /\ current' = [current EXCEPT ![id] = no]
    /\ UNCHANGED <<status, deleted>>

CreateStatic(p) ==
    /\ pc[p] = "create"
    /\ req[p].tries = 0
    /\ \E id \in Ids : Insert(id, None, 0)
    /\ Done(p)
    /\ UNCHANGED history

\* _save_with_unique_code: an insert waits for a transaction that has inserted
\* the same short code.  Codes deleted by their owner still hold theirs.
Held(s) == \E q \in Procs : req[q].short = s
\* Mutation: the short code of a deleted code is free again.
TakenByLive(s) == \E c \in LiveCodes : short[c] = s

Taken(s) == \E c \in codes : short[c] = s

TryCode(p, s) ==
    /\ pc[p] = "create"
    /\ req[p].tries < MaxTries
    /\ ~Held(s)
    /\ \/ /\ Taken(s)
          /\ req' = [req EXCEPT ![p].tries = @ + 1]
          /\ UNCHANGED pc
       \/ /\ ~Taken(s)
          /\ req' = [req EXCEPT ![p].short = s]
          /\ Goto(p, "created")
    /\ UNCHANGED <<table, history>>

\* 503 after the last try; a body whose other fields are invalid is refused
\* before the first.  Nothing has been written.
CreateFail(p) ==
    /\ pc[p] = "create"
    /\ req[p].tries \in {0, MaxTries}
    /\ Done(p)
    /\ UNCHANGED <<table, history>>

\* Mutation: the version is not part of the transaction and fails.
CreateCommitAlone(p, dest) ==
    /\ pc[p] = "created"
    /\ \E id \in Ids : Insert(id, req[p].short, 1)
    /\ Done(p)
    /\ UNCHANGED <<versions, refused>>

\* Version 1 is inserted, made current and the transaction commits.
CreateCommit(p, dest) ==
    /\ pc[p] = "created"
    /\ \E id \in Ids :
        /\ Insert(id, req[p].short, 1)
        /\ versions' = versions \cup {[code |-> id, no |-> 1, dest |-> dest]}
    /\ Done(p)
    /\ UNCHANGED refused

-----------------------------------------------------------------------------
(* update: dest and s are the destination and is_active of the body. *)

\* _qr_for reads the row with its current version; a version is made only if
\* the destination differs from the one read.
UpdateRead(p, c, dest, s) ==
    /\ pc[p] = "idle"
    /\ c \in LiveCodes
    /\ RoomForVersion
    /\ req' = [req EXCEPT ![p] = [NoLocals EXCEPT !.code = c, !.dest = dest, !.status = s]]
    /\ Goto(p, IF Dynamic(c) /\ dest \notin {None, destination(c)} THEN "number" ELSE "save")
    /\ UNCHANGED <<table, history>>

\* Mutation: off by one.
UpdateNumberByOne(p) ==
    /\ pc[p] = "number"
    /\ \E n \in Numbers(req[p].code) :
        /\ \A m \in Numbers(req[p].code) : m <= n
        /\ req' = [req EXCEPT ![p].no = n - 1]
    /\ Goto(p, "version")
    /\ UNCHANGED <<table, history>>

\* Mutation: the number of versions of all codes, plus one.
UpdateNumberAnyCode(p) ==
    /\ pc[p] = "number"
    /\ req' = [req EXCEPT ![p].no = Cardinality(versions) + 1]
    /\ Goto(p, "version")
    /\ UNCHANGED <<table, history>>

\* Max("version_no") + 1
UpdateNumber(p) ==
    /\ pc[p] = "number"
    /\ \E n \in Numbers(req[p].code) :
        /\ \A m \in Numbers(req[p].code) : m <= n
        /\ req' = [req EXCEPT ![p].no = n + 1]
    /\ Goto(p, "version")
    /\ UNCHANGED <<table, history>>

\* Mutation: the version is made current before the other fields are read.
UpdateVersionCurrent(p) ==
    /\ pc[p] = "version"
    /\ req[p].no \notin Numbers(req[p].code)
    /\ versions' = versions \cup
          {[code |-> req[p].code, no |-> req[p].no, dest |-> req[p].dest]}
    /\ current' = [current EXCEPT ![req[p].code] = req[p].no]
    /\ Goto(p, "save")
    /\ UNCHANGED <<codes, short, status, deleted, refused, req>>

\* Mutation: the current version is overwritten instead.
UpdateVersionInPlace(p) ==
    LET c == req[p].code IN
    /\ pc[p] = "version"
    /\ versions' = {v \in versions : ~(v.code = c /\ v.no = current[c])}
          \cup {[code |-> c, no |-> current[c], dest |-> req[p].dest]}
    /\ Goto(p, "save")
    /\ UNCHANGED <<table, refused, req>>

\* The version is inserted, and stays inserted.
UpdateVersion(p) ==
    /\ pc[p] = "version"
    /\ req[p].no \notin Numbers(req[p].code)
    /\ versions' = versions \cup
          {[code |-> req[p].code, no |-> req[p].no, dest |-> req[p].dest]}
    /\ Goto(p, "save")
    /\ UNCHANGED <<table, refused, req>>

\* Another edit took the number: the insert breaks the UNIQUE constraint.
UpdateConflict(p) ==
    /\ pc[p] = "version"
    /\ req[p].no \in Numbers(req[p].code)
    /\ Done(p)
    /\ UNCHANGED <<table, history>>

\* expires_at or max_scans is invalid.
UpdateRefused(p) ==
    /\ pc[p] = "save"
    /\ refused' = refused \cup
          {v \in versions : v.code = req[p].code /\ v.no = req[p].no}
    /\ Done(p)
    /\ UNCHANGED <<table, versions>>

\* Mutation: save() writes every column, deleted_at as it was read.
UpdateSaveAll(p) ==
    LET c == req[p].code IN
    /\ pc[p] = "save"
    /\ deleted' = deleted \ {c}
    /\ current' = IF req[p].no = 0 THEN current
                  ELSE [current EXCEPT ![c] = req[p].no]
    /\ Done(p)
    /\ UNCHANGED <<codes, short, status, history>>

\* save(update_fields=fields), with the columns the body gave only.
UpdateSave(p) ==
    LET c == req[p].code IN
    /\ pc[p] = "save"
    /\ status' = IF req[p].status = "keep" THEN status
                 ELSE [status EXCEPT ![c] = req[p].status]
    /\ current' = IF req[p].no = 0 THEN current
                  ELSE [current EXCEPT ![c] = req[p].no]
    /\ Done(p)
    /\ UNCHANGED <<codes, short, deleted, history>>

-----------------------------------------------------------------------------
(* QRToggleView, _delete and WorkspaceQRBulkView *)

ToggleRead(p, c) ==
    /\ pc[p] = "idle"
    /\ c \in LiveCodes
    /\ req' = [req EXCEPT ![p] = [NoLocals EXCEPT !.code = c,
                  !.status = IF status[c] = "active" THEN "paused" ELSE "active"]]
    /\ Goto(p, "toggle")
    /\ UNCHANGED <<table, history>>

ToggleSave(p) ==
    /\ pc[p] = "toggle"
    /\ status' = [status EXCEPT ![req[p].code] = req[p].status]
    /\ Done(p)
    /\ UNCHANGED <<codes, short, deleted, current, history>>

DeleteRead(p, c) ==
    /\ pc[p] = "idle"
    /\ c \in LiveCodes
    /\ req' = [req EXCEPT ![p] = [NoLocals EXCEPT !.code = c]]
    /\ Goto(p, "delete")
    /\ UNCHANGED <<table, history>>

DeleteSave(p) ==
    /\ pc[p] = "delete"
    /\ deleted' = deleted \cup {req[p].code}
    /\ Done(p)
    /\ UNCHANGED <<codes, short, status, current, history>>

\* One UPDATE of the chosen codes that are not deleted.
BulkStatus(ids, s) ==
    /\ status' = [c \in Ids |-> IF c \in ids \cap LiveCodes THEN s ELSE status[c]]
    /\ UNCHANGED <<codes, short, deleted, current, history, pc, req>>

BulkDelete(ids) ==
    /\ deleted' = deleted \cup (ids \cap LiveCodes)
    /\ UNCHANGED <<codes, short, status, current, history, pc, req>>

-----------------------------------------------------------------------------

Create(p) ==
    \/ CreateCheck(p) \/ CreateStatic(p) \/ CreateFail(p)
    \/ \E s \in Shorts : TryCode(p, s)
    \/ \E d \in Dests : CreateCommit(p, d)

Update(p) ==
    \/ \E c \in Ids, d \in Dests \cup {None}, s \in Statuses \cup {"keep"} :
          UpdateRead(p, c, d, s)
    \/ UpdateNumber(p) \/ UpdateVersion(p) \/ UpdateConflict(p)
    \/ UpdateRefused(p) \/ UpdateSave(p)

ToggleOrDelete(p) ==
    \/ \E c \in Ids : ToggleRead(p, c) \/ DeleteRead(p, c)
    \/ ToggleSave(p) \/ DeleteSave(p)

Next ==
    \/ \E p \in Procs : Create(p) \/ Update(p) \/ ToggleOrDelete(p)
    \/ \E ids \in SUBSET codes : BulkDelete(ids) \/ \E s \in Statuses : BulkStatus(ids, s)

Spec == Init /\ [][Next]_vars

-----------------------------------------------------------------------------
(* Properties *)

\* The quota is tested on a count taken before the code is inserted.  Creations
\* that count at the same time pass together: the workspace exceeds its plan
\* by less than the number of requests served at once, and never by more.
QuotaOvershoot ==
    Cardinality(LiveCodes) + Cardinality({p \in Procs : pc[p] \in Creating})
        < Limit + Cardinality(Procs)

\* The versions of a code are numbered 1, 2, ... without a gap and each number
\* is used once, though the number is computed by one statement and inserted by
\* another.
VersionsAreNumbered ==
    \A c \in codes :
        Numbers(c) = IF Dynamic(c) THEN 1 .. Cardinality(VersionsOf(c)) ELSE {}

\* A dynamic code that can be scanned always leads somewhere: its current
\* version is one of its own versions, from the commit that creates it on.
CurrentIsOwnVersion ==
    \A c \in codes : Dynamic(c) => current[c] \in Numbers(c)

\* An edit answered with an error does not change where the code leads: the
\* version it left behind is in the history and never becomes current.
RefusedEditServesNothing ==
    \A c \in codes, v \in refused : v.code = c => current[c] # v.no

\* A printed short code means one QR code for ever: no two codes of the
\* workspace have the same, deleted ones and creations in progress included.
ShortCodesAreUnique ==
    /\ \A c, d \in codes : Dynamic(c) /\ short[c] = short[d] => c = d
    /\ \A p \in Procs : req[p].short # None => ~Taken(req[p].short)

\* "Editing the destination adds a version, so the printed code never changes":
\* no request changes or drops a version, a short code or the mode of a code.
PrintedCodeNeverChanges ==
    [][ /\ versions \subseteq versions'
        /\ codes \subseteq codes'
        /\ \A c \in codes : short'[c] = short[c] ]_vars

\* An edit or a toggle that read a code before it was deleted does not bring
\* it back.
DeletedStaysDeleted == [][deleted \subseteq deleted']_vars

\* The promise (ShortLinks): a short code given out leads to one destination at
\* a time until its code is deleted, and then is never in use again, whatever
\* edits and toggles began before.
Given == {s \in Shorts : Taken(s)}
Leads == [s \in Shorts |->
            {v.dest : v \in {x \in versions : /\ x.code \in LiveCodes /\ short[x.code] = s
                                              /\ x.no = current[x.code]}}]

Promise == INSTANCE ShortLinks WITH given <- Given, leads <- Leads

Implements == Promise!Spec

\* "Your plan allows N QR codes", and the plan: "serialize the quota check per
\* workspace": a workspace never has more codes than its plan allows.
QuotaHolds == Cardinality(LiveCodes) <= Limit
=============================================================================
