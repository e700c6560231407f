------------------------------ MODULE Redirect ------------------------------
(***************************************************************************)
(* /r/<code> of the Django backend (src/backend/apps/qr/redirect.py) for   *)
(* one dynamic code: concurrent scans pass the gates on the row they read, *)
(* then each is recorded in a transaction of its own, whose failure is     *)
(* swallowed, and then answered.  The owner edits the code meanwhile.      *)
(*                                                                         *)
(* A code made by the dashboard always has a current version, so scan's    *)
(* answer for a code without a destination is left out.                    *)
(***************************************************************************)
EXTENDS Naturals, FiniteSets

CONSTANTS Procs,    \* requests being served at the same time
          Visitors, \* what the visitor hash tells apart within a day
          Bots,     \* the visitors whose user agent is a bot's, or empty
          Rows,     \* the states of the qr_codes row: the gates of the code
          MaxScans, \* bound: requests made
          MaxDay    \* bound: the calendar

Row == [status : {"active", "paused"}, deleted : BOOLEAN,
        open : BOOLEAN, \* between starts_at and expires_at
        limit : Nat,    \* scan_limit, 0 for NULL
        password : BOOLEAN]

ASSUME RedirectAssumption ==
    /\ IsFiniteSet(Procs)
    /\ Bots \subseteq Visitors
    /\ Rows \subseteq Row
    /\ MaxScans \in Nat
    /\ MaxDay \in Nat

VARIABLES
    qr,       \* the qr_codes row
    granted,  \* history: the scan limits the row has had
    total,    \* total_scans
    unique,   \* unique_scans
    visitors, \* scan_visitors_daily: the (visitor, day) pairs seen
    events,   \* scan_events
    day,      \* today
    scans,    \* number of requests made
    served,   \* the requests answered with a redirect
    pc,       \* where each request is
    req       \* the locals of each request

counters == <<total, unique, visitors, events>>
code == <<qr, granted>>
vars == <<code, counters, day, scans, served, pc, req>>

\* The outcomes other than a redirect (paused, not_started, expired,
\* limit_reached, password_fail) are recorded alike.
Outcomes == {"refused", "redirect"}

Event == [id : 1 .. MaxScans, visitor : Visitors, outcome : Outcomes,
          day : 0 .. MaxDay, unique : BOOLEAN]

TypeOK ==
    /\ qr \in Rows
    /\ granted \subseteq Nat
    /\ total \in Nat
    /\ unique \in Nat
    /\ visitors \subseteq Visitors \X (0 .. MaxDay)
    /\ events \subseteq Event
    /\ day \in 0 .. MaxDay
    /\ scans \in 0 .. MaxScans
    /\ served \subseteq 1 .. scans
    /\ pc \in [Procs -> {"idle", "record", "recording"}]
    /\ req \in [Procs -> Event \cup {<<>>}]

Init ==
    /\ qr \in {r \in Rows : r.status = "active" /\ ~r.deleted}
    /\ granted = {qr.limit}
    /\ total = 0
    /\ unique = 0
    /\ visitors = {}
    /\ events = {}
    /\ day = 0
    /\ scans = 0
    /\ served = {}
    /\ pc = [p \in Procs |-> "idle"]
    /\ req = [p \in Procs |-> <<>>]

-----------------------------------------------------------------------------
(* scan: the gates, on the row as it was read. *)

\* Mutation: off by one.
OverLimitByOne == qr.limit # 0 /\ total > qr.limit

OverLimit == qr.limit # 0 /\ total >= qr.limit
Shut == qr.status # "active" \/ ~qr.open \/ OverLimit

Gate(outcome, form) ==
    \/ outcome = "refused" /\ (Shut \/ (qr.password /\ form = "wrong"))
    \/ outcome = "redirect" /\ ~Shut /\ (qr.password => form = "right")

\* A deleted code is answered 404 and a GET of a protected one with the
\* password form; neither is recorded, so neither is a step.
scan(p, v, form) ==
    /\ pc[p] = "idle"
    /\ scans < MaxScans
    /\ ~qr.deleted
    /\ \E outcome \in Outcomes :
        /\ Gate(outcome, form)
        /\ req' = [req EXCEPT ![p] = [id |-> scans + 1, visitor |-> v,
                     outcome |-> outcome, day |-> day, unique |-> FALSE]]
    /\ scans' = scans + 1
    /\ pc' = [pc EXCEPT ![p] = "record"]
    /\ UNCHANGED <<code, counters, day, served>>

-----------------------------------------------------------------------------
(* record_scan *)

Counted(e) == e.outcome = "redirect" /\ e.visitor \notin Bots

\* The key of a scan_visitors_daily row; the day is the scan's, also when its
\* transaction has to wait until the next.
VisitorDay(e) == <<e.visitor, e.day>>

\* The visitors rows inserted by transactions that have not committed.
Pending(q) == pc[q] = "recording" /\ req[q].unique

\* The insert of the visitor, with the test for a pending one and the value of
\* is_unique left open, for a mutation of RecordVisitor.
InsertVisitor(p, free, isUnique) ==
    /\ pc[p] = "record"
    /\ free
    /\ req' = [req EXCEPT ![p].unique = isUnique]
    /\ pc' = [pc EXCEPT ![p] = "recording"]
    /\ UNCHANGED <<code, counters, day, scans, served>>

\* Mutation: a SELECT decides whether the visitor is new.
RecordVisitorUnguarded(p) ==
    InsertVisitor(p, TRUE, Counted(req[p]) /\ VisitorDay(req[p]) \notin visitors)

\* INSERT INTO scan_visitors_daily ... ON CONFLICT DO NOTHING: it waits for a
\* transaction that has inserted the same row, and is_unique is its rowcount.
RecordVisitor(p) ==
    LET v == VisitorDay(req[p]) IN
    /\ pc[p] = "record"
    /\ Counted(req[p]) => \A q \in Procs : Pending(q) => VisitorDay(req[q]) # v
    /\ req' = [req EXCEPT ![p].unique = Counted(req[p]) /\ v \notin visitors]
    /\ pc' = [pc EXCEPT ![p] = "recording"]
    /\ UNCHANGED <<code, counters, day, scans, served>>

\* The answer to request p.
Answer(p) ==
    /\ served' = IF req[p].outcome = "redirect" THEN served \cup {req[p].id} ELSE served
    /\ pc' = [pc EXCEPT ![p] = "idle"]
    /\ req' = [req EXCEPT ![p] = <<>>]

\* Mutation: bots and refused scans are counted too.
RecordCommitCountsAll(p) ==
    /\ pc[p] = "recording"
    /\ events' = events \cup {req[p]}
    /\ total' = total + 1
    /\ unique' = unique + (IF req[p].unique THEN 1 ELSE 0)
    /\ visitors' = visitors \cup (IF req[p].unique THEN {VisitorDay(req[p])} ELSE {})
    /\ Answer(p)
    /\ UNCHANGED <<code, day, scans>>

\* The event is inserted, the counters are incremented in place and the
\* transaction commits.
RecordCommit(p) ==
    /\ pc[p] = "recording"
    /\ events' = events \cup {req[p]}
    /\ total' = total + (IF Counted(req[p]) THEN 1 ELSE 0)
    /\ unique' = unique + (IF req[p].unique THEN 1 ELSE 0)
    /\ visitors' = visitors \cup
          (IF req[p].unique THEN {VisitorDay(req[p])} ELSE {})
    /\ Answer(p)
    /\ UNCHANGED <<code, day, scans>>

\* Mutation: the exception escapes, and the request ends with it.
RecordFailEscapes(p) ==
    /\ pc[p] # "idle"
    /\ pc' = [pc EXCEPT ![p] = "idle"]
    /\ req' = [req EXCEPT ![p] = <<>>]
    /\ UNCHANGED <<code, counters, day, scans, served>>

\* Mutation: the count is taken back on top of the rollback.
RecordFailUncounts(p) ==
    /\ pc[p] # "idle"
    /\ total' = total - 1
    /\ Answer(p)
    /\ UNCHANGED <<code, unique, visitors, events, day, scans>>

\* Any exception rolls the transaction back and is logged; the scan is
\* answered as if it had been recorded.
RecordFail(p) ==
    /\ pc[p] # "idle"
    /\ Answer(p)
    /\ UNCHANGED <<code, counters, day, scans>>

-----------------------------------------------------------------------------
(* The owner and the calendar *)

\* update, QRToggleView and the bulk actions write the gates of the row, and
\* starts_at and expires_at pass; none of this touches the counters, and a
\* deleted code stays deleted.
Change(r) ==
    /\ r \in Rows \ {qr}
    /\ qr.deleted => r.deleted
    /\ qr' = r
    /\ granted' = granted \cup {r.limit}
    /\ UNCHANGED <<counters, day, scans, served, pc, req>>

Midnight ==
    /\ day < MaxDay
    /\ day' = day + 1
    /\ UNCHANGED <<code, counters, scans, served, pc, req>>

-----------------------------------------------------------------------------

Record(p) == RecordVisitor(p) \/ RecordCommit(p)
Serve(p) == Record(p) \/ RecordFail(p)

Next ==
    \/ \E p \in Procs, v \in Visitors, form \in {"none", "right", "wrong"} : scan(p, v, form)
    \/ \E p \in Procs : Record(p) \/ RecordFail(p)
    \/ \E r \in Rows : Change(r)
    \/ Midnight

\* A request that has been read is run to its answer by its worker.
Fairness(p) == WF_vars(Serve(p))

Spec == Init /\ [][Next]_vars /\ \A p \in Procs : Fairness(p)

-----------------------------------------------------------------------------
(* Properties *)

\* The counters on the code always agree with the events: total_scans is the
\* number of real redirects by non-bots in scan_events, unique_scans the
\* number of those marked unique, whatever scans commit at the same time and
\* whichever are rolled back.
CountersMatchEvents ==
    /\ total = Cardinality({e \in events : Counted(e)})
    /\ unique = Cardinality({e \in events : e.unique})

\* unique_scans counts each visitor once per day: the events marked unique
\* and the rows of scan_visitors_daily correspond one to one, and every
\* counted scan is by a visitor who has a row for its day.
UniqueOncePerDay ==
    /\ \A e, f \in events :
          e.unique /\ f.unique /\ VisitorDay(e) = VisitorDay(f) => e = f
    /\ visitors = {VisitorDay(e) : e \in {f \in events : Counted(f)}}

InFlight == {p \in Procs : pc[p] # "idle" /\ Counted(req[p])}

\* The limit is tested on the row read before the scan is counted.  Scans
\* that read it at the same time pass together, so the count exceeds the
\* greatest limit the owner gave by less than the number of requests served at
\* once, and never by more.
LimitOvershoot ==
    0 \notin granted =>
        \E l \in granted :
            total + Cardinality(InFlight) < l + Cardinality(Procs)

\* What fairness is about is enabled: RecordFail is there whenever a scan is
\* under way.
CanServe(p) == ENABLED <<Serve(p)>>_vars
ScansGoOn == \A p \in Procs : pc[p] # "idle" => CanServe(p)

\* "Best effort: a failure here must never stop the redirect" (redirect.py:102):
\* every scan that passed the gates is answered with the redirect.
Passed(p, i) == pc[p] # "idle" /\ req[p].id = i /\ req[p].outcome = "redirect"
IsServed(p, i) == Passed(p, i) ~> i \in served

RedirectsAreServed == \A p \in Procs, i \in 1 .. MaxScans : IsServed(p, i)

\* The promise of the ingest pipeline (ScanCounts), which takes over the
\* recording of scans from the redirect: each scan is recorded once, together
\* with its count and never without.
Recorded == {[event |-> e.id, counted |-> Counted(e)] : e \in events}

Promise == INSTANCE ScanCounts
    WITH Row <- [event : 1 .. MaxScans, counted : BOOLEAN], recorded <- Recorded

Implements == Promise!Spec
=============================================================================
