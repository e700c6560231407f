--------------------------- MODULE RedirectProofs ---------------------------
(***************************************************************************)
(* Proofs about Redirect, for any number of requests, visitors and days    *)
(* and any set of edits of the code.                                       *)
(***************************************************************************)
EXTENDS Redirect, FiniteSetTheorems, TLAPS

\* A request that is being recorded has its event, with an id of its own.
ReqIsFresh ==
    /\ \A e \in events : e.id <= scans
    /\ \A p \in Procs : pc[p] # "idle" =>
          /\ req[p] \in Event
          /\ req[p].id <= scans
          /\ \A e \in events : e.id # req[p].id
          /\ \A q \in Procs : q # p /\ pc[q] # "idle" => req[q].id # req[p].id

\* The transactions under way agree with scan_visitors_daily: the row of one
\* that is unique is not yet there and is nobody else's, and the row of one
\* that counts and is not unique is there.
VisitorsAgree ==
    /\ \A e \in events : e.unique => Counted(e)
    /\ \A p \in Procs : pc[p] = "recording" =>
          /\ req[p].unique => Counted(req[p]) /\ VisitorDay(req[p]) \notin visitors
          /\ Counted(req[p]) /\ ~req[p].unique => VisitorDay(req[p]) \in visitors
          /\ \A q \in Procs : q # p /\ pc[q] = "recording" /\ req[p].unique /\ req[q].unique
                => VisitorDay(req[q]) # VisitorDay(req[p])

\* The row's own limit is one of those it has had.
LimitGranted == qr.limit \in granted

FiniteEvents == IsFiniteSet(events)

\* A scan has one event.
IdsDistinct == \A e, f \in events : e.id = f.id => e = f

IInv ==
    /\ TypeOK
    /\ ReqIsFresh
    /\ FiniteEvents
    /\ IdsDistinct
    /\ CountersMatchEvents
    /\ VisitorsAgree
    /\ UniqueOncePerDay
    /\ LimitGranted
    /\ LimitOvershoot

-----------------------------------------------------------------------------
(* Types and ids *)

LEMMA InitType == Init => TypeOK
<1> SUFFICES ASSUME Init PROVE TypeOK
  OBVIOUS
<1>1. qr \in Rows /\ qr.limit \in Nat
  BY RedirectAssumption DEF Init, Row
<1> QED BY <1>1, RedirectAssumption DEF Init, TypeOK

LEMMA NextType == TypeOK /\ ReqIsFresh /\ [Next]_vars => TypeOK'
<1> SUFFICES ASSUME TypeOK, ReqIsFresh, [Next]_vars PROVE TypeOK'
  OBVIOUS
<1> USE RedirectAssumption DEF TypeOK, code, counters
<1>1. ASSUME NEW p \in Procs, NEW v \in Visitors, NEW form, scan(p, v, form) PROVE TypeOK'
  <2>1. PICK outcome \in Outcomes :
           req' = [req EXCEPT ![p] = [id |-> scans + 1, visitor |-> v,
                     outcome |-> outcome, day |-> day, unique |-> FALSE]]
    BY <1>1 DEF scan
  <2>2. [id |-> scans + 1, visitor |-> v, outcome |-> outcome, day |-> day,
          unique |-> FALSE] \in Event
    BY <1>1 DEF scan, Event
  <2>3. req' \in [Procs -> Event \cup {<<>>}]
    BY <2>1, <2>2
  <2>4. scans' \in 0 .. MaxScans /\ served' \subseteq 1 .. scans'
    BY <1>1 DEF scan
  <2>5. pc' \in [Procs -> {"idle", "record", "recording"}]
    BY <1>1 DEF scan
  <2> QED BY <1>1, <2>3, <2>4, <2>5 DEF scan
<1>2. ASSUME NEW p \in Procs, RecordVisitor(p) PROVE TypeOK'
  <2>1. req[p] \in Event
    BY <1>2 DEF RecordVisitor, ReqIsFresh
  <2>2. [req[p] EXCEPT !.unique = Counted(req[p]) /\ VisitorDay(req[p]) \notin visitors] \in Event
    BY <2>1 DEF Event
  <2>3. req' \in [Procs -> Event \cup {<<>>}]
    BY <1>2, <2>2 DEF RecordVisitor
  <2> QED BY <1>2, <2>3 DEF RecordVisitor
<1>3. ASSUME NEW p \in Procs, RecordCommit(p) PROVE TypeOK'
  <2>1. req[p] \in Event /\ req[p].id \in 1 .. scans
    BY <1>3 DEF RecordCommit, ReqIsFresh, Event
  <2>2. VisitorDay(req[p]) \in Visitors \X (0 .. MaxDay)
    BY <2>1 DEF VisitorDay, Event
  <2>3. total' \in Nat /\ unique' \in Nat
    BY <1>3 DEF RecordCommit
  <2>4. visitors' \subseteq Visitors \X (0 .. MaxDay) /\ events' \subseteq Event
    BY <1>3, <2>1, <2>2 DEF RecordCommit
  <2>5. /\ served' \subseteq 1 .. scans
        /\ pc' \in [Procs -> {"idle", "record", "recording"}]
        /\ req' \in [Procs -> Event \cup {<<>>}]
    BY <1>3, <2>1 DEF RecordCommit, Answer
  <2> QED BY <1>3, <2>3, <2>4, <2>5 DEF RecordCommit
<1>4. ASSUME NEW p \in Procs, RecordFail(p) PROVE TypeOK'
  <2>1. req[p].id \in 1 .. scans
    BY <1>4 DEF RecordFail, ReqIsFresh, Event
  <2> QED BY <1>4, <2>1 DEF RecordFail, Answer
<1>5. ASSUME NEW r \in Rows, Change(r) PROVE TypeOK'
  <2>1. r.limit \in Nat
    BY DEF Row
  <2> QED BY <1>5, <2>1 DEF Change
<1>6. CASE Midnight
  BY <1>6 DEF Midnight
<1>7. CASE UNCHANGED vars
  BY <1>7 DEF vars
<1> QED BY <1>1, <1>2, <1>3, <1>4, <1>5, <1>6, <1>7 DEF Next, Record

LEMMA NextFresh == TypeOK /\ ReqIsFresh /\ [Next]_vars => ReqIsFresh'
<1> SUFFICES ASSUME TypeOK, ReqIsFresh, [Next]_vars PROVE ReqIsFresh'
  OBVIOUS
<1> USE DEF TypeOK, counters
<1>1. ASSUME NEW p \in Procs, NEW v \in Visitors, NEW form, scan(p, v, form) PROVE ReqIsFresh'
  <2>1. PICK outcome \in Outcomes :
           req' = [req EXCEPT ![p] = [id |-> scans + 1, visitor |-> v,
                     outcome |-> outcome, day |-> day, unique |-> FALSE]]
    BY <1>1 DEF scan
  <2> DEFINE e == [id |-> scans + 1, visitor |-> v, outcome |-> outcome, day |-> day,
                   unique |-> FALSE]
  <2>2. e \in Event
    BY <1>1, RedirectAssumption DEF scan, Event
  <2>3. e.id = scans + 1
    OBVIOUS
  <2>4. req'[p] = e /\ \A q \in Procs : q # p => req'[q] = req[q]
    BY <2>1
  <2> HIDE DEF e
  <2>5. /\ req'[p] \in Event /\ req'[p].id = scans + 1
        /\ \A q \in Procs : q # p => req'[q] = req[q]
    BY <2>2, <2>3, <2>4
  <2>6. /\ scans' = scans + 1 /\ events' = events
        /\ pc' = [pc EXCEPT ![p] = "record"]
    BY <1>1 DEF scan
  <2>7. \A f \in events : f.id \in Nat /\ f.id <= scans
    BY DEF ReqIsFresh, Event
  <2>8. \A q \in Procs : pc[q] # "idle" => req[q].id \in Nat /\ req[q].id <= scans
    BY DEF ReqIsFresh, Event
  <2> QED BY <2>5, <2>6, <2>7, <2>8 DEF ReqIsFresh
<1>2. ASSUME NEW p \in Procs, RecordVisitor(p) PROVE ReqIsFresh'
  <2>1. req[p] \in Event
    BY <1>2 DEF RecordVisitor, ReqIsFresh
  <2>2. PICK u \in BOOLEAN : req' = [req EXCEPT ![p] = [req[p] EXCEPT !.unique = u]]
    BY <1>2 DEF RecordVisitor
  <2>3. /\ req'[p] \in Event /\ req'[p].id = req[p].id
        /\ \A q \in Procs : q # p => req'[q] = req[q]
    BY <2>1, <2>2 DEF Event
  <2> QED BY <1>2, <2>3 DEF RecordVisitor, ReqIsFresh
<1>3. ASSUME NEW p \in Procs, RecordCommit(p) PROVE ReqIsFresh'
  BY <1>3 DEF RecordCommit, Answer, ReqIsFresh
<1>4. ASSUME NEW p \in Procs, RecordFail(p) PROVE ReqIsFresh'
  BY <1>4 DEF RecordFail, Answer, ReqIsFresh
<1>5. CASE UNCHANGED <<events, scans, pc, req>>
  BY <1>5 DEF ReqIsFresh
<1> QED BY <1>1, <1>2, <1>3, <1>4, <1>5 DEF Next, Record, Change, Midnight, vars

-----------------------------------------------------------------------------
(* The counters *)

\* The events and counters change by a commit only.
LEMMA OnlyCommitCounts ==
    ASSUME [Next]_vars
    PROVE  UNCHANGED counters \/ \E p \in Procs : RecordCommit(p)
  BY DEF Next, Record, scan, RecordVisitor, RecordFail, Change, Midnight, vars, counters

\* Adding a new element to a finite set adds one to the number of its elements
\* with a mark the new one has, and nothing if it has not.
LEMMA OneMore ==
    ASSUME NEW S, IsFiniteSet(S), NEW e, e \notin S, NEW P \in SUBSET (S \cup {e})
    PROVE  /\ IsFiniteSet(S \cup {e})
           /\ Cardinality(P) = Cardinality(P \cap S) + (IF e \in P THEN 1 ELSE 0)
<1>1. IsFiniteSet(P \cap S) /\ IsFiniteSet(S \cup {e})
  BY FS_Subset, FS_AddElement
<1>2. Cardinality((P \cap S) \cup {e}) = Cardinality(P \cap S) + 1
  BY <1>1, FS_AddElement
<1>3. Cardinality(P \cap S) \in Nat
  BY <1>1, FS_CardinalityType
<1> DEFINE Sum == Cardinality(P) = Cardinality(P \cap S) + (IF e \in P THEN 1 ELSE 0)
<1>4. ASSUME e \in P PROVE Sum
  <2>1. (P \cap S) \cup {e} = P
    BY <1>4
  <2> QED BY <1>2, <1>4, <2>1
<1>5. ASSUME e \notin P PROVE Sum
  <2>1. P \cap S = P
    BY <1>5
  <2>2. Cardinality(P) = Cardinality(P \cap S)
    BY <2>1
  <2> QED BY <1>3, <1>5, <2>2
<1> QED BY <1>1, <1>4, <1>5

LEMMA NextCounters ==
    TypeOK /\ ReqIsFresh /\ FiniteEvents /\ CountersMatchEvents /\ [Next]_vars
      => FiniteEvents' /\ CountersMatchEvents'
<1> SUFFICES ASSUME TypeOK, ReqIsFresh, FiniteEvents, CountersMatchEvents, [Next]_vars
             PROVE  FiniteEvents' /\ CountersMatchEvents'
  OBVIOUS
<1>1. ASSUME NEW p \in Procs, RecordCommit(p) PROVE FiniteEvents' /\ CountersMatchEvents'
  <2>1. req[p] \notin events /\ req[p] \in Event
    BY <1>1 DEF RecordCommit, ReqIsFresh
  <2>2. /\ events' = events \cup {req[p]}
        /\ total' = total + (IF Counted(req[p]) THEN 1 ELSE 0)
        /\ unique' = unique + (IF req[p].unique THEN 1 ELSE 0)
    BY <1>1 DEF RecordCommit
  <2> DEFINE C == {e \in events \cup {req[p]} : Counted(e)}
             U == {e \in events \cup {req[p]} : e.unique}
  <2>3. /\ C \cap events = {e \in events : Counted(e)}
        /\ U \cap events = {e \in events : e.unique}
        /\ req[p] \in C <=> Counted(req[p])
        /\ req[p] \in U <=> req[p].unique
    OBVIOUS
  <2>4. C \in SUBSET (events \cup {req[p]}) /\ U \in SUBSET (events \cup {req[p]})
    OBVIOUS
  <2> HIDE DEF C, U
  <2>5. /\ IsFiniteSet(events \cup {req[p]})
        /\ Cardinality(C) = Cardinality(C \cap events) + (IF req[p] \in C THEN 1 ELSE 0)
        /\ Cardinality(U) = Cardinality(U \cap events) + (IF req[p] \in U THEN 1 ELSE 0)
    BY <2>1, <2>4, OneMore DEF FiniteEvents
  <2>6. total' = Cardinality(C)
    BY <2>2, <2>3, <2>5 DEF CountersMatchEvents
  <2>7. unique' = Cardinality(U)
    BY <2>2, <2>3, <2>5 DEF CountersMatchEvents
  <2>8. C = {e \in events' : Counted(e)} /\ U = {e \in events' : e.unique}
    BY <2>2 DEF C, U
  <2> QED BY <2>2, <2>5, <2>6, <2>7, <2>8 DEF FiniteEvents, CountersMatchEvents, Counted
<1>2. CASE UNCHANGED counters
  BY <1>2 DEF counters, FiniteEvents, CountersMatchEvents, Counted
<1> QED BY <1>1, <1>2, OnlyCommitCounts

LEMMA NextDistinct == ReqIsFresh /\ IdsDistinct /\ [Next]_vars => IdsDistinct'
<1> SUFFICES ASSUME ReqIsFresh, IdsDistinct, [Next]_vars PROVE IdsDistinct'
  OBVIOUS
<1>1. ASSUME NEW p \in Procs, RecordCommit(p) PROVE IdsDistinct'
  BY <1>1 DEF RecordCommit, ReqIsFresh, IdsDistinct
<1>2. CASE UNCHANGED counters
  BY <1>2 DEF counters, IdsDistinct
<1> QED BY <1>1, <1>2, OnlyCommitCounts

-----------------------------------------------------------------------------
(* Visitors *)

LEMMA NextVisitors ==
    TypeOK /\ ReqIsFresh /\ VisitorsAgree /\ UniqueOncePerDay /\ [Next]_vars
      => VisitorsAgree' /\ UniqueOncePerDay'
<1> SUFFICES ASSUME TypeOK, ReqIsFresh, VisitorsAgree, UniqueOncePerDay, [Next]_vars
             PROVE  VisitorsAgree' /\ UniqueOncePerDay'
  OBVIOUS
<1> USE DEF TypeOK
<1>1. ASSUME UNCHANGED <<events, visitors>> PROVE UniqueOncePerDay'
  BY <1>1 DEF UniqueOncePerDay
<1>2. ASSUME NEW p \in Procs, NEW v \in Visitors, NEW form, scan(p, v, form)
      PROVE  VisitorsAgree' /\ UniqueOncePerDay'
  <2>1. \A q \in Procs : pc'[q] = "recording" =>
            pc[q] = "recording" /\ req'[q] = req[q]
    BY <1>2 DEF scan
  <2>2. UNCHANGED <<events, visitors>>
    BY <1>2 DEF scan, counters
  <2> QED BY <1>1, <2>1, <2>2 DEF VisitorsAgree
<1>3. ASSUME NEW p \in Procs, RecordVisitor(p) PROVE VisitorsAgree' /\ UniqueOncePerDay'
  <2> DEFINE u == Counted(req[p]) /\ VisitorDay(req[p]) \notin visitors
  <2>1. UNCHANGED <<events, visitors>>
    BY <1>3 DEF RecordVisitor, counters
  <2>2. req[p] \in Event
    BY <1>3 DEF RecordVisitor, ReqIsFresh
  <2>3. /\ req'[p].unique = u
        /\ VisitorDay(req'[p]) = VisitorDay(req[p])
        /\ Counted(req'[p]) = Counted(req[p])
    BY <1>3, <2>2 DEF RecordVisitor, Event, VisitorDay, Counted
  <2>4. \A q \in Procs : q # p => req'[q] = req[q] /\ pc'[q] = pc[q]
    BY <1>3 DEF RecordVisitor
  <2>5. Counted(req[p]) =>
            \A q \in Procs : pc[q] = "recording" /\ req[q].unique
                               => VisitorDay(req[q]) # VisitorDay(req[p])
    BY <1>3 DEF RecordVisitor, Pending
  <2> HIDE DEF u
  <2>6. VisitorsAgree'
    <3>1. \A e \in events' : e.unique => Counted(e)
      BY <2>1 DEF VisitorsAgree
    <3>2. ASSUME NEW q \in Procs, pc'[q] = "recording"
          PROVE  /\ req'[q].unique => Counted(req'[q]) /\ VisitorDay(req'[q]) \notin visitors
                 /\ Counted(req'[q]) /\ ~req'[q].unique => VisitorDay(req'[q]) \in visitors
      BY <2>3, <2>4, <3>2 DEF VisitorsAgree, u
    <3>3. ASSUME NEW q \in Procs, NEW r \in Procs, r # q,
                 pc'[q] = "recording", pc'[r] = "recording", req'[q].unique, req'[r].unique
          PROVE  VisitorDay(req'[r]) # VisitorDay(req'[q])
      <4>1. CASE q = p
        BY <2>3, <2>4, <2>5, <3>3, <4>1 DEF u
      <4>2. CASE r = p
        BY <2>3, <2>4, <2>5, <3>3, <4>2 DEF u
      <4>3. CASE q # p /\ r # p
        BY <2>4, <3>3, <4>3 DEF VisitorsAgree
      <4> QED BY <4>1, <4>2, <4>3
    <3> QED BY <2>1, <3>1, <3>2, <3>3 DEF VisitorsAgree, Counted, VisitorDay
  <2> QED BY <1>1, <2>1, <2>6
<1>4. ASSUME NEW p \in Procs, RecordCommit(p) PROVE VisitorsAgree' /\ UniqueOncePerDay'
  <2>1. /\ events' = events \cup {req[p]}
        /\ visitors' = visitors \cup (IF req[p].unique THEN {VisitorDay(req[p])} ELSE {})
        /\ pc[p] = "recording"
    BY <1>4 DEF RecordCommit
  <2>2. \A q \in Procs : pc'[q] = "recording" =>
            q # p /\ pc[q] = "recording" /\ req'[q] = req[q]
    BY <1>4 DEF RecordCommit, Answer
  <2>3. /\ req[p].unique => Counted(req[p]) /\ VisitorDay(req[p]) \notin visitors
        /\ Counted(req[p]) /\ ~req[p].unique => VisitorDay(req[p]) \in visitors
    BY <2>1 DEF VisitorsAgree
  <2>4. VisitorsAgree'
    BY <2>1, <2>2, <2>3 DEF VisitorsAgree
  <2>5. \A e \in events : e.unique => VisitorDay(e) \in visitors
    BY DEF VisitorsAgree, UniqueOncePerDay
  <2>6. ASSUME NEW e \in events', NEW f \in events', e.unique, f.unique,
               VisitorDay(e) = VisitorDay(f)
        PROVE  e = f
    BY <2>1, <2>3, <2>5, <2>6 DEF UniqueOncePerDay
  <2>7. visitors' = {VisitorDay(e) : e \in {f \in events' : Counted(f)}}
    <3>1. visitors = {VisitorDay(e) : e \in {f \in events : Counted(f)}}
      BY DEF UniqueOncePerDay
    <3>2. CASE req[p].unique
      BY <2>1, <2>3, <3>1, <3>2
    <3>3. CASE ~req[p].unique
      BY <2>1, <2>3, <3>1, <3>3
    <3> QED BY <3>2, <3>3
  <2> QED BY <2>4, <2>6, <2>7 DEF UniqueOncePerDay, VisitorDay, Counted
<1>5. ASSUME NEW p \in Procs, RecordFail(p) PROVE VisitorsAgree' /\ UniqueOncePerDay'
  <2>1. \A q \in Procs : pc'[q] = "recording" =>
            pc[q] = "recording" /\ req'[q] = req[q]
    BY <1>5 DEF RecordFail, Answer
  <2>2. UNCHANGED <<events, visitors>>
    BY <1>5 DEF RecordFail, counters
  <2> QED BY <1>1, <2>1, <2>2 DEF VisitorsAgree
<1>6. CASE UNCHANGED <<events, visitors, pc, req>>
  BY <1>1, <1>6 DEF VisitorsAgree
<1> QED
  BY <1>2, <1>3, <1>4, <1>5, <1>6 DEF Next, Record, Change, Midnight, vars, counters

-----------------------------------------------------------------------------
(* The scan limit *)

LEMMA InFlightFinite ==
    /\ IsFiniteSet(InFlight) /\ Cardinality(InFlight) \in Nat
    /\ Cardinality(InFlight) <= Cardinality(Procs)
    /\ Cardinality(Procs) \in Nat
<1>1. InFlight \in SUBSET Procs
  BY DEF InFlight
<1> QED BY <1>1, RedirectAssumption, FS_Subset, FS_CardinalityType

\* The count and the scans in flight do not grow together by a step that adds
\* no scan to those in flight.
LEMMA OvershootKept ==
    ASSUME TypeOK, LimitOvershoot, granted' = granted,
           \/ InFlight' \subseteq InFlight /\ total' = total
           \/ \E p \in InFlight : InFlight' = InFlight \ {p} /\ total' = total + 1
    PROVE  LimitOvershoot'
<1>1. total \in Nat /\ granted \subseteq Nat
  BY DEF TypeOK
<1>2. total' + Cardinality(InFlight') <= total + Cardinality(InFlight)
  <2>1. CASE InFlight' \subseteq InFlight /\ total' = total
    <3>1. Cardinality(InFlight') <= Cardinality(InFlight) /\ Cardinality(InFlight') \in Nat
      BY <2>1, InFlightFinite, FS_Subset, FS_CardinalityType
    <3> QED BY <1>1, <2>1, <3>1, InFlightFinite
  <2>2. ASSUME NEW p \in InFlight, InFlight' = InFlight \ {p}, total' = total + 1
        PROVE  total' + Cardinality(InFlight') <= total + Cardinality(InFlight)
    <3>1. Cardinality(InFlight') = Cardinality(InFlight) - 1
      BY <2>2, InFlightFinite, FS_RemoveElement
    <3> QED BY <1>1, <2>2, <3>1, InFlightFinite
  <2> QED BY <2>1, <2>2
<1>3. total' \in Nat /\ Cardinality(InFlight') \in Nat
  <2>1. IsFiniteSet(InFlight')
    BY InFlightFinite, FS_Subset
  <2> QED BY <1>1, <2>1, FS_CardinalityType
<1>4. ASSUME NEW l \in granted, total + Cardinality(InFlight) < l + Cardinality(Procs)
      PROVE  total' + Cardinality(InFlight') < l + Cardinality(Procs)
  BY <1>1, <1>2, <1>3, <1>4, InFlightFinite
<1> QED BY <1>4 DEF LimitOvershoot

LEMMA NextOvershoot ==
    TypeOK /\ ReqIsFresh /\ VisitorsAgree /\ LimitGranted /\ LimitOvershoot /\ [Next]_vars
      => LimitGranted' /\ LimitOvershoot'
<1> SUFFICES ASSUME TypeOK, ReqIsFresh, VisitorsAgree, LimitGranted, LimitOvershoot, [Next]_vars
             PROVE  LimitGranted' /\ LimitOvershoot'
  OBVIOUS
<1> USE DEF code, counters
<1>1. ASSUME NEW p \in Procs, NEW v \in Visitors, NEW form, scan(p, v, form)
      PROVE  LimitGranted' /\ LimitOvershoot'
  <2>1. UNCHANGED <<qr, granted, total>>
    BY <1>1 DEF scan
  <2>2. PICK outcome \in Outcomes :
           /\ Gate(outcome, form)
           /\ req' = [req EXCEPT ![p] = [id |-> scans + 1, visitor |-> v,
                     outcome |-> outcome, day |-> day, unique |-> FALSE]]
    BY <1>1 DEF scan
  <2>3. req'[p].outcome = outcome /\ \A q \in Procs : q # p => req'[q] = req[q] /\ pc'[q] = pc[q]
    BY <1>1, <2>2 DEF scan, TypeOK
  <2>4. CASE outcome = "redirect" /\ 0 \notin granted
    <3>1. qr.limit \in granted /\ qr.limit \in Nat \ {0} /\ total \in Nat
      BY <2>4 DEF LimitGranted, TypeOK
    <3>2. total < qr.limit
      BY <2>2, <2>4, <3>1 DEF Gate, Shut, OverLimit
    <3>3. Cardinality(InFlight') <= Cardinality(Procs) /\ Cardinality(InFlight') \in Nat
      <4>1. InFlight' \in SUBSET Procs
        BY DEF InFlight
      <4> QED BY <4>1, RedirectAssumption, FS_Subset, FS_CardinalityType
    <3>4. total + Cardinality(InFlight') < qr.limit + Cardinality(Procs)
      BY <3>1, <3>2, <3>3, InFlightFinite
    <3> QED BY <2>1, <3>1, <3>4 DEF LimitGranted, LimitOvershoot
  <2>5. CASE outcome # "redirect"
    <3>1. InFlight' \subseteq InFlight
      BY <2>3, <2>5 DEF InFlight, Counted
    <3> QED BY <2>1, <3>1, OvershootKept DEF LimitGranted
  <2>6. CASE 0 \in granted
    BY <2>1, <2>6 DEF LimitGranted, LimitOvershoot
  <2> QED BY <2>4, <2>5, <2>6
<1>2. ASSUME NEW p \in Procs, RecordVisitor(p) PROVE LimitGranted' /\ LimitOvershoot'
  <2>1. req[p] \in Event
    BY <1>2 DEF RecordVisitor, ReqIsFresh
  <2>2. \A q \in Procs : /\ pc'[q] # "idle" => pc[q] # "idle"
                         /\ Counted(req'[q]) = Counted(req[q])
    BY <1>2, <2>1 DEF RecordVisitor, TypeOK, Event, Counted
  <2>3. InFlight' \subseteq InFlight
    BY <2>2 DEF InFlight, Counted
  <2>4. UNCHANGED <<qr, granted, total>>
    BY <1>2 DEF RecordVisitor
  <2> QED BY <2>3, <2>4, OvershootKept DEF LimitGranted
<1>3. ASSUME NEW p \in Procs, RecordCommit(p) PROVE LimitGranted' /\ LimitOvershoot'
  <2>1. UNCHANGED <<qr, granted>> /\ total' = total + (IF Counted(req[p]) THEN 1 ELSE 0)
    BY <1>3 DEF RecordCommit
  <2>2. /\ pc'[p] = "idle" /\ pc[p] # "idle"
        /\ \A q \in Procs : q # p => req'[q] = req[q] /\ pc'[q] = pc[q]
    BY <1>3 DEF RecordCommit, Answer, TypeOK
  <2>3. CASE Counted(req[p])
    <3>1. p \in InFlight /\ InFlight' = InFlight \ {p}
      BY <2>2, <2>3 DEF InFlight, Counted
    <3>2. total' = total + 1
      BY <2>1, <2>3
    <3> QED BY <2>1, <3>1, <3>2, OvershootKept DEF LimitGranted
  <2>4. CASE ~Counted(req[p])
    <3>1. InFlight' \subseteq InFlight
      BY <2>2 DEF InFlight, Counted
    <3>2. total' = total
      BY <2>1, <2>4 DEF TypeOK
    <3> QED BY <2>1, <3>1, <3>2, OvershootKept DEF LimitGranted
  <2> QED BY <2>3, <2>4
<1>4. ASSUME NEW p \in Procs, RecordFail(p) PROVE LimitGranted' /\ LimitOvershoot'
  <2>1. UNCHANGED <<qr, granted, total>>
    BY <1>4 DEF RecordFail
  <2>2. \A q \in Procs : pc'[q] # "idle" => pc[q] # "idle" /\ req'[q] = req[q]
    BY <1>4 DEF RecordFail, Answer, TypeOK
  <2>3. InFlight' \subseteq InFlight
    BY <2>2 DEF InFlight, Counted
  <2> QED BY <2>1, <2>3, OvershootKept DEF LimitGranted
<1>5. ASSUME NEW r \in Rows, Change(r) PROVE LimitGranted' /\ LimitOvershoot'
  <2>1. InFlight' = InFlight
    BY <1>5 DEF Change, InFlight, Counted
  <2>2. granted \subseteq granted' /\ total' = total /\ qr'.limit \in granted'
    BY <1>5 DEF Change
  <2> QED BY <2>1, <2>2 DEF LimitGranted, LimitOvershoot
<1>6. CASE UNCHANGED <<qr, granted, total, pc, req>>
  <2>1. InFlight' = InFlight
    BY <1>6 DEF InFlight, Counted
  <2> QED BY <1>6, <2>1 DEF LimitGranted, LimitOvershoot
<1> QED
  BY <1>1, <1>2, <1>3, <1>4, <1>5, <1>6 DEF Next, Record, Midnight, vars

-----------------------------------------------------------------------------
(* The theorems *)

LEMMA InitInv == Init => IInv
<1> SUFFICES ASSUME Init PROVE IInv
  OBVIOUS
<1>1. TypeOK
  BY InitType
<1>2. ReqIsFresh /\ VisitorsAgree /\ LimitGranted
  BY DEF Init, ReqIsFresh, VisitorsAgree, LimitGranted
<1>3. FiniteEvents /\ CountersMatchEvents /\ IdsDistinct
  <2>1. {e \in events : Counted(e)} = {} /\ {e \in events : e.unique} = {}
    BY DEF Init
  <2> QED BY <2>1, FS_EmptySet DEF Init, FiniteEvents, IdsDistinct, CountersMatchEvents
<1>4. UniqueOncePerDay
  BY DEF Init, UniqueOncePerDay
<1>5. LimitOvershoot
  <2>1. InFlight = {}
    BY DEF Init, InFlight
  <2>2. Cardinality(InFlight) = 0
    BY <2>1, FS_EmptySet
  <2>3. granted = {qr.limit} /\ qr.limit \in Nat /\ total = 0
    BY <1>1 DEF Init, TypeOK
  <2> QED BY <2>2, <2>3, InFlightFinite DEF LimitOvershoot
<1> QED BY <1>1, <1>2, <1>3, <1>4, <1>5 DEF IInv

LEMMA NextInv == IInv /\ [Next]_vars => IInv'
  BY NextType, NextFresh, NextCounters, NextDistinct, NextVisitors, NextOvershoot DEF IInv

LEMMA Invariance == Spec => []IInv
<1> QED BY InitInv, NextInv, PTL DEF Spec

\* The row of the code, the counters and the requests keep their types.
THEOREM TypeCorrect == Spec => []TypeOK
<1>1. IInv => TypeOK
  BY DEF IInv
<1> QED BY <1>1, Invariance, PTL

\* total_scans and unique_scans always agree with scan_events, whatever scans
\* commit at the same time and whichever are rolled back.
THEOREM CountersAgree == Spec => []CountersMatchEvents
<1>1. IInv => CountersMatchEvents
  BY DEF IInv
<1> QED BY <1>1, Invariance, PTL

\* A visitor is unique once a day, however many scans it makes at once.
THEOREM VisitorsAreUniqueOnce == Spec => []UniqueOncePerDay
<1>1. IInv => UniqueOncePerDay
  BY DEF IInv
<1> QED BY <1>1, Invariance, PTL

\* The scan limit is exceeded by less than the number of requests served at
\* once.
THEOREM OvershootIsBounded == Spec => []LimitOvershoot
<1>1. IInv => LimitOvershoot
  BY DEF IInv
<1> QED BY <1>1, Invariance, PTL

-----------------------------------------------------------------------------
(* The redirect keeps the promise of the ingest pipeline *)

\* The one row that a commit records.
RowOf(e) == [event |-> e.id, counted |-> Counted(e)]

LEMMA CommitRecords ==
    ASSUME IInv, NEW p \in Procs, RecordCommit(p)
    PROVE  Promise!Next
<1> DEFINE new == {RowOf(req[p])}
           Counting == {r \in new : r.counted}
<1>1. /\ req[p] \in Event /\ \A e \in events : e.id # req[p].id
      /\ events' = events \cup {req[p]} /\ total \in Nat
      /\ total' = total + (IF Counted(req[p]) THEN 1 ELSE 0)
  BY DEF RecordCommit, IInv, TypeOK, ReqIsFresh
<1>2. new \subseteq [event : 1 .. MaxScans, counted : BOOLEAN]
  BY <1>1 DEF RowOf, Event, Counted
<1>3. Recorded = {RowOf(e) : e \in events} /\ Recorded' = Recorded \cup new
  BY <1>1 DEF Recorded, RowOf, Counted
<1>4. \A e \in events : RowOf(e).event # RowOf(req[p]).event
  BY <1>1 DEF RowOf
<1>5. \A r, s \in Recorded : r.event = s.event => r = s
  <2> SUFFICES ASSUME NEW e \in events, NEW f \in events, RowOf(e).event = RowOf(f).event
               PROVE  RowOf(e) = RowOf(f)
    BY <1>3
  <2>1. e.id = f.id
    BY DEF RowOf
  <2> QED
    BY <2>1 DEF IInv, IdsDistinct
<1>6. \A r, s \in Recorded \cup new : r.event = s.event => r = s
  BY <1>3, <1>4, <1>5
<1>7. Recorded \cap new = {}
  BY <1>3, <1>4
<1>8. Cardinality(Counting) = IF Counted(req[p]) THEN 1 ELSE 0
  <2>1. CASE Counted(req[p])
    <3>1. Counting = {RowOf(req[p])}
      BY <2>1 DEF RowOf
    <3> QED
      BY <2>1, <3>1, FS_Singleton
  <2>2. CASE ~Counted(req[p])
    <3>1. Counting = {}
      BY <2>2 DEF RowOf
    <3> QED
      BY <2>2, <3>1, FS_EmptySet
  <2> QED
    BY <2>1, <2>2
<1>9. Promise!Cardinality(Counting) = Cardinality(Counting)
  BY DEF Promise!Cardinality, Cardinality, Promise!IsFiniteSet, IsFiniteSet
<1>10. total' = total + Promise!Cardinality(Counting)
  BY <1>1, <1>8, <1>9
<1>11. Promise!Record(new)
  BY <1>3, <1>6, <1>7, <1>10 DEF Promise!Record
<1> QED
  BY <1>2, <1>11 DEF Promise!Next

\* Each scan is recorded once and counted in the same step if it counts, or not
\* at all, whatever commits and rollbacks are interleaved: the redirect of the
\* Django backend and the pipeline of the Go services keep the same promise.
THEOREM RedirectImplements == Spec => Implements
<1>1. Init => Promise!Init
  BY DEF Init, Promise!Init, Recorded
<1>2. IInv /\ [Next]_vars => [Promise!Next]_<<Recorded, total>>
  <2>1. ASSUME UNCHANGED counters PROVE UNCHANGED <<Recorded, total>>
    BY <2>1 DEF counters, Recorded, Counted
  <2> QED
    BY <2>1, OnlyCommitCounts, CommitRecords
<1> QED
  BY <1>1, <1>2, Invariance, PTL DEF Spec, Implements, Promise!Spec

-----------------------------------------------------------------------------
(* Every scan that passed the gates is answered *)

\* Scan i, which passed the gates, is at a stage in request p.
At(p, i, stage) == pc[p] = stage /\ Passed(p, i)

\* A scan stays where it is until its own worker takes a step, which leads on.
LEMMA ScanSteps ==
    ASSUME NEW p \in Procs, NEW i \in 1 .. MaxScans, IInv, [Next]_vars
    PROVE  /\ At(p, i, "record") =>
                At(p, i, "record")' \/ At(p, i, "recording")' \/ (i \in served)'
           /\ At(p, i, "recording") => At(p, i, "recording")' \/ (i \in served)'
           /\ At(p, i, "record") /\ <<Serve(p)>>_vars =>
                At(p, i, "recording")' \/ (i \in served)'
           /\ At(p, i, "recording") /\ <<Serve(p)>>_vars => (i \in served)'
<1>1. TypeOK /\ (pc[p] # "idle" => req[p] \in Event)
  BY DEF IInv, ReqIsFresh
<1> USE <1>1 DEF TypeOK, At, Passed
<1>2. ASSUME pc'[p] = pc[p], req'[p] = req[p]
      PROVE  \A stage : At(p, i, stage) => At(p, i, stage)'
  BY <1>2
<1>3. ASSUME NEW q \in Procs, Serve(q), q # p
      PROVE  pc'[p] = pc[p] /\ req'[p] = req[p]
  BY <1>3 DEF Serve, Record, RecordVisitor, RecordCommit, RecordFail, Answer
<1>4. ASSUME NEW q \in Procs, NEW v, NEW form, scan(q, v, form), pc[p] # "idle"
      PROVE  pc'[p] = pc[p] /\ req'[p] = req[p]
  BY <1>4 DEF scan
<1>5. ASSUME RecordVisitor(p)
      PROVE  pc[p] = "record" /\ (At(p, i, "record") => At(p, i, "recording")')
  <2>1. /\ pc[p] = "record" /\ pc'[p] = "recording"
        /\ req'[p] = [req[p] EXCEPT !.unique = Counted(req[p]) /\ VisitorDay(req[p]) \notin visitors]
    BY <1>5 DEF RecordVisitor
  <2>2. req[p] \in Event
    BY <2>1
  <2>3. req'[p].id = req[p].id /\ req'[p].outcome = req[p].outcome /\ req'[p] \in Event
    BY <2>1, <2>2 DEF Event
  <2> QED
    BY <2>1, <2>3
<1>6. ASSUME RecordCommit(p) \/ RecordFail(p), Passed(p, i) PROVE i \in served'
  BY <1>6 DEF RecordCommit, RecordFail, Answer
<1>7. CASE Serve(p)
  BY <1>5, <1>6, <1>7 DEF Serve, Record
<1>8. CASE ~Serve(p)
  <2>1. (pc[p] # "idle") => (pc'[p] = pc[p] /\ req'[p] = req[p])
    BY <1>3, <1>4, <1>8 DEF Next, Serve, Change, Midnight, vars
  <2> QED
    BY <2>1, <1>2, <1>8 DEF vars
<1> QED
  BY <1>7, <1>8

\* RedirectsAreServed, from the fairness of the workers alone: a scan goes through
\* at most two stages, of which each ends, in a record or in its failure, and
\* neither loses the answer.  The hypothesis says that the fair steps are enabled,
\* which RecordFail sees to.
THEOREM ScansAreAnswered == Spec /\ []ScansGoOn => RedirectsAreServed
<1> SUFFICES ASSUME NEW x \in Procs, NEW i \in 1 .. MaxScans
             PROVE  Spec /\ []ScansGoOn => IsServed(x, i)
  BY DEF RedirectsAreServed
<1>1. IInv /\ At(x, i, "record") /\ [Next]_vars =>
        At(x, i, "record")' \/ At(x, i, "recording")' \/ (i \in served)'
  BY ScanSteps
<1>2. IInv /\ At(x, i, "recording") /\ [Next]_vars => At(x, i, "recording")' \/ (i \in served)'
  BY ScanSteps
<1>3. IInv /\ [Next]_vars /\ At(x, i, "record") /\ <<Serve(x)>>_vars =>
        At(x, i, "recording")' \/ (i \in served)'
  BY ScanSteps
<1>4. IInv /\ [Next]_vars /\ At(x, i, "recording") /\ <<Serve(x)>>_vars =>
        (i \in served)'
  BY ScanSteps
<1>5. ScansGoOn /\ (At(x, i, "record") \/ At(x, i, "recording")) => CanServe(x)
  BY DEF ScansGoOn, At
<1>6. IInv /\ Passed(x, i) => At(x, i, "record") \/ At(x, i, "recording")
  BY DEF IInv, TypeOK, Passed, At
<1>7. (\A p \in Procs : Fairness(p)) => Fairness(x)
  OBVIOUS
<1>8. Fairness(x) => WF_vars(Serve(x))
  BY PTL DEF Fairness
<1>9. Spec => WF_vars(Serve(x)) /\ [][Next]_vars
  BY <1>7, <1>8, PTL DEF Spec
<1>10. []IInv /\ [][Next]_vars /\ WF_vars(Serve(x)) /\ []ScansGoOn
        => (At(x, i, "recording") ~> i \in served)
  BY <1>2, <1>4, <1>5, PTL DEF CanServe
<1>11. []IInv /\ [][Next]_vars /\ WF_vars(Serve(x)) /\ []ScansGoOn
        => (At(x, i, "record") ~> (At(x, i, "recording") \/ i \in served))
  BY <1>1, <1>3, <1>5, PTL DEF CanServe
<1> QED
  BY <1>6, <1>9, <1>10, <1>11, Invariance, PTL DEF IsServed
=============================================================================
