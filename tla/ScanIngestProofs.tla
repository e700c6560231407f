-------------------------- MODULE ScanIngestProofs --------------------------
(***************************************************************************)
(* Proofs about ScanIngest, for any number of scans, consumers and         *)
(* messages and any batch size, buffer and number of deliveries.           *)
(***************************************************************************)
EXTENDS ScanIngest, FiniteSetTheorems, SequenceTheorems, TLAPS

\* A consumer makes one row of a scan, however often the batch holds it.
RowsDistinct ==
    \A c \in Consumers : \A r, s \in rows[c] : r.event = s.event => r = s

\* A consumer that has enriched its batch has a row for every valid message,
\* and one that has stored it finds them all in scan_events.
BatchHasRows ==
    \A c \in Consumers : \A m \in Valid(batch[c]) :
        /\ pc[c] = "enriched" => \E r \in rows[c] : r.event = stream[m]
        /\ pc[c] = "stored" => \E r \in stored : r.event = stream[m]

\* Of the messages a consumer was given, those that are to be dead-lettered are,
\* or wait for it; between batches it has none.
BatchIsWritten ==
    \A c \in Consumers :
        /\ letters[c] \subseteq batch[c]
        /\ pc[c] \in {"idle", "listed"} => batch[c] = {}
        /\ pc[c] = "dead" => batch[c] \ letters[c] \subseteq dlq \cup undone
        /\ pc[c] = "stored" =>
              (batch[c] \ Valid(batch[c])) \ letters[c] \subseteq dlq \cup undone

\* The inductive invariant: the counts need RowsDistinct, the acknowledgement
\* needs BatchHasRows and BatchIsWritten.
IInv == TypeOK /\ RowsDistinct /\ TotalIsExact /\ BatchHasRows /\ BatchIsWritten

-----------------------------------------------------------------------------
(* Finite sets *)

LEMMA BooleanFinite == IsFiniteSet(BOOLEAN)
<1>1. IsFiniteSet({TRUE} \cup {FALSE})
  BY FS_Singleton, FS_AddElement
<1>2. {TRUE} \cup {FALSE} = BOOLEAN
  OBVIOUS
<1> QED BY <1>1, <1>2

LEMMA RowFinite == IsFiniteSet(Row)
<1> DEFINE E == Events \ Invalid
           f == [p \in E \X BOOLEAN |-> [event |-> p[1], counted |-> p[2]]]
<1>1. IsFiniteSet(E \X BOOLEAN)
  <2>1. IsFiniteSet(E)
    BY IngestAssumption, FS_Subset
  <2> QED BY <2>1, BooleanFinite, FS_Product
<1>2. f \in [E \X BOOLEAN -> Row]
  BY DEF Row
<1>3. ASSUME NEW r \in Row PROVE \E p \in E \X BOOLEAN : f[p] = r
  <2>1. <<r.event, r.counted>> \in E \X BOOLEAN
    BY DEF Row
  <2>2. f[<<r.event, r.counted>>] = r
    BY <2>1 DEF Row
  <2> QED BY <2>1, <2>2
<1>4. f \in Surjection(E \X BOOLEAN, Row)
  BY <1>2, <1>3 DEF Surjection
<1> QED BY <1>1, <1>4, FS_Surjection

\* The number of counted rows grows by the counted rows that are added.
LEMMA CountedUnion ==
    ASSUME NEW S \in SUBSET Row, NEW T \in SUBSET Row, S \cap T = {}
    PROVE  Cardinality({r \in S \cup T : r.counted})
             = Cardinality({r \in S : r.counted}) + Cardinality({r \in T : r.counted})
<1> DEFINE A == {r \in S : r.counted}
           B == {r \in T : r.counted}
<1>1. IsFiniteSet(A) /\ IsFiniteSet(B)
  BY RowFinite, FS_Subset
<1>2. {r \in S \cup T : r.counted} = A \cup B
  OBVIOUS
<1>3. A \cap B = {}
  OBVIOUS
<1>4. Cardinality(A \cap B) = 0
  BY <1>3, FS_EmptySet
<1>5. Cardinality(A) \in Nat /\ Cardinality(B) \in Nat
  BY <1>1, FS_CardinalityType
<1>6. Cardinality(A \cup B) = Cardinality(A) + Cardinality(B) - Cardinality(A \cap B)
  BY <1>1, FS_Union
<1> HIDE DEF A, B
<1>7. Cardinality(A \cup B) = Cardinality(A) + Cardinality(B)
  BY <1>4, <1>5, <1>6
<1> QED BY <1>2, <1>7 DEF A, B

-----------------------------------------------------------------------------
(* Types *)

\* The deliveries after a read of n messages.
LEMMA DeliveriesType ==
    ASSUME TypeOK, NEW n \in Nat, NEW ms, NEW d,
           d = [m \in 1 .. read + n |-> IF m \in ms THEN 1 ELSE deliveries[m]],
           ms = read + 1 .. read + n
    PROVE  d \in [1 .. read + n -> 1 .. MaxDeliveries + 1]
<1>1. read \in Nat /\ MaxDeliveries \in Nat
  BY IngestAssumption DEF TypeOK
<1>2. ASSUME NEW m \in 1 .. read + n
      PROVE (IF m \in ms THEN 1 ELSE deliveries[m]) \in 1 .. MaxDeliveries + 1
  <2>1. CASE m \in ms
    BY <2>1, <1>1
  <2>2. CASE m \notin ms
    <3>1. m \in 1 .. read
      BY <2>2, <1>1
    <3> QED BY <3>1, <2>2 DEF TypeOK
  <2> QED BY <2>1, <2>2
<1> QED BY <1>2

LEMMA InitType == Init => TypeOK
<1> SUFFICES ASSUME Init PROVE TypeOK
  OBVIOUS
<1>1. deliveries \in [1 .. read -> 1 .. MaxDeliveries + 1]
  BY DEF Init
<1>2. QED
  BY <1>1, IngestAssumption DEF Init, TypeOK, Row, Processing

USE DEF Goto, Idle, Processing

LEMMA EmitterType == TypeOK /\ (EmitterStep \/ \E e \in Events : Emit(e)) => TypeOK'
<1> SUFFICES ASSUME TypeOK, EmitterStep \/ \E e \in Events : Emit(e) PROVE TypeOK'
  OBVIOUS
<1> USE IngestAssumption DEF TypeOK, group, written, table, local
<1>1. ASSUME NEW e \in Events, Emit(e) PROVE TypeOK'
  <2>1. buffer' \in Seq(Events) /\ Len(buffer') <= Buffer
    BY <1>1 DEF Emit
  <2>2. QED BY <1>1, <2>1 DEF Emit
<1>2. CASE BeginFlush
  <2>1. PICK n \in 1 .. Len(buffer) :
           /\ flushing' = SubSeq(buffer, 1, n)
           /\ buffer' = SubSeq(buffer, n + 1, Len(buffer))
    BY <1>2 DEF BeginFlush
  <2>2. /\ flushing' \in Seq(Events)
        /\ buffer' \in Seq(Events)
        /\ Len(buffer') <= Buffer
    BY <2>1, SubSeqProperties
  <2>3. sent = 0
    BY <1>2 DEF BeginFlush
  <2>4. sent' \in 0 .. Len(flushing')
    BY <1>2, <2>2, <2>3 DEF BeginFlush
  <2>5. QED BY <1>2, <2>2, <2>4 DEF BeginFlush
<1>3. CASE FlushAdd
  <2>1. stream' \in Seq(Events) /\ Len(stream') = Len(stream) + 1
    BY <1>3 DEF FlushAdd
  <2>2. sent' \in 0 .. Len(flushing')
    BY <1>3 DEF FlushAdd
  <2>3. read \in 0 .. Len(stream')
    BY <2>1
  <2>4. QED BY <1>3, <2>1, <2>2, <2>3 DEF FlushAdd
<1>4. CASE FlushDone
  BY <1>4 DEF FlushDone
<1>5. CASE FlushRetry
  BY <1>5 DEF FlushRetry
<1>6. CASE EmitterRestart
  BY <1>6 DEF EmitterRestart
<1>7. QED
  BY <1>1, <1>2, <1>3, <1>4, <1>5, <1>6 DEF EmitterStep

\* What XCLAIM changes.
LEMMA ClaimType ==
    ASSUME TypeOK, NEW ids \in SUBSET (1 .. read), XClaim(ids)
    PROVE  /\ deliveries' \in [1 .. read -> 1 .. MaxDeliveries + 1]
           /\ aged' = aged \ ids /\ aged' \subseteq pending
           /\ read' = read /\ pending' = pending
<1> USE DEF TypeOK, XClaim
<1>1. DOMAIN deliveries = 1 .. read /\ MaxDeliveries \in Nat
  BY IngestAssumption
<1>2. ASSUME NEW m \in 1 .. read
      PROVE (IF m \in ids \cap aged /\ deliveries[m] <= MaxDeliveries
             THEN deliveries[m] + 1 ELSE deliveries[m]) \in 1 .. MaxDeliveries + 1
  BY <1>1
<1>3. deliveries' = [m \in 1 .. read |->
                        IF m \in ids \cap aged /\ deliveries[m] <= MaxDeliveries
                        THEN deliveries[m] + 1 ELSE deliveries[m]]
  BY <1>1
<1>4. QED
  BY <1>2, <1>3

\* The rows enrich makes of the valid messages of a batch.
LEMMA EnrichRows ==
    ASSUME TypeOK, NEW c \in Consumers, Enrich(c)
    PROVE  \E counts \in [Events -> BOOLEAN] :
             rows' = [rows EXCEPT ![c] = {[event |-> stream[m], counted |-> counts[stream[m]]] :
                                              m \in Valid(batch[c])}]
<1> DEFINE ms == {m \in Valid(batch[c]) : stream[m] \in Countable}
           Of(v) == {m \in ms : Visitor[stream[m]] = v}
           Key(v) == IF dupKey[v] # None \/ Of(v) = {} THEN dupKey[v]
                     ELSE stream[CHOOSE m \in Of(v) : \A n \in Of(v) : m <= n]
           counts == [e \in Events |-> e \in Countable /\ Key(Visitor[e]) = e]
<1>1. rows' = [rows EXCEPT ![c] = {[event |-> stream[m],
                   counted |-> stream[m] \in Countable /\ Key(Visitor[stream[m]]) = stream[m]] :
                       m \in Valid(batch[c])}]
  BY DEF Enrich, EnrichOf
<1> HIDE DEF Key
<1>2. \A m \in Valid(batch[c]) : stream[m] \in Events
  BY DEF TypeOK, Valid
<1>3. rows' = [rows EXCEPT ![c] = {[event |-> stream[m], counted |-> counts[stream[m]]] :
                                      m \in Valid(batch[c])}]
  BY <1>1, <1>2
<1>4. counts \in [Events -> BOOLEAN]
  OBVIOUS
<1> HIDE DEF counts
<1>5. QED
  BY <1>3, <1>4

\* A nonempty set of naturals has a least element.
LEMMA LeastElement ==
    ASSUME NEW k \in Nat, NEW S \in SUBSET (1 .. k), S # {}
    PROVE  \E m \in S : \A n \in S : m <= n
<1>1. S \subseteq Nat
  OBVIOUS
<1>2. PICK m \in S : \A n \in S : ~ (<<n, m>> \in OpToRel(<, Nat))
  BY <1>1, NatLessThanWellFounded, WFMin
<1>3. ASSUME NEW n \in S PROVE m <= n
  <2>1. OpToRel(<, Nat) = {ss \in Nat \X Nat : ss[1] < ss[2]}
    BY Zenon DEF OpToRel
  <2>2. ~ (<<n, m>> \in {ss \in Nat \X Nat : ss[1] < ss[2]})
    BY <1>2, <2>1
  <2>3. n \in Nat /\ m \in Nat
    BY <1>1
  <2>4. ~ (n < m)
    BY <2>2, <2>3
  <2> QED BY <2>3, <2>4
<1> QED BY <1>3

\* The dedupe key is set by a scan of the batch.
LEMMA EnrichKey ==
    ASSUME TypeOK, NEW c \in Consumers, Enrich(c)
    PROVE  dupKey' \in [Visitors -> Events \cup {None}]
<1> DEFINE ms == {m \in Valid(batch[c]) : stream[m] \in Countable}
           Of(v) == {m \in ms : Visitor[stream[m]] = v}
           first(v) == CHOOSE m \in Of(v) : \A n \in Of(v) : m <= n
           Key(v) == IF dupKey[v] # None \/ Of(v) = {} THEN dupKey[v] ELSE stream[first(v)]
<1>1. dupKey' = [v \in Visitors |-> Key(v)]
  BY DEF Enrich, EnrichOf
<1>2. ASSUME NEW v \in Visitors, Of(v) # {} PROVE stream[first(v)] \in Events
  <2>1. Of(v) \in SUBSET (1 .. read)
    BY DEF TypeOK, Valid
  <2>2. \E m \in Of(v) : \A n \in Of(v) : m <= n
    <3>1. read \in Nat
      BY DEF TypeOK
    <3>2. QED BY <1>2, <2>1, <3>1, LeastElement
  <2>3. first(v) \in Of(v)
    BY <2>2
  <2>4. QED BY <2>1, <2>3 DEF TypeOK
<1>3. ASSUME NEW v \in Visitors PROVE Key(v) \in Events \cup {None}
  BY <1>2, <1>3 DEF TypeOK
<1> HIDE DEF Key
<1>4. QED BY <1>1, <1>3

LEMMA ReadType == ASSUME TypeOK, NEW c \in Consumers, Read(c) PROVE TypeOK'
<1> USE IngestAssumption DEF TypeOK, emitter, written, table
<1> DEFINE n == IF Len(stream) - read < BatchSize THEN Len(stream) - read ELSE BatchSize
           new == read + 1 .. read + n
<1>1. n \in Nat /\ read \in Nat /\ read + n \in 0 .. Len(stream)
  BY DEF Read
<1>2. /\ read' = read + n
      /\ pending' = pending \cup new
      /\ deliveries' = [m \in 1 .. read + n |-> IF m \in new THEN 1 ELSE deliveries[m]]
      /\ batch' = [batch EXCEPT ![c] = new]
  BY DEF Read
<1>3. deliveries' \in [1 .. read + n -> 1 .. MaxDeliveries + 1]
  BY <1>1, <1>2, DeliveriesType
<1> HIDE DEF n
<1>4. /\ 1 .. read \subseteq 1 .. read + n
      /\ new \subseteq 1 .. read + n
  BY <1>1
<1>5. pending' \subseteq 1 .. read'
  BY <1>2, <1>4
<1>6. batch' \in [Consumers -> SUBSET (1 .. read')]
  BY <1>2, <1>4
<1>7. /\ read' \in 0 .. Len(stream)
      /\ deliveries' \in [1 .. read' -> 1 .. MaxDeliveries + 1]
      /\ dlq \subseteq 1 .. read' /\ undone \subseteq 1 .. read'
      /\ aged \subseteq pending'
      /\ 1 .. read \subseteq 1 .. read'
  BY <1>1, <1>2, <1>3, <1>4
<1> QED BY <1>5, <1>6, <1>7 DEF Read

LEMMA ProcessType == ASSUME TypeOK, NEW c \in Consumers, Process(c) PROVE TypeOK'
<1> USE DEF TypeOK, emitter, written, table
<1>1. CASE Enrich(c)
  <2>1. PICK counts \in [Events -> BOOLEAN] :
           rows' = [rows EXCEPT ![c] = {[event |-> stream[m], counted |-> counts[stream[m]]] :
                                            m \in Valid(batch[c])}]
    BY <1>1, EnrichRows
  <2>2. \A m \in Valid(batch[c]) : stream[m] \in Events \ Invalid
    BY DEF Valid
  <2>3. {[event |-> stream[m], counted |-> counts[stream[m]]] : m \in Valid(batch[c])} \in SUBSET Row
    BY <2>2 DEF Row
  <2>4. rows' \in [Consumers -> SUBSET Row]
    BY <2>1, <2>3
  <2>5. dupKey' \in [Visitors -> Events \cup {None}]
    BY <1>1, EnrichKey
  <2> QED BY <1>1, <2>4, <2>5 DEF Enrich, EnrichOf, group
<1>2. CASE WriteBatch(c)
  <2> DEFINE new == {r \in Inserted(c) : r.counted}
  <2>1. Inserted(c) \subseteq Row
    BY DEF Inserted
  <2>2. Cardinality(new) \in Nat
    <3>1. IsFiniteSet(new)
      BY <2>1, RowFinite, FS_Subset
    <3> QED BY <3>1, FS_CardinalityType
  <2>3. stored' \subseteq Row /\ total' \in Nat
    <3>1. total' = total + Cardinality(new) /\ stored' = stored \cup Inserted(c)
      BY <1>2 DEF WriteBatch
    <3> HIDE DEF new
    <3> QED BY <2>1, <2>2, <3>1
  <2>4. letters' \in [Consumers -> SUBSET (1 .. read)]
    BY <1>2 DEF WriteBatch
  <2> QED BY <1>2, <2>3, <2>4 DEF WriteBatch, group
<1>3. ASSUME NEW acked \in BOOLEAN, Ack(c, acked) PROVE TypeOK'
  BY <1>3 DEF Ack, XAck
<1>4. ASSUME NEW acked \in BOOLEAN, AckDead(c, acked) PROVE TypeOK'
  BY <1>4 DEF AckDead, XAck
<1>5. CASE Fail(c)
  BY <1>5 DEF Fail, group
<1>6. CASE ClaimDead(c)
  <2>1. dead[c] \in SUBSET (1 .. read) /\ XClaim(dead[c])
    BY <1>6 DEF ClaimDead
  <2> QED BY <1>6, <2>1, ClaimType DEF ClaimDead
<1>7. CASE ClaimDeadFails(c)
  <2>1. dead[c] \in SUBSET (1 .. read)
    OBVIOUS
  <2>2. CASE XClaim(dead[c])
    BY <1>7, <2>1, <2>2, ClaimType DEF ClaimDeadFails
  <2>3. CASE UNCHANGED group
    BY <1>7, <2>3 DEF ClaimDeadFails, group
  <2> QED BY <1>7, <2>2, <2>3 DEF ClaimDeadFails
<1>8. CASE ClaimRetry(c)
  <2>1. retry[c] \in SUBSET (1 .. read) /\ XClaim(retry[c])
    BY <1>8 DEF ClaimRetry
  <2> QED BY <1>8, <2>1, ClaimType DEF ClaimRetry
<1>9. CASE toDLQ(c)
  BY <1>9 DEF toDLQ, group
<1> QED BY <1>1, <1>2, <1>3, <1>4, <1>5, <1>6, <1>7, <1>8, <1>9 DEF Process

LEMMA NextType == TypeOK /\ [Next]_vars => TypeOK'
<1> SUFFICES ASSUME TypeOK, [Next]_vars PROVE TypeOK'
  OBVIOUS
<1>1. ASSUME NEW v \in Visitors, WindowEnds(v) PROVE TypeOK'
  BY <1>1 DEF WindowEnds, TypeOK, emitter, group, written, table, local
<1>2. CASE UNCHANGED vars
  BY <1>2 DEF vars, TypeOK, emitter, group, written, table, local
<1>3. ASSUME NEW c \in Consumers, List(c) PROVE TypeOK'
  BY <1>3 DEF List, TypeOK, emitter, group, written, table
<1>4. ASSUME NEW m \in pending, Age(m) PROVE TypeOK'
  BY <1>4 DEF Age, TypeOK, emitter, written, table, local
<1> QED
  BY <1>1, <1>2, <1>3, <1>4, EmitterType, ReadType, ProcessType DEF Next

\* In every reachable state the stream, the group's pending messages, the
\* consumers and the tables keep their types; in particular no row is made of a
\* scan that decode rejects, and only what is pending can be listed and claimed.
THEOREM TypeCorrect == SafetySpec => []TypeOK
<1> QED BY InitType, NextType, PTL DEF SafetySpec

-----------------------------------------------------------------------------
(* Each scan is stored and counted once. *)

LEMMA NextRowsDistinct == TypeOK /\ RowsDistinct /\ [Next]_vars => RowsDistinct'
<1> SUFFICES ASSUME TypeOK, RowsDistinct, [Next]_vars PROVE RowsDistinct'
  OBVIOUS
<1>1. ASSUME NEW c \in Consumers, Enrich(c) PROVE RowsDistinct'
  <2>1. PICK counts \in [Events -> BOOLEAN] :
           rows' = [rows EXCEPT ![c] = {[event |-> stream[m], counted |-> counts[stream[m]]] :
                                            m \in Valid(batch[c])}]
    BY <1>1, EnrichRows
  <2>2. ASSUME NEW d \in Consumers, NEW r \in rows'[d], NEW s \in rows'[d], r.event = s.event
        PROVE  r = s
    <3>1. CASE d = c
      <4>1. rows'[d] = {[event |-> stream[m], counted |-> counts[stream[m]]] :
                            m \in Valid(batch[c])}
        BY <2>1, <3>1 DEF TypeOK
      <4> QED BY <2>2, <4>1
    <3>2. CASE d # c
      BY <2>1, <2>2, <3>2 DEF RowsDistinct, TypeOK
    <3> QED BY <3>1, <3>2
  <2> QED BY <2>2 DEF RowsDistinct
<1>2. ASSUME NEW c \in Consumers,
             \/ WriteBatch(c)
             \/ \E acked \in BOOLEAN : Ack(c, acked)
             \/ Fail(c)
      PROVE  RowsDistinct'
  BY <1>2 DEF RowsDistinct, TypeOK, WriteBatch, Ack, Fail
<1>3. CASE rows' = rows
  BY <1>3 DEF RowsDistinct
<1>4. CASE Next
  BY <1>1, <1>2, <1>3, <1>4
     DEF Next, Process, EmitterStep, Emit, BeginFlush, FlushAdd, FlushDone, FlushRetry,
         EmitterRestart, Read, List, Age, ClaimDead, ClaimDeadFails, toDLQ, AckDead, ClaimRetry,
         WindowEnds, local
<1> QED BY <1>3, <1>4 DEF vars, local

\* What a batch adds to scan_events and to the total.
LEMMA WriteBatchRecords ==
    ASSUME TypeOK, RowsDistinct, TotalIsExact, NEW c \in Consumers, WriteBatch(c)
    PROVE  /\ Inserted(c) \in SUBSET Row
           /\ Promise!Record(Inserted(c))
<1>1. Inserted(c) \in SUBSET Row
  BY DEF Inserted, TypeOK
<1>2. stored \cap Inserted(c) = {}
  BY DEF Inserted
<1>3. ASSUME NEW r \in stored \cup Inserted(c), NEW s \in stored \cup Inserted(c),
             r.event = s.event
      PROVE  r = s
  <2>1. Inserted(c) \subseteq rows[c]
    BY DEF Inserted
  <2>2. CASE r \in stored /\ s \in stored
    BY <1>3, <2>2 DEF TotalIsExact
  <2>3. CASE r \in Inserted(c) /\ s \in Inserted(c)
    BY <1>3, <2>1, <2>3 DEF RowsDistinct
  <2> QED BY <1>3, <2>2, <2>3 DEF Inserted
<1>4. Promise!Cardinality({r \in Inserted(c) : r.counted}) = Cardinality({r \in Inserted(c) : r.counted})
  BY DEF Promise!Cardinality, Cardinality, Promise!IsFiniteSet, IsFiniteSet
<1> QED BY <1>1, <1>2, <1>3, <1>4 DEF WriteBatch, Promise!Record

LEMMA NextTotal == TypeOK /\ RowsDistinct /\ TotalIsExact /\ [Next]_vars => TotalIsExact'
<1> SUFFICES ASSUME TypeOK, RowsDistinct, TotalIsExact, [Next]_vars PROVE TotalIsExact'
  OBVIOUS
<1>1. ASSUME NEW c \in Consumers, WriteBatch(c) PROVE TotalIsExact'
  <2> DEFINE A == {r \in stored : r.counted}
             B == {r \in Inserted(c) : r.counted}
  <2>1. /\ Inserted(c) \in SUBSET Row
        /\ Promise!Record(Inserted(c))
    BY <1>1, WriteBatchRecords
  <2>2. stored' = stored \cup Inserted(c) /\ total' = total + Cardinality(B)
    BY <1>1 DEF WriteBatch
  <2>3. stored \in SUBSET Row
    BY DEF TypeOK
  <2>4. stored \cap Inserted(c) = {}
    BY DEF Inserted
  <2>5. Cardinality({r \in stored \cup Inserted(c) : r.counted}) = Cardinality(A) + Cardinality(B)
    BY <2>1, <2>3, <2>4, CountedUnion
  <2>6. total = Cardinality(A)
    BY DEF TotalIsExact
  <2>7. total' = Cardinality({r \in stored' : r.counted})
    BY <2>2, <2>5, <2>6
  <2>8. \A r, s \in stored' : r.event = s.event => r = s
    BY <2>1, <2>2 DEF Promise!Record
  <2> QED BY <2>7, <2>8 DEF TotalIsExact
<1>2. CASE UNCHANGED <<stored, total>>
  BY <1>2 DEF TotalIsExact
<1>3. CASE Next
  BY <1>1, <1>2, <1>3
     DEF Next, Enrich, EnrichOf, Ack, Fail, Process, EmitterStep, Emit, BeginFlush, FlushAdd, FlushDone, FlushRetry,
         EmitterRestart, Read, List, Age, ClaimDead, ClaimDeadFails, toDLQ, AckDead, ClaimRetry,
         WindowEnds, table
<1> QED BY <1>2, <1>3 DEF vars, table

LEMMA InitTotal == Init => RowsDistinct /\ TotalIsExact
<1> SUFFICES ASSUME Init PROVE RowsDistinct /\ TotalIsExact
  OBVIOUS
<1>1. {r \in stored : r.counted} = {}
  BY DEF Init
<1> QED BY <1>1, FS_EmptySet DEF Init, RowsDistinct, TotalIsExact

-----------------------------------------------------------------------------
(* What has been delivered is kept. *)

\* Messages that have been delivered do not change.
LEMMA StreamGrows ==
    TypeOK /\ [Next]_vars => \A m \in 1 .. read : stream'[m] = stream[m]
<1> SUFFICES ASSUME TypeOK, [Next]_vars PROVE \A m \in 1 .. read : stream'[m] = stream[m]
  OBVIOUS
<1>1. CASE FlushAdd
  BY <1>1 DEF FlushAdd, TypeOK
<1>2. CASE stream' = stream
  BY <1>2
<1>3. CASE Next
  BY <1>1, <1>2, <1>3
     DEF Next, Process, Enrich, EnrichOf, WriteBatch, Ack, Fail, EmitterStep, Emit, BeginFlush,
         FlushDone, FlushRetry, EmitterRestart, Read, List, Age, ClaimDead, ClaimDeadFails,
         toDLQ, AckDead, ClaimRetry, WindowEnds
<1> QED BY <1>2, <1>3 DEF vars

\* The steps that concern no consumer's batch.
Outside ==
    \/ \E e \in Events : Emit(e)
    \/ EmitterStep
    \/ \E m \in pending : Age(m)
    \/ \E v \in Visitors : WindowEnds(v)

LEMMA OutsideLeaves ==
    Outside \/ UNCHANGED vars => UNCHANGED <<written, table, local, read, pending>>
  BY DEF Outside, Emit, EmitterStep, BeginFlush, FlushAdd, FlushDone, FlushRetry, EmitterRestart,
         Age, WindowEnds, vars, group, table

\* What is stored or dead-lettered stays so.
LEMMA SettledStays ==
    TypeOK /\ [Next]_vars => /\ stored \subseteq stored'
                             /\ dlq \cup undone \subseteq dlq' \cup undone'
                             /\ read <= read'
<1> SUFFICES ASSUME TypeOK, [Next]_vars
             PROVE  /\ stored \subseteq stored'
                    /\ dlq \cup undone \subseteq dlq' \cup undone'
                    /\ read <= read'
  OBVIOUS
<1>1. read \in Nat
  BY DEF TypeOK
<1>2. CASE Outside \/ UNCHANGED vars
  BY <1>1, <1>2, OutsideLeaves DEF written, table
<1>3. ASSUME NEW c \in Consumers, Read(c)
      PROVE  stored' = stored /\ dlq' = dlq /\ undone' = undone /\ read <= read'
  <2> DEFINE n == IF Len(stream) - read < BatchSize THEN Len(stream) - read ELSE BatchSize
  <2>1. n \in Nat /\ read' = read + n
    BY <1>1, <1>3, IngestAssumption DEF Read, TypeOK
  <2>2. read <= read'
    BY <1>1, <2>1
  <2> QED BY <1>3, <2>2 DEF Read, written, table
<1>4. ASSUME NEW c \in Consumers, List(c) \/ Process(c) PROVE read' = read
  BY <1>4 DEF List, Process, ClaimDead, ClaimDeadFails, toDLQ, ClaimRetry, AckDead, Enrich,
              EnrichOf, WriteBatch, Ack, Fail, XClaim, XAck, group
<1>5. ASSUME NEW c \in Consumers, List(c) \/ Process(c)
      PROVE  stored \subseteq stored' /\ dlq \cup undone \subseteq dlq' \cup undone'
  <2>1. CASE toDLQ(c)
    BY <2>1 DEF toDLQ, table
  <2>2. CASE WriteBatch(c)
    BY <2>2 DEF WriteBatch, written
  <2> QED
    BY <1>5, <2>1, <2>2
       DEF List, Process, ClaimDead, ClaimDeadFails, ClaimRetry, AckDead, Enrich, EnrichOf,
           Ack, Fail, written, table
<1> QED
  BY <1>1, <1>2, <1>3, <1>4, <1>5 DEF Next, Outside

LEMMA NextBatchHasRows == TypeOK /\ BatchHasRows /\ [Next]_vars => BatchHasRows'
<1> SUFFICES ASSUME TypeOK, BatchHasRows, [Next]_vars,
                    NEW d \in Consumers, NEW m \in Valid(batch[d])'
             PROVE  /\ pc'[d] = "enriched" => \E r \in rows'[d] : r.event = stream'[m]
                    /\ pc'[d] = "stored" => \E r \in stored' : r.event = stream'[m]
  BY DEF BatchHasRows
<1> DEFINE Has == /\ pc'[d] = "enriched" => \E r \in rows'[d] : r.event = stream'[m]
                  /\ pc'[d] = "stored" => \E r \in stored' : r.event = stream'[m]
<1>1. ASSUME batch'[d] = batch[d], pc'[d] = pc[d], rows'[d] = rows[d]
      PROVE  Has
  <2>1. m \in batch[d] /\ batch[d] \in SUBSET (1 .. read)
    BY <1>1 DEF Valid, TypeOK
  <2>2. stream'[m] = stream[m]
    BY <2>1, StreamGrows
  <2>3. m \in Valid(batch[d])
    BY <2>1, <2>2 DEF Valid
  <2> QED BY <1>1, <2>2, <2>3, SettledStays DEF BatchHasRows
<1>2. ASSUME NEW c \in Consumers, Enrich(c) PROVE Has
  <2>1. PICK counts \in [Events -> BOOLEAN] :
           rows' = [rows EXCEPT ![c] = {[event |-> stream[n], counted |-> counts[stream[n]]] :
                                            n \in Valid(batch[c])}]
    BY <1>2, EnrichRows
  <2>2. CASE d = c
    <3>1. pc'[d] = "enriched"
      BY <1>2, <2>2 DEF Enrich, EnrichOf, TypeOK
    <3>2. m \in Valid(batch[c])
      BY <1>2, <2>2 DEF Enrich, EnrichOf, Valid
    <3>3. rows'[d] = {[event |-> stream[n], counted |-> counts[stream[n]]] :
                          n \in Valid(batch[c])}
      BY <2>1, <2>2 DEF TypeOK
    <3>4. [event |-> stream[m], counted |-> counts[stream[m]]] \in rows'[d]
      BY <3>2, <3>3
    <3>5. stream'[m] = stream[m]
      BY <1>2 DEF Enrich, EnrichOf
    <3> QED BY <3>1, <3>4, <3>5
  <2>3. CASE d # c
    BY <1>1, <1>2, <2>1, <2>3 DEF Enrich, EnrichOf, TypeOK
  <2> QED BY <2>2, <2>3
<1>3. ASSUME NEW c \in Consumers, WriteBatch(c) PROVE Has
  <2>1. CASE d = c
    <3>1. pc[c] = "enriched" /\ pc'[d] = "stored" /\ stored' = stored \cup Inserted(c)
      BY <1>3, <2>1 DEF WriteBatch, TypeOK
    <3>2. m \in Valid(batch[c]) /\ stream' = stream
      BY <1>3, <2>1 DEF WriteBatch, Valid
    <3>3. PICK r \in rows[c] : r.event = stream[m]
      BY <3>1, <3>2 DEF BatchHasRows
    <3>4. \E s \in stored' : s.event = r.event
      BY <3>1 DEF Inserted
    <3> QED BY <3>1, <3>2, <3>3, <3>4
  <2>2. CASE d # c
    BY <1>1, <1>3, <2>2 DEF WriteBatch, TypeOK
  <2> QED BY <2>1, <2>2
<1>4. ASSUME NEW c \in Consumers,
             \/ Read(c) \/ List(c) \/ ClaimDead(c) \/ ClaimDeadFails(c) \/ ClaimRetry(c)
             \/ \E acked \in BOOLEAN : AckDead(c, acked) \/ Ack(c, acked)
             \/ Fail(c)
      PROVE  Has
  <2>1. CASE d = c
    BY <1>4, <2>1 DEF Read, List, ClaimDead, ClaimDeadFails, ClaimRetry, AckDead, Ack, Fail, TypeOK
  <2>2. CASE d # c
    BY <1>1, <1>4, <2>2
       DEF Read, List, ClaimDead, ClaimDeadFails, ClaimRetry, AckDead, Ack, Fail, TypeOK
  <2> QED BY <2>1, <2>2
<1>5. ASSUME NEW c \in Consumers, toDLQ(c) PROVE Has
  BY <1>1, <1>5 DEF toDLQ
<1>6. CASE Outside \/ UNCHANGED vars
  BY <1>1, <1>6, OutsideLeaves DEF local
<1> QED
  BY <1>2, <1>3, <1>4, <1>5, <1>6 DEF Next, Process, Outside

LEMMA NextBatchIsWritten == TypeOK /\ BatchIsWritten /\ [Next]_vars => BatchIsWritten'
<1> SUFFICES ASSUME TypeOK, BatchIsWritten, [Next]_vars, NEW d \in Consumers
             PROVE  (/\ letters[d] \subseteq batch[d]
                     /\ pc[d] \in {"idle", "listed"} => batch[d] = {}
                     /\ pc[d] = "dead" => batch[d] \ letters[d] \subseteq dlq \cup undone
                     /\ pc[d] = "stored" =>
                           (batch[d] \ Valid(batch[d])) \ letters[d] \subseteq dlq \cup undone)'
  BY DEF BatchIsWritten
<1> DEFINE Is == (/\ letters[d] \subseteq batch[d]
                  /\ pc[d] \in {"idle", "listed"} => batch[d] = {}
                  /\ pc[d] = "dead" => batch[d] \ letters[d] \subseteq dlq \cup undone
                  /\ pc[d] = "stored" =>
                        (batch[d] \ Valid(batch[d])) \ letters[d] \subseteq dlq \cup undone)'
<1>a. /\ letters[d] \subseteq batch[d]
      /\ pc[d] \in {"idle", "listed"} => batch[d] = {}
      /\ pc[d] = "dead" => batch[d] \ letters[d] \subseteq dlq \cup undone
      /\ pc[d] = "stored" => (batch[d] \ Valid(batch[d])) \ letters[d] \subseteq dlq \cup undone
  BY DEF BatchIsWritten
<1>b. Valid(batch[d])' = {m \in batch'[d] : stream'[m] \notin Invalid}
  BY DEF Valid
<1>c. \A m \in batch[d] : stream'[m] = stream[m]
  BY StreamGrows DEF TypeOK
<1>1. ASSUME batch'[d] = batch[d], pc'[d] = pc[d], letters'[d] = letters[d]
      PROVE  Is
  BY <1>1, <1>a, <1>b, <1>c, SettledStays DEF Valid
<1>2. ASSUME NEW c \in Consumers, toDLQ(c) PROVE Is
  <2>1. CASE d = c
    <3>1. PICK m \in letters[c] : /\ letters'[c] = letters[c] \ {m}
                                  /\ m \in dlq' \cup undone'
      BY <1>2 DEF toDLQ, TypeOK
    <3>2. batch' = batch /\ pc' = pc
      BY <1>2 DEF toDLQ
    <3> QED BY <1>a, <1>b, <1>c, <2>1, <3>1, <3>2, SettledStays DEF Valid
  <2>2. CASE d # c
    BY <1>1, <1>2, <2>2 DEF toDLQ, TypeOK
  <2> QED BY <2>1, <2>2
<1>3. ASSUME NEW c \in Consumers, d = c, WriteBatch(c) PROVE Is
  <2>1. /\ pc'[d] = "stored" /\ batch' = batch
        /\ letters'[d] = batch[d] \ Valid(batch[d])
    BY <1>3 DEF WriteBatch, TypeOK
  <2> QED BY <2>1, <1>b, <1>c DEF Valid
<1>4. ASSUME NEW c \in Consumers, d = c, ClaimDead(c) PROVE Is
  BY <1>4, <1>a DEF ClaimDead, TypeOK
<1>5. ASSUME NEW c \in Consumers, d = c,
             Read(c) \/ List(c) \/ ClaimDeadFails(c) \/ ClaimRetry(c) \/ Enrich(c) \/ Fail(c)
      PROVE  Is
  BY <1>5, <1>a DEF Read, List, ClaimDeadFails, ClaimRetry, Enrich, EnrichOf, Fail, TypeOK
<1>6. ASSUME NEW c \in Consumers, d = c, \E acked \in BOOLEAN : AckDead(c, acked) \/ Ack(c, acked)
      PROVE  Is
  BY <1>6, <1>a DEF AckDead, Ack, TypeOK
<1>7. ASSUME NEW c \in Consumers, d # c, Read(c) \/ List(c) \/ Process(c), ~toDLQ(c)
      PROVE  Is
  BY <1>1, <1>7 DEF Read, List, Process, ClaimDead, ClaimDeadFails, ClaimRetry, AckDead, Enrich,
                    EnrichOf, WriteBatch, Ack, Fail, TypeOK
<1>8. CASE Outside \/ UNCHANGED vars
  BY <1>1, <1>8, OutsideLeaves DEF local
<1> QED
  <2>1. ASSUME NEW c \in Consumers, Read(c) \/ List(c) \/ Process(c) PROVE Is
    BY <1>2, <1>3, <1>4, <1>5, <1>6, <1>7, <2>1 DEF Process
  <2> QED BY <1>8, <2>1 DEF Next, Outside

\* A consumer keeps what it has in hand until it is stored or dead-lettered, or
\* it fails.
LEMMA HandSteps ==
    ASSUME TypeOK, BatchHasRows, BatchIsWritten, [Next]_vars,
           NEW c \in Consumers, NEW m \in InHand(c)
    PROVE  \/ m \in InHand(c)'
           \/ m \in (dlq \cup undone)'
           \/ \E r \in stored' : r.event = stream'[m]
           \/ pc'[c] = "idle" /\ pending' = pending
<1> USE DEF InHand
<1>a. /\ letters[c] \subseteq batch[c]
      /\ pc[c] \in {"idle", "listed"} => batch[c] = {}
      /\ pc[c] = "dead" => batch[c] \ letters[c] \subseteq dlq \cup undone
      /\ pc[c] = "stored" => (batch[c] \ Valid(batch[c])) \ letters[c] \subseteq dlq \cup undone
  BY DEF BatchIsWritten
<1>b. m \in batch[c] /\ pc[c] \notin {"idle", "listed"}
  BY <1>a
<1>1. CASE letters'[c] = letters[c] /\ pc'[c] = pc[c] /\ batch'[c] = batch[c]
  BY <1>1
<1>2. CASE toDLQ(c)
  <2>1. PICK n \in letters[c] : letters'[c] = letters[c] \ {n} /\ n \in dlq' \cup undone'
    BY <1>2 DEF toDLQ, TypeOK
  <2> QED BY <1>2, <2>1 DEF toDLQ
<1>3. CASE Enrich(c)
  BY <1>3, <1>b DEF Enrich, EnrichOf, TypeOK
<1>4. CASE WriteBatch(c)
  BY <1>4, <1>b DEF WriteBatch, TypeOK
<1>5. ASSUME NEW acked \in BOOLEAN, Ack(c, acked)
      PROVE  m \in dlq' \cup undone' \/ \E r \in stored' : r.event = stream'[m]
  <2>1. m \in batch[c] /\ pc[c] = "stored" /\ letters[c] = {} /\ UNCHANGED <<written, table, stream>>
    BY <1>5, <1>b DEF Ack
  <2> QED BY <1>a, <2>1 DEF BatchHasRows, written, table
<1>6. CASE Fail(c)
  BY <1>6 DEF Fail, group, TypeOK
<1>7. CASE Read(c) \/ List(c) \/ ClaimDead(c) \/ ClaimDeadFails(c) \/ ClaimRetry(c)
  BY <1>7, <1>b DEF Read, List, ClaimDead, ClaimDeadFails, ClaimRetry
<1>8. ASSUME NEW acked \in BOOLEAN, AckDead(c, acked) PROVE FALSE
  BY <1>8 DEF AckDead
<1>9. ASSUME NEW d \in Consumers, d # c, Read(d) \/ List(d) \/ Process(d)
      PROVE  letters'[c] = letters[c] /\ pc'[c] = pc[c] /\ batch'[c] = batch[c]
  <2>1. CASE toDLQ(d)
    BY <1>9, <2>1 DEF toDLQ, TypeOK
  <2> QED
    BY <1>9, <2>1
       DEF Read, List, Process, ClaimDead, ClaimDeadFails, ClaimRetry, AckDead, Enrich,
           EnrichOf, WriteBatch, Ack, Fail, TypeOK
<1>10. CASE Outside \/ UNCHANGED vars
  BY <1>1, <1>10, OutsideLeaves DEF local
<1> QED
  <2>1. ASSUME NEW d \in Consumers, Read(d) \/ List(d) \/ Process(d)
        PROVE  \/ m \in InHand(c)'
               \/ m \in (dlq \cup undone)'
               \/ \E r \in stored' : r.event = stream'[m]
               \/ pc'[c] = "idle" /\ pending' = pending
    <3>1. CASE d = c
      BY <2>1, <3>1, <1>2, <1>3, <1>4, <1>5, <1>6, <1>7, <1>8 DEF Process
    <3>2. CASE d # c
      BY <2>1, <3>2, <1>1, <1>9
    <3> QED BY <3>1, <3>2
  <2> QED BY <2>1, <1>10 DEF Next, Outside

\* A pending message is acknowledged when its scan is stored, it is dead-lettered,
\* or a consumer lists it as dead that was not given it.
LEMMA PendingSteps ==
    ASSUME TypeOK, BatchHasRows, BatchIsWritten, [Next]_vars, NEW m \in pending
    PROVE  \/ m \in (pending \cup dlq \cup undone)'
           \/ \E r \in stored' : r.event = stream'[m]
           \/ \E c \in Consumers : AcknowledgedUnclaimed(c, m)
<1>1. CASE pending \subseteq pending'
  BY <1>1
<1>2. ASSUME NEW c \in Consumers, NEW acked \in BOOLEAN, Ack(c, acked)
      PROVE  m \in (pending \cup dlq \cup undone)' \/ \E r \in stored' : r.event = stream'[m]
  <2>1. /\ pc[c] = "stored" /\ letters[c] = {} /\ UNCHANGED <<written, table, stream>>
        /\ pending \ batch[c] \subseteq pending'
    BY <1>2 DEF Ack, XAck
  <2>2. m \in batch[c] => m \in dlq \cup undone \/ \E r \in stored : r.event = stream[m]
    BY <2>1 DEF BatchHasRows, BatchIsWritten
  <2> QED BY <2>1, <2>2 DEF written, table
<1>3. ASSUME NEW c \in Consumers, NEW acked \in BOOLEAN, AckDead(c, acked)
      PROVE  m \in (pending \cup dlq \cup undone)' \/ AcknowledgedUnclaimed(c, m)
  <2>1. /\ pc[c] = "dead" /\ letters[c] = {} /\ UNCHANGED written
        /\ pending \ dead[c] \subseteq pending'
        /\ pc'[c] = "listed"
    BY <1>3 DEF AckDead, XAck, TypeOK
  <2>2. m \in batch[c] => m \in dlq \cup undone
    BY <2>1 DEF BatchIsWritten
  <2> QED BY <2>1, <2>2 DEF written, AcknowledgedUnclaimed
<1>4. ASSUME NEW c \in Consumers,
             \/ Read(c) \/ List(c) \/ ClaimDead(c) \/ ClaimDeadFails(c) \/ toDLQ(c)
             \/ ClaimRetry(c) \/ Enrich(c) \/ WriteBatch(c) \/ Fail(c)
      PROVE  pending \subseteq pending'
  BY <1>4 DEF Read, List, ClaimDead, ClaimDeadFails, toDLQ, ClaimRetry, Enrich, EnrichOf,
              WriteBatch, Fail, XClaim, group
<1>5. CASE Outside \/ UNCHANGED vars
  BY <1>1, <1>5, OutsideLeaves
<1> QED
  BY <1>1, <1>2, <1>3, <1>4, <1>5 DEF Next, Process, Outside

\* What becomes of a message that is kept.
LossIsKnown(m) ==
    Kept(m) => \/ Kept(m)'
               \/ \E c \in Consumers : AcknowledgedUnclaimed(c, m) \/ DroppedInHand(c, m)

LEMMA KeptSteps ==
    ASSUME TypeOK, BatchHasRows, BatchIsWritten, [Next]_vars, NEW m \in 1 .. read
    PROVE  LossIsKnown(m)
<1> SUFFICES ASSUME Kept(m)
             PROVE  \/ Kept(m)'
                    \/ \E c \in Consumers : AcknowledgedUnclaimed(c, m) \/ DroppedInHand(c, m)
  BY DEF LossIsKnown
<1>1. CASE m \in dlq \cup undone
  BY <1>1, SettledStays DEF Kept
<1>2. CASE \E r \in stored : r.event = stream[m]
  BY <1>2, SettledStays, StreamGrows DEF Kept
<1>3. CASE m \in pending
  BY <1>3, PendingSteps DEF Kept
<1>4. ASSUME NEW c \in Consumers, m \in InHand(c), m \notin pending
      PROVE  Kept(m)' \/ DroppedInHand(c, m)
  BY <1>4, HandSteps DEF Kept, DroppedInHand
<1> QED
  BY <1>1, <1>2, <1>3, <1>4 DEF Kept

-----------------------------------------------------------------------------
(* The theorems *)

LEMMA InitInv == Init => IInv
  BY InitType, InitTotal DEF IInv, Init, BatchHasRows, BatchIsWritten, Valid

LEMMA NextInv == IInv /\ [Next]_vars => IInv'
  BY NextType, NextRowsDistinct, NextTotal, NextBatchHasRows, NextBatchIsWritten DEF IInv

LEMMA Invariance == SafetySpec => []IInv
<1> QED BY InitInv, NextInv, PTL DEF SafetySpec

\* "Replaying a batch after a crash changes nothing": however often a scan is
\* written to the stream, delivered, claimed and stored again, it has one row
\* in scan_events, and the total is the number of rows that count.
THEOREM ScansCountOnce == SafetySpec => []TotalIsExact
<1>1. IInv => TotalIsExact
  BY DEF IInv
<1> QED BY <1>1, Invariance, PTL

\* A message the consumer group has delivered stays pending, in hand,
\* dead-lettered or stored, whatever crashes, but for the dead-letter writes that
\* fail and for the two ways in which the reclaim of dead messages by two
\* consumers loses one.
THEOREM LossesAreKnown == SafetySpec => AcknowledgedIsKept
<1>1. IInv /\ [Next]_vars => \A m \in 1 .. read : LossIsKnown(m)
  BY KeptSteps DEF IInv
<1> QED
  BY <1>1, Invariance, PTL DEF SafetySpec, AcknowledgedIsKept, LossIsKnown

LEMMA StepImplements ==
    TypeOK /\ RowsDistinct /\ TotalIsExact /\ [Next]_vars
      => [Promise!Next]_<<stored, total>>
<1> SUFFICES ASSUME TypeOK, RowsDistinct, TotalIsExact, [Next]_vars
             PROVE  Promise!Next \/ UNCHANGED <<stored, total>>
  OBVIOUS
<1>1. ASSUME NEW c \in Consumers, WriteBatch(c) PROVE Promise!Next
  BY <1>1, WriteBatchRecords DEF Promise!Next
<1>2. CASE Next
  BY <1>1, <1>2
     DEF Next, Enrich, EnrichOf, Ack, Fail, Process, EmitterStep, Emit, BeginFlush, FlushAdd, FlushDone, FlushRetry,
         EmitterRestart, Read, List, Age, ClaimDead, ClaimDeadFails, toDLQ, AckDead, ClaimRetry,
         WindowEnds, table
<1> QED BY <1>2 DEF vars, table

\* The ingest service implements its promise: every step of it records a
\* group of new scans and counts those that count, or changes nothing of
\* either.
THEOREM IngestImplements == SafetySpec => Implements
<1>1. Init => Promise!Init
  BY DEF Init, Promise!Init
<1>2. IInv /\ [Next]_vars => [Promise!Next]_<<stored, total>>
  BY StepImplements DEF IInv
<1> QED BY <1>1, <1>2, Invariance, PTL DEF SafetySpec, Implements, Promise!Spec

-----------------------------------------------------------------------------
(* One consumer *)

\* What a consumer has listed is still aged, and what it was given is pending,
\* if there is no other.
Alone ==
    \A c \in Consumers :
        /\ batch[c] \subseteq pending
        /\ dead[c] \cap retry[c] = {}
        /\ pc[c] = "listed" => dead[c] \cup retry[c] \subseteq aged
        /\ pc[c] = "dead" => dead[c] = batch[c] /\ retry[c] \subseteq aged

LEMMA NextAlone ==
    ASSUME \A c, d \in Consumers : c = d
    PROVE  TypeOK /\ BatchIsWritten /\ Alone /\ [Next]_vars => Alone'
<1> SUFFICES ASSUME TypeOK, BatchIsWritten, Alone, [Next]_vars, NEW c \in Consumers
             PROVE  (/\ batch[c] \subseteq pending
                     /\ dead[c] \cap retry[c] = {}
                     /\ pc[c] = "listed" => dead[c] \cup retry[c] \subseteq aged
                     /\ pc[c] = "dead" => dead[c] = batch[c] /\ retry[c] \subseteq aged)'
  BY DEF Alone
<1> DEFINE Is == (/\ batch[c] \subseteq pending
                  /\ dead[c] \cap retry[c] = {}
                  /\ pc[c] = "listed" => dead[c] \cup retry[c] \subseteq aged
                  /\ pc[c] = "dead" => dead[c] = batch[c] /\ retry[c] \subseteq aged)'
<1>a. /\ batch[c] \subseteq pending /\ aged \subseteq pending
      /\ dead[c] \cap retry[c] = {}
      /\ pc[c] = "listed" => dead[c] \cup retry[c] \subseteq aged
      /\ pc[c] = "dead" => dead[c] = batch[c] /\ retry[c] \subseteq aged
      /\ pc[c] \in {"idle", "listed"} => batch[c] = {}
  BY DEF Alone, BatchIsWritten, TypeOK
<1>1. ASSUME pending' = pending, aged \subseteq aged', UNCHANGED <<pc, batch, dead, retry>>
      PROVE  Is
  BY <1>1, <1>a
<1>2. CASE Read(c)
  BY <1>2, <1>a DEF Read, TypeOK
<1>3. CASE List(c)
  <2>1. PICK first \in SUBSET aged :
           /\ dead' = [dead EXCEPT ![c] = {m \in first : deliveries[m] > MaxDeliveries}]
           /\ retry' = [retry EXCEPT ![c] = {m \in first : deliveries[m] <= MaxDeliveries}]
    BY <1>3 DEF List
  <2>2. \A m \in first : ~(deliveries[m] > MaxDeliveries /\ deliveries[m] <= MaxDeliveries)
    BY IngestAssumption DEF TypeOK
  <2>3. /\ dead'[c] = {m \in first : deliveries[m] > MaxDeliveries}
        /\ retry'[c] = {m \in first : deliveries[m] <= MaxDeliveries}
    BY <2>1 DEF TypeOK
  <2>4. dead'[c] \cup retry'[c] \subseteq first /\ dead'[c] \cap retry'[c] = {}
    BY <2>2, <2>3
  <2>5. /\ pc'[c] = "listed" /\ batch' = batch /\ pending' = pending /\ aged' = aged
    BY <1>3 DEF List, TypeOK, group
  <2> QED BY <1>a, <2>4, <2>5
<1>4. CASE ClaimDead(c)
  BY <1>4, <1>a DEF ClaimDead, XClaim, TypeOK
<1>5. CASE ClaimDeadFails(c)
  <2>1. /\ pc'[c] = "listed" /\ dead'[c] = {} /\ UNCHANGED <<retry, batch>>
        /\ pending' = pending /\ aged \ dead[c] \subseteq aged'
        /\ pc[c] = "listed"
    BY <1>5 DEF ClaimDeadFails, XClaim, group, TypeOK
  <2> QED BY <1>a, <2>1
<1>6. CASE ClaimRetry(c)
  BY <1>6, <1>a DEF ClaimRetry, XClaim, TypeOK
<1>7. ASSUME NEW acked \in BOOLEAN, AckDead(c, acked) PROVE Is
  <2>1. /\ pc[c] = "dead" /\ pc'[c] = "listed" /\ dead'[c] = {} /\ batch'[c] = {}
        /\ retry' = retry /\ aged \ dead[c] \subseteq aged'
    BY <1>7 DEF AckDead, XAck, TypeOK
  <2> QED BY <1>a, <2>1
<1>8. ASSUME Fail(c) \/ \E acked \in BOOLEAN : Ack(c, acked) PROVE Is
  BY <1>8 DEF Fail, Ack, TypeOK
<1>9. CASE toDLQ(c)
  BY <1>1, <1>9 DEF toDLQ, group
<1>10. CASE Enrich(c) \/ WriteBatch(c)
  BY <1>10, <1>a DEF Enrich, EnrichOf, WriteBatch, group, TypeOK
<1>11. CASE Outside
  BY <1>1, <1>11
     DEF Outside, Emit, EmitterStep, BeginFlush, FlushAdd, FlushDone, FlushRetry, EmitterRestart,
         Age, WindowEnds, group, local
<1>12. CASE UNCHANGED vars
  BY <1>1, <1>12 DEF vars, group, local
<1> QED
  <2>1. ASSUME NEW d \in Consumers, Read(d) \/ List(d) \/ Process(d) PROVE Is
    <3>1. d = c
      OBVIOUS
    <3> QED
      BY <2>1, <3>1, <1>2, <1>3, <1>4, <1>5, <1>6, <1>7, <1>8, <1>9, <1>10 DEF Process
  <2> QED BY <2>1, <1>11, <1>12 DEF Next, Outside

LEMMA NextDelivered ==
    IInv /\ Alone /\ DeliveredIsKept /\ [Next]_vars => DeliveredIsKept'
<1> SUFFICES ASSUME IInv, Alone, DeliveredIsKept, [Next]_vars, NEW m \in 1 .. read'
             PROVE  Kept(m)'
  BY DEF DeliveredIsKept
<1> USE DEF IInv
<1>1. CASE m \in 1 .. read
  <2>1. LossIsKnown(m) /\ Kept(m)
    BY <1>1, KeptSteps DEF DeliveredIsKept
  <2>2. ASSUME NEW c \in Consumers PROVE ~AcknowledgedUnclaimed(c, m)
    BY DEF AcknowledgedUnclaimed, Alone
  <2>3. ASSUME NEW c \in Consumers PROVE ~DroppedInHand(c, m)
    BY DEF DroppedInHand, InHand, Alone, BatchIsWritten
  <2> QED BY <2>1, <2>2, <2>3 DEF LossIsKnown
<1>2. CASE m \notin 1 .. read
  <2>1. PICK c \in Consumers : Read(c)
    <3>1. read' # read
      BY <1>2
    <3>2. ASSUME NEW c \in Consumers, List(c) \/ Process(c) PROVE FALSE
      BY <3>1, <3>2 DEF List, Process, ClaimDead, ClaimDeadFails, toDLQ, ClaimRetry, AckDead,
                        Enrich, EnrichOf, WriteBatch, Ack, Fail, XClaim, XAck, group
    <3> QED BY <3>1, <3>2, OutsideLeaves DEF Next, Outside
  <2> DEFINE n == IF Len(stream) - read < BatchSize THEN Len(stream) - read ELSE BatchSize
  <2>2. n \in Nat /\ read' = read + n /\ read \in Nat /\ read + 1 .. read + n \subseteq pending'
    BY <2>1, IngestAssumption DEF Read, TypeOK
  <2> HIDE DEF n
  <2>3. m \in read + 1 .. read + n
    BY <1>2, <2>2
  <2> QED BY <2>2, <2>3 DEF Kept
<1> QED BY <1>1, <1>2

\* Where a single consumer runs, what is delivered too often does go to the
\* dead-letter stream and nothing is lost, but for failed writes to it: it takes
\* a second consumer that reclaims at the same time to lose a message.
THEOREM OneConsumerLosesNothing ==
    ASSUME \A c, d \in Consumers : c = d
    PROVE  SafetySpec => []DeliveredIsKept
<1>1. Init => Alone /\ DeliveredIsKept
  BY DEF Init, Alone, DeliveredIsKept
<1>2. IInv /\ Alone /\ DeliveredIsKept /\ [Next]_vars => (Alone /\ DeliveredIsKept)'
  BY NextAlone, NextDelivered DEF IInv
<1> QED
  BY <1>1, <1>2, Invariance, PTL DEF SafetySpec
=============================================================================
