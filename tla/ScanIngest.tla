------------------------------ MODULE ScanIngest ------------------------------
(***************************************************************************)
(* The way of a scan from the redirect service to the counters, in the Go  *)
(* services (src/reference/go-v2/internal): redirect/emitter.go writes the *)
(* scans to a Redis stream, ingest/ingest.go reads them in a consumer      *)
(* group, stores them in batches and acknowledges them.  Writes that fail  *)
(* after they happened, crashes and messages claimed from a consumer that  *)
(* is only slow make the same scan arrive any number of times.             *)
(*                                                                         *)
(* An action is one command to Redis or one transaction; only the calls of *)
(* dedupeScript for a batch, one pipeline, are a single action.            *)
(*                                                                         *)
(* One code is scanned.  Rollups by time and dimension, uniques and the    *)
(* velocity limit are left out: they are fed by the same rows in the same  *)
(* transaction as the total.  Trimming of the stream (5 million messages)  *)
(* does not happen.                                                        *)
(***************************************************************************)
EXTENDS Naturals, Sequences, FiniteSets

CONSTANTS Events,        \* the scans, by event id
          Visitors,      \* visitor hashes
          Visitor,       \* the visitor of each scan
          Countable,     \* the scans that count unless they are duplicates
          Invalid,       \* the scans decode rejects
          Consumers,     \* the ingest processes
          None,          \* no scan
          Buffer,        \* capacity of the emitter's channel (100,000)
          BatchSize,     \* messages per read and per listing (1000)
          MaxDeliveries, \* deliveries after which a message is dead (5)
          MaxMessages    \* bound: messages in the stream or on their way there

ASSUME IngestAssumption ==
    /\ IsFiniteSet(Events)
    /\ Visitor \in [Events -> Visitors]
    /\ Countable \subseteq Events
    /\ Invalid \subseteq Events
    /\ None \notin Events
    /\ Buffer \in Nat \ {0}
    /\ BatchSize \in Nat \ {0}
    /\ MaxDeliveries \in Nat
    /\ MaxMessages \in Nat

VARIABLES
    made,       \* the scans emitted so far
    buffer,     \* the emitter's channel
    flushing,   \* the batch the emitter is writing
    sent,       \* how many of its messages have been added in this attempt
    stream,     \* the scans of the messages in the stream, by position
    read,       \* the position of the last message the group has delivered
    pending,    \* the messages delivered and not acknowledged
    aged,       \* those that were delivered ClaimIdle (60 s) ago or earlier
    deliveries, \* how often each message was delivered
    dlq,        \* the messages in the dead-letter stream
    undone,     \* history: those not in it whose dead-letter write failed
    dupKey,     \* dup:<code>:<visitor>, the scan that began the dedupe window
    stored,     \* scan_events
    total,      \* total_scans
    pc,         \* where each consumer is
    dead,       \* the ids it has listed as delivered too often
    retry,      \* the other ids it has listed
    batch,      \* the messages it was given last
    letters,    \* those it has still to write to the dead-letter stream
    rows        \* the rows it has made of them

emitter == <<made, buffer, flushing, sent>>
group == <<read, pending, aged, deliveries>>
written == <<dlq, undone>>
table == <<stored, total>>
local == <<pc, dead, retry, batch, letters, rows>>
vars == <<emitter, stream, group, written, dupKey, table, local>>

\* A row is made of a scan that decode accepts.
Row == [event : Events \ Invalid, counted : BOOLEAN]

Processing == {"decoded", "enriched", "stored"}

TypeOK ==
    /\ made \subseteq Events
    /\ buffer \in Seq(Events) /\ Len(buffer) <= Buffer
    /\ flushing \in Seq(Events)
    /\ sent \in 0 .. Len(flushing)
    /\ stream \in Seq(Events)
    /\ read \in 0 .. Len(stream)
    /\ pending \subseteq 1 .. read
    /\ aged \subseteq pending
    /\ deliveries \in [1 .. read -> 1 .. MaxDeliveries + 1]
    /\ dlq \subseteq 1 .. read
    /\ undone \subseteq 1 .. read
    /\ dupKey \in [Visitors -> Events \cup {None}]
    /\ stored \subseteq Row
    /\ total \in Nat
    /\ pc \in [Consumers -> Processing \cup {"idle", "listed", "dead"}]
    /\ dead \in [Consumers -> SUBSET (1 .. read)]
    /\ retry \in [Consumers -> SUBSET (1 .. read)]
    /\ batch \in [Consumers -> SUBSET (1 .. read)]
    /\ letters \in [Consumers -> SUBSET (1 .. read)]
    /\ rows \in [Consumers -> SUBSET Row]

Init ==
    /\ made = {}
    /\ buffer = << >> /\ flushing = << >> /\ sent = 0
    /\ stream = << >> /\ read = 0 /\ pending = {} /\ aged = {} /\ deliveries = << >>
    /\ dlq = {} /\ undone = {}
    /\ dupKey = [v \in Visitors |-> None]
    /\ stored = {} /\ total = 0
    /\ pc = [c \in Consumers |-> "idle"]
    /\ dead = [c \in Consumers |-> {}]
    /\ retry = [c \in Consumers |-> {}]
    /\ batch = [c \in Consumers |-> {}]
    /\ letters = [c \in Consumers |-> {}]
    /\ rows = [c \in Consumers |-> {}]

-----------------------------------------------------------------------------
(* The emitter *)

OnTheWay == Len(buffer) + Len(flushing) - sent

\* Emit does not wait: a scan that finds the channel full is dropped.
Emit(e) ==
    /\ e \notin made
    /\ Len(stream) + OnTheWay < MaxMessages
    /\ made' = made \cup {e}
    /\ buffer' = IF Len(buffer) < Buffer THEN Append(buffer, e) ELSE buffer
    /\ UNCHANGED <<flushing, sent, stream, group, written, dupKey, table, local>>

\* Every 50 ms what has been taken from the channel is flushed.
BeginFlush ==
    /\ flushing = << >>
    /\ \E n \in 1 .. Len(buffer) :
        /\ flushing' = SubSeq(buffer, 1, n)
        /\ buffer' = SubSeq(buffer, n + 1, Len(buffer))
    /\ UNCHANGED <<made, sent, stream, group, written, dupKey, table, local>>

\* The pipeline is not a transaction: its messages are added one by one.
FlushAdd ==
    /\ sent < Len(flushing)
    /\ stream' = Append(stream, flushing[sent + 1])
    /\ sent' = sent + 1
    /\ UNCHANGED <<made, buffer, flushing, group, written, dupKey, table, local>>

FlushDone ==
    /\ flushing # << >>
    /\ sent = Len(flushing)
    /\ flushing' = << >>
    /\ sent' = 0
    /\ UNCHANGED <<made, buffer, stream, group, written, dupKey, table, local>>

\* The write fails somewhere, perhaps only in its answer; the whole batch is
\* written again.
FlushRetry ==
    /\ sent > 0
    /\ Len(stream) + OnTheWay + sent <= MaxMessages
    /\ sent' = 0
    /\ UNCHANGED <<made, buffer, flushing, stream, group, written, dupKey, table, local>>

\* The redirect service ends, with what it could not flush in time, and is
\* started again.
EmitterRestart ==
    /\ buffer # << >> \/ flushing # << >>
    /\ buffer' = << >> /\ flushing' = << >> /\ sent' = 0
    /\ UNCHANGED <<made, stream, group, written, dupKey, table, local>>

-----------------------------------------------------------------------------
(* The consumers *)

Goto(c, stage) == pc' = [pc EXCEPT ![c] = stage]

\* Run's loop: what the consumer had is forgotten.
Idle(c) ==
    /\ Goto(c, "idle")
    /\ dead' = [dead EXCEPT ![c] = {}]
    /\ retry' = [retry EXCEPT ![c] = {}]
    /\ batch' = [batch EXCEPT ![c] = {}]
    /\ letters' = [letters EXCEPT ![c] = {}]
    /\ rows' = [rows EXCEPT ![c] = {}]

\* XREADGROUP >, up to BatchSize messages no consumer has been given.
Read(c) ==
    LET n == IF Len(stream) - read < BatchSize THEN Len(stream) - read ELSE BatchSize
        new == read + 1 .. read + n IN
    /\ pc[c] = "idle"
    /\ n > 0
    /\ read' = read + n
    /\ pending' = pending \cup new
    /\ deliveries' = [m \in 1 .. read + n |-> IF m \in new THEN 1 ELSE deliveries[m]]
    /\ batch' = [batch EXCEPT ![c] = new]
    /\ Goto(c, "decoded")
    /\ UNCHANGED <<emitter, stream, aged, written, dupKey, table, dead, retry, letters, rows>>

\* A message has been pending for ClaimIdle since it was delivered last,
\* whether its consumer crashed, failed or is only slow.
Age(m) ==
    /\ m \in pending \ aged
    /\ aged' = aged \cup {m}
    /\ UNCHANGED <<emitter, stream, read, pending, deliveries, written, dupKey, table, local>>

\* Reclaim, XPENDING: the first BatchSize of the aged messages are listed, and
\* those delivered too often told from the others.
List(c) ==
    LET first == {m \in aged : Cardinality({n \in aged : n <= m}) <= BatchSize} IN
    /\ pc[c] = "idle"
    /\ aged # {}
    /\ dead' = [dead EXCEPT ![c] = {m \in first : deliveries[m] > MaxDeliveries}]
    /\ retry' = [retry EXCEPT ![c] = {m \in first : deliveries[m] <= MaxDeliveries}]
    /\ Goto(c, "listed")
    /\ UNCHANGED <<emitter, stream, group, written, dupKey, table, batch, letters, rows>>

\* XCLAIM: the messages of ids that are still aged are delivered once more.  The
\* count stays at MaxDeliveries + 1, which stands for that and more: it is only
\* compared with MaxDeliveries.
XClaim(ids) ==
    /\ aged' = aged \ ids
    /\ deliveries' = [m \in DOMAIN deliveries |->
                         IF m \in ids \cap aged /\ deliveries[m] <= MaxDeliveries
                         THEN deliveries[m] + 1 ELSE deliveries[m]]
    /\ UNCHANGED <<read, pending>>

\* XACK: it may fail, which is logged or not noticed.
XAck(ids, acked) ==
    /\ pending' = IF acked THEN pending \ ids ELSE pending
    /\ aged' = IF acked THEN aged \ ids ELSE aged
    /\ UNCHANGED <<read, deliveries>>

ClaimDead(c) ==
    /\ pc[c] = "listed" /\ dead[c] # {}
    /\ XClaim(dead[c])
    /\ batch' = [batch EXCEPT ![c] = dead[c] \cap aged]
    /\ letters' = [letters EXCEPT ![c] = dead[c] \cap aged]
    /\ Goto(c, "dead")
    /\ UNCHANGED <<emitter, stream, written, dupKey, table, dead, retry, rows>>

\* XCLAIM fails, perhaps only in its answer: nothing is done about the dead.
ClaimDeadFails(c) ==
    /\ pc[c] = "listed" /\ dead[c] # {}
    /\ XClaim(dead[c]) \/ UNCHANGED group
    /\ dead' = [dead EXCEPT ![c] = {}]
    /\ UNCHANGED <<emitter, stream, written, dupKey, table, pc, retry, batch, letters, rows>>

\* One XADD, which may fail: that is logged.
toDLQ(c) ==
    \E m \in letters[c] :
        /\ \A n \in letters[c] : m <= n
        /\ \/ dlq' = dlq \cup {m} /\ undone' = undone \ {m}
           \/ undone' = (undone \cup {m}) \ dlq /\ UNCHANGED dlq
        /\ letters' = [letters EXCEPT ![c] = @ \ {m}]
        /\ UNCHANGED <<emitter, stream, group, dupKey, table, pc, dead, retry, batch, rows>>

\* Mutation: what is dead is written to the dead-letter stream and no more.
AckDeadNothing(c, acked) ==
    /\ pc[c] = "dead" /\ letters[c] = {}
    /\ dead' = [dead EXCEPT ![c] = {}]
    /\ batch' = [batch EXCEPT ![c] = {}]
    /\ Goto(c, "listed")
    /\ UNCHANGED <<emitter, stream, group, written, dupKey, table, retry, letters, rows>>

\* All ids listed as dead are acknowledged, those of messages that XCLAIM did
\* not give to the consumer as well.
AckDead(c, acked) ==
    /\ pc[c] = "dead" /\ letters[c] = {}
    /\ XAck(dead[c], acked)
    /\ dead' = [dead EXCEPT ![c] = {}]
    /\ batch' = [batch EXCEPT ![c] = {}]
    /\ Goto(c, "listed")
    /\ UNCHANGED <<emitter, stream, written, dupKey, table, retry, letters, rows>>

\* The others are claimed, and processed if there are any.
ClaimRetry(c) ==
    LET claimed == retry[c] \cap aged IN
    /\ pc[c] = "listed" /\ dead[c] = {}
    /\ XClaim(retry[c])
    /\ retry' = [retry EXCEPT ![c] = {}]
    /\ batch' = [batch EXCEPT ![c] = claimed]
    /\ Goto(c, IF claimed = {} THEN "idle" ELSE "decoded")
    /\ UNCHANGED <<emitter, stream, written, dupKey, table, dead, letters, rows>>

Valid(ms) == {m \in ms : stream[m] \notin Invalid}

\* The rows made of a batch, for the messages of it that are taken.
EnrichOf(c, taken) ==
    LET ms == {m \in taken : stream[m] \in Countable}
        Of(v) == {m \in ms : Visitor[stream[m]] = v}
        Key(v) == IF dupKey[v] # None \/ Of(v) = {} THEN dupKey[v]
                  ELSE stream[CHOOSE m \in Of(v) : \A n \in Of(v) : m <= n]
        Made(e) == [event |-> e, counted |-> e \in Countable /\ Key(Visitor[e]) = e] IN
    /\ pc[c] = "decoded"
    /\ dupKey' = [v \in Visitors |-> Key(v)]
    /\ rows' = [rows EXCEPT ![c] = {Made(stream[m]) : m \in taken}]
    /\ Goto(c, "enriched")
    /\ UNCHANGED <<emitter, stream, group, written, table, dead, retry, batch, letters>>

\* Mutation: a message that decode rejects is dead-lettered, and goes on.
EnrichAll(c) == EnrichOf(c, batch[c])

\* Process: decode and enrich, which runs dedupeScript for each row.  The first
\* countable scan of a visitor sets the key; the scan that set it is not its own
\* duplicate.
Enrich(c) == EnrichOf(c, Valid(batch[c]))

\* The key lives for DedupeWindow.
WindowEnds(v) ==
    /\ dupKey[v] # None
    /\ dupKey' = [dupKey EXCEPT ![v] = None]
    /\ UNCHANGED <<emitter, stream, group, written, table, local>>

\* Mutation: no ON CONFLICT.
InsertedAll(c) == rows[c]

\* WriteBatch: one transaction.  ON CONFLICT (event_id) DO NOTHING leaves the
\* rows that are genuinely inserted, and these feed the total.
Inserted(c) == {r \in rows[c] : \A s \in stored : s.event # r.event}

WriteBatch(c) ==
    /\ pc[c] = "enriched"
    /\ stored' = stored \cup Inserted(c)
    /\ total' = total + Cardinality({r \in Inserted(c) : r.counted})
    /\ letters' = [letters EXCEPT ![c] = batch[c] \ Valid(batch[c])]
    /\ Goto(c, "stored")
    /\ UNCHANGED <<emitter, stream, group, written, dupKey, dead, retry, batch, rows>>

\* When the invalid messages are in the dead-letter stream, all are acknowledged.
Ack(c, acked) ==
    /\ pc[c] = "stored" /\ letters[c] = {}
    /\ XAck(batch[c], acked)
    /\ Idle(c)
    /\ UNCHANGED <<emitter, stream, written, dupKey, table>>

\* Mutation: a batch that failed is acknowledged as well.
FailAcknowledges(c) ==
    /\ pc[c] # "idle"
    /\ XAck(batch[c], TRUE)
    /\ Idle(c)
    /\ UNCHANGED <<emitter, stream, written, dupKey, table>>

\* A step fails or the process crashes and is restarted, before or after the
\* commit: the messages stay pending.
Fail(c) ==
    /\ pc[c] # "idle"
    /\ Idle(c)
    /\ UNCHANGED <<emitter, stream, group, written, dupKey, table>>

-----------------------------------------------------------------------------

EmitterStep == BeginFlush \/ FlushAdd \/ FlushDone \/ FlushRetry \/ EmitterRestart

\* What a consumer does with what it has begun.
Process(c) ==
    \/ ClaimDead(c) \/ ClaimDeadFails(c) \/ toDLQ(c) \/ ClaimRetry(c)
    \/ Enrich(c) \/ WriteBatch(c)
    \/ \E acked \in BOOLEAN : AckDead(c, acked) \/ Ack(c, acked)
    \/ Fail(c)

Next ==
    \/ \E e \in Events : Emit(e)
    \/ EmitterStep
    \/ \E c \in Consumers : Read(c) \/ List(c) \/ Process(c)
    \/ \E m \in pending : Age(m)
    \/ \E v \in Visitors : WindowEnds(v)

\* Run: a consumer ends what it has begun (a step that hangs fails by its
\* context); between batches the consumers read, and every 30 s they list what
\* has been pending for long.  Neither the claims of the reclaim fail for ever,
\* nor what follows on a claim of dead messages up to their acknowledgement.
FairProcess(c) == WF_vars(Process(c))
FairAge(m) == WF_vars(Age(m))
CarriedThrough ==
    []<><<\E c \in Consumers : ClaimDead(c)>>_vars
        => []<><<\E c \in Consumers : AckDead(c, TRUE)>>_vars

Fairness ==
    /\ \A c \in Consumers : FairProcess(c)
    /\ \A m \in 1 .. MaxMessages : FairAge(m)
    /\ SF_vars(\E c \in Consumers : Read(c))
    /\ SF_vars(\E c \in Consumers : List(c))
    /\ SF_vars(\E c \in Consumers : ClaimDead(c))
    /\ SF_vars(\E c \in Consumers : ClaimRetry(c))
    /\ CarriedThrough

SafetySpec == Init /\ [][Next]_vars
Spec == SafetySpec /\ Fairness

-----------------------------------------------------------------------------
(* Properties *)

\* The promise of the package, with the counter it is about.
Promise == INSTANCE ScanCounts WITH recorded <- stored
Implements == Promise!Spec

\* The total is the number of recorded scans that count, each recorded once,
\* however often a scan was written, delivered and stored again.
TotalIsExact ==
    /\ total = Cardinality({r \in stored : r.counted})
    /\ \A r, s \in stored : r.event = s.event => r = s

\* A message the group has delivered is kept as long as it is pending, stored,
\* dead-lettered (or its dead-letter write failed, which is logged), or in the
\* hands of a consumer.
InHand(c) == letters[c] \cup (IF pc[c] \in Processing THEN batch[c] ELSE {})

Kept(m) ==
    \/ m \in pending \cup dlq \cup undone
    \/ \E r \in stored : r.event = stream[m]
    \/ \E c \in Consumers : m \in InHand(c)

\* "messages delivered more than MaxDeliveries times go to the DLQ", and the
\* others are retried until they are stored: no message is lost.
DeliveredIsKept == \A m \in 1 .. read : Kept(m)

\* At-least-once, as far as it goes.  A message is lost in one of two ways only:
\* a consumer acknowledges it as dead that was not given it, because another
\* had claimed it since both listed it; or that other had it in hand, no longer
\* pending, and fails.
AcknowledgedUnclaimed(c, m) ==
    pc[c] = "dead" /\ m \in dead[c] \ batch[c] /\ pc'[c] = "listed"
DroppedInHand(c, m) ==
    m \in InHand(c) \ pending /\ pc'[c] = "idle"

AcknowledgedIsKept ==
    [][\A m \in 1 .. read :
          Kept(m) => \/ Kept(m)'
                     \/ \E c \in Consumers : AcknowledgedUnclaimed(c, m) \/ DroppedInHand(c, m)]_vars

\* Every message is settled in the end, stored, dead or lost in one of those
\* ways, whatever fails: a failed attempt uses up a delivery, and deliveries are
\* bounded.
Settles(m) == m \in DOMAIN stream ~> m \in 1 .. read \ pending

MessagesSettle == \A m \in 1 .. MaxMessages : Settles(m)
=============================================================================
