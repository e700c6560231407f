SPECIFICATION Spec
CONSTANTS
    bad = bad
    c1 = c1
    c2 = c2
    v1 = v1
    None = None
    Events <- MCEvents
    Visitors <- MCVisitors
    Visitor <- MCVisitor
    Countable = {}
    Invalid <- MCEvents
    Consumers <- MCConsumers
    Buffer = 1
    BatchSize = 1
    MaxDeliveries = 1
    MaxMessages = 2
INVARIANT
    TypeOK
PROPERTIES
    AcknowledgedIsKept
    MessagesSettle
CHECK_DEADLOCK FALSE
