SPECIFICATION SafetySpec
CONSTANTS
    e1 = e1
    e2 = e2
    c1 = c1
    c2 = c2
    v1 = v1
    None = None
    Events <- MCEvents
    Visitors <- MCVisitors
    Visitor <- MCVisitor
    Countable <- MCEvents
    Invalid = {}
    Consumers <- MCConsumers
    Buffer = 1
    BatchSize = 2
    MaxDeliveries = 1
    MaxMessages = 2
SYMMETRY Symmetry
PROPERTIES
    AcknowledgedIsKept
    Implements
CHECK_DEADLOCK FALSE
