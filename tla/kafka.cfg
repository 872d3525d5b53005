SPECIFICATION Spec
CONSTANTS
    Consumers = {c1, c2}
    Nobody = Nobody
    NumEvents = 2
    Sizes <- MCSizes
    FrameLimit = 4
    RequestLimit = 3
    MaxAttempts = 1
    MaxRaises = 1
    MaxDisturbances = 2
    MaxRecords = 5
INVARIANTS
    TypeOK
    CommittedSettled
    InOrder
PROPERTY
    ImplementsContract
CHECK_DEADLOCK FALSE
