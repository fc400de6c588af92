SPECIFICATION Spec
CONSTANTS
    Messages = {"copy1", "copy2", "malformed"}
    Orders = {"o1", "o2"}
    Consumers = {c1, c2}
    NoMessage = NoMessage
    Order <- TwoCopies
    Body <- OneIncomplete
    SQS_MAX_MESSAGES = 2
    SQS_MAX_RECEIVE_COUNT = 2
    Budget <- EachOnce
    MaxFaults = 2
SYMMETRY SameConsumers
INVARIANTS TypeOK OneRecordPerOrder DeletedWasRecorded DlqIsPaidFor
PROPERTY EffectOnceSafe
