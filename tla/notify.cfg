SPECIFICATION Spec
CONSTANTS
    Messages = {"copy1", "copy2", "malformed"}
    Orders = {"o1", "o2"}
    Consumers = {c1, c2}
    NoMessage = NoMessage
    Order <- TwoCopies
    Body <- OneIncomplete
    SQS_MAX_MESSAGES = 2
    SQS_MAX_RECEIVE_COUNT = 2
    Budget <- HandlerFaults
    MaxFaults = 2
SYMMETRY SameConsumers
INVARIANTS TypeOK EveryNotificationAccounted LossIsExplained DlqIsPaidFor
