SPECIFICATION Spec
CONSTANTS
    Messages = {"copy1"}
    Orders = {"o1", "o2"}
    Consumers = {c1}
    NoMessage = NoMessage
    Order <- TwoCopies
    Body <- OneIncomplete
    SQS_MAX_MESSAGES = 2
    SQS_MAX_RECEIVE_COUNT = 2
    Budget <- RedisOnly
    MaxFaults = 1
INVARIANT LostOnlyByHardKill
