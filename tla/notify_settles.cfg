SPECIFICATION FairSpec
CONSTANTS
    Messages = {"copy1", "malformed"}
    Orders = {"o1", "o2"}
    Consumers = {c1, c2}
    NoMessage = NoMessage
    Order <- TwoCopies
    Body <- OneUnparsable
    SQS_MAX_MESSAGES = 2
    SQS_MAX_RECEIVE_COUNT = 2
    Budget <- EachOnce
    MaxFaults = 2
PROPERTIES EveryMessageSettles SignalledConsumerStops
