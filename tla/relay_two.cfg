SPECIFICATION Spec
CONSTANTS
    Rows = {1, 2}
    Relays = {r1, r2}
    NoRelay = NoRelay
    NoRow = NoRow
    Answer <- OnePoisoned
    RELAY_BATCH_SIZE = 2
    OUTBOX_MAX_ATTEMPTS = 2
    SNS_MAX_ATTEMPTS = 2
    Budget <- EachOnce
CONSTRAINT AtMostThreeFaults
SYMMETRY SameRelays
INVARIANTS TypeOK PublishedWasSent OnePublisherPerRow EveryCopyAccounted EveryDuplicatePaidFor AttemptsBounded LimboIsPaidFor VoidNeedsARestart HealthyParkingIsPaidFor
PROPERTY HandoffSafe
