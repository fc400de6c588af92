SPECIFICATION Spec
CONSTANTS
    Rows = {1, 2}
    Relays = {r1}
    NoRelay = NoRelay
    NoRow = NoRow
    Answer <- AllHealthy
    RELAY_BATCH_SIZE = 2
    OUTBOX_MAX_ATTEMPTS = 2
    SNS_MAX_ATTEMPTS = 1
    Budget <- OneRestart
INVARIANT RecreatedTopicSuffices
