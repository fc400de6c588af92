SPECIFICATION FairSpec
CONSTANTS
    Rows = {1, 2, 3}
    Relays = {r1, r2}
    NoRelay = NoRelay
    NoRow = NoRow
    Answer <- PoisonFirst
    RELAY_BATCH_SIZE = 1
    OUTBOX_MAX_ATTEMPTS = 2
    SNS_MAX_ATTEMPTS = 1
    Budget <- Draining
PROPERTIES HealthyRowsDrain SignalledRelayStops HandoffResolves
