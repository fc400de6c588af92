SPECIFICATION FairSpec
CONSTANTS
    Queues = {"billing", "shipping"}
    Jobs = {"compose", "byHand"}
    NoQueue = NoQueue
    MaxRestarts = 1
    MaxFailures = 1
INVARIANTS TypeOK ExitZeroIsTrue NoSilentDrop
PROPERTIES FailsForAReason FanOutSafe RerunRepairs
