SPECIFICATION Spec
CONSTANTS
    Orders = {"o1"}
    Purchases = {"p"}
    Purchase <- OnePurchase
    Queues = {"billing"}
    Budget <- OneUnacknowledged
    MaxFaults = 1
INVARIANT NothingWasSaved
