SPECIFICATION FairSpec
CONSTANTS
    Orders = {"o1", "o2"}
    Purchases = {"p"}
    Purchase <- OnePurchase
    Queues = {"billing", "shipping"}
    Budget <- EachOnce
    MaxFaults = 2
INVARIANTS TypeOK OrderHasItsEvent AnswerTrue DuplicatesArePaidFor FanOutComplete OnlyStoredOrdersTakeEffect
PROPERTIES EndToEndSafe OrderTakesEffect
