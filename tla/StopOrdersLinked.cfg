SPECIFICATION Spec
CONSTANTS
    MaxOrders = 1
    Parties = {p1}
    Singles <- LinkedOnly
    Pairs <- NoPairs
    Sizes = {"flat", "long", "short"}
    MaxPrice = 2
    MaxTime = 2
    MaxPerParty = 2
INVARIANT
    CancelledIsFinal
