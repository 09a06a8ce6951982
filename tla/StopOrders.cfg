SPECIFICATION Spec
CONSTANTS
    MaxOrders = 4
    Parties = {p1}
    Singles <- Alone
    Pairs <- Exclusive
    Sizes = {"flat", "short"}
    MaxPrice = 3
    MaxTime = 2
    MaxPerParty = 3
INVARIANTS
    
    TrailsThePeak
    OneCancelsOther
    NothingLeftTriggered
PROPERTY
    HandlersEnd
