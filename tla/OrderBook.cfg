SPECIFICATION Spec
CONSTANTS
    Ids = {o1, o2, o3}
    Parties = {p1, p2}
    MaxPrice = 2
    Usages <- BothUsages
SYMMETRY Symmetry
INVARIANTS
    NeverCrossed  
    AnnouncedTradesHappen CanUncrossForetells 
PROPERTY KeepsPriority
