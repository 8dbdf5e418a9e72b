\* One process at a time, which may die twice anywhere and is started again, an
\* operator at the kill switch and at ack-reconciliation, an entry of today and
\* one left over.
CONSTANTS
    i1 = i1
    c1 = c1
    NoIntent = NoIntent
    Intent = {i1, c1}
    Carried = {c1}
    Process = {p1}
    DayCap = 1
    WeekCap = 2
    PositionCap = 2
    MaxCrash = 2
    Operator = {"kill", "ack"}
    Book <- MCBook
    Risk <- MCRisk
    Budget <- MCBudget
SPECIFICATION FairSpec
INVARIANTS TypeOK IInv
PROPERTIES AcceptedOrderGetsTrade RiskGrowsWithinBudget
