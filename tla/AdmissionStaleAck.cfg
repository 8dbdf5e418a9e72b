CONSTANTS
    i1 = i1
    c1 = c1
    NoIntent = NoIntent
    Intent = {i1}
    Carried = {}
    Process = {p1}
    DayCap = 1
    WeekCap = 3
    PositionCap = 2
    MaxCrash = 0
    Operator = {"ack"}
    Book <- OneBook
    Risk <- MCRisk
    Budget <- AmpleBudget
SPECIFICATION Spec
PROPERTIES HaltLiftedOnlyWhenSettled
