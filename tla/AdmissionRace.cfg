\* Two processes race to submit two intents of one day.
CONSTANTS
    i1 = i1
    c1 = c1
    NoIntent = NoIntent
    Intent = {i1, i2}
    Carried = {}
    Process = {p1, p2}
    DayCap = 1
    WeekCap = 3
    PositionCap = 2
    MaxCrash = 0
    Operator = {}
    Book <- OneBook
    Risk <- MCRisk
    Budget <- AmpleBudget
SPECIFICATION Spec
SYMMETRY Racers
INVARIANTS SentAtMostOnce ExposureIsCounted NoEntryOverUnknownOutcome
PROPERTIES QuotaSpec
