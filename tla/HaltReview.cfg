\* One process, one week, no trade: the equity falls by 10 percent.
CONSTANTS
    Process = {p1}
    Equity = {90, 100}
    HaltPct = 8
    WeekPct = 4
    LossCap = 3
    MaxTrades = 0
    MaxCrash = 0
    MaxWeeks = 0
SPECIFICATION FairSpec
PROPERTIES DrawdownIsReviewed
