\* One declared or undeclared split, no sale, no crash.
SPECIFICATION ActionSpec
CONSTANTS
    Bought = 2
    Price = 4
    Factor = {2}
    MaxSplits = 1
    MaxSold = 0
    MaxKills = 0
    MaxPrice = 16
INVARIANTS CostBasisKept
CHECK_DEADLOCK FALSE
