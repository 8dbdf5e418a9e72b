\* Two stocks.
SPECIFICATION ScanSpec
CONSTANTS
    Universe = 2
    Profile <- MCProfile
    Points = {60, 70}
    Addition = {0}
    ExclusionDays = 5
    MaximumScannerCandidates = 1
INVARIANTS EveryRejectionOnFile
CHECK_DEADLOCK FALSE
