\* The submitter and a reconciler record the fills of one entry.
CONSTANTS
    Process = {p1, p2}
    Shares = 2
    Closer = {}
    MaxCrash = 0
SPECIFICATION Spec
INVARIANTS LotsNeverExceedFill
