\* One process at a time, one of which dies.
CONSTANTS
    Process = {p1}
    Shares = 1
    Closer = {}
    MaxCrash = 1
SPECIFICATION FairSpec
PROPERTIES ClosedIsReviewed
