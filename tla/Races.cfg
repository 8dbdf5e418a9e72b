\* Two processes: an entry of an earlier day, tracked or left over with an unknown
\* outcome, while they reconcile and submit an entry of today; or one position of
\* one share, which both may close by hand while they reconcile and finish its
\* submission, and one of which may die; or the halts of a symbol, while they scan
\* and relay.
CONSTANTS
    Process = {p1, p2}
    Shares = 1
    Closer = {p1, p2}
    MaxCrash = 1
    today = today
    carried = carried
    NoIntent = NoIntent
    Feeder = {p1, p2}
    Security = {"x"}
    HostedTtl = 1
    DiskTtl = 1
    Latency = 1
    MaxTime = 4
SPECIFICATION RaceSpec
SYMMETRY Processes
INVARIANTS
    EntriesAreSafe
    ReviewedOnce
    ClosedLifecycleIsReviewed
    HaltedIsExcluded
PROPERTIES
    LifecycleSpec
