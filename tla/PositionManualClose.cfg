\* The close command dies and is given again.
CONSTANTS
    Process = {p1}
    Shares = 1
    Closer = {p1}
    MaxCrash = 1
SPECIFICATION Spec
INVARIANTS ManualCloseOnce
