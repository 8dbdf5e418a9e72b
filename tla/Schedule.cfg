SPECIFICATION ScheduleSpec
CONSTANTS
    Process = {p1}
    Shares = 2
    Closer = {p1}
    MaxCrash = 1
    MaxAttempts = 2
    DrainLimit = 1
    MaxNotes = 2
    MaxRelayDeaths = 1
    Starter = {s1, s2}
    Additions <- MCAdditions
    MaxDeaths = 2
INVARIANTS
    ScheduleTypeOK
    CleanFinishMatches
    NoIncidentForgotten
    VersionsAreBacked
PROPERTIES
    ClosedOnVerifiedExit
    SoldIsClosed
    UnprotectedIsAnswered
    EveryNoteSettles
    EveryCommandStarts
CHECK_DEADLOCK FALSE
