SPECIFICATION OperationsSpec
CONSTANTS
    Clerk = {c1}
    Symbol = {"a", "b", "c"}
    SectorOf <- MCSectorOf
    ClusterOf <- MCClusterOf
    Quote = {60}
    Stop = {30, 40}
    Worth = {8000, 10000}
    Cash = {150}
    Tempo = {100}
    BaseRisk = {75}
    AbsoluteRisk = 100
    CombinedCap = 200
    SectorCap = 150
    ClusterCap = 100
    PositionCap = 3500
    Liquidity = 60
    Operator = {p1, p2}
    StopLevel = {105, 116, 127}
    FirstStop = 105
    MaxOrders = 4
    Terminal = {p1, p2}
    Decision = {"d1", "d2"}
    Regime = {"bull"}
    ReviewSample = 1
    ApprovalSample = 1
    MaxLessons = 1
    MaxHypotheses = 2
    MaxBacktests = 2
    MaxVersion = 2
    Scan = {p1, p2}
    Ticker = {"x", "y"}
    Context = {"bull", "bear"}
    Kept <- MCKept
    Screen <- MCScreen
    MaterialChange = 5
    MaximumPmCandidates = 1
    MaxScans = 2
    Process = {p1, p2}
    Equity = {90, 100}
    HaltPct = 8
    WeekPct = 4
    LossCap = 1
    MaxTrades = 2
    MaxCrash = 1
    MaxWeeks = 1
    Scanner = {e1}
    DayTicks = 2
    Report = {4, 7}
    Weekend = {5, 6}
    Exclusion = 3
    Delay = 1
    MaxTick = 8
    Bought = 2
    Price = 4
    Factor = {2}
    MaxSplits = 2
    MaxSold = 1
    MaxKills = 1
    MaxPrice = 16
    Universe = 3
    Profile <- MCProfile
    Points = {60, 70, 90}
    Addition = {0, 20}
    ExclusionDays = 5
    MaximumScannerCandidates = 1
SYMMETRY Processes
INVARIANTS
    TypeOK
    EntryRespectsHalts
    NoEntryIntoDrawdown
    OperationsTypeOK
    SizedToTheBudget
    StakeWithinBudget
    RowNotTighterThanBroker
    DivergedNeverRecorded
    LifecycleClosedLast
    ProductionBacked
    OneApprovedVersion
    OneOpenHypothesis
    ProposalsRestOnReviews
    EarningsKeptAway
    OnlyExplainedQuantities
    ListedPassesGates
    ReportMatchesList
PROPERTIES
    BrokerStopNeverFalls
CHECK_DEADLOCK FALSE
