\* As the compose file starts it: one process for two symbols.
SPECIFICATION Spec
CONSTANTS
    VerdictKey = "verdicts"
    Pnls <- McPnls
    Said = {"against", "abstained"}
    AttributionWindow = 2
    MinTrades = 1
    PromoteMin = 1
    SuspendMin = 1
    PromoteAbove = 1
    SuspendBelow <- McLow
    WeightMax = 8
    DefaultWeight = 4
    ProbationCap = 2
    MaxStrikes = 1
    ReviewsBeforeRetire = 2
    MeasuredStage = "PROBATION"
    MeasuredWeight = 2
    MaxTrades = 3
    MaxFaults = 1
    MaxDay = 3
    MaxMishaps = 1
    WindowSessions = 2
    MinSample = 1
    FullTrust = 3
    Counts = {1, 2}
    Raws = {9}
    Bootstraps = {2, 4}
    Atms = {2, 3, 4}
    StrikesAround = 1
    MaxTokens = 6
    MaxExpiry = 2
    MaxLosses = 2
    Symbols = {"NIFTY", "SENSEX"}
    ChainContracts = {"CE"}
    Lookback = 2
    LastDay = 5
    MaxRestarts = 1
    Spots = {10, 11, 13}
    BarMinutes = 2
    Every = 1
    Horizon = 2
    WindowBars = 2
    Drifts <- McDrifts
    LastMinute = 5
    Candles <- McCandles
    SwingLookback = 1
    AtrSpan = 3
    StructureBars = 3
    SweepBars = 3
    LabelBars = 4
    MaxLevelAge = 4
    MaxToResolve = 2
    StructureWindow = 5
    HitRates = {30, 50, 100}
    LastBar = 7
    PageBars = 2
    CallLimits = {2, 3}
    NewestBar = 7
    MinHistory = 2
    MinCached = 2
    MaxHitches = 2
INVARIANTS BuildIsMeasured
CHECK_DEADLOCK FALSE
