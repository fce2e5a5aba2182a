\* Every build of six modules, at boot and under the readiness check.
SPECIFICATION Spec
CONSTANTS
    Envelopes = {e1, e2}
    MaxAge = 2
    MaxSkew = 1
    Horizon = 9
    c1 = c1
    c2 = c2
    Combos = {c1, c2}
    Test = test
    Legs = {ce, pe}
    TestLeg = ce
    NoCombo = none
    MarginOf <- Even
    Capital = 2
    KillLoss = 0
    MaxLoss = 1
    MaxEvents = 1
    Interval = 1
    Timeout = 2
    Deadman = 6
    CheckEvery = 1
    Latency = 1
    Modules <- McModules
    Runner = "options_runner"
    Client = "sentinel_client"
    BrainModules = {"options_runner", "live_session", "council"}
    Forbidden = {"broker"}
    Builds <- McBuilds
    Quotes <- McQuotes
    Moneys = {2, 3}
    Wing = 1
    ExpiryEvery = 2
    MaxOccurs = 3
    Marks = {0, 1}
    StopLoss = 1
    Target = 1
    TrailPeak = 1
    Giveback = 1
    PureSltp = TRUE
    MaxShadows = 2
    MaxSignals = 3
    Strategies = {"eth", "btc"}
    SettingKeys = {"mode", "equity"}
    OkTtl = 1
    ErrorTtl = 2
    MaxSets = 3
    TradedSymbols = {"NIFTY", "SENSEX"}
    WarnAge = 2
    FeedAge = 3
    FailAge = 4
    MaxTrouble = 2
INVARIANTS GuardSeesLeaks
CHECK_DEADLOCK FALSE
