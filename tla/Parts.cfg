CONSTANTS
    MaxTrafficRules = 3
    MaxAppRules = 2
    MaxSwitchNodes = 3
    NodeTags <- MCNodeTags
    MaxNodes = 3
    Scenarios <- MCScenarios
    Connections <- MCConnections
    Tokens = {t1, t2}
    Releases = {1, 2, 3}
    MaxEdits = 1
    Servers = {n1, n2}
    MaxAsks = 2
    MaxDrifts = 4
    EngineFiles = {e1, e2}
    MaxForeign = 1
    TargetCount = 3
    MaxExchanges = 3
    MaxRestarts = 2
SPECIFICATION PartsSpec
INVARIANTS
    PartsTypeOK
    GeneratedIsAccepted
    TrafficFollowsPolicy
    ImportKeepsSecurity
    ReleasesKept
    EveryWaitEnds
    IntentHonoured
    CleanupIsSafe
    SelectionIsKnown
    EngineIsContained
PROPERTY InstalledIsWhole
CHECK_DEADLOCK FALSE
