\* System Proxy only, no kill: every step is owed to the scheduler or the monitor.
CONSTANTS
    Renderers = {ui}
    Requests <- OnlyProxy
    Nodes = {"n1"}
    Uses = {"stop", "update"}
    OtherSettings = {"a", "b"}
    Sustained = 3
    Crashes = FALSE
SPECIFICATION FairSpec
PROPERTIES
    CommandsReturn
    Reconnects
