\* The journal could not be created, so nothing was published.
CONSTANTS
    Renderers = {ui}
    Requests <- BothRequests
    Nodes = {"n1"}
    Uses = {"stop", "retry", "clear", "update", "switch"}
    OtherSettings = {"a", "b", "manual"}
    Sustained = 3
    Crashes = FALSE
SPECIFICATION Spec
PROPERTIES
    NothingToRestoreIsFine
