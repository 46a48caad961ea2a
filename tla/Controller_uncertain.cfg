\* The engine of a session with an unknown exit server dies.
CONSTANTS
    Renderers = {ui}
    Requests <- BothRequests
    Nodes = {"n1"}
    Uses = {"stop", "retry", "clear", "update", "switch"}
    OtherSettings = {"a", "b", "manual"}
    Sustained = 3
    Crashes = FALSE
SPECIFICATION Spec
PROPERTIES
    UncertainIsNotRestarted
