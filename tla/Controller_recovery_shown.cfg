\* A teardown that fails while a repeated connect is proving the session.
CONSTANTS
    Renderers = {ui}
    Requests <- BothRequests
    Nodes = {"n1"}
    Uses = {"stop", "retry", "clear", "update", "switch"}
    OtherSettings = {"a", "b", "manual"}
    Sustained = 3
    Crashes = FALSE
SPECIFICATION Spec
INVARIANTS
    RecoveryIsShown
