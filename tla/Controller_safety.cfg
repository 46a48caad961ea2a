\* One renderer thread, as the UI's queue guarantees; both capture modes.
CONSTANTS
    Renderers = {ui}
    Requests <- BothRequests
    Nodes = {"n1"}
    Uses = {"stop", "retry", "clear", "update", "switch"}
    OtherSettings = {"a", "b", "manual"}
    Sustained = 3
    Crashes = TRUE
SPECIFICATION Spec
INVARIANTS
    TypeOK
    JournalHasOwner
    DisconnectWins
    ExitIsClean
    ReadyHasSession
PROPERTIES
    NoDeadEndpoint
    StartsOnlyWhenSafe
    ToldConflictPauses
