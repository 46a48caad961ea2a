\* Two sessions, two engines each, two requests after the start, one restart of
\* RouteDeck.
CONSTANTS
    MaxSessions = 2
    MaxRuns = 2
    MaxRequests = 4
    MaxBoots = 1
SPECIFICATION FairSpec
INVARIANTS
    TypeOK
    OneTunnel
    ResidueHasEvidence
    TruthfulStop
    FramesMatch
PROPERTIES
    OrphanStops
CHECK_DEADLOCK FALSE
