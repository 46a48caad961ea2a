\* Two threads, two preview slots, the legacy source and one import, one refresh
\* of each; three servers fill the library.
CONSTANTS
    Jobs = {j1, j2}
    Tokens = {t1, t2}
    Subscriptions <- Lists
    MaxPreviews = 2
    MaxSources = 2
    MaxNodes = 3
    MaxImports = 2
    MaxRevision = 1
SPECIFICATION Spec
SYMMETRY Alike
INVARIANTS
    TypeOK
    SlotsAccounted
    RestartShowsTheSame
    SessionRunsStoredServer
    IdKeepsItsServer
    RemovedStaysRemoved
PROPERTIES
    RefreshBuildsOnLatest
