\* Two user settings of each kind, two publications, one racing-free machine.
CONSTANTS
    Ids = {i1, i2}
    Owners = {o1, o2}
    Tokens = {t1, t2, t3}
    RacingWriters = FALSE
SPECIFICATION Spec
SYMMETRY Renamings
INVARIANTS
    TypeOK
    OwnedHasJournal
    HonestOutcome
    UserSettingSurvives
PROPERTIES
    ConflictLeavesEvidence
    ImplementsLoan
