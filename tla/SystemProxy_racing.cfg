\* Another program may write between RouteDeck's comparison and its write.
CONSTANTS
    Ids = {i1, i2}
    Owners = {o1}
    Tokens = {t1, t2, t3}
    RacingWriters = TRUE
SPECIFICATION Spec
INVARIANTS
    UserSettingSurvives
