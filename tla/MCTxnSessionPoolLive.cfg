SPECIFICATION FairSpec
CONSTANTS
    Transactions = {t1, t2}
    Catalog = catalog
    Sessions = {s1, s2}
    NoSession = NoSession
    NoCaller = NoCaller
    MaximumIdle = 2
    MaxReused = 1
PROPERTIES
    CallsReturn
    ClosedPoolDrains
CHECK_DEADLOCK FALSE
