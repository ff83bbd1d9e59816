SPECIFICATION Spec
CONSTANTS
    Transactions = {t1, t2}
    Catalog = catalog
    Sessions = {s1, s2, s3}
    NoSession = NoSession
    NoCaller = NoCaller
    MaximumIdle = 1
    MaxReused = 1
SYMMETRY Symmetry
INVARIANTS
    NoSharing
    IdleIsReusable
    LeaseIsUsable
    CountersBalance
    NothingLeaks
PROPERTIES
    LeasingSpec
CHECK_DEADLOCK FALSE
