SPECIFICATION MCSpec
CONSTANTS
    a = a
    b = b
    a1 = a1
    a2 = a2
    b1 = b1
    Catalogs = {a, b}
    Sessions = {a1, a2, b1}
    Home <- MCHome
    NoSession = NoSession
    NoCatalog = NoCatalog
    MaxTransactions = 2
    MaxStatements = 2
INVARIANTS
    OutcomeIsHonest
    UserIsToldTheTruth
    AllOrNothing
    WritesAreOnThePinnedSession
    NothingOutlivesTheTransaction
CHECK_DEADLOCK FALSE
