SPECIFICATION Spec
CONSTANTS
    Callers = {p, q}
    NoCaller = none
    MaximumOpenStatements = 2
    Operations = {"Query", "Execute", "Call", "ExecuteAdmin", "Commit"}
    CallersPoison = FALSE
    MaximumRequests = 3
    MaximumCancels = 1
    MaximumFailures = 1
CHECK_DEADLOCK FALSE
INVARIANTS
    ReusableIsClean
    AnswerIsOwnUntilFailure
    CursorsAreAccounted
    CancellationIsOver
PROPERTIES
    InterruptEndsCall
