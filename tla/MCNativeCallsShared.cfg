SPECIFICATION Spec
CONSTANTS
    Callers = {p, q}
    NoCaller = none
    MaximumOpenStatements = 2
    Operations = {"Query"}
    CallersPoison = TRUE
    MaximumRequests = 4
    MaximumCancels = 0
    MaximumFailures = 1
CHECK_DEADLOCK FALSE
INVARIANTS
    AnswerIsOwn
