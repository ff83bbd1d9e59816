CONSTANTS
    Scans = {x1}
    Workers = {w1}
    Chunks = 1
    Kinds = {"serial", "deferred"}
    Sessions = {s1}
    MaximumSessions = 1
    MaximumQueries = 1
    MaximumMoments = 1
    MaximumFailures = 1
SPECIFICATION Spec
INVARIANT FailedNeverReturns
CHECK_DEADLOCK FALSE
