CONSTANTS
    Scans = {x1, x2}
    Workers = {w1, w2}
    Chunks = 2
    Kinds = {"statement", "aggregate", "serial", "deferred", "parallel"}
    Sessions = {s1, s2}
    MaximumSessions = 1
    MaximumQueries = 2
    MaximumMoments = 2
    MaximumFailures = 1
SPECIFICATION Spec
INVARIANTS LiveIsAccounted EachChunkOnce OneMoment
    NobodyIsStuck
SYMMETRY Symmetry
CHECK_DEADLOCK FALSE
