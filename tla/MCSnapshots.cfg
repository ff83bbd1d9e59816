SPECIFICATION Spec
CONSTANTS
    c1 = c1
    memory = memory
    t1 = t1
    t2 = t2
    q1 = q1
    ora = ora
    ORA = ORA
    SnapshotCallers = {c1}
    Databases = {memory}
    SourceTables = {t1, t2}
    Sources = {q1}
    AttachedName = ora
    Spellings = {ora, ORA}
    MaximumMoment = 2
INVARIANT MarkedRowsAreOfTheirMoment
CHECK_DEADLOCK FALSE
