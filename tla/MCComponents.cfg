SPECIFICATION Spec
CONSTANTS
    MaximumInList = 2
    MaximumInValues = 4
    MaximumIntervals = 4
    MaximumQuestions = 20
    LowestKey <- MCLowestKey
    HighestKey = 15
    ReadUnits = 3
    ContentUnits = 5
    LargeBytes = 4
    PieceBytes = 4
    GroupRows = 2
    MaximumArguments = 2
    MaximumOperations = 2
    MetadataRows = 5
    Half = 8
    MaximumShards = 4
    MinimumBlocks = 6
    ChunkBlocks = 2
    MaximumChunks = 5
    l1 = l1
    l2 = l2
    l3 = l3
    l4 = l4
    w1 = w1
    w2 = w2
    Lookups = {l1, l2, l3, l4}
    ResolverWorkers = {w1, w2}
    MaximumQueue = 2
    NoLookup = NoLookup
    MaximumRowBytes = 3
    MaximumBatchBytes = 4
    RequestedRows = 2
    Tables <- MCTables
    s1 = s1
    s2 = s2
    s3 = s3
    Statements = {s1, s2, s3}
    Programs <- MCPrograms
    c1 = c1
    c2 = c2
    t1 = t1
    t2 = t2
    q1 = q1
    q2 = q2
    memory = memory
    file = file
    ora = ora
    SnapshotCallers = {c1, c2}
    Databases = {memory, file}
    SourceTables = {t1, t2}
    Sources = {q1, q2}
    AttachedName = ora
    Spellings = {ora}
    MaximumMoment = 1
    Threads = {p, q, r}
    FirstCallId = 4
    MaximumOpenCursors = 2
    MaximumCallId = 4
    MaximumReturned = 2
    MaximumTransactions = 2
    NullValue = NullValue
    UnitDigits = 3
    BigintDigits = 2
    DecimalDigits = 3
    MaximumFloatDigits = 5
    LargestMonths = 500
    NanosecondSeconds = {0, 1}
    k1 = k1
    k2 = k2
    Lookers = {k1, k2}
    NoLooker = NoLooker
    ObjectNames <- MCObjectNames
    Shapes <- MCShapes
    Schemas <- MCSchemas
    MaximumColumns = 4
    MaximumObjects = 2
    MaximumMoments = 2
    MaximumLookups = 2
INVARIANTS
    PushdownIsSound
    LobsAreWhole
    CallsAreTheOnesMeant
    TableIsReadOnce
    NoLookupIsLost
    RowsAreOnce
    CursorsAreInOneHand
    AnswersAreSettled
    MarkedRowsAreOfTheirMoment
    DeadlineIsRestored
    InterruptReachesUndisturbedCall
    TablesAreAsDescribed
    ValuesAreAsStored
CHECK_DEADLOCK FALSE
