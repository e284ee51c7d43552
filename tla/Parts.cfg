SPECIFICATION MCSpec
CONSTANTS
    BKey = {1, 2, 3}
    BValue = {8, 9, 10}
    FlagsOp = {"SetKeyLocked"}
    KeyLen = 1
    HdrSize = 1
    InitBlockSize = 1
    MaxBlockSize = 8
    EntrySizeLimit = 9
    MaxLog = 4
    MaxStages = 2
    Snap <- MCSnap
    IncStep = 1
    TreeKey = {1, 2, 3, 4, 5, 6}
    DBName = {"d", "e"}
    BlockName = {"a", "b"}
    BucketCount = 2
    MaxDDL = 3
    DDLKind = {"createSchema", "dropSchema", "modifySchema", "createBlock", "dropBlock", "truncateBlock", "renameBlock", "alterBlock", "alterPartitions", "setReplica", "exchange"}
    CoKey = {1, 2, 3, 4}
    Grp <- MCGrp
    ColVal <- MCColVal
    Passing = {1, 2, 4}
    CoRequest <- MCRequest
    CoStores <- MCCoStores
    RowsPerChunk = 2
    AnalyzeCap = 2
    Caller = {c1, c2}
    CacheExpiry = 2
    MaxVarVersion = 3
    MaxVarClock = 4
    Service = {q1, q2}
    GCWorker = gc
    Point = {1, 2, 3}
INVARIANTS BufferReadsAgree BufferBooks TreeCorrect CoAnswerExact SchemaExact ChangesReported SafePointRespected
PROPERTIES ImplementsStagedMap VarsNeverGoBack
CHECK_DEADLOCK FALSE
