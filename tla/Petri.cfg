SPECIFICATION MCSpec
CONSTANTS
    tb1 = tb1
    tb2 = tb2
    add = add
    drop = drop
    Table = {tb1, tb2}
    Action = {add, drop}
    Lease = 2
    MaxDeltaSchemaCount = 2
    Txn = {}
    Diffs <- MCDiffs
    MaxVer = 3
    MaxNow = 1
    RetryTimes = 2
    MaxDiffsToLoad = 4
    Events = {"missingDiff", "syncFail", "sessionLost"}
    q1 = q1
    q2 = q2
    q3 = q3
    Query = {q1, q2, q3}
    Duration <- MCDuration
    Start <- MCStart
    Internal = {}
    ShowClient = {client}
    TopN = 1
    Period = 1
    QueueSize = 2
    ChCap = 2
    MsgCap = 1
    MaxClock = 1
    User = {user1, user2}
    MaxSessions = 2
    PoolCap = 1
    Config <- MCConfig
INVARIANTS SlowQueriesKept CloseLeavesNothing
PROPERTIES EventuallyRestarted LeaseCatchesUp ShowAnswered CloseReturns
CHECK_DEADLOCK FALSE
