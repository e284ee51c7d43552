SPECIFICATION Spec
CONSTANTS
    tb1 = tb1
    tb2 = tb2
    add = add
    drop = drop
    Table = {tb1, tb2}
    Action = {add, drop}
    Lease = 1
    MaxDeltaSchemaCount = 2
    Txn = {x1}
    Diffs <- MCDiffsOne
    MaxVer = 3
    MaxNow = 0
    RetryTimes = 1
    MaxDiffsToLoad = 4
    Events = {"missingDiff", "syncFail", "sessionLost", "historyRead"}
PROPERTIES FaultsHarmOnlyOverlapping
CHECK_DEADLOCK FALSE
