SPECIFICATION Spec
CONSTANTS
    tb1 = tb1
    tb2 = tb2
    add = add
    drop = drop
    Table = {tb1, tb2}
    Action = {add, drop}
    Lease = 1
    MaxDeltaSchemaCount = 2
    Txn = {x1}
    Diffs <- MCDiffs
    MaxVer = 4
    MaxNow = 3
    RetryTimes = 1
    MaxDiffsToLoad = 4
    Events = {}
INVARIANTS ReportedInUse
PROPERTIES KnownChangesCaught LeaseBoundsLag
CHECK_DEADLOCK FALSE
