SPECIFICATION FairSpec
CONSTANTS
    t1 = t1
    t2 = t2
    k1 = k1
    k2 = k2
    r1 = r1
    p1 = p1
    g1 = g1
    g2 = g2
    Key = {k1, k2}
    MaxTS = 5
    Logical = 1
    NoLock = NoLock
    Txn = {t1, t2}
    Mutations <- MCPutBoth
    PrimaryKey <- MCPrimaries
    Pessimistic = {}
    Large = {t1}
    LockSets <- MCLockOwn
    MaxStatements = 0
    Reader = {r1}
    PointReader = {}
    ReadKeys <- MCReadSecond
    Region = {g1, g2}
    RegionOf <- MCTwoRegions
    TTL = 1
    Loaded = {}
    LastReadTS = 3
INVARIANTS SnapshotRead
PROPERTIES ReadsComplete
CHECK_DEADLOCK FALSE
