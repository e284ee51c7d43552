SPECIFICATION Spec
CONSTANTS
    t1 = t1
    t2 = t2
    k1 = k1
    k2 = k2
    r1 = r1
    p1 = p1
    g1 = g1
    g2 = g2
    Key = {k1, k2}
    MaxTS = 7
    Logical = 1
    NoLock = NoLock
    Txn = {t1}
    Mutations <- MCFirstOne
    PrimaryKey <- MCPrimaries
    Pessimistic = {t1}
    Large = {}
    LockSets <- MCLockMore
    MaxStatements = 2
    Reader = {r1}
    PointReader = {}
    ReadKeys <- MCReadSecond
    Region = {g1, g2}
    RegionOf <- MCTwoRegions
    TTL = 2
    Loaded = {k2}
    LastReadTS = 9
INVARIANTS SnapshotRead
CHECK_DEADLOCK FALSE
