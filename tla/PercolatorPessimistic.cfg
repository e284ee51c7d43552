SPECIFICATION Spec
CONSTANTS
    t1 = t1
    t2 = t2
    k1 = k1
    k2 = k2
    r1 = r1
    p1 = p1
    g1 = g1
    g2 = g2
    Key = {k1, k2}
    MaxTS = 6
    Logical = 1
    NoLock = NoLock
    Txn = {t1, t2}
    Mutations <- MCOneAndTwo
    PrimaryKey <- MCPrimaries
    Pessimistic = {t1}
    Large = {}
    LockSets <- MCLockOwn
    MaxStatements = 2
    Reader = {}
    PointReader = {}
    ReadKeys <- MCReadBoth
    Region = {g1, g2}
    RegionOf <- MCTwoRegions
    TTL = 2
    Loaded = {}
    LastReadTS = 9
INVARIANTS NoLostUpdate
CHECK_DEADLOCK FALSE
