SPECIFICATION MCSpec
CONSTANTS
    k1 = k1
    k2 = k2
    Key = {k1, k2}
    MaxTS = 6
    Logical = 2
    NoLock = NoLock
    StartTS <- MCStartTS
    CommitOf <- MCCommitTwo
    ForUpdateOf <- MCForUpdateTwo
    PrimaryOf <- MCPrimaryTwo
    MutationOp = {"Put"}
    LockTTL = {1}
    CheckTS = {6}
    BindServer = {"A", "B"}
    BindSQL = {"s1", "s2", "s3"}
    HintOf <- MCHintOf
    Fragile = {"s3"}
    Loader = {"loop", "admin"}
    MaxBindTxns = 3
    MaxLoads = 2
    Tracker = {"r", "a", "b", "G"}
    Global = {"G"}
    Goroutine = {"g1", "g2"}
    Amount = {1}
    BytesLimit <- MCBytesLimit
    InitParent <- MCInitParent
    InitOwn <- MCInitOwn
    PanicSet <- MCPanicSet
    MaxTrackerOps = 2
INVARIANTS  DroppedNotUsed TrackerSums
CHECK_DEADLOCK FALSE
