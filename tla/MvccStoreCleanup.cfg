SPECIFICATION Spec
CONSTANTS
    k1 = k1
    k2 = k2
    Key = {k1}
    MaxTS = 6
    Logical = 2
    NoLock = NoLock
    StartTS <- MCStartTS
    CommitOf <- MCCommitOf
    ForUpdateOf <- MCForUpdateOf
    PrimaryOf <- MCPrimaryOne
    MutationOp = {"Put"}
    LockTTL = {0, 1}
    CheckTS = {3, 6}
INVARIANT CleanupFinal
