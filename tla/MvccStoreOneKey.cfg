SPECIFICATION Spec
CONSTANTS
    k1 = k1
    Key = {k1}
    MaxTS = 6
    Logical = 2
    NoLock = NoLock
    StartTS <- MCStartTS
    CommitOf <- MCCommitOf
    ForUpdateOf <- MCForUpdateOf
    PrimaryOf <- MCPrimaryOne
    MutationOp = {"Put", "Del", "Lock", "Insert", "CheckNotExists"}
    LockTTL = {0, 1}
    CheckTS = {3, 6}
INVARIANTS TypeOK OneFate LockExcludesRecord RollbackFinal
PROPERTIES HistoryKept GCKeepsReads PrimaryLockMonotone
