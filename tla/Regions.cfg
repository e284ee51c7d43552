SPECIFICATION MCFairSpec
CONSTANTS
    MaxKey = 4
    Store = {1, 2}
    BootPeers = {1, 2}
    TiFlash = {}
    Data = {1, 2, 3, 4}
    Scanner = {s1}
    Raw = {w1, w2}
    w1 = w1
    Oversized = {w2}
    w2 = w2
    Together <- MCTogether
    Splitter = {p1}
    s1 = s1
    p1 = p1
    SplitAtKeys <- MCSplitAtKeys
    RawCmd = {"RawPut", "RawBatchDelete", "RawReverseScan"}
    Admin = {"Merge", "AddPeer", "RemovePeer", "ChangeLeader", "SetStore", "SplitKeys"}
    SplitRanges <- MCSplitRanges
    Limit = 2
    MaxChanges = 2
INVARIANTS RegionsPartition ScanExact
PROPERTIES ScansEnd
CHECK_DEADLOCK FALSE
