CONSTANTS
    k = k
    l = l
    None = None
    Keys <- MCKeys
    Snapshots <- MCSnapshots
    Notices <- MCNotices
    Malformed = {"twice"}
    MaxPartitions = 1
SPECIFICATION Spec
INVARIANTS ListedIsForward ListedCoversInvalidations ListedIsDurable EngineInv
PROPERTY UnblockedByNewer
