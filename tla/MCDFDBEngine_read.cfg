CONSTANTS
    t1 = t1
    t2 = t2
    v1 = v1
    v2 = v2
    None = None
    Garbage = Garbage
    Nobody = Nobody
    Auto = Auto
    Threads <- MCThreads
    Keys <- MCKeys
    Values <- MCValues
    ValueLen <- MCValueLen
    Pivots <- MCPivots
    KEY_LENGTH = 2
    MAX_BUFFER_SIZE = 8
    DISK_SIZE = 100
    MaxGcLoops = 3
    MaxOps = 2
    RangeNum = 1
    Ops = {"put", "get", "range"}
SPECIFICATION Spec
SYMMETRY MCSymmetry
INVARIANTS
    ReadReturnsCurrent
    RangeReturnsCurrent
