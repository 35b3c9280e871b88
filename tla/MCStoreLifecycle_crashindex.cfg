CONSTANTS
    v1 = v1
    v2 = v2
    None = None
    Garbage = Garbage
    Uncached = Uncached
    INITIAL_GROUP_ID = INITIAL_GROUP_ID
    Values <- MCValues
    ValueLen <- MCValueLen
    Keys <- MCKeys
    GROUP_NUM = 2
    MAX_INITIAL_BUFFER_AMOUNT = 1
    MAX_BUFFER_SIZE = 8
    KEY_LENGTH = 2
    MaxOps = 5
    MaxBoots = 3
    MaxCrashes = 1
    MaxWriteFails = 0
    RangeNum = 2
SPECIFICATION Spec
INVARIANT
    IndexPointsToPersistedRecords
