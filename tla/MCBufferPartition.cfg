CONSTANTS
    v1 = v1
    v2 = v2
    Values <- MCValues
    ValueLen <- MCValueLen
    Keys <- MCKeys
    GROUP_NUM = 3
    MAX_INITIAL_BUFFER_AMOUNT = 4
    MAX_BUFFER_SIZE = 16
    KEY_LENGTH = 2
SPECIFICATION MCSpec
INVARIANTS
    TypeOK
    PartitionMatchesLookup
    SizeCountersExact
    PivotsComplete
PROPERTIES
    PartitionKeepsEveryWrite
