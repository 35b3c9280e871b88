\* A warmed-up process (both files open, capacity for both): three threads
\* making flushing puts, gets and gc calls on any group, racing one another.
CONSTANTS
    t1 = t1
    t2 = t2
    t3 = t3
    Buf = Buf
    NoOwner = NoOwner
    NoFp = NoFp
    NoMutex = NoMutex
    Threads <- MCThreads3
    GROUP_NUM = 2
    FILE_LRU_CAPACITY = 2
    Calls = {"put", "get", "gc"}
    InitMutexed = {0, 1}
    InitOpened <- MCWarm
    InitIndexed = {0, 1}
    MaxCalls = 4
    MaxFopens = 8
SYMMETRY MCSymmetry
SPECIFICATION Spec
INVARIANTS
    TypeOK
    FpOpenWhenUsed
    FileIoExclusive
    UnlockOwnsMutex
