\* One handle fewer than group files, a single thread getting keys of
\* both groups.
CONSTANTS
    t1 = t1
    t2 = t2
    t3 = t3
    Buf = Buf
    NoOwner = NoOwner
    NoFp = NoFp
    NoMutex = NoMutex
    Threads <- MCThreads1
    GROUP_NUM = 2
    FILE_LRU_CAPACITY = 1
    Calls = {"get"}
    InitMutexed = {0, 1}
    InitOpened <- MCOneOpen
    InitIndexed = {0, 1}
    MaxCalls = 2
    MaxFopens = 8
SPECIFICATION Spec
INVARIANT UnlockOwnsMutex
