\* A process just started over existing data: the index has positions in
\* both groups and FileManager has opened no file yet.
CONSTANTS
    t1 = t1
    t2 = t2
    t3 = t3
    Buf = Buf
    NoOwner = NoOwner
    NoFp = NoFp
    NoMutex = NoMutex
    Threads <- MCThreads2
    GROUP_NUM = 2
    FILE_LRU_CAPACITY = 2
    Calls = {"put", "get", "gc"}
    InitMutexed = {}
    InitOpened <- MCNoneOpen
    InitIndexed = {0, 1}
    MaxCalls = 2
    MaxFopens = 8
SPECIFICATION Spec
INVARIANT MutexExistsWhenLocked
