\* One handle fewer than group files: the handle of group 1 is open, group
\* 0's file was opened and evicted; two threads get.
CONSTANTS
    t1 = t1
    t2 = t2
    t3 = t3
    Buf = Buf
    NoOwner = NoOwner
    NoFp = NoFp
    NoMutex = NoMutex
    Threads <- MCThreads2
    GROUP_NUM = 2
    FILE_LRU_CAPACITY = 1
    Calls = {"get"}
    InitMutexed = {0, 1}
    InitOpened <- MCOneOpen
    InitIndexed = {0, 1}
    MaxCalls = 2
    MaxFopens = 8
SPECIFICATION Spec
INVARIANT FpOpenWhenUsed
