SPECIFICATION MCSpec
CONSTANTS
    Junk = "junk"
    MemSize = 10
    HeaderSize = 2
    Payloads <- MCPayloads
    Keys = {1, 2}
    Data = {"x", "y"}
    maxNum = 7
    Threads = {"t1", "t2", "t3"}
    NoThread = "none"
    DetectsDeadlock = TRUE
INVARIANTS LayoutOK ArrayHeapOrder LockOK
PROPERTIES IsAMessageList ImplementsQueue TreeIsTimerSet
