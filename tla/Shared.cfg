SPECIFICATION MCSpec
CHECK_DEADLOCK FALSE
CONSTANTS
    Byte <- MCByte
    Blocks <- MCBlocks
    Lengths <- MCLengths
    pool_size = 4
    Workers = {"w"}
    Capacity = 2
    MaxAdds = 5
    Timers = {"t1", "t2"}
    NumFds = 2
    mMaxCnt = 2
    OtherThread = FALSE
    MaxCalls = 9
    Elements = {"a", "b", "c"}
    MaxDepth = 3
    SafeMaxCalls = 6
INVARIANTS RunsInOrder WaitingTasksStay NoTaskLeft
INVARIANTS FifoTypeOK QueriesAgree StaleIndexIsSafe NoTornCopy NoLostEdge VisitsEachOnce
PROPERTIES IsSpscQueue TableIsMap WorkIsDone
