SPECIFICATION MCSpec
CHECK_DEADLOCK FALSE
CONSTANTS
    NBlocks = 2
    Bytes = {"other"}
    NumberMod = 256
    Breaks = {"start"}
    MaxSendErrors = 10
    MAX_ERRORS = 5
    MaxLoss = 3
    MaxGarble = 1
    MaxFlip = 1
    MaxBroken = 1
    RestBytes = 2
    MaxEarly = 2
    FullBlocks = 2
    Rest = TRUE
    MaxTries = 3
    BlockMod = 65536
    Disk = {"ok", "EACCES", "EIO"}
    TIDs = {"t1", "t2"}
    NetLoss = 1
    NetDup = 1
    NetEarly = 1
INVARIANTS ReceivedIsPrefix SuccessIsComplete TransferIsRight
PROPERTIES TransfersEnd
