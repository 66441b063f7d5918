SPECIFICATION Spec
CHECK_DEADLOCK FALSE
CONSTANTS
    NBlocks = 2
    Bytes = {"other", "EOT"}
    NumberMod = 256
    Breaks = {"start"}
    MaxSendErrors = 10
    MAX_ERRORS = 5
    MaxLoss = 0
    MaxGarble = 0
    MaxFlip = 0
    MaxBroken = 1
    RestBytes = 2
    MaxEarly = 0
INVARIANT SuccessIsTrue
