SPECIFICATION MCSpec
CHECK_DEADLOCK FALSE
CONSTANTS
    UboxTimers = {"a", "b", "c"}
    UboxFds = {}
    Msecs = {0, 1, 2}
    Grain = 2
    Thousand = 2
    UboxMaxTime = 2
    UboxMaxCalls = 4
    EVENT_MAX_EVENTS = 2
    Fds = {}
    Timeouts = {"t", "u"}
    Delays = {0, 1}
    Fails = {}
    Frees = TRUE
    MaxTime = 6
    MaxCalls = 4
    Timers = {"t1"}
    SelTimeouts = {2}
    Periodic = {}
    MaxFd = 2
    Kinds = {1}
    Epoch = 10
    MaxTicks = 0
    SelMaxCalls = 6
    MaxSignals = 0
INVARIANTS NetNoOverdue NothingOverlooked NoLoopOversleeps
PROPERTIES TimeoutsServed EventsServed
