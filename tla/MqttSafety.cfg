SPECIFICATION MCSpec
CONSTANTS
    Scenarios = {"requests", "down", "faults", "pid"}
    u0 = u0
    u1 = u1
    u2 = u2
    u3 = u3
    ubad = ubad
    d0 = d0
    d1 = d1
    d2 = d2
    d3 = d3
    NoId = NoId
    NoMsg = NoMsg
    LastId = 5
    BrokerIds = {1, 2}
    Qos <- MCQos
    LengthBit3 = {u1}
    Slots = 3
    HasReconnect = FALSE
    Budget <- NoBudget
    UpMsgs = {u0, u1, u2, u3, ubad}
    DownMsgs = {d0, d1, d2, d3}
    Requests = {"DISCONNECT"}
INVARIANTS AcksAreTrue Qos2HandledOnce UnknownAckIsExplained IdsAreMaxLength
