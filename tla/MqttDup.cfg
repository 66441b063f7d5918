SPECIFICATION Spec
CONSTANTS
    u0 = u0
    u1 = u1
    u2 = u2
    u3 = u3
    ubad = ubad
    d0 = d0
    d1 = d1
    d2 = d2
    d3 = d3
    NoId = NoId
    NoMsg = NoMsg
    LastId = 4
    BrokerIds = {1, 2}
    UpMsgs = {u1}
    DownMsgs = {}
    Qos <- MCQos
    LengthBit3 = {u1}
    Slots = 3
    Requests = {}
    HasReconnect = FALSE
    Budget <- UpBudget
INVARIANT ResentCarriesDup
