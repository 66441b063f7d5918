SPECIFICATION MCFairSpec
CONSTANTS
    Scenarios = {"up", "requests"}
    u0 = u0
    u1 = u1
    u2 = u2
    u3 = u3
    ubad = ubad
    d0 = d0
    d1 = d1
    d2 = d2
    d3 = d3
    NoId = NoId
    NoMsg = NoMsg
    LastId = 5
    BrokerIds = {1, 2}
    Qos <- MCQos
    LengthBit3 = {u1}
    Slots = 3
    HasReconnect = FALSE
    Budget <- NoBudget
    UpMsgs = {u0, u1, u2, u3}
    DownMsgs = {}
    Requests = {"SUBSCRIBE", "UNSUBSCRIBE", "PINGREQ"}
INVARIANTS TypeOK CompletedWasDelivered Qos2OnceInOrder OneQos2InFlight
PROPERTIES EveryCallSettles
