CONSTANTS
    net = net
    delivery = delivery
    snd1 = snd1
    rcv = rcv
    Deliverers = {net, delivery}
    Senders = {snd1}
    Receivers = {rcv}
    MaxSegments = 2
    MaxCalls = 3
SPECIFICATION LiveSpec
INVARIANT NothingForgotten
PROPERTY InputHandled
CHECK_DEADLOCK FALSE
