CONSTANTS
    h1 = h1
    h2 = h2
    tcp1 = tcp1
    tcp2 = tcp2
    net = net
    NULL = NULL
    HandlerThreads = {h1, h2}
    TcpThreads = {tcp1}
    NetThreads = {net}
    TableSize = 2
    MaxPending = 1
    MaxInactive = 1
    Requests = {"SOCKET", "LISTEN", "ACCEPT", "CLOSE", "leave"}
    WaitStates = {}
SPECIFICATION Spec
SYMMETRY Symmetry
INVARIANTS SleepersMustWait 
PROPERTY TableRules
