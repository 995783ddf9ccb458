CONSTANTS
    h1 = h1
    h2 = h2
    tcp1 = tcp1
    tcp2 = tcp2
    net = net
    NULL = NULL
    HandlerThreads = {h1, h2}
    TcpThreads = {tcp1}
    NetThreads = {net}
    TableSize = 1
    MaxPending = 1
    MaxInactive = 1
    Requests = {"SOCKET", "CONNECT", "leave"}
    WaitStates = {}
SPECIFICATION Spec
INVARIANT CleanupInClosed
