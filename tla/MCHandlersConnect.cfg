CONSTANTS
    h1 = h1
    h2 = h2
    tcp1 = tcp1
    tcp2 = tcp2
    net = net
    NULL = NULL
    HandlerThreads = {h1, h2}
    TcpThreads = {tcp1, tcp2}
    NetThreads = {}
    TableSize = 1
    MaxPending = 1
    MaxInactive = 1
    Requests = {"SOCKET", "LISTEN", "CONNECT", "CLOSE", "WAIT_FOR_STATE", "leave"}
    WaitStates = {"CLOSED", "ESTABLISHED"}
SPECIFICATION ThreadSpec
INVARIANTS SleepersMustWait TcpThreadOwnsEntry
PROPERTIES TableRules NobodyStuck
