CONSTANTS
    r1 = r1
    r2 = r2
    lo = lo
    h1 = h1
    h2 = h2
    TableSize = 3
    PortMod = 2
    EphemeralStart = 0
    BindAddrs = {Wildcard}
    BindPorts = {1}
    Local = Local
    Remotes = {r1, r2, lo}
    RemotePorts = {1}
    Loopbacks = {lo}
    Wildcard = Wildcard
    HandlerThreads = {h1, h2}
    MaxBusy = 4
    NULL = NULL
SYMMETRY Symmetry
SPECIFICATION Spec
INVARIANTS BestMatch ReachesItsConnection
PROPERTY PortKept
