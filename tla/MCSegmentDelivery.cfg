CONSTANTS
    n1 = n1
    p1 = p1
    NetThreads = {n1}
    Ports = {p1}
    Listener = Listener
    MaxSegments = 3
    MaxDelayed = 2
    NULL = NULL
SPECIFICATION Spec
INVARIANTS OrderKept OnePlaceEach QueueAttended
