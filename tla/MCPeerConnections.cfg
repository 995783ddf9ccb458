CONSTANTS
    d1 = d1
    d2 = d2
    h1 = h1
    h2 = h2
    h3 = h3
    Loopback = Loopback
    Daemons = {d1, d2}
    Connects = {h1, h2, h3}
    Home <- MCHome
    Targets <- MCTargets
    MaxConnects = 2
    Slots <- MCSlots
    Running = {d2}
    MayStop = {d1}
SYMMETRY MCSymmetry
SPECIFICATION Spec
CHECK_DEADLOCK FALSE
INVARIANTS ReadsOwnSocket JoinsExistingThread  JoinedThreadEnds
PROPERTY SecondConnection
