CONSTANTS
    c1 = c1
    c2 = c2
    NULL = NULL
    Clients = {c1, c2}
    MaxCalls <- MCMaxCalls
    Uses <- MCUses
    MayDie = {c2}
    Lengths = {2}
    CreateMayFail = TRUE
SPECIFICATION FairSpec
CHECK_DEADLOCK FALSE
INVARIANTS  BytesAccounted StoppedMeansQuiet
PROPERTIES CallsReturn StopReturns ShutdownBetweenCommands
