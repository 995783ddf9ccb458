CONSTANTS
    MaxConns = 2
    Numbers = {1, 2}
    MaxEvents = 6
    Responses = {"NONE", "STOP", "ACCEPT_MONITOR"}
    ThreadsMayFail = TRUE
    NULL = NULL
SPECIFICATION FairSpec
CHECK_DEADLOCK FALSE
INVARIANTS AnswerIsForEvent HandledByItsThread
PROPERTIES EventAnswered ThreadsEnd
