SPECIFICATION LiveSpec
CONSTANTS
    w1 = w1
    r1 = r1
    a = a
    b = b
    Writers = {w1}
    Readers = {r1}
    Bytes = {a, b}
    maxsize = 2
    MaxLen = 3
    SeqMod = 3
    InitialSeqs = {2}
INVARIANT SeqSpansContents
PROPERTIES
    ImplementsStream
    CallsEnd
