CONSTANTS
    t1 = t1
    t2 = t2
    t3 = t3
    entry = entry
    active_entry = active_entry
    NULL = NULL
    Threads = {t1, t2, t3}
    Locals = {entry, active_entry}
    TableSize = 2
SPECIFICATION FairSpec
INVARIANTS RefcountExact NoUseAfterFree
PROPERTY FreeCompletes
