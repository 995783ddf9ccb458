CONSTANTS
    e1 = e1
    e2 = e2
    m1 = m1
    m2 = m2
    t1 = t1
    t2 = t2
    t3 = t3
    NULL = NULL
    Entries = {e1, e2}
    Monitors = {m1, m2}
    Threads = {t1, t2, t3}
SPECIFICATION FairSpec
INVARIANTS NoUseAfterDestroy RefCountExact
PROPERTY UnneededDestroyed
