SPECIFICATION FairSpec
CONSTANTS
    t1 = t1
    t2 = t2
    p1 = p1
    p2 = p2
    e1 = e1
    e2 = e2
    Threads = {t1, t2}
    Tools = {p1}
    Entries = {e1, e2}
    None = None
    MaxClock = 2
INVARIANTS
    MatchIsCurrent
PROPERTIES
    ImplementsDenySet
    CallsEnd
