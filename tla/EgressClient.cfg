SPECIFICATION FairSpec
CONSTANTS
    c1 = c1
    c2 = c2
    q1 = q1
    k1 = k1
    k2 = k2
    Conns = {c1}
    Tools = {q1}
    Keys = {k1, k2}
    None = None
    MaxTries = 2
\* Each client asks once.
CHECK_DEADLOCK FALSE
INVARIANTS
    AnswerIsNews
PROPERTIES
    FirstAndToolsAreHeld
    DecidedIsTold
