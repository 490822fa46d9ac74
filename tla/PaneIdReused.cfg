SPECIFICATION Spec
CONSTANTS
    p1 = p1
    p2 = p2
    working = working
    blocked = blocked
    Panes = {p1, p2}
    Reused = TRUE
    Status = {working, blocked}
    Notified = {blocked}
    None = None
    Unknown = Unknown
    MaxPending = 1
    MaxStops = 1
INVARIANT NewPaneIsCovered
