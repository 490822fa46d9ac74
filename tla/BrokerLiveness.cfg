SPECIFICATION FairSpec
CONSTANTS
    c1 = c1
    c2 = c2
    h1 = h1
    h2 = h2
    h3 = h3
    r1 = r1
    r2 = r2
    r3 = r3
    z1 = z1
    z2 = z2
    f1 = f1
    f2 = f2
    o1 = o1
    o2 = o2
    global = global
    Containers = {c1}
    Hosts = {h1}
    Ids = {r1, r2}
    None = None
    IpHosts = {}
    Zones = {z1}
    Covered <- MCCovered
    Global = global
    Filers = {f1}
    Operators = {o1}
    ScriptExits = {"ok", "failed"}
    MaxTries = 1
    MaxCrashes = 0
    MaxFaults = 0
PROPERTIES
    InFlightIsResolved
    OperatorIsAnswered
    StaleIsClosed
