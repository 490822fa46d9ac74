SPECIFICATION ServicesSpec
CONSTANTS
    None = None
    NoFile = NoFile
    Empty = Empty
    Partial = Partial
    Foreign = Foreign
    Unknown = Unknown
    Torn = Torn
    Rest = Rest
    r1 = r1
    r2 = r2
    x1 = x1
    a1 = a1
    a2 = a2
    a3 = a3
    k1 = k1
    k2 = k2
    src = src
    gone = gone
    d1 = d1
    d2 = d2
    nh = nh
    cli = cli
    \* Two runs of `djinn egress start'.
    StartRuns = {"start1", "start2"}
    HostDaemon = "host"
    Broker = "broker"
    Admin = "admin"
    \* Two runs of up, two bottles, two blocks.
    Runs = {"up1", "up2"}
    NBottles = 2
    Blocks = {1, 2}
    BrowserPorts = {1, 2}
    SshPorts = {2, 3}
    Ids = {r1, r2}
    RequestKeys = {x1}
    Legacy <- MCLegacy
    MaxTrail = 3
    Servers = {"s1", "s2"}
    Shapes <- MCShapes
    AgentFleets <- MCFleets
    PluginsChange = FALSE
    MaxEdits = 1
    Keys = {"h1", "H1", "cli"}
    Host <- MCHost
    CliHost = "cli"
    CliVar = "gh"
    GhVars = {"gh"}
    Vars = {"v1", "v2"}
    Present = {"v1", "v2", "gh"}
    Identities = {"agent"}
    User = "user"
    Sections <- MCSections
    LaterSections <- MCLater
    Bindings <- MCBindings
    Shells = {"p1", "p2"}
    Plugin <- MCPlugin
    Agent <- MCAgent
    AgentOrder <- MCOrder
    Caps <- MCCaps
    RefOf <- MCRefOf
    Filled = {src}
    Root <- MCRoot
    StaticMounts <- MCStatic
    StaticNames = {"workspace"}
    Manifests <- MCManifests
    Descriptors <- MCDescriptors
    Ops = {"op1", "op2"}
    Daemon = "daemon"
    Once = "once"
    Targets <- MCTargets
    Protected <- MCProtected
    \* Two panes; the server stops once and never gives out an id again.
    Panes = {"w1:p1", "w1:p2"}
    Reused = FALSE
    Status = {"working", "blocked"}
    Notified = {"blocked"}
    MaxPending = 2
    MaxStops = 1
    Packets <- MCPackets
    Dests = {"dest1", "dest2"}
    Window = 2
\* Each manifest is derived once, each descriptor admitted once.
CHECK_DEADLOCK FALSE
INVARIANTS
    TrailReplaysToRow
    HoldersAgree
    CallersFindTheBroker
    
    FilesSayWhatIsDeclared
    OwnLaneOnly
    AcceptedIffTheyFit
    SecretsAreEffective
    DialledIsOpen
    AdmittedWires
    BlockedIsTold
    NewPaneIsCovered
PROPERTIES
    ImplementsBlocks
    HandWrittenStays
    NothingIsOverwritten
    SilenceIsBounded
