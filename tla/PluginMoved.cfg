SPECIFICATION Spec
CONSTANTS
    s1 = s1
    Servers = {s1}
    Shapes <- MCShapes
    Fleets <- MCFleets
    PluginsChange = TRUE
    MaxEdits = 1
    Torn = Torn
PROPERTY SyncSparesRequired
