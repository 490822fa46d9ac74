SPECIFICATION FairSpec
CONSTANTS
    s1 = s1
    s2 = s2
    Streams = {s1, s2}
    Poller = Poller
    None = None
    Failed = Failed
    Close = Close
    MaxStreams = 2
    FailureLimit = 2
    MaxVersion = 3
    MaxConnects = 3
INVARIANTS
    ReadyMissesNothing
    SlotsHaveHandlers
PROPERTIES
    NeverGoesBack
    StreamsConverge
