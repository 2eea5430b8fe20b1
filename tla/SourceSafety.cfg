SPECIFICATION SafetySpec
CONSTANTS
    Viewers = {v1, v2}
    Options = {o1, o2}
    NoOptions = NoOptions
    MaxBatch = 2
    Exceptions = {"thread", "memory"}
INVARIANTS
    TypeOK
    WaitingViewersKeepDemuxing
    RecorderWithinSession
    ViewerThreadsOwned
    NothingLeftRunning
PROPERTIES
    ServedViewersAreKept
