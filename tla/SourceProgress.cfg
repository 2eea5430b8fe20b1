SPECIFICATION ReturningSpec
CONSTANTS
    Viewers = {v1}
    Options = {o1}
    NoOptions = NoOptions
    MaxBatch = 1
    Exceptions = {}
PROPERTIES
    StopHonoured
    WaitingViewersResolved
    UnwatchedSourceStalls
    RecordingBegins
