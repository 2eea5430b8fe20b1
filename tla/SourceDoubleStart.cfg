SPECIFICATION SafetySpec
CONSTANTS
    Viewers = {v1, v2}
    Options = {o1}
    NoOptions = NoOptions
    MaxBatch = 2
    Exceptions = {"thread", "memory"}
INVARIANT ClientsNeverTerminate
