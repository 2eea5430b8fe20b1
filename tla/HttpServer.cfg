SPECIFICATION Spec
CONSTANT MaxTries = 3
INVARIANTS
    TypeOK
    ManagerWhilePolling
    CrashNeedsRestart
PROPERTIES
    OneByOne
    RetriesUntilInitialized
    DestructionReturns
