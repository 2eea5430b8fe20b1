SPECIFICATION Spec
CONSTANTS
    Half = 64
    Start <- MCStart
    MaxPos = 4
    MaxStamp = 2
    MaxPackets = 3
    MaxElapsed = 2
    Steps = {1}
    Interleave = 2
    Seeks = {2}
    Speeds <- MCSpeeds
    Ratios <- MCRatios
    FrameTimes = {0, 2}
    Output <- MCOutput
    Micro <- MCMicro
    Dates = {0, 1}
    Span = 4
    Reach = 12
INVARIANTS
    TypeOK
    PlayedWithinClock
PROPERTIES
    ViewAdvances
    NoLeap
    RecordedTimeline
