SPECIFICATION Spec
CONSTANTS
    Capacity = 2
    MaxPackets = 4
    Formats = 2
    Unmapped <- SecondUnmapped
    Untimed <- ThirdUntimed
INVARIANTS
    TypeOK
    InOrder
    FilesAreSealed
PROPERTIES
    IsRecording
    PacketsFlow
