SPECIFICATION Spec
CONSTANTS
    Capacity = 2
    MaxPackets = 4
INVARIANTS
    TypeOK
PROPERTIES
    IsPipe
    PacketsFlow
