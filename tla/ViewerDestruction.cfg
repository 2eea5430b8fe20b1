SPECIFICATION Spec
CONSTANTS
    Capacity = 2
    MaxPackets = 2
PROPERTY DestructionReturns
