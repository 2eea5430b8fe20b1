SPECIFICATION Spec
CONSTANTS
    Capacity = 2
    MaxPackets = 2
    Formats = 2
    Unmapped = {}
    Untimed = {}
INVARIANT RotationSurvives
