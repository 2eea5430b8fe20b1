SPECIFICATION Spec
CONSTANTS
    Viewers = {v1, v2}
    Codecs <- Two
    Takes <- Taken
    Accepts <- Accepted
    Inputs <- Sources
INVARIANTS
    TypeOK
    Understood
    CrashNeedsCompany
PROPERTIES
    FormatFound
CHECK_DEADLOCK FALSE
