SPECIFICATION Spec
CONSTANTS
    Clients = {a, b}
    Fds = {3, 4}
    MaxRequests = 2
INVARIANTS
    TypeOK
    OneOwner
    OwnDescriptors
CHECK_DEADLOCK FALSE
SYMMETRY
    ClientSymmetry
