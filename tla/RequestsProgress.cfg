SPECIFICATION Spec
CONSTANTS
    Clients = {a}
    Fds = {3}
    MaxRequests = 3
PROPERTIES
    Released
CHECK_DEADLOCK FALSE
