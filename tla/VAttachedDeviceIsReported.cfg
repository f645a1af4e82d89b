SPECIFICATION Spec
CONSTANTS
    Clients = {c1}
    Initial = 1
    MaxConnections = 2
    MaxRequests = 2
INVARIANT AttachedDeviceIsReported
