SPECIFICATION FairSpec
CONSTANTS
    Clients = {c1}
    Initial = 1
    MaxConnections = 2
    MaxRequests = 2
INVARIANT TypeOK
INVARIANT QuietListIsPlugged
INVARIANT FinishedIsVisible
INVARIANT AttachedWasListed
PROPERTY PluggedIsListed
