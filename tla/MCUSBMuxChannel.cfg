SPECIFICATION FairSpec
CONSTANTS
    Starter = starter
    Clients = {c1, c2}
    Brief = {c1, c2}
    TagModulus = 3
    ListenCodes = {0, 73}
    MaxCalls <- MCCalls
    MaxPackets = 4
INVARIANT TypeOK
INVARIANT SendsDontOverlap
INVARIANT EachResponseOnce
INVARIANT NoMissedWakeup
PROPERTY CallsReturn
PROPERTY ImplementsContract
