SPECIFICATION Spec
CONSTANTS
    Starter = starter
    Clients = {c1}
    Brief = {}
    TagModulus = 8
    ListenCodes = {0}
    MaxCalls <- MCCalls
    MaxPackets = 3
INVARIANT ActiveMeansListening
