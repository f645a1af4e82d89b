SPECIFICATION FairSpec
CONSTANTS
    MaxSockets = 2
    MaxRequests = 4
INVARIANTS
    TypeOK
    RepliesInStep
    SessionIsLockdownds
    OneConnection
    RecordIsAccepted
    PairingAnswersHold
PROPERTY CallsReturn
