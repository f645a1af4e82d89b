SPECIFICATION FairSpec
CONSTANTS
    MaxFiles = 3
    MaxHeld = 2
    MaxCommands = 2
    MaxProgress = 2
    MaxHeard = 2
INVARIANTS
    TypeOK
    OwnSocket
    CallbackMissesNothing
    InstalledMeansCompleted
    SessionedServiceStandsAlone
PROPERTY CommandReturns
