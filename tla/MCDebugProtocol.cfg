SPECIFICATION FairSpec
CONSTANTS
    Contents <- MCContents
    Value <- MCValue
    Base = 4
    MaxBuffer = 2
    MaxCommands = 3
INVARIANTS
    TypeOK
    
    CallsStayInStep
PROPERTY PlainCommandReturns
