CONSTANTS
    HeaderSize = 2
    Lengths <- MCLengths
    Strays <- MCStrays
    Rooms <- MCRooms
    MaxFrames = 2
SPECIFICATION FairSpec
INVARIANT SendsInStep
PROPERTIES
    ReceivesAsPromised
    CallReturns
