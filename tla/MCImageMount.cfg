SPECIFICATION Spec
CONSTANTS
    Images = {"developer", "linked"}
    Length <- MCLength
    Links = {"linked"}
    LinkLength = 3
    StreamSize = 2
    MaxCalls = 3
INVARIANTS
    TypeOK
    InStep
    MountedAndFree
