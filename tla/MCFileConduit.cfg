SPECIFICATION FairSpec
CONSTANTS
    t1 = t1
    t2 = t2
    Threads = {t1, t2}
    TransferSize = 2
    OffsetLimit = 4
    Handles = {1, 2}
    Codes = {2}
    Works <- MCWorks
    Lengths = {2}
    Width = 2
    MaxRefusals = 1
    MaxLate = 1
INVARIANTS
    TypeOK
    AnswerIsOwn
    HandleIsOwn
    CopiesAreFaithful
    FilesAreClosed
PROPERTY PlainCallReturns
