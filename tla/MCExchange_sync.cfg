SPECIFICATION FairSpec
CONSTANTS
    Node = {n1, n2}
    NoNode = NoNode
    Dialers = {n1}
    CliRecs = {3}
    Addressed = {3}
    Rec = {1, 2, 3}
    SourceOf <- Sources
    CreatedAt <- Created
    ExpiresAt <- Expiries
    Base <- AnnSizes
    SigSize = 128
    MaxAnnSize = 256
    AnnounceLimit = 1
    PushLimit = 2
    Day = 1
    MaxTime = 2
    MaxRequests = 2
INVARIANTS
    HandledInOrder
    Delivered
    SignedByMaker
PROPERTIES
    SessionDrains
    StaleSwept
CHECK_DEADLOCK FALSE
