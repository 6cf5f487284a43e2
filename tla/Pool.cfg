\* Two downloads and two uploads compete for two slots, which Perform may hold for ever.
SPECIFICATION FairSpec
CONSTANTS
    i1 = i1  i2 = i2  o1 = o1  o2 = o2
    Inputs = {i1, i2}
    Outputs = {o1, o2}
    MaxActive = 2
    NoTransfer = NoTransfer
    FileHash <- MCFileHash
INVARIANTS
    TypeOK
    LiveTransfersBounded
    EndedIsActive
    JoinIsBrief
    QueuedMeansFull
    PerformingIsSeen
PROPERTIES
    SlotsMove
    ImplementsContract
