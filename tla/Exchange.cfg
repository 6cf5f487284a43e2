\* A chain: b fetches from a and serves c, with one slot for both; one datagram,
\* one missed connection and one failure at most.
SPECIFICATION FairSpec
CONSTANTS
    a = a
    b = b
    c = c
    j1 = j1
    j2 = j2
    j3 = j3
    Jobs = {j1, j2, j3}
    Hosts = {a, b, c}
    Sender <- ChainSender
    Receiver <- ChainReceiver
    Size <- ChainSize
    MaxActive = 1
    Window = 2
    MaxLosses = 1
    MaxMissed = 1
    MaxFaults = 1
INVARIANTS
    TypeOK
    StoredIsWhole
PROPERTIES
    PoolsKeepContract
    EveryTransferEnds
CHECK_DEADLOCK FALSE
