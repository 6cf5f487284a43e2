\* Eight sessions at the command line, with other nodes that have both files
\* and may ask this one to keep them; or one call fails.
SPECIFICATION FairSpec
CONSTANTS
    Sessions <- AllSessions
    None = ""
    Ports = {"8", "9"}
    Addresses = {"8", "9"}
    Names = {"f", "g"}
    Holders <- BothFiles
    Known = {1}
    Transfers = {1, 2}
INVARIANTS
    TypeOK
    ArgumentsAreOwn
    ServedAsAccepted
    WorkerHasSockets
    
PROPERTIES
    StopReturns
    
CHECK_DEADLOCK FALSE
