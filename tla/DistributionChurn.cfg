\* Two hosts: stops and restarts, and the file is removed, a datagram is lost or a
\* write of the file fails.
SPECIFICATION DistSpec
CONSTANTS
    a = a  b = b  c = c  song = song  tune = tune  hymn = hymn
    Hosts = {a, b}
    NoHost = NoHost
    Ip <- LanIp
    Port <- LanPort
    StdSort <- InsertionSort
    MaxStarts = 4
    MaxPings = 0
    MaxCrashes = 0
    MaxLosses = 1
    Files = {song}
    Removable = {song}
    Fragile = {song}
    NoFile = NoFile
    Place <- MCPlace
    Word = 1024
    TTL = 1
    MaxGap = 1
    Prompt = TRUE
    MaxAdds = 1
    MaxStops = 2
    MaxTransfers = 4
INVARIANTS
    DistTypeOK
    Kept
    ListedIsStored
    Delivered
    ViewsAgree
CONSTRAINT
    OneMishap
CHECK_DEADLOCK FALSE
