\* Two hosts that join while the file is removed.
SPECIFICATION DistSpec
CONSTANTS
    a = a  b = b  c = c  song = song  tune = tune  hymn = hymn
    Hosts = {a, b}
    NoHost = NoHost
    Ip <- LanIp
    Port <- LanPort
    StdSort <- InsertionSort
    MaxStarts = 2
    MaxPings = 0
    MaxCrashes = 0
    MaxLosses = 0
    Files = {song}
    Removable = {song}
    Fragile = {}
    NoFile = NoFile
    Place <- MCPlace
    Word = 1024
    TTL = 1
    MaxGap = 1
    Prompt = TRUE
    MaxAdds = 1
    MaxStops = 0
    MaxTransfers = 2
INVARIANTS
    RemovedIsGone
CHECK_DEADLOCK FALSE
