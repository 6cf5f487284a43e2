\* Three hosts; a second file is added while the first is on its way.
SPECIFICATION DistSpec
CONSTANTS
    a = a  b = b  c = c  song = song  tune = tune  hymn = hymn
    Hosts = {a, b, c}
    NoHost = NoHost
    Ip <- LanIp
    Port <- LanPort
    StdSort <- InsertionSort
    MaxStarts = 3
    MaxPings = 0
    MaxCrashes = 0
    MaxLosses = 0
    Files = {tune, hymn}
    Removable = {}
    Fragile = {}
    NoFile = NoFile
    Place <- MCPlace
    Word = 1024
    TTL = 1
    MaxGap = 1
    Prompt = TRUE
    MaxAdds = 2
    MaxStops = 1
    MaxTransfers = 5
INVARIANT
    NeverLost
ACTION_CONSTRAINT
    Scene
CHECK_DEADLOCK FALSE
