\* Two hosts that join; transfers may wait for a slot while seconds pass.
SPECIFICATION DistSpec
CONSTANTS
    a = a  b = b  c = c  song = song  tune = tune  hymn = hymn
    Hosts = {a, b}
    NoHost = NoHost
    Ip <- LanIp
    Port <- LanPort
    StdSort <- InsertionSort
    MaxStarts = 2
    MaxPings = 0
    MaxCrashes = 0
    MaxLosses = 0
    Files = {song}
    Removable = {}
    Fragile = {}
    NoFile = NoFile
    Place <- MCPlace
    Word = 1024
    TTL = 1
    MaxGap = 1
    Prompt = FALSE
    MaxAdds = 1
    MaxStops = 0
    MaxTransfers = 2
INVARIANTS
    NeverLost
CHECK_DEADLOCK FALSE
