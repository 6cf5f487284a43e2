\* Three hosts join: the home of the file moves with every join.  The file may be
\* added a second time.
SPECIFICATION DistSpec
CONSTANTS
    a = a  b = b  c = c  song = song  tune = tune  hymn = hymn
    Hosts = {a, b, c}
    NoHost = NoHost
    Ip <- LanIp
    Port <- LanPort
    StdSort <- InsertionSort
    MaxStarts = 3
    MaxPings = 0
    MaxCrashes = 0
    MaxLosses = 0
    Files = {song}
    Removable = {}
    Fragile = {}
    NoFile = NoFile
    Place <- MCPlace
    Word = 1024
    TTL = 1
    MaxGap = 1
    Prompt = TRUE
    MaxAdds = 2
    MaxStops = 0
    MaxTransfers = 4
INVARIANTS
    Kept
    ListedIsStored
    Delivered
ACTION_CONSTRAINT
    Again
CHECK_DEADLOCK FALSE
