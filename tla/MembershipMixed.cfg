\* Two machines whose ports are in the opposite order of their addresses.
SPECIFICATION Spec
CONSTANTS
    a = a  b = b  c = c
    Hosts = {a, b}
    NoHost = NoHost
    Ip <- MixedIp
    Port <- MixedPort
    StdSort <- InsertionSort
    MaxStarts = 2
    MaxPings = 1
    MaxCrashes = 0
    MaxLosses = 0
INVARIANTS
    AgreedOrder
CHECK_DEADLOCK FALSE
