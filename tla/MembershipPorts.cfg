\* Three hosts on two ports: pings, one killed process and one lost datagram.
SPECIFICATION FairSpec
CONSTANTS
    a = a  b = b  c = c
    Hosts = {a, b, c}
    NoHost = NoHost
    Ip <- TwoPortsIp
    Port <- TwoPortsPort
    StdSort <- InsertionSort
    MaxStarts = 3
    MaxPings = 1
    MaxCrashes = 1
    MaxLosses = 1
INVARIANTS
    TypeOK
    ListsWellFormed
    AgreedOrder
    ViewsAgree
PROPERTIES
    Settles
CHECK_DEADLOCK FALSE
