\* Two hosts with one slot each fetch from each other, and nothing goes wrong.
SPECIFICATION FairSpec
CONSTANTS
    a = a
    b = b
    c = c
    j1 = j1
    j2 = j2
    j3 = j3
    Jobs = {j1, j2}
    Hosts = {a, b}
    Sender <- CrossedSender
    Receiver <- CrossedReceiver
    Size <- CrossedSize
    MaxActive = 1
    Window = 2
    MaxLosses = 0
    MaxMissed = 0
    MaxFaults = 0
PROPERTY StoredIsHandled
CHECK_DEADLOCK FALSE
