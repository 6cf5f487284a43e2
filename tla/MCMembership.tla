---------------------------- MODULE MCMembership ----------------------------
(* Instances of Membership for TLC.                                        *)
EXTENDS Membership

CONSTANTS a, b, c

\* std::sort on up to 32 elements is an insertion sort in the C++ libraries of
\* the two builds: an element smaller than the first goes to the front, any
\* other one moves left past the elements it is smaller than.
Inserted(list, e) ==
    IF list # <<>> /\ Before(e, list[1])
    THEN <<e>> \o list
    ELSE LET k == CHOOSE i \in 0 .. Len(list) :
                    /\ i = 0 \/ ~Before(e, list[i])
                    /\ \A j \in (i + 1) .. Len(list) : Before(e, list[j])
         IN  InsertAt(list, k + 1, e)

InsertionSort(list) == FoldLeft(Inserted, <<>>, list)

\* One port for all, as on a LAN with one agreed port.
LanIp   == [p \in Hosts |-> CASE p = a -> 1 [] p = b -> 2 [] OTHER -> 3]
LanPort == [p \in Hosts |-> 7]

\* Two ports in use, in the order of the addresses.
TwoPortsIp   == LanIp
TwoPortsPort == [p \in Hosts |-> IF p = c THEN 8 ELSE 7]

\* Several processes on one machine, each with a port of its own.
LocalIp   == [p \in Hosts |-> 1]
LocalPort == [p \in Hosts |-> CASE p = a -> 7 [] p = b -> 8 [] OTHER -> 9]

\* Two machines with ports in the opposite order of their addresses.
MixedIp   == LanIp
MixedPort == [p \in Hosts |-> CASE p = a -> 9 [] p = b -> 8 [] OTHER -> 7]
=============================================================================
