----------------------------- MODULE Membership -----------------------------
(***************************************************************************)
(* How the nodes of the network get to know each other: Service::Start and *)
(* Stop, the announcement, the answers to it, the farewell, and Ping.      *)
(*                                                                         *)
(* A host is one process: its main thread (Start, Stop, Ping, Crash) and   *)
(* its worker, Service::run.  A datagram is put into the socket buffer of  *)
(* the receiver when it is sent, and the buffer dies with the socket;      *)
(* datagrams of one sender keep their order, those of different senders    *)
(* interleave freely, and up to MaxLosses are lost.  Messages to oneself   *)
(* are left out, as the receiver skips them.  The node lists are sequences *)
(* because the place of a node in them decides where files are stored; the *)
(* calls of UpdateLocalFiles are in Distribution, which builds on this.    *)
(***************************************************************************)
EXTENDS Naturals, Sequences, FiniteSets, SequencesExt

CONSTANTS
    Hosts,        \* processes that may run a Service
    NoHost,       \* no address to ping
    Ip, Port,     \* the address p's Service binds, by the place CompareNodes
                  \* gives it: texts compare as texts, ports in network order
    StdSort(_),   \* std::sort(_nodes.begin(), _nodes.end(), CompareNodes)
    MaxStarts,    \* bound: calls of Start, all hosts together
    MaxPings,     \* bound: calls of Ping, all hosts together
    MaxCrashes,   \* bound: processes killed
    MaxLosses     \* bound: datagrams lost

-----------------------------------------------------------------------------
(* The order of the node list.                                             *)

\* CompareNodes: by address, and else by port; the second test is also made
\* when the first address is the greater one.
Before(a, b) == Ip[a] < Ip[b] \/ Port[a] < Port[b]

\* What std::sort asks of the comparator (no two nodes are equivalent).
IsStrictTotalOrder(S) ==
    /\ \A a \in S : ~Before(a, a)
    /\ \A a, b, c \in S : Before(a, b) /\ Before(b, c) => Before(a, c)
    /\ \A a, b \in S : a # b => Before(a, b) \/ Before(b, a)

Sorted(list) == IsSorted(list, Before)

ASSUME HostsAssumption == IsFiniteSet(Hosts) /\ NoHost \notin Hosts

ASSUME AddressAssumption ==
    /\ Ip \in [Hosts -> Nat] /\ Port \in [Hosts -> Nat]
    /\ \A p, q \in Hosts : Ip[p] = Ip[q] /\ Port[p] = Port[q] => p = q

\* The contract of std::sort: a permutation, and an ordered one when the
\* comparator is an order.
ASSUME SortAssumption ==
    \A S \in SUBSET Hosts : \A list \in SetToSeqs(S) :
        /\ StdSort(list) \in SetToSeqs(S)
        /\ ToSet(StdSort(list)) = ToSet(list)
        /\ IsStrictTotalOrder(S) => Sorted(StdSort(list))

ASSUME BoundsAssumption == {MaxStarts, MaxPings, MaxCrashes, MaxLosses} \subseteq Nat

-----------------------------------------------------------------------------
VARIABLES
    phase,    \* phase[p]: where p's worker is, "stopped" when there is none
    exit,     \* exit[p]: _exitFlag
    nodes,    \* nodes[p]: _nodes, empty when the service does not run
    net,      \* net[p][q]: datagrams of p in q's socket buffer
    toPing,   \* toPing[p]: _toPing while _shouldPing, else NoHost
    starts, pings, crashes, losses    \* how often each of these happened

counters == <<starts, pings, crashes, losses>>
vars == <<phase, exit, nodes, net, toPing, counters>>

Phases == {"stopped", "starting", "turn", "leaving"}

NewMsg   == [type |-> "new"]      \* NetworkChangeMsg, IsNew = 1
LeaveMsg == [type |-> "leave"]    \* NetworkChangeMsg, IsNew = 0

\* The socket is open from Start to the end of Stop, which is IsRunning, too.
Open(p) == phase[p] # "stopped"

Knows(p, q) == Contains(nodes[p], q)

Init ==
    /\ phase = [p \in Hosts |-> "stopped"]
    /\ exit = [p \in Hosts |-> FALSE]
    /\ nodes = [p \in Hosts |-> <<>>]
    /\ net = [p \in Hosts |-> [q \in Hosts |-> <<>>]]
    /\ toPing = [p \in Hosts |-> NoHost]
    /\ starts = 0 /\ pings = 0 /\ crashes = 0 /\ losses = 0

\* Sending m from p: a copy for each host of "to" whose socket is open.
Sent(n, p, to, m) ==
    [n EXCEPT ![p] = [q \in Hosts |->
        IF q \in to \ {p} /\ Open(q) THEN Append(n[p][q], m) ELSE n[p][q]]]

\* Receiving: p takes the first datagram of q.
Taken(n, q, p) == [n EXCEPT ![q][p] = Tail(n[q][p])]

\* Closing p's socket: what it had not read is gone.
Closed(n, p) == [q \in Hosts |-> [n[q] EXCEPT ![p] = <<>>]]

\* Socket::Broadcast reaches the sockets bound to the sender's port.
SamePort(p) == {q \in Hosts : Port[q] = Port[p]}

-----------------------------------------------------------------------------
(* The main thread.                                                        *)

Start(p) ==
    /\ ~Open(p) /\ starts < MaxStarts
    /\ starts' = starts + 1
    /\ phase' = [phase EXCEPT ![p] = "starting"]
    /\ exit' = [exit EXCEPT ![p] = FALSE]
    /\ nodes' = [nodes EXCEPT ![p] = <<p>>]
    /\ UNCHANGED <<net, toPing, pings, crashes, losses>>

\* Ping: ignored while the worker has not yet sent the previous one.
Ping(p, q) ==
    /\ Open(p) /\ ~exit[p] /\ p # q
    /\ pings < MaxPings
    /\ toPing[p] = NoHost
    /\ toPing' = [toPing EXCEPT ![p] = q]
    /\ pings' = pings + 1
    /\ UNCHANGED <<phase, exit, nodes, net, starts, crashes, losses>>

\* Stop raises _exitFlag and waits for the worker; what follows is in Leave.
Stop(p) ==
    /\ Open(p) /\ ~exit[p]
    /\ exit' = [exit EXCEPT ![p] = TRUE]
    /\ UNCHANGED <<phase, nodes, net, toPing, counters>>

\* Faulty variant: the list is cleared to the null address.
GoneKeepsNull(p) ==
    /\ phase' = [phase EXCEPT ![p] = "stopped"]
    /\ exit' = [exit EXCEPT ![p] = FALSE]
    /\ nodes' = [nodes EXCEPT ![p] = <<NoHost>>]

\* p is gone: nothing of its list, its buffers and its history remains.
Gone(p) ==
    /\ phase' = [phase EXCEPT ![p] = "stopped"]
    /\ exit' = [exit EXCEPT ![p] = FALSE]
    /\ nodes' = [nodes EXCEPT ![p] = <<>>]

\* The process is killed.
Crash(p) ==
    /\ Open(p) /\ crashes < MaxCrashes
    /\ crashes' = crashes + 1
    /\ Gone(p)
    /\ net' = Closed(net, p)
    /\ toPing' = [toPing EXCEPT ![p] = NoHost]
    /\ UNCHANGED <<starts, pings, losses>>

-----------------------------------------------------------------------------
(* The worker: Service::run.  A turn is one pass of its loop.              *)

EndTurn(p) == phase' = [phase EXCEPT ![p] = IF exit[p] THEN "leaving" ELSE "turn"]

\* The initial broadcast.
Announce(p) ==
    /\ phase[p] = "starting"
    /\ net' = Sent(net, p, SamePort(p), NewMsg)
    /\ EndTurn(p)
    /\ UNCHANGED <<exit, nodes, toPing, counters>>

SendPing(p) ==
    /\ phase[p] = "turn"
    /\ toPing[p] # NoHost
    /\ net' = Sent(net, p, {toPing[p]}, NewMsg)
    /\ toPing' = [toPing EXCEPT ![p] = NoHost]
    /\ UNCHANGED <<phase, exit, nodes, counters>>

\* The first datagram of q in p's buffer is of the given type.
Incoming(p, q, type) ==
    /\ phase[p] = "turn"
    /\ net[q][p] # <<>>
    /\ Head(net[q][p]).type = type

\* Faulty variant: the list keeps the order of arrival.
ReceiveNewUnsorted(p, q) ==
    /\ Incoming(p, q, "new")
    /\ IF Knows(p, q)
       THEN /\ net' = Taken(net, q, p)
            /\ UNCHANGED nodes
       ELSE /\ nodes' = [nodes EXCEPT ![p] = Append(@, q)]
            /\ net' = Sent(Taken(net, q, p), p, {q}, NewMsg)
    /\ EndTurn(p)
    /\ UNCHANGED <<exit, toPing, counters>>

\* Faulty variant: the new node is not answered.
ReceiveNewSilent(p, q) ==
    /\ Incoming(p, q, "new")
    /\ nodes' = [nodes EXCEPT ![p] = IF Knows(p, q) THEN @ ELSE StdSort(Append(@, q))]
    /\ net' = Taken(net, q, p)
    /\ EndTurn(p)
    /\ UNCHANGED <<exit, toPing, counters>>

\* Faulty variant: every announcement is answered, also that of a known node.
ReceiveNewAnswersAlways(p, q) ==
    /\ Incoming(p, q, "new")
    /\ nodes' = [nodes EXCEPT ![p] = IF Knows(p, q) THEN @ ELSE StdSort(Append(@, q))]
    /\ net' = Sent(Taken(net, q, p), p, {q}, NewMsg)
    /\ EndTurn(p)
    /\ UNCHANGED <<exit, toPing, counters>>

\* MSG_TYPE_NETOWRK_CHANGE, IsNew: an unknown sender is added and answered.
ReceiveNew(p, q) ==
    /\ Incoming(p, q, "new")
    /\ IF Knows(p, q)
       THEN /\ net' = Taken(net, q, p)
            /\ UNCHANGED nodes
       ELSE /\ nodes' = [nodes EXCEPT ![p] = StdSort(Append(@, q))]
            /\ net' = Sent(Taken(net, q, p), p, {q}, NewMsg)
    /\ EndTurn(p)
    /\ UNCHANGED <<exit, toPing, counters>>

\* Faulty variant: a farewell erases the first node when the sender is unknown.
ReceiveLeaveUnchecked(p, q) ==
    /\ Incoming(p, q, "leave")
    /\ nodes' = [nodes EXCEPT ![p] = IF Knows(p, q) THEN Remove(@, q) ELSE Tail(@)]
    /\ net' = Taken(net, q, p)
    /\ EndTurn(p)
    /\ UNCHANGED <<exit, toPing, counters>>

\* MSG_TYPE_NETOWRK_CHANGE, not IsNew: a known sender is erased.
ReceiveLeave(p, q) ==
    /\ Incoming(p, q, "leave")
    /\ IF Knows(p, q)
       THEN \E i \in DOMAIN nodes[p] :
               /\ nodes[p][i] = q
               /\ nodes' = [nodes EXCEPT ![p] = RemoveAt(@, i)]
       ELSE UNCHANGED nodes
    /\ net' = Taken(net, q, p)
    /\ EndTurn(p)
    /\ UNCHANGED <<exit, toPing, counters>>

\* Select times out; without _exitFlag nothing changes.
Timeout(p) ==
    /\ phase[p] = "turn" /\ exit[p]
    /\ EndTurn(p)
    /\ UNCHANGED <<exit, nodes, net, toPing, counters>>

\* The ending broadcast: to the own port, and one by one to the nodes of the
\* list with another port.  Then Stop closes the socket and clears the list.
\* It does not clear _shouldPing.
Leave(p) ==
    /\ phase[p] = "leaving"
    /\ net' = Closed(Sent(net, p, SamePort(p) \cup ToSet(nodes[p]), LeaveMsg), p)
    /\ Gone(p)
    /\ UNCHANGED <<toPing, counters>>

-----------------------------------------------------------------------------
(* The network.                                                            *)

Lose(p, q) ==
    /\ losses < MaxLosses
    /\ net[p][q] # <<>>
    /\ losses' = losses + 1
    /\ net' = Taken(net, p, q)
    /\ UNCHANGED <<phase, exit, nodes, toPing, starts, pings, crashes>>

-----------------------------------------------------------------------------
Main(p) == Start(p) \/ Stop(p) \/ Crash(p) \/ \E q \in Hosts : Ping(p, q)

Worker(p) ==
    \/ Announce(p) \/ SendPing(p) \/ Timeout(p) \/ Leave(p)
    \/ \E q \in Hosts : ReceiveNew(p, q) \/ ReceiveLeave(p, q)

Next ==
    \/ \E p \in Hosts : Main(p) \/ Worker(p)
    \/ \E p, q \in Hosts : Lose(p, q)

Spec == Init /\ [][Next]_vars

\* The workers keep running; what the users do is up to them.
FairSpec == Spec /\ \A p \in Hosts : WF_vars(Worker(p))

-----------------------------------------------------------------------------
(* Properties.                                                             *)

Messages == {NewMsg, LeaveMsg}

\* Every variable has the type of its counterpart.
TypeOK ==
    /\ phase \in [Hosts -> Phases]
    /\ exit \in [Hosts -> BOOLEAN]
    /\ nodes \in [Hosts -> Seq(Hosts)]
    /\ net \in [Hosts -> [Hosts -> Seq(Messages)]]
    /\ toPing \in [Hosts -> Hosts \cup {NoHost}]
    /\ {starts, pings, crashes, losses} \subseteq Nat

\* File2NodeHash and the lookups rely on it: a running node is in its own list,
\* which is then not empty, and no node is in a list twice, however often it
\* announces itself, answers, pings, leaves, crashes and comes back.
ListsWellFormed ==
    \A p \in Hosts :
        /\ Open(p) => Knows(p, p)
        /\ IsInjective(nodes[p])

\* "this assumes that nodes are sorted by the IP address and port -
\* deterministic on all hosts" (Service.cpp:1205): two hosts that know the same
\* nodes list them in the same order, in whatever order they met them.
AgreedOrder ==
    \A p, q \in Hosts :
        Open(p) /\ Open(q) /\ ToSet(nodes[p]) = ToSet(nodes[q]) => nodes[p] = nodes[q]

\* Nothing is on its way, and no user has asked for anything.
Quiet ==
    /\ \A p \in Hosts : Open(p) => phase[p] = "turn" /\ ~exit[p] /\ toPing[p] = NoHost
    /\ \A p, q \in Hosts : net[p][q] = <<>>

Reliable == losses = 0 /\ crashes = 0

\* Once the network is quiet, the running hosts of one port know each other
\* and no stopped one, whatever starts, stops and pings came before, unless
\* a datagram was lost or a process killed.
ViewsAgree ==
    Quiet /\ Reliable =>
        \A p \in Hosts : Open(p) =>
            ToSet(nodes[p]) \cap SamePort(p) = {q \in SamePort(p) : Open(q)}

\* Answers do not breed answers: when the users are done, the traffic ends.
Settles == <>[]Quiet

=============================================================================
