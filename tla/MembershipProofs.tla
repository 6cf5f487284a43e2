-------------------------- MODULE MembershipProofs --------------------------
(***************************************************************************)
(* Proofs about Membership for every set of hosts, every assignment of     *)
(* addresses and every std::sort that keeps its contract.                  *)
(***************************************************************************)
EXTENDS Membership, FiniteSetTheorems, TLAPS

-----------------------------------------------------------------------------
(* Lists without repetition: SetToSeqs(S).                                 *)

\* What membership in SetToSeqs(S) says.
LEMMA ListFacts ==
    ASSUME NEW S, IsFiniteSet(S), NEW s \in SetToSeqs(S)
    PROVE  /\ Cardinality(S) \in Nat
           /\ s \in [1 .. Cardinality(S) -> S]
           /\ s \in Seq(S) /\ Len(s) = Cardinality(S)
           /\ IsInjective(s)
           /\ ToSet(s) = S
<1>1. Cardinality(S) \in Nat
  BY FS_CardinalityType
<1>2. /\ s \in [1 .. Cardinality(S) -> S]
      /\ \A i, j \in 1 .. Cardinality(S) : i # j => s[i] # s[j]
  BY DEF SetToSeqs
<1>3. s \in Seq(S) /\ Len(s) = Cardinality(S)
  BY <1>1, <1>2
<1>4. IsInjective(s)
  BY <1>2 DEF IsInjective
<1>5. ToSet(s) = S
  <2>1. IsFiniteSet(1 .. Cardinality(S)) /\ Cardinality(1 .. Cardinality(S)) = Cardinality(S)
    BY <1>1, FS_Interval
  <2>2. s \in Injection(1 .. Cardinality(S), S)
    BY <1>2 DEF Injection, IsInjective
  <2>3. s \in Surjection(1 .. Cardinality(S), S)
    BY <2>1, <2>2, FS_Injection
  <2>4. QED
    BY <1>2, <2>3 DEF Surjection, ToSet
<1>6. QED
  BY <1>1, <1>2, <1>3, <1>4, <1>5

LEMMA SingletonList ==
    ASSUME NEW e
    PROVE  <<e>> \in SetToSeqs({e}) /\ ToSet(<<e>>) = {e}
<1>1. IsFiniteSet({e}) /\ Cardinality({e}) = 1
  BY FS_Singleton
<1>2. <<e>> \in [1 .. 1 -> {e}]
  OBVIOUS
<1>3. <<e>> \in SetToSeqs({e})
  BY <1>1, <1>2 DEF SetToSeqs
<1>4. QED
  BY <1>1, <1>3, ListFacts

\* push_back of a node that is not in the list.
LEMMA AppendList ==
    ASSUME NEW S, IsFiniteSet(S), NEW s \in SetToSeqs(S), NEW e, e \notin S
    PROVE  Append(s, e) \in SetToSeqs(S \cup {e})
<1>1. /\ Cardinality(S) \in Nat /\ s \in Seq(S) /\ Len(s) = Cardinality(S)
      /\ s \in [1 .. Cardinality(S) -> S] /\ IsInjective(s)
  BY ListFacts
<1>2. Cardinality(S \cup {e}) = Cardinality(S) + 1
  BY FS_AddElement
<1>3. /\ DOMAIN Append(s, e) = 1 .. (Cardinality(S) + 1)
      /\ \A i \in 1 .. Cardinality(S) : Append(s, e)[i] = s[i]
      /\ Append(s, e)[Cardinality(S) + 1] = e
      /\ Append(s, e) \in Seq(S \cup {e}) /\ Len(Append(s, e)) = Cardinality(S) + 1
  BY <1>1
<1>4. Append(s, e) \in [1 .. Cardinality(S \cup {e}) -> S \cup {e}]
  <2>1. ASSUME NEW T, NEW q \in Seq(T)
        PROVE  q \in [1 .. Len(q) -> T]
    OBVIOUS
  <2>2. Append(s, e) \in [1 .. Len(Append(s, e)) -> S \cup {e}]
    BY <1>3, <2>1
  <2>3. QED
    BY <1>2, <1>3, <2>2
<1>5. \A i, j \in 1 .. Cardinality(S \cup {e}) : i # j => Append(s, e)[i] # Append(s, e)[j]
  BY <1>1, <1>2, <1>3 DEF IsInjective
<1>6. QED
  BY <1>4, <1>5 DEF SetToSeqs

\* erase of the node at place i.
LEMMA RemoveList ==
    ASSUME NEW S, IsFiniteSet(S), NEW s \in SetToSeqs(S), NEW i \in DOMAIN s
    PROVE  /\ RemoveAt(s, i) \in SetToSeqs(S \ {s[i]})
           /\ \A j \in 1 .. (Len(s) - 1) :
                 RemoveAt(s, i)[j] = IF j < i THEN s[j] ELSE s[j + 1]
           /\ Len(RemoveAt(s, i)) = Len(s) - 1
<1> DEFINE n == Cardinality(S)
           r == RemoveAt(s, i)
<1>1. /\ n \in Nat /\ s \in Seq(S) /\ Len(s) = n
      /\ s \in [1 .. n -> S] /\ IsInjective(s)
  BY ListFacts
<1>2. i \in 1 .. n /\ n - 1 \in Nat
  BY <1>1
<1>3. Cardinality(S \ {s[i]}) = n - 1
  BY <1>1, <1>2, FS_RemoveElement
<1>4. r \in Seq(S) /\ Len(r) = n - 1
  BY <1>1, <1>2 DEF RemoveAt
<1>5. \A j \in 1 .. (n - 1) : r[j] = IF j < i THEN s[j] ELSE s[j + 1]
  BY <1>1, <1>2 DEF RemoveAt
<1>6. \A j \in 1 .. (n - 1) : r[j] \in S \ {s[i]}
  BY <1>1, <1>2, <1>5 DEF IsInjective
<1>7. r \in [1 .. (n - 1) -> S \ {s[i]}]
  BY <1>4, <1>6
<1>8. \A j, k \in 1 .. (n - 1) : j # k => r[j] # r[k]
  BY <1>1, <1>2, <1>5 DEF IsInjective
<1>9. QED
  BY <1>1, <1>3, <1>4, <1>5, <1>7, <1>8 DEF SetToSeqs

\* In an ordered list, the place of a node is the number of nodes before it.
LEMMA Rank ==
    ASSUME NEW S, IsFiniteSet(S), IsStrictTotalOrder(S),
           NEW s \in SetToSeqs(S), Sorted(s), NEW i \in 1 .. Cardinality(S)
    PROVE  Cardinality({y \in S : Before(y, s[i])}) = i - 1
<1> DEFINE n == Cardinality(S)
           below == {y \in S : Before(y, s[i])}
           f == [k \in 1 .. (i - 1) |-> s[k]]
<1>1. /\ n \in Nat /\ s \in [1 .. n -> S] /\ Len(s) = n
      /\ IsInjective(s) /\ ToSet(s) = S
  BY ListFacts
<1>2. \A j, k \in 1 .. n : j < k => Before(s[j], s[k])
  BY <1>1 DEF Sorted, IsSorted
<1>3. \A k \in 1 .. (i - 1) : k \in 1 .. n /\ k < i
  BY <1>1
<1>4. f \in [1 .. (i - 1) -> below]
  BY <1>1, <1>2, <1>3
<1>5. f \in Injection(1 .. (i - 1), below)
  BY <1>1, <1>3, <1>4 DEF Injection, IsInjective
<1>6. ASSUME NEW y \in below
      PROVE  \E k \in 1 .. (i - 1) : f[k] = y
  <2>1. PICK k \in 1 .. n : s[k] = y
    BY <1>1 DEF ToSet
  <2>2. k # i
    BY <1>1, <2>1 DEF IsStrictTotalOrder
  <2>3. ~(i < k)
    BY <1>1, <1>2, <2>1 DEF IsStrictTotalOrder
  <2>4. k \in 1 .. (i - 1)
    BY <1>1, <2>2, <2>3
  <2>5. QED
    BY <2>1, <2>4
<1>7. f \in Surjection(1 .. (i - 1), below)
  BY <1>4, <1>6 DEF Surjection
<1>8. f \in Bijection(1 .. (i - 1), below)
  BY <1>5, <1>7 DEF Bijection
<1>9. i - 1 \in Nat /\ 1 \in Int /\ i - 1 \in Int
  BY <1>1
<1>10. IsFiniteSet(1 .. (i - 1)) /\ Cardinality(1 .. (i - 1)) = i - 1
  BY <1>9, FS_Interval
<1>11. ASSUME NEW A, IsFiniteSet(A), NEW B, NEW g \in Bijection(A, B)
       PROVE  Cardinality(B) = Cardinality(A)
  BY <1>11, FS_Bijection DEF ExistsBijection
<1> HIDE DEF f, below
<1>12. Cardinality(below) = i - 1
  BY <1>8, <1>10, <1>11
<1>13. QED
  BY <1>12 DEF below

\* There is only one ordered list of a set of nodes.
LEMMA SortedUnique ==
    ASSUME NEW S, IsFiniteSet(S), IsStrictTotalOrder(S),
           NEW s \in SetToSeqs(S), Sorted(s), NEW t \in SetToSeqs(S), Sorted(t)
    PROVE  s = t
<1> DEFINE n == Cardinality(S)
<1>1. /\ n \in Nat /\ s \in [1 .. n -> S] /\ t \in [1 .. n -> S] /\ ToSet(t) = S
  BY ListFacts
<1>2. ASSUME NEW i \in 1 .. n
      PROVE  s[i] = t[i]
  <2>1. PICK j \in 1 .. n : t[j] = s[i]
    BY <1>1 DEF ToSet
  <2>2. Cardinality({y \in S : Before(y, s[i])}) = i - 1
    BY Rank
  <2>3. Cardinality({y \in S : Before(y, t[j])}) = j - 1
    BY Rank
  <2>4. i = j
    BY <1>1, <2>1, <2>2, <2>3
  <2>5. QED
    BY <2>1, <2>4
<1>3. QED
  BY <1>1, <1>2

-----------------------------------------------------------------------------
(* The network.                                                            *)

\* Datagrams of a set M, which other parts of the Service may share.
NetType(M) == [Hosts -> [Hosts -> Seq(M)]]

\* Those that are not NETWORK_CHANGE have another type.
Carries(M) == Messages \subseteq M /\ \A m \in M \ Messages : m.type \notin {"new", "leave"}

\* Nobody has a datagram of its own to read.
Silent(n) == \A q \in Hosts : n[q][q] = <<>>

NetInv(M) == net \in NetType(M) /\ Silent(net)

LEMMA SentFacts ==
    ASSUME NEW M, NEW n \in NetType(M), NEW p \in Hosts, NEW to, NEW m \in M
    PROVE  Sent(n, p, to, m) \in NetType(M) /\ (Silent(n) => Silent(Sent(n, p, to, m)))
BY DEF NetType, Silent, Sent

LEMMA TakenFacts ==
    ASSUME NEW M, NEW n \in NetType(M), NEW p \in Hosts, NEW q \in Hosts, n[q][p] # <<>>
    PROVE  /\ Taken(n, q, p) \in NetType(M)
           /\ Silent(n) => Silent(Taken(n, q, p)) /\ p # q
BY DEF NetType, Silent, Taken

LEMMA ClosedFacts ==
    ASSUME NEW M, NEW n \in NetType(M), NEW p \in Hosts
    PROVE  Closed(n, p) \in NetType(M) /\ (Silent(n) => Silent(Closed(n, p)))
BY DEF NetType, Silent, Closed

LEMMA NetInit ==
    ASSUME NEW M, Init
    PROVE  NetInv(M)
<1>1. <<>> \in Seq(M)
  OBVIOUS
<1>2. QED
  BY <1>1 DEF Init, NetInv, NetType, Silent

\* What is sent, read, lost or closed leaves a network of the same datagrams.
LEMMA NetNext ==
    ASSUME NEW M, Carries(M), NetInv(M), [Next]_vars
    PROVE  NetInv(M)'
<1>1. net \in NetType(M) /\ Silent(net) /\ NewMsg \in M /\ LeaveMsg \in M
  BY DEF NetInv, Carries, Messages
<1>2. ASSUME NEW p \in Hosts, Main(p)
      PROVE  NetInv(M)'
  <2>1. net' = net \/ net' = Closed(net, p)
    BY <1>2 DEF Main, Start, Stop, Crash, Ping
  <2>2. QED
    BY <1>1, <2>1, ClosedFacts DEF NetInv
<1>3. ASSUME NEW p \in Hosts, Announce(p) \/ SendPing(p) \/ Timeout(p) \/ Leave(p)
      PROVE  NetInv(M)'
  <2>1. PICK n : (n = net \/ \E to : \E m \in M : n = Sent(net, p, to, m))
                 /\ (net' = n \/ net' = Closed(n, p))
    BY <1>1, <1>3 DEF Announce, SendPing, Timeout, Leave
  <2>2. n \in NetType(M) /\ Silent(n)
    BY <1>1, <2>1, SentFacts
  <2>3. QED
    BY <2>1, <2>2, ClosedFacts DEF NetInv
<1>4. ASSUME NEW p \in Hosts, NEW q \in Hosts,
             ReceiveNew(p, q) \/ ReceiveLeave(p, q) \/ Lose(q, p)
      PROVE  NetInv(M)'
  <2>1. /\ net[q][p] # <<>>
        /\ net' = Taken(net, q, p) \/ net' = Sent(Taken(net, q, p), p, {q}, NewMsg)
    BY <1>4 DEF ReceiveNew, ReceiveLeave, Lose, Incoming
  <2>2. Taken(net, q, p) \in NetType(M) /\ Silent(Taken(net, q, p))
    BY <1>1, <2>1, TakenFacts
  <2>3. QED
    BY <1>1, <2>1, <2>2, SentFacts DEF NetInv
<1>5. CASE UNCHANGED vars
  BY <1>5 DEF vars, NetInv, Silent
<1>6. QED
  BY <1>2, <1>3, <1>4, <1>5 DEF Next, Worker

-----------------------------------------------------------------------------
(* Every node list is a list without repetition and holds its owner.       *)

ListsInv ==
    \A p \in Hosts :
        /\ nodes[p] \in SetToSeqs(ToSet(nodes[p]))
        /\ Open(p) => p \in ToSet(nodes[p])

\* TypeOK without the network.
Controls ==
    /\ phase \in [Hosts -> Phases]
    /\ exit \in [Hosts -> BOOLEAN]
    /\ nodes \in [Hosts -> Seq(Hosts)]
    /\ toPing \in [Hosts -> Hosts \cup {NoHost}]
    /\ {starts, pings, crashes, losses} \subseteq Nat

IInv == Controls /\ ListsInv

\* Facts about the list of one host that several steps use.
LEMMA ListOf ==
    ASSUME IInv, NEW p \in Hosts
    PROVE  /\ ToSet(nodes[p]) \subseteq Hosts /\ IsFiniteSet(ToSet(nodes[p]))
           /\ nodes[p] \in SetToSeqs(ToSet(nodes[p]))
           /\ \A q : Knows(p, q) <=> q \in ToSet(nodes[p])
<1>1. nodes[p] \in Seq(Hosts)
  BY DEF IInv, Controls
<1>2. ToSet(nodes[p]) \subseteq Hosts
  BY <1>1 DEF ToSet
<1>3. IsFiniteSet(ToSet(nodes[p]))
  BY <1>2, HostsAssumption, FS_Subset
<1>4. \A q : Knows(p, q) <=> q \in ToSet(nodes[p])
  BY <1>1 DEF Knows, Contains, ToSet
<1>5. QED
  BY <1>2, <1>3, <1>4 DEF IInv, ListsInv

\* The list with a new node, sorted; the list without the node at place i.
LEMMA AddedList ==
    ASSUME IInv, NEW p \in Hosts, NEW q \in Hosts, ~Knows(p, q)
    PROVE  LET list == StdSort(Append(nodes[p], q))
           IN  /\ list \in SetToSeqs(ToSet(list)) /\ list \in Seq(Hosts)
               /\ ToSet(list) = ToSet(nodes[p]) \cup {q}
<1> DEFINE S == ToSet(nodes[p])
           list == StdSort(Append(nodes[p], q))
<1>1. q \notin S /\ S \subseteq Hosts /\ IsFiniteSet(S) /\ nodes[p] \in SetToSeqs(S)
  BY ListOf
<1>2. Append(nodes[p], q) \in SetToSeqs(S \cup {q})
  BY <1>1, AppendList
<1>3. S \cup {q} \in SUBSET Hosts /\ IsFiniteSet(S \cup {q})
  BY <1>1, FS_AddElement
<1>4. list \in SetToSeqs(S \cup {q}) /\ ToSet(list) = ToSet(Append(nodes[p], q))
  BY <1>2, <1>3, SortAssumption
<1>5. ToSet(Append(nodes[p], q)) = S \cup {q}
  BY <1>2, <1>3, ListFacts
<1>6. list \in Seq(S \cup {q})
  BY <1>3, <1>4, ListFacts
<1> HIDE DEF list
<1>7. ASSUME NEW A, A \subseteq Hosts, NEW l \in Seq(A)
      PROVE  l \in Seq(Hosts)
  BY <1>7
<1>8. list \in Seq(Hosts)
  BY <1>3, <1>6, <1>7
<1>9. QED
  BY <1>4, <1>5, <1>8 DEF list

LEMMA ErasedList ==
    ASSUME IInv, NEW p \in Hosts, NEW i \in DOMAIN nodes[p]
    PROVE  LET list == RemoveAt(nodes[p], i)
           IN  /\ list \in SetToSeqs(ToSet(list)) /\ list \in Seq(Hosts)
               /\ ToSet(list) = ToSet(nodes[p]) \ {nodes[p][i]}
<1> DEFINE S == ToSet(nodes[p]) \ {nodes[p][i]}
           list == RemoveAt(nodes[p], i)
<1>1. /\ ToSet(nodes[p]) \subseteq Hosts /\ IsFiniteSet(ToSet(nodes[p]))
      /\ nodes[p] \in SetToSeqs(ToSet(nodes[p]))
  BY ListOf
<1>2. list \in SetToSeqs(S)
  BY <1>1, RemoveList
<1>3. S \subseteq Hosts /\ IsFiniteSet(S)
  BY <1>1, FS_Subset
<1> HIDE DEF S, list
<1>4. list \in Seq(S) /\ ToSet(list) = S
  BY <1>2, <1>3, ListFacts
<1>5. ASSUME NEW A, A \subseteq Hosts, NEW l \in Seq(A)
      PROVE  l \in Seq(Hosts)
  BY <1>5
<1>6. list \in Seq(Hosts)
  BY <1>3, <1>4, <1>5
<1>7. QED
  BY <1>2, <1>4, <1>6 DEF S, list

LEMMA InitIInv == Init => IInv
<1> SUFFICES ASSUME Init PROVE IInv
  OBVIOUS
<1>1. \A S : <<>> \in Seq(S)
  OBVIOUS
<1>2. nodes \in [Hosts -> Seq(Hosts)]
  BY <1>1 DEF Init
<1>3. Controls
  BY <1>2 DEF Init, Controls, Phases
<1>4. ToSet(<<>>) = {}
  BY DEF ToSet
<1>5. <<>> \in SetToSeqs({})
  <2>1. Cardinality({}) = 0
    BY FS_EmptySet
  <2>2. <<>> \in [1 .. 0 -> {}]
    OBVIOUS
  <2>3. QED
    BY <2>1, <2>2 DEF SetToSeqs
<1>6. ListsInv
  BY <1>4, <1>5 DEF Init, ListsInv, Open
<1>7. QED
  BY <1>3, <1>6 DEF IInv

\* A step may leave a list alone or replace it by another list of its kind.
LEMMA ListsKept ==
    ASSUME ListsInv,
           \A p \in Hosts :
               \/ nodes'[p] = nodes[p] /\ (Open(p)' => Open(p))
               \/ /\ nodes'[p] \in SetToSeqs(ToSet(nodes'[p]))
                  /\ Open(p)' => p \in ToSet(nodes'[p])
    PROVE  ListsInv'
BY DEF ListsInv

\* The list of a node that is gone is empty.
LEMMA GoneLists ==
    ASSUME IInv, NEW p \in Hosts, Gone(p)
    PROVE  ListsInv'
<1>1. <<>> \in SetToSeqs(ToSet(<<>>))
  <2>1. Cardinality({}) = 0 /\ ToSet(<<>>) = {}
    BY FS_EmptySet DEF ToSet
  <2>2. <<>> \in [1 .. 0 -> {}]
    OBVIOUS
  <2>3. QED
    BY <2>1, <2>2 DEF SetToSeqs
<1>2. nodes'[p] = <<>> /\ ~Open(p)'
  BY DEF Gone, Open, IInv, Controls
<1>3. \A q \in Hosts \ {p} : nodes'[q] = nodes[q] /\ (Open(q)' => Open(q))
  BY DEF Gone, Open, IInv, Controls
<1>4. QED
  BY <1>1, <1>2, <1>3, ListsKept DEF IInv

\* The lists, when a worker ends a turn.
LEMMA TurnLists ==
    ASSUME IInv, NEW p \in Hosts, EndTurn(p), phase[p] # "stopped",
           NEW list, list \in SetToSeqs(ToSet(list)), p \in ToSet(list),
           nodes' = [nodes EXCEPT ![p] = list]
    PROVE  ListsInv'
<1>1. nodes'[p] = list
  BY DEF IInv, Controls
<1>2. \A q \in Hosts \ {p} : nodes'[q] = nodes[q] /\ (Open(q)' => Open(q))
  BY DEF EndTurn, Open, IInv, Controls
<1>3. QED
  BY <1>1, <1>2, ListsKept DEF IInv

LEMMA NextIInv ==
    ASSUME IInv, Silent(net), [Next]_vars
    PROVE  IInv'
<1> USE HostsAssumption
<1>1. ASSUME NEW p \in Hosts, Start(p)
      PROVE  IInv'
  <2>1. <<p>> \in Seq(Hosts)
    OBVIOUS
  <2>2. Controls'
    BY <1>1, <2>1 DEF Start, IInv, Controls, Phases
  <2>3. nodes'[p] = <<p>> /\ \A q \in Hosts \ {p} : nodes'[q] = nodes[q] /\ (Open(q)' => Open(q))
    BY <1>1 DEF Start, IInv, Controls, Open
  <2>4. ListsInv'
    BY <2>3, SingletonList, ListsKept DEF IInv
  <2>5. QED
    BY <2>2, <2>4 DEF IInv
<1>2. ASSUME NEW p \in Hosts, NEW q \in Hosts, Ping(p, q)
      PROVE  IInv'
  BY <1>2 DEF Ping, IInv, Controls, ListsInv, Open
<1>3. ASSUME NEW p \in Hosts, Stop(p)
      PROVE  IInv'
  BY <1>3 DEF Stop, IInv, Controls, counters, ListsInv, Open
<1>4. ASSUME NEW p \in Hosts, Crash(p) \/ Leave(p)
      PROVE  IInv'
  <2>1. <<>> \in Seq(Hosts)
    OBVIOUS
  <2>2. Gone(p) /\ toPing' \in [Hosts -> Hosts \cup {NoHost}]
    BY <1>4 DEF Crash, Leave, IInv, Controls
  <2>3. /\ phase' \in [Hosts -> Phases] /\ exit' \in [Hosts -> BOOLEAN]
        /\ nodes' \in [Hosts -> Seq(Hosts)]
    BY <2>1, <2>2 DEF Gone, IInv, Controls, Phases
  <2>4. {starts', pings', crashes', losses'} \subseteq Nat
    BY <1>4 DEF Crash, Leave, counters, IInv, Controls
  <2>5. ListsInv'
    BY <2>2, GoneLists
  <2>6. QED
    BY <2>2, <2>3, <2>4, <2>5 DEF IInv, Controls
<1>5. ASSUME NEW p \in Hosts, Announce(p) \/ Timeout(p)
      PROVE  IInv'
  <2>1. Controls'
    BY <1>5 DEF Announce, Timeout, EndTurn, IInv, Controls, Phases, counters
  <2>2. nodes' = nodes /\ \A q \in Hosts : Open(q)' => Open(q)
    BY <1>5 DEF Announce, Timeout, EndTurn, Open, IInv, Controls
  <2>3. ListsInv'
    BY <2>2, ListsKept DEF IInv
  <2>4. QED
    BY <2>1, <2>3 DEF IInv
<1>6. ASSUME NEW p \in Hosts, SendPing(p)
      PROVE  IInv'
  BY <1>6 DEF SendPing, IInv, Controls, counters, ListsInv, Open
<1>7. ASSUME NEW p \in Hosts, NEW q \in Hosts, ReceiveNew(p, q)
      PROVE  IInv'
  <2> DEFINE list == IF Knows(p, q) THEN nodes[p] ELSE StdSort(Append(nodes[p], q))
  <2>1. EndTurn(p) /\ phase[p] = "turn" /\ p \in ToSet(nodes[p])
    BY <1>7 DEF ReceiveNew, Incoming, IInv, ListsInv, Open
  <2>2. list \in SetToSeqs(ToSet(list)) /\ p \in ToSet(list)
    <3>1. CASE Knows(p, q)
      BY <2>1, <3>1, ListOf
    <3>2. CASE ~Knows(p, q)
      BY <2>1, <3>2, AddedList
    <3>3. QED
      BY <3>1, <3>2
  <2>3. nodes' = [nodes EXCEPT ![p] = list]
    BY <1>7 DEF ReceiveNew, IInv, Controls
  <2>4. list \in Seq(Hosts)
    BY AddedList DEF IInv, Controls
  <2> HIDE DEF list
  <2>5. Controls'
    BY <1>7, <2>1, <2>3, <2>4 DEF ReceiveNew, EndTurn, IInv, Controls, Phases, counters
  <2>6. ListsInv'
    BY <2>1, <2>2, <2>3, TurnLists
  <2>7. QED
    BY <2>5, <2>6 DEF IInv
<1>8. ASSUME NEW p \in Hosts, NEW q \in Hosts, ReceiveLeave(p, q)
       PROVE  IInv'
  <2>1. EndTurn(p) /\ phase[p] = "turn" /\ p \in ToSet(nodes[p]) /\ p # q
    BY <1>8 DEF ReceiveLeave, Incoming, IInv, ListsInv, Open, Silent
  <2>2. PICK list : /\ nodes' = [nodes EXCEPT ![p] = list]
                    /\ list \in SetToSeqs(ToSet(list)) /\ p \in ToSet(list)
                    /\ list \in Seq(Hosts)
    <3>1. CASE ~Knows(p, q)
      <4>1. nodes' = [nodes EXCEPT ![p] = nodes[p]] /\ nodes[p] \in Seq(Hosts)
        BY <1>8, <3>1 DEF ReceiveLeave, IInv, Controls
      <4>2. QED
        BY <2>1, <4>1, ListOf
    <3>2. CASE Knows(p, q)
      <4>1. PICK i \in DOMAIN nodes[p] :
              nodes[p][i] = q /\ nodes' = [nodes EXCEPT ![p] = RemoveAt(nodes[p], i)]
        BY <1>8, <3>2 DEF ReceiveLeave
      <4>2. QED
        BY <2>1, <4>1, ErasedList
    <3>3. QED
      BY <3>1, <3>2
  <2>3. Controls'
    BY <1>8, <2>2 DEF ReceiveLeave, EndTurn, IInv, Controls, Phases, counters
  <2>4. ListsInv'
    BY <2>1, <2>2, TurnLists
  <2>5. QED
    BY <2>3, <2>4 DEF IInv
<1>9. ASSUME NEW p \in Hosts, NEW q \in Hosts, Lose(p, q)
      PROVE  IInv'
  BY <1>9 DEF Lose, IInv, Controls, ListsInv, Open
<1>10. CASE UNCHANGED vars
  BY <1>10 DEF vars, counters, IInv, Controls, ListsInv, Open
<1>11. QED
  BY <1>1, <1>2, <1>3, <1>4, <1>5, <1>6, <1>7, <1>8, <1>9, <1>10 DEF Next, Main, Worker

-----------------------------------------------------------------------------
(* With a comparator that is an order, every list is ordered.              *)

OrderInv == \A p \in Hosts : Sorted(nodes[p])

LEMMA OrderInit == Init => OrderInv
<1>1. Sorted(<<>>)
  BY DEF Sorted, IsSorted
<1>2. QED
  BY <1>1 DEF Init, OrderInv

\* Only four actions change a list.
LEMMA OrderNext ==
    ASSUME IsStrictTotalOrder(Hosts), IInv, OrderInv, [Next]_vars
    PROVE  OrderInv'
<1> SUFFICES ASSUME NEW r \in Hosts PROVE Sorted(nodes'[r])
  BY DEF OrderInv
<1> USE HostsAssumption
<1>1. Sorted(nodes[r]) /\ Sorted(<<>>) /\ Sorted(<<r>>)
  BY DEF OrderInv, Sorted, IsSorted
<1>2. CASE nodes'[r] = nodes[r]
  BY <1>1, <1>2
<1>3. ASSUME Start(r)
      PROVE  Sorted(nodes'[r])
  BY <1>1, <1>3 DEF Start, IInv, Controls
<1>4. ASSUME Gone(r)
      PROVE  Sorted(nodes'[r])
  BY <1>1, <1>4 DEF Gone, IInv, Controls
<1>5. ASSUME NEW q \in Hosts, ReceiveNew(r, q), ~Knows(r, q)
      PROVE  Sorted(nodes'[r])
  <2> DEFINE S == ToSet(nodes[r]) \cup {q}
  <2>1. /\ q \notin ToSet(nodes[r]) /\ ToSet(nodes[r]) \subseteq Hosts
        /\ IsFiniteSet(ToSet(nodes[r])) /\ nodes[r] \in SetToSeqs(ToSet(nodes[r]))
    BY <1>5, ListOf
  <2>2. S \in SUBSET Hosts /\ Append(nodes[r], q) \in SetToSeqs(S)
    BY <2>1, AppendList
  <2>3. IsStrictTotalOrder(S)
    BY <2>2 DEF IsStrictTotalOrder
  <2>4. Sorted(StdSort(Append(nodes[r], q)))
    BY <2>2, <2>3, SortAssumption
  <2>5. QED
    BY <1>5, <2>4 DEF ReceiveNew, IInv, Controls
<1>6. ASSUME NEW q \in Hosts, ReceiveLeave(r, q), Knows(r, q)
      PROVE  Sorted(nodes'[r])
  <2>1. PICK i \in DOMAIN nodes[r] : nodes'[r] = RemoveAt(nodes[r], i)
    <3>1. \E i \in DOMAIN nodes[r] : nodes' = [nodes EXCEPT ![r] = RemoveAt(nodes[r], i)]
      BY <1>6 DEF ReceiveLeave
    <3>2. ASSUME NEW list, nodes' = [nodes EXCEPT ![r] = list]
          PROVE  nodes'[r] = list
      BY <3>2 DEF IInv, Controls
    <3>3. QED
      BY <3>1, <3>2
  <2>2. nodes[r] \in Seq(Hosts) /\ i \in 1 .. Len(nodes[r]) /\ Len(nodes[r]) \in Nat
    <3>1. nodes[r] \in Seq(Hosts)
      BY DEF IInv, Controls
    <3>2. QED
      BY <3>1
  <2>3. /\ Len(RemoveAt(nodes[r], i)) = Len(nodes[r]) - 1
        /\ \A j \in 1 .. (Len(nodes[r]) - 1) :
              RemoveAt(nodes[r], i)[j] = IF j < i THEN nodes[r][j] ELSE nodes[r][j + 1]
    BY <2>1, ListOf, RemoveList
  <2>4. \A j, k \in 1 .. Len(nodes[r]) : j < k => Before(nodes[r][j], nodes[r][k])
    BY <1>1 DEF Sorted, IsSorted
  <2>5. \A j, k \in 1 .. (Len(nodes[r]) - 1) :
          j < k => Before(RemoveAt(nodes[r], i)[j], RemoveAt(nodes[r], i)[k])
    <3> SUFFICES ASSUME NEW j \in 1 .. (Len(nodes[r]) - 1),
                        NEW k \in 1 .. (Len(nodes[r]) - 1), j < k
                 PROVE  Before(RemoveAt(nodes[r], i)[j], RemoveAt(nodes[r], i)[k])
      OBVIOUS
    <3> DEFINE Old(m) == IF m < i THEN m ELSE m + 1
    <3>1. /\ Old(j) \in 1 .. Len(nodes[r]) /\ Old(k) \in 1 .. Len(nodes[r])
          /\ Old(j) < Old(k)
      BY <2>2
    <3>2. /\ RemoveAt(nodes[r], i)[j] = nodes[r][Old(j)]
          /\ RemoveAt(nodes[r], i)[k] = nodes[r][Old(k)]
      BY <2>3
    <3> HIDE DEF Old
    <3>3. QED
      BY <2>4, <3>1, <3>2
  <2>6. QED
    BY <2>1, <2>3, <2>5 DEF Sorted, IsSorted
<1>7. QED
  <2>1. ASSUME NEW p \in Hosts, Main(p)
        PROVE  nodes'[r] = nodes[r] \/ Start(r) \/ Gone(r)
    <3>1. CASE Start(p)
      BY <3>1 DEF Start, IInv, Controls
    <3>2. CASE Stop(p)
      BY <3>2 DEF Stop
    <3>3. CASE Crash(p)
      BY <3>3 DEF Crash, Gone, IInv, Controls
    <3>4. ASSUME NEW q \in Hosts, Ping(p, q)
          PROVE  nodes'[r] = nodes[r]
      BY <3>4 DEF Ping
    <3>5. QED
      BY <2>1, <3>1, <3>2, <3>3, <3>4 DEF Main
  <2>2. ASSUME NEW p \in Hosts, Worker(p)
        PROVE  \/ nodes'[r] = nodes[r] \/ Gone(r)
               \/ \E q \in Hosts :
                     \/ ReceiveNew(r, q) /\ ~Knows(r, q)
                     \/ ReceiveLeave(r, q) /\ Knows(r, q)
    <3>1. CASE Announce(p) \/ SendPing(p) \/ Timeout(p)
      BY <3>1 DEF Announce, SendPing, Timeout
    <3>2. CASE Leave(p)
      BY <3>2 DEF Leave, Gone, IInv, Controls
    <3>3. ASSUME NEW q \in Hosts, ReceiveNew(p, q)
          PROVE  nodes'[r] = nodes[r] \/ (p = r /\ ~Knows(r, q))
      BY <3>3 DEF ReceiveNew, IInv, Controls
    <3>4. ASSUME NEW q \in Hosts, ReceiveLeave(p, q)
          PROVE  nodes'[r] = nodes[r] \/ (p = r /\ Knows(r, q))
      BY <3>4 DEF ReceiveLeave, IInv, Controls
    <3>5. QED
      BY <2>2, <3>1, <3>2, <3>3, <3>4 DEF Worker
  <2>3. ASSUME NEW p \in Hosts, NEW q \in Hosts, Lose(p, q)
        PROVE  nodes'[r] = nodes[r]
    BY <2>3 DEF Lose
  <2>4. CASE UNCHANGED vars
    BY <1>2, <2>4 DEF vars
  <2>5. QED
    BY <1>2, <1>3, <1>4, <1>5, <1>6, <2>1, <2>2, <2>3, <2>4 DEF Next

-----------------------------------------------------------------------------
(* Views: what two hosts of one port will know of each other.              *)

\* When the first n datagrams of the channel "chan" are read, the receiver does
\* not know the sender; "known" says whether it does now.
Forgotten(chan, n, known) ==
    \/ ~known /\ \A i \in 1 .. n : chan[i].type # "new"
    \/ \E k \in 1 .. n : chan[k].type = "leave" /\ \A i \in (k + 1) .. n : chan[i].type # "new"

\* It does when all of it is read.
Learned(chan, known) == ~Forgotten(chan, Len(chan), known)

\* Reading the channel makes the receiver answer: an announcement comes when
\* the sender is not known.
Answers(chan, known) ==
    \E i \in 1 .. Len(chan) : chan[i].type = "new" /\ Forgotten(chan, i - 1, known)

\* p will know q; p will answer q.
WillKnow(p, q)   == Learned(net[q][p], Knows(p, q))
WillAnswer(p, q) == Answers(net[q][p], Knows(p, q))

Announced(p) == phase[p] \in {"turn", "leaving"}

Peers(p, q) == p # q /\ Port[p] = Port[q]

\* Nobody sends to a closed socket; a host that has not announced itself is
\* going to be forgotten; of two that have, one will know the other or is
\* going to be sent what makes it know it.
Deaf   == \A p, q \in Hosts : ~Open(p) => net[q][p] = <<>>
Unseen == \A p, q \in Hosts : Peers(p, q) /\ Open(p) /\ ~Announced(q) => ~WillKnow(p, q)
Met    == \A p, q \in Hosts :
              Peers(p, q) /\ Announced(p) /\ Announced(q) => WillKnow(p, q) \/ WillAnswer(q, p)

ViewsInv == Reliable => Deaf /\ Unseen /\ Met

\* What is read up to a place depends on nothing behind it.
LEMMA ForgottenPrefix ==
    ASSUME NEW chan, NEW all, NEW known, NEW n \in Nat, \A i \in 1 .. n : all[i] = chan[i]
    PROVE  Forgotten(all, n, known) <=> Forgotten(chan, n, known)
BY DEF Forgotten

\* Datagrams of other types behind the place n change nothing.
LEMMA ForgottenOthers ==
    ASSUME NEW chan, NEW known, NEW n \in Nat, NEW m \in Nat, n <= m,
           \A i \in (n + 1) .. m : chan[i].type \notin {"new", "leave"}
    PROVE  Forgotten(chan, m, known) <=> Forgotten(chan, n, known)
<1>1. \A i \in 1 .. m : i \in 1 .. n \/ chan[i].type \notin {"new", "leave"}
  OBVIOUS
<1>2. \A i \in 1 .. n : i \in 1 .. m
  OBVIOUS
<1>3. ASSUME Forgotten(chan, m, known)
      PROVE  Forgotten(chan, n, known)
  BY <1>1, <1>2, <1>3 DEF Forgotten
<1>4. ASSUME Forgotten(chan, n, known)
      PROVE  Forgotten(chan, m, known)
  <2>1. CASE ~known /\ \A i \in 1 .. n : chan[i].type # "new"
    BY <1>1, <2>1 DEF Forgotten
  <2>2. ASSUME NEW k \in 1 .. n, chan[k].type = "leave",
               \A i \in (k + 1) .. n : chan[i].type # "new"
        PROVE  Forgotten(chan, m, known)
    <3>1. \A i \in (k + 1) .. m : i \in (k + 1) .. n \/ chan[i].type # "new"
      BY <1>1
    <3>2. QED
      BY <1>2, <2>2, <3>1 DEF Forgotten
  <2>3. QED
    BY <1>4, <2>1, <2>2 DEF Forgotten
<1>5. QED
  BY <1>3, <1>4

\* Sending at the end of a channel.
LEMMA LearnedAppend ==
    ASSUME NEW M, NEW chan \in Seq(M), NEW known \in BOOLEAN, NEW m \in M,
           m.type \in {"new", "leave"}
    PROVE  /\ Learned(Append(chan, m), known) <=> m.type = "new"
           /\ Answers(chan, known) => Answers(Append(chan, m), known)
           /\ m.type = "new" /\ ~Learned(chan, known) => Answers(Append(chan, m), known)
<1> DEFINE n == Len(chan)
           all == Append(chan, m)
<1>1. /\ n \in Nat /\ Len(all) = n + 1 /\ all[n + 1] = m
      /\ \A i \in 1 .. n : all[i] = chan[i]
  OBVIOUS
<1> HIDE DEF n, all
<1>2. \A i \in 0 .. n : Forgotten(all, i, known) <=> Forgotten(chan, i, known)
  BY <1>1, ForgottenPrefix
<1>3. Learned(all, known) <=> m.type = "new"
  <2>1. n + 1 \in 1 .. (n + 1) /\ \A k \in 1 .. n : n + 1 \in (k + 1) .. (n + 1)
    BY <1>1
  <2>2. \A k \in 1 .. (n + 1) : k = n + 1 \/ k \in 1 .. n
    BY <1>1
  <2>3. CASE m.type = "new"
    BY <1>1, <2>1, <2>2, <2>3 DEF Learned, Forgotten
  <2>4. CASE m.type = "leave"
    <3>1. (n + 1) + 1 .. n + 1 = {}
      BY <1>1
    <3>2. QED
      BY <1>1, <2>1, <2>4, <3>1 DEF Learned, Forgotten
  <2>5. QED
    BY <2>3, <2>4
<1>4. \A i \in 1 .. n : i \in 1 .. (n + 1) /\ i - 1 \in 0 .. n
  BY <1>1
<1>5. Answers(chan, known) => Answers(all, known)
  BY <1>1, <1>2, <1>4 DEF Answers, n
<1>6. m.type = "new" /\ Forgotten(chan, n, known) => Answers(all, known)
  <2>1. n + 1 \in 1 .. (n + 1) /\ (n + 1) - 1 = n /\ n \in 0 .. n
    BY <1>1
  <2>2. QED
    BY <1>1, <1>2, <2>1 DEF Answers
<1>7. QED
  BY <1>3, <1>5, <1>6 DEF Learned, n, all

\* Sending datagrams of other types.
LEMMA LearnedOthers ==
    ASSUME NEW M, NEW chan \in Seq(M), NEW all \in Seq(M), NEW known \in BOOLEAN,
           Len(chan) <= Len(all), \A i \in 1 .. Len(chan) : all[i] = chan[i],
           \A i \in (Len(chan) + 1) .. Len(all) : all[i].type \notin {"new", "leave"}
    PROVE  /\ Learned(all, known) <=> Learned(chan, known)
           /\ Answers(all, known) <=> Answers(chan, known)
<1>1. Len(chan) \in Nat /\ Len(all) \in Nat
  OBVIOUS
<1>2. \A i \in 0 .. Len(chan) : Forgotten(all, i, known) <=> Forgotten(chan, i, known)
  BY <1>1, ForgottenPrefix
<1>3. Forgotten(all, Len(all), known) <=> Forgotten(all, Len(chan), known)
  BY <1>1, ForgottenOthers
<1>4. \A i \in 1 .. Len(all) : i \in 1 .. Len(chan) \/ all[i].type # "new"
  BY <1>1
<1>5. \A i \in 1 .. Len(chan) : i - 1 \in 0 .. Len(chan) /\ i \in 1 .. Len(all)
  BY <1>1
<1>6. Len(chan) \in 0 .. Len(chan)
  BY <1>1
<1>7. QED
  BY <1>2, <1>3, <1>4, <1>5, <1>6 DEF Learned, Answers

\* Reading the first datagram: after an announcement the sender is known,
\* after a farewell it is not, and any other one changes nothing.
LEMMA ForgottenTail ==
    ASSUME NEW M, NEW chan \in Seq(M), chan # <<>>, NEW known \in BOOLEAN, NEW now \in BOOLEAN,
           now <=> IF Head(chan).type \in {"new", "leave"} THEN Head(chan).type = "new" ELSE known
    PROVE  /\ Len(Tail(chan)) \in Nat /\ Len(chan) = Len(Tail(chan)) + 1 /\ Head(chan) = chan[1]
           /\ \A i \in 1 .. Len(Tail(chan)) : Tail(chan)[i] = chan[i + 1]
           /\ \A i \in 0 .. Len(Tail(chan)) :
                 Forgotten(Tail(chan), i, now) <=> Forgotten(chan, i + 1, known)
<1> DEFINE rest == Tail(chan)
           n == Len(rest)
<1>1. /\ n \in Nat /\ Len(chan) = n + 1 /\ Head(chan) = chan[1]
      /\ \A i \in 1 .. n : rest[i] = chan[i + 1]
  <2>1. Len(chan) \in Nat \ {0} /\ Head(chan) = chan[1]
    OBVIOUS
  <2>2. rest \in Seq(M) /\ Len(rest) = Len(chan) - 1
    OBVIOUS
  <2>3. \A i \in 1 .. Len(rest) : rest[i] = chan[i + 1]
    BY <2>2
  <2>4. QED
    BY <2>1, <2>2, <2>3
<1> HIDE DEF rest, n
<1>2. ASSUME NEW i \in 0 .. n
      PROVE  Forgotten(rest, i, now) <=> Forgotten(chan, i + 1, known)
  <2>1. /\ 1 \in 1 .. (i + 1)
        /\ \A j \in 1 .. i : j + 1 \in 1 .. (i + 1) /\ rest[j] = chan[j + 1]
        /\ \A j \in 1 .. (i + 1) : j = 1 \/ (j - 1 \in 1 .. i /\ rest[j - 1] = chan[j])
    BY <1>1
  <2>2. ASSUME NEW k \in 1 .. i
        PROVE  (\A j \in (k + 1) .. i : rest[j].type # "new")
                 <=> (\A j \in ((k + 1) + 1) .. (i + 1) : chan[j].type # "new")
    <3>1. \A j \in (k + 1) .. i : j + 1 \in ((k + 1) + 1) .. (i + 1) /\ rest[j] = chan[j + 1]
      BY <1>1
    <3>2. \A j \in ((k + 1) + 1) .. (i + 1) : j - 1 \in (k + 1) .. i /\ rest[j - 1] = chan[j]
      BY <1>1
    <3>3. QED
      BY <3>1, <3>2
  <2>3. (\A j \in 1 .. i : rest[j].type # "new")
          <=> (\A j \in (1 + 1) .. (i + 1) : chan[j].type # "new")
    <3>1. \A j \in (1 + 1) .. (i + 1) : j - 1 \in 1 .. i /\ rest[j - 1] = chan[j]
      BY <1>1
    <3>2. \A j \in 1 .. i : j + 1 \in (1 + 1) .. (i + 1)
      BY <1>1
    <3>3. QED
      BY <2>1, <3>1, <3>2
  <2>4. (\A j \in 1 .. (i + 1) : chan[j].type # "new")
          <=> (chan[1].type # "new" /\ \A j \in 1 .. i : rest[j].type # "new")
    BY <2>1
  <2>5. (\E k \in 1 .. (i + 1) : chan[k].type = "leave" /\ \A j \in (k + 1) .. (i + 1) : chan[j].type # "new")
          <=> \/ chan[1].type = "leave" /\ \A j \in 1 .. i : rest[j].type # "new"
              \/ \E k \in 1 .. i : rest[k].type = "leave" /\ \A j \in (k + 1) .. i : rest[j].type # "new"
    <3>1. ASSUME NEW k \in 1 .. (i + 1), chan[k].type = "leave",
                 \A j \in (k + 1) .. (i + 1) : chan[j].type # "new"
          PROVE  \/ chan[1].type = "leave" /\ \A j \in 1 .. i : rest[j].type # "new"
                 \/ \E l \in 1 .. i : rest[l].type = "leave" /\ \A j \in (l + 1) .. i : rest[j].type # "new"
      <4>1. CASE k = 1
        BY <2>3, <3>1, <4>1
      <4>2. CASE k # 1
        <5>1. k - 1 \in 1 .. i /\ rest[k - 1] = chan[k] /\ (k - 1) + 1 = k
          BY <2>1, <4>2
        <5>2. \A j \in ((k - 1) + 1) .. i : rest[j].type # "new"
          BY <2>2, <3>1, <5>1
        <5>3. QED
          BY <3>1, <5>1, <5>2
      <4>3. QED
        BY <4>1, <4>2
    <3>2. ASSUME NEW k \in 1 .. i, rest[k].type = "leave",
                 \A j \in (k + 1) .. i : rest[j].type # "new"
          PROVE  \E l \in 1 .. (i + 1) : chan[l].type = "leave" /\ \A j \in (l + 1) .. (i + 1) : chan[j].type # "new"
      BY <2>1, <2>2, <3>2
    <3>3. ASSUME chan[1].type = "leave", \A j \in 1 .. i : rest[j].type # "new"
          PROVE  \E l \in 1 .. (i + 1) : chan[l].type = "leave" /\ \A j \in (l + 1) .. (i + 1) : chan[j].type # "new"
      BY <2>1, <2>3, <3>3
    <3>4. QED
      BY <3>1, <3>2, <3>3
  <2>6. QED
    BY <1>1, <2>4, <2>5 DEF Forgotten
<1>3. QED
  BY <1>1, <1>2 DEF rest, n

LEMMA LearnedTail ==
    ASSUME NEW M, NEW chan \in Seq(M), chan # <<>>, NEW known \in BOOLEAN, NEW now \in BOOLEAN,
           now <=> IF Head(chan).type \in {"new", "leave"} THEN Head(chan).type = "new" ELSE known
    PROVE  /\ Learned(Tail(chan), now) <=> Learned(chan, known)
           /\ Answers(chan, known) /\ (now => known) => Answers(Tail(chan), now)
<1> DEFINE rest == Tail(chan)
           n == Len(rest)
<1>1. /\ n \in Nat /\ Len(chan) = n + 1 /\ Head(chan) = chan[1]
      /\ \A i \in 1 .. n : rest[i] = chan[i + 1]
      /\ \A i \in 0 .. n : Forgotten(rest, i, now) <=> Forgotten(chan, i + 1, known)
  BY ForgottenTail
<1> HIDE DEF rest, n
<1>2. \A i \in 0 .. n : Forgotten(rest, i, now) <=> Forgotten(chan, i + 1, known)
  BY <1>1
<1>3. Learned(rest, now) <=> Learned(chan, known)
  BY <1>1, <1>2 DEF Learned, n
<1>4. ASSUME NEW i \in 1 .. Len(chan), chan[i].type = "new", Forgotten(chan, i - 1, known),
             now => known
      PROVE  Answers(rest, now)
  <2>1. i # 1
    <3>1. SUFFICES ASSUME i = 1 PROVE FALSE
      OBVIOUS
    <3>2. 1 .. (1 - 1) = {}
      OBVIOUS
    <3>3. ~known
      BY <1>4, <3>1, <3>2 DEF Forgotten
    <3>4. QED
      BY <1>1, <1>4, <3>1, <3>3
  <2>2. i - 1 \in 1 .. n /\ (i - 1) - 1 \in 0 .. n /\ ((i - 1) - 1) + 1 = i - 1 /\ (i - 1) + 1 = i
    BY <1>1, <2>1
  <2>3. rest[i - 1].type = "new" /\ Forgotten(rest, (i - 1) - 1, now)
    BY <1>1, <1>2, <1>4, <2>2
  <2>4. QED
    BY <2>2, <2>3 DEF Answers, n
<1>5. QED
  BY <1>3, <1>4 DEF Answers, rest

-----------------------------------------------------------------------------
(* What one channel, and what its reader knows, does in a step.            *)

\* The channel from s to r after each of the operations on the network.
LEMMA SentChannel ==
    ASSUME NEW M, NEW n \in NetType(M), NEW p \in Hosts, NEW to, NEW m,
           NEW r \in Hosts, NEW s \in Hosts
    PROVE  Sent(n, p, to, m)[s][r] =
               IF s = p /\ r \in to \ {p} /\ Open(r) THEN Append(n[s][r], m) ELSE n[s][r]
BY DEF NetType, Sent

LEMMA TakenChannel ==
    ASSUME NEW M, NEW n \in NetType(M), NEW p \in Hosts, NEW q \in Hosts,
           NEW r \in Hosts, NEW s \in Hosts
    PROVE  Taken(n, q, p)[s][r] = IF s = q /\ r = p THEN Tail(n[s][r]) ELSE n[s][r]
BY DEF NetType, Taken

LEMMA ClosedChannel ==
    ASSUME NEW M, NEW n \in NetType(M), NEW p \in Hosts, NEW r \in Hosts, NEW s \in Hosts
    PROVE  Closed(n, p)[s][r] = IF r = p THEN <<>> ELSE n[s][r]
BY DEF NetType, Closed

LEMMA PairTypes ==
    ASSUME NEW M, NetInv(M), NEW r \in Hosts, NEW s \in Hosts
    PROVE  net[s][r] \in Seq(M) /\ Knows(r, s) \in BOOLEAN /\ net \in NetType(M)
<1>1. net[s][r] \in Seq(M) /\ net \in NetType(M)
  BY DEF NetInv, NetType
<1>2. Knows(r, s) \in BOOLEAN
  BY DEF Knows, Contains
<1>3. QED
  BY <1>1, <1>2

LEMMA PairKept ==
    ASSUME NEW r \in Hosts, NEW s \in Hosts,
           net'[s][r] = net[s][r], Knows(r, s)' <=> Knows(r, s)
    PROVE  /\ WillKnow(r, s)' <=> WillKnow(r, s)
           /\ WillAnswer(r, s)' <=> WillAnswer(r, s)
BY DEF WillKnow, WillAnswer, Learned, Answers, Forgotten

LEMMA PairSent ==
    ASSUME NEW M, NetInv(M), NEW r \in Hosts, NEW s \in Hosts,
           NEW m \in M, m.type \in {"new", "leave"},
           net'[s][r] = Append(net[s][r], m), Knows(r, s)' <=> Knows(r, s)
    PROVE  /\ WillKnow(r, s)' <=> m.type = "new"
           /\ WillAnswer(r, s) => WillAnswer(r, s)'
           /\ m.type = "new" /\ ~WillKnow(r, s) => WillAnswer(r, s)'
<1>1. net[s][r] \in Seq(M) /\ Knows(r, s) \in BOOLEAN
  BY PairTypes
<1>2. Knows(r, s)' = Knows(r, s)
  BY DEF Knows, Contains
<1>3. QED
  BY <1>1, <1>2, LearnedAppend DEF WillKnow, WillAnswer

LEMMA PairRead ==
    ASSUME NEW M, NetInv(M), NEW r \in Hosts, NEW s \in Hosts, net[s][r] # <<>>,
           net'[s][r] = Tail(net[s][r]),
           Knows(r, s)' <=> IF Head(net[s][r]).type \in {"new", "leave"}
                            THEN Head(net[s][r]).type = "new" ELSE Knows(r, s)
    PROVE  /\ WillKnow(r, s)' <=> WillKnow(r, s)
           /\ WillAnswer(r, s) /\ (Knows(r, s)' => Knows(r, s)) => WillAnswer(r, s)'
<1>1. net[s][r] \in Seq(M) /\ Knows(r, s) \in BOOLEAN /\ Knows(r, s)' \in BOOLEAN
  BY PairTypes DEF Knows, Contains
<1>2. QED
  BY <1>1, LearnedTail DEF WillKnow, WillAnswer

\* What the turns that read a message do to the list.
LEMMA KnownAfterNew ==
    ASSUME IInv, NEW p \in Hosts, NEW q \in Hosts, ReceiveNew(p, q)
    PROVE  /\ \A s \in Hosts : Knows(p, s)' <=> (Knows(p, s) \/ s = q)
           /\ \A r \in Hosts \ {p} : nodes'[r] = nodes[r]
<1>1. CASE Knows(p, q)
  BY <1>1 DEF ReceiveNew, Knows
<1>2. CASE ~Knows(p, q)
  <2> DEFINE list == StdSort(Append(nodes[p], q))
  <2>1. list \in Seq(Hosts) /\ ToSet(list) = ToSet(nodes[p]) \cup {q}
    BY <1>2, AddedList
  <2>2. nodes'[p] = list /\ \A r \in Hosts \ {p} : nodes'[r] = nodes[r]
    BY <1>2 DEF ReceiveNew, IInv, Controls
  <2> HIDE DEF list
  <2>3. \A s \in Hosts : Knows(p, s)' <=> s \in ToSet(list)
    BY <2>1, <2>2 DEF Knows, Contains, ToSet
  <2>4. \A s \in Hosts : Knows(p, s) <=> s \in ToSet(nodes[p])
    BY ListOf
  <2>5. QED
    BY <2>1, <2>2, <2>3, <2>4
<1>3. QED
  BY <1>1, <1>2

LEMMA KnownAfterLeave ==
    ASSUME IInv, NEW p \in Hosts, NEW q \in Hosts, ReceiveLeave(p, q)
    PROVE  /\ \A s \in Hosts : Knows(p, s)' <=> (Knows(p, s) /\ s # q)
           /\ \A r \in Hosts \ {p} : nodes'[r] = nodes[r]
<1>1. CASE ~Knows(p, q)
  BY <1>1 DEF ReceiveLeave, Knows
<1>2. CASE Knows(p, q)
  <2>1. PICK i \in DOMAIN nodes[p] :
          nodes[p][i] = q /\ nodes' = [nodes EXCEPT ![p] = RemoveAt(nodes[p], i)]
    BY <1>2 DEF ReceiveLeave
  <2> DEFINE list == RemoveAt(nodes[p], i)
  <2>2. list \in Seq(Hosts) /\ ToSet(list) = ToSet(nodes[p]) \ {q}
    BY <2>1, ErasedList
  <2>3. nodes'[p] = list /\ \A r \in Hosts \ {p} : nodes'[r] = nodes[r]
    BY <2>1 DEF IInv, Controls
  <2> HIDE DEF list
  <2>4. \A s \in Hosts : Knows(p, s)' <=> s \in ToSet(list)
    BY <2>2, <2>3 DEF Knows, Contains, ToSet
  <2>5. \A s \in Hosts : Knows(p, s) <=> s \in ToSet(nodes[p])
    BY ListOf
  <2>6. QED
    BY <2>2, <2>3, <2>4, <2>5
<1>3. QED
  BY <1>1, <1>2

LEMMA ViewsInit == Init => ViewsInv
BY DEF Init, ViewsInv, Reliable, Deaf, Unseen, Met, Open, Announced, Peers,
       WillKnow, Learned, Forgotten, Knows, Contains

\* A step that leaves the lists and the phases as they are, to what the
\* invariant tells of them, and of the network what is not NETWORK_CHANGE.
LEMMA ViewsKept ==
    ASSUME ViewsInv, Reliable' => Reliable,
           \A r, s \in Hosts : /\ WillKnow(r, s)' <=> WillKnow(r, s)
                               /\ WillAnswer(r, s) => WillAnswer(r, s)'
                               /\ ~Open(r) /\ net[s][r] = <<>> => net'[s][r] = <<>>,
           \A r \in Hosts : (Open(r)' <=> Open(r)) /\ (Announced(r)' <=> Announced(r))
    PROVE  ViewsInv'
<1> SUFFICES ASSUME Deaf, Unseen, Met PROVE Deaf' /\ Unseen' /\ Met'
  BY DEF ViewsInv
<1> QED
  BY DEF Deaf, Unseen, Met, Peers

\* A step of p that announces itself to some hosts, those of its port among
\* them when it is the first time.
LEMMA ViewsSent ==
    ASSUME NEW M, Carries(M), NetInv(M), IInv, ViewsInv, NEW p \in Hosts, NEW to, Open(p),
           Announced(p) \/ SamePort(p) \subseteq to,
           net' = Sent(net, p, to, NewMsg), nodes' = nodes,
           UNCHANGED <<losses, crashes>>, Announced(p)',
           \A r \in Hosts : Open(r)' <=> Open(r),
           \A r \in Hosts \ {p} : Announced(r)' <=> Announced(r)
    PROVE  ViewsInv'
<1> SUFFICES ASSUME Deaf, Unseen, Met PROVE Deaf' /\ Unseen' /\ Met'
  BY DEF ViewsInv, Reliable
<1> DEFINE told(r, s) == s = p /\ r \in to \ {p} /\ Open(r)
<1>1. NewMsg \in M /\ NewMsg.type = "new"
  BY DEF Carries, Messages, NewMsg
<1>2. \A r, s \in Hosts :
        net'[s][r] = IF told(r, s) THEN Append(net[s][r], NewMsg) ELSE net[s][r]
  <2>1. net \in NetType(M)
    BY DEF NetInv
  <2>2. QED
    BY <2>1, SentChannel
<1>3. \A r, s \in Hosts : Knows(r, s)' <=> Knows(r, s)
  BY DEF Knows
<1>4. ASSUME NEW r \in Hosts, NEW s \in Hosts
      PROVE  /\ WillKnow(r, s)' <=> (told(r, s) \/ WillKnow(r, s))
             /\ WillAnswer(r, s) => WillAnswer(r, s)'
             /\ told(r, s) /\ ~WillKnow(r, s) => WillAnswer(r, s)'
  <2>1. CASE told(r, s)
    BY <1>1, <1>2, <1>3, <2>1, PairSent
  <2>2. CASE ~told(r, s)
    BY <1>2, <1>3, <2>2, PairKept
  <2>3. QED
    BY <2>1, <2>2
<1>5. Deaf'
  BY <1>2 DEF Deaf
<1>6. Unseen'
  BY <1>4 DEF Unseen
<1>7. ASSUME NEW r \in Hosts, NEW s \in Hosts, Peers(r, s), Announced(r)', Announced(s)'
      PROVE  WillKnow(r, s)' \/ WillAnswer(s, r)'
  <2>1. CASE Announced(r) /\ Announced(s)
    BY <1>4, <1>7, <2>1 DEF Met
  <2>2. CASE ~Announced(s)
    <3>1. s = p /\ Open(r) /\ r \in SamePort(p) /\ r # p /\ SamePort(p) \subseteq to
      BY <1>7, <2>2 DEF Peers, SamePort, Announced, Open
    <3>2. QED
      BY <1>4, <3>1
  <2>3. CASE ~Announced(r) /\ Announced(s)
    <3>1. r = p /\ Open(s) /\ s \in SamePort(p) /\ s # p /\ SamePort(p) \subseteq to
      BY <1>7, <2>3 DEF Peers, SamePort, Announced, Open
    <3>2. ~WillKnow(s, r) /\ told(s, r)
      BY <1>7, <2>3, <3>1 DEF Unseen, Peers
    <3>3. QED
      BY <1>4, <3>2
  <2>4. QED
    BY <2>1, <2>2, <2>3
<1>8. QED
  BY <1>5, <1>6, <1>7 DEF Met

\* A turn of p that reads a message of q: an announcement of an unknown host
\* is answered.
LEMMA ViewsRead ==
    ASSUME NEW M, Carries(M), NetInv(M), IInv, ViewsInv, NEW p \in Hosts, NEW q \in Hosts,
           ReceiveNew(p, q) \/ ReceiveLeave(p, q)
    PROVE  ViewsInv'
<1> SUFFICES ASSUME Deaf, Unseen, Met PROVE Deaf' /\ Unseen' /\ Met'
  BY DEF ViewsInv, Reliable, ReceiveNew, ReceiveLeave, counters
<1> DEFINE greets == Head(net[q][p]).type = "new" /\ ~Knows(p, q)
           told(r, s) == greets /\ s = p /\ r = q /\ Open(q)
           read(r, s) == s = q /\ r = p
<1>1. p # q /\ net[q][p] # <<>> /\ phase[p] = "turn"
  BY DEF NetInv, Silent, ReceiveNew, ReceiveLeave, Incoming
<1>2. \A r \in Hosts : (Open(r)' <=> Open(r)) /\ (Announced(r)' <=> Announced(r))
  BY <1>1 DEF ReceiveNew, ReceiveLeave, EndTurn, IInv, Controls, Open, Announced
<1>3. \A r, s \in Hosts :
        net'[s][r] = IF read(r, s) THEN Tail(net[s][r])
                     ELSE IF told(r, s) THEN Append(net[s][r], NewMsg)
                     ELSE net[s][r]
  <2>1. Taken(net, q, p) \in NetType(M)
    BY <1>1, TakenFacts DEF NetInv
  <2>2. net' = IF greets THEN Sent(Taken(net, q, p), p, {q}, NewMsg) ELSE Taken(net, q, p)
    BY DEF ReceiveNew, ReceiveLeave, Incoming
  <2>3. net \in NetType(M)
    BY DEF NetInv
  <2> SUFFICES ASSUME NEW r \in Hosts, NEW s \in Hosts
               PROVE  net'[s][r] = IF read(r, s) THEN Tail(net[s][r])
                                   ELSE IF told(r, s) THEN Append(net[s][r], NewMsg)
                                   ELSE net[s][r]
    OBVIOUS
  <2>4. Taken(net, q, p)[s][r] = IF read(r, s) THEN Tail(net[s][r]) ELSE net[s][r]
    BY <2>3, TakenChannel
  <2>5. ASSUME NEW n \in NetType(M)
        PROVE  Sent(n, p, {q}, NewMsg)[s][r] =
                 IF s = p /\ r \in {q} \ {p} /\ Open(r)
                 THEN Append(n[s][r], NewMsg) ELSE n[s][r]
    BY <2>5 DEF Sent, NetType
  <2>6. QED
    BY <1>1, <2>1, <2>2, <2>4, <2>5
<1>4. /\ Head(net[q][p]).type \in {"new", "leave"}
      /\ Knows(p, q)' <=> Head(net[q][p]).type = "new"
      /\ \A r, s \in Hosts : ~read(r, s) => (Knows(r, s)' <=> Knows(r, s))
  <2>1. CASE ReceiveNew(p, q)
    BY <1>1, <2>1, KnownAfterNew DEF ReceiveNew, Incoming, Knows
  <2>2. CASE ReceiveLeave(p, q)
    BY <1>1, <2>2, KnownAfterLeave DEF ReceiveLeave, Incoming, Knows
  <2>3. QED
    BY <2>1, <2>2
<1>5. ASSUME NEW r \in Hosts, NEW s \in Hosts
      PROVE  /\ WillKnow(r, s)' <=> (told(r, s) \/ WillKnow(r, s))
             /\ WillAnswer(r, s) => WillAnswer(r, s)' \/ (greets /\ read(r, s))
  <2>1. CASE read(r, s)
    BY <1>1, <1>3, <1>4, <2>1, PairRead
  <2>2. CASE told(r, s)
    <3>1. NewMsg \in M /\ NewMsg.type = "new"
      BY DEF Carries, Messages, NewMsg
    <3>2. QED
      BY <1>1, <1>3, <1>4, <2>2, <3>1, PairSent
  <2>3. CASE ~read(r, s) /\ ~told(r, s)
    BY <1>3, <1>4, <2>3, PairKept
  <2>4. QED
    BY <2>1, <2>2, <2>3
<1>6. Deaf'
  BY <1>1, <1>2, <1>3 DEF Deaf, Open
<1>7. Unseen'
  BY <1>1, <1>2, <1>5 DEF Unseen, Announced
<1>8. ASSUME NEW r \in Hosts, NEW s \in Hosts, Peers(r, s), Announced(r)', Announced(s)'
      PROVE  WillKnow(r, s)' \/ WillAnswer(s, r)'
  <2>1. WillKnow(r, s) \/ WillAnswer(s, r)
    BY <1>2, <1>8 DEF Met
  <2>2. CASE WillAnswer(s, r) /\ greets /\ read(s, r)
    <3>1. told(r, s)
      BY <1>2, <1>8, <2>2 DEF Announced, Open
    <3>2. QED
      BY <1>5, <3>1
  <2>3. QED
    BY <1>5, <2>1, <2>2
<1>9. QED
  BY <1>6, <1>7, <1>8 DEF Met

\* The farewell: the hosts of the port are going to forget p.
LEMMA ViewsLeave ==
    ASSUME NEW M, Carries(M), NetInv(M), IInv, ViewsInv, NEW p \in Hosts, Leave(p)
    PROVE  ViewsInv'
<1> SUFFICES ASSUME Deaf, Unseen, Met PROVE Deaf' /\ Unseen' /\ Met'
  BY DEF ViewsInv, Reliable, Leave, counters
<1> DEFINE to == SamePort(p) \cup ToSet(nodes[p])
           told(r, s) == s = p /\ r \in to \ {p} /\ Open(r)
<1>1. LeaveMsg \in M /\ LeaveMsg.type = "leave"
  BY DEF Carries, Messages, LeaveMsg
<1>2. /\ \A r \in Hosts : Open(r)' <=> (Open(r) /\ r # p)
      /\ \A r \in Hosts : Announced(r)' <=> (Announced(r) /\ r # p)
      /\ \A r \in Hosts \ {p} : nodes'[r] = nodes[r]
  BY DEF Leave, Gone, IInv, Controls, Open, Announced
<1>3. \A r, s \in Hosts :
        net'[s][r] = IF r = p THEN <<>>
                     ELSE IF told(r, s) THEN Append(net[s][r], LeaveMsg)
                     ELSE net[s][r]
  <2>1. Sent(net, p, to, LeaveMsg) \in NetType(M)
    BY <1>1, SentFacts DEF NetInv
  <2>2. net' = Closed(Sent(net, p, to, LeaveMsg), p)
    BY DEF Leave
  <2>3. net \in NetType(M)
    BY DEF NetInv
  <2> SUFFICES ASSUME NEW r \in Hosts, NEW s \in Hosts
               PROVE  net'[s][r] = IF r = p THEN <<>>
                                   ELSE IF told(r, s) THEN Append(net[s][r], LeaveMsg)
                                   ELSE net[s][r]
    OBVIOUS
  <2>4. net'[s][r] = IF r = p THEN <<>> ELSE Sent(net, p, to, LeaveMsg)[s][r]
    BY <2>1, <2>2, ClosedChannel
  <2>5. Sent(net, p, to, LeaveMsg)[s][r] =
          IF told(r, s) THEN Append(net[s][r], LeaveMsg) ELSE net[s][r]
    BY <2>3, SentChannel
  <2>6. QED
    BY <2>4, <2>5
<1>4. ASSUME NEW r \in Hosts \ {p}, NEW s \in Hosts
      PROVE  /\ WillKnow(r, s)' <=> (~told(r, s) /\ WillKnow(r, s))
             /\ WillAnswer(r, s) => WillAnswer(r, s)'
  <2>1. Knows(r, s)' <=> Knows(r, s)
    BY <1>2 DEF Knows
  <2>2. CASE told(r, s)
    BY <1>1, <1>3, <2>1, <2>2, PairSent
  <2>3. CASE ~told(r, s)
    BY <1>3, <2>1, <2>3, PairKept
  <2>4. QED
    BY <2>2, <2>3
<1>5. Deaf'
  BY <1>2, <1>3 DEF Deaf
<1>6. Unseen'
  BY <1>2, <1>4 DEF Unseen, Peers, SamePort
<1>7. Met'
  BY <1>2, <1>4 DEF Met, Peers
<1>8. QED
  BY <1>5, <1>6, <1>7

LEMMA ViewsNext ==
    ASSUME NEW M, Carries(M), NetInv(M), IInv, ViewsInv, [Next]_vars
    PROVE  ViewsInv'
<1>1. ASSUME NEW p \in Hosts, Start(p)
      PROVE  ViewsInv'
  <2> SUFFICES ASSUME Deaf, Unseen, Met PROVE Deaf' /\ Unseen' /\ Met'
    BY <1>1 DEF ViewsInv, Reliable, Start
  <2>1. /\ \A r \in Hosts : Open(r)' <=> (Open(r) \/ r = p)
        /\ \A r \in Hosts : Announced(r)' <=> Announced(r)
        /\ ~Announced(p) /\ ~Open(p) /\ net' = net /\ nodes'[p] = <<p>>
        /\ \A r \in Hosts \ {p} : nodes'[r] = nodes[r]
    BY <1>1 DEF Start, IInv, Controls, Open, Announced
  <2>2. \A r \in Hosts \ {p}, s \in Hosts :
          /\ WillKnow(r, s)' <=> WillKnow(r, s)
          /\ WillAnswer(r, s)' <=> WillAnswer(r, s)
    BY <2>1, PairKept DEF Knows
  <2>3. \A s \in Hosts \ {p} : ~WillKnow(p, s)'
    BY <2>1 DEF Deaf, WillKnow, Learned, Forgotten, Knows, Contains
  <2>4. Deaf'
    BY <2>1 DEF Deaf
  <2>5. Unseen'
    BY <2>1, <2>2, <2>3 DEF Unseen, Peers
  <2>6. Met'
    BY <2>1, <2>2 DEF Met, Peers
  <2>7. QED
    BY <2>4, <2>5, <2>6
<1>2. ASSUME NEW p \in Hosts, \/ Stop(p) \/ Timeout(p) \/ \E q \in Hosts : Ping(p, q)
      PROVE  ViewsInv'
  <2>1. /\ net' = net /\ nodes' = nodes /\ UNCHANGED <<losses, crashes>>
        /\ \A r \in Hosts : (Open(r)' <=> Open(r)) /\ (Announced(r)' <=> Announced(r))
    BY <1>2 DEF Stop, Timeout, Ping, EndTurn, counters, IInv, Controls, Open, Announced
  <2>2. \A r, s \in Hosts : /\ WillKnow(r, s)' <=> WillKnow(r, s)
                            /\ WillAnswer(r, s)' <=> WillAnswer(r, s)
    BY <2>1, PairKept DEF Knows
  <2>3. QED
    BY <2>1, <2>2, ViewsKept DEF Reliable
<1>3. ASSUME NEW p \in Hosts, Crash(p)
      PROVE  ViewsInv'
  BY <1>3 DEF Crash, ViewsInv, Reliable, IInv, Controls
<1>4. ASSUME NEW p \in Hosts, NEW q \in Hosts, Lose(p, q)
      PROVE  ViewsInv'
  BY <1>4 DEF Lose, ViewsInv, Reliable, IInv, Controls
<1>5. ASSUME NEW p \in Hosts, Announce(p)
      PROVE  ViewsInv'
  <2>1. /\ Open(p) /\ Announced(p)' /\ \A r \in Hosts : Open(r)' <=> Open(r)
        /\ \A r \in Hosts \ {p} : Announced(r)' <=> Announced(r)
        /\ nodes' = nodes /\ UNCHANGED <<losses, crashes>>
        /\ net' = Sent(net, p, SamePort(p), NewMsg)
    BY <1>5 DEF Announce, EndTurn, counters, IInv, Controls, Open, Announced
  <2>2. QED
    BY <2>1, ViewsSent
<1>6. ASSUME NEW p \in Hosts, SendPing(p)
      PROVE  ViewsInv'
  <2>1. /\ Open(p) /\ Announced(p) /\ Announced(p)'
        /\ \A r \in Hosts : (Open(r)' <=> Open(r)) /\ (Announced(r)' <=> Announced(r))
        /\ nodes' = nodes /\ UNCHANGED <<losses, crashes>>
        /\ net' = Sent(net, p, {toPing[p]}, NewMsg)
    BY <1>6 DEF SendPing, counters, Open, Announced
  <2>2. QED
    BY <2>1, ViewsSent
<1>7. CASE UNCHANGED vars
  <2>1. \A r, s \in Hosts : /\ WillKnow(r, s)' <=> WillKnow(r, s)
                            /\ WillAnswer(r, s)' <=> WillAnswer(r, s)
    BY <1>7, PairKept DEF vars, Knows
  <2>2. QED
    BY <1>7, <2>1, ViewsKept DEF vars, counters, Reliable, Open, Announced
<1>8. QED
  BY <1>1, <1>2, <1>3, <1>4, <1>5, <1>6, <1>7, ViewsRead, ViewsLeave DEF Next, Main, Worker

-----------------------------------------------------------------------------
(* What the invariants say of a state.                                     *)

LEMMA ListsSafe == IInv => ListsWellFormed
<1> SUFFICES ASSUME IInv, NEW p \in Hosts
             PROVE  (Open(p) => Knows(p, p)) /\ IsInjective(nodes[p])
  BY DEF ListsWellFormed
<1>1. IsInjective(nodes[p])
  BY ListOf, ListFacts
<1>2. Open(p) => Knows(p, p)
  BY ListOf DEF IInv, ListsInv
<1>3. QED
  BY <1>1, <1>2

LEMMA OrderSafe ==
    ASSUME IsStrictTotalOrder(Hosts)
    PROVE  IInv /\ OrderInv => AgreedOrder
<1> SUFFICES ASSUME IInv, OrderInv, NEW p \in Hosts, NEW q \in Hosts,
                    ToSet(nodes[p]) = ToSet(nodes[q])
             PROVE  nodes[p] = nodes[q]
  BY DEF AgreedOrder
<1> DEFINE S == ToSet(nodes[p])
<1>1. /\ S \subseteq Hosts /\ IsFiniteSet(S)
      /\ nodes[p] \in SetToSeqs(S) /\ nodes[q] \in SetToSeqs(S)
  BY ListOf
<1>2. IsStrictTotalOrder(S)
  BY <1>1 DEF IsStrictTotalOrder
<1>3. QED
  BY <1>1, <1>2, SortedUnique DEF OrderInv

LEMMA ViewsSafe == IInv /\ ViewsInv => ViewsAgree
<1> SUFFICES ASSUME IInv, ViewsInv, Quiet, Reliable, NEW p \in Hosts, Open(p), NEW q
             PROVE  q \in ToSet(nodes[p]) \cap SamePort(p) <=> q \in SamePort(p) /\ Open(q)
  BY DEF ViewsAgree
<1>1. ToSet(nodes[p]) \subseteq Hosts /\ (Knows(p, q) <=> q \in ToSet(nodes[p]))
  BY ListOf
<1>2. CASE q = p
  BY <1>1, <1>2 DEF IInv, ListsInv, SamePort
<1>3. ASSUME q \in SamePort(p), q # p
      PROVE  Knows(p, q) <=> Open(q)
  <2>1. q \in Hosts /\ Peers(p, q) /\ net[q][p] = <<>> /\ net[p][q] = <<>>
    BY <1>3 DEF SamePort, Peers, Quiet
  <2>2. (WillKnow(p, q) <=> Knows(p, q)) /\ ~WillAnswer(q, p)
    BY <2>1 DEF WillKnow, WillAnswer, Learned, Forgotten, Answers
  <2>3. Announced(p) /\ (Open(q) <=> Announced(q))
    BY <2>1 DEF Quiet, Open, Announced
  <2>4. QED
    BY <2>1, <2>2, <2>3 DEF ViewsInv, Unseen, Met
<1>4. QED
  BY <1>1, <1>2, <1>3

\* The running hosts of a quiet network of one port have one list.
Agreement ==
    Quiet /\ Reliable => \A p, q \in Hosts : Open(p) /\ Open(q) => nodes[p] = nodes[q]

LEMMA OneListSafe ==
    ASSUME \A p, q \in Hosts : Port[p] = Port[q]
    PROVE  IInv /\ AgreedOrder /\ ViewsAgree => Agreement
<1> SUFFICES ASSUME IInv, AgreedOrder, ViewsAgree, Quiet, Reliable,
                    NEW p \in Hosts, NEW q \in Hosts, Open(p), Open(q)
             PROVE  nodes[p] = nodes[q]
  BY DEF Agreement
<1>1. ASSUME NEW r \in Hosts, Open(r)
      PROVE  ToSet(nodes[r]) = {s \in Hosts : Open(s)}
  <2>1. ToSet(nodes[r]) \subseteq Hosts
    BY ListOf
  <2>2. SamePort(r) = Hosts
    BY DEF SamePort
  <2>3. ToSet(nodes[r]) \cap SamePort(r) = {s \in SamePort(r) : Open(s)}
    BY <1>1 DEF ViewsAgree
  <2>4. QED
    BY <2>1, <2>2, <2>3
<1>2. QED
  BY <1>1 DEF AgreedOrder

-----------------------------------------------------------------------------
(* What follows for every behaviour.                                       *)

\* The invariant holds in every behaviour.
THEOREM Invariance == Spec => [](IInv /\ NetInv(Messages) /\ ViewsInv)
<1>1. Carries(Messages)
  BY DEF Carries
<1>2. Init => IInv /\ NetInv(Messages) /\ ViewsInv
  BY InitIInv, NetInit, ViewsInit
<1>3. IInv /\ NetInv(Messages) /\ ViewsInv /\ [Next]_vars
        => IInv' /\ NetInv(Messages)' /\ ViewsInv'
  BY <1>1, NextIInv, NetNext, ViewsNext DEF NetInv
<1>4. QED
  BY <1>2, <1>3, PTL DEF Spec

\* TypeOK for every network.
THEOREM TypeCorrect == Spec => []TypeOK
<1>1. IInv /\ NetInv(Messages) => TypeOK
  BY DEF IInv, Controls, NetInv, NetType, TypeOK
<1>2. QED
  BY Invariance, <1>1, PTL

\* A running node is in its own list and no node is in a list twice
\* (MSG_TYPE_NETOWRK_CHANGE in Service::run), whatever is lost or killed.
THEOREM ListsCorrect == Spec => []ListsWellFormed
BY Invariance, ListsSafe, PTL

\* The note at Service.cpp:1205 holds in every network on whose addresses
\* CompareNodes is an order: the same nodes are listed in the same order.
THEOREM OrderCorrect ==
    ASSUME IsStrictTotalOrder(Hosts)
    PROVE  Spec => []AgreedOrder
<1>1. IInv /\ OrderInv => AgreedOrder
  BY OrderSafe
<1>2. IInv /\ OrderInv /\ [Next]_vars => OrderInv'
  BY OrderNext
<1>3. Init => OrderInv
  BY OrderInit
<1>4. QED
  BY <1>1, <1>2, <1>3, Invariance, PTL DEF Spec

\* What two hosts of one port know of each other when the traffic ends
\* (Service::run, Start and Stop): for every number of hosts, starts, stops
\* and pings, the running hosts of a port know each other and no stopped one.
THEOREM ViewsCorrect == Spec => []ViewsAgree
BY Invariance, ViewsSafe, PTL

\* What File2NodeHash needs of the whole network: on one port, and with a
\* comparator that is an order, the running hosts of a quiet network hold the
\* same list, so each of them finds a file where any other has stored it.
THEOREM OneList ==
    ASSUME IsStrictTotalOrder(Hosts), \A p, q \in Hosts : Port[p] = Port[q]
    PROVE  Spec => []Agreement
<1>1. IInv /\ AgreedOrder /\ ViewsAgree => Agreement
  BY OneListSafe
<1>2. QED
  BY <1>1, Invariance, OrderCorrect, ViewsCorrect, PTL

=============================================================================
