------------------------- MODULE DistributionProofs -------------------------
(***************************************************************************)
(* Proofs about Distribution for every set of hosts and files, every place *)
(* of a file and every time to live.  What MembershipProofs shows of the   *)
(* node lists holds here, too: the datagrams about files share the channels*)
(* of the NETWORK_CHANGE messages, and they change nothing of it.          *)
(***************************************************************************)
EXTENDS Distribution, MembershipProofs, QueueFacts

-----------------------------------------------------------------------------
(* The inductive invariant.                                                *)

RequestMsgs == [type : {"request"}, file : Files]
RemoveMsgs  == [type : {"remove"}, file : Files]
InitMsgs    == [type : {"init"}, file : Files, port : Nat]
Datagrams   == Messages \cup RequestMsgs \cup RemoveMsgs \cup InitMsgs

Times   == (1 - Second * MaxGap) .. FullTTL
Entries == [file : Files, local : BOOLEAN, marked : BOOLEAN, ttl : Times]
Inputs  == [file : Files, peer : Hosts, port : Nat, stage : {"start", "wait", "data"}]
Outputs == [file : Files, peer : Hosts, port : Nat]

\* DistTypeOK, with what the handlers take from datagrams and transfers.
FilesInv ==
    /\ files \in [Hosts -> Seq(Entries)]
    /\ disk \in [Hosts -> SUBSET Files]
    /\ stage \in [Hosts -> Stages]
    /\ update \in [Hosts -> BOOLEAN]
    /\ toRemove \in [Hosts -> Files \cup {NoFile}]
    /\ inputs \in [Hosts -> SUBSET Inputs]
    /\ outputs \in [Hosts -> SUBSET Outputs]
    /\ transfers \in 0 .. MaxTransfers

DistInv == IInv /\ NetInv(Datagrams) /\ ViewsInv /\ FilesInv

LEMMA DatagramFacts ==
    /\ Carries(Datagrams)
    /\ \A m \in Datagrams :
          /\ m.type = "request" => m \in RequestMsgs
          /\ m.type = "remove" => m \in RemoveMsgs
          /\ m.type = "init" => m \in InitMsgs
<1>1. \A m \in RequestMsgs : m.type = "request"
  BY DEF RequestMsgs
<1>2. \A m \in RemoveMsgs : m.type = "remove"
  BY DEF RemoveMsgs
<1>3. \A m \in InitMsgs : m.type = "init"
  BY DEF InitMsgs
<1>4. \A m \in Messages : m.type \in {"new", "leave"}
  BY DEF Messages, NewMsg, LeaveMsg
<1>5. QED
  BY <1>1, <1>2, <1>3, <1>4 DEF Datagrams, Carries

-----------------------------------------------------------------------------
(* Datagrams about files leave the views alone.                            *)

\* At the end of a channel, only datagrams about files are new.
Grown(old, new) ==
    /\ Len(old) <= Len(new)
    /\ \A i \in 1 .. Len(old) : new[i] = old[i]
    /\ \A i \in (Len(old) + 1) .. Len(new) : new[i].type \notin {"new", "leave"}

\* The channel from s to r in a step that is none of Membership.
FileChannel(r, s) ==
    \/ net'[s][r] = net[s][r]
    \/ Open(r) /\ Grown(net[s][r], net'[s][r])
    \/ /\ net[s][r] # <<>> /\ Head(net[s][r]).type \notin {"new", "leave"}
       /\ net'[s][r] = Tail(net[s][r])

FileStep ==
    /\ phase' = phase \/ \E p \in Hosts : phase[p] = "turn" /\ EndTurn(p)
    /\ UNCHANGED <<exit, nodes, toPing, counters>>
    /\ \A r, s \in Hosts : FileChannel(r, s)

LEMMA FileStepFacts ==
    ASSUME IInv, FileStep
    PROVE  /\ IInv'
           /\ \A r \in Hosts : (Open(r)' <=> Open(r)) /\ (Announced(r)' <=> Announced(r))
<1>1. /\ phase' \in [Hosts -> Phases]
      /\ \A r \in Hosts : (Open(r)' <=> Open(r)) /\ (Announced(r)' <=> Announced(r))
  <2>1. CASE phase' = phase
    BY <2>1 DEF Open, Announced, IInv, Controls
  <2>2. ASSUME NEW p \in Hosts, phase[p] = "turn", EndTurn(p)
        PROVE  /\ phase' \in [Hosts -> Phases]
               /\ \A r \in Hosts : (Open(r)' <=> Open(r)) /\ (Announced(r)' <=> Announced(r))
    BY <2>2 DEF EndTurn, Open, Announced, IInv, Controls, Phases
  <2>3. QED
    BY <2>1, <2>2 DEF FileStep
<1>2. Controls'
  BY <1>1 DEF FileStep, counters, IInv, Controls
<1>3. nodes' = nodes
  BY DEF FileStep
<1>4. ListsInv'
  BY <1>1, <1>3, ListsKept DEF IInv
<1>5. QED
  BY <1>1, <1>2, <1>4 DEF IInv

LEMMA FileStepViews ==
    ASSUME IInv, NetInv(Datagrams), NetInv(Datagrams)', ViewsInv, FileStep
    PROVE  ViewsInv'
<1>1. \A r, s \in Hosts : Knows(r, s)' <=> Knows(r, s)
  BY DEF FileStep, Knows
<1>2. ASSUME NEW r \in Hosts, NEW s \in Hosts
      PROVE  /\ WillKnow(r, s)' <=> WillKnow(r, s)
             /\ WillAnswer(r, s) => WillAnswer(r, s)'
             /\ ~Open(r) /\ net[s][r] = <<>> => net'[s][r] = <<>>
  <2>1. FileChannel(r, s)
    BY DEF FileStep
  <2>2. net[s][r] \in Seq(Datagrams) /\ net'[s][r] \in Seq(Datagrams)
    BY DEF NetInv, NetType
  <2>3. Knows(r, s) \in BOOLEAN /\ Knows(r, s)' = Knows(r, s)
    BY <1>1 DEF FileStep, Knows, Contains
  <2>4. CASE net'[s][r] = net[s][r]
    BY <1>1, <2>4, PairKept
  <2>5. CASE Open(r) /\ Grown(net[s][r], net'[s][r])
    <3>1. /\ Learned(net'[s][r], Knows(r, s)) <=> Learned(net[s][r], Knows(r, s))
          /\ Answers(net'[s][r], Knows(r, s)) <=> Answers(net[s][r], Knows(r, s))
      BY <2>2, <2>3, <2>5, LearnedOthers DEF Grown
    <3>2. QED
      BY <2>3, <2>5, <3>1 DEF WillKnow, WillAnswer
  <2>6. CASE /\ net[s][r] # <<>> /\ Head(net[s][r]).type \notin {"new", "leave"}
             /\ net'[s][r] = Tail(net[s][r])
    BY <1>1, <2>6, PairRead
  <2>7. QED
    BY <2>1, <2>4, <2>5, <2>6 DEF FileChannel
<1>3. Reliable' => Reliable
  BY DEF FileStep, counters, Reliable
<1>4. QED
  BY <1>2, <1>3, FileStepFacts, ViewsKept

\* Sending one datagram about a file, and reading one.
LEMMA SentChannels ==
    ASSUME NetInv(Datagrams), NEW p \in Hosts, NEW to, NEW m \in Datagrams,
           m.type \notin {"new", "leave"}, net' = Sent(net, p, to, m)
    PROVE  NetInv(Datagrams)' /\ \A r, s \in Hosts : FileChannel(r, s)
<1>1. net \in NetType(Datagrams) /\ Silent(net)
  BY DEF NetInv
<1>2. NetInv(Datagrams)'
  BY <1>1, SentFacts DEF NetInv
<1>3. ASSUME NEW chan \in Seq(Datagrams)
      PROVE  Grown(chan, Append(chan, m))
  <2>1. /\ Len(chan) \in Nat /\ Len(Append(chan, m)) = Len(chan) + 1
        /\ \A i \in 1 .. Len(chan) : Append(chan, m)[i] = chan[i]
        /\ Append(chan, m)[Len(chan) + 1] = m
    OBVIOUS
  <2>2. \A i \in (Len(chan) + 1) .. (Len(chan) + 1) : i = Len(chan) + 1
    BY <2>1
  <2>3. QED
    BY <2>1, <2>2 DEF Grown
<1>4. ASSUME NEW r \in Hosts, NEW s \in Hosts
      PROVE  FileChannel(r, s)
  <2>1. net[s][r] \in Seq(Datagrams)
    BY <1>1 DEF NetType
  <2>2. net'[s][r] = IF s = p /\ r \in to \ {p} /\ Open(r)
                     THEN Append(net[s][r], m) ELSE net[s][r]
    <3>1. Sent(net, p, to, m)[s][r] = IF s = p /\ r \in to \ {p} /\ Open(r)
                                      THEN Append(net[s][r], m) ELSE net[s][r]
      BY <1>1 DEF NetType, Sent
    <3>2. QED
      BY <3>1
  <2>3. QED
    BY <1>3, <2>1, <2>2 DEF FileChannel
<1>5. QED
  BY <1>2, <1>4

LEMMA TakenChannels ==
    ASSUME NetInv(Datagrams), NEW p \in Hosts, NEW q \in Hosts, net[q][p] # <<>>,
           Head(net[q][p]).type \notin {"new", "leave"}, net' = Taken(net, q, p)
    PROVE  NetInv(Datagrams)' /\ \A r, s \in Hosts : FileChannel(r, s)
<1>1. net \in NetType(Datagrams) /\ Silent(net)
  BY DEF NetInv
<1>2. NetInv(Datagrams)'
  BY <1>1, TakenFacts DEF NetInv
<1>3. ASSUME NEW r \in Hosts, NEW s \in Hosts
      PROVE  FileChannel(r, s)
  <2>1. net'[s][r] = IF s = q /\ r = p THEN Tail(net[s][r]) ELSE net[s][r]
    BY <1>1, TakenChannel
  <2>2. QED
    BY <2>1 DEF FileChannel
<1>4. QED
  BY <1>2, <1>3

-----------------------------------------------------------------------------
(* The worker's housekeeping.                                              *)

\* What is past ageing stays as it is, so one gap is as far as it gets below zero.
LEMMA TimesFacts ==
    /\ Times \subseteq Int /\ MarkedTTL \in Times /\ FullTTL \in Times
    /\ MarkedTTL > 0 /\ FullTTL > 0
    /\ \A t \in Times, diff \in 0 .. MaxGap :
          (IF t > 0 THEN t - Second * diff ELSE t) \in Times
<1>1. TTL \in Nat \ {0} /\ MaxGap \in Nat \ {0}
  BY FilesAssumption
<1>2. QED
  BY <1>1 DEF Times, MarkedTTL, FullTTL, Second

\* A list made of another one, entry by entry, is a list of entries.
LEMMA EntriesList ==
    ASSUME NEW list \in Seq(Entries), NEW new \in [DOMAIN list -> Entries]
    PROVE  new \in Seq(Entries)
<1>1. Len(list) \in Nat /\ DOMAIN list = 1 .. Len(list)
  OBVIOUS
<1>2. new \in [1 .. Len(list) -> Entries]
  BY <1>1
<1>3. QED
  BY <1>1, <1>2

LEMMA MarkedList ==
    ASSUME NEW list \in Seq(Entries), NEW f
    PROVE  Marked(list, f) \in Seq(Entries)
<1>1. MarkedTTL \in Times
  BY TimesFacts
<1>2. \A i \in DOMAIN list : list[i] \in Entries
  OBVIOUS
<1>3. ASSUME NEW k
      PROVE  [list EXCEPT ![k].marked = TRUE, ![k].ttl = MarkedTTL] \in [DOMAIN list -> Entries]
  BY <1>1, <1>2 DEF Entries
<1>4. Marked(list, f) \in [DOMAIN list -> Entries] \/ Marked(list, f) = list
  BY <1>3 DEF Marked
<1>5. QED
  BY <1>4, EntriesList

LEMMA AgedList ==
    ASSUME NEW list \in Seq(Entries), NEW diff \in 0 .. MaxGap
    PROVE  Aged(list, diff) \in Seq(Entries)
<1>1. \A i \in DOMAIN list : list[i] \in Entries
  OBVIOUS
<1>2. ASSUME NEW e \in Entries
      PROVE  [e EXCEPT !.ttl = IF @ > 0 THEN @ - Second * diff ELSE @] \in Entries
  <2>1. e.ttl \in Times
    BY DEF Entries
  <2>2. (IF e.ttl > 0 THEN e.ttl - Second * diff ELSE e.ttl) \in Times
    BY <2>1, TimesFacts
  <2>3. QED
    BY <2>2 DEF Entries
<1>3. Aged(list, diff) \in [DOMAIN list -> Entries]
  BY <1>1, <1>2 DEF Aged
<1>4. QED
  BY <1>3, EntriesList

LEMMA NewEntry ==
    ASSUME NEW f \in Files
    PROVE  File(f) \in Entries
<1>1. FullTTL \in Times
  BY TimesFacts
<1>2. QED
  BY <1>1 DEF File, Entries

LEMMA PlacedList ==
    ASSUME NEW p, files[p] \in Seq(Entries)
    PROVE  Placed(p) \in Seq(Entries)
<1>1. \A i \in DOMAIN files[p] : files[p][i] \in Entries
  OBVIOUS
<1>2. FullTTL \in Times
  BY TimesFacts
<1>3. Placed(p) \in [DOMAIN files[p] -> Entries]
  BY <1>1, <1>2 DEF Placed, Entries
<1>4. QED
  BY <1>3, EntriesList

\* The requests of a host are about its own files, and none is for itself.
LEMMA RequestsList ==
    ASSUME NEW p, files[p] \in Seq(Entries), NEW q
    PROVE  /\ RequestsFor(p, q) \in Seq(RequestMsgs)
           /\ p = q => RequestsFor(p, q) = <<>>
<1> DEFINE places == IF p = q THEN {}
                     ELSE {i \in DOMAIN files[p] : Home(p, files[p][i].file) = q}
<1>1. Requests(p) \in [DOMAIN files[p] -> RequestMsgs]
  <2>1. \A i \in DOMAIN files[p] : files[p][i] \in Entries
    OBVIOUS
  <2>2. QED
    BY <2>1 DEF Requests, RequestMsgs, Entries
<1>2. Requests(p) \in Seq(RequestMsgs) /\ DOMAIN Requests(p) = DOMAIN files[p]
  <2>1. Len(files[p]) \in Nat /\ DOMAIN files[p] = 1 .. Len(files[p])
    OBVIOUS
  <2>2. Requests(p) \in [1 .. Len(files[p]) -> RequestMsgs]
    BY <1>1, <2>1
  <2>3. QED
    BY <1>1, <2>1, <2>2
<1>3. places \in SUBSET DOMAIN Requests(p) /\ RequestsFor(p, q) = Picked(Requests(p), places)
  BY <1>2 DEF RequestsFor
<1> HIDE DEF places
<1>4. RequestsFor(p, q) \in Seq(RequestMsgs)
  BY <1>2, <1>3, PickedFacts
<1>5. ASSUME p = q
      PROVE  RequestsFor(p, q) = <<>>
  <2>1. places = {} /\ Cardinality({}) = 0
    BY <1>5, FS_EmptySet DEF places
  <2>2. DOMAIN RequestsFor(p, q) = {}
    BY <1>3, <2>1 DEF Picked
  <2>3. QED
    BY <1>4, <2>2
<1>6. QED
  BY <1>4, <1>5

LEMMA LocalityChannel ==
    ASSUME DistInv, NEW p \in Hosts, HandleFilesLocality(p), NEW r \in Hosts, NEW s \in Hosts
    PROVE  net'[s][r] = IF update[p] /\ s = p /\ Open(r)
                        THEN net[s][r] \o RequestsFor(p, r) ELSE net[s][r]
<1>1. net \in NetType(Datagrams)
  BY DEF DistInv, NetInv
<1>2. CASE update[p]
  <2>1. net' = [net EXCEPT ![p] = [q \in Hosts |->
                   IF Open(q) THEN net[p][q] \o RequestsFor(p, q) ELSE net[p][q]]]
    BY <1>2 DEF HandleFilesLocality
  <2>2. net'[s] = IF s = p THEN [q \in Hosts |->
                   IF Open(q) THEN net[p][q] \o RequestsFor(p, q) ELSE net[p][q]] ELSE net[s]
    BY <1>1, <2>1 DEF NetType
  <2>3. QED
    BY <1>2, <2>2
<1>3. CASE ~update[p]
  BY <1>3 DEF HandleFilesLocality
<1>4. QED
  BY <1>2, <1>3

LEMMA LocalityStep ==
    ASSUME DistInv, NEW p \in Hosts, HandleFilesLocality(p)
    PROVE  FileStep /\ NetInv(Datagrams)' /\ FilesInv'
<1>1. net \in NetType(Datagrams) /\ Silent(net)
  BY DEF DistInv, NetInv
<1>2. files[p] \in Seq(Entries)
  BY DEF DistInv, FilesInv
<1>3. FilesInv'
  <2>1. files' \in [Hosts -> Seq(Entries)]
    <3>1. files' = files \/ files' = [files EXCEPT ![p] = Placed(p)]
      BY DEF HandleFilesLocality
    <3>2. Placed(p) \in Seq(Entries)
      BY <1>2, PlacedList
    <3>3. QED
      BY <3>1, <3>2 DEF DistInv, FilesInv
  <2>2. stage' \in [Hosts -> Stages] /\ update' \in [Hosts -> BOOLEAN]
    BY DEF HandleFilesLocality, DistInv, FilesInv, Stages
  <2>3. QED
    BY <2>1, <2>2 DEF HandleFilesLocality, DistInv, FilesInv
<1>4. ASSUME NEW q \in Hosts
      PROVE  /\ net[p][q] \o RequestsFor(p, q) \in Seq(Datagrams)
             /\ Grown(net[p][q], net[p][q] \o RequestsFor(p, q))
             /\ p = q => net[p][q] \o RequestsFor(p, q) = <<>>
  <2> DEFINE chan == net[p][q]
             more == RequestsFor(p, q)
  <2>1. chan \in Seq(Datagrams) /\ more \in Seq(RequestMsgs)
    BY <1>1, <1>2, RequestsList DEF NetType
  <2>2. RequestMsgs \subseteq Datagrams /\ \A m \in RequestMsgs : m.type \notin {"new", "leave"}
    BY DEF Datagrams, RequestMsgs
  <2>3. p = q => chan = <<>> /\ more = <<>>
    BY <1>1, <1>2, RequestsList DEF Silent
  <2> HIDE DEF chan, more
  <2>4. more \in Seq(Datagrams)
    BY <2>1, <2>2
  <2>5. /\ Len(chan) \in Nat /\ Len(more) \in Nat
        /\ chan \o more \in Seq(Datagrams) /\ Len(chan \o more) = Len(chan) + Len(more)
        /\ \A i \in 1 .. Len(chan) : (chan \o more)[i] = chan[i]
        /\ \A i \in (Len(chan) + 1) .. Len(chan \o more) :
              (chan \o more)[i] = more[i - Len(chan)] /\ i - Len(chan) \in 1 .. Len(more)
    BY <2>1, <2>4
  <2>6. \A i \in 1 .. Len(more) : more[i] \in RequestMsgs
    BY <2>1
  <2>7. Grown(chan, chan \o more)
    BY <2>2, <2>5, <2>6 DEF Grown
  <2>8. QED
    BY <2>3, <2>5, <2>7 DEF chan, more
<1>5. ASSUME NEW r \in Hosts, NEW s \in Hosts
      PROVE  \/ net'[s][r] = net[s][r]
             \/ s = p /\ Open(r) /\ net'[s][r] = net[s][r] \o RequestsFor(p, r)
  BY LocalityChannel
<1>6. NetInv(Datagrams)'
  <2>1. net' \in NetType(Datagrams)
    <3>1. CASE net' = net
      BY <1>1, <3>1
    <3>2. CASE net' = [net EXCEPT ![p] = [q \in Hosts |->
                          IF Open(q) THEN net[p][q] \o RequestsFor(p, q) ELSE net[p][q]]]
      BY <1>1, <1>4, <3>2 DEF NetType
    <3>3. QED
      BY <3>1, <3>2 DEF HandleFilesLocality
  <2>2. ASSUME NEW q \in Hosts
        PROVE  net'[q][q] = <<>>
    BY <1>1, <1>4, <1>5 DEF Silent
  <2>3. QED
    BY <2>1, <2>2 DEF NetInv, Silent
<1>7. \A r, s \in Hosts : FileChannel(r, s)
  BY <1>4, <1>5 DEF FileChannel
<1>8. QED
  BY <1>3, <1>6, <1>7 DEF HandleFilesLocality, FileStep

LEMMA HandleFilesStep ==
    ASSUME DistInv, NEW p \in Hosts, NEW diff \in 0 .. MaxGap, HandleFiles(p, diff)
    PROVE  FileStep /\ NetInv(Datagrams)' /\ FilesInv'
<1> DEFINE aged == Aged(files[p], diff)
           asked == IF toRemove[p] = NoFile THEN aged ELSE Marked(aged, toRemove[p])
           gone == {i \in DOMAIN asked : Expired(p, asked[i])}
<1>1. FilesInv
  BY DEF DistInv
<1>2. asked \in Seq(Entries)
  BY <1>1, AgedList, MarkedList DEF FilesInv
<1>3. /\ files' = [files EXCEPT ![p] = Picked(asked, DOMAIN asked \ gone)]
      /\ disk' = [disk EXCEPT ![p] = @ \ {asked[i].file : i \in gone}]
  BY DEF HandleFiles
<1>4. (DOMAIN asked \ gone) \in SUBSET DOMAIN asked
  OBVIOUS
<1> HIDE DEF aged, asked, gone
<1>5. Picked(asked, DOMAIN asked \ gone) \in Seq(Entries)
  BY <1>2, <1>4, PickedFacts
<1>6. FilesInv'
  <2>1. files' \in [Hosts -> Seq(Entries)] /\ disk' \in [Hosts -> SUBSET Files]
    BY <1>1, <1>3, <1>5 DEF FilesInv
  <2>2. stage' \in [Hosts -> Stages] /\ toRemove' \in [Hosts -> Files \cup {NoFile}]
    BY <1>1 DEF HandleFiles, FilesInv, Stages
  <2>3. QED
    BY <1>1, <2>1, <2>2 DEF HandleFiles, FilesInv
<1>7. NetInv(Datagrams)' /\ \A r, s \in Hosts : FileChannel(r, s)
  <2>1. CASE toRemove[p] = NoFile
    BY <2>1 DEF HandleFiles, DistInv, NetInv, Silent, FileChannel
  <2>2. CASE toRemove[p] # NoFile
    <3> DEFINE m == [type |-> "remove", file |-> toRemove[p]]
               to == SamePort(p) \cup ToSet(nodes[p])
    <3>1. m \in Datagrams /\ m.type \notin {"new", "leave"}
      BY <1>1, <2>2 DEF FilesInv, Datagrams, RemoveMsgs
    <3>2. net' = Sent(net, p, to, m)
      BY <2>2 DEF HandleFiles
    <3> HIDE DEF m, to
    <3>3. QED
      BY <3>1, <3>2, SentChannels DEF DistInv
  <2>3. QED
    BY <2>1, <2>2
<1>8. QED
  BY <1>6, <1>7 DEF HandleFiles, FileStep

-----------------------------------------------------------------------------
(* The worker's message handlers and the transfers.                        *)

LEMMA NothingStep ==
    ASSUME DistInv, NEW p \in Hosts, ReceiveNothing(p)
    PROVE  FileStep /\ NetInv(Datagrams)' /\ FilesInv'
<1>1. FilesInv'
  BY DEF ReceiveNothing, Received, Stages, DistInv, FilesInv, history
<1>2. NetInv(Datagrams)'
  BY DEF ReceiveNothing, DistInv, NetInv, Silent
<1>3. QED
  BY <1>1, <1>2 DEF ReceiveNothing, FileStep, FileChannel

LEMMA FileMsgStep ==
    ASSUME DistInv, NEW p \in Hosts, NEW q \in Hosts, NEW type,
           type \in {"request", "init", "remove"}, FileMsg(p, q, type)
    PROVE  /\ FileStep /\ NetInv(Datagrams)'
           /\ Head(net[q][p]) \in Datagrams /\ Head(net[q][p]).type = type
           /\ stage' \in [Hosts -> Stages]
<1>1. /\ net[q][p] # <<>> /\ Head(net[q][p]).type = type /\ phase[p] = "turn"
      /\ net' = Taken(net, q, p) /\ EndTurn(p)
  BY DEF FileMsg, Incoming
<1>2. net[q][p] \in Seq(Datagrams)
  BY DEF DistInv, NetInv, NetType
<1>3. type \notin {"new", "leave"}
  OBVIOUS
<1>4. NetInv(Datagrams)' /\ \A r, s \in Hosts : FileChannel(r, s)
  BY <1>1, <1>3, TakenChannels DEF DistInv
<1>5. stage' \in [Hosts -> Stages]
  BY DEF FileMsg, Received, Stages, DistInv, FilesInv
<1>6. Head(net[q][p]) \in Datagrams
  BY <1>1, <1>2
<1>7. QED
  BY <1>1, <1>4, <1>5, <1>6 DEF FileMsg, FileStep

LEMMA RequestStep ==
    ASSUME DistInv, NEW p \in Hosts, NEW q \in Hosts, ReceiveRequest(p, q)
    PROVE  FileStep /\ NetInv(Datagrams)' /\ FilesInv'
<1> DEFINE m == Head(net[q][p])
<1>1. FileMsg(p, q, "request")
  BY DEF ReceiveRequest
<1>2. /\ FileStep /\ NetInv(Datagrams)' /\ stage' \in [Hosts -> Stages]
      /\ m \in Datagrams /\ m.type = "request"
  BY <1>1, FileMsgStep
<1>3. m.file \in Files
  BY <1>2, DatagramFacts DEF RequestMsgs
<1>4. transfers \in Nat /\ transfers + 1 \in Nat
  BY FilesAssumption DEF DistInv, FilesInv
<1>5. [file |-> m.file, peer |-> q, port |-> transfers + 1, stage |-> "start"] \in Inputs
  BY <1>3, <1>4 DEF Inputs
<1>6. inputs' \in [Hosts -> SUBSET Inputs] /\ transfers' \in 0 .. MaxTransfers
  <2>1. CASE Knows(p, q) /\ ~Has(p, m.file)
    <3>1. /\ transfers < MaxTransfers /\ transfers' = transfers + 1
          /\ inputs' = [inputs EXCEPT ![p] = @ \cup
                 {[file |-> m.file, peer |-> q, port |-> transfers + 1, stage |-> "start"]}]
      BY <2>1 DEF ReceiveRequest
    <3>2. transfers' \in 0 .. MaxTransfers
      BY <1>4, <3>1, FilesAssumption
    <3>3. QED
      BY <1>5, <3>1, <3>2 DEF DistInv, FilesInv
  <2>2. CASE ~(Knows(p, q) /\ ~Has(p, m.file))
    BY <2>2 DEF ReceiveRequest, DistInv, FilesInv
  <2>3. QED
    BY <2>1, <2>2
<1>7. QED
  BY <1>1, <1>2, <1>6 DEF ReceiveRequest, FileMsg, DistInv, FilesInv

LEMMA InitMsgStep ==
    ASSUME DistInv, NEW p \in Hosts, NEW q \in Hosts, ReceiveInit(p, q)
    PROVE  FileStep /\ NetInv(Datagrams)' /\ FilesInv'
<1> DEFINE m == Head(net[q][p])
<1>1. FileMsg(p, q, "init")
  BY DEF ReceiveInit
<1>2. /\ FileStep /\ NetInv(Datagrams)' /\ stage' \in [Hosts -> Stages]
      /\ m \in Datagrams /\ m.type = "init"
  BY <1>1, FileMsgStep
<1>3. [file |-> m.file, peer |-> q, port |-> m.port] \in Outputs
  BY <1>2, DatagramFacts DEF InitMsgs, Outputs
<1>4. outputs' \in [Hosts -> SUBSET Outputs]
  BY <1>3 DEF ReceiveInit, DistInv, FilesInv
<1>5. QED
  BY <1>1, <1>2, <1>4 DEF ReceiveInit, FileMsg, DistInv, FilesInv

LEMMA RemoveStep ==
    ASSUME DistInv, NEW p \in Hosts, NEW q \in Hosts, ReceiveRemove(p, q)
    PROVE  FileStep /\ NetInv(Datagrams)' /\ FilesInv'
<1>1. FileMsg(p, q, "remove")
  BY DEF ReceiveRemove
<1>2. FileStep /\ NetInv(Datagrams)' /\ stage' \in [Hosts -> Stages]
  BY <1>1, FileMsgStep
<1>3. files' \in [Hosts -> Seq(Entries)]
  BY MarkedList DEF ReceiveRemove, DistInv, FilesInv
<1>4. QED
  BY <1>1, <1>2, <1>3 DEF ReceiveRemove, FileMsg, DistInv, FilesInv

\* A download that tells its peer where to connect.
LEMMA InputInitStep ==
    ASSUME DistInv, NEW p \in Hosts, NEW t \in inputs[p], InputInit(p, t)
    PROVE  FileStep /\ NetInv(Datagrams)' /\ FilesInv'
<1>1. t \in Inputs
  BY DEF DistInv, FilesInv
<1>2. [t EXCEPT !.stage = "wait"] \in Inputs
  BY <1>1 DEF Inputs
<1>3. inputs' \in [Hosts -> SUBSET Inputs]
  BY <1>2 DEF InputInit, DistInv, FilesInv
<1>4. NetInv(Datagrams)' /\ \A r, s \in Hosts : FileChannel(r, s)
  <2>1. CASE Open(p)
    <3> DEFINE m == [type |-> "init", file |-> t.file, port |-> t.port]
    <3>1. m \in Datagrams /\ m.type \notin {"new", "leave"}
      BY <1>1 DEF Inputs, Datagrams, InitMsgs
    <3>2. net' = Sent(net, p, {t.peer}, m)
      BY <2>1 DEF InputInit
    <3> HIDE DEF m
    <3>3. QED
      BY <3>1, <3>2, SentChannels DEF DistInv
  <2>2. CASE ~Open(p)
    BY <2>2 DEF InputInit, DistInv, NetInv, Silent, FileChannel
  <2>3. QED
    BY <2>1, <2>2
<1>5. QED
  BY <1>3, <1>4 DEF InputInit, FileStep, DistInv, FilesInv

-----------------------------------------------------------------------------
(* Steps of Membership.                                                    *)

LEMMA StoreFacts ==
    ASSUME DistInv, NEW p \in Hosts, NEW f \in Files, StoreAndList(p, f)
    PROVE  /\ files' = [files EXCEPT ![p] = Append(@, File(f))]
           /\ files' \in [Hosts -> Seq(Entries)] /\ disk' \in [Hosts -> SUBSET Files]
           /\ \/ disk' = [disk EXCEPT ![p] = @ \cup {f}] /\ unwritten' = unwritten
              \/ /\ \E rest \in {disk[p], disk[p] \ {f}} : disk' = [disk EXCEPT ![p] = rest]
                 /\ unwritten' = unwritten \cup {<<p, f>>}
<1>1. files[p] \in Seq(Entries) /\ File(f) \in Entries
  BY NewEntry DEF DistInv, FilesInv
<1>2. Append(files[p], File(f)) \in Seq(Entries)
  BY <1>1, AppendFacts
<1>3. QED
  BY <1>2 DEF StoreAndList, DistInv, FilesInv

LEMMA UsersStep ==
    ASSUME DistInv, Users
    PROVE  [Next]_vars /\ FilesInv'
<1>1. ASSUME NEW p \in Hosts, StopService(p) \/ (Start(p) /\ UNCHANGED fileVars)
      PROVE  [Next]_vars /\ FilesInv'
  <2>1. Main(p)
    BY <1>1 DEF StopService, Main
  <2>2. FilesInv'
    BY <1>1 DEF StopService, fileVars, DistInv, FilesInv
  <2>3. QED
    BY <2>1, <2>2 DEF Next
<1>2. ASSUME NEW p \in Hosts, NEW f \in Files, AddFile(p, f)
      PROVE  [Next]_vars /\ FilesInv'
  <2>1. StoreAndList(p, f)
    BY <1>2 DEF AddFile
  <2>2. files' \in [Hosts -> Seq(Entries)] /\ disk' \in [Hosts -> SUBSET Files]
    BY <2>1, StoreFacts
  <2>3. FilesInv'
    BY <1>2, <2>2 DEF AddFile, DistInv, FilesInv
  <2>4. QED
    BY <1>2, <2>3 DEF AddFile, memberVars
<1>3. ASSUME NEW p \in Hosts, NEW f \in Files, RemoveFile(p, f)
      PROVE  [Next]_vars /\ FilesInv'
  BY <1>3 DEF RemoveFile, memberVars, DistInv, FilesInv
<1>4. QED
  BY <1>1, <1>2, <1>3 DEF Users

LEMMA NodeStep ==
    ASSUME DistInv, NEW p \in Hosts, NEW q \in Hosts, ReceiveNode(p, q)
    PROVE  [Next]_vars /\ FilesInv'
<1>1. Worker(p)
  BY DEF ReceiveNode, Worker
<1>2. stage' \in [Hosts -> Stages] /\ update' \in [Hosts -> BOOLEAN]
  BY DEF ReceiveNode, Received, Stages, DistInv, FilesInv
<1>3. FilesInv'
  BY <1>2 DEF ReceiveNode, DistInv, FilesInv
<1>4. QED
  BY <1>1, <1>3 DEF Next

LEMMA StopFilesStep ==
    ASSUME DistInv, NEW p \in Hosts, StopFiles(p)
    PROVE  [Next]_vars /\ FilesInv'
<1>1. Worker(p)
  BY DEF StopFiles, Worker
<1>2. <<>> \in Seq(Entries)
  BY EmptyFacts
<1>3. FilesInv'
  BY <1>2 DEF StopFiles, DistInv, FilesInv
<1>4. QED
  BY <1>1, <1>3 DEF Next

\* The threads of the transfers, but for the datagram of InputInit.
LEMMA OutputStep ==
    ASSUME DistInv, NEW p \in Hosts, NEW o \in outputs[p], OutputPerform(p, o)
    PROVE  [Next]_vars /\ FilesInv'
<1>1. o.peer \in Hosts
  BY DEF DistInv, FilesInv, Outputs
<1>2. ASSUME NEW t \in Partner(p, o)
      PROVE  t \in Inputs /\ [t EXCEPT !.stage = "data"] \in Inputs
  <2>1. t \in Inputs
    BY <1>1 DEF Partner, DistInv, FilesInv
  <2>2. QED
    BY <2>1 DEF Inputs
<1>3. PICK more \in SUBSET Inputs :
         inputs' = [inputs EXCEPT ![o.peer] = (@ \ Partner(p, o)) \cup more]
  <2>1. {[t EXCEPT !.stage = "data"] : t \in Partner(p, o)} \in SUBSET Inputs
    BY <1>2
  <2>2. QED
    BY <2>1 DEF OutputPerform
<1>4. inputs' \in [Hosts -> SUBSET Inputs]
  <2>1. inputs \in [Hosts -> SUBSET Inputs]
    BY DEF DistInv, FilesInv
  <2>2. ((inputs[o.peer] \ Partner(p, o)) \cup more) \in SUBSET Inputs
    BY <1>1, <2>1
  <2>3. QED
    BY <1>3, <2>1, <2>2
<1>5. outputs' \in [Hosts -> SUBSET Outputs]
  BY DEF OutputPerform, DistInv, FilesInv
<1>6. QED
  BY <1>4, <1>5 DEF OutputPerform, memberVars, DistInv, FilesInv

LEMMA StoreStep ==
    ASSUME DistInv, NEW p \in Hosts, NEW t \in inputs[p], InputStore(p, t)
    PROVE  [Next]_vars /\ FilesInv'
<1>1. t.file \in Files
  BY DEF DistInv, FilesInv, Inputs
<1>2. StoreAndList(p, t.file)
  BY DEF InputStore
<1>3. files' \in [Hosts -> Seq(Entries)] /\ disk' \in [Hosts -> SUBSET Files]
  BY <1>1, <1>2, StoreFacts
<1>4. inputs' \in [Hosts -> SUBSET Inputs]
  BY DEF InputStore, DistInv, FilesInv
<1>5. QED
  BY <1>3, <1>4 DEF InputStore, memberVars, DistInv, FilesInv

-----------------------------------------------------------------------------
(* The invariant.                                                          *)

\* Every step is one of Membership, or leaves the views alone.
LEMMA DistStep ==
    ASSUME DistInv, [DistNext]_distVars
    PROVE  /\ FilesInv'
           /\ [Next]_vars \/ (FileStep /\ NetInv(Datagrams)')
<1>1. CASE Users
  BY <1>1, UsersStep
<1>2. ASSUME NEW p \in Hosts, FileWorker(p)
      PROVE  FilesInv' /\ ([Next]_vars \/ (FileStep /\ NetInv(Datagrams)'))
  <2>1. CASE Announce(p) /\ UNCHANGED fileVars
    BY <2>1 DEF Next, Worker, fileVars, DistInv, FilesInv
  <2>2. ASSUME NEW diff \in 0 .. MaxGap, HandleFiles(p, diff)
        PROVE  FilesInv' /\ FileStep /\ NetInv(Datagrams)'
    BY <2>2, HandleFilesStep
  <2>3. QED
    BY <1>2, <2>1, <2>2, LocalityStep, NothingStep, NodeStep, RequestStep, InitMsgStep,
       RemoveStep, StopFilesStep DEF FileWorker
<1>3. ASSUME NEW p \in Hosts, Threads(p)
      PROVE  FilesInv' /\ ([Next]_vars \/ (FileStep /\ NetInv(Datagrams)'))
  BY <1>3, InputInitStep, StoreStep, OutputStep DEF Threads
<1>4. ASSUME NEW p \in Hosts, NEW q \in Hosts, Lose(p, q), UNCHANGED fileVars
      PROVE  FilesInv' /\ [Next]_vars
  BY <1>4 DEF Next, fileVars, DistInv, FilesInv
<1>5. CASE UNCHANGED distVars
  BY <1>5 DEF distVars, memberVars, fileVars, DistInv, FilesInv
<1>6. QED
  BY <1>1, <1>2, <1>3, <1>4, <1>5 DEF DistNext

LEMMA DistInitInv == DistInit => DistInv
<1> SUFFICES ASSUME DistInit PROVE DistInv
  OBVIOUS
<1>1. <<>> \in Seq(Entries)
  BY EmptyFacts
<1>2. FilesInv
  BY <1>1, FilesAssumption DEF DistInit, FilesInv, Stages
<1>3. QED
  BY <1>2, InitIInv, NetInit, ViewsInit DEF DistInit, DistInv

LEMMA DistNextInv == DistInv /\ [DistNext]_distVars => DistInv'
<1> SUFFICES ASSUME DistInv, [DistNext]_distVars PROVE DistInv'
  OBVIOUS
<1>1. IInv /\ NetInv(Datagrams) /\ ViewsInv /\ Silent(net) /\ Carries(Datagrams)
  BY DatagramFacts DEF DistInv, NetInv
<1>2. CASE [Next]_vars
  BY <1>1, <1>2, NextIInv, NetNext, ViewsNext, DistStep DEF DistInv
<1>3. CASE FileStep /\ NetInv(Datagrams)'
  BY <1>1, <1>3, FileStepFacts, FileStepViews, DistStep DEF DistInv
<1>4. QED
  BY <1>2, <1>3, DistStep

\* The invariant holds in every behaviour.
THEOREM DistInvariance == DistSpec => []DistInv
BY DistInitInv, DistNextInv, PTL DEF DistSpec

-----------------------------------------------------------------------------
(* What follows for every behaviour.                                       *)

\* DistTypeOK for every number of hosts, files and transfers: in particular a time
\* to live, which HandleFiles takes below zero (Service.cpp:1138-1139), gets there
\* by one gap at most, however often HandleFiles passes, and nothing sets it above
\* File::TTL.
THEOREM DistTypeCorrect == DistSpec => []DistTypeOK
<1>1. FilesInv => DistTypeOK
  <2> SUFFICES ASSUME FilesInv PROVE DistTypeOK
    OBVIOUS
  <2>1. ASSUME NEW p \in Hosts, NEW i \in DOMAIN files[p]
        PROVE  files[p][i] \in Entries
    <3>1. files[p] \in Seq(Entries)
      BY DEF FilesInv
    <3>2. QED
      BY <3>1
  <2>2. \A p \in Hosts : \A t \in inputs[p] : t.stage \in {"start", "wait", "data"}
    BY DEF FilesInv, Inputs
  <2>3. QED
    BY <2>1, <2>2 DEF FilesInv, DistTypeOK, Entries, Times
<1>2. QED
  BY <1>1, DistInvariance, PTL DEF DistInv

\* The files change nothing of what Membership promises: in the composition the
\* running hosts of a port know each other when the traffic ends, too.
THEOREM DistViewsCorrect == DistSpec => []ViewsAgree
<1>1. DistInv => ViewsAgree
  BY ViewsSafe DEF DistInv
<1>2. QED
  BY <1>1, DistInvariance, PTL

LEMMA HomeFacts ==
    ASSUME DistInv, NEW p \in Hosts, NEW f \in Files, Open(p)
    PROVE  Home(p, f) \in Hosts /\ Knows(p, Home(p, f))
<1>1. nodes[p] \in Seq(Hosts) /\ p \in ToSet(nodes[p])
  BY DEF DistInv, IInv, Controls, ListsInv
<1>2. Len(nodes[p]) \in Nat \ {0} /\ DOMAIN nodes[p] = 1 .. Len(nodes[p])
  BY <1>1 DEF ToSet
<1>3. Place[f] \in Nat
  BY FilesAssumption
<1>4. (Place[f] % Len(nodes[p])) + 1 \in 1 .. Len(nodes[p])
  BY <1>2, <1>3
<1>5. QED
  BY <1>1, <1>2, <1>4 DEF Home, Knows, Contains

\* The home of a file is defined whenever a worker asks for it: File2NodeHash
\* (Service.cpp:36) takes the hash modulo the length of the list and
\* HandleFilesLocality only asserts that the list is not empty (Service.cpp:1219).
HomeIsNode == \A p \in Hosts, f \in Files : Open(p) => Home(p, f) \in Hosts

\* The list of a running host holds at least the host itself.
THEOREM HomeCorrect == DistSpec => []HomeIsNode
<1>1. DistInv => HomeIsNode
  BY HomeFacts DEF HomeIsNode
<1>2. QED
  BY <1>1, DistInvariance, PTL

LEMMA OrderKept ==
    ASSUME IsStrictTotalOrder(Hosts), DistInv, OrderInv, [DistNext]_distVars
    PROVE  OrderInv'
<1>1. CASE [Next]_vars
  BY <1>1, OrderNext DEF DistInv
<1>2. CASE FileStep
  BY <1>2 DEF FileStep, OrderInv
<1>3. QED
  BY <1>1, <1>2, DistStep

\* "this assumes that nodes are sorted by the IP address and port - deterministic
\* on all hosts" (Service.cpp:1205): when the traffic ends, the running hosts of
\* one port agree on the home of every file, if CompareNodes is an order on
\* their addresses and nothing was lost.
OneHome ==
    Quiet /\ Reliable =>
        \A p, q \in Hosts, f \in Files : Open(p) /\ Open(q) => Home(p, f) = Home(q, f)

\* Then the lists are equal, and the home depends on nothing else.
THEOREM HomesAgree ==
    ASSUME IsStrictTotalOrder(Hosts), \A p, q \in Hosts : Port[p] = Port[q]
    PROVE  DistSpec => []OneHome
<1>1. DistInit => OrderInv
  BY OrderInit DEF DistInit
<1>2. DistInv /\ OrderInv /\ [DistNext]_distVars => OrderInv'
  BY OrderKept
<1>3. DistInv /\ OrderInv => OneHome
  <2>1. DistInv /\ OrderInv => Agreement
    BY OrderSafe, ViewsSafe, OneListSafe DEF DistInv
  <2>2. Agreement => OneHome
    BY DEF Agreement, OneHome, Home
  <2>3. QED
    BY <2>1, <2>2
<1>4. QED
  BY <1>1, <1>2, <1>3, DistInvariance, PTL DEF DistSpec

-----------------------------------------------------------------------------
(* What is in a channel and in a list.                                     *)

LEMMA ElementsAppend ==
    ASSUME NEW S, NEW s \in Seq(S), NEW e \in S
    PROVE  ToSet(Append(s, e)) = ToSet(s) \cup {e}
<1>1. /\ DOMAIN s = 1 .. Len(s) /\ Len(s) \in Nat
      /\ DOMAIN Append(s, e) = 1 .. (Len(s) + 1)
      /\ \A i \in 1 .. Len(s) : Append(s, e)[i] = s[i]
      /\ Append(s, e)[Len(s) + 1] = e
  BY AppendProperties
<1>2. \A i \in 1 .. (Len(s) + 1) : i \in 1 .. Len(s) \/ i = Len(s) + 1
  BY <1>1
<1>3. (1 .. Len(s)) \subseteq 1 .. (Len(s) + 1) /\ Len(s) + 1 \in 1 .. (Len(s) + 1)
  BY <1>1
<1>4. \A x : x \in ToSet(Append(s, e)) <=> x \in ToSet(s) \cup {e}
  BY <1>1, <1>2, <1>3 DEF ToSet
<1>5. QED
  BY <1>4

LEMMA ElementsTail ==
    ASSUME NEW S, NEW s \in Seq(S), s # <<>>
    PROVE  /\ ToSet(s) = {Head(s)} \cup ToSet(Tail(s))
           /\ Head(s) \in S /\ Tail(s) \in Seq(S)
<1>1. /\ Head(s) = s[1] /\ DOMAIN s = 1 .. Len(s) /\ Len(s) \in Nat \ {0}
      /\ DOMAIN Tail(s) = 1 .. (Len(s) - 1)
      /\ \A i \in 1 .. (Len(s) - 1) : Tail(s)[i] = s[i + 1]
      /\ Head(s) \in S /\ Tail(s) \in Seq(S)
  OBVIOUS
<1>2. \A i \in 1 .. Len(s) : i = 1 \/ (i - 1 \in 1 .. (Len(s) - 1) /\ (i - 1) + 1 = i)
  BY <1>1
<1>3. 1 \in 1 .. Len(s) /\ \A i \in 1 .. (Len(s) - 1) : i + 1 \in 1 .. Len(s)
  BY <1>1
<1>4. \A x : x \in ToSet(s) <=> x \in {Head(s)} \cup ToSet(Tail(s))
  <2>1. ASSUME NEW x, x \in ToSet(s)
        PROVE  x \in {Head(s)} \cup ToSet(Tail(s))
    <3>1. PICK i \in 1 .. Len(s) : s[i] = x
      BY <1>1, <2>1 DEF ToSet
    <3>2. i = 1 \/ (i - 1 \in 1 .. (Len(s) - 1) /\ Tail(s)[i - 1] = x)
      BY <1>1, <1>2, <3>1
    <3>3. QED
      BY <1>1, <3>1, <3>2 DEF ToSet
  <2>2. ASSUME NEW x, x \in {Head(s)} \cup ToSet(Tail(s))
        PROVE  x \in ToSet(s)
    BY <1>1, <1>3, <2>2 DEF ToSet
  <2>3. QED
    BY <2>1, <2>2
<1>5. QED
  BY <1>1, <1>4

LEMMA ElementsConcat ==
    ASSUME NEW S, NEW s \in Seq(S), NEW t \in Seq(S)
    PROVE  ToSet(s \o t) = ToSet(s) \cup ToSet(t)
<1>1. /\ Len(s) \in Nat /\ Len(t) \in Nat /\ DOMAIN s = 1 .. Len(s) /\ DOMAIN t = 1 .. Len(t)
      /\ s \o t \in Seq(S) /\ DOMAIN (s \o t) = 1 .. (Len(s) + Len(t))
      /\ \A i \in 1 .. (Len(s) + Len(t)) :
            (s \o t)[i] = IF i <= Len(s) THEN s[i] ELSE t[i - Len(s)]
  OBVIOUS
<1>2. ASSUME NEW i \in 1 .. (Len(s) + Len(t))
      PROVE  \/ (i \in 1 .. Len(s) /\ (s \o t)[i] = s[i])
             \/ (i - Len(s) \in 1 .. Len(t) /\ (s \o t)[i] = t[i - Len(s)])
  BY <1>1
<1>3. ASSUME NEW i \in 1 .. Len(s)
      PROVE  i \in 1 .. (Len(s) + Len(t)) /\ (s \o t)[i] = s[i]
  BY <1>1
<1>4. ASSUME NEW i \in 1 .. Len(t)
      PROVE  i + Len(s) \in 1 .. (Len(s) + Len(t)) /\ (s \o t)[i + Len(s)] = t[i]
  BY <1>1
<1>5. ASSUME NEW x
      PROVE  x \in ToSet(s \o t) <=> x \in ToSet(s) \cup ToSet(t)
  <2>1. ASSUME x \in ToSet(s \o t)
        PROVE  x \in ToSet(s) \cup ToSet(t)
    <3>1. PICK i \in 1 .. (Len(s) + Len(t)) : (s \o t)[i] = x
      BY <1>1, <2>1 DEF ToSet
    <3>2. QED
      BY <1>1, <1>2, <3>1 DEF ToSet
  <2>2. ASSUME x \in ToSet(s)
        PROVE  x \in ToSet(s \o t)
    BY <1>1, <1>3, <2>2 DEF ToSet
  <2>3. ASSUME x \in ToSet(t)
        PROVE  x \in ToSet(s \o t)
    <3>1. PICK i \in 1 .. Len(t) : t[i] = x
      BY <1>1, <2>3 DEF ToSet
    <3>2. QED
      BY <1>1, <1>4, <3>1 DEF ToSet
  <2>4. QED
    BY <2>1, <2>2, <2>3
<1>6. QED
  BY <1>5

LEMMA ElementsPicked ==
    ASSUME NEW S, NEW s \in Seq(S), NEW P \in SUBSET DOMAIN s
    PROVE  ToSet(Picked(s, P)) = {s[i] : i \in P}
<1>1. \A x : x \in ToSet(Picked(s, P)) <=> x \in {s[i] : i \in P}
  BY PickedFacts DEF ToSet, InSeq
<1>2. QED
  BY <1>1

LEMMA ElementsType ==
    ASSUME NEW S, NEW s \in Seq(S)
    PROVE  ToSet(s) \subseteq S /\ (s = <<>> => ToSet(s) = {})
BY DEF ToSet

-----------------------------------------------------------------------------
(* What is on its way from s to r, and what p lists.                       *)

OnWay(s, r) == ToSet(net[s][r])
Listed(p)   == ToSet(files[p])

\* Sending, reading and closing, in a network of the datagrams of Distribution.
LEMMA SentMessages ==
    ASSUME NEW n \in NetType(Datagrams), NEW p \in Hosts, NEW to, NEW m \in Datagrams,
           NEW r \in Hosts, NEW s \in Hosts
    PROVE  ToSet(Sent(n, p, to, m)[s][r]) =
               ToSet(n[s][r]) \cup (IF s = p /\ r \in to \ {p} /\ Open(r) THEN {m} ELSE {})
<1>1. n[s][r] \in Seq(Datagrams)
  BY DEF NetType
<1>2. ToSet(Append(n[s][r], m)) = ToSet(n[s][r]) \cup {m}
  BY <1>1, ElementsAppend
<1>3. Sent(n, p, to, m)[s][r] =
          IF s = p /\ r \in to \ {p} /\ Open(r) THEN Append(n[s][r], m) ELSE n[s][r]
  BY SentChannel
<1>4. CASE s = p /\ r \in to \ {p} /\ Open(r)
  BY <1>2, <1>3, <1>4
<1>5. CASE ~(s = p /\ r \in to \ {p} /\ Open(r))
  BY <1>3, <1>5
<1>6. QED
  BY <1>4, <1>5

LEMMA TakenMessages ==
    ASSUME NEW n \in NetType(Datagrams), NEW p \in Hosts, NEW q \in Hosts, n[q][p] # <<>>,
           NEW r \in Hosts, NEW s \in Hosts
    PROVE  /\ ToSet(Taken(n, q, p)[s][r]) \subseteq ToSet(n[s][r])
           /\ ToSet(n[s][r]) \subseteq
                 ToSet(Taken(n, q, p)[s][r]) \cup (IF s = q /\ r = p THEN {Head(n[q][p])} ELSE {})
           /\ Head(n[q][p]) \in ToSet(n[q][p])
<1>1. n[s][r] \in Seq(Datagrams) /\ n[q][p] \in Seq(Datagrams)
  BY DEF NetType
<1>2. QED
  BY <1>1, TakenChannel, ElementsTail

LEMMA ClosedMessages ==
    ASSUME NEW n \in NetType(Datagrams), NEW p \in Hosts, NEW r \in Hosts, NEW s \in Hosts
    PROVE  ToSet(Closed(n, p)[s][r]) = IF r = p THEN {} ELSE ToSet(n[s][r])
<1>1. <<>> \in Seq(Datagrams)
  BY EmptyFacts
<1>2. ToSet(<<>>) = {}
  BY <1>1, ElementsType
<1>3. Closed(n, p)[s][r] = IF r = p THEN <<>> ELSE n[s][r]
  BY ClosedChannel
<1>4. QED
  BY <1>2, <1>3

\* Has in terms of the entries.
LEMMA ListedFacts ==
    ASSUME FilesInv, NEW p \in Hosts
    PROVE  /\ Listed(p) \subseteq Entries /\ files[p] \in Seq(Entries)
           /\ \A f : Has(p, f) <=> \E e \in Listed(p) : e.file = f
<1>1. files[p] \in Seq(Entries)
  BY DEF FilesInv
<1>2. QED
  BY <1>1, ElementsType DEF Listed, Has, ToSet

\* What is stored is one entry more.
LEMMA StoreElements ==
    ASSUME DistInv, NEW p \in Hosts, NEW f \in Files, StoreAndList(p, f)
    PROVE  /\ \A q \in Hosts : Listed(q)' = IF q = p THEN Listed(p) \cup {File(f)} ELSE Listed(q)
           /\ \A q \in Hosts : disk'[q] \subseteq disk[q] \cup {f} /\ disk[q] \subseteq disk'[q] \cup {f}
           /\ \A q \in Hosts \ {p} : disk'[q] = disk[q]
           /\ f \in disk'[p] \/ <<p, f>> \in unwritten'
<1>1. files[p] \in Seq(Entries) /\ File(f) \in Entries
  BY NewEntry DEF DistInv, FilesInv
<1>2. ToSet(Append(files[p], File(f))) = Listed(p) \cup {File(f)}
  BY <1>1, ElementsAppend DEF Listed
<1>3. files' = [files EXCEPT ![p] = Append(@, File(f))]
  BY StoreFacts
<1>4. \A q \in Hosts : Listed(q)' = IF q = p THEN Listed(p) \cup {File(f)} ELSE Listed(q)
  BY <1>2, <1>3 DEF Listed, DistInv, FilesInv
<1>5. \/ disk' = [disk EXCEPT ![p] = @ \cup {f}] /\ unwritten' = unwritten
      \/ /\ \E rest \in {disk[p], disk[p] \ {f}} : disk' = [disk EXCEPT ![p] = rest]
         /\ unwritten' = unwritten \cup {<<p, f>>}
  BY StoreFacts
<1>6. disk \in [Hosts -> SUBSET Files]
  BY DEF DistInv, FilesInv
<1>7. QED
  BY <1>4, <1>5, <1>6

-----------------------------------------------------------------------------
(* What the worker's operations on a list do to its entries.               *)

LEMMA AgedElements ==
    ASSUME NEW list \in Seq(Entries), NEW diff \in 0 .. MaxGap
    PROVE  /\ \A e \in ToSet(Aged(list, diff)) : \E d \in ToSet(list) :
                 /\ d.file = e.file /\ d.local = e.local /\ d.marked = e.marked
                 /\ e.ttl <= 0 => d.ttl <= 0 \/ diff > 0
           /\ \A d \in ToSet(list) : \E e \in ToSet(Aged(list, diff)) :
                 e.file = d.file /\ e.local = d.local
<1>1. DOMAIN Aged(list, diff) = DOMAIN list
  BY DEF Aged
<1>2. ASSUME NEW i \in DOMAIN list
      PROVE  LET d == list[i]
                 e == Aged(list, diff)[i]
             IN  /\ d.file = e.file /\ d.local = e.local /\ d.marked = e.marked
                 /\ e.ttl <= 0 => d.ttl <= 0 \/ diff > 0
  <2> DEFINE d == list[i]
  <2>1. d \in Entries
    OBVIOUS
  <2>2. Aged(list, diff)[i] = [d EXCEPT !.ttl = IF @ > 0 THEN @ - Second * diff ELSE @]
    BY DEF Aged
  <2>3. d.ttl \in Int /\ diff \in Nat /\ Second = 2
    <3>1. d.ttl \in Int
      BY <2>1, TimesFacts DEF Entries
    <3>2. QED
      BY <3>1 DEF Second
  <2> HIDE DEF d
  <2>4. QED
    BY <2>1, <2>2, <2>3 DEF Entries, d
<1>3. QED
  BY <1>1, <1>2 DEF ToSet

\* Marked changes nothing or one entry with the name, which keeps it.
LEMMA MarkedPlace ==
    ASSUME NEW list \in Seq(Entries), NEW f
    PROVE  \/ Marked(list, f) = list
           \/ \E k \in DOMAIN list :
                 /\ list[k].file = f
                 /\ Marked(list, f) = [list EXCEPT ![k].marked = TRUE, ![k].ttl = MarkedTTL]
<1> DEFINE found == {i \in DOMAIN list : list[i].file = f}
<1>1. Len(list) \in Nat /\ DOMAIN list = 1 .. Len(list)
  OBVIOUS
<1>2. CASE found = {}
  BY <1>2 DEF Marked
<1>3. CASE found # {}
  <2>1. \E i \in found : \A j \in found : i <= j
    <3>1. found \in SUBSET (1 .. Len(list))
      BY <1>1
    <3> HIDE DEF found
    <3>2. QED
      BY <1>1, <1>3, <3>1, LeastPlace
  <2>2. Min(found) \in found
    BY <2>1 DEF Min
  <2>3. QED
    BY <1>3, <2>2 DEF Marked
<1>4. QED
  BY <1>2, <1>3

LEMMA MarkedNames ==
    ASSUME NEW list \in Seq(Entries), NEW f
    PROVE  /\ DOMAIN Marked(list, f) = DOMAIN list
           /\ \A i \in DOMAIN list : Marked(list, f)[i].file = list[i].file
<1>1. \A i \in DOMAIN list : list[i] \in Entries
  OBVIOUS
<1>2. ASSUME NEW k \in DOMAIN list,
             Marked(list, f) = [list EXCEPT ![k].marked = TRUE, ![k].ttl = MarkedTTL]
      PROVE  /\ DOMAIN Marked(list, f) = DOMAIN list
             /\ \A i \in DOMAIN list : Marked(list, f)[i].file = list[i].file
  BY <1>1, <1>2 DEF Entries
<1>3. CASE Marked(list, f) = list
  BY <1>3
<1>4. QED
  <2>1. \/ Marked(list, f) = list
        \/ \E k \in DOMAIN list :
              /\ list[k].file = f
              /\ Marked(list, f) = [list EXCEPT ![k].marked = TRUE, ![k].ttl = MarkedTTL]
    BY MarkedPlace
  <2>2. QED
    BY <1>2, <1>3, <2>1

LEMMA MarkedElements ==
    ASSUME NEW list \in Seq(Entries), NEW f
    PROVE  /\ \A e \in ToSet(Marked(list, f)) :
                 e \in ToSet(list) \/ (e.file = f /\ \E d \in ToSet(list) : d.file = f)
           /\ \A e \in ToSet(list) : e.file # f => e \in ToSet(Marked(list, f))
<1>1. CASE Marked(list, f) = list
  BY <1>1
<1>2. ASSUME NEW k \in DOMAIN list, list[k].file = f,
             Marked(list, f) = [list EXCEPT ![k].marked = TRUE, ![k].ttl = MarkedTTL]
      PROVE  /\ \A e \in ToSet(Marked(list, f)) :
                   e \in ToSet(list) \/ (e.file = f /\ \E d \in ToSet(list) : d.file = f)
             /\ \A e \in ToSet(list) : e.file # f => e \in ToSet(Marked(list, f))
  <2>1. /\ DOMAIN Marked(list, f) = DOMAIN list
        /\ \A i \in DOMAIN list : i # k => Marked(list, f)[i] = list[i]
    BY <1>2
  <2>2. Marked(list, f)[k].file = f
    <3>1. Marked(list, f)[k].file = list[k].file
      BY MarkedNames
    <3>2. QED
      BY <1>2, <3>1
  <2>3. ASSUME NEW e \in ToSet(Marked(list, f))
        PROVE  e \in ToSet(list) \/ (e.file = f /\ \E d \in ToSet(list) : d.file = f)
    <3>1. PICK i \in DOMAIN list : e = Marked(list, f)[i]
      BY <2>1, <2>3 DEF ToSet
    <3>2. list[i] \in ToSet(list) /\ list[k] \in ToSet(list)
      BY DEF ToSet
    <3>3. QED
      BY <1>2, <2>1, <2>2, <3>1, <3>2
  <2>4. ASSUME NEW e \in ToSet(list), e.file # f
        PROVE  e \in ToSet(Marked(list, f))
    BY <1>2, <2>1, <2>4 DEF ToSet
  <2>5. QED
    BY <2>3, <2>4
<1>3. QED
  BY <1>1, <1>2, MarkedPlace

LEMMA PlacedElements ==
    ASSUME NEW p \in Hosts, files[p] \in Seq(Entries)
    PROVE  /\ \A e \in ToSet(Placed(p)) :
                 /\ \E d \in Listed(p) : d.file = e.file /\ d.marked = e.marked
                 /\ e.local <=> Home(p, e.file) = p
                 /\ ~e.local => e.ttl = FullTTL
           /\ \A d \in Listed(p) : \E e \in ToSet(Placed(p)) :
                 e.file = d.file /\ (e.local <=> Home(p, d.file) = p)
<1>1. DOMAIN Placed(p) = DOMAIN files[p]
  BY DEF Placed
<1>2. ASSUME NEW i \in DOMAIN files[p]
      PROVE  LET d == files[p][i]
                 e == Placed(p)[i]
             IN  /\ d.file = e.file /\ d.marked = e.marked
                 /\ e.local <=> Home(p, e.file) = p
                 /\ ~e.local => e.ttl = FullTTL
  <2> DEFINE d == files[p][i]
  <2>1. d \in Entries
    OBVIOUS
  <2>2. Placed(p)[i] = IF Home(p, d.file) = p THEN [d EXCEPT !.local = TRUE]
                       ELSE [d EXCEPT !.local = FALSE, !.ttl = FullTTL]
    BY DEF Placed
  <2> HIDE DEF d
  <2>3. QED
    BY <2>1, <2>2 DEF Entries, d
<1>3. QED
  BY <1>1, <1>2 DEF ToSet, Listed

-----------------------------------------------------------------------------
(* What a step puts into the channels.                                     *)

RequestMsg(f) == [type |-> "request", file |-> f]
InitMsg(t)    == [type |-> "init", file |-> t.file, port |-> t.port]

LEMMA MemberMessages ==
    ASSUME NetInv(Datagrams), [Next]_vars, NEW r \in Hosts, NEW s \in Hosts
    PROVE  OnWay(s, r)' \subseteq OnWay(s, r) \cup Messages
<1>1. net \in NetType(Datagrams) /\ NewMsg \in Datagrams /\ LeaveMsg \in Datagrams
  BY DEF NetInv, Datagrams, Messages
<1>2. ASSUME NEW n \in NetType(Datagrams), NEW p \in Hosts, NEW to, NEW m \in Messages
      PROVE  ToSet(Sent(n, p, to, m)[s][r]) \subseteq ToSet(n[s][r]) \cup Messages
  <2>1. m \in Datagrams
    BY DEF Datagrams
  <2>2. QED
    BY <2>1, SentMessages
<1>3. ASSUME NEW p \in Hosts, Main(p)
      PROVE  OnWay(s, r)' \subseteq OnWay(s, r) \cup Messages
  <2>1. net' = net \/ net' = Closed(net, p)
    BY <1>3 DEF Main, Start, Stop, Crash, Ping
  <2>2. ToSet(Closed(net, p)[s][r]) \subseteq ToSet(net[s][r])
    BY <1>1, ClosedMessages
  <2>3. QED
    BY <2>1, <2>2 DEF OnWay
<1>4. ASSUME NEW p \in Hosts, Announce(p) \/ SendPing(p) \/ Timeout(p) \/ Leave(p)
      PROVE  OnWay(s, r)' \subseteq OnWay(s, r) \cup Messages
  <2>1. PICK n : (n = net \/ \E to : \E m \in Messages : n = Sent(net, p, to, m))
                 /\ (net' = n \/ net' = Closed(n, p))
    BY <1>1, <1>4 DEF Announce, SendPing, Timeout, Leave, Messages
  <2>2. n \in NetType(Datagrams)
    BY <1>1, <2>1, SentFacts DEF Datagrams
  <2>3. ToSet(n[s][r]) \subseteq ToSet(net[s][r]) \cup Messages
    BY <1>1, <1>2, <2>1
  <2>4. ToSet(Closed(n, p)[s][r]) \subseteq ToSet(n[s][r])
    BY <2>2, ClosedMessages
  <2>5. QED
    BY <2>1, <2>3, <2>4 DEF OnWay
<1>5. ASSUME NEW p \in Hosts, NEW q \in Hosts,
             ReceiveNew(p, q) \/ ReceiveLeave(p, q) \/ Lose(q, p)
      PROVE  OnWay(s, r)' \subseteq OnWay(s, r) \cup Messages
  <2>1. /\ net[q][p] # <<>>
        /\ net' = Taken(net, q, p) \/ net' = Sent(Taken(net, q, p), p, {q}, NewMsg)
    BY <1>5 DEF ReceiveNew, ReceiveLeave, Lose, Incoming
  <2>2. /\ Taken(net, q, p) \in NetType(Datagrams)
        /\ ToSet(Taken(net, q, p)[s][r]) \subseteq ToSet(net[s][r])
    <3>1. Silent(net)
      BY DEF NetInv
    <3>2. QED
      BY <1>1, <2>1, <3>1, TakenFacts, TakenMessages
  <2>3. NewMsg \in Messages
    BY DEF Messages
  <2>4. ToSet(Sent(Taken(net, q, p), p, {q}, NewMsg)[s][r])
          \subseteq ToSet(Taken(net, q, p)[s][r]) \cup Messages
    BY <1>2, <2>2, <2>3
  <2>5. QED
    BY <2>1, <2>2, <2>4 DEF OnWay
<1>6. CASE UNCHANGED vars
  BY <1>6 DEF vars, OnWay
<1>7. QED
  BY <1>3, <1>4, <1>5, <1>6 DEF Next, Worker

\* A request for each of p's files with that home.
LEMMA RequestsElements ==
    ASSUME FilesInv, NEW p \in Hosts, NEW q \in Hosts
    PROVE  /\ ToSet(RequestsFor(p, q)) \subseteq {RequestMsg(d.file) : d \in Listed(p)}
           /\ \A d \in Listed(p) : Home(p, d.file) = q /\ p # q =>
                 RequestMsg(d.file) \in ToSet(RequestsFor(p, q))
<1> DEFINE places == IF p = q THEN {}
                     ELSE {i \in DOMAIN files[p] : Home(p, files[p][i].file) = q}
<1>1. files[p] \in Seq(Entries)
  BY DEF FilesInv
<1>2. \A i \in DOMAIN files[p] : files[p][i] \in Entries
  BY <1>1
<1>3. Requests(p) \in [DOMAIN files[p] -> RequestMsgs]
  BY <1>2 DEF Requests, RequestMsgs, Entries
<1>4. Requests(p) \in Seq(RequestMsgs) /\ DOMAIN Requests(p) = DOMAIN files[p]
  <2>1. Len(files[p]) \in Nat /\ DOMAIN files[p] = 1 .. Len(files[p])
    BY <1>1
  <2>2. Requests(p) \in [1 .. Len(files[p]) -> RequestMsgs]
    BY <1>3, <2>1
  <2>3. QED
    BY <1>3, <2>1, <2>2
<1>5. \A i \in DOMAIN files[p] : Requests(p)[i] = RequestMsg(files[p][i].file)
  BY DEF Requests, RequestMsg
<1>6. places \in SUBSET DOMAIN Requests(p) /\ RequestsFor(p, q) = Picked(Requests(p), places)
  BY <1>4 DEF RequestsFor
<1>7. places \subseteq DOMAIN files[p]
      /\ \A i \in DOMAIN files[p] : Home(p, files[p][i].file) = q /\ p # q => i \in places
  OBVIOUS
<1> HIDE DEF places
<1>8. ToSet(RequestsFor(p, q)) = {Requests(p)[i] : i \in places}
  BY <1>4, <1>6, ElementsPicked
<1>9. QED
  BY <1>5, <1>7, <1>8 DEF Listed, ToSet

\* What HandleFilesLocality and a datagram about files leave in the channels.
LEMMA LocalityMessages ==
    ASSUME DistInv, NEW p \in Hosts, HandleFilesLocality(p), NEW r \in Hosts, NEW s \in Hosts
    PROVE  OnWay(s, r)' = OnWay(s, r) \cup
               (IF update[p] /\ s = p /\ Open(r) THEN ToSet(RequestsFor(p, r)) ELSE {})
<1>1. net[s][r] \in Seq(Datagrams)
  BY DEF DistInv, NetInv, NetType
<1>2. RequestsFor(p, r) \in Seq(Datagrams)
  <2>1. files[p] \in Seq(Entries)
    BY DEF DistInv, FilesInv
  <2>2. RequestsFor(p, r) \in Seq(RequestMsgs) /\ RequestMsgs \subseteq Datagrams
    BY <2>1, RequestsList DEF Datagrams
  <2>3. QED
    BY <2>2
<1>3. ToSet(net[s][r] \o RequestsFor(p, r)) = ToSet(net[s][r]) \cup ToSet(RequestsFor(p, r))
  BY <1>1, <1>2, ElementsConcat
<1>4. net'[s][r] = IF update[p] /\ s = p /\ Open(r)
                   THEN net[s][r] \o RequestsFor(p, r) ELSE net[s][r]
  BY LocalityChannel
<1>5. CASE update[p] /\ s = p /\ Open(r)
  BY <1>3, <1>4, <1>5 DEF OnWay
<1>6. CASE ~(update[p] /\ s = p /\ Open(r))
  BY <1>4, <1>6 DEF OnWay
<1>7. QED
  BY <1>5, <1>6

\* The first datagram of q is taken by p.
LEMMA ReadMessages ==
    ASSUME DistInv, NEW p \in Hosts, NEW q \in Hosts, net[q][p] # <<>>,
           net' = Taken(net, q, p), NEW r \in Hosts, NEW s \in Hosts
    PROVE  /\ OnWay(s, r)' \subseteq OnWay(s, r)
           /\ OnWay(s, r) \subseteq
                 OnWay(s, r)' \cup (IF s = q /\ r = p THEN {Head(net[q][p])} ELSE {})
           /\ Head(net[q][p]) \in OnWay(q, p)
<1>1. net \in NetType(Datagrams)
  BY DEF DistInv, NetInv
<1>2. QED
  BY <1>1, TakenMessages DEF OnWay

-----------------------------------------------------------------------------
(* Where files, datagrams and transfers come from.                         *)

Rightful(m) ==
    /\ m.type \in {"request", "init"} => m.file \in added
    /\ m.type = "remove" => m.file \in removed

EntriesOrigin ==
    \A p \in Hosts : \A e \in Listed(p) : e.file \in added /\ (e.marked => e.file \in removed)
DisksOrigin ==
    \A p \in Hosts : disk[p] \subseteq added /\ (toRemove[p] # NoFile => toRemove[p] \in removed)
TransfersOrigin == \A p \in Hosts : \A t \in inputs[p] \cup outputs[p] : t.file \in added
DatagramsOrigin == \A s, r \in Hosts : \A m \in OnWay(s, r) : Rightful(m)

\* All that is listed, stored, sent and transferred was added by a user, and
\* what is marked, or is to be, a user asked to remove.
OriginInv ==
    added \subseteq Files /\ EntriesOrigin /\ DisksOrigin /\ TransfersOrigin /\ DatagramsOrigin

LEMMA DatagramsKept ==
    ASSUME OriginInv, added \subseteq added', removed \subseteq removed',
           \A s, r \in Hosts : \A m \in OnWay(s, r)' :
               m \in OnWay(s, r) \/ m.type \in {"new", "leave"} \/ Rightful(m)
    PROVE  DatagramsOrigin'
<1>1. ASSUME NEW m, Rightful(m) \/ m.type \in {"new", "leave"}
      PROVE  Rightful(m)'
  BY <1>1 DEF Rightful
<1>2. QED
  BY <1>1 DEF OriginInv, DatagramsOrigin

\* A step of Membership that stops nobody.
LEMMA MemberOrigin ==
    ASSUME DistInv, OriginInv, [Next]_vars,
           UNCHANGED <<files, disk, toRemove, inputs, outputs, added, removed>>
    PROVE  OriginInv'
<1>1. \A m \in Messages : m.type \in {"new", "leave"}
  BY DEF Messages, NewMsg, LeaveMsg
<1>2. DatagramsOrigin'
  BY <1>1, MemberMessages, DatagramsKept DEF DistInv
<1>3. QED
  BY <1>2 DEF OriginInv, EntriesOrigin, DisksOrigin, TransfersOrigin, Listed

LEMMA UsersOrigin ==
    ASSUME DistInv, OriginInv, NEW p \in Hosts, NEW f \in Files, AddFile(p, f) \/ RemoveFile(p, f)
    PROVE  OriginInv'
<1>1. DatagramsOrigin'
  <2>1. net' = net /\ added \subseteq added' /\ removed \subseteq removed'
    BY DEF AddFile, RemoveFile, memberVars, vars
  <2>2. QED
    BY <2>1, DatagramsKept DEF OnWay
<1>2. CASE AddFile(p, f)
  <2>1. StoreAndList(p, f)
    BY <1>2 DEF AddFile
  <2>2. /\ \A q \in Hosts : Listed(q)' = IF q = p THEN Listed(p) \cup {File(f)} ELSE Listed(q)
        /\ \A q \in Hosts : disk'[q] \subseteq disk[q] \cup {f}
    BY <2>1, StoreElements
  <2>3. added' = added \cup {f} /\ removed' = removed /\ toRemove' = toRemove
    BY <1>2 DEF AddFile
  <2>4. EntriesOrigin'
    BY <2>2, <2>3 DEF OriginInv, EntriesOrigin, File
  <2>5. DisksOrigin'
    BY <2>2, <2>3 DEF OriginInv, DisksOrigin
  <2>6. QED
    BY <1>1, <1>2, <2>4, <2>5 DEF AddFile, OriginInv, TransfersOrigin
<1>3. CASE RemoveFile(p, f)
  <2>1. EntriesOrigin' /\ TransfersOrigin'
    BY <1>3 DEF RemoveFile, OriginInv, EntriesOrigin, TransfersOrigin, Listed
  <2>2. DisksOrigin'
    BY <1>3 DEF RemoveFile, OriginInv, DisksOrigin, DistInv, FilesInv
  <2>3. QED
    BY <1>1, <1>3, <2>1, <2>2 DEF RemoveFile, OriginInv
<1>4. QED
  BY <1>2, <1>3

LEMMA StopFilesOrigin ==
    ASSUME DistInv, OriginInv, NEW p \in Hosts, StopFiles(p)
    PROVE  OriginInv'
<1>1. [Next]_vars
  BY StopFilesStep
<1>2. \A m \in Messages : m.type \in {"new", "leave"}
  BY DEF Messages, NewMsg, LeaveMsg
<1>3. added' = added /\ removed' = removed
  BY DEF StopFiles
<1>4. DatagramsOrigin'
  BY <1>1, <1>2, <1>3, MemberMessages, DatagramsKept DEF DistInv
<1>5. \A q \in Hosts : Listed(q)' \subseteq Listed(q)
  <2>1. ToSet(<<>>) = {}
    BY DEF ToSet
  <2>2. QED
    BY <2>1 DEF StopFiles, Listed, DistInv, FilesInv
<1>6. EntriesOrigin'
  BY <1>3, <1>5 DEF OriginInv, EntriesOrigin
<1>7. DisksOrigin' /\ TransfersOrigin'
  BY <1>3 DEF StopFiles, OriginInv, DisksOrigin, TransfersOrigin, DistInv, FilesInv
<1>8. QED
  BY <1>3, <1>4, <1>6, <1>7 DEF OriginInv

LEMMA LocalityOrigin ==
    ASSUME DistInv, OriginInv, NEW p \in Hosts, HandleFilesLocality(p)
    PROVE  OriginInv'
<1>1. UNCHANGED <<disk, toRemove, inputs, outputs, added, removed>>
  BY DEF HandleFilesLocality, history
<1>2. files[p] \in Seq(Entries) /\ FilesInv
  BY DEF DistInv, FilesInv
<1>3. EntriesOrigin'
  <2>1. \A q \in Hosts : Listed(q)' = Listed(q) \/ (q = p /\ Listed(q)' = ToSet(Placed(p)))
    BY DEF HandleFilesLocality, Listed, DistInv, FilesInv
  <2>2. ASSUME NEW q \in Hosts, NEW e \in Listed(q)'
        PROVE  \E d \in Listed(q) : d.file = e.file /\ d.marked = e.marked
    BY <1>2, <2>1, PlacedElements
  <2>3. QED
    BY <1>1, <2>2 DEF OriginInv, EntriesOrigin
<1>4. DatagramsOrigin'
  <2>1. ASSUME NEW d \in Listed(p)
        PROVE  Rightful(RequestMsg(d.file))
    BY DEF OriginInv, EntriesOrigin, Rightful, RequestMsg
  <2>2. \A s, r \in Hosts : \A m \in OnWay(s, r)' :
           m \in OnWay(s, r) \/ \E d \in Listed(p) : m = RequestMsg(d.file)
    BY <1>2, LocalityMessages, RequestsElements
  <2>3. QED
    BY <1>1, <2>1, <2>2, DatagramsKept
<1>5. QED
  BY <1>1, <1>3, <1>4 DEF OriginInv, DisksOrigin, TransfersOrigin

\* What HandleFiles makes of the list and the directory: entries come from
\* entries and have not expired, and a file is deleted if one of its has.
LEMMA HandledElements ==
    ASSUME DistInv, NEW p \in Hosts, NEW diff \in 0 .. MaxGap, HandleFiles(p, diff)
    PROVE  /\ \A q \in Hosts \ {p} : Listed(q)' = Listed(q) /\ disk'[q] = disk[q]
           /\ disk'[p] \subseteq disk[p]
           /\ \A e \in Listed(p)' :
                 /\ ~Expired(p, e)
                 /\ \E d \in Listed(p) :
                       /\ d.file = e.file
                       /\ e.file # toRemove[p] =>
                             /\ d.local = e.local /\ d.marked = e.marked
                             /\ e.ttl <= 0 => d.ttl <= 0 \/ diff > 0
           /\ \A f \in Files \ {toRemove[p]} :
                 \/ /\ f \in disk[p] => f \in disk'[p]
                    /\ \A d \in Listed(p) : d.file = f =>
                          \E e \in Listed(p)' : e.file = f /\ e.local = d.local
                 \/ \E d \in Listed(p) :
                       /\ d.file = f /\ (d.ttl <= 0 \/ diff > 0)
                       /\ ~d.local \/ d.marked
                       /\ ~IsFileTransfer(p, f)
<1> DEFINE aged == Aged(files[p], diff)
           asked == IF toRemove[p] = NoFile THEN aged ELSE Marked(aged, toRemove[p])
           gone == {i \in DOMAIN asked : Expired(p, asked[i])}
           all == ToSet(asked)
           old == {e \in all : Expired(p, e)}
<1>1. /\ files[p] \in Seq(Entries) /\ files \in [Hosts -> Seq(Entries)]
      /\ disk \in [Hosts -> SUBSET Files]
  BY DEF DistInv, FilesInv
<1>2. aged \in Seq(Entries) /\ asked \in Seq(Entries)
  BY <1>1, AgedList, MarkedList
<1>3. ASSUME NEW e \in all
      PROVE  \E d \in Listed(p) :
                /\ d.file = e.file
                /\ e.file # toRemove[p] => /\ d.local = e.local /\ d.marked = e.marked
                                           /\ e.ttl <= 0 => d.ttl <= 0 \/ diff > 0
  <2>1. \/ e \in ToSet(aged)
        \/ e.file = toRemove[p] /\ \E d \in ToSet(aged) : d.file = toRemove[p]
    BY <1>2, MarkedElements
  <2> HIDE DEF aged
  <2>2. \A a \in ToSet(aged) : \E d \in Listed(p) :
           /\ d.file = a.file /\ d.local = a.local /\ d.marked = a.marked
           /\ a.ttl <= 0 => d.ttl <= 0 \/ diff > 0
    BY <1>1, AgedElements DEF Listed, aged
  <2>3. QED
    BY <2>1, <2>2
<1>4. ASSUME NEW d \in Listed(p), d.file # toRemove[p]
      PROVE  \E e \in all : e.file = d.file /\ e.local = d.local
  <2>1. PICK a \in ToSet(aged) : a.file = d.file /\ a.local = d.local
    BY <1>1, AgedElements DEF Listed
  <2> HIDE DEF aged
  <2>2. a \in all
    BY <1>2, <1>4, <2>1, MarkedElements
  <2>3. QED
    BY <2>1, <2>2
<1>5. /\ files' = [files EXCEPT ![p] = Picked(asked, DOMAIN asked \ gone)]
      /\ disk' = [disk EXCEPT ![p] = @ \ {asked[i].file : i \in gone}]
  BY DEF HandleFiles
<1> HIDE DEF aged, asked
<1>6. /\ \A e : (\E i \in gone : asked[i] = e) <=> e \in old
      /\ \A e : (\E i \in DOMAIN asked \ gone : asked[i] = e) <=> e \in all \ old
  BY DEF ToSet
<1>7. (DOMAIN asked \ gone) \in SUBSET DOMAIN asked
  OBVIOUS
<1>8. ToSet(Picked(asked, DOMAIN asked \ gone)) = {asked[i] : i \in DOMAIN asked \ gone}
  <2> HIDE DEF gone
  <2>1. QED
    BY <1>2, <1>7, ElementsPicked
<1>9. Listed(p)' = all \ old
  <2>1. Listed(p)' = {asked[i] : i \in DOMAIN asked \ gone}
    BY <1>1, <1>5, <1>8 DEF Listed
  <2> HIDE DEF gone, old, all
  <2>2. QED
    BY <1>6, <2>1
<1>10. disk'[p] = disk[p] \ {e.file : e \in old}
  <2> HIDE DEF gone, old, all
  <2>1. disk'[p] = disk[p] \ {asked[i].file : i \in gone}
    BY <1>1, <1>5
  <2>2. \A f : (\E i \in gone : asked[i].file = f) <=> (\E e \in old : e.file = f)
    BY <1>6
  <2>3. \A f : f \in {asked[i].file : i \in gone} <=> f \in {e.file : e \in old}
    BY <2>2
  <2>4. {asked[i].file : i \in gone} = {e.file : e \in old}
    BY <2>3
  <2>5. QED
    BY <2>1, <2>4
<1>11. \A q \in Hosts \ {p} : Listed(q)' = Listed(q) /\ disk'[q] = disk[q]
  BY <1>1, <1>5 DEF Listed
<1>12. old \subseteq all /\ \A e \in all : e \in old <=> Expired(p, e)
  OBVIOUS
<1> HIDE DEF gone, old, all
<1>13. ASSUME NEW f \in Files \ {toRemove[p]}
       PROVE  \/ /\ f \in disk[p] => f \in disk'[p]
                 /\ \A d \in Listed(p) : d.file = f =>
                       \E e \in Listed(p)' : e.file = f /\ e.local = d.local
              \/ \E d \in Listed(p) :
                    /\ d.file = f /\ (d.ttl <= 0 \/ diff > 0)
                    /\ ~d.local \/ d.marked
                    /\ ~IsFileTransfer(p, f)
  <2>1. CASE \E e \in old : e.file = f
    <3>1. PICK e \in old : e.file = f
      BY <2>1
    <3>2. e.ttl <= 0 /\ (~e.local \/ e.marked) /\ ~IsFileTransfer(p, f)
      BY <1>12, <3>1 DEF Expired
    <3>3. QED
      BY <1>3, <1>12, <3>1, <3>2
  <2>2. CASE ~\E e \in old : e.file = f
    BY <1>4, <1>9, <1>10, <2>2
  <2>3. QED
    BY <2>1, <2>2
<1>14. \A e \in Listed(p)' : e \in all /\ ~Expired(p, e)
  BY <1>9, <1>12
<1>15. QED
  BY <1>3, <1>10, <1>11, <1>13, <1>14

LEMMA HandleFilesOrigin ==
    ASSUME DistInv, OriginInv, NEW p \in Hosts, NEW diff \in 0 .. MaxGap, HandleFiles(p, diff)
    PROVE  OriginInv'
<1>1. UNCHANGED <<inputs, outputs, added, removed>>
  BY DEF HandleFiles, history
<1>2. EntriesOrigin'
  <2>1. ASSUME NEW q \in Hosts, NEW e \in Listed(q)'
        PROVE  \E d \in Listed(q) :
                  d.file = e.file /\ (d.marked = e.marked \/ (q = p /\ e.file = toRemove[p]))
    BY HandledElements
  <2>2. Listed(p) \subseteq Entries /\ NoFile \notin Files
    BY ListedFacts, FilesAssumption DEF DistInv
  <2>3. toRemove[p] \in Files => toRemove[p] \in removed
    BY <2>2 DEF OriginInv, DisksOrigin
  <2>4. \A d \in Listed(p) : d.file \in Files
    BY <2>2 DEF Entries
  <2>5. QED
    BY <1>1, <2>1, <2>3, <2>4 DEF OriginInv, EntriesOrigin
<1>3. DisksOrigin'
  <2>1. \A q \in Hosts : disk'[q] \subseteq disk[q]
    BY HandledElements
  <2>2. \A q \in Hosts : toRemove'[q] = toRemove[q] \/ toRemove'[q] = NoFile
    BY DEF HandleFiles, DistInv, FilesInv
  <2>3. QED
    BY <1>1, <2>1, <2>2 DEF OriginInv, DisksOrigin
<1>4. DatagramsOrigin'
  <2>1. CASE toRemove[p] = NoFile
    BY <1>1, <2>1, DatagramsKept DEF HandleFiles, OnWay
  <2>2. CASE toRemove[p] # NoFile
    <3> DEFINE m == [type |-> "remove", file |-> toRemove[p]]
               to == SamePort(p) \cup ToSet(nodes[p])
    <3>1. m \in Datagrams /\ Rightful(m) /\ net \in NetType(Datagrams)
      BY <2>2 DEF DistInv, NetInv, FilesInv, Datagrams, RemoveMsgs, OriginInv, DisksOrigin, Rightful
    <3>2. net' = Sent(net, p, to, m)
      BY <2>2 DEF HandleFiles
    <3> HIDE DEF m, to
    <3>3. \A s, r \in Hosts : OnWay(s, r)' \subseteq OnWay(s, r) \cup {m}
      BY <3>1, <3>2, SentMessages DEF OnWay
    <3>4. QED
      BY <1>1, <3>1, <3>3, DatagramsKept
  <2>3. QED
    BY <2>1, <2>2
<1>5. QED
  BY <1>1, <1>2, <1>3, <1>4 DEF OriginInv, TransfersOrigin

LEMMA FileMsgOrigin ==
    ASSUME DistInv, OriginInv, NEW p \in Hosts, NEW q \in Hosts,
           ReceiveRequest(p, q) \/ ReceiveInit(p, q) \/ ReceiveRemove(p, q)
    PROVE  OriginInv'
<1> DEFINE m == Head(net[q][p])
<1>1. /\ net[q][p] # <<>> /\ net' = Taken(net, q, p)
      /\ m.type \in {"request", "init", "remove"}
      /\ ReceiveRequest(p, q) => m.type = "request"
      /\ ReceiveInit(p, q) => m.type = "init"
      /\ ReceiveRemove(p, q) => m.type = "remove"
      /\ UNCHANGED <<disk, toRemove, added, removed>>
  BY DEF ReceiveRequest, ReceiveInit, ReceiveRemove, FileMsg, Incoming, history
<1>2. m \in OnWay(q, p) /\ \A s, r \in Hosts : OnWay(s, r)' \subseteq OnWay(s, r)
  BY <1>1, ReadMessages
<1>3. Rightful(m)
  BY <1>2 DEF OriginInv, DatagramsOrigin
<1> HIDE DEF m
<1>4. DatagramsOrigin'
  BY <1>1, <1>2, DatagramsKept
<1>5. EntriesOrigin'
  <2>1. CASE ReceiveRemove(p, q)
    <3>1. Listed(p)' = ToSet(Marked(files[p], m.file)) /\ \A h \in Hosts \ {p} : Listed(h)' = Listed(h)
      BY <2>1 DEF ReceiveRemove, Listed, DistInv, FilesInv, m
    <3>2. files[p] \in Seq(Entries) /\ m.file \in removed
      BY <1>1, <1>3, <2>1 DEF Rightful, DistInv, FilesInv
    <3>3. \A e \in Listed(p)' : e \in Listed(p)
                                \/ (e.file = m.file /\ \E d \in Listed(p) : d.file = m.file)
      BY <3>1, <3>2, MarkedElements DEF Listed
    <3>4. QED
      BY <1>1, <3>1, <3>2, <3>3 DEF OriginInv, EntriesOrigin
  <2>2. CASE ~ReceiveRemove(p, q)
    <3>1. files' = files
      BY <2>2 DEF ReceiveRequest, ReceiveInit
    <3>2. QED
      BY <1>1, <3>1 DEF OriginInv, EntriesOrigin, Listed
  <2>3. QED
    BY <2>1, <2>2
<1>6. TransfersOrigin'
  <2>1. CASE ReceiveRequest(p, q)
    <3>1. m.file \in added /\ outputs' = outputs
      BY <1>1, <1>3, <2>1 DEF Rightful, ReceiveRequest
    <3>2. \A h \in Hosts : \A t \in inputs'[h] : t \in inputs[h] \/ t.file = m.file
      BY <2>1 DEF ReceiveRequest, DistInv, FilesInv, m
    <3>3. QED
      BY <1>1, <3>1, <3>2 DEF OriginInv, TransfersOrigin
  <2>2. CASE ReceiveInit(p, q)
    <3>1. m.file \in added /\ inputs' = inputs
      BY <1>1, <1>3, <2>2 DEF Rightful, ReceiveInit
    <3>2. \A h \in Hosts : \A t \in outputs'[h] : t \in outputs[h] \/ t.file = m.file
      BY <2>2 DEF ReceiveInit, DistInv, FilesInv, m
    <3>3. QED
      BY <1>1, <3>1, <3>2 DEF OriginInv, TransfersOrigin
  <2>3. CASE ReceiveRemove(p, q)
    BY <1>1, <2>3 DEF ReceiveRemove, OriginInv, TransfersOrigin
  <2>4. QED
    BY <2>1, <2>2, <2>3
<1>7. QED
  BY <1>1, <1>4, <1>5, <1>6 DEF OriginInv, DisksOrigin

\* What the threads do to the downloads: an old one, maybe in another stage.
LEMMA OldInputs ==
    ASSUME DistInv, NEW p \in Hosts,
           \/ \E t \in inputs[p] : InputInit(p, t) \/ InputStore(p, t)
           \/ \E o \in outputs[p] : OutputPerform(p, o)
    PROVE  \A h \in Hosts : \A u \in inputs'[h] : \E t \in inputs[h] :
              u.file = t.file /\ u.peer = t.peer /\ u.port = t.port
<1>1. inputs \in [Hosts -> SUBSET Inputs] /\ outputs \in [Hosts -> SUBSET Outputs]
  BY DEF DistInv, FilesInv
<1>2. ASSUME NEW t \in Inputs, NEW now
      PROVE  LET u == [t EXCEPT !.stage = now]
             IN  u.file = t.file /\ u.peer = t.peer /\ u.port = t.port
  BY DEF Inputs
<1>3. ASSUME NEW t \in inputs[p], InputInit(p, t), NEW h \in Hosts, NEW u \in inputs'[h]
      PROVE  \E v \in inputs[h] : u.file = v.file /\ u.peer = v.peer /\ u.port = v.port
  <2>1. t \in Inputs
    BY <1>1
  <2>2. u \in inputs[h] \/ (h = p /\ u = [t EXCEPT !.stage = "wait"])
    BY <1>1, <1>3 DEF InputInit
  <2>3. CASE u \in inputs[h]
    BY <2>3
  <2>4. CASE h = p /\ u = [t EXCEPT !.stage = "wait"]
    <3>1. u.file = t.file /\ u.peer = t.peer /\ u.port = t.port
      BY <1>2, <2>1, <2>4
    <3>2. QED
      BY <1>3, <2>4, <3>1
  <2>5. QED
    BY <2>2, <2>3, <2>4
<1>4. ASSUME NEW t \in inputs[p], InputStore(p, t), NEW h \in Hosts
      PROVE  inputs'[h] \subseteq inputs[h]
  BY <1>1, <1>4 DEF InputStore
<1>5. ASSUME NEW o \in outputs[p], OutputPerform(p, o), NEW h \in Hosts, NEW u \in inputs'[h]
      PROVE  \E v \in inputs[h] : u.file = v.file /\ u.peer = v.peer /\ u.port = v.port
  <2>1. o.peer \in Hosts /\ Partner(p, o) \subseteq inputs[o.peer]
    BY <1>1 DEF Outputs, Partner
  <2>2. \/ u \in inputs[h]
        \/ h = o.peer /\ \E t \in Partner(p, o) : u = [t EXCEPT !.stage = "data"]
    BY <1>1, <1>5, <2>1 DEF OutputPerform
  <2>3. CASE u \in inputs[h]
    BY <2>3
  <2>4. ASSUME NEW t \in Partner(p, o), h = o.peer, u = [t EXCEPT !.stage = "data"]
        PROVE  \E v \in inputs[h] : u.file = v.file /\ u.peer = v.peer /\ u.port = v.port
    <3>1. t \in inputs[h] /\ t \in Inputs
      BY <1>1, <2>1, <2>4
    <3>2. QED
      BY <1>2, <2>4, <3>1
  <2>5. QED
    BY <2>2, <2>3, <2>4
<1>6. QED
  BY <1>3, <1>4, <1>5

LEMMA ThreadsOrigin ==
    ASSUME DistInv, OriginInv, NEW p \in Hosts, Threads(p)
    PROVE  OriginInv'
<1>1. UNCHANGED <<toRemove, added, removed>>
  BY DEF Threads, InputInit, InputStore, OutputPerform, history
<1>2. TransfersOrigin'
  <2>1. \A h \in Hosts : outputs'[h] \subseteq outputs[h]
    <3>1. outputs' = outputs \/ \E o : outputs' = [outputs EXCEPT ![p] = @ \ {o}]
      BY DEF Threads, InputInit, InputStore, OutputPerform
    <3>2. QED
      BY <3>1 DEF DistInv, FilesInv
  <2>2. \A h \in Hosts : \A u \in inputs'[h] : \E t \in inputs[h] : u.file = t.file
    BY OldInputs DEF Threads
  <2>3. QED
    BY <1>1, <2>1, <2>2 DEF OriginInv, TransfersOrigin
<1>3. ASSUME NEW t \in inputs[p], InputInit(p, t)
      PROVE  OriginInv'
  <2>1. DatagramsOrigin'
    <3>1. t \in Inputs /\ t.file \in added /\ net \in NetType(Datagrams)
      BY DEF DistInv, NetInv, FilesInv, OriginInv, TransfersOrigin
    <3>2. InitMsg(t) \in Datagrams /\ Rightful(InitMsg(t))
      BY <3>1 DEF InitMsg, Inputs, Datagrams, InitMsgs, Rightful
    <3>3. net' = net \/ net' = Sent(net, p, {t.peer}, InitMsg(t))
      BY <1>3 DEF InputInit, InitMsg
    <3>4. \A s, r \in Hosts : OnWay(s, r)' \subseteq OnWay(s, r) \cup {InitMsg(t)}
      BY <3>1, <3>2, <3>3, SentMessages DEF OnWay
    <3>5. QED
      BY <1>1, <3>2, <3>4, DatagramsKept
  <2>2. files' = files /\ disk' = disk
    BY <1>3 DEF InputInit
  <2>3. QED
    BY <1>1, <1>2, <2>1, <2>2 DEF OriginInv, EntriesOrigin, DisksOrigin, Listed
<1>4. ASSUME NEW o \in outputs[p], OutputPerform(p, o)
      PROVE  OriginInv'
  <2>1. files' = files /\ disk' = disk /\ net' = net
    BY <1>4 DEF OutputPerform, memberVars, vars
  <2>2. QED
    BY <1>1, <1>2, <2>1 DEF OriginInv, EntriesOrigin, DisksOrigin, DatagramsOrigin, Rightful, Listed, OnWay
<1>5. ASSUME NEW t \in inputs[p], InputStore(p, t)
      PROVE  OriginInv'
  <2>1. t.file \in added /\ t.file \in Files
    BY DEF OriginInv, TransfersOrigin, DistInv, FilesInv, Inputs
  <2>2. net' = net
    BY <1>5 DEF InputStore, memberVars, vars
  <2>3. StoreAndList(p, t.file)
    BY <1>5 DEF InputStore
  <2>4. /\ \A q \in Hosts : Listed(q)' \subseteq Listed(q) \cup {File(t.file)}
        /\ \A q \in Hosts : disk'[q] \subseteq disk[q] \cup {t.file}
    BY <2>1, <2>3, StoreElements
  <2>5. EntriesOrigin'
    BY <1>1, <2>1, <2>4 DEF OriginInv, EntriesOrigin, File
  <2>6. DisksOrigin' /\ DatagramsOrigin'
    BY <1>1, <2>1, <2>2, <2>4 DEF OriginInv, DisksOrigin, DatagramsOrigin, Rightful, OnWay
  <2>7. QED
    BY <1>1, <1>2, <2>5, <2>6 DEF OriginInv
<1>6. QED
  BY <1>3, <1>4, <1>5 DEF Threads

LEMMA OriginNext ==
    ASSUME DistInv, OriginInv, [DistNext]_distVars
    PROVE  OriginInv'
<1>1. ASSUME NEW p \in Hosts,
             StopService(p) \/ ((Start(p) \/ Announce(p)) /\ UNCHANGED fileVars)
      PROVE  OriginInv'
  <2>1. [Next]_vars
    BY <1>1 DEF StopService, Next, Main, Worker
  <2>2. UNCHANGED <<files, disk, toRemove, inputs, outputs, added, removed>>
    BY <1>1 DEF StopService, fileVars, history
  <2>3. QED
    BY <2>1, <2>2, MemberOrigin
<1>2. ASSUME NEW p \in Hosts, NEW q \in Hosts, ReceiveNode(p, q)
      PROVE  OriginInv'
  <2>1. [Next]_vars /\ UNCHANGED <<files, disk, toRemove, inputs, outputs, added, removed>>
    BY <1>2, NodeStep DEF ReceiveNode, history
  <2>2. QED
    BY <2>1, MemberOrigin
<1>3. ASSUME NEW p \in Hosts, ReceiveNothing(p)
      PROVE  OriginInv'
  BY <1>3 DEF ReceiveNothing, history, OriginInv, EntriesOrigin, DisksOrigin, TransfersOrigin,
              DatagramsOrigin, Rightful, Listed, OnWay
<1>4. ASSUME NEW p \in Hosts, NEW q \in Hosts, Lose(p, q), UNCHANGED fileVars
      PROVE  OriginInv'
  <2>1. [Next]_vars
    BY <1>4 DEF Next
  <2>2. QED
    BY <1>4, <2>1, MemberOrigin DEF fileVars, history
<1>5. CASE UNCHANGED distVars
  BY <1>5, MemberOrigin DEF distVars, memberVars, fileVars, history
<1>6. CASE Users
  BY <1>1, <1>6, UsersOrigin DEF Users
<1>7. ASSUME NEW p \in Hosts, FileWorker(p)
      PROVE  OriginInv'
  <2>1. ASSUME NEW diff \in 0 .. MaxGap, HandleFiles(p, diff)
        PROVE  OriginInv'
    BY <2>1, HandleFilesOrigin
  <2>2. QED
    BY <1>1, <1>2, <1>3, <1>7, <2>1, LocalityOrigin, FileMsgOrigin, StopFilesOrigin DEF FileWorker
<1>8. QED
  BY <1>4, <1>5, <1>6, <1>7, ThreadsOrigin DEF DistNext

LEMMA OriginInit == DistInit => OriginInv
BY DEF DistInit, Init, OriginInv, EntriesOrigin, DisksOrigin, TransfersOrigin, DatagramsOrigin,
       Listed, OnWay, ToSet

\* In every behaviour: nothing is made up on the way, and nobody but a user has a
\* file removed, however datagrams, stops and transfers fall together.
THEOREM OriginCorrect == DistSpec => []OriginInv
BY OriginInit, OriginNext, DistInvariance, PTL DEF DistSpec

-----------------------------------------------------------------------------
(* A port stands for one transfer.                                         *)

Named(h, port, f, q) == \A t \in inputs[h] : t.port = port => t.file = f /\ t.peer = q

InputPorts ==
    \A h \in Hosts : \A t \in inputs[h] :
        t.port <= transfers /\ \A u \in inputs[h] : u.port = t.port => u = t
MessagePorts ==
    \A s, r \in Hosts : \A m \in OnWay(s, r) :
        m.type = "init" => m.port <= transfers /\ Named(s, m.port, m.file, r)
OutputPorts ==
    \A p \in Hosts : \A o \in outputs[p] :
        o.port <= transfers /\ Named(o.peer, o.port, o.file, p)

\* What TRANSFER_INIT and an upload name is the download they belong to, if it is
\* still there: the same file, and the right one of the hosts.
PortsInv == InputPorts /\ MessagePorts /\ OutputPorts

LEMMA PortsKept ==
    ASSUME DistInv, DistInv', PortsInv, transfers <= transfers', InputPorts',
           \A h \in Hosts : \A u \in inputs'[h] :
               \/ \E t \in inputs[h] : u.file = t.file /\ u.peer = t.peer /\ u.port = t.port
               \/ u.port > transfers,
           \A s, r \in Hosts : \A m \in OnWay(s, r)' :
               \/ m \in OnWay(s, r) \/ m.type # "init"
               \/ m.port <= transfers' /\ Named(s, m.port, m.file, r)',
           \A p \in Hosts : \A o \in outputs'[p] :
               o \in outputs[p] \/ (o.port <= transfers' /\ Named(o.peer, o.port, o.file, p)')
    PROVE  PortsInv'
<1>1. transfers \in Nat /\ transfers' \in Nat /\ FilesInv
  BY FilesAssumption DEF DistInv, FilesInv
<1>2. ASSUME NEW h \in Hosts, NEW port \in Nat, NEW f, NEW q, port <= transfers, Named(h, port, f, q)
      PROVE  port <= transfers' /\ Named(h, port, f, q)'
  <2>1. port <= transfers' /\ ~(port > transfers)
    BY <1>1, <1>2
  <2>2. QED
    BY <1>2, <2>1 DEF Named
<1>3. ASSUME NEW s \in Hosts, NEW r \in Hosts, NEW m \in OnWay(s, r)', m.type = "init"
      PROVE  m.port <= transfers' /\ Named(s, m.port, m.file, r)'
  <2>1. CASE m \in OnWay(s, r)
    <3>1. net[s][r] \in Seq(Datagrams)
      BY DEF DistInv, NetInv, NetType
    <3>2. m \in Datagrams
      BY <2>1, <3>1, ElementsType DEF OnWay
    <3>3. m.port \in Nat
      BY <1>3, <3>2, DatagramFacts DEF InitMsgs
    <3>4. m.port <= transfers /\ Named(s, m.port, m.file, r)
      BY <1>3, <2>1 DEF PortsInv, MessagePorts
    <3>5. QED
      BY <1>2, <3>3, <3>4
  <2>2. QED
    BY <1>3, <2>1
<1>4. ASSUME NEW p \in Hosts, NEW o \in outputs'[p]
      PROVE  o.port <= transfers' /\ Named(o.peer, o.port, o.file, p)'
  <2>1. CASE o \in outputs[p]
    <3>1. o.peer \in Hosts /\ o.port \in Nat
      BY <1>1, <2>1 DEF FilesInv, Outputs
    <3>2. o.port <= transfers /\ Named(o.peer, o.port, o.file, p)
      BY <2>1 DEF PortsInv, OutputPorts
    <3>3. QED
      BY <1>2, <3>1, <3>2
  <2>2. QED
    BY <2>1
<1>5. QED
  BY <1>3, <1>4 DEF PortsInv, MessagePorts, OutputPorts

\* A step that does not touch transfers and sends no TRANSFER_INIT.
LEMMA PortsFrame ==
    ASSUME DistInv, DistInv', PortsInv, UNCHANGED <<transfers, inputs, outputs>>,
           \A s, r \in Hosts : \A m \in OnWay(s, r)' : m \in OnWay(s, r) \/ m.type # "init"
    PROVE  PortsInv'
<1>1. transfers \in Nat
  BY FilesAssumption DEF DistInv, FilesInv
<1>2. transfers <= transfers' /\ InputPorts'
  BY <1>1 DEF PortsInv, InputPorts
<1>3. QED
  BY <1>2, PortsKept

\* The housekeeping and the message that asks for a removal are such steps.
LEMMA HandlingPorts ==
    ASSUME DistInv, DistInv', PortsInv, NEW p \in Hosts,
           \/ HandleFilesLocality(p)
           \/ \E diff \in 0 .. MaxGap : HandleFiles(p, diff)
           \/ \E q \in Hosts : ReceiveRemove(p, q)
    PROVE  PortsInv'
<1>1. UNCHANGED <<transfers, inputs, outputs>>
  BY DEF HandleFilesLocality, HandleFiles, ReceiveRemove
<1>2. net \in NetType(Datagrams) /\ FilesInv
  BY DEF DistInv, NetInv
<1>3. CASE HandleFilesLocality(p)
  <2>1. \A d : RequestMsg(d).type # "init"
    BY DEF RequestMsg
  <2>2. \A s, r \in Hosts : \A m \in OnWay(s, r)' : m \in OnWay(s, r) \/ m.type # "init"
    BY <1>2, <1>3, <2>1, LocalityMessages, RequestsElements
  <2>3. QED
    BY <1>1, <2>2, PortsFrame
<1>4. ASSUME NEW diff \in 0 .. MaxGap, HandleFiles(p, diff)
      PROVE  PortsInv'
  <2>1. CASE toRemove[p] = NoFile
    BY <1>1, <1>4, <2>1, PortsFrame DEF HandleFiles, OnWay
  <2>2. CASE toRemove[p] # NoFile
    <3> DEFINE m == [type |-> "remove", file |-> toRemove[p]]
               to == SamePort(p) \cup ToSet(nodes[p])
    <3>1. m \in Datagrams /\ m.type # "init"
      BY <1>2, <2>2 DEF FilesInv, Datagrams, RemoveMsgs
    <3>2. net' = Sent(net, p, to, m)
      BY <1>4, <2>2 DEF HandleFiles
    <3> HIDE DEF m, to
    <3>3. \A s, r \in Hosts : OnWay(s, r)' \subseteq OnWay(s, r) \cup {m}
      BY <1>2, <3>1, <3>2, SentMessages DEF OnWay
    <3>4. QED
      BY <1>1, <3>1, <3>3, PortsFrame
  <2>3. QED
    BY <2>1, <2>2
<1>5. ASSUME NEW q \in Hosts, ReceiveRemove(p, q)
      PROVE  PortsInv'
  <2>1. net[q][p] # <<>> /\ net' = Taken(net, q, p)
    BY <1>5 DEF ReceiveRemove, FileMsg, Incoming
  <2>2. \A s, r \in Hosts : OnWay(s, r)' \subseteq OnWay(s, r)
    BY <2>1, ReadMessages
  <2>3. QED
    BY <1>1, <2>2, PortsFrame
<1>6. QED
  BY <1>3, <1>4, <1>5

LEMMA RequestPorts ==
    ASSUME DistInv, DistInv', PortsInv, NEW p \in Hosts, NEW q \in Hosts, ReceiveRequest(p, q)
    PROVE  PortsInv'
<1> DEFINE t == [file |-> Head(net[q][p]).file, peer |-> q, port |-> transfers + 1, stage |-> "start"]
<1>1. net[q][p] # <<>> /\ net' = Taken(net, q, p) /\ outputs' = outputs
  BY DEF ReceiveRequest, FileMsg, Incoming
<1>2. \A s, r \in Hosts : OnWay(s, r)' \subseteq OnWay(s, r)
  BY <1>1, ReadMessages
<1>3. CASE UNCHANGED <<transfers, inputs>>
  BY <1>1, <1>2, <1>3, PortsFrame
<1>4. CASE transfers' = transfers + 1 /\ inputs' = [inputs EXCEPT ![p] = @ \cup {t}]
  <2>1. transfers \in Nat /\ t.port = transfers + 1
    BY FilesAssumption DEF DistInv, FilesInv
  <2> HIDE DEF t
  <2>2. inputs \in [Hosts -> SUBSET Inputs]
    BY DEF DistInv, FilesInv
  <2>3. /\ inputs'[p] = inputs[p] \cup {t}
        /\ \A h \in Hosts : h = p \/ inputs'[h] = inputs[h]
    BY <1>4, <2>2
  <2>4. \A h \in Hosts : \A u \in inputs[h] :
           u.port \in Nat /\ u.port <= transfers /\ u.port <= transfers' /\ u.port # t.port
    BY <1>4, <2>1, <2>2 DEF PortsInv, InputPorts, Inputs
  <2>5. InputPorts'
    BY <1>4, <2>1, <2>3, <2>4 DEF PortsInv, InputPorts
  <2>6. \A h \in Hosts : \A u \in inputs'[h] : u \in inputs[h] \/ u.port > transfers
    BY <2>1, <2>3
  <2>7. transfers <= transfers'
    BY <1>4, <2>1
  <2>8. QED
    BY <1>1, <1>2, <2>5, <2>6, <2>7, PortsKept
<1>5. QED
  BY <1>3, <1>4 DEF ReceiveRequest

LEMMA InitPorts ==
    ASSUME DistInv, DistInv', PortsInv, NEW p \in Hosts, NEW q \in Hosts, ReceiveInit(p, q)
    PROVE  PortsInv'
<1>1. PICK m : m = Head(net[q][p])
  OBVIOUS
<1> DEFINE o == [file |-> m.file, peer |-> q, port |-> m.port]
<1>2. /\ net[q][p] # <<>> /\ net' = Taken(net, q, p) /\ m.type = "init"
      /\ UNCHANGED <<inputs, transfers>>
  BY <1>1 DEF ReceiveInit, FileMsg, Incoming
<1>3. m \in OnWay(q, p) /\ \A s, r \in Hosts : OnWay(s, r)' \subseteq OnWay(s, r)
  BY <1>1, <1>2, ReadMessages
<1>4. m.port <= transfers /\ Named(q, m.port, m.file, p)
  BY <1>2, <1>3 DEF PortsInv, MessagePorts
<1>5. \A r \in Hosts : \A x \in outputs'[r] : x \in outputs[r] \/ (r = p /\ x = o)
  BY <1>1 DEF ReceiveInit, DistInv, FilesInv
<1>6. o.port <= transfers' /\ Named(o.peer, o.port, o.file, p)'
  BY <1>2, <1>4 DEF Named
<1> HIDE DEF o
<1>7. InputPorts' /\ transfers <= transfers'
  <2>1. transfers \in Nat
    BY FilesAssumption DEF DistInv, FilesInv
  <2>2. QED
    BY <1>2, <2>1 DEF PortsInv, InputPorts
<1>8. QED
  BY <1>2, <1>3, <1>5, <1>6, <1>7, PortsKept

LEMMA ThreadsPorts ==
    ASSUME DistInv, DistInv', PortsInv, NEW p \in Hosts, Threads(p)
    PROVE  PortsInv'
<1>1. /\ transfers' = transfers /\ transfers <= transfers'
      /\ inputs \in [Hosts -> SUBSET Inputs] /\ outputs \in [Hosts -> SUBSET Outputs]
      /\ net \in NetType(Datagrams)
  <2>1. transfers \in Nat
    BY FilesAssumption DEF DistInv, FilesInv
  <2>2. transfers' = transfers
    BY DEF Threads, InputInit, InputStore, OutputPerform
  <2>3. QED
    BY <2>1, <2>2 DEF DistInv, FilesInv, NetInv
<1>2. \A h \in Hosts : \A u \in inputs'[h] : \E t \in inputs[h] :
         u.file = t.file /\ u.peer = t.peer /\ u.port = t.port
  BY OldInputs DEF Threads
<1>3. \A h \in Hosts : outputs'[h] \subseteq outputs[h]
  <2>1. outputs' = outputs \/ \E o : outputs' = [outputs EXCEPT ![p] = @ \ {o}]
    BY DEF Threads, InputInit, InputStore, OutputPerform
  <2>2. QED
    BY <1>1, <2>1
<1>4. ASSUME NEW t \in inputs[p], InputInit(p, t)
      PROVE  PortsInv'
  <2> DEFINE w == [t EXCEPT !.stage = "wait"]
  <2>1. t \in Inputs /\ w.port = t.port /\ w.file = t.file /\ w.peer = t.peer
    BY <1>1 DEF Inputs
  <2> HIDE DEF w
  <2>2. \A h \in Hosts : inputs'[h] = IF h = p THEN (inputs[p] \ {t}) \cup {w} ELSE inputs[h]
    BY <1>1, <1>4 DEF InputInit, w
  <2>3. InputPorts'
    BY <1>1, <2>1, <2>2 DEF PortsInv, InputPorts
  <2>4. InitMsg(t) \in Datagrams
    BY <2>1 DEF Inputs, InitMsg, Datagrams, InitMsgs
  <2>5. \A s, r \in Hosts : \A m \in OnWay(s, r)' :
           m \in OnWay(s, r) \/ (s = p /\ r = t.peer /\ m = InitMsg(t))
    <3>1. CASE net' = net
      BY <3>1 DEF OnWay
    <3>2. CASE net' = Sent(net, p, {t.peer}, InitMsg(t))
      <4>1. ASSUME NEW s \in Hosts, NEW r \in Hosts
            PROVE  ToSet(net'[s][r]) =
                      ToSet(net[s][r])
                        \cup (IF s = p /\ r \in {t.peer} \ {p} /\ Open(r) THEN {InitMsg(t)} ELSE {})
        BY <1>1, <2>4, <3>2, SentMessages
      <4>2. QED
        BY <4>1 DEF OnWay
    <3>3. QED
      BY <1>4, <3>1, <3>2 DEF InputInit, InitMsg
  <2>6. InitMsg(t).port <= transfers' /\ Named(p, t.port, t.file, t.peer)'
    <3>1. t.port <= transfers /\ \A u \in inputs[p] : u.port = t.port => u = t
      BY DEF PortsInv, InputPorts
    <3>2. QED
      BY <1>1, <2>1, <2>2, <3>1 DEF InitMsg, Named
  <2>7. InitMsg(t).port = t.port /\ InitMsg(t).file = t.file
    BY DEF InitMsg
  <2>8. QED
    BY <1>1, <1>2, <1>3, <2>3, <2>5, <2>6, <2>7, PortsKept
<1>5. ASSUME NEW o \in outputs[p], OutputPerform(p, o)
      PROVE  PortsInv'
  <2>1. o.peer \in Hosts /\ Partner(p, o) \subseteq inputs[o.peer] /\ net' = net
    BY <1>1, <1>5 DEF Outputs, Partner, OutputPerform, memberVars, vars
  <2>2. \A t \in Partner(p, o) : [t EXCEPT !.stage = "data"].port = t.port /\ t.port = o.port
    BY <1>1, <2>1 DEF Partner, Inputs
  <2>3. \A h \in Hosts : \A u \in inputs'[h] :
           \/ u \in inputs[h] /\ (h = o.peer => u \notin Partner(p, o))
           \/ h = o.peer /\ \E t \in Partner(p, o) : u = [t EXCEPT !.stage = "data"]
    BY <1>1, <1>5, <2>1 DEF OutputPerform
  <2>4. ASSUME NEW h \in Hosts, NEW u \in inputs'[h], NEW v \in inputs'[h], v.port = u.port
        PROVE  v = u
    <3>1. \A t, x \in inputs[h] : x.port = t.port => x = t
      BY DEF PortsInv, InputPorts
    <3>2. ASSUME NEW x \in inputs'[h]
          PROVE  \E t \in inputs[h] :
                    /\ t.port = x.port
                    /\ \/ x = t /\ (h = o.peer => t \notin Partner(p, o))
                       \/ h = o.peer /\ t \in Partner(p, o) /\ x = [t EXCEPT !.stage = "data"]
      <4>1. CASE x \in inputs[h] /\ (h = o.peer => x \notin Partner(p, o))
        BY <4>1
      <4>2. ASSUME h = o.peer, NEW t \in Partner(p, o), x = [t EXCEPT !.stage = "data"]
            PROVE  t \in inputs[h] /\ t.port = x.port
        BY <2>1, <2>2, <4>2
      <4>3. QED
        BY <2>3, <4>1, <4>2
    <3>3. PICK t \in inputs[h] :
            /\ t.port = u.port
            /\ \/ u = t /\ (h = o.peer => t \notin Partner(p, o))
               \/ h = o.peer /\ t \in Partner(p, o) /\ u = [t EXCEPT !.stage = "data"]
      BY <3>2
    <3>4. PICK x \in inputs[h] :
            /\ x.port = v.port
            /\ \/ v = x /\ (h = o.peer => x \notin Partner(p, o))
               \/ h = o.peer /\ x \in Partner(p, o) /\ v = [x EXCEPT !.stage = "data"]
      BY <3>2
    <3>5. x = t
      BY <2>4, <3>1, <3>3, <3>4
    <3>6. QED
      BY <3>3, <3>4, <3>5
  <2>5. InputPorts'
    BY <1>1, <1>2, <2>4 DEF PortsInv, InputPorts
  <2>6. QED
    BY <1>1, <1>2, <1>3, <2>1, <2>5, PortsKept DEF OnWay
<1>6. ASSUME NEW t \in inputs[p], InputStore(p, t)
      PROVE  PortsInv'
  <2>1. net' = net /\ \A h \in Hosts : inputs'[h] \subseteq inputs[h]
    BY <1>1, <1>6 DEF InputStore, memberVars, vars
  <2>2. InputPorts'
    BY <1>1, <2>1 DEF PortsInv, InputPorts
  <2>3. QED
    BY <1>1, <1>2, <1>3, <2>1, <2>2, PortsKept DEF OnWay
<1>7. QED
  BY <1>4, <1>5, <1>6 DEF Threads

LEMMA PortsNext ==
    ASSUME DistInv, PortsInv, [DistNext]_distVars
    PROVE  PortsInv'
<1>1. DistInv'
  BY DistNextInv
<1>2. ASSUME [Next]_vars, UNCHANGED <<transfers, inputs, outputs>>
      PROVE  PortsInv'
  <2>1. \A m \in Messages : m.type # "init"
    BY DEF Messages, NewMsg, LeaveMsg
  <2>2. \A s, r \in Hosts : \A m \in OnWay(s, r)' : m \in OnWay(s, r) \/ m.type # "init"
    BY <1>2, <2>1, MemberMessages DEF DistInv
  <2>3. QED
    BY <1>1, <1>2, <2>2, PortsFrame
<1>3. CASE Users
  <2>1. [Next]_vars
    BY <1>3, UsersStep
  <2>2. UNCHANGED <<transfers, inputs, outputs>>
    BY <1>3 DEF Users, StopService, AddFile, RemoveFile, fileVars
  <2>3. QED
    BY <1>2, <2>1, <2>2
<1>4. ASSUME NEW p \in Hosts, FileWorker(p)
      PROVE  PortsInv'
  <2>1. CASE Announce(p) /\ UNCHANGED fileVars
    BY <1>2, <2>1 DEF Next, Worker, fileVars
  <2>2. ASSUME NEW q \in Hosts, ReceiveNode(p, q)
        PROVE  PortsInv'
    <3>1. [Next]_vars /\ UNCHANGED <<transfers, inputs, outputs>>
      BY <2>2, NodeStep DEF ReceiveNode
    <3>2. QED
      BY <1>2, <3>1
  <2>3. CASE ReceiveNothing(p)
    BY <1>1, <2>3, PortsFrame DEF ReceiveNothing, OnWay
  <2>4. CASE StopFiles(p)
    <3>1. [Next]_vars /\ UNCHANGED <<transfers, inputs, outputs>>
      BY <2>4, StopFilesStep DEF StopFiles
    <3>2. QED
      BY <1>2, <3>1
  <2>5. QED
    BY <1>1, <1>4, <2>1, <2>2, <2>3, <2>4, HandlingPorts, RequestPorts, InitPorts DEF FileWorker
<1>5. ASSUME NEW p \in Hosts, NEW q \in Hosts, Lose(p, q), UNCHANGED fileVars
      PROVE  PortsInv'
  BY <1>2, <1>5 DEF Next, fileVars
<1>6. CASE UNCHANGED distVars
  BY <1>2, <1>6 DEF distVars, memberVars, fileVars
<1>7. QED
  BY <1>1, <1>3, <1>4, <1>5, <1>6, ThreadsPorts DEF DistNext

LEMMA PortsInit == DistInit => PortsInv
BY DEF DistInit, PortsInv, InputPorts, MessagePorts, OutputPorts, OnWay, Init, ToSet

\* In every behaviour a port is the port of one transfer.
THEOREM PortsCorrect == DistSpec => []PortsInv
BY PortsInit, PortsNext, DistInvariance, PTL DEF DistSpec

-----------------------------------------------------------------------------
(* Where a file is while it moves.                                         *)

\* p has an entry of f that is not local, and one whose time is over.
Away(p, f)  == \E e \in Listed(p) : e.file = f /\ ~e.local
Tired(p, f) == \E e \in Listed(p) : e.file = f /\ ~e.local /\ e.ttl <= 0

\* A farewell of h is on its way to p.
Leaving(h, p) == LeaveMsg \in OnWay(h, p)

\* A request for f is in the channel, and who reads it will know the sender then.
AskedIn(chan, f, known) ==
    \E k \in 1 .. Len(chan) : chan[k] = RequestMsg(f) /\ ~Forgotten(chan, k - 1, known)
Asked(p, h, f) == AskedIn(net[p][h], f, Knows(h, p))

\* The peer of t, a download of h, has been told to connect and has not yet.
OutputFor(h, t) == [file |-> t.file, peer |-> h, port |-> t.port]
Pending(h, t)   == InitMsg(t) \in OnWay(h, t.peer) \/ OutputFor(h, t) \in outputs[t.peer]

\* h will receive f, from p if from no other host; p waits for f in Accept for ever.
Fetching(p, h, f) ==
    \E t \in inputs[h] :
        /\ t.file = f
        /\ t.stage = "data" \/ (t.peer = p /\ (t.stage = "wait" => Pending(h, t)))
Stuck(p, f) == \E t \in inputs[p] : t.file = f /\ t.stage = "wait" /\ ~Pending(p, t)

\* What p, which gives f to h, can rely on: it is going to look again, or h has f
\* or gets it.
Promised(p, h, f) ==
    update[p] \/ Leaving(h, p) \/ Asked(p, h, f) \/ Fetching(p, h, f) \/ Holds(h, f)

Receiving(p, f) == \E t \in inputs[p] : t.file = f

\* Only running hosts have anything of a file nobody took along; what is given
\* away is given to another host that can be relied on, and is old only as long as
\* a download holds it; and one host has it that gives it away or keeps it.
Running(f)  == \A p \in Hosts : Has(p, f) \/ f \in disk[p] \/ Receiving(p, f) => Open(p)
Given(f)    == \A p \in Hosts : Away(p, f) => update[p] \/ Home(p, f) # p
Fresh(f)    == \A p \in Hosts : Tired(p, f) => Stuck(p, f)
Relied(f)   == \A p \in Hosts : Away(p, f) => Promised(p, Home(p, f), f)
Anchored(f) == \E p \in Hosts : Holds(p, f) /\ (update[p] \/ Away(p, f) \/ Home(p, f) = p)

Safe(f) == Running(f) /\ Given(f) /\ Fresh(f) /\ Relied(f) /\ Anchored(f)

LEMMA AskedLonger ==
    ASSUME NEW chan \in Seq(Datagrams), NEW all \in Seq(Datagrams), NEW f, NEW known,
           Len(chan) <= Len(all), \A i \in 1 .. Len(chan) : all[i] = chan[i], AskedIn(chan, f, known)
    PROVE  AskedIn(all, f, known)
<1>1. Len(chan) \in Nat /\ Len(all) \in Nat
  OBVIOUS
<1>2. PICK k \in 1 .. Len(chan) : chan[k] = RequestMsg(f) /\ ~Forgotten(chan, k - 1, known)
  BY DEF AskedIn
<1>3. k - 1 \in Nat /\ k \in 1 .. Len(all) /\ \A i \in 1 .. (k - 1) : i \in 1 .. Len(chan)
  BY <1>1
<1>4. \A i \in 1 .. (k - 1) : all[i] = chan[i]
  BY <1>3
<1>5. Forgotten(all, k - 1, known) <=> Forgotten(chan, k - 1, known)
  BY <1>3, <1>4, ForgottenPrefix
<1>6. QED
  BY <1>2, <1>3, <1>5 DEF AskedIn

\* When the first datagram is read the request is it, of a known sender, or remains.
LEMMA AskedTail ==
    ASSUME NEW chan \in Seq(Datagrams), chan # <<>>, NEW f, NEW known \in BOOLEAN, NEW now \in BOOLEAN,
           now <=> IF Head(chan).type \in {"new", "leave"} THEN Head(chan).type = "new" ELSE known,
           AskedIn(chan, f, known)
    PROVE  (Head(chan) = RequestMsg(f) /\ known) \/ AskedIn(Tail(chan), f, now)
<1>1. PICK k \in 1 .. Len(chan) : chan[k] = RequestMsg(f) /\ ~Forgotten(chan, k - 1, known)
  BY DEF AskedIn
<1>2. /\ Len(Tail(chan)) \in Nat /\ Len(chan) = Len(Tail(chan)) + 1 /\ Head(chan) = chan[1]
      /\ \A i \in 1 .. Len(Tail(chan)) : Tail(chan)[i] = chan[i + 1]
      /\ \A i \in 0 .. Len(Tail(chan)) :
            Forgotten(Tail(chan), i, now) <=> Forgotten(chan, i + 1, known)
  BY ForgottenTail
<1>3. CASE k = 1
  <2>1. 1 .. (1 - 1) = {}
    OBVIOUS
  <2>2. known
    BY <1>1, <1>3, <2>1 DEF Forgotten
  <2>3. QED
    BY <1>1, <1>2, <1>3, <2>2
<1>4. CASE k # 1
  <2> DEFINE n == Len(Tail(chan))
             i == k - 1
  <2>1. i \in 1 .. n /\ i - 1 \in 0 .. n /\ i + 1 = k /\ (i - 1) + 1 = k - 1
    BY <1>2, <1>4
  <2>2. Tail(chan)[i] = RequestMsg(f) /\ ~Forgotten(Tail(chan), i - 1, now)
    <3> HIDE DEF i
    <3>1. Tail(chan)[i] = chan[k]
      BY <1>2, <2>1
    <3>2. Forgotten(Tail(chan), i - 1, now) <=> Forgotten(chan, k - 1, known)
      BY <1>2, <2>1
    <3>3. QED
      BY <1>1, <3>1, <3>2
  <2>3. QED
    BY <2>1, <2>2 DEF AskedIn
<1>5. QED
  BY <1>3, <1>4

\* Behind what makes the sender known, a request is one of a known sender.
LEMMA AskedNow ==
    ASSUME NEW chan \in Seq(Datagrams), NEW more \in Seq(RequestMsgs), NEW f, NEW known,
           RequestMsg(f) \in ToSet(more), Learned(chan, known)
    PROVE  AskedIn(chan \o more, f, known)
<1> DEFINE all == chan \o more
<1>1. /\ Len(chan) \in Nat /\ Len(more) \in Nat /\ DOMAIN more = 1 .. Len(more)
      /\ Len(all) = Len(chan) + Len(more)
      /\ \A i \in 1 .. Len(chan) : all[i] = chan[i]
      /\ \A i \in 1 .. Len(more) : all[Len(chan) + i] = more[i]
      /\ \A i \in (Len(chan) + 1) .. Len(all) :
            all[i] = more[i - Len(chan)] /\ i - Len(chan) \in 1 .. Len(more)
  OBVIOUS
<1>2. PICK j \in 1 .. Len(more) : more[j] = RequestMsg(f)
  BY <1>1 DEF ToSet
<1> DEFINE k == Len(chan) + j
<1> HIDE DEF all
<1>3. k \in 1 .. Len(all) /\ k - 1 \in Nat /\ Len(chan) <= k - 1 /\ all[k] = RequestMsg(f)
  BY <1>1, <1>2
<1>4. \A i \in 1 .. Len(more) : more[i].type = "request"
  <2>1. \A i \in 1 .. Len(more) : more[i] \in RequestMsgs
    OBVIOUS
  <2>2. QED
    BY <2>1 DEF RequestMsgs
<1> HIDE DEF k
<1>5. ASSUME NEW i \in (Len(chan) + 1) .. (k - 1)
      PROVE  all[i].type \notin {"new", "leave"}
  <2>1. i \in (Len(chan) + 1) .. Len(all)
    BY <1>1, <1>3
  <2>2. all[i] = more[i - Len(chan)] /\ i - Len(chan) \in 1 .. Len(more)
    BY <1>1, <2>1
  <2>3. QED
    BY <1>4, <2>2
<1>6. Forgotten(all, k - 1, known) <=> Forgotten(all, Len(chan), known)
  BY <1>1, <1>3, <1>5, ForgottenOthers
<1>7. Forgotten(all, Len(chan), known) <=> Forgotten(chan, Len(chan), known)
  BY <1>1, ForgottenPrefix
<1>8. QED
  BY <1>3, <1>6, <1>7 DEF AskedIn, Learned, all

-----------------------------------------------------------------------------
(* How it stays there.                                                     *)

\* A host that gives a file away and is not going to look again.
LEMMA AwayFacts ==
    ASSUME DistInv, NEW f \in Files, Safe(f), NEW p \in Hosts, Away(p, f)
    PROVE  /\ Has(p, f) /\ Open(p)
           /\ Home(p, f) \in Hosts /\ Knows(p, Home(p, f))
           /\ Promised(p, Home(p, f), f)
           /\ ~update[p] => Home(p, f) # p
<1>1. Has(p, f)
  BY ListedFacts DEF Away, DistInv
<1>2. Open(p)
  BY <1>1 DEF Safe, Running
<1>3. QED
  BY <1>1, <1>2, HomeFacts DEF Safe, Given, Relied

\* What a step that neither loses f nor moves it must leave alone.
LEMMA SafeKept ==
    ASSUME DistInv, NEW f \in Files, Safe(f), Running(f)',
           \A p \in Hosts : /\ Holds(p, f) => Holds(p, f)'
                            /\ Away(p, f)' <=> Away(p, f)
                            /\ Tired(p, f)' => Tired(p, f)
                            /\ Stuck(p, f) => Stuck(p, f)'
                            /\ Has(p, f) => update'[p] \/ (~update[p] /\ Home(p, f)' = Home(p, f)),
           \A p, h \in Hosts :
              Away(p, f) /\ ~update'[p] /\ ~update[p] /\ h = Home(p, f) /\ h # p /\ Promised(p, h, f)
                 => Promised(p, h, f)'
    PROVE  Safe(f)'
<1>1. ASSUME NEW p \in Hosts, Away(p, f)
      PROVE  /\ update'[p] \/ Home(p, f)' # p
             /\ Promised(p, Home(p, f), f)'
  <2>1. CASE update'[p]
    BY <2>1 DEF Promised
  <2>2. CASE ~update'[p]
    <3>1. ~update[p] /\ Home(p, f)' = Home(p, f)
      BY <1>1, <2>2, AwayFacts
    <3>2. PICK h \in Hosts : h = Home(p, f)
      BY <1>1, AwayFacts
    <3>3. h # p /\ Promised(p, h, f)
      BY <1>1, <3>1, <3>2, AwayFacts
    <3>4. Promised(p, h, f)'
      BY <1>1, <2>2, <3>1, <3>2, <3>3
    <3>5. Home(p, f)' = h
      BY <3>1, <3>2
    <3>6. QED
      BY <3>3, <3>4, <3>5
  <2>3. QED
    BY <2>1, <2>2
<1>2. Given(f)' /\ Relied(f)'
  BY <1>1 DEF Given, Relied
<1>3. Fresh(f)'
  BY DEF Safe, Fresh
<1>4. Anchored(f)'
  <2>1. PICK p \in Hosts : Holds(p, f) /\ (update[p] \/ Away(p, f) \/ Home(p, f) = p)
    BY DEF Safe, Anchored
  <2>2. Holds(p, f)' /\ (update'[p] \/ Away(p, f)' \/ Home(p, f)' = p)
    BY <2>1 DEF Holds
  <2>3. QED
    BY <2>2 DEF Anchored
<1>5. QED
  BY <1>2, <1>3, <1>4 DEF Safe

\* A channel that grows behind what is in it.
Longer(old, new) == Len(old) <= Len(new) /\ \A i \in 1 .. Len(old) : new[i] = old[i]

LEMMA AskedKept ==
    ASSUME NetInv(Datagrams), NetInv(Datagrams)', NEW p \in Hosts, NEW h \in Hosts, NEW f,
           Longer(net[p][h], net'[p][h]), Knows(h, p)' <=> Knows(h, p), Asked(p, h, f)
    PROVE  Asked(p, h, f)'
<1>1. net[p][h] \in Seq(Datagrams) /\ net'[p][h] \in Seq(Datagrams)
  BY DEF NetInv, NetType
<1>2. AskedIn(net'[p][h], f, Knows(h, p))
  BY <1>1, AskedLonger DEF Longer, Asked
<1>3. Knows(h, p)' = Knows(h, p)
  BY DEF Knows, Contains
<1>4. QED
  BY <1>2, <1>3 DEF Asked

LEMMA AskedRead ==
    ASSUME NetInv(Datagrams), NEW p \in Hosts, NEW h \in Hosts, NEW f, net[p][h] # <<>>,
           net'[p][h] = Tail(net[p][h]),
           Knows(h, p)' <=> IF Head(net[p][h]).type \in {"new", "leave"}
                            THEN Head(net[p][h]).type = "new" ELSE Knows(h, p),
           Asked(p, h, f)
    PROVE  (Head(net[p][h]) = RequestMsg(f) /\ Knows(h, p)) \/ Asked(p, h, f)'
<1>1. net[p][h] \in Seq(Datagrams) /\ Knows(h, p) \in BOOLEAN /\ Knows(h, p)' \in BOOLEAN
  BY PairTypes DEF Knows, Contains
<1>2. \/ Head(net[p][h]) = RequestMsg(f) /\ Knows(h, p)
      \/ AskedIn(Tail(net[p][h]), f, Knows(h, p)')
  BY <1>1, AskedTail DEF Asked
<1>3. QED
  BY <1>2 DEF Asked

\* The downloads go on.
LEMMA FetchingKept ==
    ASSUME NEW p \in Hosts, NEW h \in Hosts, NEW f, inputs[h] \subseteq inputs'[h],
           \A t \in inputs[h] : t.peer = p /\ t.file = f /\ Pending(h, t) => Pending(h, t)',
           Fetching(p, h, f)
    PROVE  Fetching(p, h, f)'
BY DEF Fetching

\* No wanted file is listed without its data.
AllStored == \A f \in Wanted : \A p \in Hosts : Has(p, f) => f \in disk[p]

\* The invariants, as long as no datagram is lost.
Sound == DistInv /\ OriginInv /\ PortsInv /\ Reliable

\* A step that leaves the entries of f, the transfers and the channels alone, or
\* only sends something that is no TRANSFER_INIT.
LEMMA FrameSafe ==
    ASSUME Sound, NetInv(Datagrams)', NEW f \in Files, Safe(f), Running(f)',
           UNCHANGED <<inputs, outputs>>,
           \A p \in Hosts : /\ Holds(p, f) => Holds(p, f)'
                            /\ Away(p, f)' <=> Away(p, f)
                            /\ Tired(p, f)' => Tired(p, f)
                            /\ Has(p, f) => update'[p] \/ (~update[p] /\ Home(p, f)' = Home(p, f)),
           \A p, h \in Hosts :
              Has(p, f) /\ Open(h) => Longer(net[p][h], net'[p][h]) /\ (Knows(h, p)' <=> Knows(h, p)),
           \A p, h \in Hosts :
              /\ OnWay(p, h) \subseteq OnWay(p, h)'
              /\ \A m \in OnWay(p, h)' : m \in OnWay(p, h) \/ m.type # "init"
    PROVE  Safe(f)'
<1>1. inputs \in [Hosts -> SUBSET Inputs]
  BY DEF Sound, DistInv, FilesInv
<1>2. ASSUME NEW p \in Hosts, NEW t \in inputs[p]
      PROVE  Pending(p, t)' <=> Pending(p, t)
  <2>1. t.peer \in Hosts /\ InitMsg(t).type = "init"
    BY <1>1 DEF Inputs, InitMsg
  <2>2. InitMsg(t) \in OnWay(p, t.peer)' <=> InitMsg(t) \in OnWay(p, t.peer)
    BY <2>1
  <2>3. QED
    BY <2>2 DEF Pending
<1>3. ASSUME NEW p \in Hosts, Stuck(p, f)
      PROVE  Stuck(p, f)'
  BY <1>2, <1>3 DEF Stuck
<1>4. ASSUME NEW p \in Hosts, NEW h \in Hosts, Away(p, f), ~update[p], Promised(p, h, f)
      PROVE  Promised(p, h, f)'
  <2>1. Has(p, f)
    BY <1>4, AwayFacts DEF Sound
  <2>2. CASE Leaving(h, p)
    BY <2>2 DEF Leaving, Promised
  <2>3. CASE Asked(p, h, f)
    <3>1. net[p][h] # <<>>
      BY <2>3 DEF Asked, AskedIn
    <3>2. Open(h)
      BY <3>1 DEF Sound, DistInv, ViewsInv, Deaf
    <3>3. QED
      BY <2>1, <2>3, <3>2, AskedKept DEF Promised, Sound, DistInv
  <2>4. CASE Fetching(p, h, f)
    <3>1. Fetching(p, h, f)'
      BY <1>2, <2>4, FetchingKept
    <3>2. QED
      BY <3>1 DEF Promised
  <2>5. CASE Holds(h, f)
    BY <2>5 DEF Promised
  <2>6. QED
    BY <1>4, <2>2, <2>3, <2>4, <2>5 DEF Promised
<1>5. QED
  BY <1>3, <1>4, SafeKept DEF Sound

\* ListedFacts, after a step.
LEMMA ListedNext ==
    ASSUME FilesInv', NEW p \in Hosts
    PROVE  \A f : Has(p, f)' <=> \E e \in Listed(p)' : e.file = f
<1>1. files'[p] \in Seq(Entries)
  BY DEF FilesInv
<1>2. QED
  BY <1>1 DEF Listed, Has, ToSet

\* Of the entries of f, which are those of before.
LEMMA EntriesSame ==
    ASSUME FilesInv, FilesInv', NEW p \in Hosts, NEW f,
           \A e \in Listed(p) \cup Listed(p)' : e.file = f => (e \in Listed(p)' <=> e \in Listed(p))
    PROVE  /\ Has(p, f)' <=> Has(p, f)
           /\ Away(p, f)' <=> Away(p, f)
           /\ Tired(p, f)' <=> Tired(p, f)
<1>1. Has(p, f) <=> \E e \in Listed(p) : e.file = f
  BY ListedFacts
<1>2. Has(p, f)' <=> \E e \in Listed(p)' : e.file = f
  BY ListedNext
<1>3. QED
  BY <1>1, <1>2 DEF Away, Tired

\* A file that is added again is safe as it was: its new entry is local, and its
\* host is going to look again.
LEMMA AddSafe ==
    ASSUME Sound, DistInv', NEW p \in Hosts, NEW g \in Files, AddFile(p, g),
           NEW f \in Files, f \in added => Safe(f), f \in added',
           \A q \in Hosts : <<q, f>> \notin unwritten'
    PROVE  Safe(f)'
<1>1. /\ Open(p) /\ added' = added \cup {g}
      /\ update' = [update EXCEPT ![p] = TRUE]
      /\ UNCHANGED <<phase, nodes, net, inputs, outputs>>
  BY DEF AddFile, memberVars, vars
<1>2. FilesInv /\ FilesInv' /\ NetInv(Datagrams)'
  BY DEF Sound, DistInv
<1>3. /\ \A q \in Hosts : Listed(q)' = IF q = p THEN Listed(p) \cup {File(g)} ELSE Listed(q)
      /\ \A q \in Hosts : disk'[q] \subseteq disk[q] \cup {g} /\ disk[q] \subseteq disk'[q] \cup {g}
      /\ \A q \in Hosts \ {p} : disk'[q] = disk[q]
      /\ g \in disk'[p] \/ <<p, g>> \in unwritten'
  BY StoreElements DEF AddFile, Sound
<1>4. \A q \in Hosts : update'[q] = IF q = p THEN TRUE ELSE update[q]
  BY <1>1, <1>2 DEF FilesInv
<1>5. \A q \in Hosts : (Open(q)' <=> Open(q)) /\ (Receiving(q, f)' <=> Receiving(q, f))
  BY <1>1 DEF Open, Receiving
<1>6. File(g).file = g /\ File(g).local
  BY DEF File
<1>7. \A q \in Hosts : /\ Has(q, f) <=> \E e \in Listed(q) : e.file = f
                       /\ Has(q, f)' <=> \E e \in Listed(q)' : e.file = f
  BY <1>2, ListedFacts, ListedNext
<1>8. CASE f \notin added
  <2>1. f = g /\ \A q \in Hosts : /\ \A e \in Listed(q) : e.file # f
                                  /\ f \notin disk[q] /\ ~Receiving(q, f)
    BY <1>1, <1>8 DEF Sound, OriginInv, EntriesOrigin, DisksOrigin, TransfersOrigin, Receiving
  <2>2. ASSUME NEW q \in Hosts
        PROVE  /\ Has(q, f)' <=> q = p
               /\ ~Away(q, f)' /\ ~Tired(q, f)' /\ ~Receiving(q, f)'
               /\ f \in disk'[q] <=> q = p
    BY <1>3, <1>5, <1>6, <1>7, <2>1 DEF Away, Tired
  <2>3. Running(f)' /\ Given(f)' /\ Fresh(f)' /\ Relied(f)'
    BY <1>1, <1>5, <2>2 DEF Running, Given, Fresh, Relied
  <2>4. Holds(p, f)' /\ update'[p]
    BY <1>4, <2>2 DEF Holds
  <2>5. QED
    BY <2>3, <2>4 DEF Safe, Anchored
<1>9. CASE f \in added
  <2>1. Safe(f)
    BY <1>9
  <2>2. ASSUME NEW q \in Hosts
        PROVE  /\ Has(q, f) => Has(q, f)'
               /\ Has(q, f)' => Has(q, f) \/ q = p
               /\ Away(q, f)' <=> Away(q, f)
               /\ Tired(q, f)' <=> Tired(q, f)
               /\ f \in disk[q] => f \in disk'[q]
               /\ f \in disk'[q] => f \in disk[q] \/ q = p
               /\ Home(q, f)' = Home(q, f)
    <3>1. /\ Has(q, f) => Has(q, f)'
          /\ Has(q, f)' => Has(q, f) \/ q = p
      BY <1>3, <1>7
    <3>2. /\ Away(q, f)' <=> Away(q, f)
          /\ Tired(q, f)' <=> Tired(q, f)
      BY <1>3, <1>6 DEF Away, Tired
    <3>3. /\ f \in disk[q] => f \in disk'[q]
          /\ f \in disk'[q] => f \in disk[q] \/ q = p
      BY <1>3
    <3>4. QED
      BY <1>1, <3>1, <3>2, <3>3 DEF Home
  <2>3. Running(f)'
    BY <1>1, <1>5, <2>1, <2>2 DEF Safe, Running
  <2>4. \A q, h \in Hosts : /\ Longer(net[q][h], net'[q][h]) /\ (Knows(h, q)' <=> Knows(h, q))
                            /\ OnWay(q, h)' = OnWay(q, h)
    <3>1. \A q, h \in Hosts : net[q][h] \in Seq(Datagrams)
      BY DEF Sound, DistInv, NetInv, NetType
    <3>2. QED
      BY <1>1, <3>1 DEF Longer, Knows, OnWay
  <2>5. QED
    BY <1>1, <1>2, <1>4, <2>1, <2>2, <2>3, <2>4, FrameSafe DEF Holds
<1>10. QED
  BY <1>8, <1>9

\* Sending puts one datagram behind the others.
LEMMA SentLonger ==
    ASSUME NetInv(Datagrams), NEW p \in Hosts, NEW to, NEW m \in Datagrams,
           net' = Sent(net, p, to, m), NEW r \in Hosts, NEW s \in Hosts
    PROVE  /\ Longer(net[s][r], net'[s][r])
           /\ OnWay(s, r)' = OnWay(s, r) \cup (IF s = p /\ r \in to \ {p} /\ Open(r) THEN {m} ELSE {})
<1>1. net \in NetType(Datagrams) /\ net[s][r] \in Seq(Datagrams)
  BY DEF NetInv, NetType
<1>2. net'[s][r] = IF s = p /\ r \in to \ {p} /\ Open(r) THEN Append(net[s][r], m) ELSE net[s][r]
  <2>1. Sent(net, p, to, m)[s][r] =
           IF s = p /\ r \in to \ {p} /\ Open(r) THEN Append(net[s][r], m) ELSE net[s][r]
    BY <1>1 DEF NetType, Sent
  <2>2. QED
    BY <2>1
<1>3. Longer(net[s][r], Append(net[s][r], m)) /\ Longer(net[s][r], net[s][r])
  BY <1>1 DEF Longer
<1>4. ToSet(net'[s][r]) =
         ToSet(net[s][r]) \cup (IF s = p /\ r \in to \ {p} /\ Open(r) THEN {m} ELSE {})
  <2>1. ToSet(Sent(net, p, to, m)[s][r]) =
           ToSet(net[s][r]) \cup (IF s = p /\ r \in to \ {p} /\ Open(r) THEN {m} ELSE {})
    BY <1>1, SentMessages
  <2>2. QED
    BY <2>1
<1>5. QED
  BY <1>2, <1>3, <1>4 DEF OnWay

\* A step that leaves lists, directories, transfers and the views of the
\* running hosts alone.
LEMMA ViewKeptSafe ==
    ASSUME Sound, DistInv', NEW f \in Files, Safe(f),
           UNCHANGED <<files, disk, inputs, outputs, update>>,
           \A p \in Hosts : Open(p) => Open(p)' /\ nodes'[p] = nodes[p],
           \A p, h \in Hosts :
              /\ Longer(net[p][h], net'[p][h]) /\ OnWay(p, h) \subseteq OnWay(p, h)'
              /\ \A m \in OnWay(p, h)' : m \in OnWay(p, h) \/ m.type # "init"
    PROVE  Safe(f)'
<1>1. ASSUME NEW p \in Hosts
      PROVE  /\ Has(p, f)' <=> Has(p, f)
             /\ Away(p, f)' <=> Away(p, f)
             /\ Tired(p, f)' <=> Tired(p, f)
             /\ Holds(p, f)' <=> Holds(p, f)
             /\ Receiving(p, f)' <=> Receiving(p, f)
  BY DEF Has, Away, Tired, Listed, Holds, Receiving
<1>2. Running(f)'
  BY <1>1 DEF Safe, Running
<1>3. \A p \in Hosts : Has(p, f) => Open(p)
  BY DEF Safe, Running
<1>4. \A p \in Hosts : Has(p, f) => update'[p] \/ (~update[p] /\ Home(p, f)' = Home(p, f))
  BY <1>3 DEF Home
<1>5. \A h \in Hosts : Open(h) => \A p \in Hosts : Knows(h, p)' <=> Knows(h, p)
  BY DEF Knows
<1>6. NetInv(Datagrams)'
  BY DEF DistInv
<1>7. QED
  BY <1>1, <1>2, <1>4, <1>5, <1>6, FrameSafe

LEMMA CalmStepsSafe ==
    ASSUME Sound, DistInv', NEW f \in Files, Safe(f), NEW p \in Hosts,
           \/ StopService(p) \/ (Start(p) /\ UNCHANGED fileVars)
           \/ \E g \in Files : RemoveFile(p, g)
           \/ Announce(p) /\ UNCHANGED fileVars
           \/ ReceiveNothing(p)
    PROVE  Safe(f)'
<1>1. UNCHANGED <<files, disk, inputs, outputs, update>>
  BY DEF StopService, RemoveFile, ReceiveNothing, fileVars
<1>2. phase \in [Hosts -> Phases] /\ nodes \in [Hosts -> Seq(Hosts)]
  BY DEF Sound, DistInv, IInv, Controls
<1>3. \A q \in Hosts : Open(q) => Open(q)' /\ nodes'[q] = nodes[q]
  <2>1. CASE StopService(p) \/ \E g \in Files : RemoveFile(p, g)
    BY <2>1 DEF StopService, Stop, RemoveFile, memberVars, vars, Open
  <2>2. CASE Start(p)
    BY <1>2, <2>2 DEF Start, Open
  <2>3. CASE Announce(p) \/ ReceiveNothing(p)
    BY <1>2, <2>3 DEF Announce, ReceiveNothing, EndTurn, Open
  <2>4. QED
    BY <2>1, <2>2, <2>3
<1>4. ASSUME NEW q \in Hosts, NEW h \in Hosts
      PROVE  /\ Longer(net[q][h], net'[q][h]) /\ OnWay(q, h) \subseteq OnWay(q, h)'
             /\ \A m \in OnWay(q, h)' : m \in OnWay(q, h) \/ m.type # "init"
  <2>1. net[q][h] \in Seq(Datagrams)
    BY DEF Sound, DistInv, NetInv, NetType
  <2>2. CASE net' = net
    BY <2>1, <2>2 DEF Longer, OnWay
  <2>3. CASE Announce(p)
    <3>1. NewMsg \in Datagrams /\ NewMsg.type # "init"
      BY DEF Datagrams, Messages, NewMsg
    <3>2. net' = Sent(net, p, SamePort(p), NewMsg)
      BY <2>3 DEF Announce
    <3>3. QED
      BY <3>1, <3>2, SentLonger DEF Sound, DistInv
  <2>4. QED
    BY <2>2, <2>3 DEF StopService, Stop, Start, RemoveFile, memberVars, vars, ReceiveNothing
<1>5. QED
  BY <1>1, <1>3, <1>4, ViewKeptSafe

\* A host that is known and will not be, if all that is on its way is read, has
\* said farewell.
LEMMA ForgottenLeave ==
    ASSUME NEW chan \in Seq(Datagrams), NEW n \in 0 .. Len(chan), Forgotten(chan, n, TRUE)
    PROVE  LeaveMsg \in ToSet(chan)
<1>1. Len(chan) \in Nat /\ DOMAIN chan = 1 .. Len(chan)
  OBVIOUS
<1>2. PICK k \in 1 .. n : chan[k].type = "leave"
  BY DEF Forgotten
<1>3. k \in DOMAIN chan /\ chan[k] \in Datagrams
  BY <1>1
<1>4. chan[k] = LeaveMsg
  <2>1. chan[k] \in Messages
    BY <1>2, <1>3, DatagramFacts DEF Carries
  <2>2. QED
    BY <1>2, <2>1 DEF Messages, NewMsg, LeaveMsg
<1>5. QED
  BY <1>3, <1>4 DEF ToSet

\* What p gives away goes to a host that will know p when it reads that, or whose
\* farewell p has not read yet.
LEMMA KnownOrLeaving ==
    ASSUME \A p, q \in Hosts : Port[p] = Port[q], Sound,
           NEW p \in Hosts, NEW h \in Hosts, h # p, Open(p), Announced(p), Knows(p, h)
    PROVE  (Open(h) /\ WillKnow(h, p)) \/ Leaving(h, p)
<1>1. Peers(p, h) /\ Peers(h, p)
  BY DEF Peers
<1>2. net[h][p] \in Seq(Datagrams) /\ Len(net[h][p]) \in Nat
  BY DEF Sound, DistInv, NetInv, NetType
<1>3. Knows(p, h) = TRUE
  BY DEF Knows, Contains
<1>4. CASE ~Announced(h)
  <2>1. ~WillKnow(p, h)
    BY <1>1, <1>4 DEF Sound, DistInv, ViewsInv, Unseen
  <2>2. Forgotten(net[h][p], Len(net[h][p]), TRUE)
    BY <1>3, <2>1 DEF WillKnow, Learned
  <2>3. Len(net[h][p]) \in 0 .. Len(net[h][p])
    BY <1>2
  <2>4. QED
    BY <1>2, <2>2, <2>3, ForgottenLeave DEF Leaving, OnWay
<1>5. CASE Announced(h) /\ ~WillKnow(h, p)
  <2>1. WillAnswer(p, h)
    BY <1>1, <1>5 DEF Sound, DistInv, ViewsInv, Met
  <2>2. PICK i \in 1 .. Len(net[h][p]) : Forgotten(net[h][p], i - 1, TRUE)
    BY <1>3, <2>1 DEF WillAnswer, Answers
  <2>3. i - 1 \in 0 .. Len(net[h][p])
    BY <1>2
  <2>4. QED
    BY <1>2, <2>2, <2>3, ForgottenLeave DEF Leaving, OnWay
<1>6. Announced(h) => Open(h)
  BY DEF Announced, Open
<1>7. QED
  BY <1>4, <1>5, <1>6

LEMMA LocalitySafe ==
    ASSUME \A p, q \in Hosts : Port[p] = Port[q], Sound, DistInv',
           NEW p \in Hosts, HandleFilesLocality(p), NEW f \in Files, Safe(f)
    PROVE  Safe(f)'
<1>1. /\ UNCHANGED <<disk, inputs, outputs, nodes, phase>> /\ phase[p] = "turn"
      /\ \A q \in Hosts : update'[q] = IF q = p THEN FALSE ELSE update[q]
      /\ FilesInv /\ FilesInv' /\ update[p] \in BOOLEAN
  BY DEF HandleFilesLocality, Sound, DistInv, FilesInv
<1>2. CASE ~update[p]
  <2>1. files' = files /\ net' = net /\ update' = update
    BY <1>1, <1>2 DEF HandleFilesLocality, FilesInv
  <2>2. \A q, h \in Hosts : Longer(net[q][h], net'[q][h]) /\ OnWay(q, h)' = OnWay(q, h)
    <3>1. \A q, h \in Hosts : net[q][h] \in Seq(Datagrams)
      BY DEF Sound, DistInv, NetInv, NetType
    <3>2. QED
      BY <2>1, <3>1 DEF Longer, OnWay
  <2>3. \A q \in Hosts : Open(q)' <=> Open(q)
    BY <1>1 DEF Open
  <2>4. QED
    BY <1>1, <2>1, <2>2, <2>3, ViewKeptSafe
<1>3. CASE update[p]
  <2>1. \A q \in Hosts : Listed(q)' = IF q = p THEN ToSet(Placed(p)) ELSE Listed(q)
    BY <1>1, <1>3 DEF HandleFilesLocality, FilesInv, Listed
  <2>2. \A q \in Hosts : /\ Home(q, f)' = Home(q, f)
                         /\ Open(q)' <=> Open(q)
                         /\ Receiving(q, f)' <=> Receiving(q, f)
    BY <1>1 DEF Home, Open, Receiving
  <2>3. files[p] \in Seq(Entries) /\ FullTTL \in Int /\ ~(FullTTL <= 0)
    <3>1. FullTTL \in Int /\ FullTTL > 0
      BY TimesFacts
    <3>2. QED
      BY <1>1, <3>1 DEF FilesInv
  <2>4. ASSUME NEW q \in Hosts
        PROVE  /\ Has(q, f)' <=> Has(q, f)
               /\ Holds(q, f)' <=> Holds(q, f)
               /\ q # p => (Away(q, f)' <=> Away(q, f)) /\ (Tired(q, f)' <=> Tired(q, f))
               /\ Away(p, f)' <=> Has(p, f) /\ Home(p, f) # p
               /\ ~Tired(p, f)'
    <3>1. /\ Has(q, f) <=> \E e \in Listed(q) : e.file = f
          /\ Has(q, f)' <=> \E e \in Listed(q)' : e.file = f
          /\ Has(p, f) <=> \E e \in Listed(p) : e.file = f
      BY <1>1, ListedFacts, ListedNext
    <3>2. Has(q, f)' <=> Has(q, f)
      BY <2>1, <2>3, <3>1, PlacedElements
    <3>3. Holds(q, f)' <=> Holds(q, f)
      BY <1>1, <3>2 DEF Holds
    <3>4. (Away(p, f)' <=> Has(p, f) /\ Home(p, f) # p) /\ ~Tired(p, f)'
      BY <2>1, <2>3, <3>1, PlacedElements DEF Away, Tired
    <3>5. q # p => (Away(q, f)' <=> Away(q, f)) /\ (Tired(q, f)' <=> Tired(q, f))
      BY <2>1 DEF Away, Tired
    <3>6. QED
      BY <3>2, <3>3, <3>4, <3>5
  <2>5. ASSUME NEW q \in Hosts, NEW h \in Hosts
        PROVE  /\ OnWay(q, h) \subseteq OnWay(q, h)'
               /\ \A m \in OnWay(q, h)' : m \in OnWay(q, h) \/ m.type = "request"
               /\ q # p => net'[q][h] = net[q][h]
    <3>1. OnWay(q, h)' = OnWay(q, h) \cup
             (IF update[p] /\ q = p /\ Open(h) THEN ToSet(RequestsFor(p, h)) ELSE {})
      BY LocalityMessages DEF Sound
    <3>2. \A m \in ToSet(RequestsFor(p, h)) : m.type = "request"
      BY <1>1, RequestsElements DEF RequestMsg
    <3>3. q # p => net'[q][h] = net[q][h]
      BY LocalityChannel DEF Sound
    <3>4. QED
      BY <3>1, <3>2, <3>3
  <2>6. ASSUME NEW q \in Hosts, NEW t \in inputs[q]
        PROVE  Pending(q, t)' <=> Pending(q, t)
    <3>1. t.peer \in Hosts /\ InitMsg(t).type = "init"
      BY <1>1 DEF FilesInv, Inputs, InitMsg
    <3>2. InitMsg(t) \in OnWay(q, t.peer)' <=> InitMsg(t) \in OnWay(q, t.peer)
      BY <2>5, <3>1
    <3>3. QED
      BY <1>1, <3>2 DEF Pending
  <2>7. ASSUME NEW q \in Hosts, NEW h \in Hosts, q # p, Promised(q, h, f)
        PROVE  Promised(q, h, f)'
    <3>1. Asked(q, h, f) => Asked(q, h, f)'
      BY <1>1, <2>5, <2>7 DEF Asked, Knows
    <3>2. Fetching(q, h, f) => Fetching(q, h, f)'
      BY <1>1, <2>6, FetchingKept
    <3>3. (Leaving(h, q) => Leaving(h, q)') /\ (Holds(h, f) => Holds(h, f)')
      BY <2>4, <2>5 DEF Leaving
    <3>4. QED
      BY <1>1, <2>7, <3>1, <3>2, <3>3 DEF Promised
  <2>8. ASSUME Has(p, f), NEW h \in Hosts, h = Home(p, f), h # p
        PROVE  Promised(p, h, f)'
    <3>1. Open(p) /\ Announced(p) /\ Knows(p, h)
      BY <1>1, <2>8, HomeFacts DEF Safe, Running, Announced, Sound
    <3>2. CASE Leaving(h, p)
      BY <2>5, <3>2 DEF Leaving, Promised
    <3>3. CASE Open(h) /\ WillKnow(h, p)
      <4>1. net[p][h] \in Seq(Datagrams) /\ RequestsFor(p, h) \in Seq(RequestMsgs)
        BY <2>3, RequestsList DEF Sound, DistInv, NetInv, NetType
      <4>2. RequestMsg(f) \in ToSet(RequestsFor(p, h))
        BY <1>1, <2>8, ListedFacts, RequestsElements
      <4>3. AskedIn(net[p][h] \o RequestsFor(p, h), f, Knows(h, p))
        BY <3>3, <4>1, <4>2, AskedNow DEF WillKnow
      <4>4. net'[p][h] = net[p][h] \o RequestsFor(p, h) /\ Knows(h, p)' = Knows(h, p)
        BY <1>1, <1>3, <3>3, LocalityChannel DEF Sound, Knows
      <4>5. QED
        BY <4>3, <4>4 DEF Asked, Promised
    <3>4. QED
      BY <2>8, <3>1, <3>2, <3>3, KnownOrLeaving
  <2>9. Running(f)' /\ Given(f)'
    <3>1. ASSUME NEW q \in Hosts, Away(q, f)'
          PROVE  update'[q] \/ Home(q, f)' # q
      BY <1>1, <2>2, <2>4, <3>1 DEF Safe, Given
    <3>2. QED
      BY <1>1, <2>2, <2>4, <3>1 DEF Safe, Running, Given
  <2>10. Fresh(f)'
    <3>1. ASSUME NEW q \in Hosts, Tired(q, f)'
          PROVE  Stuck(q, f)'
      BY <1>1, <2>4, <2>6, <3>1 DEF Safe, Fresh, Stuck
    <3>2. QED
      BY <3>1 DEF Fresh
  <2>11. Relied(f)'
    <3>1. ASSUME NEW q \in Hosts, Away(q, f)'
          PROVE  Promised(q, Home(q, f), f)'
      <4>1. Has(q, f) /\ Open(q)
        <5>1. q = p => Has(q, f)
          BY <2>4, <3>1
        <5>2. q # p => Has(q, f)
          BY <2>4, <3>1, AwayFacts DEF Sound
        <5>3. QED
          BY <5>1, <5>2 DEF Safe, Running
      <4>2. PICK h \in Hosts : h = Home(q, f)
        BY <4>1, HomeFacts DEF Sound
      <4>3. Promised(q, h, f)'
        BY <2>4, <2>7, <2>8, <3>1, <4>1, <4>2, AwayFacts DEF Sound
      <4>4. Home(q, f)' = h
        BY <2>2, <4>2
      <4>5. QED
        BY <4>3, <4>4
    <3>2. QED
      BY <3>1 DEF Relied
  <2>12. Anchored(f)'
    <3>1. PICK q \in Hosts : Holds(q, f) /\ (update[q] \/ Away(q, f) \/ Home(q, f) = q)
      BY DEF Safe, Anchored
    <3>2. Holds(q, f)' /\ (update'[q] \/ Away(q, f)' \/ Home(q, f)' = q)
      BY <1>1, <2>2, <2>4, <3>1 DEF Holds
    <3>3. QED
      BY <3>2 DEF Anchored
  <2>13. QED
    BY <2>9, <2>10, <2>11, <2>12 DEF Safe
<1>4. QED
  BY <1>2, <1>3

\* Distribution has no Ping and no crash.
Steady == crashes = 0 /\ toPing = [p \in Hosts |-> NoHost]

\* When all is calm, the home on which the hosts agree has the file and keeps it.
LEMMA CalmFacts ==
    ASSUME IsStrictTotalOrder(Hosts), \A p, q \in Hosts : Port[p] = Port[q],
           Sound, OrderInv, Steady, Calm, NEW f \in Files, Safe(f)
    PROVE  \E h \in Hosts : /\ Open(h) /\ Holds(h, f) /\ ~Away(h, f)
                            /\ \A p \in Hosts : Open(p) => Home(p, f) = h
<1>1. /\ \A p \in Hosts : Open(p) => ~update[p]
      /\ \A p, q \in Hosts : net[p][q] = <<>>
      /\ \A p \in Hosts : outputs[p] = {} /\ \A t \in inputs[p] : t.stage = "wait"
  BY DEF Calm, Handled
<1>2. Quiet /\ Reliable
  BY DEF Calm, Handled, Quiet, Steady, Sound
<1>3. Agreement
  BY OrderSafe, ViewsSafe, OneListSafe DEF Sound, DistInv
<1>4. \A p, q \in Hosts : Open(p) /\ Open(q) => Home(p, f) = Home(q, f)
  BY <1>2, <1>3 DEF Agreement, Home
<1>5. \A p, q \in Hosts : OnWay(p, q) = {}
  <2>1. ToSet(<<>>) = {}
    BY EmptyFacts, ElementsType
  <2>2. QED
    BY <1>1, <2>1 DEF OnWay
<1>6. ASSUME NEW p \in Hosts, Away(p, f)
      PROVE  Holds(Home(p, f), f)
  <2>1. Open(p) /\ Promised(p, Home(p, f), f) /\ Home(p, f) \in Hosts
    BY <1>6, AwayFacts DEF Sound
  <2>2. PICK h \in Hosts : h = Home(p, f)
    BY <2>1
  <2>3. ~update[p] /\ ~Leaving(h, p)
    BY <1>1, <1>5, <2>1 DEF Leaving
  <2>4. ~Asked(p, h, f)
    <3>1. net[p][h] = <<>> /\ 1 .. Len(<<>>) = {}
      BY <1>1
    <3>2. QED
      BY <3>1 DEF Asked, AskedIn
  <2>5. ~Fetching(p, h, f)
    <3>1. ASSUME NEW t \in inputs[h]
          PROVE  ~(t.stage = "data" \/ (t.peer = p /\ (t.stage = "wait" => Pending(h, t))))
      <4>1. t.stage = "wait"
        BY <1>1
      <4>2. t.peer = p => ~Pending(h, t)
        BY <1>1, <1>5 DEF Pending
      <4>3. QED
        BY <4>1, <4>2
    <3>2. QED
      BY <3>1 DEF Fetching
  <2>6. QED
    BY <2>1, <2>2, <2>3, <2>4, <2>5 DEF Promised
<1>7. PICK p \in Hosts : Holds(p, f) /\ (update[p] \/ Away(p, f) \/ Home(p, f) = p)
  BY DEF Safe, Anchored
<1>8. Open(p) /\ Home(p, f) \in Hosts
  <2>1. Open(p)
    BY <1>7 DEF Safe, Running, Holds
  <2>2. QED
    BY <2>1, HomeFacts DEF Sound
<1>9. PICK h \in Hosts : h = Home(p, f)
  BY <1>8
<1>10. Holds(h, f)
  BY <1>1, <1>6, <1>7, <1>8, <1>9
<1>11. Open(h)
  BY <1>10 DEF Safe, Running, Holds
<1>12. \A q \in Hosts : Open(q) => Home(q, f) = h
  BY <1>4, <1>8, <1>9
<1>13. ~Away(h, f)
  BY <1>1, <1>11, <1>12 DEF Safe, Given
<1>14. QED
  BY <1>10, <1>11, <1>12, <1>13

LEMMA HandlingSafe ==
    ASSUME IsStrictTotalOrder(Hosts), \A p, q \in Hosts : Port[p] = Port[q], Prompt,
           Sound, OrderInv, Steady, DistInv', NEW p \in Hosts, NEW diff \in 0 .. MaxGap,
           HandleFiles(p, diff), NEW f \in Files, f \notin removed, Safe(f)
    PROVE  Safe(f)'
<1>1. /\ UNCHANGED <<update, inputs, outputs, nodes, phase>>
      /\ FilesInv /\ FilesInv' /\ NetInv(Datagrams)' /\ diff \in Nat
      /\ diff > 0 => Calm
  BY DEF HandleFiles, Sound, DistInv, SecondsPass
<1>2. f # toRemove[p]
  BY FilesAssumption DEF Sound, OriginInv, DisksOrigin
<1>3. ASSUME NEW q \in Hosts, NEW h \in Hosts
      PROVE  /\ Longer(net[q][h], net'[q][h]) /\ OnWay(q, h) \subseteq OnWay(q, h)'
             /\ \A m \in OnWay(q, h)' : m \in OnWay(q, h) \/ m.type = "remove"
  <2>1. net[q][h] \in Seq(Datagrams)
    BY DEF Sound, DistInv, NetInv, NetType
  <2>2. CASE toRemove[p] = NoFile
    BY <2>1, <2>2 DEF HandleFiles, Longer, OnWay
  <2>3. CASE toRemove[p] # NoFile
    <3> DEFINE m == [type |-> "remove", file |-> toRemove[p]]
               to == SamePort(p) \cup ToSet(nodes[p])
    <3>1. m \in Datagrams /\ m.type = "remove"
      BY <1>1, <2>3 DEF FilesInv, Datagrams, RemoveMsgs
    <3>2. net' = Sent(net, p, to, m)
      BY <2>3 DEF HandleFiles
    <3> HIDE DEF m, to
    <3>3. QED
      BY <3>1, <3>2, SentLonger DEF Sound, DistInv
  <2>4. QED
    BY <2>2, <2>3
<1>4. ASSUME NEW q \in Hosts
      PROVE  /\ Has(q, f)' => Has(q, f)
             /\ Away(q, f)' => Away(q, f)
             /\ disk'[q] \subseteq disk[q]
             /\ q # p => Listed(q)' = Listed(q) /\ disk'[q] = disk[q]
  <2>1. /\ Has(q, f) <=> \E e \in Listed(q) : e.file = f
        /\ Has(q, f)' <=> \E e \in Listed(q)' : e.file = f
    BY <1>1, ListedFacts, ListedNext
  <2>2. CASE q = p
    BY <1>1, <1>2, <2>1, <2>2, HandledElements DEF Away, Sound
  <2>3. CASE q # p
    BY <1>1, <2>1, <2>3, HandledElements DEF Away, Sound
  <2>4. QED
    BY <2>2, <2>3
<1>5. \A q \in Hosts : /\ Home(q, f)' = Home(q, f)
                       /\ Open(q)' <=> Open(q)
                       /\ Receiving(q, f)' <=> Receiving(q, f)
                       /\ \A h \in Hosts : Knows(h, q)' <=> Knows(h, q)
  BY <1>1 DEF Home, Open, Receiving, Knows
<1>6. Running(f)'
  BY <1>4, <1>5 DEF Safe, Running
<1>7. \A d \in Listed(p) : d.file = f => ~d.marked
  BY DEF Sound, OriginInv, EntriesOrigin
<1>8. ASSUME ~(\E d \in Listed(p) : d.file = f /\ (d.ttl <= 0 \/ diff > 0)
                                    /\ ~d.local /\ ~IsFileTransfer(p, f)),
             NEW q \in Hosts
      PROVE  (Holds(q, f) => Holds(q, f)') /\ (Away(q, f) => Away(q, f)')
  <2>1. /\ Has(q, f) <=> \E e \in Listed(q) : e.file = f
        /\ Has(q, f)' <=> \E e \in Listed(q)' : e.file = f
    BY <1>1, ListedFacts, ListedNext
  <2>2. CASE q = p
    <3>1. /\ f \in disk[p] => f \in disk'[p]
          /\ \A d \in Listed(p) : d.file = f => \E e \in Listed(p)' : e.file = f /\ e.local = d.local
      BY <1>1, <1>2, <1>7, <1>8, HandledElements DEF Sound
    <3>2. QED
      BY <2>1, <2>2, <3>1 DEF Holds, Away
  <2>3. CASE q # p
    BY <1>4, <2>1, <2>3 DEF Holds, Away
  <2>4. QED
    BY <2>2, <2>3
<1>9. CASE diff = 0
  <2>1. ~(\E d \in Listed(p) : d.file = f /\ (d.ttl <= 0 \/ diff > 0)
                               /\ ~d.local /\ ~IsFileTransfer(p, f))
    <3>1. ASSUME NEW d \in Listed(p), d.file = f, d.ttl <= 0, ~d.local
          PROVE  IsFileTransfer(p, f)
      BY <3>1 DEF Safe, Fresh, Tired, Stuck, IsFileTransfer
    <3>2. QED
      BY <1>9, <3>1
  <2>2. ASSUME NEW q \in Hosts
        PROVE  /\ Holds(q, f) => Holds(q, f)'
               /\ Away(q, f)' <=> Away(q, f)
               /\ Tired(q, f)' => Tired(q, f)
    <3>1. Tired(q, f)' => Tired(q, f)
      <4>1. CASE q = p
        BY <1>1, <1>2, <1>9, <4>1, HandledElements DEF Tired, Sound
      <4>2. CASE q # p
        BY <1>4, <4>2 DEF Tired
      <4>3. QED
        BY <4>1, <4>2
    <3>2. QED
      BY <1>4, <1>8, <2>1, <3>1
  <2>3. \A q \in Hosts : Has(q, f) => update'[q] \/ (~update[q] /\ Home(q, f)' = Home(q, f))
    BY <1>1, <1>5
  <2>4. QED
    BY <1>1, <1>3, <1>5, <1>6, <2>2, <2>3, FrameSafe
<1>10. CASE diff > 0
  <2>1. PICK h \in Hosts : /\ Open(h) /\ Holds(h, f) /\ ~Away(h, f)
                           /\ \A q \in Hosts : Open(q) => Home(q, f) = h
    BY <1>1, <1>10, CalmFacts
  <2>2. Holds(h, f)'
    <3>1. CASE h = p
      <4>1. ~(\E d \in Listed(p) : d.file = f /\ (d.ttl <= 0 \/ diff > 0)
                                   /\ ~d.local /\ ~IsFileTransfer(p, f))
        BY <2>1, <3>1 DEF Away
      <4>2. QED
        BY <1>8, <2>1, <4>1
    <3>2. CASE h # p
      BY <1>1, <1>4, <2>1, <3>2, ListedFacts, ListedNext DEF Holds
    <3>3. QED
      BY <3>1, <3>2
  <2>3. \A q \in Hosts : Away(q, f)' => q # h /\ Home(q, f)' = h
    <3>1. ASSUME NEW q \in Hosts, Away(q, f)'
          PROVE  q # h /\ Home(q, f)' = h
      <4>1. Away(q, f)
        BY <1>4, <3>1
      <4>2. QED
        BY <1>5, <2>1, <4>1, AwayFacts DEF Sound
    <3>2. QED
      BY <3>1
  <2>4. Given(f)' /\ Relied(f)'
    <3>1. ASSUME NEW q \in Hosts, Away(q, f)'
          PROVE  (update'[q] \/ Home(q, f)' # q) /\ Promised(q, Home(q, f), f)'
      <4>1. q # h /\ Home(q, f)' = h
        BY <2>3, <3>1
      <4>2. Promised(q, h, f)'
        BY <2>2 DEF Promised
      <4>3. QED
        BY <4>1, <4>2
    <3>2. QED
      BY <3>1 DEF Given, Relied
  <2>5. Anchored(f)'
    <3>1. Home(h, f)' = h
      BY <1>5, <2>1
    <3>2. QED
      BY <2>2, <3>1 DEF Anchored
  <2>6. ASSUME NEW q \in Hosts, Tired(q, f)'
        PROVE  Stuck(q, f)'
    <3>1. ASSUME NEW t \in inputs[q]
          PROVE  t.stage = "wait" /\ ~Pending(q, t)'
      <4>1. t.peer \in Hosts /\ InitMsg(t).type = "init"
        BY <1>1 DEF FilesInv, Inputs, InitMsg
      <4>2. t.stage = "wait" /\ outputs'[t.peer] = {} /\ net[q][t.peer] = <<>>
        BY <1>1, <1>10, <4>1 DEF Calm, Handled
      <4>3. InitMsg(t) \notin OnWay(q, t.peer)
        BY <4>2, EmptyFacts, ElementsType DEF OnWay
      <4>4. InitMsg(t) \notin OnWay(q, t.peer)'
        BY <1>3, <4>1, <4>3
      <4>5. QED
        BY <4>2, <4>4 DEF Pending
    <3>2. \E t \in inputs[q] : t.file = f
      <4>1. CASE q = p
        <5>1. PICK e \in Listed(p)' : e.file = f /\ ~e.local /\ e.ttl <= 0
          BY <2>6, <4>1 DEF Tired
        <5>2. ~Expired(p, e)
          BY <1>1, <5>1, HandledElements DEF Sound
        <5>3. IsFileTransfer(p, f)
          BY <5>1, <5>2 DEF Expired
        <5>4. outputs[p] = {}
          BY <1>1, <1>10 DEF Calm
        <5>5. QED
          BY <4>1, <5>3, <5>4 DEF IsFileTransfer
      <4>2. CASE q # p
        <5>1. Tired(q, f)
          BY <1>4, <2>6, <4>2 DEF Tired
        <5>2. QED
          BY <5>1 DEF Safe, Fresh, Stuck
      <4>3. QED
        BY <4>1, <4>2
    <3>3. QED
      BY <1>1, <3>1, <3>2 DEF Stuck
  <2>7. QED
    BY <1>6, <2>4, <2>5, <2>6 DEF Safe, Fresh
<1>11. QED
  BY <1>1, <1>9, <1>10

\* A host that stops takes along what it has; if that is not f, it tells those
\* that count on it.
LEMMA StoppingSafe ==
    ASSUME \A p, q \in Hosts : Port[p] = Port[q], Sound, AllStored, DistInv',
           NEW p \in Hosts, StopFiles(p),
           NEW f \in Files, f \in Wanted, f \notin left', Safe(f)
    PROVE  Safe(f)'
<1>1. /\ UNCHANGED <<update, inputs, outputs>>
      /\ \A q \in Hosts \ {p} : /\ files'[q] = files[q] /\ disk'[q] = disk[q]
                                /\ nodes'[q] = nodes[q] /\ phase'[q] = phase[q]
      /\ files'[p] = <<>> /\ disk'[p] = {}
  BY DEF StopFiles, Leave, Gone, Sound, DistInv, FilesInv, IInv, Controls
<1>2. FilesInv /\ FilesInv' /\ inputs \in [Hosts -> SUBSET Inputs]
  BY DEF Sound, DistInv, FilesInv
<1>3. f \notin disk[p] /\ ~Receiving(p, f) /\ ~Has(p, f) /\ ~Away(p, f) /\ ~Tired(p, f)
  <2>1. f \notin disk[p] /\ ~Receiving(p, f)
    BY DEF StopFiles, Receiving
  <2>2. ~Has(p, f)
    BY <2>1 DEF AllStored
  <2>3. QED
    BY <1>2, <2>1, <2>2, ListedFacts DEF Away, Tired
<1>4. ~Has(p, f)' /\ ~Away(p, f)' /\ ~Tired(p, f)'
  <2>1. Listed(p)' = {}
    BY <1>1, EmptyFacts, ElementsType DEF Listed
  <2>2. QED
    BY <1>2, <2>1, ListedNext DEF Away, Tired
<1>5. ASSUME NEW q \in Hosts, q # p
      PROVE  /\ Has(q, f)' <=> Has(q, f)
             /\ Holds(q, f)' <=> Holds(q, f)
             /\ Away(q, f)' <=> Away(q, f)
             /\ Tired(q, f)' <=> Tired(q, f)
             /\ Home(q, f)' = Home(q, f)
             /\ Open(q)' <=> Open(q)
             /\ Receiving(q, f)' <=> Receiving(q, f)
             /\ \A h : Knows(q, h)' <=> Knows(q, h)
  BY <1>1, <1>5 DEF Has, Holds, Away, Tired, Listed, Home, Open, Receiving, Knows
<1>6. Running(f)'
  BY <1>1, <1>3, <1>4, <1>5 DEF Safe, Running, Receiving
<1>7. ASSUME NEW q \in Hosts, Stuck(q, f)
      PROVE  Stuck(q, f)'
  <2>1. ASSUME NEW t \in inputs[q], Pending(q, t)'
        PROVE  Pending(q, t)
    <3>1. t.peer \in Hosts /\ InitMsg(t) \notin Messages
      BY <1>2 DEF Inputs, InitMsg, Messages, NewMsg, LeaveMsg
    <3>2. [Next]_vars
      BY StopFilesStep DEF Sound
    <3>3. OnWay(q, t.peer)' \subseteq OnWay(q, t.peer) \cup Messages
      BY <3>1, <3>2, MemberMessages DEF Sound, DistInv
    <3>4. QED
      BY <1>1, <2>1, <3>1, <3>3 DEF Pending
  <2>2. QED
    BY <1>1, <1>7, <2>1 DEF Stuck
<1>8. ASSUME NEW s \in Hosts, NEW r \in Hosts, r # p
      PROVE  net'[s][r] = IF s = p /\ Open(r) THEN Append(net[s][r], LeaveMsg) ELSE net[s][r]
  <2> DEFINE to == SamePort(p) \cup ToSet(nodes[p])
             n == Sent(net, p, to, LeaveMsg)
  <2>1. r \in to
    BY DEF SamePort
  <2>2. net \in NetType(Datagrams) /\ LeaveMsg \in Datagrams /\ net' = Closed(n, p)
    BY DEF Sound, DistInv, NetInv, Datagrams, Messages, StopFiles, Leave
  <2> HIDE DEF to
  <2>3. n \in NetType(Datagrams)
    BY <2>2, SentFacts
  <2>4. n[s][r] = IF s = p /\ Open(r) THEN Append(net[s][r], LeaveMsg) ELSE net[s][r]
    BY <1>8, <2>1, <2>2 DEF NetType, Sent
  <2> HIDE DEF n
  <2>5. Closed(n, p)[s][r] = n[s][r]
    BY <1>8, <2>3, ClosedChannel
  <2>6. QED
    BY <2>2, <2>4, <2>5
<1>9. ASSUME NEW q \in Hosts, NEW h \in Hosts, Away(q, f), ~update[q], h # q, Promised(q, h, f)
      PROVE  Promised(q, h, f)'
  <2>1. q # p /\ Open(q)
    BY <1>3, <1>9, AwayFacts DEF Sound
  <2>2. CASE h = p
    <3>1. net'[p][q] = Append(net[p][q], LeaveMsg) /\ net[p][q] \in Seq(Datagrams)
      BY <1>8, <2>1 DEF Sound, DistInv, NetInv, NetType
    <3>2. LeaveMsg \in ToSet(Append(net[p][q], LeaveMsg))
      BY <3>1, ElementsAppend DEF Datagrams, Messages
    <3>3. QED
      BY <2>2, <3>1, <3>2 DEF Promised, Leaving, OnWay
  <2>3. CASE h # p
    <3>1. net'[q][h] = net[q][h] /\ net'[h][q] = net[h][q]
      BY <1>8, <2>1, <2>3
    <3>2. OnWay(h, q)' = OnWay(h, q) /\ (Knows(h, q)' = Knows(h, q))
      BY <1>1, <2>3, <3>1 DEF OnWay, Knows
    <3>3. Asked(q, h, f) => Asked(q, h, f)'
      BY <3>1, <3>2 DEF Asked
    <3>4. Fetching(q, h, f) => Fetching(q, h, f)'
      <4>1. \A t \in inputs[h] : t.peer = q /\ t.file = f /\ Pending(h, t) => Pending(h, t)'
        BY <1>1, <3>2 DEF Pending
      <4>2. QED
        BY <1>1, <4>1, FetchingKept
    <3>5. QED
      BY <1>1, <1>5, <1>9, <2>3, <3>2, <3>3, <3>4 DEF Promised, Leaving
  <2>4. QED
    BY <2>2, <2>3
<1>10. ASSUME NEW q \in Hosts
       PROVE  /\ Holds(q, f) => Holds(q, f)'
              /\ Away(q, f)' <=> Away(q, f)
              /\ Tired(q, f)' => Tired(q, f)
              /\ Has(q, f) => update'[q] \/ (~update[q] /\ Home(q, f)' = Home(q, f))
  <2>1. update[q] \in BOOLEAN /\ update'[q] = update[q]
    BY <1>1, <1>2 DEF FilesInv
  <2>2. CASE q = p
    BY <1>3, <1>4, <2>2 DEF Holds
  <2>3. CASE q # p
    BY <1>5, <2>1, <2>3
  <2>4. QED
    BY <2>2, <2>3
<1>11. QED
  BY <1>6, <1>7, <1>9, <1>10, SafeKept DEF Sound

LEMMA LongerElements ==
    ASSUME NEW old \in Seq(Datagrams), NEW new \in Seq(Datagrams), Longer(old, new)
    PROVE  ToSet(old) \subseteq ToSet(new)
<1>1. Len(old) \in Nat /\ Len(new) \in Nat /\ DOMAIN old = 1 .. Len(old) /\ DOMAIN new = 1 .. Len(new)
  OBVIOUS
<1>2. \A i \in 1 .. Len(old) : i \in 1 .. Len(new) /\ new[i] = old[i]
  BY <1>1 DEF Longer
<1>3. QED
  BY <1>1, <1>2 DEF ToSet

\* One datagram is read, and others may be sent: what a host relies on remains,
\* or it is the request for the file, which is read.
LEMMA PromisedRead ==
    ASSUME NetInv(Datagrams), NetInv(Datagrams)', NEW q \in Hosts, NEW r \in Hosts,
           net[q][r] # <<>>, net'[q][r] = Tail(net[q][r]),
           Knows(r, q)' <=> IF Head(net[q][r]).type \in {"new", "leave"}
                            THEN Head(net[q][r]).type = "new" ELSE Knows(r, q),
           \A s, t \in Hosts : ~(s = q /\ t = r) =>
              Longer(net[s][t], net'[s][t]) /\ (Knows(t, s)' <=> Knows(t, s)),
           NEW p \in Hosts, NEW h \in Hosts, NEW f, ~update[p], Promised(p, h, f),
           Holds(h, f) => Holds(h, f)', Fetching(p, h, f) => Fetching(p, h, f)',
           p = r /\ h = q => Head(net[q][r]) # LeaveMsg
    PROVE  Promised(p, h, f)' \/ (p = q /\ h = r /\ Head(net[q][r]) = RequestMsg(f) /\ Knows(r, q))
<1>1. \A s, t \in Hosts : net[s][t] \in Seq(Datagrams) /\ net'[s][t] \in Seq(Datagrams)
  BY DEF NetInv, NetType
<1>2. CASE Leaving(h, p)
  <2>1. CASE p = r /\ h = q
    <3>1. ToSet(net[q][r]) \subseteq ToSet(Tail(net[q][r])) \cup {Head(net[q][r])}
      BY <1>1, ElementsTail
    <3>2. QED
      BY <1>2, <2>1, <3>1 DEF Leaving, OnWay, Promised
  <2>2. CASE ~(p = r /\ h = q)
    <3>1. ToSet(net[h][p]) \subseteq ToSet(net'[h][p])
      BY <1>1, <2>2, LongerElements
    <3>2. QED
      BY <1>2, <3>1 DEF Leaving, OnWay, Promised
  <2>3. QED
    BY <2>1, <2>2
<1>3. CASE Asked(p, h, f)
  <2>1. CASE p = q /\ h = r
    BY <1>3, <2>1, AskedRead DEF Promised
  <2>2. CASE ~(p = q /\ h = r)
    BY <1>3, <2>2, AskedKept DEF Promised
  <2>3. QED
    BY <2>1, <2>2
<1>4. QED
  BY <1>2, <1>3 DEF Promised

\* A host reads a datagram about files.
LEMMA FileReadSafe ==
    ASSUME Sound, DistInv', NEW p \in Hosts, NEW q \in Hosts,
           NEW type \in {"request", "init", "remove"}, FileMsg(p, q, type),
           NEW f \in Files, Safe(f), Running(f)',
           \A r \in Hosts : /\ Holds(r, f) => Holds(r, f)'
                            /\ Away(r, f)' <=> Away(r, f)
                            /\ Tired(r, f)' => Tired(r, f)
                            /\ Stuck(r, f) => Stuck(r, f)',
           \A r, h \in Hosts :
              Away(r, f) /\ Knows(r, h) /\ Fetching(r, h, f) => Fetching(r, h, f)',
           Away(q, f) /\ Head(net[q][p]) = RequestMsg(f) /\ Knows(p, q) => Promised(q, p, f)'
    PROVE  Safe(f)'
<1>1. /\ net[q][p] # <<>> /\ Head(net[q][p]).type = type /\ net' = Taken(net, q, p)
      /\ UNCHANGED <<nodes, update>>
  BY DEF FileMsg, Incoming
<1>2. net \in NetType(Datagrams) /\ NetInv(Datagrams) /\ NetInv(Datagrams)'
      /\ update \in [Hosts -> BOOLEAN]
  BY DEF Sound, DistInv, NetInv, FilesInv
<1>3. \A s, t \in Hosts : net'[s][t] = IF s = q /\ t = p THEN Tail(net[s][t]) ELSE net[s][t]
  BY <1>1, <1>2, TakenChannel
<1>4. \A s, t \in Hosts : ~(s = q /\ t = p) => Longer(net[s][t], net'[s][t])
  <2>1. \A s, t \in Hosts : net[s][t] \in Seq(Datagrams)
    BY <1>2 DEF NetType
  <2>2. QED
    BY <1>3, <2>1 DEF Longer
<1>5. (\A s, t \in Hosts : Knows(t, s)' <=> Knows(t, s)) /\ \A r \in Hosts : Home(r, f)' = Home(r, f)
  BY <1>1 DEF Knows, Home
<1>6. type \notin {"new", "leave"} /\ Head(net[q][p]) # LeaveMsg
  BY <1>1 DEF LeaveMsg
<1>7. ASSUME NEW r \in Hosts, NEW h \in Hosts, Away(r, f), ~update[r], h = Home(r, f), Promised(r, h, f)
      PROVE  Promised(r, h, f)'
  <2>1. Knows(r, h)
    BY <1>7, AwayFacts DEF Sound
  <2>2. \/ Promised(r, h, f)'
        \/ r = q /\ h = p /\ Head(net[q][p]) = RequestMsg(f) /\ Knows(p, q)
    BY <1>1, <1>2, <1>3, <1>4, <1>5, <1>6, <1>7, <2>1, PromisedRead
  <2>3. QED
    BY <1>7, <2>2
<1>8. \A r \in Hosts : update'[r] \/ (~update[r] /\ Home(r, f)' = Home(r, f))
  BY <1>1, <1>2, <1>5
<1>9. QED
  BY <1>7, <1>8, SafeKept DEF Sound

\* The removal of another file leaves f alone.
LEMMA RemovalSafe ==
    ASSUME Sound, DistInv', NEW p \in Hosts, NEW q \in Hosts, ReceiveRemove(p, q),
           NEW f \in Files, f \notin removed, Safe(f)
    PROVE  Safe(f)'
<1> DEFINE m == Head(net[q][p])
<1>1. /\ FileMsg(p, q, "remove") /\ net[q][p] # <<>> /\ m.type = "remove" /\ net' = Taken(net, q, p)
      /\ UNCHANGED <<disk, inputs, outputs, nodes>> /\ EndTurn(p)
      /\ files' = [files EXCEPT ![p] = Marked(@, m.file)]
  BY DEF ReceiveRemove, FileMsg, Incoming
<1>2. FilesInv /\ FilesInv' /\ phase \in [Hosts -> Phases] /\ phase[p] = "turn"
  BY DEF Sound, DistInv, IInv, Controls, ReceiveRemove, FileMsg, Incoming
<1>3. \A s, t \in Hosts : /\ OnWay(s, t)' \subseteq OnWay(s, t)
                          /\ \A x \in OnWay(s, t) : x \in OnWay(s, t)' \/ x.type = "remove"
                          /\ m \in OnWay(q, p)
  BY <1>1, ReadMessages DEF Sound
<1>4. m.file # f
  BY <1>1, <1>3 DEF Sound, OriginInv, DatagramsOrigin, Rightful
<1>5. ASSUME NEW r \in Hosts
      PROVE  /\ Has(r, f)' <=> Has(r, f)
             /\ Away(r, f)' <=> Away(r, f)
             /\ Tired(r, f)' <=> Tired(r, f)
  <2>1. Listed(r)' = IF r = p THEN ToSet(Marked(files[p], m.file)) ELSE Listed(r)
    BY <1>1, <1>2 DEF FilesInv, Listed
  <2>2. \A e \in Listed(r) \cup Listed(r)' : e.file = f => (e \in Listed(r)' <=> e \in Listed(r))
    <3>1. CASE r = p
      <4>1. files[p] \in Seq(Entries)
        BY <1>2 DEF FilesInv
      <4>2. QED
        BY <1>4, <2>1, <3>1, <4>1, MarkedElements DEF Listed
    <3>2. CASE r # p
      BY <2>1, <3>2
    <3>3. QED
      BY <3>1, <3>2
  <2>3. QED
    BY <1>2, <2>2, EntriesSame
<1>6. ASSUME NEW r \in Hosts, NEW t \in inputs[r]
      PROVE  Pending(r, t)' <=> Pending(r, t)
  <2>1. t.peer \in Hosts /\ InitMsg(t).type = "init"
    BY <1>2 DEF FilesInv, Inputs, InitMsg
  <2>2. QED
    BY <1>1, <1>3, <2>1 DEF Pending
<1>7. \A r \in Hosts : (Open(r)' <=> Open(r)) /\ (Receiving(r, f)' <=> Receiving(r, f))
  BY <1>1, <1>2 DEF EndTurn, Open, Receiving
<1>8. Running(f)'
  BY <1>1, <1>5, <1>7 DEF Safe, Running
<1>9. \A r, h \in Hosts : Fetching(r, h, f) => Fetching(r, h, f)'
  BY <1>1, <1>6, FetchingKept
<1>10. \A r \in Hosts : (Stuck(r, f) => Stuck(r, f)') /\ (Holds(r, f) => Holds(r, f)')
  BY <1>1, <1>5, <1>6 DEF Stuck, Holds
<1>11. m # RequestMsg(f)
  BY <1>1 DEF RequestMsg
<1>12. QED
  BY <1>1, <1>5, <1>8, <1>9, <1>10, <1>11, FileReadSafe

\* The home reads the request: it has f already, or it is going to fetch it.
LEMMA RequestSafe ==
    ASSUME Sound, AllStored, DistInv', NEW p \in Hosts, NEW q \in Hosts, ReceiveRequest(p, q),
           NEW f \in Files, f \in Wanted, Safe(f)
    PROVE  Safe(f)'
<1> DEFINE m == Head(net[q][p])
           t0 == [file |-> m.file, peer |-> q, port |-> transfers + 1, stage |-> "start"]
<1>1. /\ FileMsg(p, q, "request") /\ net[q][p] # <<>> /\ m.type = "request" /\ net' = Taken(net, q, p)
      /\ UNCHANGED <<files, disk, outputs, nodes>> /\ EndTurn(p) /\ phase[p] = "turn"
  BY DEF ReceiveRequest, FileMsg, Incoming
<1>2. phase \in [Hosts -> Phases] /\ inputs \in [Hosts -> SUBSET Inputs]
  BY DEF Sound, DistInv, IInv, Controls, FilesInv
<1>3. inputs' = [inputs EXCEPT ![p] = IF Knows(p, q) /\ ~Has(p, m.file) THEN @ \cup {t0} ELSE @]
  BY <1>2 DEF ReceiveRequest
<1>4. \A r \in Hosts : /\ inputs[r] \subseteq inputs'[r]
                       /\ r # p => inputs'[r] = inputs[r]
  BY <1>2, <1>3
<1>5. \A s, t \in Hosts : /\ OnWay(s, t)' \subseteq OnWay(s, t)
                          /\ \A x \in OnWay(s, t) : x \in OnWay(s, t)' \/ x.type = "request"
  BY <1>1, ReadMessages DEF Sound
<1>6. ASSUME NEW r \in Hosts
      PROVE  /\ Has(r, f)' <=> Has(r, f)
             /\ Away(r, f)' <=> Away(r, f)
             /\ Tired(r, f)' <=> Tired(r, f)
             /\ Holds(r, f)' <=> Holds(r, f)
  BY <1>1 DEF Has, Away, Tired, Listed, Holds
<1>7. ASSUME NEW r \in Hosts, NEW t \in inputs[r]
      PROVE  Pending(r, t)' <=> Pending(r, t)
  <2>1. t.peer \in Hosts /\ InitMsg(t).type = "init"
    BY <1>2 DEF Inputs, InitMsg
  <2>2. QED
    BY <1>1, <1>5, <2>1 DEF Pending
<1>8. Open(p) /\ \A r \in Hosts : Open(r)' <=> Open(r)
  BY <1>1, <1>2 DEF EndTurn, Open
<1>9. Running(f)'
  BY <1>1, <1>4, <1>6, <1>8 DEF Safe, Running, Receiving
<1>10. \A r, h \in Hosts : Fetching(r, h, f) => Fetching(r, h, f)'
  BY <1>4, <1>7, FetchingKept
<1>11. \A r \in Hosts : Stuck(r, f) => Stuck(r, f)'
  BY <1>4, <1>7 DEF Stuck
<1>12. ASSUME m = RequestMsg(f), Knows(p, q)
       PROVE  Promised(q, p, f)'
  <2>1. m.file = f
    BY <1>12 DEF RequestMsg
  <2>2. CASE Has(p, f)
    <3>1. Holds(p, f)'
      BY <1>6, <2>2 DEF AllStored, Holds
    <3>2. QED
      BY <3>1 DEF Promised
  <2>3. CASE ~Has(p, f)
    <3>1. t0 \in inputs'[p] /\ t0.file = f /\ t0.peer = q /\ t0.stage = "start"
      BY <1>2, <1>3, <1>12, <2>1, <2>3
    <3> HIDE DEF t0
    <3>2. Fetching(q, p, f)'
      BY <3>1 DEF Fetching
    <3>3. QED
      BY <3>2 DEF Promised
  <2>4. QED
    BY <2>2, <2>3
<1>13. QED
  BY <1>1, <1>6, <1>9, <1>10, <1>11, <1>12, FileReadSafe

\* Who is told to connect does so, if the sender is known, and a home is.
LEMMA InitSafe ==
    ASSUME Sound, DistInv', NEW p \in Hosts, NEW q \in Hosts, ReceiveInit(p, q),
           NEW f \in Files, Safe(f)
    PROVE  Safe(f)'
<1> DEFINE m == Head(net[q][p])
           o == [file |-> m.file, peer |-> q, port |-> m.port]
<1>1. /\ FileMsg(p, q, "init") /\ net[q][p] # <<>> /\ m.type = "init" /\ net' = Taken(net, q, p)
      /\ UNCHANGED <<files, disk, inputs, nodes>> /\ EndTurn(p) /\ phase[p] = "turn"
      /\ outputs' = [outputs EXCEPT ![p] = IF Knows(p, q) THEN @ \cup {o} ELSE @]
  BY DEF ReceiveInit, FileMsg, Incoming
<1>2. /\ phase \in [Hosts -> Phases] /\ inputs \in [Hosts -> SUBSET Inputs]
      /\ outputs \in [Hosts -> SUBSET Outputs] /\ net \in NetType(Datagrams)
  BY DEF Sound, DistInv, IInv, Controls, FilesInv, NetInv
<1>3. \A s, t \in Hosts : /\ OnWay(s, t)' \subseteq OnWay(s, t)
                          /\ \A x \in OnWay(s, t) :
                                x \in OnWay(s, t)' \/ (s = q /\ t = p /\ x = m)
                          /\ m \in OnWay(q, p)
  BY <1>1, ReadMessages DEF Sound
<1>4. m = [type |-> "init", file |-> m.file, port |-> m.port]
  <2>1. m \in Datagrams
    BY <1>1, <1>2 DEF NetType
  <2>2. m \in InitMsgs
    BY <1>1, <2>1, DatagramFacts
  <2> HIDE DEF m
  <2>3. QED
    BY <2>2 DEF InitMsgs
<1>5. \A r \in Hosts : outputs'[r] = IF r = p /\ Knows(p, q) THEN outputs[r] \cup {o} ELSE outputs[r]
  BY <1>1, <1>2
<1>6. o.file = m.file /\ o.peer = q /\ o.port = m.port
  OBVIOUS
<1>7. ASSUME NEW r \in Hosts
      PROVE  /\ Has(r, f)' <=> Has(r, f)
             /\ Away(r, f)' <=> Away(r, f)
             /\ Tired(r, f)' <=> Tired(r, f)
             /\ Holds(r, f)' <=> Holds(r, f)
             /\ Receiving(r, f)' <=> Receiving(r, f)
  BY <1>1 DEF Has, Away, Tired, Listed, Holds, Receiving
<1>8. \A r \in Hosts : Open(r)' <=> Open(r)
  BY <1>1, <1>2 DEF EndTurn, Open
<1>9. Running(f)'
  BY <1>1, <1>7, <1>8 DEF Safe, Running
<1>10. ASSUME NEW r \in Hosts, NEW t \in inputs[r]
       PROVE  /\ Pending(r, t)' => Pending(r, t)
              /\ Pending(r, t) /\ (t.peer = p /\ r = q => Knows(p, q)) => Pending(r, t)'
  <2>1. t.peer \in Hosts
    BY <1>2 DEF Inputs
  <2>2. InitMsg(t) = m /\ t.peer = p /\ r = q <=> OutputFor(r, t) = o /\ t.peer = p
    <3>1. InitMsg(t) = m <=> t.file = m.file /\ t.port = m.port
      BY <1>4 DEF InitMsg
    <3>2. OutputFor(r, t) = o <=> t.file = m.file /\ r = q /\ t.port = m.port
      BY DEF OutputFor
    <3>3. QED
      BY <3>1, <3>2
  <2> HIDE DEF m, o
  <2>3. Pending(r, t)' => Pending(r, t)
    BY <1>3, <1>5, <2>1, <2>2 DEF Pending
  <2>4. Pending(r, t) /\ (t.peer = p /\ r = q => Knows(p, q)) => Pending(r, t)'
    BY <1>3, <1>5, <2>1, <2>2 DEF Pending
  <2>5. QED
    BY <2>3, <2>4
<1>11. \A r \in Hosts : Stuck(r, f) => Stuck(r, f)'
  BY <1>1, <1>10 DEF Stuck
<1>12. \A r, h \in Hosts : Knows(r, h) /\ Fetching(r, h, f) => Fetching(r, h, f)'
  <2>1. ASSUME NEW r \in Hosts, NEW h \in Hosts, Knows(r, h), Fetching(r, h, f)
        PROVE  Fetching(r, h, f)'
    <3>1. \A t \in inputs[h] : t.peer = r /\ t.file = f /\ Pending(h, t) => Pending(h, t)'
      BY <1>10, <2>1
    <3>2. QED
      BY <1>1, <2>1, <3>1, FetchingKept
  <2>2. QED
    BY <2>1
<1>13. m # RequestMsg(f)
  BY <1>1 DEF RequestMsg
<1>14. QED
  BY <1>1, <1>7, <1>9, <1>11, <1>12, <1>13, FileReadSafe

\* What the handler of NETWORK_CHANGE does to the channels and to the list.
LEMMA NodeChannels ==
    ASSUME DistInv, NEW p \in Hosts, NEW q \in Hosts, ReceiveNode(p, q)
    PROVE  /\ net[q][p] # <<>> /\ Head(net[q][p]).type \in {"new", "leave"}
           /\ net'[q][p] = Tail(net[q][p])
           /\ \A s, t \in Hosts : ~(s = q /\ t = p) => Longer(net[s][t], net'[s][t])
           /\ \A s \in Hosts : Knows(p, s)' <=>
                 IF s = q THEN Head(net[q][p]).type = "new" ELSE Knows(p, s)
           /\ \A r \in Hosts \ {p} : nodes'[r] = nodes[r]
<1>1. net \in NetType(Datagrams) /\ Silent(net)
  BY DEF DistInv, NetInv
<1>2. /\ net[q][p] # <<>>
      /\ \/ ReceiveNew(p, q) /\ Head(net[q][p]).type = "new"
         \/ ReceiveLeave(p, q) /\ Head(net[q][p]).type = "leave"
  BY DEF ReceiveNode, ReceiveNew, ReceiveLeave, Incoming
<1> DEFINE n == Taken(net, q, p)
<1>3. q # p /\ n \in NetType(Datagrams)
  BY <1>1, <1>2, TakenFacts
<1>4. \A s, t \in Hosts : n[s][t] = IF s = q /\ t = p THEN Tail(net[s][t]) ELSE net[s][t]
  BY <1>1, TakenChannel
<1>5. net' = n \/ net' = Sent(n, p, {q}, NewMsg)
  BY <1>2 DEF ReceiveNew, ReceiveLeave
<1> HIDE DEF n
<1>6. \A s, t \in Hosts : net'[s][t] = n[s][t] \/ (s = p /\ net'[s][t] = Append(n[s][t], NewMsg))
  <2>1. CASE net' = n
    BY <2>1
  <2>2. CASE net' = Sent(n, p, {q}, NewMsg)
    BY <1>3, <2>2 DEF NetType, Sent
  <2>3. QED
    BY <1>5, <2>1, <2>2
<1>7. net'[q][p] = Tail(net[q][p])
  BY <1>3, <1>4, <1>6
<1>8. ASSUME NEW s \in Hosts, NEW t \in Hosts, ~(s = q /\ t = p)
      PROVE  Longer(net[s][t], net'[s][t])
  <2>1. net[s][t] \in Seq(Datagrams)
    BY <1>1 DEF NetType
  <2>2. net'[s][t] = net[s][t] \/ net'[s][t] = Append(net[s][t], NewMsg)
    BY <1>4, <1>6, <1>8
  <2>3. QED
    BY <2>1, <2>2 DEF Longer
<1>9. /\ \A s \in Hosts : Knows(p, s)' <=>
            IF s = q THEN Head(net[q][p]).type = "new" ELSE Knows(p, s)
      /\ \A r \in Hosts \ {p} : nodes'[r] = nodes[r]
  <2>1. CASE ReceiveNew(p, q) /\ Head(net[q][p]).type = "new"
    BY <2>1, KnownAfterNew DEF DistInv
  <2>2. CASE ReceiveLeave(p, q) /\ Head(net[q][p]).type = "leave"
    BY <2>2, KnownAfterLeave DEF DistInv
  <2>3. QED
    BY <1>2, <2>1, <2>2
<1>10. QED
  BY <1>2, <1>7, <1>8, <1>9

\* A list that changes makes its host look again; the others go on.
LEMMA NodeSafe ==
    ASSUME Sound, DistInv', NEW p \in Hosts, NEW q \in Hosts, ReceiveNode(p, q),
           NEW f \in Files, Safe(f)
    PROVE  Safe(f)'
<1> DEFINE m == Head(net[q][p])
<1>1. /\ UNCHANGED <<files, disk, inputs, outputs>> /\ EndTurn(p) /\ phase[p] = "turn"
      /\ update' = [update EXCEPT ![p] = @ \/ nodes'[p] # nodes[p]]
  BY DEF ReceiveNode, ReceiveNew, ReceiveLeave, Incoming
<1>2. /\ phase \in [Hosts -> Phases] /\ inputs \in [Hosts -> SUBSET Inputs]
      /\ update \in [Hosts -> BOOLEAN] /\ NetInv(Datagrams) /\ NetInv(Datagrams)'
      /\ \A s, t \in Hosts : net[s][t] \in Seq(Datagrams) /\ net'[s][t] \in Seq(Datagrams)
  <2>1. phase \in [Hosts -> Phases] /\ inputs \in [Hosts -> SUBSET Inputs] /\ update \in [Hosts -> BOOLEAN]
    BY DEF Sound, DistInv, IInv, Controls, FilesInv
  <2>2. NetInv(Datagrams) /\ NetInv(Datagrams)'
    BY DEF Sound, DistInv
  <2>3. \A s, t \in Hosts : net[s][t] \in Seq(Datagrams) /\ net'[s][t] \in Seq(Datagrams)
    BY <2>2 DEF NetInv, NetType
  <2>4. QED
    BY <2>1, <2>2, <2>3
<1>3. /\ net[q][p] # <<>> /\ m.type \in {"new", "leave"} /\ net'[q][p] = Tail(net[q][p])
      /\ \A s, t \in Hosts : ~(s = q /\ t = p) => Longer(net[s][t], net'[s][t])
      /\ \A s \in Hosts : Knows(p, s)' <=> IF s = q THEN m.type = "new" ELSE Knows(p, s)
      /\ \A r \in Hosts \ {p} : nodes'[r] = nodes[r]
  BY NodeChannels DEF Sound
<1>4. ASSUME NEW r \in Hosts
      PROVE  /\ update'[r] \/ (~update[r] /\ nodes'[r] = nodes[r])
             /\ Has(r, f)' <=> Has(r, f)
             /\ Away(r, f)' <=> Away(r, f)
             /\ Tired(r, f)' <=> Tired(r, f)
             /\ Holds(r, f)' <=> Holds(r, f)
             /\ Receiving(r, f)' <=> Receiving(r, f)
             /\ Open(r)' <=> Open(r)
  <2>1. update'[r] \/ (~update[r] /\ nodes'[r] = nodes[r])
    BY <1>1, <1>2, <1>3
  <2>2. Open(r)' <=> Open(r)
    BY <1>1, <1>2 DEF EndTurn, Open
  <2>3. QED
    BY <1>1, <2>1, <2>2 DEF Has, Away, Tired, Listed, Holds, Receiving
<1>5. ASSUME NEW s \in Hosts, NEW t \in Hosts
      PROVE  \A x : x.type = "init" => (x \in OnWay(s, t)' <=> x \in OnWay(s, t))
  <2>1. OnWay(s, t)' \subseteq OnWay(s, t) \cup Messages
    BY <1>2, NodeStep, MemberMessages DEF Sound
  <2>2. \A x \in Messages : x.type # "init"
    BY DEF Messages, NewMsg, LeaveMsg
  <2>3. OnWay(s, t) \subseteq OnWay(s, t)' \cup {m}
    <3>1. CASE s = q /\ t = p
      BY <1>2, <1>3, <3>1, ElementsTail DEF OnWay
    <3>2. CASE ~(s = q /\ t = p)
      BY <1>2, <1>3, <3>2, LongerElements DEF OnWay
    <3>3. QED
      BY <3>1, <3>2
  <2>4. QED
    BY <1>3, <2>1, <2>2, <2>3
<1>6. ASSUME NEW r \in Hosts, NEW t \in inputs[r]
      PROVE  Pending(r, t)' <=> Pending(r, t)
  <2>1. t.peer \in Hosts /\ InitMsg(t).type = "init"
    BY <1>2 DEF Inputs, InitMsg
  <2>2. QED
    BY <1>1, <1>5, <2>1 DEF Pending
<1>7. Running(f)'
  BY <1>1, <1>4 DEF Safe, Running, Holds
<1>8. \A r \in Hosts : Stuck(r, f) => Stuck(r, f)'
  BY <1>1, <1>6 DEF Stuck
<1>9. ASSUME NEW r \in Hosts, NEW h \in Hosts, Away(r, f), ~update'[r], ~update[r], h = Home(r, f),
             Promised(r, h, f)
      PROVE  Promised(r, h, f)'
  <2>1. Knows(r, h)
    BY <1>9, AwayFacts DEF Sound
  <2>2. r = p /\ h = q => m # LeaveMsg
    <3>1. ASSUME r = p, h = q
          PROVE  m # LeaveMsg
      <4>1. nodes'[p] = nodes[p]
        BY <1>4, <1>9, <3>1
      <4>2. Knows(p, q)'
        BY <2>1, <3>1, <4>1 DEF Knows
      <4>3. QED
        BY <1>3, <4>2 DEF LeaveMsg
    <3>2. QED
      BY <3>1
  <2>3. Fetching(r, h, f) => Fetching(r, h, f)'
    BY <1>1, <1>6, FetchingKept
  <2>4. m # RequestMsg(f)
    BY <1>3 DEF RequestMsg
  <2>5. \A s, t \in Hosts : ~(s = q /\ t = p) =>
           Longer(net[s][t], net'[s][t]) /\ (Knows(t, s)' <=> Knows(t, s))
    <3>1. ASSUME NEW s \in Hosts, NEW t \in Hosts, ~(s = q /\ t = p)
          PROVE  Knows(t, s)' <=> Knows(t, s)
      BY <1>3, <3>1 DEF Knows
    <3>2. QED
      BY <1>3, <3>1
  <2>6. Knows(p, q)' <=> IF m.type \in {"new", "leave"} THEN m.type = "new" ELSE Knows(p, q)
    BY <1>3
  <2>7. Holds(h, f) => Holds(h, f)'
    BY <1>4
  <2>8. \/ Promised(r, h, f)'
        \/ r = q /\ h = p /\ m = RequestMsg(f) /\ Knows(p, q)
    <3>1. NetInv(Datagrams) /\ NetInv(Datagrams)'
      BY <1>2
    <3>2. net[q][p] # <<>> /\ net'[q][p] = Tail(net[q][p]) /\ ~update[r] /\ Promised(r, h, f)
      BY <1>3, <1>9
    <3>3. QED
      BY <2>2, <2>3, <2>5, <2>6, <2>7, <3>1, <3>2, PromisedRead
  <2>9. QED
    BY <2>4, <2>8
<1>10. \A r \in Hosts : update'[r] \/ (~update[r] /\ Home(r, f)' = Home(r, f))
  BY <1>4 DEF Home
<1>11. QED
  BY <1>4, <1>7, <1>8, <1>9, <1>10, SafeKept DEF Sound

\* A thread of a transfer does something.
LEMMA ThreadSafe ==
    ASSUME Sound, DistInv', UNCHANGED <<nodes, update>>,
           \A s, t \in Hosts : Longer(net[s][t], net'[s][t]),
           NEW f \in Files, Safe(f), Running(f)',
           \A p \in Hosts : /\ Holds(p, f) => Holds(p, f)'
                            /\ Away(p, f)' <=> Away(p, f)
                            /\ Tired(p, f)' => Tired(p, f)
                            /\ Stuck(p, f) => Stuck(p, f)',
           \A p, h \in Hosts :
              Away(p, f) /\ h # p /\ Fetching(p, h, f) => Fetching(p, h, f)' \/ Holds(h, f)'
    PROVE  Safe(f)'
<1>1. NetInv(Datagrams) /\ NetInv(Datagrams)' /\ update \in [Hosts -> BOOLEAN]
  BY DEF Sound, DistInv, FilesInv
<1>2. \A p \in Hosts : update'[p] \/ (~update[p] /\ Home(p, f)' = Home(p, f))
  BY <1>1 DEF Home
<1>3. ASSUME NEW p \in Hosts, NEW h \in Hosts, Away(p, f), ~update[p], h # p, Promised(p, h, f)
      PROVE  Promised(p, h, f)'
  <2>1. Leaving(h, p) => Leaving(h, p)'
    <3>1. net[h][p] \in Seq(Datagrams) /\ net'[h][p] \in Seq(Datagrams)
      BY <1>1 DEF NetInv, NetType
    <3>2. QED
      BY <3>1, LongerElements DEF Leaving, OnWay
  <2>2. Asked(p, h, f) => Asked(p, h, f)'
    <3>1. Knows(h, p)' <=> Knows(h, p)
      BY DEF Knows
    <3>2. QED
      BY <1>1, <3>1, AskedKept
  <2>3. QED
    BY <1>3, <2>1, <2>2 DEF Promised
<1>4. QED
  BY <1>2, <1>3, SafeKept DEF Sound

\* The peer of a download is told to connect: it will, as both run.
LEMMA InputInitSafe ==
    ASSUME Sound, DistInv', NEW p \in Hosts, NEW t \in inputs[p], InputInit(p, t),
           NEW f \in Files, Safe(f)
    PROVE  Safe(f)'
<1> DEFINE w == [t EXCEPT !.stage = "wait"]
<1>1. /\ t.stage = "start" /\ UNCHANGED <<files, disk, outputs, nodes, update, phase>>
      /\ inputs' = [inputs EXCEPT ![p] = (@ \ {t}) \cup {w}]
      /\ net' = IF Open(p) THEN Sent(net, p, {t.peer}, InitMsg(t)) ELSE net
  BY DEF InputInit, InitMsg
<1>2. /\ inputs \in [Hosts -> SUBSET Inputs] /\ t \in Inputs /\ NetInv(Datagrams)
      /\ InputPorts
  BY DEF Sound, DistInv, FilesInv, PortsInv
<1>3. w.file = t.file /\ w.peer = t.peer /\ w.port = t.port /\ w.stage = "wait" /\ t.peer \in Hosts
  BY <1>2 DEF Inputs
<1> HIDE DEF w
<1>4. \A q \in Hosts : inputs'[q] = IF q = p THEN (inputs[p] \ {t}) \cup {w} ELSE inputs[q]
  BY <1>1, <1>2
<1>5. InitMsg(t) \in Datagrams
  BY <1>2 DEF Inputs, InitMsg, Datagrams, InitMsgs
<1>6. ASSUME NEW s \in Hosts, NEW r \in Hosts
      PROVE  /\ Longer(net[s][r], net'[s][r]) /\ OnWay(s, r) \subseteq OnWay(s, r)'
             /\ \A m \in OnWay(s, r)' : m \in OnWay(s, r) \/ (s = p /\ r = t.peer /\ m = InitMsg(t))
             /\ s = p /\ r = t.peer /\ r # p /\ Open(p) /\ Open(r) => InitMsg(t) \in OnWay(s, r)'
  <2>1. CASE Open(p)
    <3>1. net' = Sent(net, p, {t.peer}, InitMsg(t))
      BY <1>1, <2>1
    <3>2. /\ Longer(net[s][r], net'[s][r])
          /\ OnWay(s, r)' = OnWay(s, r) \cup
                (IF s = p /\ r \in {t.peer} \ {p} /\ Open(r) THEN {InitMsg(t)} ELSE {})
      BY <1>2, <1>5, <3>1, SentLonger
    <3>3. QED
      BY <3>2
  <2>2. CASE ~Open(p)
    <3>1. net[s][r] \in Seq(Datagrams) /\ net' = net
      BY <1>1, <1>2, <2>2 DEF NetInv, NetType
    <3>2. QED
      BY <2>2, <3>1 DEF Longer, OnWay
  <2>3. QED
    BY <2>1, <2>2
<1>7. ASSUME NEW q \in Hosts
      PROVE  /\ Has(q, f)' <=> Has(q, f)
             /\ Away(q, f)' <=> Away(q, f)
             /\ Tired(q, f)' <=> Tired(q, f)
             /\ Holds(q, f)' <=> Holds(q, f)
             /\ Open(q)' <=> Open(q)
             /\ Receiving(q, f)' => Receiving(q, f)
  <2>1. Receiving(q, f)' => Receiving(q, f)
    BY <1>3, <1>4 DEF Receiving
  <2>2. QED
    BY <1>1, <2>1 DEF Has, Away, Tired, Listed, Holds, Open
<1>8. Running(f)'
  BY <1>1, <1>7 DEF Safe, Running
<1>9. ASSUME NEW q \in Hosts, Stuck(q, f)
      PROVE  Stuck(q, f)'
  <2>1. PICK u \in inputs[q] : u.file = f /\ u.stage = "wait" /\ ~Pending(q, u)
    BY <1>9 DEF Stuck
  <2>2. u.peer \in Hosts /\ u # t /\ u \in inputs'[q]
    BY <1>1, <1>2, <1>4, <2>1 DEF Inputs
  <2>3. q = p => u.port # t.port
    BY <1>2, <2>2 DEF InputPorts
  <2>4. q = p => InitMsg(u) # InitMsg(t)
    BY <2>3 DEF InitMsg
  <2>5. ~Pending(q, u)'
    BY <1>1, <1>6, <2>1, <2>2, <2>4 DEF Pending
  <2>6. QED
    BY <2>1, <2>2, <2>5 DEF Stuck
<1>10. ASSUME NEW r \in Hosts, NEW h \in Hosts, Away(r, f), h # r, Fetching(r, h, f)
       PROVE  Fetching(r, h, f)'
  <2>1. PICK u \in inputs[h] :
          u.file = f /\ (u.stage = "data" \/ (u.peer = r /\ (u.stage = "wait" => Pending(h, u))))
    BY <1>10 DEF Fetching
  <2>2. CASE h = p /\ u = t
    <3>1. Open(p) /\ Open(r) /\ u.peer = r
      BY <1>1, <1>10, <2>1, <2>2, AwayFacts DEF Safe, Running, Receiving, Sound
    <3>2. InitMsg(w) = InitMsg(t)
      BY <1>3 DEF InitMsg
    <3>3. InitMsg(w) \in OnWay(p, r)'
      BY <1>6, <1>10, <2>2, <3>1, <3>2
    <3>4. Pending(h, w)'
      BY <1>3, <2>2, <3>1, <3>3 DEF Pending
    <3>5. QED
      BY <1>3, <1>4, <2>1, <2>2, <3>1, <3>4 DEF Fetching
  <2>3. CASE ~(h = p /\ u = t)
    <3>1. u \in inputs'[h]
      BY <1>4, <2>3
    <3>2. u.peer \in Hosts
      BY <1>2 DEF Inputs
    <3>3. Pending(h, u) => Pending(h, u)'
      BY <1>1, <1>6, <3>2 DEF Pending
    <3>4. QED
      BY <2>1, <3>1, <3>3 DEF Fetching
  <2>4. QED
    BY <2>2, <2>3
<1>11. QED
  BY <1>1, <1>6, <1>7, <1>8, <1>9, <1>10, ThreadSafe

\* Who connects and has f has its data, too; a download nobody is to connect to
\* is left alone.
LEMMA OutputSafe ==
    ASSUME Sound, AllStored, DistInv', NEW p \in Hosts, NEW o \in outputs[p], OutputPerform(p, o),
           NEW f \in Files, f \in Wanted, Safe(f)
    PROVE  Safe(f)'
<1>1. /\ UNCHANGED <<files, disk, nodes, update, phase, net>>
      /\ outputs' = [outputs EXCEPT ![p] = @ \ {o}]
      /\ inputs' = [inputs EXCEPT ![o.peer] =
             (@ \ Partner(p, o)) \cup
             IF Has(p, o.file) /\ o.file \in disk[p]
             THEN {[t EXCEPT !.stage = "data"] : t \in Partner(p, o)}
             ELSE {}]
  BY DEF OutputPerform, memberVars, vars
<1>2. /\ inputs \in [Hosts -> SUBSET Inputs] /\ outputs \in [Hosts -> SUBSET Outputs]
      /\ o \in Outputs /\ o.peer \in Hosts /\ NetInv(Datagrams)
  BY DEF Sound, DistInv, FilesInv, Outputs
<1>3. ASSUME NEW u \in Partner(p, o)
      PROVE  /\ u \in inputs[o.peer] /\ u.stage = "wait" /\ u.port = o.port
             /\ u.peer = p /\ u.file = o.file /\ OutputFor(o.peer, u) = o
  <2>1. u \in inputs[o.peer] /\ u.port = o.port /\ u.stage = "wait"
    BY DEF Partner
  <2>2. u.file = o.file /\ u.peer = p
    BY <1>2, <2>1 DEF Sound, PortsInv, OutputPorts, Named
  <2>3. OutputFor(o.peer, u) = o
    BY <1>2, <2>1, <2>2 DEF Outputs, OutputFor
  <2>4. QED
    BY <2>1, <2>2, <2>3
<1>4. \A q \in Hosts : \A u \in inputs[q] : ~(q = o.peer /\ u \in Partner(p, o)) => u \in inputs'[q]
  BY <1>1, <1>2
<1>5. \A q \in Hosts : outputs'[q] = IF q = p THEN outputs[p] \ {o} ELSE outputs[q]
  BY <1>1, <1>2
<1>6. ASSUME NEW q \in Hosts
      PROVE  /\ Has(q, f)' <=> Has(q, f)
             /\ Away(q, f)' <=> Away(q, f)
             /\ Tired(q, f)' <=> Tired(q, f)
             /\ Holds(q, f)' <=> Holds(q, f)
             /\ Open(q)' <=> Open(q)
             /\ Receiving(q, f)' => Receiving(q, f)
  <2>1. Receiving(q, f)' => Receiving(q, f)
    BY OldInputs DEF Receiving, Sound
  <2>2. QED
    BY <1>1, <2>1 DEF Has, Away, Tired, Listed, Holds, Open
<1>7. Running(f)'
  BY <1>1, <1>6 DEF Safe, Running
<1>8. ASSUME NEW q \in Hosts, Stuck(q, f)
      PROVE  Stuck(q, f)'
  <2>1. PICK u \in inputs[q] : u.file = f /\ u.stage = "wait" /\ ~Pending(q, u)
    BY <1>8 DEF Stuck
  <2>2. ~(q = o.peer /\ u \in Partner(p, o))
    BY <1>3, <2>1 DEF Pending
  <2>3. u \in inputs'[q] /\ u.peer \in Hosts
    BY <1>2, <1>4, <2>2 DEF Inputs
  <2>4. ~Pending(q, u)'
    BY <1>1, <1>5, <2>1, <2>3 DEF Pending, OnWay
  <2>5. QED
    BY <2>1, <2>3, <2>4 DEF Stuck
<1>9. ASSUME NEW r \in Hosts, NEW h \in Hosts, Away(r, f), Fetching(r, h, f)
      PROVE  Fetching(r, h, f)'
  <2>1. PICK u \in inputs[h] :
          u.file = f /\ (u.stage = "data" \/ (u.peer = r /\ (u.stage = "wait" => Pending(h, u))))
    BY <1>9 DEF Fetching
  <2>2. u \in Inputs
    BY <1>2
  <2>3. CASE h = o.peer /\ u \in Partner(p, o)
    <3>1. r = p /\ o.file = f
      BY <1>3, <2>1, <2>3
    <3>2. Has(p, f) /\ f \in disk[p]
      BY <1>9, <3>1, AwayFacts DEF AllStored, Sound
    <3>3. [u EXCEPT !.stage = "data"] \in inputs'[h]
      BY <1>1, <1>2, <2>3, <3>1, <3>2
    <3>4. [u EXCEPT !.stage = "data"].file = f /\ [u EXCEPT !.stage = "data"].stage = "data"
      BY <2>1, <2>2 DEF Inputs
    <3>5. QED
      BY <3>3, <3>4 DEF Fetching
  <2>4. CASE ~(h = o.peer /\ u \in Partner(p, o))
    <3>1. u \in inputs'[h]
      BY <1>4, <2>4
    <3>2. u.stage = "wait" /\ Pending(h, u) => Pending(h, u)'
      <4>1. u.stage = "wait" => OutputFor(h, u) # o
        BY <2>4 DEF OutputFor, Partner
      <4>2. u.peer \in Hosts
        BY <2>2 DEF Inputs
      <4>3. QED
        BY <1>1, <1>5, <4>1, <4>2 DEF Pending, OnWay
    <3>3. QED
      BY <2>1, <3>1, <3>2 DEF Fetching
  <2>5. QED
    BY <2>3, <2>4
<1>10. \A s, t \in Hosts : Longer(net[s][t], net'[s][t])
  <2>1. \A s, t \in Hosts : net[s][t] \in Seq(Datagrams)
    BY <1>2 DEF NetInv, NetType
  <2>2. QED
    BY <1>1, <2>1 DEF Longer
<1>11. QED
  BY <1>1, <1>6, <1>7, <1>8, <1>9, <1>10, ThreadSafe

\* The data is written, as f is still wanted, and the file listed.
LEMMA StoreSafe ==
    ASSUME Sound, DistInv', NEW p \in Hosts, NEW t \in inputs[p], InputStore(p, t),
           NEW f \in Files, \A q \in Hosts : <<q, f>> \notin unwritten', Safe(f)
    PROVE  Safe(f)'
<1> DEFINE e == File(t.file)
<1>1. /\ t.stage = "data" /\ UNCHANGED <<outputs, nodes, update, phase, net>>
      /\ inputs' = [inputs EXCEPT ![p] = @ \ {t}]
      /\ StoreAndList(p, t.file)
  BY DEF InputStore, memberVars, vars
<1>2. /\ FilesInv /\ FilesInv' /\ inputs \in [Hosts -> SUBSET Inputs] /\ t \in Inputs
      /\ NetInv(Datagrams) /\ disk \in [Hosts -> SUBSET Files]
  BY DEF Sound, DistInv, FilesInv
<1>3. t.file \in Files /\ e.file = t.file /\ e.local
  BY <1>2 DEF Inputs, File
<1>4. /\ \A q \in Hosts : Listed(q)' = IF q = p THEN Listed(p) \cup {e} ELSE Listed(q)
      /\ \A q \in Hosts : disk'[q] \subseteq disk[q] \cup {t.file} /\ disk[q] \subseteq disk'[q] \cup {t.file}
      /\ \A q \in Hosts \ {p} : disk'[q] = disk[q]
      /\ t.file \in disk'[p] \/ <<p, t.file>> \in unwritten'
  BY <1>1, <1>3, StoreElements DEF Sound
<1>5. \A q \in Hosts : /\ f \in disk[q] => f \in disk'[q]
                       /\ disk'[q] \subseteq disk[q] \cup {t.file}
                       /\ q # p => disk'[q] = disk[q]
  BY <1>4
<1> HIDE DEF e
<1>6. t.file = f => Open(p) /\ f \in disk'[p]
  BY <1>4 DEF Safe, Running, Receiving
<1>7. \A q \in Hosts : inputs'[q] = IF q = p THEN inputs[p] \ {t} ELSE inputs[q]
  BY <1>1, <1>2
<1>8. ASSUME NEW q \in Hosts
      PROVE  /\ Has(q, f)' <=> Has(q, f) \/ (q = p /\ t.file = f)
             /\ Away(q, f)' <=> Away(q, f)
             /\ Tired(q, f)' <=> Tired(q, f)
             /\ Open(q)' <=> Open(q)
             /\ Receiving(q, f)' => Receiving(q, f)
             /\ \A u \in inputs[q] : Pending(q, u)' <=> Pending(q, u)
  <2>1. /\ Has(q, f) <=> \E d \in Listed(q) : d.file = f
        /\ Has(q, f)' <=> \E d \in Listed(q)' : d.file = f
    BY <1>2, ListedFacts, ListedNext
  <2>2. Has(q, f)' <=> Has(q, f) \/ (q = p /\ t.file = f)
    BY <1>3, <1>4, <2>1
  <2>3. (Away(q, f)' <=> Away(q, f)) /\ (Tired(q, f)' <=> Tired(q, f))
    BY <1>3, <1>4 DEF Away, Tired
  <2>4. Receiving(q, f)' => Receiving(q, f)
    BY <1>7 DEF Receiving
  <2>5. QED
    BY <1>1, <2>2, <2>3, <2>4 DEF Open, Pending, OnWay
<1>9. \A q \in Hosts : Holds(q, f) => Holds(q, f)'
  BY <1>5, <1>8 DEF Holds
<1>10. Running(f)'
  <2>1. ASSUME NEW q \in Hosts, Has(q, f)' \/ f \in disk'[q] \/ Receiving(q, f)'
        PROVE  Open(q)'
    <3>1. Has(q, f) \/ f \in disk[q] \/ Receiving(q, f) \/ (q = p /\ t.file = f)
      BY <1>5, <1>8, <2>1
    <3>2. QED
      BY <1>6, <1>8, <3>1 DEF Safe, Running
  <2>2. QED
    BY <2>1 DEF Running
<1>11. \A q \in Hosts : Stuck(q, f) => Stuck(q, f)'
  BY <1>1, <1>7, <1>8 DEF Stuck
<1>12. ASSUME NEW r \in Hosts, NEW h \in Hosts, Fetching(r, h, f)
       PROVE  Fetching(r, h, f)' \/ Holds(h, f)'
  <2>1. CASE h = p /\ t.file = f
    BY <1>6, <1>8, <2>1 DEF Holds
  <2>2. CASE ~(h = p /\ t.file = f)
    <3>1. \A u \in inputs[h] : u.file = f => u \in inputs'[h]
      BY <1>7, <2>2
    <3>2. QED
      BY <1>8, <1>12, <3>1 DEF Fetching
  <2>3. QED
    BY <2>1, <2>2
<1>13. \A s, r \in Hosts : Longer(net[s][r], net'[s][r])
  <2>1. \A s, r \in Hosts : net[s][r] \in Seq(Datagrams)
    BY <1>2 DEF NetInv, NetType
  <2>2. QED
    BY <1>1, <2>1 DEF Longer
<1>14. QED
  BY <1>1, <1>8, <1>9, <1>10, <1>11, <1>12, <1>13, ThreadSafe

\* Every step keeps a file safe as long as it is wanted.
LEMMA WorkerSafe ==
    ASSUME IsStrictTotalOrder(Hosts), \A p, q \in Hosts : Port[p] = Port[q], Prompt,
           Sound, OrderInv, Steady, AllStored, DistInv', NEW p \in Hosts, FileWorker(p),
           NEW f \in Files, f \in Wanted, f \notin left', Safe(f)
    PROVE  Safe(f)'
<1>1. f \notin removed
  BY DEF Wanted
<1>2. CASE Announce(p) /\ UNCHANGED fileVars
  BY <1>2, CalmStepsSafe
<1>3. CASE HandleFilesLocality(p)
  BY <1>3, LocalitySafe
<1>4. ASSUME NEW diff \in 0 .. MaxGap, HandleFiles(p, diff)
      PROVE  Safe(f)'
  BY <1>1, <1>4, HandlingSafe
<1>5. CASE ReceiveNothing(p)
  BY <1>5, CalmStepsSafe
<1>6. ASSUME NEW q \in Hosts,
             ReceiveNode(p, q) \/ ReceiveRequest(p, q) \/ ReceiveInit(p, q) \/ ReceiveRemove(p, q)
      PROVE  Safe(f)'
  BY <1>1, <1>6, NodeSafe, RequestSafe, InitSafe, RemovalSafe
<1>7. CASE StopFiles(p)
  BY <1>7, StoppingSafe
<1>8. QED
  BY <1>2, <1>3, <1>4, <1>5, <1>6, <1>7 DEF FileWorker

LEMMA StutterSafe ==
    ASSUME Sound, DistInv', UNCHANGED distVars, NEW f \in Files, Safe(f)
    PROVE  Safe(f)'
<1>1. UNCHANGED <<phase, nodes, net, files, disk, inputs, outputs, update>>
  BY DEF distVars, memberVars, vars, fileVars
<1>2. \A p \in Hosts : Open(p) => Open(p)' /\ nodes'[p] = nodes[p]
  BY <1>1 DEF Open
<1>3. ASSUME NEW p \in Hosts, NEW h \in Hosts
      PROVE  /\ Longer(net[p][h], net'[p][h]) /\ OnWay(p, h) \subseteq OnWay(p, h)'
             /\ \A m \in OnWay(p, h)' : m \in OnWay(p, h) \/ m.type # "init"
  <2>1. net[p][h] \in Seq(Datagrams)
    BY DEF Sound, DistInv, NetInv, NetType
  <2>2. QED
    BY <1>1, <2>1 DEF Longer, OnWay
<1>4. QED
  BY <1>1, <1>2, <1>3, ViewKeptSafe

\* What was asked, taken along or lost stays so; only users add files.
LEMMA HistoryGrows ==
    ASSUME [DistNext]_distVars
    PROVE  /\ removed \subseteq removed' /\ left \subseteq left'
           /\ unwritten \subseteq unwritten' /\ twice \subseteq twice'
           /\ added' = added \/ \E p \in Hosts, g \in Files : AddFile(p, g)
<1>1. CASE UNCHANGED distVars
  BY <1>1 DEF distVars, fileVars, history
<1>2. ASSUME NEW p \in Hosts, FileWorker(p)
      PROVE  /\ added' = added /\ removed' = removed /\ left \subseteq left'
             /\ unwritten' = unwritten /\ twice' = twice
  BY <1>2 DEF FileWorker, HandleFilesLocality, HandleFiles, ReceiveNothing, ReceiveNode,
              ReceiveRequest, ReceiveInit, ReceiveRemove, StopFiles, fileVars, history
<1>3. ASSUME NEW p \in Hosts, Threads(p)
      PROVE  /\ added' = added /\ removed' = removed /\ left \subseteq left'
             /\ unwritten \subseteq unwritten' /\ twice \subseteq twice'
  BY <1>3 DEF Threads, InputInit, InputStore, StoreAndList, OutputPerform, history
<1>4. CASE \E p, q \in Hosts : Lose(p, q) /\ UNCHANGED fileVars
  BY <1>4 DEF fileVars, history
<1>5. CASE Users
  BY <1>5 DEF Users, StopService, AddFile, StoreAndList, RemoveFile, fileVars, history
<1>6. QED
  BY <1>1, <1>2, <1>3, <1>4, <1>5 DEF DistNext

LEMMA SafeNext ==
    ASSUME IsStrictTotalOrder(Hosts), \A p, q \in Hosts : Port[p] = Port[q], Prompt,
           Sound, OrderInv, Steady, AllStored, DistInv', [DistNext]_distVars, losses' = 0,
           NEW f \in Files, f \in Wanted', f \in added => Safe(f)
    PROVE  Safe(f)'
<1>1. /\ f \in added' /\ f \notin removed' /\ f \notin left'
      /\ \A q \in Hosts : <<q, f>> \notin unwritten'
  BY DEF Wanted
<1>2. ASSUME NEW p \in Hosts, NEW g \in Files, AddFile(p, g)
      PROVE  Safe(f)'
  BY <1>1, <1>2, AddSafe
<1>3. ASSUME f \in Wanted, Safe(f), [DistNext]_distVars
      PROVE  Safe(f)' \/ \E p \in Hosts, g \in Files : AddFile(p, g)
  <2>1. ASSUME NEW p \in Hosts, StopService(p) \/ (Start(p) /\ UNCHANGED fileVars)
        PROVE  Safe(f)'
    BY <1>3, <2>1, CalmStepsSafe
  <2>2. ASSUME NEW p \in Hosts, NEW g \in Files, RemoveFile(p, g)
        PROVE  Safe(f)'
    BY <1>3, <2>2, CalmStepsSafe
  <2>3. ASSUME NEW p \in Hosts, FileWorker(p)
        PROVE  Safe(f)'
    BY <1>1, <1>3, <2>3, WorkerSafe
  <2>4. ASSUME NEW p \in Hosts, Threads(p)
        PROVE  Safe(f)'
    <3>1. ASSUME NEW t \in inputs[p], InputInit(p, t) \/ InputStore(p, t)
          PROVE  Safe(f)'
      <4>1. CASE InputInit(p, t)
        BY <1>3, <4>1, InputInitSafe
      <4>2. CASE InputStore(p, t)
        BY <1>1, <1>3, <4>2, StoreSafe
      <4>3. QED
        BY <3>1, <4>1, <4>2
    <3>2. ASSUME NEW o \in outputs[p], OutputPerform(p, o)
          PROVE  Safe(f)'
      BY <1>3, <3>2, OutputSafe
    <3>3. QED
      BY <2>4, <3>1, <3>2 DEF Threads
  <2>5. ~ \E p, q \in Hosts : Lose(p, q)
    BY DEF Sound, DistInv, IInv, Controls, Lose
  <2>6. CASE UNCHANGED distVars
    BY <1>3, <2>6, StutterSafe
  <2>7. QED
    BY <1>3, <2>1, <2>2, <2>3, <2>4, <2>5, <2>6 DEF DistNext, Users
<1>4. ASSUME \A p \in Hosts, g \in Files : ~AddFile(p, g)
      PROVE  f \in Wanted
  BY <1>1, <1>4, HistoryGrows DEF Wanted
<1>5. CASE \E p \in Hosts, g \in Files : AddFile(p, g)
  BY <1>2, <1>5
<1>6. CASE \A p \in Hosts, g \in Files : ~AddFile(p, g)
  <2>1. f \in Wanted /\ f \in added
    BY <1>4, <1>6 DEF Wanted
  <2>2. QED
    BY <1>3, <1>6, <2>1
<1>7. QED
  BY <1>5, <1>6

\* Here no process is killed and no Ping is asked for.
LEMMA SteadyNext ==
    ASSUME Steady, [DistNext]_distVars
    PROVE  Steady'
<1>1. CASE UNCHANGED distVars
  BY <1>1 DEF distVars, memberVars, vars, counters, Steady
<1>2. ASSUME NEW p \in Hosts, FileWorker(p)
      PROVE  UNCHANGED <<toPing, crashes>>
  BY <1>2 DEF FileWorker, Announce, HandleFilesLocality, HandleFiles, ReceiveNothing, ReceiveNode,
              ReceiveNew, ReceiveLeave, ReceiveRequest, ReceiveInit, ReceiveRemove, FileMsg,
              StopFiles, Leave, counters
<1>3. ASSUME NEW p \in Hosts, Threads(p)
      PROVE  UNCHANGED <<toPing, crashes>>
  BY <1>3 DEF Threads, InputInit, InputStore, OutputPerform, memberVars, vars, counters
<1>4. CASE \E p, q \in Hosts : Lose(p, q)
  BY <1>4 DEF Lose, Steady
<1>5. CASE Users
  BY <1>5 DEF Users, StopService, Stop, Start, AddFile, RemoveFile, memberVars, vars, counters, Steady
<1>6. QED
  BY <1>1, <1>2, <1>3, <1>4, <1>5 DEF DistNext, Steady

\* No step makes a loss undone.
LEMMA LossesStay ==
    ASSUME DistInv, [DistNext]_distVars, losses' = 0
    PROVE  losses = 0
<1>1. CASE UNCHANGED distVars
  BY <1>1 DEF distVars, memberVars, vars, counters
<1>2. ASSUME NEW p \in Hosts, FileWorker(p)
      PROVE  UNCHANGED losses
  BY <1>2 DEF FileWorker, Announce, HandleFilesLocality, HandleFiles, ReceiveNothing, ReceiveNode,
              ReceiveNew, ReceiveLeave, ReceiveRequest, ReceiveInit, ReceiveRemove, FileMsg,
              StopFiles, Leave, counters
<1>3. ASSUME NEW p \in Hosts, Threads(p)
      PROVE  UNCHANGED losses
  BY <1>3 DEF Threads, InputInit, InputStore, OutputPerform, memberVars, vars, counters
<1>4. ~ \E p, q \in Hosts : Lose(p, q)
  BY DEF DistInv, IInv, Controls, Lose
<1>5. CASE Users
  BY <1>5 DEF Users, StopService, Stop, Start, AddFile, RemoveFile, memberVars, vars, counters
<1>6. QED
  BY <1>1, <1>2, <1>3, <1>4, <1>5 DEF DistNext

Keeping == losses = 0 => \A f \in Wanted : Safe(f)

KeepInv == DistInv /\ OriginInv /\ PortsInv /\ OrderInv /\ Steady /\ Keeping

LEMMA KeepNext ==
    ASSUME IsStrictTotalOrder(Hosts), \A p, q \in Hosts : Port[p] = Port[q], Prompt,
           KeepInv, AllStored, [DistNext]_distVars
    PROVE  KeepInv'
<1>1. DistInv' /\ OriginInv' /\ PortsInv' /\ OrderInv' /\ Steady'
  BY DistNextInv, OriginNext, PortsNext, OrderKept, SteadyNext DEF KeepInv
<1>2. ASSUME losses' = 0, NEW f \in Wanted'
      PROVE  Safe(f)'
  <2>1. losses = 0 /\ Sound
    BY <1>2, LossesStay DEF KeepInv, Sound, Steady, Reliable
  <2>2. f \in Files
    BY <1>1, <1>2 DEF OriginInv, Wanted
  <2>3. f \in added => f \in Wanted
    BY HistoryGrows DEF Wanted
  <2>4. f \in added => Safe(f)
    BY <2>1, <2>3 DEF KeepInv, Keeping
  <2>5. QED
    BY <1>1, <1>2, <2>1, <2>2, <2>4, SafeNext DEF KeepInv
<1>3. QED
  BY <1>1, <1>2 DEF KeepInv, Keeping

LEMMA KeepInit == DistInit => KeepInv
<1> SUFFICES ASSUME DistInit PROVE KeepInv
  OBVIOUS
<1>1. DistInv /\ OriginInv /\ PortsInv /\ OrderInv
  BY DistInitInv, OriginInit, PortsInit, OrderInit DEF DistInit
<1>2. Steady /\ Wanted = {}
  BY DEF DistInit, Init, Steady, Wanted
<1>3. QED
  BY <1>1, <1>2 DEF KeepInv, Keeping

-----------------------------------------------------------------------------
(* A host lists a file without data only where it has listed it twice.     *)

Present(p, f) == Has(p, f) \/ f \in disk[p] \/ Receiving(p, f)

\* What a step leaves on a host that is not up was there before.
LEMMA NoGhosts ==
    ASSUME DistInv, [DistNext]_distVars, NEW f \in Files, f \notin left', NEW q \in Hosts,
           Present(q, f)'
    PROVE  Open(q)' \/ (Present(q, f) /\ ~Open(q))
<1>1. /\ files \in [Hosts -> Seq(Entries)] /\ disk \in [Hosts -> SUBSET Files]
      /\ inputs \in [Hosts -> SUBSET Inputs] /\ phase \in [Hosts -> Phases]
  BY DEF DistInv, FilesInv, IInv, Controls
<1>2. ASSUME files'[q] = files[q], disk'[q] = disk[q], inputs'[q] = inputs[q],
             phase'[q] = phase[q] \/ Open(q)'
      PROVE  Open(q)' \/ (Present(q, f) /\ ~Open(q))
  BY <1>2 DEF Present, Has, Receiving, Open
<1>3. CASE UNCHANGED distVars
  BY <1>2, <1>3 DEF distVars, memberVars, vars, fileVars
<1>4. CASE \E p, h \in Hosts : Lose(p, h) /\ UNCHANGED fileVars
  BY <1>2, <1>4 DEF Lose, fileVars
<1>5. CASE Users
  <2>1. ASSUME NEW p \in Hosts, StopService(p) \/ (Start(p) /\ UNCHANGED fileVars)
        PROVE  Open(q)' \/ (Present(q, f) /\ ~Open(q))
    BY <1>1, <1>2, <2>1 DEF StopService, Stop, Start, fileVars, Open
  <2>2. ASSUME NEW p \in Hosts, NEW g \in Files, AddFile(p, g) \/ RemoveFile(p, g)
        PROVE  Open(q)' \/ (Present(q, f) /\ ~Open(q))
    <3>1. Open(p)' /\ phase' = phase /\ inputs' = inputs
      BY <2>2 DEF AddFile, RemoveFile, memberVars, vars, Open
    <3>2. ASSUME q # p PROVE files'[q] = files[q] /\ disk'[q] = disk[q]
      <4>1. CASE AddFile(p, g)
        <5>1. StoreAndList(p, g)
          BY <4>1 DEF AddFile
        <5>2. /\ files' = [files EXCEPT ![p] = Append(@, File(g))]
              /\ \A h \in Hosts \ {p} : disk'[h] = disk[h]
          BY <5>1, StoreFacts, StoreElements
        <5>3. QED
          BY <1>1, <3>2, <5>2
      <4>2. CASE RemoveFile(p, g)
        BY <4>2 DEF RemoveFile
      <4>3. QED
        BY <2>2, <4>1, <4>2
    <3>3. QED
      BY <1>2, <3>1, <3>2
  <2>3. QED
    BY <1>5, <2>1, <2>2 DEF Users
<1>6. ASSUME NEW p \in Hosts, FileWorker(p), ~StopFiles(p)
      PROVE  Open(q)' \/ (Present(q, f) /\ ~Open(q))
  <2>1. Open(p)' /\ (q # p => phase'[q] = phase[q])
    BY <1>1, <1>6 DEF FileWorker, Announce, HandleFilesLocality, HandleFiles, ReceiveNothing,
                      ReceiveNode, ReceiveNew, ReceiveLeave, ReceiveRequest, ReceiveInit,
                      ReceiveRemove, FileMsg, Incoming, EndTurn, Open
  <2>2. q # p => files'[q] = files[q] /\ disk'[q] = disk[q] /\ inputs'[q] = inputs[q]
    BY <1>1, <1>6 DEF FileWorker, HandleFilesLocality, HandleFiles, ReceiveNothing, ReceiveNode,
                      ReceiveRequest, ReceiveInit, ReceiveRemove, fileVars
  <2>3. QED
    BY <1>2, <2>1, <2>2
<1>7. ASSUME NEW p \in Hosts, StopFiles(p)
      PROVE  Open(q)' \/ (Present(q, f) /\ ~Open(q))
  <2>1. CASE q # p
    BY <1>1, <1>2, <1>7, <2>1 DEF StopFiles, Leave, Gone
  <2>2. CASE q = p
    <3>1. files'[p] = <<>> /\ disk'[p] = {} /\ inputs' = inputs
      BY <1>1, <1>7 DEF StopFiles
    <3>2. ~Receiving(p, f)
      BY <1>7 DEF StopFiles, Receiving
    <3>3. QED
      BY <2>2, <3>1, <3>2 DEF Present, Has, Receiving
  <2>3. QED
    BY <2>1, <2>2
<1>8. ASSUME NEW p \in Hosts, Threads(p)
      PROVE  Open(q)' \/ (Present(q, f) /\ ~Open(q))
  <2>1. phase' = phase
    BY <1>8 DEF Threads, InputInit, InputStore, OutputPerform, memberVars, vars
  <2>2. Receiving(q, f)' => Receiving(q, f)
    BY <1>8, OldInputs DEF Threads, Receiving
  <2>3. CASE files'[q] = files[q] /\ disk'[q] = disk[q]
    BY <2>1, <2>2, <2>3 DEF Present, Has, Open
  <2>4. ASSUME NEW t \in inputs[p], InputStore(p, t)
        PROVE  Present(q, f)
    <3>1. t.file \in Files /\ File(t.file).file = t.file /\ StoreAndList(p, t.file)
      BY <1>1, <2>4 DEF Inputs, File, InputStore
    <3>2. /\ \A h \in Hosts : Listed(h)' \subseteq Listed(h) \cup {File(t.file)}
          /\ \A h \in Hosts \ {p} : Listed(h)' = Listed(h) /\ disk'[h] = disk[h]
          /\ disk'[p] \subseteq disk[p] \cup {t.file}
      <4>1. PICK g \in Files : g = t.file
        BY <3>1
      <4>2. StoreAndList(p, g)
        BY <3>1, <4>1
      <4>3. \A h \in Hosts : Listed(h)' = IF h = p THEN Listed(p) \cup {File(g)} ELSE Listed(h)
        BY <4>2, StoreElements
      <4>4. /\ \A h \in Hosts : disk'[h] \subseteq disk[h] \cup {g}
            /\ \A h \in Hosts \ {p} : disk'[h] = disk[h]
        BY <4>2, StoreElements
      <4>5. QED
        BY <4>1, <4>3, <4>4
    <3>3. /\ Has(q, f) <=> \E e \in Listed(q) : e.file = f
          /\ Has(q, f)' <=> \E e \in Listed(q)' : e.file = f
      BY DistNextInv, ListedFacts, ListedNext DEF DistInv
    <3>4. Has(q, f)' => Has(q, f) \/ (q = p /\ t.file = f)
      <4>1. CASE q = p
        BY <3>1, <3>2, <3>3, <4>1
      <4>2. CASE q # p
        BY <3>2, <3>3, <4>2
      <4>3. QED
        BY <4>1, <4>2
    <3>5. f \in disk'[q] => f \in disk[q] \/ (q = p /\ t.file = f)
      <4>1. CASE q = p
        BY <3>2, <4>1
      <4>2. CASE q # p
        BY <3>2, <4>2
      <4>3. QED
        BY <4>1, <4>2
    <3>6. QED
      BY <2>2, <3>4, <3>5 DEF Present, Receiving
  <2>5. QED
    BY <1>8, <2>1, <2>3, <2>4 DEF Threads, InputInit, OutputPerform, Present, Open
<1>9. QED
  BY <1>3, <1>4, <1>5, <1>6, <1>7, <1>8 DEF DistNext

OnlyUp == \A f \in Wanted : Running(f)

LEMMA OnlyUpNext ==
    ASSUME DistInv, OriginInv, OnlyUp, [DistNext]_distVars
    PROVE  OnlyUp'
<1> SUFFICES ASSUME NEW f \in Wanted', NEW q \in Hosts, Present(q, f)'
             PROVE  Open(q)'
  BY DEF OnlyUp, Running, Present
<1>1. f \in Files
  BY OriginNext DEF OriginInv, Wanted
<1>2. Open(q)' \/ (Present(q, f) /\ ~Open(q))
  BY <1>1, NoGhosts DEF Wanted
<1>3. Present(q, f) => f \in added
  <2>1. Has(q, f) <=> \E e \in Listed(q) : e.file = f
    BY ListedFacts DEF DistInv
  <2>2. QED
    BY <2>1 DEF Present, Receiving, OriginInv, EntriesOrigin, DisksOrigin, TransfersOrigin
<1>4. f \in added => f \in Wanted
  BY HistoryGrows DEF Wanted
<1>5. Present(q, f) => Open(q)
  BY <1>3, <1>4 DEF OnlyUp, Running, Present
<1>6. QED
  BY <1>2, <1>5

\* A service that stops takes its files along, and those its transfers bring
\* later; any other file, its data and its downloads are on hosts that are up.
THEOREM OnlyUpCorrect == DistSpec => []OnlyUp
<1>1. DistInit => OnlyUp
  BY DEF DistInit, OnlyUp, Wanted
<1>2. QED
  BY <1>1, OnlyUpNext, OriginCorrect, DistInvariance, PTL DEF DistSpec

\* list names f once at most; the same names are at the same places.
OnceIn(list, f) == \A i, j \in DOMAIN list : list[i].file = f /\ list[j].file = f => i = j
SameNames(old, new) == DOMAIN new = DOMAIN old /\ \A i \in DOMAIN old : new[i].file = old[i].file

\* HandleFiles keeps some of the entries, whatever else it does to them.
LEMMA HandledList ==
    ASSUME DistInv, NEW p \in Hosts, NEW diff \in 0 .. MaxGap, HandleFiles(p, diff)
    PROVE  \E asked \in Seq(Entries), gone \in SUBSET Nat :
              /\ gone \subseteq DOMAIN asked
              /\ SameNames(files[p], asked)
              /\ files' = [files EXCEPT ![p] = Picked(asked, DOMAIN asked \ gone)]
              /\ disk' = [disk EXCEPT ![p] = @ \ {asked[i].file : i \in gone}]
<1> DEFINE aged == Aged(files[p], diff)
           asked == IF toRemove[p] = NoFile THEN aged ELSE Marked(aged, toRemove[p])
           gone == {i \in DOMAIN asked : Expired(p, asked[i])}
<1>1. files[p] \in Seq(Entries)
  BY DEF DistInv, FilesInv
<1>2. aged \in Seq(Entries) /\ asked \in Seq(Entries)
  BY <1>1, AgedList, MarkedList
<1>3. SameNames(files[p], asked)
  <2>1. SameNames(files[p], aged)
    <3>1. \A i \in DOMAIN files[p] : files[p][i] \in Entries
      BY <1>1
    <3>2. QED
      BY <3>1 DEF Aged, Entries, SameNames
  <2> HIDE DEF aged
  <2>2. SameNames(aged, Marked(aged, toRemove[p]))
    BY <1>2, MarkedNames DEF SameNames
  <2>3. QED
    BY <2>1, <2>2 DEF SameNames
<1>4. /\ files' = [files EXCEPT ![p] = Picked(asked, DOMAIN asked \ gone)]
      /\ disk' = [disk EXCEPT ![p] = @ \ {asked[i].file : i \in gone}]
  BY DEF HandleFiles
<1>5. gone \subseteq DOMAIN asked
  OBVIOUS
<1> HIDE DEF asked, gone
<1>6. gone \in SUBSET Nat
  <2>1. DOMAIN asked \subseteq Nat
    BY <1>2
  <2>2. QED
    BY <1>5, <2>1
<1>7. QED
  BY <1>2, <1>3, <1>4, <1>5, <1>6

LEMMA PickedOnce ==
    ASSUME NEW list \in Seq(Entries), NEW P \in SUBSET DOMAIN list, NEW f, OnceIn(list, f)
    PROVE  OnceIn(Picked(list, P), f)
<1>1. ASSUME NEW k \in DOMAIN Picked(list, P), NEW l \in DOMAIN Picked(list, P), k # l,
             Picked(list, P)[k].file = f, Picked(list, P)[l].file = f
      PROVE  FALSE
  <2>1. PICK i \in P, j \in P : /\ i # j
                               /\ Picked(list, P)[k] = list[i] /\ Picked(list, P)[l] = list[j]
    BY <1>1, PickedApart
  <2>2. QED
    BY <1>1, <2>1 DEF OnceIn
<1>2. QED
  BY <1>1 DEF OnceIn

\* What a host has not listed while it had it is not in its list twice.
OnceInv == \A p \in Hosts, f \in Files : <<p, f>> \notin twice => OnceIn(files[p], f)

LEMMA OnceNext ==
    ASSUME DistInv, OnceInv, [DistNext]_distVars
    PROVE  OnceInv'
<1> SUFFICES ASSUME NEW q \in Hosts, NEW f \in Files, <<q, f>> \notin twice'
             PROVE  OnceIn(files'[q], f)
  BY DEF OnceInv, OnceIn
<1>1. files \in [Hosts -> Seq(Entries)] /\ files[q] \in Seq(Entries)
  BY DEF DistInv, FilesInv
<1>2. OnceIn(files[q], f)
  BY HistoryGrows DEF OnceInv
<1>3. CASE files'[q] = files[q]
  BY <1>2, <1>3
<1>4. CASE SameNames(files[q], files'[q])
  BY <1>2, <1>4 DEF SameNames, OnceIn
<1>5. ASSUME NEW p \in Hosts, NEW g \in Files, StoreAndList(p, g)
      PROVE  OnceIn(files'[q], f)
  <2>1. CASE q # p
    BY <1>1, <1>3, <1>5, <2>1, StoreFacts
  <2>2. CASE q = p
    <3>1. files'[p] = Append(files[p], File(g)) /\ (Has(p, g) => <<p, g>> \in twice')
      BY <1>1, <1>5, StoreFacts DEF StoreAndList
    <3>2. /\ Len(files[p]) \in Nat /\ DOMAIN files[p] = 1 .. Len(files[p])
          /\ DOMAIN files'[p] = 1 .. (Len(files[p]) + 1)
          /\ \A i \in 1 .. Len(files[p]) : files'[p][i] = files[p][i]
          /\ files'[p][Len(files[p]) + 1] = File(g)
      <4>1. files[p] \in Seq(Entries) /\ File(g) \in Entries
        BY <1>1, NewEntry
      <4>2. QED
        BY <3>1, <4>1, AppendProperties
    <3>3. File(g).file = g
      BY DEF File
    <3>4. g = f => \A i \in DOMAIN files[p] : files[p][i].file # f
      BY <2>2, <3>1 DEF Has
    <3>5. ASSUME NEW i \in DOMAIN files'[p], NEW j \in DOMAIN files'[p], i # j,
                 files'[p][i].file = f, files'[p][j].file = f
          PROVE  FALSE
      <4>1. CASE i \in DOMAIN files[p] /\ j \in DOMAIN files[p]
        <5>1. files[p][i].file = f /\ files[p][j].file = f
          BY <3>2, <3>5, <4>1
        <5>2. QED
          BY <1>2, <2>2, <3>5, <4>1, <5>1 DEF OnceIn
      <4>2. CASE i = Len(files[p]) + 1
        <5>1. j \in DOMAIN files[p] /\ files[p][j].file = f
          BY <3>2, <3>5, <4>2
        <5>2. QED
          BY <3>2, <3>3, <3>4, <3>5, <4>2, <5>1
      <4>3. CASE j = Len(files[p]) + 1
        <5>1. i \in DOMAIN files[p] /\ files[p][i].file = f
          BY <3>2, <3>5, <4>3
        <5>2. QED
          BY <3>2, <3>3, <3>4, <3>5, <4>3, <5>1
      <4>4. QED
        BY <3>2, <3>5, <4>1, <4>2, <4>3
    <3>6. QED
      BY <2>2, <3>5 DEF OnceIn
  <2>3. QED
    BY <2>1, <2>2
<1>6. CASE UNCHANGED distVars
  BY <1>3, <1>6 DEF distVars, fileVars
<1>7. CASE \E p, h \in Hosts : Lose(p, h) /\ UNCHANGED fileVars
  BY <1>3, <1>7 DEF fileVars
<1>8. CASE Users
  <2>1. ASSUME NEW p \in Hosts, NEW g \in Files, AddFile(p, g)
        PROVE  OnceIn(files'[q], f)
    BY <1>5, <2>1 DEF AddFile
  <2>2. QED
    BY <1>3, <1>8, <2>1 DEF Users, StopService, RemoveFile, fileVars
<1>9. ASSUME NEW p \in Hosts, FileWorker(p)
      PROVE  OnceIn(files'[q], f)
  <2>1. CASE HandleFilesLocality(p)
    <3>1. files'[q] = files[q] \/ (q = p /\ files'[q] = Placed(p))
      BY <1>1, <2>1 DEF HandleFilesLocality
    <3>2. SameNames(files[p], Placed(p))
      <4>1. \A i \in DOMAIN files[p] : files[p][i] \in Entries
        BY <1>1
      <4>2. QED
        BY <4>1 DEF Placed, Entries, SameNames
    <3>3. QED
      BY <1>3, <1>4, <3>1, <3>2
  <2>2. ASSUME NEW diff \in 0 .. MaxGap, HandleFiles(p, diff)
        PROVE  OnceIn(files'[q], f)
    <3>1. PICK asked \in Seq(Entries), gone \in SUBSET Nat :
             /\ SameNames(files[p], asked)
             /\ files' = [files EXCEPT ![p] = Picked(asked, DOMAIN asked \ gone)]
      BY <2>2, HandledList
    <3>2. CASE q # p
      BY <1>1, <1>3, <3>1, <3>2
    <3>3. CASE q = p
      <4>1. OnceIn(asked, f) /\ (DOMAIN asked \ gone) \in SUBSET DOMAIN asked
        BY <1>2, <3>1, <3>3 DEF SameNames, OnceIn
      <4>2. files'[q] = Picked(asked, DOMAIN asked \ gone)
        BY <1>1, <3>1, <3>3
      <4>3. QED
        BY <4>1, <4>2, PickedOnce
    <3>4. QED
      BY <3>2, <3>3
  <2>3. ASSUME NEW h \in Hosts, ReceiveRemove(p, h)
        PROVE  OnceIn(files'[q], f)
    <3>1. PICK g : files' = [files EXCEPT ![p] = Marked(@, g)]
      BY <2>3 DEF ReceiveRemove
    <3>2. SameNames(files[p], Marked(files[p], g))
      BY <1>1, MarkedNames DEF SameNames
    <3>3. QED
      BY <1>1, <1>3, <1>4, <3>1, <3>2
  <2>4. CASE StopFiles(p)
    <3>1. files'[q] = files[q] \/ files'[q] = <<>>
      BY <1>1, <2>4 DEF StopFiles
    <3>2. QED
      BY <1>3, <3>1 DEF OnceIn
  <2>5. QED
    BY <1>3, <1>9, <2>1, <2>2, <2>3, <2>4
       DEF FileWorker, ReceiveNothing, ReceiveNode, ReceiveRequest, ReceiveInit, fileVars
<1>10. ASSUME NEW p \in Hosts, Threads(p)
       PROVE  OnceIn(files'[q], f)
  <2>1. ASSUME NEW t \in inputs[p], InputStore(p, t)
        PROVE  OnceIn(files'[q], f)
    <3>1. t.file \in Files
      BY DEF DistInv, FilesInv, Inputs
    <3>2. QED
      BY <1>5, <2>1, <3>1 DEF InputStore
  <2>2. QED
    BY <1>3, <1>10, <2>1 DEF Threads, InputInit, OutputPerform
<1>11. QED
  BY <1>6, <1>7, <1>8, <1>9, <1>10 DEF DistNext

\* Only a file that a host has listed twice can be in its list twice, whatever
\* HandleFiles drops and HandleFilesLocality rewrites meanwhile.
LEMMA OnceInvariance == DistSpec => []OnceInv
<1>1. DistInit => OnceInv
  BY DEF DistInit, OnceInv, OnceIn
<1>2. QED
  BY <1>1, OnceNext, DistInvariance, PTL DEF DistSpec

\* Where a file is listed once, HandleFiles deletes the data and the entry or neither.
LEMMA DeletedTogether ==
    ASSUME DistInv, NEW p \in Hosts, NEW diff \in 0 .. MaxGap, HandleFiles(p, diff), NEW f,
           OnceIn(files[p], f), Has(p, f)', f \in disk[p]
    PROVE  Has(p, f) /\ f \in disk'[p]
<1>1. files \in [Hosts -> Seq(Entries)] /\ disk \in [Hosts -> SUBSET Files]
  BY DEF DistInv, FilesInv
<1>2. PICK asked \in Seq(Entries), gone \in SUBSET Nat :
         /\ gone \subseteq DOMAIN asked
         /\ SameNames(files[p], asked)
         /\ files' = [files EXCEPT ![p] = Picked(asked, DOMAIN asked \ gone)]
         /\ disk' = [disk EXCEPT ![p] = @ \ {asked[i].file : i \in gone}]
  BY HandledList
<1>3. \E j \in DOMAIN asked \ gone : asked[j].file = f
  <2>1. (DOMAIN asked \ gone) \in SUBSET DOMAIN asked
    OBVIOUS
  <2>2. ToSet(Picked(asked, DOMAIN asked \ gone)) = {asked[i] : i \in DOMAIN asked \ gone}
    BY <2>1, ElementsPicked
  <2>3. \E e \in ToSet(Picked(asked, DOMAIN asked \ gone)) : e.file = f
    BY <1>1, <1>2 DEF Has, ToSet
  <2>4. QED
    BY <2>2, <2>3
<1>4. \A i \in gone : asked[i].file # f
  BY <1>2, <1>3 DEF SameNames, OnceIn
<1>5. f \in disk'[p]
  BY <1>1, <1>2, <1>4
<1>6. QED
  BY <1>2, <1>3, <1>5 DEF SameNames, Has

LEMMA StoredNext ==
    ASSUME DistInv, OnceInv, ListedIsStored, [DistNext]_distVars
    PROVE  ListedIsStored'
<1> SUFFICES ASSUME NEW q \in Hosts, NEW f \in Files, <<q, f>> \notin unwritten' \cup twice',
                    Has(q, f)'
             PROVE  f \in disk'[q]
  BY DEF ListedIsStored
<1>1. /\ files \in [Hosts -> Seq(Entries)] /\ disk \in [Hosts -> SUBSET Files]
      /\ inputs \in [Hosts -> SUBSET Inputs]
  BY DEF DistInv, FilesInv
<1>2. <<q, f>> \notin unwritten' /\ <<q, f>> \notin unwritten /\ <<q, f>> \notin twice
  BY HistoryGrows
<1>3. Has(q, f) => f \in disk[q]
  BY <1>2 DEF ListedIsStored
<1>4. ASSUME files'[q] = files[q], disk[q] \subseteq disk'[q]
      PROVE  f \in disk'[q]
  BY <1>3, <1>4 DEF Has
<1>5. ASSUME NEW p \in Hosts, NEW g \in Files, StoreAndList(p, g)
      PROVE  f \in disk'[q]
  <2>1. /\ \A h \in Hosts : Listed(h)' = IF h = p THEN Listed(p) \cup {File(g)} ELSE Listed(h)
        /\ disk[q] \subseteq disk'[q] \cup {g} /\ (q # p => disk'[q] = disk[q])
        /\ g \in disk'[p] \/ <<p, g>> \in unwritten'
    BY <1>5, StoreElements
  <2>2. /\ Has(q, f) <=> \E e \in Listed(q) : e.file = f
        /\ \E e \in Listed(q)' : e.file = f
    BY DistNextInv, ListedFacts, ListedNext DEF DistInv
  <2>3. File(g).file = g
    BY DEF File
  <2>4. Has(q, f) \/ (q = p /\ g = f)
    BY <2>1, <2>2, <2>3
  <2>5. QED
    BY <1>2, <1>3, <2>1, <2>4
<1>7. CASE UNCHANGED distVars
  BY <1>4, <1>7 DEF distVars, fileVars
<1>8. CASE \E p, h \in Hosts : Lose(p, h) /\ UNCHANGED fileVars
  BY <1>4, <1>8 DEF fileVars
<1>9. CASE Users
  <2>1. ASSUME NEW p \in Hosts, NEW g \in Files, AddFile(p, g)
        PROVE  f \in disk'[q]
    BY <1>5, <2>1 DEF AddFile
  <2>2. QED
    BY <1>4, <1>9, <2>1 DEF Users, StopService, RemoveFile, fileVars
<1>10. ASSUME NEW p \in Hosts, FileWorker(p)
       PROVE  f \in disk'[q]
  <2>1. CASE HandleFilesLocality(p)
    <3>1. disk' = disk
      BY <2>1 DEF HandleFilesLocality
    <3>2. Has(q, f)
      <4>1. Listed(q)' = Listed(q) \/ (q = p /\ Listed(q)' = ToSet(Placed(p)))
        BY <1>1, <2>1 DEF HandleFilesLocality, Listed
      <4>2. \E e \in Listed(q)' : e.file = f
        BY DistNextInv, ListedNext DEF DistInv
      <4>3. \A e \in ToSet(Placed(p)) : \E d \in Listed(p) : d.file = e.file
        BY <1>1, PlacedElements
      <4>4. \E d \in Listed(q) : d.file = f
        BY <4>1, <4>2, <4>3
      <4>5. QED
        BY <4>4, ListedFacts DEF DistInv
    <3>3. QED
      BY <1>3, <3>1, <3>2
  <2>2. ASSUME NEW diff \in 0 .. MaxGap, HandleFiles(p, diff)
        PROVE  f \in disk'[q]
    <3>1. CASE q # p
      BY <1>1, <1>4, <2>2, <3>1 DEF HandleFiles
    <3>2. CASE q = p
      <4>1. Has(p, f)
        <5>1. \E e \in Listed(p)' : e.file = f
          BY <3>2, DistNextInv, ListedNext DEF DistInv
        <5>2. \E d \in Listed(p) : d.file = f
          BY <2>2, <5>1, HandledElements
        <5>3. QED
          BY <5>2, ListedFacts DEF DistInv
      <4>2. OnceIn(files[p], f)
        BY <1>2, <3>2 DEF OnceInv
      <4>3. f \in disk[p]
        BY <1>3, <3>2, <4>1
      <4>4. QED
        BY <2>2, <3>2, <4>2, <4>3, DeletedTogether
    <3>3. QED
      BY <3>1, <3>2
  <2>3. ASSUME NEW h \in Hosts, ReceiveRemove(p, h)
        PROVE  f \in disk'[q]
    <3>1. disk' = disk /\ \E g : files' = [files EXCEPT ![p] = Marked(@, g)]
      BY <2>3 DEF ReceiveRemove
    <3>2. Has(q, f)
      <4>1. PICK g : files' = [files EXCEPT ![p] = Marked(@, g)]
        BY <3>1
      <4>2. DOMAIN Marked(files[p], g) = DOMAIN files[p]
            /\ \A i \in DOMAIN files[p] : Marked(files[p], g)[i].file = files[p][i].file
        BY <1>1, MarkedNames
      <4>3. DOMAIN files'[q] = DOMAIN files[q]
            /\ \A i \in DOMAIN files[q] : files'[q][i].file = files[q][i].file
        BY <1>1, <4>1, <4>2
      <4>4. QED
        BY <4>3 DEF Has
    <3>3. QED
      BY <1>3, <3>1, <3>2
  <2>4. CASE StopFiles(p)
    <3>1. CASE q # p
      BY <1>1, <1>4, <2>4, <3>1 DEF StopFiles
    <3>2. CASE q = p
      BY <1>1, <2>4, <3>2 DEF StopFiles, Has
    <3>3. QED
      BY <3>1, <3>2
  <2>5. QED
    BY <1>4, <1>10, <2>1, <2>2, <2>3, <2>4
       DEF FileWorker, ReceiveNothing, ReceiveNode, ReceiveRequest, ReceiveInit, fileVars
<1>11. ASSUME NEW p \in Hosts, Threads(p)
       PROVE  f \in disk'[q]
  <2>1. ASSUME NEW t \in inputs[p], InputStore(p, t)
        PROVE  f \in disk'[q]
    BY <1>1, <1>5, <2>1 DEF InputStore, Inputs
  <2>2. QED
    BY <1>4, <1>11, <2>1 DEF Threads, InputInit, OutputPerform
<1>12. QED
  BY <1>7, <1>8, <1>9, <1>10, <1>11 DEF DistNext

\* HandleFiles deletes data by name, and what is stored is listed without a look at
\* the list (Service.cpp:1184, 1313): still, a host lists a file without its data
\* only if one of its own writes of it has failed or it has listed the file twice.
THEOREM StoredCorrect == DistSpec => []ListedIsStored
<1>1. DistInit => ListedIsStored
  BY DEF DistInit, ListedIsStored, Has
<1>2. DistInv /\ OnceInv /\ ListedIsStored /\ [DistNext]_distVars => ListedIsStored'
  BY StoredNext
<1>3. QED
  BY <1>1, <1>2, OnceInvariance, DistInvariance, PTL DEF DistSpec

-----------------------------------------------------------------------------
(* The last copy.                                                          *)

\* No host has listed a wanted file that it had: nobody adds a file twice at one
\* host, and no home is asked again for what it is fetching (ReceiveRequest).
ListedOnce == \A f \in Wanted, p \in Hosts : <<p, f>> \notin twice

\* As long as that is so, every wanted file is safe.
LEMMA KeepInvariance ==
    ASSUME IsStrictTotalOrder(Hosts), \A p, q \in Hosts : Port[p] = Port[q], Prompt
    PROVE  DistSpec /\ []ListedOnce => []KeepInv
<1>1. KeepInv /\ ListedIsStored /\ ListedOnce /\ [DistNext]_distVars => KeepInv'
  <2>1. KeepInv /\ ListedIsStored /\ ListedOnce => AllStored
    BY DEF KeepInv, OriginInv, Wanted, ListedIsStored, ListedOnce, AllStored
  <2>2. QED
    BY <2>1, KeepNext
<1>2. QED
  BY <1>1, KeepInit, StoredCorrect, PTL DEF DistSpec

\* "File is not used in any transfer and it's signed to the other node so remove
\* the local data" (Service.cpp:1181): every host deletes its copy on a timer and
\* never hears whether the home has one.  Still the last copy of a file is not
\* deleted, however nodes come and go, if the hosts of the port agree on an order,
\* transfers are over before a second passes and no host lists it twice, as
\* AddLocalFile may (1313) and the run distribution_twice shows.
THEOREM KeptWhenOnce ==
    ASSUME IsStrictTotalOrder(Hosts), \A p, q \in Hosts : Port[p] = Port[q], Prompt
    PROVE  DistSpec /\ []ListedOnce => []Kept
<1>1. KeepInv => Kept
  BY DEF KeepInv, Keeping, Kept, NeverLost, Safe, Anchored, Running, Holds
<1>2. QED
  BY <1>1, KeepInvariance, PTL

\* Then the copy is where every host looks for it: when all is calm, the home,
\* which is the same for all, holds the file (HandleFilesLocality, Service.cpp:1196).
THEOREM DeliveredWhenOnce ==
    ASSUME IsStrictTotalOrder(Hosts), \A p, q \in Hosts : Port[p] = Port[q], Prompt
    PROVE  DistSpec /\ []ListedOnce => []Delivered
<1>1. KeepInv => Delivered
  <2> SUFFICES ASSUME KeepInv, Calm, losses = 0, NEW f \in Wanted, NEW p \in Hosts, Open(p)
               PROVE  Holds(Home(p, f), f)
    BY DEF Delivered
  <2>1. Sound /\ Safe(f)
    BY DEF KeepInv, Keeping, Sound, Steady, Reliable
  <2>2. f \in Files
    BY DEF KeepInv, OriginInv, Wanted
  <2>3. QED
    BY <2>1, <2>2, CalmFacts DEF KeepInv
<1>2. QED
  BY <1>1, KeepInvariance, PTL

=============================================================================
