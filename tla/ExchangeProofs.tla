--------------------------- MODULE ExchangeProofs ---------------------------
(***************************************************************************)
(* Proofs about Exchange for every set of jobs and hosts, every size of    *)
(* the files, every number of slots and every number of faults.  In the    *)
(* second half: every host of Exchange implements TransferContract,        *)
(* whatever the other hosts do.                                            *)
(***************************************************************************)
EXTENDS Exchange, QueueFacts, FiniteSetTheorems

-----------------------------------------------------------------------------
(* The inductive invariant.                                                *)

\* A queue holds the transfers of its host that wait, once each.
QueuesInv ==
    \A h \in Hosts :
        /\ Distinct(inputData[h]) /\ Distinct(outputData[h])
        /\ \A j : InSeq(j, inputData[h]) <=>
                     j \in Jobs /\ Receiver[j] = h /\ input[j] = "queued"
        /\ \A j : InSeq(j, outputData[h]) <=>
                     j \in Jobs /\ Sender[j] = h /\ output[j] = "queued"

\* The sender hears of the transfer after its start, and connects once.
OrderInv ==
    \A j \in Jobs :
        /\ input[j] \in {"asked", "queued", "init"} => output[j] = "none"
        /\ output[j] \in {"none", "told", "queued", "connect"} => conn[j] = "none"

\* What is on the wire follows what is read, and what is sent follows it.
StreamInv ==
    \A j \in Jobs :
        /\ \A i \in 1 .. Len(wire[j]) : wire[j][i] = bytesRead[j] + i
        /\ conn[j] \in {"none", "open"} => bytesSend[j] = bytesRead[j] + Len(wire[j])

\* The vector is filled from the front, and stored when it is full.
DataInv ==
    \A j \in Jobs :
        /\ \A i \in 1 .. bytesRead[j] : data[j][i] = i
        /\ j \in stored \/ input[j] = "store" => bytesRead[j] = Size[j]

IInv == TypeOK /\ QueuesInv /\ OrderInv /\ StreamInv /\ DataInv

-----------------------------------------------------------------------------
(* The stream.                                                             *)

\* A send puts the next bytes of the file behind what is on the wire.
LEMMA SentFacts ==
    ASSUME NEW S \in Nat, NEW w \in Seq(1 .. S), NEW n \in Nat, NEW k \in Nat, n + k <= S
    PROVE  LET sent == w \o [i \in 1 .. k |-> n + i]
           IN /\ sent \in Seq(1 .. S)
              /\ Len(sent) = Len(w) + k
              /\ \A i \in 1 .. Len(w) : sent[i] = w[i]
              /\ \A i \in Len(w) + 1 .. Len(w) + k : sent[i] = n + (i - Len(w))
<1> DEFINE more == [i \in 1 .. k |-> n + i]
<1>1. more \in Seq(1 .. S) /\ Len(more) = k /\ \A i \in 1 .. k : more[i] = n + i
  <2>1. more \in [1 .. k -> 1 .. S]
    OBVIOUS
  <2>2. more \in Seq(1 .. S)
    BY <2>1, SeqDef
  <2>3. QED
    BY <2>1, <2>2, LenProperties
<1> HIDE DEF more
<1>2. /\ w \o more \in Seq(1 .. S)
      /\ Len(w \o more) = Len(w) + k
      /\ \A i \in 1 .. Len(w) + k :
            (w \o more)[i] = IF i <= Len(w) THEN w[i] ELSE more[i - Len(w)]
  BY <1>1, ConcatProperties
<1>3. Len(w) \in Nat
  OBVIOUS
<1>4. QED
  BY <1>1, <1>2, <1>3 DEF more

\* A receive takes bytes off the front of the wire.
LEMMA ReceivedFacts ==
    ASSUME NEW S, NEW w \in Seq(S), NEW k \in 1 .. Len(w)
    PROVE  LET rest == SubSeq(w, k + 1, Len(w))
           IN /\ rest \in Seq(S)
              /\ Len(rest) = Len(w) - k
              /\ \A i \in 1 .. Len(w) - k : rest[i] = w[k + i]
<1>1. Len(w) \in Nat /\ \A i \in k + 1 .. Len(w) : w[i] \in S
  OBVIOUS
<1>2. QED
  BY <1>1, SubSeqProperties

-----------------------------------------------------------------------------
(* Types.                                                                  *)

\* Where the transfers, the queues and the connections may be.
LEMMA ControlStep ==
    ASSUME TypeOK, QueuesInv, Next
    PROVE  ControlTypes'
<1> USE DEF TypeOK, ControlTypes, InputPlaces, OutputPlaces, InputRunning, OutputRunning,
            queueVars, mishaps
<1>1. ASSUME NEW h \in Hosts, StartQueuedInput(h)
      PROVE  ControlTypes'
  <2>1. Head(inputData[h]) \in Jobs /\ Tail(inputData[h]) \in Seq(Jobs)
    BY <1>1, TailFacts DEF StartQueuedInput, QueuesInv
  <2>2. QED
    BY <1>1, <2>1 DEF StartQueuedInput, streamVars
<1>2. ASSUME NEW h \in Hosts, StartQueuedOutput(h)
      PROVE  ControlTypes'
  <2>1. Head(outputData[h]) \in Jobs /\ Tail(outputData[h]) \in Seq(Jobs)
    BY <1>2, TailFacts DEF StartQueuedOutput, QueuesInv
  <2>2. QED
    BY <1>2, <2>1 DEF StartQueuedOutput, streamVars
<1>3. ASSUME NEW j \in Jobs, ReceiveRequest(j)
      PROVE  ControlTypes'
  <2>1. Append(inputData[Receiver[j]], j) \in Seq(Jobs)
    BY ExchangeAssumption, AppendFacts
  <2>2. QED
    BY <1>3, <2>1 DEF ReceiveRequest, streamVars
<1>4. ASSUME NEW j \in Jobs, ReceiveInit(j)
      PROVE  ControlTypes'
  <2>1. Append(outputData[Sender[j]], j) \in Seq(Jobs)
    BY ExchangeAssumption, AppendFacts
  <2>2. QED
    BY <1>4, <2>1 DEF ReceiveInit, streamVars
<1>5. ASSUME NEW j \in Jobs, SendInit(j) PROVE ControlTypes'
  BY <1>5 DEF SendInit, streamVars
<1>6. ASSUME NEW j \in Jobs, Listen(j) PROVE ControlTypes'
  BY <1>6 DEF Listen, streamVars
<1>7. ASSUME NEW j \in Jobs, Accept(j) PROVE ControlTypes'
  BY <1>7 DEF Accept, streamVars
<1>8. ASSUME NEW j \in Jobs, ReceiveSome(j) PROVE ControlTypes'
  BY <1>8 DEF ReceiveSome
<1>9. ASSUME NEW j \in Jobs, ReceiveDone(j) PROVE ControlTypes'
  BY <1>9 DEF ReceiveDone, streamVars
<1>10. ASSUME NEW j \in Jobs, ReceiveFails(j) PROVE ControlTypes'
  BY <1>10 DEF ReceiveFails, streamVars
<1>11. ASSUME NEW j \in Jobs, Store(j) PROVE ControlTypes'
  BY <1>11 DEF Store, HangUp
<1>12. ASSUME NEW j \in Jobs, Connect(j) PROVE ControlTypes'
  BY <1>12 DEF Connect
<1>13. ASSUME NEW j \in Jobs, ConnectRefused(j) \/ ConnectFails(j) PROVE ControlTypes'
  BY <1>13 DEF ConnectRefused, ConnectFails, streamVars
<1>14. ASSUME NEW j \in Jobs, ReadFile(j) PROVE ControlTypes'
  BY <1>14 DEF ReadFile, streamVars
<1>15. ASSUME NEW j \in Jobs, SendSome(j) PROVE ControlTypes'
  BY <1>15 DEF SendSome
<1>16. ASSUME NEW j \in Jobs, SendEnds(j) PROVE ControlTypes'
  BY <1>16 DEF SendEnds, SenderCloses
<1>17. ASSUME NEW j \in Jobs, InputFails(j) PROVE ControlTypes'
  BY <1>17 DEF InputFails, HangUp
<1>18. ASSUME NEW j \in Jobs, ReadFails(j) PROVE ControlTypes'
  BY <1>18 DEF ReadFails, SenderCloses
<1>19. ASSUME NEW j \in Jobs, Break(j) PROVE ControlTypes'
  BY <1>19 DEF Break
<1>20. QED
  BY <1>1, <1>2, <1>3, <1>4, <1>5, <1>6, <1>7, <1>8, <1>9, <1>10, <1>11,
     <1>12, <1>13, <1>14, <1>15, <1>16, <1>17, <1>18, <1>19
  DEF Next, Input, Output, Faults, Worker

\* The steps that leave the bytes where they are.
LEMMA BytesStay ==
    ASSUME Next, \A j \in Jobs : ~ReceiveSome(j) /\ ~SendSome(j) /\ ~Break(j)
    PROVE  UNCHANGED <<wire, bytesSend, bytesRead, data>>
<1>1. ASSUME NEW h \in Hosts, Worker(h)
      PROVE  UNCHANGED <<wire, bytesSend, bytesRead, data>>
  BY <1>1 DEF Worker, StartQueuedInput, StartQueuedOutput, ReceiveRequest, ReceiveInit, streamVars
<1>2. ASSUME NEW j \in Jobs, Input(j), ~ReceiveSome(j)
      PROVE  UNCHANGED <<wire, bytesSend, bytesRead, data>>
  BY <1>2 DEF Input, SendInit, Listen, Accept, ReceiveDone, ReceiveFails, Store, streamVars
<1>3. ASSUME NEW j \in Jobs, Output(j), ~SendSome(j)
      PROVE  UNCHANGED <<wire, bytesSend, bytesRead, data>>
  BY <1>3 DEF Output, Connect, ConnectRefused, ReadFile, SendEnds, streamVars
<1>4. ASSUME NEW j \in Jobs, Faults(j), ~Break(j)
      PROVE  UNCHANGED <<wire, bytesSend, bytesRead, data>>
  BY <1>4 DEF Faults, InputFails, ConnectFails, ReadFails, streamVars
<1>5. QED
  BY <1>1, <1>2, <1>3, <1>4 DEF Next

\* The bytes of the stream are bytes of the file.
LEMMA BytesStep ==
    ASSUME TypeOK, Next
    PROVE  StreamTypes'
<1> USE DEF TypeOK, StreamTypes, Places
<1>1. ASSUME NEW j \in Jobs, ReceiveSome(j)
      PROVE  StreamTypes'
  <2>1. PICK k \in 1 .. Len(wire[j]) :
          /\ bytesRead[j] + k <= Size[j]
          /\ data' = [data EXCEPT ![j] =
                 [i \in 1 .. Size[j] |->
                     IF bytesRead[j] < i /\ i <= bytesRead[j] + k
                     THEN wire[j][i - bytesRead[j]] ELSE @[i]]]
          /\ wire' = [wire EXCEPT ![j] = SubSeq(@, k + 1, Len(@))]
          /\ bytesRead' = [bytesRead EXCEPT ![j] = @ + k]
    BY <1>1 DEF ReceiveSome
  <2>2. SubSeq(wire[j], k + 1, Len(wire[j])) \in Seq(1 .. Size[j])
    BY ReceivedFacts
  <2>3. data'[j] \in [1 .. Size[j] -> 0 .. Size[j]]
    <3>1. \A i \in 1 .. Len(wire[j]) : wire[j][i] \in 1 .. Size[j]
      BY ElementOfSeq
    <3>2. ASSUME NEW i \in 1 .. Size[j]
          PROVE  (IF bytesRead[j] < i /\ i <= bytesRead[j] + k
                  THEN wire[j][i - bytesRead[j]] ELSE data[j][i]) \in 0 .. Size[j]
      <4>1. bytesRead[j] \in Nat /\ Len(wire[j]) \in Nat /\ Size[j] \in Nat
        BY ExchangeAssumption
      <4>2. CASE bytesRead[j] < i /\ i <= bytesRead[j] + k
        <5>1. i - bytesRead[j] \in 1 .. Len(wire[j])
          BY <4>1, <4>2
        <5>2. QED
          BY <3>1, <4>1, <4>2, <5>1
      <4>3. CASE ~(bytesRead[j] < i /\ i <= bytesRead[j] + k)
        BY <4>3
      <4>4. QED
        BY <4>2, <4>3
    <3>3. data'[j] = [i \in 1 .. Size[j] |->
                         IF bytesRead[j] < i /\ i <= bytesRead[j] + k
                         THEN wire[j][i - bytesRead[j]] ELSE data[j][i]]
      BY <2>1
    <3>4. QED
      BY <3>2, <3>3
  <2>4. /\ bytesSend' = bytesSend /\ bytesRead' \in [Jobs -> Nat]
        /\ DOMAIN wire' = Jobs /\ DOMAIN data' = Jobs
    BY <1>1, <2>1 DEF ReceiveSome
  <2>5. ASSUME NEW x \in Jobs
        PROVE  /\ wire'[x] \in Seq(1 .. Size[x])
               /\ data'[x] \in [1 .. Size[x] -> 0 .. Size[x]]
               /\ bytesSend'[x] <= Size[x] /\ bytesRead'[x] <= Size[x]
    <3>1. CASE x = j
      BY <2>1, <2>2, <2>3, <2>4, <3>1
    <3>2. CASE x # j
      <4>1. wire'[x] = wire[x] /\ data'[x] = data[x] /\ bytesRead'[x] = bytesRead[x]
        BY <2>1, <3>2
      <4>2. QED
        BY <2>4, <4>1
    <3>3. QED
      BY <3>1, <3>2
  <2>6. QED
    BY <2>4, <2>5
<1>2. ASSUME NEW j \in Jobs, SendSome(j)
      PROVE  StreamTypes'
  <2>1. PICK k \in 1 .. Size[j] - bytesSend[j] :
          /\ wire' = [wire EXCEPT ![j] = @ \o [i \in 1 .. k |-> bytesSend[j] + i]]
          /\ bytesSend' = [bytesSend EXCEPT ![j] = @ + k]
    BY <1>2 DEF SendSome
  <2>2. wire[j] \o [i \in 1 .. k |-> bytesSend[j] + i] \in Seq(1 .. Size[j])
    <3>1. /\ Size[j] \in Nat /\ bytesSend[j] \in Nat /\ k \in Nat
          /\ bytesSend[j] + k <= Size[j] /\ wire[j] \in Seq(1 .. Size[j])
      BY ExchangeAssumption
    <3>2. QED
      BY <3>1, SentFacts
  <2>3. UNCHANGED <<bytesRead, data>>
    BY <1>2 DEF SendSome
  <2>4. DOMAIN wire' = Jobs /\ bytesSend' \in [Jobs -> Nat]
    BY <2>1
  <2>5. ASSUME NEW x \in Jobs
        PROVE  wire'[x] \in Seq(1 .. Size[x]) /\ bytesSend'[x] <= Size[x]
    <3>1. CASE x = j
      BY <2>1, <2>2, <3>1, ExchangeAssumption
    <3>2. CASE x # j
      BY <2>1, <3>2
    <3>3. QED
      BY <3>1, <3>2
  <2>6. QED
    BY <2>3, <2>4, <2>5
<1>3. ASSUME NEW j \in Jobs, Break(j)
      PROVE  StreamTypes'
  <2>1. wire' = [wire EXCEPT ![j] = <<>>] /\ UNCHANGED <<bytesSend, bytesRead, data>>
    BY <1>3 DEF Break
  <2>2. <<>> \in Seq(1 .. Size[j])
    BY EmptyFacts
  <2>3. ASSUME NEW x \in Jobs
        PROVE  wire'[x] \in Seq(1 .. Size[x])
    BY <2>1, <2>2
  <2>4. DOMAIN wire' = Jobs
    BY <2>1
  <2>5. UNCHANGED <<bytesSend, bytesRead, data>>
    BY <2>1
  <2>6. QED
    BY <2>3, <2>4, <2>5
<1>4. ASSUME UNCHANGED <<wire, bytesSend, bytesRead, data>>
      PROVE  StreamTypes'
  BY <1>4
<1>5. QED
  BY <1>1, <1>2, <1>3, <1>4, BytesStay

-----------------------------------------------------------------------------
(* Queues.                                                                 *)

\* The steps of the transfers themselves.
LEMMA NobodyQueues ==
    ASSUME TypeOK, OrderInv, NEW j \in Jobs, Input(j) \/ Output(j) \/ Faults(j)
    PROVE  /\ UNCHANGED <<inputData, outputData>>
           /\ \A x \in Jobs : /\ input'[x] = "queued" <=> input[x] = "queued"
                              /\ output'[x] = "queued" <=> output[x] = "queued"
<1> USE DEF TypeOK, ControlTypes
<1>1. CASE Input(j)
  <2>1. CASE SendInit(j)
    BY <2>1 DEF SendInit, OrderInv, queueVars
  <2>2. CASE Listen(j) \/ Accept(j) \/ ReceiveDone(j) \/ ReceiveFails(j)
    BY <2>2 DEF Listen, Accept, ReceiveDone, ReceiveFails, queueVars
  <2>3. CASE ReceiveSome(j)
    BY <2>3 DEF ReceiveSome, queueVars
  <2>4. CASE Store(j)
    BY <2>4 DEF Store, queueVars
  <2>5. QED
    BY <1>1, <2>1, <2>2, <2>3, <2>4 DEF Input
<1>2. CASE Output(j)
  <2>1. CASE Connect(j)
    BY <2>1 DEF Connect, queueVars
  <2>2. CASE ConnectRefused(j)
    BY <2>2 DEF ConnectRefused, queueVars
  <2>3. CASE ReadFile(j)
    BY <2>3 DEF ReadFile, queueVars
  <2>4. CASE SendSome(j)
    BY <2>4 DEF SendSome, queueVars
  <2>5. CASE SendEnds(j)
    BY <2>5 DEF SendEnds, SenderCloses, queueVars
  <2>6. QED
    BY <1>2, <2>1, <2>2, <2>3, <2>4, <2>5 DEF Output
<1>3. CASE Faults(j)
  <2>1. CASE InputFails(j)
    BY <2>1 DEF InputFails, queueVars
  <2>2. CASE ReadFails(j)
    BY <2>2 DEF ReadFails, SenderCloses, queueVars
  <2>3. CASE Break(j)
    BY <2>3 DEF Break, queueVars
  <2>4. CASE ConnectFails(j)
    BY <2>4 DEF ConnectFails, queueVars
  <2>5. QED
    BY <1>3, <2>1, <2>2, <2>3, <2>4 DEF Faults
<1>4. QED
  BY <1>1, <1>2, <1>3

\* Every queue holds the waiting transfers of its host.
LEMMA QueuesStep ==
    ASSUME TypeOK, QueuesInv, OrderInv, Next
    PROVE  QueuesInv'
<1> USE DEF TypeOK, ControlTypes, QueuesInv
<1>1. ASSUME NEW j \in Jobs, Input(j) \/ Output(j) \/ Faults(j)
      PROVE  QueuesInv'
  BY <1>1, NobodyQueues
<1>2. ASSUME NEW h \in Hosts, StartQueuedInput(h)
      PROVE  QueuesInv'
  <2>1. /\ Head(inputData[h]) \in Jobs /\ InSeq(Head(inputData[h]), inputData[h])
        /\ Distinct(Tail(inputData[h]))
        /\ \A x : InSeq(x, Tail(inputData[h])) <=>
                     (InSeq(x, inputData[h]) /\ x # Head(inputData[h]))
    BY <1>2, TailFacts DEF StartQueuedInput
  <2>2. Receiver[Head(inputData[h])] = h
    BY <2>1
  <2>3. QED
    BY <1>2, <2>1, <2>2 DEF StartQueuedInput
<1>3. ASSUME NEW h \in Hosts, StartQueuedOutput(h)
      PROVE  QueuesInv'
  <2>1. /\ Head(outputData[h]) \in Jobs /\ InSeq(Head(outputData[h]), outputData[h])
        /\ Distinct(Tail(outputData[h]))
        /\ \A x : InSeq(x, Tail(outputData[h])) <=>
                     (InSeq(x, outputData[h]) /\ x # Head(outputData[h]))
    BY <1>3, TailFacts DEF StartQueuedOutput
  <2>2. Sender[Head(outputData[h])] = h
    BY <2>1
  <2>3. QED
    BY <1>3, <2>1, <2>2 DEF StartQueuedOutput
<1>4. ASSUME NEW j \in Jobs, ReceiveRequest(j)
      PROVE  QueuesInv'
  <2>1. ~InSeq(j, inputData[Receiver[j]]) /\ inputData[Receiver[j]] \in Seq(Jobs)
    BY <1>4, ExchangeAssumption DEF ReceiveRequest
  <2>2. /\ Distinct(Append(inputData[Receiver[j]], j))
        /\ \A x : InSeq(x, Append(inputData[Receiver[j]], j)) <=>
                     (InSeq(x, inputData[Receiver[j]]) \/ x = j)
    BY <2>1, AppendFacts, ExchangeAssumption
  <2>3. CASE HasFreeSlot(Receiver[j])
    BY <1>4, <2>3 DEF ReceiveRequest
  <2>4. CASE ~HasFreeSlot(Receiver[j])
    <3>1. /\ input' = [input EXCEPT ![j] = "queued"]
          /\ inputData' = [inputData EXCEPT ![Receiver[j]] = Append(@, j)]
          /\ UNCHANGED <<output, outputData>>
      BY <1>4, <2>4 DEF ReceiveRequest
    <3>2. Receiver[j] \in Hosts
      BY ExchangeAssumption
    <3>3. QED
      BY <2>2, <3>1, <3>2
  <2>5. QED
    BY <2>3, <2>4
<1>5. ASSUME NEW j \in Jobs, ReceiveInit(j)
      PROVE  QueuesInv'
  <2>1. ~InSeq(j, outputData[Sender[j]]) /\ outputData[Sender[j]] \in Seq(Jobs)
    BY <1>5, ExchangeAssumption DEF ReceiveInit
  <2>2. /\ Distinct(Append(outputData[Sender[j]], j))
        /\ \A x : InSeq(x, Append(outputData[Sender[j]], j)) <=>
                     (InSeq(x, outputData[Sender[j]]) \/ x = j)
    BY <2>1, AppendFacts, ExchangeAssumption
  <2>3. CASE HasFreeSlot(Sender[j])
    BY <1>5, <2>3 DEF ReceiveInit
  <2>4. CASE ~HasFreeSlot(Sender[j])
    <3>1. /\ output' = [output EXCEPT ![j] = "queued"]
          /\ outputData' = [outputData EXCEPT ![Sender[j]] = Append(@, j)]
          /\ UNCHANGED <<input, inputData>>
      BY <1>5, <2>4 DEF ReceiveInit
    <3>2. Sender[j] \in Hosts
      BY ExchangeAssumption
    <3>3. QED
      BY <2>2, <3>1, <3>2
  <2>5. QED
    BY <2>3, <2>4
<1>6. QED
  BY <1>1, <1>2, <1>3, <1>4, <1>5 DEF Next, Worker

-----------------------------------------------------------------------------
(* The order of the two sides.                                             *)

LEMMA OrderStep ==
    ASSUME TypeOK, QueuesInv, OrderInv, Next
    PROVE  OrderInv'
<1> USE DEF TypeOK, ControlTypes, OrderInv
<1>1. ASSUME NEW h \in Hosts, StartQueuedInput(h)
      PROVE  OrderInv'
  <2>1. Head(inputData[h]) \in Jobs /\ input[Head(inputData[h])] = "queued"
    BY <1>1, TailFacts DEF StartQueuedInput, QueuesInv
  <2>2. QED
    BY <1>1, <2>1 DEF StartQueuedInput, streamVars
<1>2. ASSUME NEW h \in Hosts, StartQueuedOutput(h)
      PROVE  OrderInv'
  <2>1. Head(outputData[h]) \in Jobs /\ output[Head(outputData[h])] = "queued"
    BY <1>2, TailFacts DEF StartQueuedOutput, QueuesInv
  <2>2. QED
    BY <1>2, <2>1 DEF StartQueuedOutput, streamVars
<1>3. ASSUME NEW j \in Jobs, ReceiveRequest(j) PROVE OrderInv'
  BY <1>3 DEF ReceiveRequest, streamVars
<1>4. ASSUME NEW j \in Jobs, ReceiveInit(j) PROVE OrderInv'
  BY <1>4 DEF ReceiveInit, streamVars
<1>5. ASSUME NEW j \in Jobs, SendInit(j) PROVE OrderInv'
  BY <1>5 DEF SendInit, streamVars
<1>6. ASSUME NEW j \in Jobs, Listen(j) PROVE OrderInv'
  BY <1>6 DEF Listen, streamVars
<1>7. ASSUME NEW j \in Jobs, Accept(j) PROVE OrderInv'
  BY <1>7 DEF Accept, streamVars
<1>8. ASSUME NEW j \in Jobs, ReceiveSome(j) PROVE OrderInv'
  BY <1>8 DEF ReceiveSome
<1>9. ASSUME NEW j \in Jobs, ReceiveDone(j) PROVE OrderInv'
  BY <1>9 DEF ReceiveDone, streamVars
<1>10. ASSUME NEW j \in Jobs, ReceiveFails(j) PROVE OrderInv'
  BY <1>10 DEF ReceiveFails, streamVars
<1>11. ASSUME NEW j \in Jobs, Store(j) PROVE OrderInv'
  BY <1>11 DEF Store, HangUp
<1>12. ASSUME NEW j \in Jobs, Connect(j) PROVE OrderInv'
  BY <1>12 DEF Connect
<1>13. ASSUME NEW j \in Jobs, ConnectRefused(j) \/ ConnectFails(j) PROVE OrderInv'
  BY <1>13 DEF ConnectRefused, ConnectFails, streamVars
<1>14. ASSUME NEW j \in Jobs, ReadFile(j) PROVE OrderInv'
  BY <1>14 DEF ReadFile, streamVars
<1>15. ASSUME NEW j \in Jobs, SendSome(j) PROVE OrderInv'
  BY <1>15 DEF SendSome
<1>16. ASSUME NEW j \in Jobs, SendEnds(j) PROVE OrderInv'
  BY <1>16 DEF SendEnds, SenderCloses
<1>17. ASSUME NEW j \in Jobs, InputFails(j) PROVE OrderInv'
  BY <1>17 DEF InputFails, HangUp
<1>18. ASSUME NEW j \in Jobs, ReadFails(j) PROVE OrderInv'
  BY <1>18 DEF ReadFails, SenderCloses
<1>19. ASSUME NEW j \in Jobs, Break(j) PROVE OrderInv'
  BY <1>19 DEF Break
<1>20. QED
  BY <1>1, <1>2, <1>3, <1>4, <1>5, <1>6, <1>7, <1>8, <1>9, <1>10, <1>11,
     <1>12, <1>13, <1>14, <1>15, <1>16, <1>17, <1>18, <1>19
  DEF Next, Input, Output, Faults, Worker

-----------------------------------------------------------------------------
(* The stream is the file, in its order.                                   *)

LEMMA StreamStep ==
    ASSUME TypeOK, OrderInv, StreamInv, Next
    PROVE  StreamInv'
<1> USE DEF TypeOK, ControlTypes, StreamTypes, StreamInv
<1>1. ASSUME NEW j \in Jobs, ReceiveSome(j)
      PROVE  StreamInv'
  <2>1. PICK k \in 1 .. Len(wire[j]) :
          /\ wire' = [wire EXCEPT ![j] = SubSeq(@, k + 1, Len(@))]
          /\ bytesRead' = [bytesRead EXCEPT ![j] = @ + k]
    BY <1>1 DEF ReceiveSome
  <2>2. UNCHANGED <<conn, bytesSend>>
    BY <1>1 DEF ReceiveSome
  <2>3. /\ wire[j] \in Seq(Places(j)) /\ Len(wire[j]) \in Nat
        /\ bytesRead[j] \in Nat /\ bytesSend[j] \in Nat
    OBVIOUS
  <2>4. /\ Len(wire'[j]) = Len(wire[j]) - k
        /\ \A i \in 1 .. Len(wire[j]) - k : wire'[j][i] = wire[j][k + i]
    BY <2>1, <2>3, ReceivedFacts
  <2>5. \A i \in 1 .. Len(wire'[j]) : wire'[j][i] = bytesRead'[j] + i
    <3>1. ASSUME NEW i \in 1 .. Len(wire[j]) - k
          PROVE  wire[j][k + i] = bytesRead[j] + k + i
      <4>1. k + i \in 1 .. Len(wire[j])
        BY <2>3
      <4>2. wire[j][k + i] = bytesRead[j] + (k + i)
        BY <4>1
      <4>3. QED
        BY <2>3, <4>2
    <3>2. bytesRead'[j] = bytesRead[j] + k
      BY <2>1
    <3>3. QED
      BY <2>4, <3>1, <3>2
  <2>6. conn'[j] \in {"none", "open"} => bytesSend'[j] = bytesRead'[j] + Len(wire'[j])
    BY <2>1, <2>2, <2>3, <2>4
  <2>7. \A x \in Jobs \ {j} :
          wire'[x] = wire[x] /\ bytesRead'[x] = bytesRead[x]
    BY <2>1
  <2>8. ASSUME NEW x \in Jobs
        PROVE  /\ \A i \in 1 .. Len(wire'[x]) : wire'[x][i] = bytesRead'[x] + i
               /\ conn'[x] \in {"none", "open"} => bytesSend'[x] = bytesRead'[x] + Len(wire'[x])
    <3>1. CASE x = j
      BY <2>5, <2>6, <3>1
    <3>2. CASE x # j
      <4>1. /\ wire'[x] = wire[x] /\ bytesRead'[x] = bytesRead[x]
            /\ conn'[x] = conn[x] /\ bytesSend'[x] = bytesSend[x]
        BY <2>2, <2>7, <3>2
      <4>2. QED
        BY <4>1
    <3>3. QED
      BY <3>1, <3>2
  <2>9. QED
    BY <2>8
<1>2. ASSUME NEW j \in Jobs, SendSome(j)
      PROVE  StreamInv'
  <2>1. PICK k \in 1 .. Size[j] - bytesSend[j] :
          /\ wire' = [wire EXCEPT ![j] = @ \o [i \in 1 .. k |-> bytesSend[j] + i]]
          /\ bytesSend' = [bytesSend EXCEPT ![j] = @ + k]
    BY <1>2 DEF SendSome
  <2>2. UNCHANGED <<conn, bytesRead>> /\ conn[j] = "open"
    BY <1>2 DEF SendSome
  <2>3. /\ Size[j] \in Nat /\ bytesSend[j] \in Nat /\ bytesRead[j] \in Nat /\ k \in Nat
        /\ bytesSend[j] + k <= Size[j]
        /\ wire[j] \in Seq(1 .. Size[j]) /\ Len(wire[j]) \in Nat
    BY ExchangeAssumption DEF Places
  <2>4. /\ Len(wire'[j]) = Len(wire[j]) + k
        /\ \A i \in 1 .. Len(wire[j]) : wire'[j][i] = wire[j][i]
        /\ \A i \in Len(wire[j]) + 1 .. Len(wire[j]) + k :
              wire'[j][i] = bytesSend[j] + (i - Len(wire[j]))
    BY <2>1, <2>3, SentFacts
  <2>5. bytesSend[j] = bytesRead[j] + Len(wire[j])
    BY <2>2
  <2>6. \A i \in 1 .. Len(wire'[j]) : wire'[j][i] = bytesRead'[j] + i
    <3>1. ASSUME NEW i \in 1 .. Len(wire[j]) + k
          PROVE  wire'[j][i] = bytesRead[j] + i
      <4>1. CASE i \in 1 .. Len(wire[j])
        BY <2>4, <4>1
      <4>2. CASE i \in Len(wire[j]) + 1 .. Len(wire[j]) + k
        <5>1. wire'[j][i] = bytesSend[j] + (i - Len(wire[j]))
          BY <2>4, <4>2
        <5>2. QED
          BY <2>3, <2>5, <5>1
      <4>3. QED
        BY <2>3, <4>1, <4>2
    <3>2. QED
      BY <2>2, <2>4, <3>1
  <2>7. bytesSend'[j] = bytesRead'[j] + Len(wire'[j])
    BY <2>1, <2>2, <2>3, <2>4, <2>5
  <2>8. \A x \in Jobs \ {j} :
          wire'[x] = wire[x] /\ bytesSend'[x] = bytesSend[x]
    BY <2>1
  <2>9. ASSUME NEW x \in Jobs
        PROVE  /\ \A i \in 1 .. Len(wire'[x]) : wire'[x][i] = bytesRead'[x] + i
               /\ conn'[x] \in {"none", "open"} => bytesSend'[x] = bytesRead'[x] + Len(wire'[x])
    <3>1. CASE x = j
      BY <2>6, <2>7, <3>1
    <3>2. CASE x # j
      <4>1. /\ wire'[x] = wire[x] /\ bytesRead'[x] = bytesRead[x]
            /\ conn'[x] = conn[x] /\ bytesSend'[x] = bytesSend[x]
        BY <2>2, <2>8, <3>2
      <4>2. QED
        BY <4>1
    <3>3. QED
      BY <3>1, <3>2
  <2>10. QED
    BY <2>9
<1>3. ASSUME NEW j \in Jobs, Break(j)
      PROVE  StreamInv'
  <2>1. /\ conn' = [conn EXCEPT ![j] = "broken"]
        /\ wire' = [wire EXCEPT ![j] = <<>>]
        /\ UNCHANGED <<bytesSend, bytesRead>>
    BY <1>3 DEF Break
  <2>2. Len(wire'[j]) = 0 /\ conn'[j] = "broken"
    BY <2>1
  <2>3. \A x \in Jobs \ {j} : wire'[x] = wire[x] /\ conn'[x] = conn[x]
    BY <2>1
  <2>4. QED
    BY <2>1, <2>2, <2>3
<1>4. ASSUME UNCHANGED <<wire, bytesSend, bytesRead, data>>,
             \A j \in Jobs : conn'[j] \in {"none", "open"} => conn[j] \in {"none", "open"}
      PROVE  StreamInv'
  BY <1>4
<1>5. ASSUME NEW h \in Hosts, Worker(h)
      PROVE  UNCHANGED conn
  BY <1>5 DEF Worker, StartQueuedInput, StartQueuedOutput, ReceiveRequest, ReceiveInit, streamVars
<1>6. ASSUME NEW j \in Jobs, Input(j) \/ Output(j) \/ Faults(j)
      PROVE  \A x \in Jobs : conn'[x] \in {"none", "open"} => conn[x] \in {"none", "open"}
  <2>1. CASE SendInit(j) \/ Listen(j) \/ Accept(j) \/ ReceiveDone(j) \/ ReceiveFails(j)
    BY <2>1 DEF SendInit, Listen, Accept, ReceiveDone, ReceiveFails, streamVars
  <2>2. CASE ReceiveSome(j) \/ SendSome(j)
    BY <2>2 DEF ReceiveSome, SendSome
  <2>3. CASE Store(j) \/ InputFails(j)
    <3>1. HangUp(j)
      BY <2>3 DEF Store, InputFails
    <3>2. QED
      BY <3>1 DEF HangUp
  <2>4. CASE Connect(j)
    BY <2>4 DEF Connect, OrderInv
  <2>5. CASE ConnectRefused(j) \/ ConnectFails(j) \/ ReadFile(j)
    BY <2>5 DEF ConnectRefused, ConnectFails, ReadFile, streamVars
  <2>6. CASE SendEnds(j) \/ ReadFails(j)
    <3>1. SenderCloses(j)
      BY <2>6 DEF SendEnds, ReadFails
    <3>2. QED
      BY <3>1 DEF SenderCloses
  <2>7. CASE Break(j)
    BY <2>7 DEF Break
  <2>8. QED
    BY <1>6, <2>1, <2>2, <2>3, <2>4, <2>5, <2>6, <2>7 DEF Input, Output, Faults
<1>7. \A x \in Jobs : conn'[x] \in {"none", "open"} => conn[x] \in {"none", "open"}
  BY <1>5, <1>6 DEF Next
<1>8. QED
  BY <1>1, <1>2, <1>3, <1>4, <1>7, BytesStay

-----------------------------------------------------------------------------
(* The vector of the receiver.                                             *)

LEMMA DataStep ==
    ASSUME TypeOK, StreamInv, DataInv, Next
    PROVE  DataInv'
<1> USE DEF TypeOK, ControlTypes, StreamTypes, DataInv
<1>1. ASSUME NEW j \in Jobs, ReceiveSome(j)
      PROVE  DataInv'
  <2>1. PICK k \in 1 .. Len(wire[j]) :
          /\ bytesRead[j] + k <= Size[j]
          /\ data' = [data EXCEPT ![j] =
                 [i \in 1 .. Size[j] |->
                     IF bytesRead[j] < i /\ i <= bytesRead[j] + k
                     THEN wire[j][i - bytesRead[j]] ELSE @[i]]]
          /\ bytesRead' = [bytesRead EXCEPT ![j] = @ + k]
    BY <1>1 DEF ReceiveSome
  <2>2. UNCHANGED <<input, stored>> /\ input[j] = "receive"
    BY <1>1 DEF ReceiveSome
  <2>3. /\ bytesRead[j] \in Nat /\ Len(wire[j]) \in Nat /\ Size[j] \in Nat
        /\ bytesRead'[j] = bytesRead[j] + k
    <3>1. bytesRead[j] \in Nat /\ wire[j] \in Seq(Places(j)) /\ Size[j] \in Nat
      BY ExchangeAssumption
    <3>2. QED
      BY <2>1, <3>1
  <2>4. \A i \in 1 .. bytesRead'[j] : data'[j][i] = i
    <3>1. ASSUME NEW i \in 1 .. bytesRead[j] + k
          PROVE  data'[j][i] = i
      <4>1. data'[j][i] = IF bytesRead[j] < i /\ i <= bytesRead[j] + k
                          THEN wire[j][i - bytesRead[j]] ELSE data[j][i]
        BY <2>1, <2>3
      <4>2. CASE bytesRead[j] < i
        <5>1. i - bytesRead[j] \in 1 .. Len(wire[j])
          BY <2>3, <4>2
        <5>2. wire[j][i - bytesRead[j]] = bytesRead[j] + (i - bytesRead[j])
          BY <5>1 DEF StreamInv
        <5>3. QED
          BY <2>3, <4>1, <4>2, <5>2
      <4>3. CASE i <= bytesRead[j]
        BY <2>3, <4>1, <4>3
      <4>4. QED
        BY <2>3, <4>2, <4>3
    <3>2. QED
      BY <2>3, <3>1
  <2>5. ~(j \in stored)
    BY <2>1, <2>3
  <2>6. \A x \in Jobs \ {j} : data'[x] = data[x] /\ bytesRead'[x] = bytesRead[x]
    BY <2>1
  <2>7. QED
    BY <2>2, <2>4, <2>5, <2>6
<1>2. ASSUME NEW j \in Jobs, SendSome(j) \/ Break(j)
      PROVE  UNCHANGED <<input, stored, bytesRead, data>>
  BY <1>2 DEF SendSome, Break
<1>3. ASSUME UNCHANGED <<input, stored, bytesRead, data>>
      PROVE  DataInv'
  BY <1>3
<1>4. ASSUME NEW j \in Jobs, Store(j)
      PROVE  DataInv'
  BY <1>4 DEF Store
<1>5. ASSUME NEW j \in Jobs, ReceiveDone(j)
      PROVE  DataInv'
  BY <1>5 DEF ReceiveDone, streamVars
<1>6. ASSUME UNCHANGED <<bytesRead, data, stored>>,
             \A j \in Jobs : input'[j] = "store" => input[j] = "store"
      PROVE  DataInv'
  BY <1>6
<1>7. ASSUME NEW h \in Hosts, Worker(h)
      PROVE  /\ UNCHANGED stored
             /\ \A j \in Jobs : input'[j] = "store" => input[j] = "store"
  BY <1>7 DEF Worker, StartQueuedInput, StartQueuedOutput, ReceiveRequest, ReceiveInit
<1>8. ASSUME NEW j \in Jobs, Input(j), ~ReceiveSome(j), ~ReceiveDone(j), ~Store(j)
      PROVE  /\ UNCHANGED stored
             /\ \A x \in Jobs : input'[x] = "store" => input[x] = "store"
  BY <1>8 DEF Input, SendInit, Listen, Accept, ReceiveFails
<1>9. ASSUME NEW j \in Jobs, Output(j)
      PROVE  UNCHANGED <<input, stored>>
  BY <1>9 DEF Output, Connect, ConnectRefused, ReadFile, SendSome, SendEnds
<1>10. ASSUME NEW j \in Jobs, Faults(j)
       PROVE  /\ UNCHANGED stored
              /\ \A x \in Jobs : input'[x] = "store" => input[x] = "store"
  BY <1>10 DEF Faults, InputFails, ConnectFails, ReadFails, Break
<1>11. QED
  <2>1. CASE \E j \in Jobs : ReceiveSome(j) \/ SendSome(j) \/ Break(j) \/ Store(j) \/ ReceiveDone(j)
    BY <1>1, <1>2, <1>3, <1>4, <1>5, <2>1
  <2>2. CASE ~\E j \in Jobs : ReceiveSome(j) \/ SendSome(j) \/ Break(j) \/ Store(j) \/ ReceiveDone(j)
    <3>1. UNCHANGED <<bytesRead, data>>
      BY <2>2, BytesStay
    <3>2. /\ UNCHANGED stored
          /\ \A x \in Jobs : input'[x] = "store" => input[x] = "store"
      BY <1>7, <1>8, <1>9, <1>10, <2>2 DEF Next
    <3>3. QED
      BY <1>6, <3>1, <3>2
  <2>3. QED
    BY <2>1, <2>2

-----------------------------------------------------------------------------
(* Theorems.                                                               *)

LEMMA InitInv == Init => IInv
<1> SUFFICES ASSUME Init PROVE IInv
  OBVIOUS
<1> USE DEF Init
<1>1. ControlTypes
  BY EmptyFacts DEF ControlTypes, InputPlaces, OutputPlaces
<1>2. StreamTypes
  BY ExchangeAssumption, EmptyFacts DEF StreamTypes, Places
<1>3. QueuesInv
  BY EmptyFacts DEF QueuesInv
<1>4. OrderInv
  BY DEF OrderInv
<1>5. StreamInv
  BY DEF StreamInv
<1>6. DataInv
  BY DEF DataInv
<1>7. QED
  BY <1>1, <1>2, <1>3, <1>4, <1>5, <1>6 DEF IInv, TypeOK

LEMMA NextInv == IInv /\ [Next]_vars => IInv'
<1> SUFFICES ASSUME IInv, [Next]_vars PROVE IInv'
  OBVIOUS
<1> USE DEF IInv
<1>1. CASE Next
  BY <1>1, ControlStep, BytesStep, QueuesStep, OrderStep, StreamStep, DataStep DEF TypeOK
<1>2. CASE UNCHANGED vars
  BY <1>2 DEF vars, queueVars, streamVars, mishaps, TypeOK, ControlTypes, StreamTypes,
              QueuesInv, OrderInv, StreamInv, DataInv
<1>3. QED
  BY <1>1, <1>2

\* The inductive invariant holds in every state of every network.
THEOREM InvariantCorrect == Spec => []IInv
BY InitInv, NextInv, PTL DEF Spec

\* Every variable keeps its type: no send and no receive runs past the end of
\* its buffer.
THEOREM TypeCorrect == Spec => []TypeOK
<1>1. IInv => TypeOK
  BY DEF IInv
<1>2. QED
  BY <1>1, InvariantCorrect, PTL

\* A file that is stored is whole and in order, for every size, every way send
\* and recv cut the stream, every number of transfers and every fault.
THEOREM StoredCorrect == Spec => []StoredIsWhole
<1>1. IInv => StoredIsWhole
  BY ExchangeAssumption DEF IInv, TypeOK, ControlTypes, StreamTypes, DataInv, StoredIsWhole, Places
<1>2. QED
  BY <1>1, InvariantCorrect, PTL

-----------------------------------------------------------------------------
(* The mapping of each host to the contract.                               *)

\* The status of the two sides of a job.
LEMMA StatusFacts ==
    ASSUME NEW h
    PROVE  /\ DOMAIN StatusOf(h) = InputsOf(h) \cup OutputsOf(h)
           /\ \A j \in Jobs : Receiver[j] = h =>
                 /\ <<"in", j>> \in InputsOf(h)
                 /\ StatusOf(h)[<<"in", j>>] = RequestStatus(input[j], InputRunning)
           /\ \A j \in Jobs : Sender[j] = h =>
                 /\ <<"out", j>> \in OutputsOf(h)
                 /\ StatusOf(h)[<<"out", j>>] = RequestStatus(output[j], OutputRunning)
BY DEF StatusOf, InputsOf, OutputsOf

\* Two status functions that agree on every job are the same.
LEMMA SameStatus ==
    ASSUME NEW h,
           \A j \in Jobs :
              /\ Receiver[j] = h =>
                    RequestStatus(input[j], InputRunning)' = RequestStatus(input[j], InputRunning)
              /\ Sender[j] = h =>
                    RequestStatus(output[j], OutputRunning)' = RequestStatus(output[j], OutputRunning)
    PROVE  StatusOf(h)' = StatusOf(h)
BY DEF StatusOf, InputsOf, OutputsOf

\* One download moves and everything else stays.
LEMMA InputMoves ==
    ASSUME NEW j \in Jobs,
           \A x \in Jobs \ {j} : input'[x] = input[x],
           \A x \in Jobs :
              RequestStatus(output[x], OutputRunning)' = RequestStatus(output[x], OutputRunning)
    PROVE  /\ StatusOf(Receiver[j])' =
                 [StatusOf(Receiver[j]) EXCEPT ![<<"in", j>>] =
                     RequestStatus(input'[j], InputRunning)]
           /\ \A h : h # Receiver[j] => StatusOf(h)' = StatusOf(h)
<1>1. \A x \in Jobs \ {j} :
         RequestStatus(input[x], InputRunning)' = RequestStatus(input[x], InputRunning)
  BY DEF RequestStatus, InputRunning
<1>2. RequestStatus(input[j], InputRunning)' = RequestStatus(input'[j], InputRunning)
  BY DEF RequestStatus, InputRunning
<1>3. StatusOf(Receiver[j])' =
         [StatusOf(Receiver[j]) EXCEPT ![<<"in", j>>] = RequestStatus(input'[j], InputRunning)]
  <2> DEFINE h == Receiver[j]
             old == StatusOf(h)
  <2>1. /\ old = [r \in InputsOf(h) \cup OutputsOf(h) |->
                     IF r[1] = "in" THEN RequestStatus(input[r[2]], InputRunning)
                     ELSE RequestStatus(output[r[2]], OutputRunning)]
        /\ StatusOf(h)' = [r \in InputsOf(h) \cup OutputsOf(h) |->
                              IF r[1] = "in" THEN RequestStatus(input[r[2]], InputRunning)'
                              ELSE RequestStatus(output[r[2]], OutputRunning)']
    BY DEF StatusOf, InputsOf, OutputsOf
  <2>2. ASSUME NEW r \in InputsOf(h) \cup OutputsOf(h)
        PROVE  StatusOf(h)'[r] = [old EXCEPT ![<<"in", j>>] = RequestStatus(input'[j], InputRunning)][r]
    <3>1. CASE r = <<"in", j>>
      BY <2>1, <3>1, <1>1, <1>2
    <3>2. CASE r # <<"in", j>> /\ r[1] = "in"
      <4>1. r[2] \in Jobs \ {j}
        BY <3>2 DEF InputsOf, OutputsOf
      <4>2. QED
        BY <2>1, <3>2, <4>1, <1>1, <1>2
    <3>3. CASE r[1] # "in"
      <4>1. r[2] \in Jobs /\ r[1] = "out"
        BY <3>3 DEF InputsOf, OutputsOf
      <4>2. QED
        BY <2>1, <3>3, <4>1, <1>1, <1>2
    <3>4. QED
      BY <3>1, <3>2, <3>3
  <2>3. QED
    BY <2>1, <2>2
<1>4. ASSUME NEW h, h # Receiver[j]
      PROVE  StatusOf(h)' = StatusOf(h)
  BY <1>1, <1>4, SameStatus
<1>5. QED
  BY <1>3, <1>4

\* One upload moves and everything else stays.
LEMMA OutputMoves ==
    ASSUME NEW j \in Jobs,
           \A x \in Jobs \ {j} : output'[x] = output[x],
           UNCHANGED input
    PROVE  /\ StatusOf(Sender[j])' =
                 [StatusOf(Sender[j]) EXCEPT ![<<"out", j>>] =
                     RequestStatus(output'[j], OutputRunning)]
           /\ \A h : h # Sender[j] => StatusOf(h)' = StatusOf(h)
<1>1. \A x \in Jobs \ {j} :
         RequestStatus(output[x], OutputRunning)' = RequestStatus(output[x], OutputRunning)
  BY DEF RequestStatus, OutputRunning
<1>2. \A x \in Jobs :
         RequestStatus(input[x], InputRunning)' = RequestStatus(input[x], InputRunning)
  BY DEF RequestStatus, InputRunning
<1>3. RequestStatus(output[j], OutputRunning)' = RequestStatus(output'[j], OutputRunning)
  BY DEF RequestStatus, OutputRunning
<1>4. StatusOf(Sender[j])' =
         [StatusOf(Sender[j]) EXCEPT ![<<"out", j>>] = RequestStatus(output'[j], OutputRunning)]
  <2> DEFINE h == Sender[j]
             old == StatusOf(h)
  <2>1. /\ old = [r \in InputsOf(h) \cup OutputsOf(h) |->
                     IF r[1] = "in" THEN RequestStatus(input[r[2]], InputRunning)
                     ELSE RequestStatus(output[r[2]], OutputRunning)]
        /\ StatusOf(h)' = [r \in InputsOf(h) \cup OutputsOf(h) |->
                              IF r[1] = "in" THEN RequestStatus(input[r[2]], InputRunning)'
                              ELSE RequestStatus(output[r[2]], OutputRunning)']
    BY DEF StatusOf, InputsOf, OutputsOf
  <2>2. ASSUME NEW r \in InputsOf(h) \cup OutputsOf(h)
        PROVE  StatusOf(h)'[r] = [old EXCEPT ![<<"out", j>>] = RequestStatus(output'[j], OutputRunning)][r]
    <3>1. CASE r = <<"out", j>>
      BY <2>1, <3>1, <1>1, <1>2, <1>3
    <3>2. CASE r # <<"out", j>> /\ r[1] = "out"
      <4>1. r[2] \in Jobs \ {j}
        BY <3>2 DEF InputsOf, OutputsOf
      <4>2. QED
        BY <2>1, <3>2, <4>1, <1>1, <1>2, <1>3
    <3>3. CASE r[1] # "out"
      <4>1. r[2] \in Jobs /\ r[1] = "in"
        BY <3>3 DEF InputsOf, OutputsOf
      <4>2. QED
        BY <2>1, <3>3, <4>1, <1>1, <1>2, <1>3
    <3>4. QED
      BY <3>1, <3>2, <3>3
  <2>3. QED
    BY <2>1, <2>2
<1>5. ASSUME NEW h, h # Sender[j]
      PROVE  StatusOf(h)' = StatusOf(h)
  BY <1>1, <1>2, <1>5, SameStatus
<1>6. QED
  BY <1>4, <1>5

\* The contract's Cardinality is that of FiniteSets.
LEMMA SameCardinality ==
    ASSUME NEW h, NEW A PROVE Pool(h)!Cardinality(A) = Cardinality(A)
BY Zenon DEF Pool!Cardinality, Cardinality

\* The contract counts what is in _activeTransfers.
LEMMA RunningIsActive ==
    ASSUME NEW h
    PROVE  Pool(h)!Running = Active(h)
BY DEF Pool!Running, Pool!Requests, Active, StatusOf, InputsOf, OutputsOf, RequestStatus,
       InputRunning, OutputRunning

LEMMA ActiveCount ==
    ASSUME NEW h
    PROVE  IsFiniteSet(Active(h)) /\ Cardinality(Active(h)) \in Nat
<1>1. IsFiniteSet({"in", "out"}) /\ IsFiniteSet(Jobs)
  <2>1. IsFiniteSet({}) /\ IsFiniteSet({} \cup {"in"})
    BY FS_EmptySet, FS_AddElement
  <2>2. IsFiniteSet(({} \cup {"in"}) \cup {"out"})
    BY <2>1, FS_AddElement
  <2>3. ({} \cup {"in"}) \cup {"out"} = {"in", "out"}
    OBVIOUS
  <2>4. QED
    BY <2>2, <2>3, ExchangeAssumption
<1>2. IsFiniteSet({"in", "out"} \X Jobs)
  BY <1>1, FS_Product
<1>3. Active(h) \subseteq {"in", "out"} \X Jobs
  BY DEF Active
<1>4. QED
  BY <1>2, <1>3, FS_Subset, FS_CardinalityType

\* Tagged keeps the queue as it is.
LEMMA TaggedFacts ==
    ASSUME NEW tag, NEW q \in Seq(Jobs)
    PROVE  /\ q = <<>> <=> Tagged(tag, q) = <<>>
           /\ q # <<>> => /\ Head(Tagged(tag, q)) = <<tag, Head(q)>>
                          /\ Tail(Tagged(tag, q)) = Tagged(tag, Tail(q))
           /\ \A j \in Jobs : Append(Tagged(tag, q), <<tag, j>>) = Tagged(tag, Append(q, j))
<1>1. \A s \in Seq(Jobs) : /\ Tagged(tag, s) \in Seq({tag} \X Jobs)
                           /\ Len(Tagged(tag, s)) = Len(s)
                           /\ \A i \in 1 .. Len(s) : Tagged(tag, s)[i] = <<tag, s[i]>>
  <2>1. ASSUME NEW s \in Seq(Jobs)
        PROVE  /\ Tagged(tag, s) \in [1 .. Len(s) -> {tag} \X Jobs]
               /\ \A i \in 1 .. Len(s) : Tagged(tag, s)[i] = <<tag, s[i]>>
               /\ Len(s) \in Nat
    BY DEF Tagged
  <2>2. ASSUME NEW s \in Seq(Jobs)
        PROVE  Tagged(tag, s) \in Seq({tag} \X Jobs) /\ Len(Tagged(tag, s)) = Len(s)
    <3>1. Tagged(tag, s) \in Seq({tag} \X Jobs)
      BY <2>1, SeqDef
    <3>2. QED
      BY <2>1, <3>1, LenProperties
  <2>3. QED
    BY <2>1, <2>2
<1>2. q = <<>> <=> Tagged(tag, q) = <<>>
  BY <1>1
<1>3. ASSUME q # <<>>
      PROVE  Head(Tagged(tag, q)) = <<tag, Head(q)>> /\ Tail(Tagged(tag, q)) = Tagged(tag, Tail(q))
  <2>1. /\ Tail(q) \in Seq(Jobs) /\ Len(Tail(q)) = Len(q) - 1
        /\ \A i \in 1 .. Len(Tail(q)) : Tail(q)[i] = q[i + 1]
        /\ Len(q) \in Nat \ {0} /\ Head(q) = q[1]
    BY <1>3
  <2>2. /\ Tail(Tagged(tag, q)) \in Seq({tag} \X Jobs)
        /\ Len(Tail(Tagged(tag, q))) = Len(q) - 1
        /\ \A i \in 1 .. Len(q) - 1 : Tail(Tagged(tag, q))[i] = Tagged(tag, q)[i + 1]
        /\ Head(Tagged(tag, q)) = Tagged(tag, q)[1]
    <3>1. /\ Tagged(tag, q) \in Seq({tag} \X Jobs) /\ Tagged(tag, q) # <<>>
          /\ Len(Tagged(tag, q)) = Len(q)
      BY <1>1, <1>2, <1>3
    <3> DEFINE t == Tagged(tag, q)
    <3> HIDE DEF t
    <3>2. /\ t \in Seq({tag} \X Jobs) /\ t # <<>> /\ Len(t) = Len(q)
      BY <3>1 DEF t
    <3>3. /\ Tail(t) \in Seq({tag} \X Jobs) /\ Len(Tail(t)) = Len(q) - 1
          /\ \A i \in 1 .. Len(Tail(t)) : Tail(t)[i] = t[i + 1]
          /\ Head(t) = t[1]
      BY <3>2, HeadTailProperties
    <3>4. QED
      BY <3>3 DEF t
  <2>3. \A i \in 1 .. Len(q) - 1 : Tail(Tagged(tag, q))[i] = Tagged(tag, Tail(q))[i]
    <3>1. ASSUME NEW i \in 1 .. Len(q) - 1
          PROVE  Tail(Tagged(tag, q))[i] = Tagged(tag, Tail(q))[i]
      <4>1. i + 1 \in 1 .. Len(q) /\ i \in 1 .. Len(Tail(q))
        BY <2>1
      <4>2. Tail(Tagged(tag, q))[i] = <<tag, q[i + 1]>>
        BY <1>1, <2>2, <4>1
      <4>3. Tagged(tag, Tail(q))[i] = <<tag, Tail(q)[i]>>
        BY <1>1, <2>1, <4>1
      <4>4. QED
        BY <2>1, <4>1, <4>2, <4>3
    <3>2. QED
      BY <3>1
  <2>4. Tail(Tagged(tag, q)) = Tagged(tag, Tail(q))
    <3> DEFINE left == Tail(Tagged(tag, q))
               right == Tagged(tag, Tail(q))
    <3>1. /\ right \in Seq({tag} \X Jobs) /\ Len(right) = Len(q) - 1
          /\ left \in Seq({tag} \X Jobs) /\ Len(left) = Len(q) - 1
      BY <1>1, <2>1, <2>2
    <3>2. \A i \in 1 .. Len(q) - 1 : left[i] = right[i]
      BY <2>3
    <3> HIDE DEF left, right
    <3>3. left = right
      BY <3>1, <3>2, SeqEqual
    <3>4. QED
      BY <3>3 DEF left, right
  <2>5. Tagged(tag, q)[1] = <<tag, q[1]>>
    BY <1>1, <2>1
  <2>6. QED
    BY <2>1, <2>2, <2>4, <2>5
<1>4. ASSUME NEW j \in Jobs
      PROVE  Append(Tagged(tag, q), <<tag, j>>) = Tagged(tag, Append(q, j))
  <2> DEFINE left == Append(Tagged(tag, q), <<tag, j>>)
             right == Tagged(tag, Append(q, j))
  <2>1. /\ Append(q, j) \in Seq(Jobs) /\ Len(Append(q, j)) = Len(q) + 1
        /\ \A i \in 1 .. Len(q) : Append(q, j)[i] = q[i]
        /\ Append(q, j)[Len(q) + 1] = j /\ Len(q) \in Nat
    BY AppendProperties
  <2>2. /\ left \in Seq({tag} \X Jobs) /\ Len(left) = Len(q) + 1
        /\ \A i \in 1 .. Len(q) : left[i] = Tagged(tag, q)[i]
        /\ left[Len(q) + 1] = <<tag, j>>
    BY <1>1, AppendProperties
  <2>3. /\ right \in Seq({tag} \X Jobs) /\ Len(right) = Len(q) + 1
        /\ \A i \in 1 .. Len(q) + 1 : right[i] = <<tag, Append(q, j)[i]>>
    BY <1>1, <2>1
  <2> HIDE DEF left, right
  <2>4. \A i \in 1 .. Len(q) + 1 : left[i] = right[i]
    BY <1>1, <2>1, <2>2, <2>3
  <2>5. left = right
    BY <2>1, <2>2, <2>3, <2>4, SeqEqual
  <2>6. QED
    BY <2>5 DEF left, right
<1>5. QED
  BY <1>2, <1>3, <1>4

-----------------------------------------------------------------------------
(* Every step is a step of the contract, or none, at every host.           *)

Keeps(h) == [Pool(h)!Next]_(Pool(h)!contractVars)

Same(h) == UNCHANGED <<StatusOf(h), inputData[h], outputData[h]>>

LEMMA SameKeeps ==
    ASSUME NEW h, Same(h)
    PROVE  Keeps(h)
BY DEF Same, Keeps, Pool!contractVars, Tagged

\* The steps inside Perform.
LEMMA QuietSteps ==
    ASSUME IInv, NEW j \in Jobs, NEW h,
           \/ SendInit(j) \/ Listen(j) \/ Accept(j) \/ ReceiveSome(j) \/ ReceiveDone(j)
           \/ Connect(j) \/ ReadFile(j) \/ SendSome(j) \/ Break(j)
    PROVE  Keeps(h)
<1> USE DEF IInv, TypeOK, ControlTypes
<1>1. UNCHANGED <<inputData, outputData>>
  BY DEF SendInit, Listen, Accept, ReceiveSome, ReceiveDone, Connect, ReadFile, SendSome, Break,
         queueVars
<1>2. \A x \in Jobs :
         /\ RequestStatus(input[x], InputRunning)' = RequestStatus(input[x], InputRunning)
         /\ RequestStatus(output[x], OutputRunning)' = RequestStatus(output[x], OutputRunning)
  <2> USE DEF RequestStatus, InputRunning, OutputRunning
  <2>1. CASE SendInit(j)
    BY <2>1 DEF SendInit, OrderInv
  <2>2. CASE Listen(j) \/ Accept(j) \/ ReceiveDone(j)
    BY <2>2 DEF Listen, Accept, ReceiveDone
  <2>3. CASE ReceiveSome(j) \/ SendSome(j) \/ Break(j)
    BY <2>3 DEF ReceiveSome, SendSome, Break
  <2>4. CASE Connect(j)
    BY <2>4 DEF Connect
  <2>5. CASE ReadFile(j)
    BY <2>5 DEF ReadFile
  <2>6. QED
    BY <2>1, <2>2, <2>3, <2>4, <2>5
<1>3. StatusOf(h)' = StatusOf(h)
  BY <1>2, SameStatus
<1>4. QED
  BY <1>1, <1>3, SameKeeps DEF Same

\* A download ends and frees its slot.
LEMMA InputEnds ==
    ASSUME IInv, NEW j \in Jobs, NEW h, ReceiveFails(j) \/ Store(j) \/ InputFails(j)
    PROVE  Keeps(h)
<1> USE DEF IInv, TypeOK, ControlTypes
<1>1. /\ input[j] \in InputRunning
      /\ input' = [input EXCEPT ![j] = "ended"]
      /\ UNCHANGED <<output, inputData, outputData>>
  BY DEF ReceiveFails, Store, InputFails, queueVars, InputRunning
<1>2. /\ StatusOf(Receiver[j])' = [StatusOf(Receiver[j]) EXCEPT ![<<"in", j>>] = "done"]
      /\ \A x : x # Receiver[j] => StatusOf(x)' = StatusOf(x)
  <2>1. input'[j] = "ended" /\ RequestStatus("ended", InputRunning) = "done"
    BY <1>1 DEF RequestStatus, InputRunning
  <2>2. /\ \A x \in Jobs \ {j} : input'[x] = input[x]
        /\ \A x \in Jobs :
              RequestStatus(output[x], OutputRunning)' = RequestStatus(output[x], OutputRunning)
    BY <1>1 DEF RequestStatus, OutputRunning
  <2>3. QED
    BY <2>1, <2>2, InputMoves
<1>3. CASE h = Receiver[j]
  <2>1. /\ <<"in", j>> \in InputsOf(h)
        /\ StatusOf(h)[<<"in", j>>] = "running"
    BY <1>1, <1>3, StatusFacts DEF RequestStatus, InputRunning
  <2>2. Pool(h)!Finish(<<"in", j>>)
    BY <1>1, <1>2, <1>3, <2>1 DEF Pool!Finish, Pool!Move, Tagged
  <2>3. QED
    BY <2>1, <2>2 DEF Keeps, Pool!Next, Pool!Requests
<1>4. CASE h # Receiver[j]
  BY <1>1, <1>2, <1>4, SameKeeps DEF Same
<1>5. QED
  BY <1>3, <1>4

\* An upload ends and frees its slot.
LEMMA OutputEnds ==
    ASSUME IInv, NEW j \in Jobs, NEW h,
           ConnectRefused(j) \/ ConnectFails(j) \/ SendEnds(j) \/ ReadFails(j)
    PROVE  Keeps(h)
<1> USE DEF IInv, TypeOK, ControlTypes
<1>1. /\ output[j] \in OutputRunning
      /\ output' = [output EXCEPT ![j] = "ended"]
      /\ UNCHANGED <<input, inputData, outputData>>
  BY DEF ConnectRefused, ConnectFails, SendEnds, ReadFails, SenderCloses, queueVars, OutputRunning
<1>2. /\ StatusOf(Sender[j])' = [StatusOf(Sender[j]) EXCEPT ![<<"out", j>>] = "done"]
      /\ \A x : x # Sender[j] => StatusOf(x)' = StatusOf(x)
  <2>1. output'[j] = "ended" /\ RequestStatus("ended", OutputRunning) = "done"
    BY <1>1 DEF RequestStatus, OutputRunning
  <2>2. /\ \A x \in Jobs \ {j} : output'[x] = output[x]
        /\ UNCHANGED input
    BY <1>1
  <2>3. QED
    BY <2>1, <2>2, OutputMoves
<1>3. CASE h = Sender[j]
  <2>1. /\ <<"out", j>> \in OutputsOf(h)
        /\ StatusOf(h)[<<"out", j>>] = "running"
    BY <1>1, <1>3, StatusFacts DEF RequestStatus, OutputRunning
  <2>2. Pool(h)!Finish(<<"out", j>>)
    BY <1>1, <1>2, <1>3, <2>1 DEF Pool!Finish, Pool!Move, Tagged
  <2>3. QED
    BY <2>1, <2>2 DEF Keeps, Pool!Next, Pool!Requests
<1>4. CASE h # Sender[j]
  BY <1>1, <1>2, <1>4, SameKeeps DEF Same
<1>5. QED
  BY <1>3, <1>4

\* A message starts a download at once or puts it off.
LEMMA RequestStep ==
    ASSUME IInv, NEW j \in Jobs, NEW h, ReceiveRequest(j)
    PROVE  Keeps(h)
<1> DEFINE g == Receiver[j]
           r == <<"in", j>>
<1> USE DEF IInv, TypeOK, ControlTypes
<1>1. /\ input[j] = "asked" /\ Drained(g) /\ UNCHANGED <<output, outputData>>
      /\ g \in Hosts /\ inputData[g] \in Seq(Jobs) /\ outputData[g] \in Seq(Jobs)
  BY ExchangeAssumption DEF ReceiveRequest
<1>2. /\ r \in InputsOf(g) /\ StatusOf(g)[r] = "new"
  BY <1>1, StatusFacts DEF RequestStatus
<1>3. \A x \in Jobs \ {j} : input'[x] = input[x]
  BY DEF ReceiveRequest
<1>4. \A x \in Jobs :
         RequestStatus(output[x], OutputRunning)' = RequestStatus(output[x], OutputRunning)
  BY <1>1 DEF RequestStatus, OutputRunning
<1>5. /\ StatusOf(g)' = [StatusOf(g) EXCEPT ![r] = RequestStatus(input'[j], InputRunning)]
      /\ \A x : x # g => StatusOf(x)' = StatusOf(x)
  BY <1>3, <1>4, InputMoves
<1>6. CASE h # g
  <2>1. inputData'[h] = inputData[h]
    BY <1>6 DEF ReceiveRequest
  <2>2. QED
    BY <1>1, <1>5, <1>6, <2>1, SameKeeps DEF Same
<1>7. CASE h = g /\ HasFreeSlot(g)
  <2>1. input'[j] = "init" /\ inputData' = inputData
    BY <1>7 DEF ReceiveRequest
  <2>2. inputData[g] = <<>> /\ outputData[g] = <<>>
    BY <1>1, <1>7 DEF Drained
  <2>3. RequestStatus(input'[j], InputRunning) = "running"
    BY <2>1 DEF RequestStatus, InputRunning
  <2>4. Pool(g)!Cardinality(Pool(g)!Running) < MaxActive
    BY <1>7, RunningIsActive, SameCardinality DEF HasFreeSlot
  <2>5. Tagged("in", inputData[g]) = <<>> /\ Tagged("out", outputData[g]) = <<>>
    BY <1>1, <2>2, TaggedFacts
  <2>6. Pool(g)!StartNow(r)
    BY <1>1, <1>2, <1>5, <2>1, <2>3, <2>4, <2>5 DEF Pool!StartNow, Pool!Move, Tagged
  <2>7. QED
    BY <1>2, <1>7, <2>6 DEF Keeps, Pool!Next, Pool!Requests
<1>8. CASE h = g /\ ~HasFreeSlot(g)
  <2>1. input'[j] = "queued" /\ inputData'[g] = Append(inputData[g], j)
    BY <1>1, <1>8 DEF ReceiveRequest
  <2>2. RequestStatus(input'[j], InputRunning) = "queued"
    BY <2>1 DEF RequestStatus, InputRunning
  <2>3. Pool(g)!Cardinality(Pool(g)!Running) >= MaxActive
    BY <1>8, RunningIsActive, SameCardinality, ActiveCount, ExchangeAssumption DEF HasFreeSlot
  <2>4. Tagged("in", inputData'[g]) = Append(Tagged("in", inputData[g]), r)
    BY <1>1, <2>1, TaggedFacts
  <2>5. Tagged("in", inputData[g])' = Append(Tagged("in", inputData[g]), r)
    BY <2>4 DEF Tagged
  <2>6. Pool(g)!PutOff(r)
    BY <1>1, <1>2, <1>5, <2>2, <2>3, <2>5 DEF Pool!PutOff, Pool!Move, Tagged
  <2>7. QED
    BY <1>2, <1>8, <2>6 DEF Keeps, Pool!Next, Pool!Requests
<1>9. QED
  BY <1>6, <1>7, <1>8

\* A message starts an upload at once or puts it off.
LEMMA InitStep ==
    ASSUME IInv, NEW j \in Jobs, NEW h, ReceiveInit(j)
    PROVE  Keeps(h)
<1> DEFINE g == Sender[j]
           r == <<"out", j>>
<1> USE DEF IInv, TypeOK, ControlTypes
<1>1. /\ output[j] = "told" /\ Drained(g) /\ UNCHANGED <<input, inputData>>
      /\ g \in Hosts /\ inputData[g] \in Seq(Jobs) /\ outputData[g] \in Seq(Jobs)
  BY ExchangeAssumption DEF ReceiveInit
<1>2. /\ r \in OutputsOf(g) /\ StatusOf(g)[r] = "new"
  BY <1>1, StatusFacts DEF RequestStatus
<1>3. \A x \in Jobs \ {j} : output'[x] = output[x]
  BY DEF ReceiveInit
<1>4. UNCHANGED input
  BY <1>1
<1>5. /\ StatusOf(g)' = [StatusOf(g) EXCEPT ![r] = RequestStatus(output'[j], OutputRunning)]
      /\ \A x : x # g => StatusOf(x)' = StatusOf(x)
  BY <1>3, <1>4, OutputMoves
<1>6. CASE h # g
  <2>1. outputData'[h] = outputData[h]
    BY <1>6 DEF ReceiveInit
  <2>2. QED
    BY <1>1, <1>5, <1>6, <2>1, SameKeeps DEF Same
<1>7. CASE h = g /\ HasFreeSlot(g)
  <2>1. output'[j] = "connect" /\ outputData' = outputData
    BY <1>7 DEF ReceiveInit
  <2>2. inputData[g] = <<>> /\ outputData[g] = <<>>
    BY <1>1, <1>7 DEF Drained
  <2>3. RequestStatus(output'[j], OutputRunning) = "running"
    BY <2>1 DEF RequestStatus, OutputRunning
  <2>4. Pool(g)!Cardinality(Pool(g)!Running) < MaxActive
    BY <1>7, RunningIsActive, SameCardinality DEF HasFreeSlot
  <2>5. Tagged("in", inputData[g]) = <<>> /\ Tagged("out", outputData[g]) = <<>>
    BY <1>1, <2>2, TaggedFacts
  <2>6. Pool(g)!StartNow(r)
    BY <1>1, <1>2, <1>5, <2>1, <2>3, <2>4, <2>5 DEF Pool!StartNow, Pool!Move, Tagged
  <2>7. QED
    BY <1>2, <1>7, <2>6 DEF Keeps, Pool!Next, Pool!Requests
<1>8. CASE h = g /\ ~HasFreeSlot(g)
  <2>1. output'[j] = "queued" /\ outputData'[g] = Append(outputData[g], j)
    BY <1>1, <1>8 DEF ReceiveInit
  <2>2. RequestStatus(output'[j], OutputRunning) = "queued"
    BY <2>1 DEF RequestStatus, OutputRunning
  <2>3. Pool(g)!Cardinality(Pool(g)!Running) >= MaxActive
    BY <1>8, RunningIsActive, SameCardinality, ActiveCount, ExchangeAssumption DEF HasFreeSlot
  <2>4. Tagged("out", outputData'[g]) = Append(Tagged("out", outputData[g]), r)
    BY <1>1, <2>1, TaggedFacts
  <2>5. Tagged("out", outputData[g])' = Append(Tagged("out", outputData[g]), r)
    BY <2>4 DEF Tagged
  <2>6. Pool(g)!PutOff(r)
    BY <1>1, <1>2, <1>5, <2>2, <2>3, <2>5 DEF Pool!PutOff, Pool!Move, Tagged
  <2>7. QED
    BY <1>2, <1>8, <2>6 DEF Keeps, Pool!Next, Pool!Requests
<1>9. QED
  BY <1>6, <1>7, <1>8

\* The worker starts the download that waits longest.
LEMMA QueuedInputStep ==
    ASSUME IInv, NEW g \in Hosts, NEW h, StartQueuedInput(g)
    PROVE  Keeps(h)
<1> DEFINE j == Head(inputData[g])
           r == <<"in", j>>
<1> USE DEF IInv, TypeOK, ControlTypes
<1>1. /\ inputData[g] \in Seq(Jobs) /\ inputData[g] # <<>> /\ UNCHANGED <<output, outputData>>
      /\ inputData' = [inputData EXCEPT ![g] = Tail(@)]
      /\ HasFreeSlot(g)
  BY DEF StartQueuedInput
<1>2. j \in Jobs /\ Receiver[j] = g /\ input[j] = "queued"
  BY <1>1, TailFacts DEF QueuesInv
<1>3. input' = [input EXCEPT ![j] = "init"]
  BY DEF StartQueuedInput
<1> HIDE DEF j
<1>4. r \in InputsOf(g) /\ StatusOf(g)[r] = "queued"
  BY <1>2, StatusFacts DEF RequestStatus, InputRunning
<1>5. /\ \A x \in Jobs \ {j} : input'[x] = input[x]
      /\ RequestStatus(input'[j], InputRunning) = "running"
  BY <1>2, <1>3 DEF RequestStatus, InputRunning
<1>6. \A x \in Jobs :
         RequestStatus(output[x], OutputRunning)' = RequestStatus(output[x], OutputRunning)
  BY <1>1 DEF RequestStatus, OutputRunning
<1>7. /\ StatusOf(g)' = [StatusOf(g) EXCEPT ![r] = "running"]
      /\ \A x : x # g => StatusOf(x)' = StatusOf(x)
  BY <1>2, <1>5, <1>6, InputMoves
<1>8. CASE h # g
  <2>1. inputData'[h] = inputData[h]
    BY <1>1, <1>8
  <2>2. QED
    BY <1>1, <1>7, <1>8, <2>1, SameKeeps DEF Same
<1>9. CASE h = g
  <2>1. Pool(g)!Cardinality(Pool(g)!Running) < MaxActive
    BY <1>1, RunningIsActive, SameCardinality DEF HasFreeSlot
  <2>2. inputData'[g] = Tail(inputData[g])
    BY <1>1
  <2>3. Tagged("in", inputData'[g]) = Tail(Tagged("in", inputData[g]))
    BY <1>1, <2>2, TaggedFacts
  <2>4. Tagged("in", inputData[g])' = Tail(Tagged("in", inputData[g]))
    BY <2>3 DEF Tagged
  <2>5. Tagged("in", inputData[g]) # <<>> /\ r = Head(Tagged("in", inputData[g]))
    BY <1>1, TaggedFacts DEF j
  <2>6. Tagged("out", outputData[g])' = Tagged("out", outputData[g])
    BY <1>1 DEF Tagged
  <2>7. Pool(g)!StartQueued(r)
    BY <1>4, <1>7, <2>1, <2>4, <2>5, <2>6 DEF Pool!StartQueued, Pool!Move
  <2>8. QED
    BY <1>4, <1>9, <2>7 DEF Keeps, Pool!Next, Pool!Requests
<1>10. QED
  BY <1>8, <1>9

\* An upload only when no download waits.
LEMMA QueuedOutputStep ==
    ASSUME IInv, NEW g \in Hosts, NEW h, StartQueuedOutput(g)
    PROVE  Keeps(h)
<1> DEFINE j == Head(outputData[g])
           r == <<"out", j>>
<1> USE DEF IInv, TypeOK, ControlTypes
<1>1. /\ outputData[g] \in Seq(Jobs) /\ outputData[g] # <<>> /\ UNCHANGED <<input, inputData>>
      /\ outputData' = [outputData EXCEPT ![g] = Tail(@)]
      /\ HasFreeSlot(g) /\ inputData[g] = <<>> /\ inputData[g] \in Seq(Jobs)
  BY DEF StartQueuedOutput
<1>2. j \in Jobs /\ Sender[j] = g /\ output[j] = "queued"
  BY <1>1, TailFacts DEF QueuesInv
<1>3. output' = [output EXCEPT ![j] = "connect"]
  BY DEF StartQueuedOutput
<1> HIDE DEF j
<1>4. r \in OutputsOf(g) /\ StatusOf(g)[r] = "queued"
  BY <1>2, StatusFacts DEF RequestStatus, OutputRunning
<1>5. /\ \A x \in Jobs \ {j} : output'[x] = output[x]
      /\ RequestStatus(output'[j], OutputRunning) = "running"
  BY <1>2, <1>3 DEF RequestStatus, OutputRunning
<1>6. UNCHANGED input
  BY <1>1
<1>7. /\ StatusOf(g)' = [StatusOf(g) EXCEPT ![r] = "running"]
      /\ \A x : x # g => StatusOf(x)' = StatusOf(x)
  BY <1>2, <1>5, <1>6, OutputMoves
<1>8. CASE h # g
  <2>1. outputData'[h] = outputData[h]
    BY <1>1, <1>8
  <2>2. QED
    BY <1>1, <1>7, <1>8, <2>1, SameKeeps DEF Same
<1>9. CASE h = g
  <2>1. Pool(g)!Cardinality(Pool(g)!Running) < MaxActive
    BY <1>1, RunningIsActive, SameCardinality DEF HasFreeSlot
  <2>2. outputData'[g] = Tail(outputData[g])
    BY <1>1
  <2>3. Tagged("out", outputData'[g]) = Tail(Tagged("out", outputData[g]))
    BY <1>1, <2>2, TaggedFacts
  <2>4. Tagged("out", outputData[g])' = Tail(Tagged("out", outputData[g]))
    BY <2>3 DEF Tagged
  <2>5. Tagged("out", outputData[g]) # <<>> /\ r = Head(Tagged("out", outputData[g]))
    BY <1>1, TaggedFacts DEF j
  <2>6. /\ Tagged("in", inputData[g])' = Tagged("in", inputData[g])
        /\ Tagged("in", inputData[g]) = <<>>
    <3>1. Tagged("in", inputData[g]) = <<>>
      BY <1>1, TaggedFacts
    <3>2. QED
      BY <1>1, <3>1 DEF Tagged
  <2>7. Pool(g)!StartQueued(r)
    BY <1>4, <1>7, <2>1, <2>4, <2>5, <2>6 DEF Pool!StartQueued, Pool!Move
  <2>8. QED
    BY <1>4, <1>9, <2>7 DEF Keeps, Pool!Next, Pool!Requests
<1>10. QED
  BY <1>8, <1>9

-----------------------------------------------------------------------------
(* Theorem.                                                                *)

\* Whatever the network and the other hosts do, every host starts its transfers
\* as TransferContract says: both directions share its slots, downloads go
\* before uploads, each queue is first come first served.
THEOREM PoolsCorrect == Spec => PoolsKeepContract
<1>1. ASSUME Init, NEW h \in Hosts
      PROVE  Pool(h)!Init
  BY <1>1 DEF Pool!Init, Pool!Requests, Init, StatusOf, RequestStatus, InputRunning,
              OutputRunning, Tagged, InputsOf, OutputsOf
<1>2. ASSUME IInv, Next, NEW h \in Hosts
      PROVE  Keeps(h)
  <2>1. CASE \E j \in Jobs : Input(j) \/ Output(j) \/ Faults(j)
    BY <1>2, <2>1, QuietSteps, InputEnds, OutputEnds DEF Input, Output, Faults
  <2>2. CASE \E g \in Hosts : Worker(g)
    BY <1>2, <2>2, RequestStep, InitStep, QueuedInputStep, QueuedOutputStep DEF Worker
  <2>3. QED
    BY <1>2, <2>1, <2>2 DEF Next
<1>3. IInv /\ [Next]_vars => [\A h \in Hosts : Keeps(h)]_vars
  BY <1>2
<1>4. Init => \A h \in Hosts : Pool(h)!Init
  BY <1>1
<1>5. IInv /\ [Next]_vars =>
          [\A h \in Hosts : [Pool(h)!Next]_(Pool(h)!contractVars)]_vars
  BY <1>3 DEF Keeps
<1>6. QED
  BY <1>4, <1>5, InvariantCorrect, PTL DEF Spec, PoolsKeepContract

=============================================================================
