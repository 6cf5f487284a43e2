------------------------------ MODULE Exchange ------------------------------
(***************************************************************************)
(* The transfer of files between hosts, from the TRANSFER_REQUEST on: the  *)
(* two Perform methods step by step, the loops of SendData and ReceiveData *)
(* over the TCP stream between them, and the slots for transfers, of which *)
(* every host has MaxActive for both directions.                           *)
(*                                                                         *)
(* A job is one file that Receiver[j] has been asked to fetch from         *)
(* Sender[j]; the hosts know each other.  The slots keep what              *)
(* TransferContract says of them, which TransferPool implements.  A byte   *)
(* of the file is named by its place in it.                                *)
(***************************************************************************)
EXTENDS Naturals, Sequences, FiniteSets

CONSTANTS
    Jobs, Hosts,
    Sender, Receiver,  \* of a job
    Size,              \* Size[j]: File::Size, and FileSize in the request
    MaxActive,         \* MAX_ACTIVE_TRANSFERS_COUNT
    Window,            \* bound: bytes TCP takes before the receiver reads any
    MaxLosses,         \* bound: TRANSFER_INIT datagrams lost
    MaxMissed,         \* bound: connections not made though the receiver waits
    MaxFaults          \* bound: failing sockets, broken connections, files gone

ASSUME ExchangeAssumption ==
    /\ IsFiniteSet(Jobs)
    /\ Sender \in [Jobs -> Hosts] /\ Receiver \in [Jobs -> Hosts]
    /\ Size \in [Jobs -> Nat \ {0}]
    /\ MaxActive \in Nat \ {0} /\ Window \in Nat \ {0}
    /\ {MaxLosses, MaxMissed, MaxFaults} \subseteq Nat

VARIABLES
    input,      \* input[j]: place of the InputFileTransfer, see InputPlaces
    output,     \* output[j]: place of the OutputFileTransfer, see OutputPlaces
    inputData,  \* inputData[h]: _inputData of h
    outputData, \* outputData[h]: _outputData of h
    conn,       \* conn[j]: the TCP connection, seen from the receiver
    wire,       \* wire[j]: the bytes TCP has taken and not delivered
    bytesSend,  \* bytesSend[j]: of SendData
    bytesRead,  \* bytesRead[j]: of ReceiveData
    data,       \* data[j]: the receiver's vector; 0 is a byte never written
    stored,     \* jobs whose data was given to AddLocalFile
    losses, missed, faults

queueVars == <<inputData, outputData>>
streamVars == <<conn, wire, bytesSend, bytesRead, data>>
mishaps == <<losses, missed, faults>>
vars == <<input, output, queueVars, streamVars, stored, mishaps>>

\* "asked": the TRANSFER_REQUEST is in the socket buffer.  The running places
\* are those of Perform, in their order.
InputRunning == {"init", "listen", "accept", "receive", "store"}
InputPlaces == {"asked", "queued", "ended"} \cup InputRunning

\* "none": no TRANSFER_INIT has come yet; "told": it is in the socket buffer.
OutputRunning == {"connect", "read", "send"}
OutputPlaces == {"none", "told", "queued", "ended"} \cup OutputRunning

Init ==
    /\ input = [j \in Jobs |-> "asked"]
    /\ output = [j \in Jobs |-> "none"]
    /\ inputData = [h \in Hosts |-> <<>>]
    /\ outputData = [h \in Hosts |-> <<>>]
    /\ conn = [j \in Jobs |-> "none"]
    /\ wire = [j \in Jobs |-> <<>>]
    /\ bytesSend = [j \in Jobs |-> 0]
    /\ bytesRead = [j \in Jobs |-> 0]
    /\ data = [j \in Jobs |-> [i \in 1 .. Size[j] |-> 0]]
    /\ stored = {}
    /\ losses = 0 /\ missed = 0 /\ faults = 0

-----------------------------------------------------------------------------
(* The slots of a host.                                                    *)

\* _activeTransfers of h: the running transfers of both directions.
Active(h) ==
    {<<"in", j>> : j \in {k \in Jobs : Receiver[k] = h /\ input[k] \in InputRunning}}
    \cup {<<"out", j>> : j \in {k \in Jobs : Sender[k] = h /\ output[k] \in OutputRunning}}

HasFreeSlot(h) == Cardinality(Active(h)) < MaxActive

\* The worker drains the queues before it takes a message.
Drained(h) == HasFreeSlot(h) => inputData[h] = <<>> /\ outputData[h] = <<>>

\* MSG_TYPE_TRANSFER_REQUEST: GetFile(data) starts or queues the transfer.
ReceiveRequest(j) ==
    LET h == Receiver[j] IN
    /\ input[j] = "asked"
    /\ Drained(h)
    /\ input' = [input EXCEPT ![j] = IF HasFreeSlot(h) THEN "init" ELSE "queued"]
    /\ inputData' = [inputData EXCEPT ![h] = IF HasFreeSlot(h) THEN @ ELSE Append(@, j)]
    /\ UNCHANGED <<output, outputData, streamVars, stored, mishaps>>

\* Faulty variant: a second limit for uploads, beside that of the downloads.
ReceiveInitAlways(j) ==
    /\ output[j] = "told"
    /\ Drained(Sender[j])
    /\ output' = [output EXCEPT ![j] = "connect"]
    /\ UNCHANGED <<input, queueVars, streamVars, stored, mishaps>>

\* MSG_TYPE_TRANSFER_INIT: SendFile starts or queues the transfer.
ReceiveInit(j) ==
    LET h == Sender[j] IN
    /\ output[j] = "told"
    /\ Drained(h)
    /\ output' = [output EXCEPT ![j] = IF HasFreeSlot(h) THEN "connect" ELSE "queued"]
    /\ outputData' = [outputData EXCEPT ![h] = IF HasFreeSlot(h) THEN @ ELSE Append(@, j)]
    /\ UNCHANGED <<input, inputData, streamVars, stored, mishaps>>

\* HandleNewTransfers: downloads first.
StartQueuedInput(h) ==
    /\ HasFreeSlot(h)
    /\ inputData[h] # <<>>
    /\ input' = [input EXCEPT ![Head(inputData[h])] = "init"]
    /\ inputData' = [inputData EXCEPT ![h] = Tail(@)]
    /\ UNCHANGED <<output, outputData, streamVars, stored, mishaps>>

StartQueuedOutput(h) ==
    /\ HasFreeSlot(h)
    /\ inputData[h] = <<>> /\ outputData[h] # <<>>
    /\ output' = [output EXCEPT ![Head(outputData[h])] = "connect"]
    /\ outputData' = [outputData EXCEPT ![h] = Tail(@)]
    /\ UNCHANGED <<input, inputData, streamVars, stored, mishaps>>

-----------------------------------------------------------------------------
(* InputFileTransfer::Perform.                                             *)

\* The receiver's sockets are gone: a sender that is connected finds out.
HangUp(j) ==
    conn' = [conn EXCEPT ![j] = IF @ = "open" THEN "broken" ELSE @]

\* A socket call fails: Perform returns true.
InputFails(j) ==
    /\ input[j] \in {"init", "accept"}
    /\ faults < MaxFaults
    /\ faults' = faults + 1
    /\ input' = [input EXCEPT ![j] = "ended"]
    /\ HangUp(j)
    /\ UNCHANGED <<output, queueVars, wire, bytesSend, bytesRead, data, stored, losses, missed>>

\* Tell the sender where to connect; the datagram may get lost.
SendInit(j) ==
    /\ input[j] = "init"
    /\ input' = [input EXCEPT ![j] = "listen"]
    /\ \/ /\ output' = [output EXCEPT ![j] = "told"]
          /\ UNCHANGED losses
       \/ /\ losses < MaxLosses
          /\ losses' = losses + 1
          /\ UNCHANGED output
    /\ UNCHANGED <<queueVars, streamVars, stored, missed, faults>>

\* Listen comes after the datagram was sent.
Listen(j) ==
    /\ input[j] = "listen"
    /\ input' = [input EXCEPT ![j] = "accept"]
    /\ UNCHANGED <<output, queueVars, streamVars, stored, mishaps>>

\* Accept waits without a timeout.
Accept(j) ==
    /\ input[j] = "accept"
    /\ conn[j] # "none"
    /\ input' = [input EXCEPT ![j] = "receive"]
    /\ UNCHANGED <<output, queueVars, streamVars, stored, mishaps>>

\* One turn of ReceiveData: recv returns some of the bytes that are there.
ReceiveSome(j) ==
    /\ input[j] = "receive"
    /\ \E k \in 1 .. Len(wire[j]) :
          /\ bytesRead[j] + k <= Size[j]
          /\ data' = [data EXCEPT ![j] =
                 [i \in 1 .. Size[j] |->
                     IF bytesRead[j] < i /\ i <= bytesRead[j] + k
                     THEN wire[j][i - bytesRead[j]] ELSE @[i]]]
          /\ wire' = [wire EXCEPT ![j] = SubSeq(@, k + 1, Len(@))]
          /\ bytesRead' = [bytesRead EXCEPT ![j] = @ + k]
    /\ UNCHANGED <<input, output, queueVars, conn, bytesSend, stored, mishaps>>

\* Faulty variant: the end of the stream is taken for the end of the file.
ReceiveEndsEarly(j) ==
    /\ input[j] = "receive"
    /\ bytesRead[j] = Size[j] \/ (wire[j] = <<>> /\ conn[j] # "open")
    /\ input' = [input EXCEPT ![j] = "store"]
    /\ UNCHANGED <<output, queueVars, streamVars, stored, mishaps>>

\* The loop of ReceiveData is over when the vector is full.
ReceiveDone(j) ==
    /\ input[j] = "receive"
    /\ bytesRead[j] = Size[j]
    /\ input' = [input EXCEPT ![j] = "store"]
    /\ UNCHANGED <<output, queueVars, streamVars, stored, mishaps>>

\* recv returns 0 or -1: nothing is left and the connection is closed.
ReceiveFails(j) ==
    /\ input[j] = "receive"
    /\ bytesRead[j] < Size[j]
    /\ wire[j] = <<>> /\ conn[j] # "open"
    /\ input' = [input EXCEPT ![j] = "ended"]
    /\ UNCHANGED <<output, queueVars, streamVars, stored, mishaps>>

\* AddLocalFile, and Perform returns.
Store(j) ==
    /\ input[j] = "store"
    /\ stored' = stored \cup {j}
    /\ input' = [input EXCEPT ![j] = "ended"]
    /\ HangUp(j)
    /\ UNCHANGED <<output, queueVars, wire, bytesSend, bytesRead, data, mishaps>>

-----------------------------------------------------------------------------
(* OutputFileTransfer::Perform.                                            *)

Listening(j) == input[j] = "accept"

\* Two milliseconds after its start; the receiver should listen by then.
Connect(j) ==
    /\ output[j] = "connect"
    /\ Listening(j)
    /\ conn' = [conn EXCEPT ![j] = "open"]
    /\ output' = [output EXCEPT ![j] = "read"]
    /\ UNCHANGED <<input, queueVars, wire, bytesSend, bytesRead, data, stored, mishaps>>

\* The port is closed: not yet open to connections, or not any more.
ConnectRefused(j) ==
    /\ output[j] = "connect"
    /\ ~Listening(j)
    /\ output' = [output EXCEPT ![j] = "ended"]
    /\ IF input[j] = "listen"
       THEN missed < MaxMissed /\ missed' = missed + 1
       ELSE UNCHANGED missed
    /\ UNCHANGED <<input, queueVars, streamVars, stored, losses, faults>>

\* Open fails, or Connect does though the peer listens: Perform returns true,
\* and nobody tells the receiver.
ConnectFails(j) ==
    /\ output[j] = "connect"
    /\ Listening(j)
    /\ missed < MaxMissed
    /\ missed' = missed + 1
    /\ output' = [output EXCEPT ![j] = "ended"]
    /\ UNCHANGED <<input, queueVars, streamVars, stored, losses, faults>>

\* The destructor of the sender's socket: what TCP has taken is delivered.
SenderCloses(j) ==
    /\ output' = [output EXCEPT ![j] = "ended"]
    /\ conn' = [conn EXCEPT ![j] = IF @ = "open" THEN "closed" ELSE @]

\* Look the file up and read it.
ReadFile(j) ==
    /\ output[j] = "read"
    /\ output' = [output EXCEPT ![j] = "send"]
    /\ UNCHANGED <<input, queueVars, streamVars, stored, mishaps>>

\* The file is not listed any more, or cannot be read.
ReadFails(j) ==
    /\ output[j] = "read"
    /\ faults < MaxFaults
    /\ faults' = faults + 1
    /\ SenderCloses(j)
    /\ UNCHANGED <<input, queueVars, wire, bytesSend, bytesRead, data, stored, losses, missed>>

\* Faulty variant: every send is offered the length of the whole buffer.
SendPastEnd(j) ==
    /\ output[j] = "send"
    /\ conn[j] = "open"
    /\ bytesSend[j] < Size[j]
    /\ \E k \in 1 .. Size[j] :
          /\ Len(wire[j]) + k <= Window
          /\ wire' = [wire EXCEPT ![j] = @ \o [i \in 1 .. k |-> bytesSend[j] + i]]
          /\ bytesSend' = [bytesSend EXCEPT ![j] = @ + k]
    /\ UNCHANGED <<input, output, queueVars, conn, bytesRead, data, stored, mishaps>>

\* One turn of SendData: send takes some of the bytes that are left.
SendSome(j) ==
    /\ output[j] = "send"
    /\ conn[j] = "open"
    /\ \E k \in 1 .. Size[j] - bytesSend[j] :
          /\ Len(wire[j]) + k <= Window
          /\ wire' = [wire EXCEPT ![j] = @ \o [i \in 1 .. k |-> bytesSend[j] + i]]
          /\ bytesSend' = [bytesSend EXCEPT ![j] = @ + k]
    /\ UNCHANGED <<input, output, queueVars, conn, bytesRead, data, stored, mishaps>>

\* Faulty variant: the transfer stays when the connection breaks.
SendEndsWhole(j) ==
    /\ output[j] = "send"
    /\ bytesSend[j] = Size[j]
    /\ SenderCloses(j)
    /\ UNCHANGED <<input, queueVars, wire, bytesSend, bytesRead, data, stored, mishaps>>

\* The loop of SendData is over: everything is sent, or send has failed.
SendEnds(j) ==
    /\ output[j] = "send"
    /\ bytesSend[j] = Size[j] \/ conn[j] # "open"
    /\ SenderCloses(j)
    /\ UNCHANGED <<input, queueVars, wire, bytesSend, bytesRead, data, stored, mishaps>>

\* The connection breaks; what was on the way is gone.
Break(j) ==
    /\ conn[j] = "open"
    /\ faults < MaxFaults
    /\ faults' = faults + 1
    /\ conn' = [conn EXCEPT ![j] = "broken"]
    /\ wire' = [wire EXCEPT ![j] = <<>>]
    /\ UNCHANGED <<input, output, queueVars, bytesSend, bytesRead, data, stored, losses, missed>>

-----------------------------------------------------------------------------
Input(j) ==
    \/ SendInit(j) \/ Listen(j) \/ Accept(j)
    \/ ReceiveSome(j) \/ ReceiveDone(j) \/ ReceiveFails(j) \/ Store(j)

Output(j) ==
    \/ Connect(j) \/ ConnectRefused(j) \/ ReadFile(j) \/ SendSome(j) \/ SendEnds(j)

Worker(h) ==
    \/ StartQueuedInput(h) \/ StartQueuedOutput(h)
    \/ \E j \in Jobs : Receiver[j] = h /\ ReceiveRequest(j)
    \/ \E j \in Jobs : Sender[j] = h /\ ReceiveInit(j)

Faults(j) == InputFails(j) \/ ConnectFails(j) \/ ReadFails(j) \/ Break(j)

Next ==
    \/ \E j \in Jobs : Input(j) \/ Output(j) \/ Faults(j)
    \/ \E h \in Hosts : Worker(h)

Spec == Init /\ [][Next]_vars

\* Threads and workers keep running, TCP keeps delivering, nothing has to fail.
FairSpec ==
    /\ Spec
    /\ \A j \in Jobs : WF_vars(Input(j)) /\ WF_vars(Output(j))
    /\ \A h \in Hosts : WF_vars(Worker(h))

-----------------------------------------------------------------------------
(* Properties.                                                             *)

Places(j) == 1 .. Size[j]

ControlTypes ==
    /\ input \in [Jobs -> InputPlaces]
    /\ output \in [Jobs -> OutputPlaces]
    /\ inputData \in [Hosts -> Seq(Jobs)]
    /\ outputData \in [Hosts -> Seq(Jobs)]
    /\ conn \in [Jobs -> {"none", "open", "closed", "broken"}]
    /\ stored \subseteq Jobs
    /\ losses \in Nat /\ missed \in Nat /\ faults \in Nat

StreamTypes ==
    /\ bytesSend \in [Jobs -> Nat]
    /\ bytesRead \in [Jobs -> Nat]
    /\ DOMAIN wire = Jobs /\ DOMAIN data = Jobs
    /\ \A j \in Jobs :
          /\ wire[j] \in Seq(Places(j))
          /\ data[j] \in [Places(j) -> 0 .. Size[j]]
          /\ bytesSend[j] <= Size[j] /\ bytesRead[j] <= Size[j]

\* Every variable has the type of its counterpart.
TypeOK == ControlTypes /\ StreamTypes

\* What is stored is the whole file, every byte in its place, however send and
\* recv cut the stream and wherever a connection breaks or a sender gives up.
StoredIsWhole ==
    \A j \in stored : data[j] = [i \in Places(j) |-> i]

RequestStatus(place, running) ==
    IF place \in {"asked", "none", "told"} THEN "new"
    ELSE IF place \in running THEN "running"
    ELSE IF place = "queued" THEN "queued" ELSE "done"

InputsOf(h) == {<<"in", j>> : j \in {k \in Jobs : Receiver[k] = h}}
OutputsOf(h) == {<<"out", j>> : j \in {k \in Jobs : Sender[k] = h}}

StatusOf(h) ==
    [r \in InputsOf(h) \cup OutputsOf(h) |->
        IF r[1] = "in" THEN RequestStatus(input[r[2]], InputRunning)
        ELSE RequestStatus(output[r[2]], OutputRunning)]

Tagged(tag, queue) == [i \in DOMAIN queue |-> <<tag, queue[i]>>]

Pool(h) == INSTANCE TransferContract WITH
    Inputs  <- InputsOf(h),
    Outputs <- OutputsOf(h),
    status  <- StatusOf(h),
    inq     <- Tagged("in", inputData[h]),
    outq    <- Tagged("out", outputData[h])

\* Both directions of all transfers share the slots of a host, and each host
\* keeps the order TransferContract promises.
PoolsKeepContract ==
    /\ \A h \in Hosts : Pool(h)!Init
    /\ [][\A h \in Hosts : [Pool(h)!Next]_(Pool(h)!contractVars)]_vars

Reliable == losses = 0 /\ missed = 0

\* Every file that was asked for is fetched or the transfer fails, on both
\* sides, though each side waits for the other and for slots, wherever a socket
\* or the connection fails later: unless a TRANSFER_INIT was lost, or a sender
\* failed to connect to a receiver that waits (too early, or a failing Open or
\* Connect), after which Accept waits for ever and keeps its slot.
EveryTransferEnds ==
    \A j \in Jobs :
        <>(~Reliable \/ (input[j] = "ended" /\ output[j] \in {"none", "ended"}))

\* "Store data to handle it later" (Service.cpp:1042): an upload that was put
\* into the queue is started some time.
StoredIsHandled ==
    \A j \in Jobs : output[j] = "queued" ~> output[j] # "queued"

=============================================================================
