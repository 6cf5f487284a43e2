---------------------------- MODULE TransferPool ----------------------------
(***************************************************************************)
(* The transfer machinery of one Service: the worker thread (Service::run) *)
(* accepts transfer requests from the message handlers, starts one thread  *)
(* per transfer while fewer than MaxActive are active, queues the rest,    *)
(* and reaps the threads that ended.  The transfer threads share           *)
(* _activeTransfers, _endedTransfers and the queues with the worker under  *)
(* _transferLocker.                                                        *)
(*                                                                         *)
(* Abstractions: a request is one element of Inputs or Outputs, received   *)
(* at most once (a duplicate datagram is another element); what Perform    *)
(* does is one step here (see the README for the modules that open it);    *)
(* _activeTransfers is a set, its order is never used.  A critical section *)
(* in which nobody else can see an intermediate state is one step; the     *)
(* worker's section around a thread start is several, because the started  *)
(* thread runs during it.                                                  *)
(***************************************************************************)
EXTENDS Naturals, Sequences, FiniteSets, Queues

CONSTANTS Inputs,     \* requests of GetFile(const InputTransferData&)
          Outputs,    \* requests of SendFile(const OutputTransferData&)
          MaxActive,  \* MAX_ACTIVE_TRANSFERS_COUNT
          NoTransfer, \* nullptr
          FileHash    \* FileHash[r]: the hash of the file r is about

ASSUME PoolAssumption ==
    /\ Inputs \cap Outputs = {}
    /\ MaxActive \in Nat \ {0}
    /\ NoTransfer \notin Inputs \cup Outputs

Requests == Inputs \cup Outputs

VARIABLES
    exitFlag,    \* _exitFlag
    at,          \* where the worker is in Service::run
    current,     \* the transfer the worker is joining or starting
    lock,        \* _transferLocker: "free" or "worker" between two steps
    active,      \* _activeTransfers
    ended,       \* _endedTransfers
    inputData,   \* _inputData
    outputData,  \* _outputData
    thread,      \* thread[r]: the life of r's FileTransfer object and thread
    handle,      \* handle[r]: transfer->_thread holds the started thread
    received     \* requests the message handlers have passed on so far

vars == <<exitFlag, at, current, lock, active, ended, inputData, outputData,
          thread, handle, received>>

workerVars == <<exitFlag, at, current, lock>>
queueVars  == <<inputData, outputData>>

Init ==
    /\ exitFlag = FALSE
    /\ at = "stopped"
    /\ current = NoTransfer
    /\ lock = "free"
    /\ active = {}
    /\ ended = <<>>
    /\ inputData = <<>>
    /\ outputData = <<>>
    /\ thread = [r \in Requests |-> "none"]
    /\ handle = [r \in Requests |-> FALSE]
    /\ received = {}

-----------------------------------------------------------------------------
(* The main thread: Service::Start and Service::Stop.                      *)

\* Faulty variant: Start also clears _activeTransfers, as its "Cleanup" might.
StartClearsActive ==
    /\ at = "stopped"
    /\ inputData' = <<>>
    /\ outputData' = <<>>
    /\ active' = {}
    /\ exitFlag' = FALSE
    /\ at' = "loop"
    /\ UNCHANGED <<current, lock, ended, thread, handle, received>>

\* Start empties the two queues, not _activeTransfers or _endedTransfers.
Start ==
    /\ at = "stopped"
    /\ inputData' = <<>>
    /\ outputData' = <<>>
    /\ exitFlag' = FALSE
    /\ at' = "loop"
    /\ UNCHANGED <<current, lock, active, ended, thread, handle, received>>

\* Stop raises the flag and then waits for the worker ("stopped").
Stop ==
    /\ at # "stopped"
    /\ exitFlag' = TRUE
    /\ UNCHANGED <<at, current, lock, active, ended, queueVars, thread, handle, received>>

-----------------------------------------------------------------------------
(* The worker thread: Service::run.                                        *)

LoopCondition ==
    /\ at = "loop"
    /\ at' = IF exitFlag THEN "stopped" ELSE "ended"
    /\ UNCHANGED <<exitFlag, current, lock, active, ended, queueVars, thread, handle, received>>

\* Faulty variant: the ended transfer stays in _activeTransfers.
TakeEndedKeepsActive ==
    /\ at = "ended" /\ lock = "free"
    /\ ended # <<>>
    /\ current' = Head(ended)
    /\ ended' = Tail(ended)
    /\ at' = "join"
    /\ UNCHANGED <<exitFlag, lock, active, queueVars, thread, handle, received>>

\* HandleEndedTransfers, its locked block: take one ended transfer, if any.
TakeEnded ==
    /\ at = "ended" /\ lock = "free"
    /\ ended # <<>>
    /\ current' = Head(ended)
    /\ ended' = Tail(ended)
    /\ active' = active \ {Head(ended)}
    /\ at' = "join"
    /\ UNCHANGED <<exitFlag, lock, queueVars, thread, handle, received>>

NoneEnded ==
    /\ at = "ended" /\ lock = "free"
    /\ ended = <<>>
    /\ at' = "new"
    /\ UNCHANGED <<exitFlag, current, lock, active, ended, queueVars, thread, handle, received>>

\* HandleEndedTransfers, outside the lock: join blocks until the thread has
\* returned; then the object is deleted.
JoinAndDelete ==
    /\ at = "join"
    /\ handle[current]
    /\ thread[current] = "returned"
    /\ thread' = [thread EXCEPT ![current] = "deleted"]
    /\ current' = NoTransfer
    /\ at' = "ended"
    /\ UNCHANGED <<exitFlag, lock, active, ended, queueVars, handle, received>>

\* Faulty variant: the list gets the transfer only after its thread is started.
LaunchUnlisted(r, next) ==
    /\ active' = active
    /\ thread' = [thread EXCEPT ![r] = "performing"]
    /\ current' = r
    /\ lock' = "worker"
    /\ at' = next

\* OnTransferStart up to the construction of the std::thread: the new thread
\* runs from here on, while the worker keeps _transferLocker.
Launch(r, next) ==
    /\ active' = active \cup {r}
    /\ thread' = [thread EXCEPT ![r] = "performing"]
    /\ current' = r
    /\ lock' = "worker"
    /\ at' = next

\* Faulty variant: one transfer too many.
HasFreeSlotOffByOne == Cardinality(active) <= MaxActive

HasFreeSlot == Cardinality(active) < MaxActive

\* HandleNewTransfers: the lock is taken once around both loops.
EnterNewTransfers ==
    /\ at = "new" /\ lock = "free"
    /\ lock' = "worker"
    /\ at' = "drain"
    /\ UNCHANGED <<exitFlag, current, active, ended, queueVars, thread, handle, received>>

LaunchQueuedInput ==
    /\ at = "drain"
    /\ inputData # <<>> /\ HasFreeSlot
    /\ Launch(Head(inputData), "launchedQueued")
    /\ UNCHANGED <<exitFlag, ended, queueVars, handle, received>>

\* Faulty variant: the loop over the uploads does not wait for the downloads.
LaunchQueuedOutputFirst ==
    /\ at = "drain"
    /\ outputData # <<>> /\ HasFreeSlot
    /\ Launch(Head(outputData), "launchedQueued")
    /\ UNCHANGED <<exitFlag, ended, queueVars, handle, received>>

LaunchQueuedOutput ==
    /\ at = "drain"
    /\ ~(inputData # <<>> /\ HasFreeSlot)
    /\ outputData # <<>> /\ HasFreeSlot
    /\ Launch(Head(outputData), "launchedQueued")
    /\ UNCHANGED <<exitFlag, ended, queueVars, handle, received>>

\* Faulty variant: one queued transfer is started per turn ("if", not "while").
FinishQueuedLaunchOnce ==
    /\ at = "launchedQueued"
    /\ handle' = [handle EXCEPT ![current] = TRUE]
    /\ IF current \in Inputs
       THEN inputData' = Tail(inputData) /\ UNCHANGED outputData
       ELSE outputData' = Tail(outputData) /\ UNCHANGED inputData
    /\ current' = NoTransfer
    /\ lock' = "free"
    /\ at' = "receive"
    /\ UNCHANGED <<exitFlag, active, ended, thread, received>>

\* OnTransferStart assigns the thread handle; back in HandleNewTransfers the
\* first element of the queue is erased.  The lock stays with the worker.
FinishQueuedLaunch ==
    /\ at = "launchedQueued"
    /\ handle' = [handle EXCEPT ![current] = TRUE]
    /\ IF current \in Inputs
       THEN inputData' = Tail(inputData) /\ UNCHANGED outputData
       ELSE outputData' = Tail(outputData) /\ UNCHANGED inputData
    /\ current' = NoTransfer
    /\ at' = "drain"
    /\ UNCHANGED <<exitFlag, lock, active, ended, thread, received>>

LeaveNewTransfers ==
    /\ at = "drain"
    /\ ~((inputData # <<>> \/ outputData # <<>>) /\ HasFreeSlot)
    /\ lock' = "free"
    /\ at' = "receive"
    /\ UNCHANGED <<exitFlag, current, active, ended, queueVars, thread, handle, received>>

\* A datagram whose handler calls GetFile(data) or SendFile(data): start the
\* transfer when a slot is free, store the data in the queue otherwise.
ReceiveAndLaunch(r) ==
    /\ at = "receive" /\ lock = "free"
    /\ r \notin received
    /\ received' = received \cup {r}
    /\ HasFreeSlot
    /\ Launch(r, "launchedDirect")
    /\ UNCHANGED <<exitFlag, ended, queueVars, handle>>

\* Faulty variant: whatever waits is stored as a download.
ReceiveAndQueueAsInput(r) ==
    /\ at = "receive" /\ lock = "free"
    /\ r \notin received
    /\ received' = received \cup {r}
    /\ ~HasFreeSlot
    /\ inputData' = Append(inputData, r) /\ UNCHANGED outputData
    /\ at' = "loop"
    /\ UNCHANGED <<exitFlag, current, lock, active, ended, thread, handle>>

ReceiveAndQueue(r) ==
    /\ at = "receive" /\ lock = "free"
    /\ r \notin received
    /\ received' = received \cup {r}
    /\ ~HasFreeSlot
    /\ IF r \in Inputs
       THEN inputData' = Append(inputData, r) /\ UNCHANGED outputData
       ELSE outputData' = Append(outputData, r) /\ UNCHANGED inputData
    /\ at' = "loop"
    /\ UNCHANGED <<exitFlag, current, lock, active, ended, thread, handle>>

FinishDirectLaunch ==
    /\ at = "launchedDirect"
    /\ handle' = [handle EXCEPT ![current] = TRUE]
    /\ current' = NoTransfer
    /\ lock' = "free"
    /\ at' = "loop"
    /\ UNCHANGED <<exitFlag, active, ended, queueVars, thread, received>>

\* Select timed out, or the message starts no transfer.
ReceiveOther ==
    /\ at = "receive"
    /\ at' = "loop"
    /\ UNCHANGED <<exitFlag, current, lock, active, ended, queueVars, thread, handle, received>>

-----------------------------------------------------------------------------
(* A transfer thread: Service::runTransfer.                                *)

\* Perform returns, with or without success: both only differ in the log.
PerformReturns(r) ==
    /\ thread[r] = "performing"
    /\ thread' = [thread EXCEPT ![r] = "performed"]
    /\ UNCHANGED <<workerVars, active, ended, queueVars, handle, received>>

\* Faulty variant: runTransfer reports the end before it performs the transfer.
OnTransferEndFirst(r) ==
    /\ thread[r] = "performing" /\ lock = "free"
    /\ r \in active /\ \A i \in DOMAIN ended : ended[i] # r
    /\ ended' = Append(ended, r)
    /\ UNCHANGED <<workerVars, active, queueVars, thread, handle, received>>

OnTransferEnd(r) ==
    /\ thread[r] = "performed" /\ lock = "free"
    /\ ended' = Append(ended, r)
    /\ thread' = [thread EXCEPT ![r] = "signalled"]
    /\ UNCHANGED <<workerVars, active, queueVars, handle, received>>

ThreadReturns(r) ==
    /\ thread[r] = "signalled"
    /\ thread' = [thread EXCEPT ![r] = "returned"]
    /\ UNCHANGED <<workerVars, active, ended, queueVars, handle, received>>

-----------------------------------------------------------------------------
Worker ==
    \/ LoopCondition
    \/ TakeEnded \/ NoneEnded \/ JoinAndDelete
    \/ EnterNewTransfers \/ LaunchQueuedInput \/ LaunchQueuedOutput
    \/ FinishQueuedLaunch \/ LeaveNewTransfers
    \/ \E r \in Requests : ReceiveAndLaunch(r) \/ ReceiveAndQueue(r)
    \/ FinishDirectLaunch \/ ReceiveOther

Transfer(r) == PerformReturns(r) \/ OnTransferEnd(r) \/ ThreadReturns(r)

Next ==
    \/ Start \/ Stop
    \/ Worker
    \/ \E r \in Requests : Transfer(r)

Spec == Init /\ [][Next]_vars

\* The worker keeps running, and so does a thread that is out of Perform: one
\* that wants the lock gets it although the worker takes it again and again.
\* Perform itself may wait for ever, its Accept has no timeout.
Fairness ==
    /\ WF_vars(Worker)
    /\ \A r \in Requests :
          /\ SF_vars(OnTransferEnd(r))
          /\ WF_vars(ThreadReturns(r))

FairSpec == Spec /\ Fairness

-----------------------------------------------------------------------------
(* Properties.                                                             *)

ThreadStates ==
    {"none", "performing", "performed", "signalled", "returned", "deleted"}

WorkerPlaces ==
    {"stopped", "loop", "ended", "join", "new", "drain", "launchedQueued",
     "receive", "launchedDirect"}

\* Every variable has the type of its counterpart in Service.
TypeOK ==
    /\ exitFlag \in BOOLEAN
    /\ at \in WorkerPlaces
    /\ current \in Requests \cup {NoTransfer}
    /\ lock \in {"free", "worker"}
    /\ active \subseteq Requests
    /\ ended \in Seq(Requests)
    /\ inputData \in Seq(Inputs)
    /\ outputData \in Seq(Outputs)
    /\ thread \in [Requests -> ThreadStates]
    /\ handle \in [Requests -> BOOLEAN]
    /\ received \subseteq Requests

\* FileTransfer objects alive, the one being joined included.
Alive == {r \in Requests : thread[r] \notin {"none", "deleted"}}

\* MAX_ACTIVE_TRANSFERS_COUNT bounds the threads and not only the list: the
\* object HandleEndedTransfers has already erased from _activeTransfers but is
\* still joining never is one thread too many.
LiveTransfersBounded == Cardinality(Alive) <= MaxActive

\* assert(i != _activeTransfers.end()) of HandleEndedTransfers: whatever ended is
\* still in the active list when the worker looks for it, and is there once,
\* also when the thread was started before a Stop and reaped after a Start.
EndedIsActive ==
    /\ \A r \in Requests : InSeq(r, ended) => r \in active
    /\ Distinct(ended)

\* The worker, which has to keep answering messages, never waits in join() for
\* a thread that can still block in Perform or on the lock, and never joins a
\* thread whose handle was not yet moved into the transfer.
JoinIsBrief ==
    at = "join" =>
        handle[current] /\ thread[current] \in {"signalled", "returned"}

\* When the worker handles a message, a waiting request implies that no slot
\* is free, so a new request never overtakes a queued one: the loop reaps and
\* drains the queues before it receives, and nobody else frees a slot.
QueuedMeansFull ==
    at = "receive" /\ (inputData # <<>> \/ outputData # <<>>) => ~HasFreeSlot

\* IsFileTransfer, the question HandleFiles asks before it deletes a file.
IsFileTransfer(hash) ==
    \E r \in Requests :
        /\ FileHash[r] = hash
        /\ r \in active \/ InSeq(r, inputData) \/ InSeq(r, outputData)

\* A thread that may be using the file of a hash is seen by IsFileTransfer, at
\* every moment of its Perform.
PerformingIsSeen ==
    \A r \in Requests : thread[r] = "performing" => IsFileTransfer(FileHash[r])

\* The contract this module implements.  A request launched from a queue has
\* left it although the vector still holds it until FinishQueuedLaunch.
Forgotten(r) ==
    /\ r \in received /\ thread[r] = "none"
    /\ ~InSeq(r, inputData) /\ ~InSeq(r, outputData)

ContractStatus(r) ==
    IF r \notin received THEN "new"
    ELSE IF Forgotten(r) THEN "forgotten"
    ELSE IF r \in active THEN "running"
    ELSE IF thread[r] = "none" THEN "queued"
    ELSE "done"

StillWaiting(queue) ==
    IF at = "launchedQueued" /\ queue # <<>> /\ current = Head(queue)
    THEN Tail(queue) ELSE queue

Contract == INSTANCE TransferContract WITH
    status <- [r \in Requests |-> ContractStatus(r)],
    inq    <- StillWaiting(inputData),
    outq   <- StillWaiting(outputData)

\* Every step of the threads is a step of TransferContract or changes nothing
\* there: no request is lost, run twice, overtaken, or started past the limit.
ImplementsContract == Contract!Spec

\* A transfer that is over leaves the list and is joined and deleted, whatever
\* the others do and though their Perform may never return.
OverIsReaped ==
    \A r \in Requests :
        thread[r] = "performed" ~> thread[r] = "deleted" /\ r \notin active

SlotIsWasted == HasFreeSlot /\ (inputData # <<>> \/ outputData # <<>>)

\* While the service stays up the slots keep moving, without any help of the
\* peers: a transfer that is over frees its slot, also one that outlived a Stop
\* and a Start, and no slot stays free while a request waits.  (An upload may
\* still wait for ever: downloads go first.)
SlotsMove ==
    <>[](~exitFlag) => OverIsReaped /\ (SlotIsWasted ~> ~SlotIsWasted)

=============================================================================
