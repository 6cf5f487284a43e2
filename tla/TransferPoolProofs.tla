------------------------- MODULE TransferPoolProofs -------------------------
(***************************************************************************)
(* Proofs about TransferPool for every set of requests and every limit:    *)
(* its invariants, and that it implements TransferContract.                *)
(***************************************************************************)
EXTENDS TransferPool, QueueFacts, FiniteSetTheorems

-----------------------------------------------------------------------------
(* Slots.                                                                  *)

\* A transfer added below the limit stays within it.
LEMMA SlotTaken ==
    ASSUME NEW A, IsFiniteSet(A), Cardinality(A) < MaxActive, NEW r
    PROVE  IsFiniteSet(A \cup {r}) /\ Cardinality(A \cup {r}) <= MaxActive
<1>1. MaxActive \in Nat
  BY PoolAssumption
<1>2. /\ IsFiniteSet(A \cup {r}) /\ Cardinality(A) \in Nat
      /\ \/ Cardinality(A \cup {r}) = Cardinality(A)
         \/ Cardinality(A \cup {r}) = Cardinality(A) + 1
  BY FS_AddElement, FS_CardinalityType
<1>3. QED
  BY <1>1, <1>2

\* A transfer removed leaves a slot free.
LEMMA SlotFreed ==
    ASSUME NEW A, IsFiniteSet(A), Cardinality(A) <= MaxActive, NEW r \in A
    PROVE  IsFiniteSet(A \ {r}) /\ Cardinality(A \ {r}) < MaxActive
<1>1. MaxActive \in Nat
  BY PoolAssumption
<1>2. /\ IsFiniteSet(A \ {r}) /\ Cardinality(A) \in Nat
      /\ Cardinality(A \ {r}) = Cardinality(A) - 1
  BY FS_RemoveElement, FS_CardinalityType
<1>3. QED
  BY <1>1, <1>2

-----------------------------------------------------------------------------
(* The inductive invariant.                                                *)

Launched == {"launchedQueued", "launchedDirect"}

\* Who holds the lock between two steps.
LockInv == lock = "worker" <=> at \in {"drain"} \cup Launched

\* What the worker knows of the transfer it is joining or starting.
CurrentInv ==
    /\ at = "join" =>
          /\ current \in Requests /\ current \notin active
          /\ ~InSeq(current, ended)
          /\ handle[current]
          /\ thread[current] \in {"signalled", "returned"}
    /\ at \in Launched => current \in active
    /\ at = "launchedQueued" =>
          IF current \in Inputs
          THEN inputData # <<>> /\ current = Head(inputData)
          ELSE outputData # <<>> /\ current = Head(outputData)

\* How a thread's progress shows in the two lists.
ListsInv ==
    \A r \in Requests :
        /\ r \in active =>
              /\ thread[r] \in {"performing", "performed", "signalled", "returned"}
              /\ handle[r] \/ (at \in Launched /\ current = r)
        /\ thread[r] \in {"performing", "performed"} => r \in active
        /\ thread[r] \in {"signalled", "returned"} =>
              InSeq(r, ended) \/ (at = "join" /\ current = r)
        /\ InSeq(r, ended) =>
              r \in active /\ thread[r] \in {"signalled", "returned"}
        /\ thread[r] # "none" => r \in received

\* A queued request has been received, once, and has no thread yet.
QueuesInv ==
    /\ Distinct(ended) /\ Distinct(inputData) /\ Distinct(outputData)
    /\ \A r \in Requests :
          InSeq(r, inputData) \/ InSeq(r, outputData) =>
              /\ r \in received
              /\ thread[r] = "none" \/ (at = "launchedQueued" /\ current = r)

\* The slot of the transfer being joined is already free.
SlotsInv ==
    /\ IsFiniteSet(active)
    /\ Cardinality(active) <= MaxActive
    /\ at = "join" => Cardinality(active) < MaxActive

IInv ==
    /\ TypeOK
    /\ LockInv
    /\ CurrentInv
    /\ ListsInv
    /\ QueuesInv
    /\ SlotsInv
    /\ QueuedMeansFull

-----------------------------------------------------------------------------
(* It holds at the start and every action keeps it.                        *)

LEMMA InitIInv == Init => IInv
<1> SUFFICES ASSUME Init PROVE IInv
  OBVIOUS
<1>1. TypeOK
  <2>1. /\ ended \in Seq(Requests)
        /\ inputData \in Seq(Inputs) /\ outputData \in Seq(Outputs)
    BY EmptyFacts DEF Init
  <2>2. thread \in [Requests -> ThreadStates] /\ handle \in [Requests -> BOOLEAN]
    BY DEF Init, ThreadStates
  <2>3. QED
    BY <2>1, <2>2 DEF Init, TypeOK, WorkerPlaces
<1>2. LockInv /\ CurrentInv /\ QueuedMeansFull
  BY DEF Init, LockInv, CurrentInv, QueuedMeansFull, Launched
<1>3. ListsInv /\ QueuesInv
  BY EmptyFacts DEF Init, ListsInv, QueuesInv, Launched
<1>4. SlotsInv
  BY PoolAssumption, FS_EmptySet DEF Init, SlotsInv
<1>5. QED
  BY <1>1, <1>2, <1>3, <1>4 DEF IInv

\* Starting the thread of a request that has none: what all four actions that
\* construct a std::thread share.
LEMMA LaunchIInv ==
    ASSUME IInv,
           NEW r \in Requests, thread[r] = "none", HasFreeSlot,
           NEW next \in Launched, Launch(r, next),
           at \in {"drain", "receive"},
           next = "launchedDirect" => ~InSeq(r, inputData) /\ ~InSeq(r, outputData),
           next = "launchedQueued" =>
               IF r \in Inputs THEN inputData # <<>> /\ r = Head(inputData)
                               ELSE outputData # <<>> /\ r = Head(outputData),
           r \in received', received \subseteq received', received' \subseteq Requests,
           UNCHANGED <<exitFlag, ended, queueVars, handle>>
    PROVE  IInv'
<1> USE DEF IInv, Launched
<1>1. TypeOK'
  BY DEF Launch, queueVars, TypeOK, WorkerPlaces, ThreadStates
<1>2. LockInv' /\ CurrentInv' /\ QueuedMeansFull'
  BY DEF Launch, queueVars, LockInv, CurrentInv, QueuedMeansFull
<1>3. ListsInv'
  BY DEF Launch, queueVars, ListsInv, TypeOK, CurrentInv
<1>4. QueuesInv'
  BY DEF Launch, queueVars, QueuesInv, TypeOK
<1>5. SlotsInv'
  BY SlotTaken DEF Launch, SlotsInv, HasFreeSlot
<1>6. QED
  BY <1>1, <1>2, <1>3, <1>4, <1>5

LEMMA NextIInv == IInv /\ [Next]_vars => IInv'
<1> SUFFICES ASSUME IInv, [Next]_vars PROVE IInv'
  OBVIOUS
<1> USE DEF IInv, Launched
<1>1. CASE Start
  <2>1. TypeOK'
    BY <1>1, EmptyFacts DEF Start, TypeOK, WorkerPlaces
  <2>2. LockInv' /\ CurrentInv' /\ QueuedMeansFull' /\ SlotsInv'
    BY <1>1 DEF Start, LockInv, CurrentInv, QueuedMeansFull, SlotsInv
  <2>3. ListsInv'
    BY <1>1 DEF Start, ListsInv
  <2>4. QueuesInv'
    BY <1>1, EmptyFacts DEF Start, QueuesInv
  <2>5. QED
    BY <2>1, <2>2, <2>3, <2>4
<1>2. CASE Stop
  <2>1. TypeOK'
    BY <1>2 DEF Stop, queueVars, TypeOK
  <2>2. LockInv' /\ CurrentInv' /\ QueuedMeansFull' /\ SlotsInv'
    BY <1>2 DEF Stop, queueVars, LockInv, CurrentInv, QueuedMeansFull, HasFreeSlot, SlotsInv
  <2>3. ListsInv' /\ QueuesInv'
    BY <1>2 DEF Stop, queueVars, ListsInv, QueuesInv
  <2>4. QED
    BY <2>1, <2>2, <2>3
<1>3. CASE LoopCondition
  BY <1>3 DEF LoopCondition, queueVars, TypeOK, WorkerPlaces, LockInv, CurrentInv, ListsInv,
              QueuesInv, SlotsInv, QueuedMeansFull
<1>4. CASE TakeEnded
  <2>1. /\ Head(ended) \in Requests /\ Head(ended) \in active
        /\ thread[Head(ended)] \in {"signalled", "returned"}
        /\ Tail(ended) \in Seq(Requests) /\ Distinct(Tail(ended))
        /\ \A x : InSeq(x, Tail(ended)) <=> InSeq(x, ended) /\ x # Head(ended)
    BY <1>4, TailFacts DEF TakeEnded, TypeOK, QueuesInv, ListsInv
  <2>2. handle[Head(ended)]
    BY <1>4, <2>1 DEF TakeEnded, ListsInv
  <2>3. TypeOK'
    BY <1>4, <2>1 DEF TakeEnded, queueVars, TypeOK, WorkerPlaces
  <2>4. LockInv' /\ CurrentInv' /\ QueuedMeansFull'
    BY <1>4, <2>1, <2>2 DEF TakeEnded, queueVars, LockInv, CurrentInv, QueuedMeansFull
  <2>5. ListsInv'
    BY <1>4, <2>1 DEF TakeEnded, ListsInv
  <2>6. QueuesInv'
    BY <1>4, <2>1 DEF TakeEnded, queueVars, QueuesInv
  <2>7. SlotsInv'
    <3>1. IsFiniteSet(active') /\ Cardinality(active') < MaxActive
      BY <1>4, <2>1, SlotFreed DEF TakeEnded, SlotsInv
    <3>2. Cardinality(active') \in Nat
      BY <3>1, FS_CardinalityType
    <3>3. QED
      BY <3>1, <3>2, PoolAssumption DEF SlotsInv
  <2>8. QED
    BY <2>3, <2>4, <2>5, <2>6, <2>7
<1>5. CASE NoneEnded
  <2>1. TypeOK'
    BY <1>5 DEF NoneEnded, queueVars, TypeOK, WorkerPlaces
  <2>2. LockInv' /\ CurrentInv' /\ QueuedMeansFull' /\ SlotsInv'
    BY <1>5 DEF NoneEnded, queueVars, LockInv, CurrentInv, QueuedMeansFull, SlotsInv
  <2>3. ListsInv' /\ QueuesInv'
    BY <1>5 DEF NoneEnded, queueVars, ListsInv, QueuesInv
  <2>4. QED
    BY <2>1, <2>2, <2>3
<1>6. CASE JoinAndDelete
  <2>1. TypeOK'
    BY <1>6 DEF JoinAndDelete, queueVars, TypeOK, WorkerPlaces, ThreadStates
  <2>2. LockInv' /\ CurrentInv' /\ QueuedMeansFull' /\ SlotsInv'
    BY <1>6 DEF JoinAndDelete, queueVars, LockInv, CurrentInv, QueuedMeansFull, SlotsInv
  <2>3. ListsInv'
    BY <1>6 DEF JoinAndDelete, ListsInv, CurrentInv, TypeOK
  <2>4. QueuesInv'
    BY <1>6 DEF JoinAndDelete, queueVars, QueuesInv, CurrentInv, TypeOK
  <2>5. QED
    BY <2>1, <2>2, <2>3, <2>4
<1>7. CASE EnterNewTransfers
  BY <1>7 DEF EnterNewTransfers, queueVars, TypeOK, WorkerPlaces, LockInv, CurrentInv, ListsInv,
              QueuesInv, SlotsInv, QueuedMeansFull
<1>8. CASE LaunchQueuedInput
  <2>1. /\ Head(inputData) \in Requests /\ Head(inputData) \in Inputs
        /\ Head(inputData) \in received /\ thread[Head(inputData)] = "none"
    BY <1>8, TailFacts DEF LaunchQueuedInput, TypeOK, QueuesInv, Requests
  <2>2. /\ HasFreeSlot /\ at = "drain" /\ received' = received
        /\ Launch(Head(inputData), "launchedQueued")
        /\ UNCHANGED <<exitFlag, ended, queueVars, handle>>
    BY <1>8 DEF LaunchQueuedInput, queueVars
  <2>3. received \subseteq Requests
    BY DEF TypeOK
  <2>4. QED
    BY <1>8, <2>1, <2>2, <2>3, LaunchIInv DEF LaunchQueuedInput
<1>9. CASE LaunchQueuedOutput
  <2>1. /\ Head(outputData) \in Requests /\ Head(outputData) \notin Inputs
        /\ Head(outputData) \in received /\ thread[Head(outputData)] = "none"
    BY <1>9, TailFacts, PoolAssumption DEF LaunchQueuedOutput, TypeOK, QueuesInv, Requests
  <2>2. /\ HasFreeSlot /\ at = "drain" /\ received' = received
        /\ Launch(Head(outputData), "launchedQueued")
        /\ UNCHANGED <<exitFlag, ended, queueVars, handle>>
    BY <1>9 DEF LaunchQueuedOutput, queueVars
  <2>3. received \subseteq Requests
    BY DEF TypeOK
  <2>4. QED
    BY <1>9, <2>1, <2>2, <2>3, LaunchIInv DEF LaunchQueuedOutput
<1>10. CASE FinishQueuedLaunch
  <2>1. /\ current \in Requests /\ current \in active
        /\ current \in Inputs => inputData # <<>> /\ current = Head(inputData)
        /\ current \notin Inputs =>
              outputData # <<>> /\ current = Head(outputData)
    BY <1>10 DEF FinishQueuedLaunch, CurrentInv, TypeOK
  <2>2. /\ inputData' \in Seq(Inputs) /\ Distinct(inputData')
        /\ outputData' \in Seq(Outputs) /\ Distinct(outputData')
        /\ \A x : InSeq(x, inputData') => InSeq(x, inputData) /\ x # current
        /\ \A x : InSeq(x, outputData') => InSeq(x, outputData) /\ x # current
    <3>1. CASE current \in Inputs
      <4>1. \A x : InSeq(x, outputData) => x # current
        BY <3>1, ElementFacts, PoolAssumption DEF TypeOK
      <4>2. /\ inputData' = Tail(inputData) /\ outputData' = outputData
            /\ inputData \in Seq(Inputs) /\ outputData \in Seq(Outputs)
            /\ Distinct(inputData) /\ Distinct(outputData)
        BY <1>10, <3>1 DEF FinishQueuedLaunch, TypeOK, QueuesInv
      <4>3. QED
        BY <2>1, <3>1, <4>1, <4>2, TailFacts
    <3>2. CASE current \notin Inputs
      <4>1. \A x : InSeq(x, inputData) => x # current
        BY <3>2, ElementFacts DEF TypeOK
      <4>2. /\ outputData' = Tail(outputData) /\ inputData' = inputData
            /\ inputData \in Seq(Inputs) /\ outputData \in Seq(Outputs)
            /\ Distinct(inputData) /\ Distinct(outputData)
        BY <1>10, <3>2 DEF FinishQueuedLaunch, TypeOK, QueuesInv
      <4>3. QED
        BY <2>1, <3>2, <4>1, <4>2, TailFacts
    <3>3. QED
      BY <3>1, <3>2
  <2>3. TypeOK'
    BY <1>10, <2>1, <2>2 DEF FinishQueuedLaunch, TypeOK, WorkerPlaces
  <2>4. LockInv' /\ CurrentInv' /\ QueuedMeansFull' /\ SlotsInv'
    BY <1>10 DEF FinishQueuedLaunch, LockInv, CurrentInv, QueuedMeansFull, SlotsInv
  <2>5. ListsInv'
    BY <1>10, <2>1 DEF FinishQueuedLaunch, ListsInv, TypeOK
  <2>6. QueuesInv'
    BY <1>10, <2>1, <2>2 DEF FinishQueuedLaunch, QueuesInv
  <2>7. QED
    BY <2>3, <2>4, <2>5, <2>6
<1>11. CASE LeaveNewTransfers
  <2>1. TypeOK'
    BY <1>11 DEF LeaveNewTransfers, queueVars, TypeOK, WorkerPlaces
  <2>2. LockInv' /\ CurrentInv' /\ QueuedMeansFull' /\ SlotsInv'
    BY <1>11 DEF LeaveNewTransfers, queueVars, LockInv, CurrentInv, QueuedMeansFull,
                 HasFreeSlot, SlotsInv
  <2>3. ListsInv' /\ QueuesInv'
    BY <1>11 DEF LeaveNewTransfers, queueVars, ListsInv, QueuesInv
  <2>4. QED
    BY <2>1, <2>2, <2>3
<1>12. ASSUME NEW r \in Requests, ReceiveAndLaunch(r)
       PROVE  IInv'
  <2>1. /\ thread[r] = "none" /\ ~InSeq(r, inputData) /\ ~InSeq(r, outputData)
        /\ received \subseteq Requests
    BY <1>12 DEF ReceiveAndLaunch, ListsInv, QueuesInv, TypeOK, ThreadStates
  <2>2. /\ HasFreeSlot /\ at = "receive" /\ received' = received \cup {r}
        /\ Launch(r, "launchedDirect")
        /\ UNCHANGED <<exitFlag, ended, queueVars, handle>>
    BY <1>12 DEF ReceiveAndLaunch, queueVars
  <2>3. QED
    BY <2>1, <2>2, LaunchIInv
<1>13. ASSUME NEW r \in Requests, ReceiveAndQueue(r)
       PROVE  IInv'
  <2>1. /\ thread[r] = "none" /\ ~InSeq(r, inputData) /\ ~InSeq(r, outputData)
    BY <1>13 DEF ReceiveAndQueue, ListsInv, QueuesInv
  <2>2. /\ inputData' \in Seq(Inputs) /\ Distinct(inputData')
        /\ outputData' \in Seq(Outputs) /\ Distinct(outputData')
        /\ \A x : InSeq(x, inputData') => InSeq(x, inputData) \/ x = r
        /\ \A x : InSeq(x, outputData') => InSeq(x, outputData) \/ x = r
    <3>1. CASE r \in Inputs
      <4>1. /\ inputData' = Append(inputData, r) /\ outputData' = outputData
            /\ inputData \in Seq(Inputs) /\ outputData \in Seq(Outputs)
            /\ Distinct(inputData) /\ Distinct(outputData)
        BY <1>13, <3>1 DEF ReceiveAndQueue, TypeOK, QueuesInv
      <4>2. QED
        BY <2>1, <3>1, <4>1, AppendFacts
    <3>2. CASE r \notin Inputs
      <4>1. /\ outputData' = Append(outputData, r) /\ inputData' = inputData
            /\ inputData \in Seq(Inputs) /\ outputData \in Seq(Outputs)
            /\ Distinct(inputData) /\ Distinct(outputData)
        BY <1>13, <3>2 DEF ReceiveAndQueue, TypeOK, QueuesInv
      <4>2. r \in Outputs
        BY <3>2 DEF Requests
      <4>3. QED
        BY <2>1, <4>1, <4>2, AppendFacts
    <3>3. QED
      BY <3>1, <3>2
  <2>3. TypeOK'
    BY <1>13, <2>2 DEF ReceiveAndQueue, TypeOK, WorkerPlaces
  <2>4. LockInv' /\ CurrentInv' /\ QueuedMeansFull' /\ SlotsInv'
    BY <1>13 DEF ReceiveAndQueue, LockInv, CurrentInv, QueuedMeansFull, SlotsInv
  <2>5. ListsInv'
    BY <1>13 DEF ReceiveAndQueue, ListsInv
  <2>6. QueuesInv'
    BY <1>13, <2>1, <2>2 DEF ReceiveAndQueue, QueuesInv
  <2>7. QED
    BY <2>3, <2>4, <2>5, <2>6
<1>14. CASE FinishDirectLaunch
  <2>1. current \in Requests
    BY <1>14 DEF FinishDirectLaunch, CurrentInv, TypeOK
  <2>2. TypeOK'
    BY <1>14, <2>1 DEF FinishDirectLaunch, queueVars, TypeOK, WorkerPlaces
  <2>3. LockInv' /\ CurrentInv' /\ QueuedMeansFull' /\ SlotsInv'
    BY <1>14 DEF FinishDirectLaunch, queueVars, LockInv, CurrentInv, QueuedMeansFull, SlotsInv
  <2>4. ListsInv' /\ QueuesInv'
    BY <1>14, <2>1 DEF FinishDirectLaunch, queueVars, ListsInv, QueuesInv, TypeOK
  <2>5. QED
    BY <2>2, <2>3, <2>4
<1>15. CASE ReceiveOther
  <2>1. TypeOK'
    BY <1>15 DEF ReceiveOther, queueVars, TypeOK, WorkerPlaces
  <2>2. LockInv' /\ CurrentInv' /\ QueuedMeansFull' /\ SlotsInv'
    BY <1>15 DEF ReceiveOther, queueVars, LockInv, CurrentInv, QueuedMeansFull, SlotsInv
  <2>3. ListsInv' /\ QueuesInv'
    BY <1>15 DEF ReceiveOther, queueVars, ListsInv, QueuesInv
  <2>4. QED
    BY <2>1, <2>2, <2>3
<1>16. ASSUME NEW r \in Requests, PerformReturns(r)
       PROVE  IInv'
  <2>1. TypeOK'
    BY <1>16 DEF PerformReturns, workerVars, queueVars, TypeOK, ThreadStates
  <2>2. LockInv' /\ CurrentInv' /\ QueuedMeansFull' /\ SlotsInv'
    BY <1>16 DEF PerformReturns, workerVars, queueVars, LockInv, CurrentInv, QueuedMeansFull,
                 HasFreeSlot, SlotsInv, TypeOK
  <2>3. ListsInv' /\ QueuesInv'
    BY <1>16 DEF PerformReturns, workerVars, queueVars, ListsInv, QueuesInv, TypeOK
  <2>4. QED
    BY <2>1, <2>2, <2>3
<1>17. ASSUME NEW r \in Requests, OnTransferEnd(r)
       PROVE  IInv'
  <2>1. /\ ~InSeq(r, ended) /\ r \in active
        /\ at = "join" => current # r
    BY <1>17 DEF OnTransferEnd, ListsInv, CurrentInv
  <2>2. /\ ended' \in Seq(Requests) /\ Distinct(ended')
        /\ \A x : InSeq(x, ended') <=> InSeq(x, ended) \/ x = r
    BY <1>17, <2>1, AppendFacts DEF OnTransferEnd, TypeOK, QueuesInv
  <2>3. TypeOK'
    BY <1>17, <2>2 DEF OnTransferEnd, workerVars, queueVars, TypeOK, ThreadStates
  <2>4. LockInv' /\ CurrentInv' /\ QueuedMeansFull' /\ SlotsInv'
    BY <1>17, <2>1, <2>2 DEF OnTransferEnd, workerVars, queueVars, LockInv, CurrentInv,
                 QueuedMeansFull, HasFreeSlot, SlotsInv, TypeOK
  <2>5. ListsInv'
    BY <1>17, <2>1, <2>2 DEF OnTransferEnd, workerVars, queueVars, ListsInv, TypeOK
  <2>6. QueuesInv'
    BY <1>17, <2>2 DEF OnTransferEnd, workerVars, queueVars, QueuesInv, TypeOK
  <2>7. QED
    BY <2>3, <2>4, <2>5, <2>6
<1>18. ASSUME NEW r \in Requests, ThreadReturns(r)
       PROVE  IInv'
  <2>1. TypeOK'
    BY <1>18 DEF ThreadReturns, workerVars, queueVars, TypeOK, ThreadStates
  <2>2. LockInv' /\ CurrentInv' /\ QueuedMeansFull' /\ SlotsInv'
    BY <1>18 DEF ThreadReturns, workerVars, queueVars, LockInv, CurrentInv, QueuedMeansFull,
                 HasFreeSlot, SlotsInv, TypeOK
  <2>3. ListsInv' /\ QueuesInv'
    BY <1>18 DEF ThreadReturns, workerVars, queueVars, ListsInv, QueuesInv, TypeOK
  <2>4. QED
    BY <2>1, <2>2, <2>3
<1>19. CASE UNCHANGED vars
  BY <1>19 DEF vars, TypeOK, LockInv, CurrentInv, ListsInv, QueuesInv, SlotsInv,
               QueuedMeansFull, HasFreeSlot
<1>20. QED
  BY <1>1, <1>2, <1>3, <1>4, <1>5, <1>6, <1>7, <1>8, <1>9, <1>10, <1>11, <1>12, <1>13,
     <1>14, <1>15, <1>16, <1>17, <1>18, <1>19 DEF Next, Worker, Transfer
-----------------------------------------------------------------------------
(* What follows for every behaviour.                                       *)

\* The invariant holds in every behaviour.
THEOREM Invariance == Spec => []IInv
BY InitIInv, NextIInv, PTL DEF Spec

\* TypeOK for every set of requests and every limit.
THEOREM TypeCorrect == Spec => []TypeOK
<1>1. IInv => TypeOK
  BY DEF IInv
<1>2. QED
  BY Invariance, <1>1, PTL

\* The number of FileTransfer objects, hence of threads, never exceeds
\* MAX_ACTIVE_TRANSFERS_COUNT (Service.cpp, SendFile and GetFile).
THEOREM TransfersBounded == Spec => []LiveTransfersBounded
<1>1. IInv => LiveTransfersBounded
  <2> SUFFICES ASSUME IInv PROVE LiveTransfersBounded
    OBVIOUS
  <2> USE DEF IInv
  <2> DEFINE alive == IF at = "join" THEN active \cup {current} ELSE active
  <2>1. IsFiniteSet(alive) /\ Cardinality(alive) <= MaxActive
    BY SlotTaken DEF SlotsInv
  <2>2. Alive \subseteq alive
    BY DEF Alive, ListsInv, TypeOK, ThreadStates
  <2>3. Cardinality(Alive) <= Cardinality(alive)
    BY <2>1, <2>2, FS_Subset
  <2>4. /\ Cardinality(Alive) \in Nat /\ Cardinality(alive) \in Nat
        /\ MaxActive \in Nat
    BY <2>1, <2>2, FS_Subset, FS_CardinalityType, PoolAssumption
  <2>5. QED
    BY <2>1, <2>3, <2>4 DEF LiveTransfersBounded
<1>2. QED
  BY Invariance, <1>1, PTL

\* The assertion of HandleEndedTransfers (Service.cpp:1090) never fails.
THEOREM AssertionHolds == Spec => []EndedIsActive
<1>1. IInv => EndedIsActive
  BY DEF IInv, EndedIsActive, ListsInv, QueuesInv
<1>2. QED
  BY Invariance, <1>1, PTL

\* The worker joins only threads that need nothing any more.
THEOREM JoinNeverHangs == Spec => []JoinIsBrief
<1>1. IInv => JoinIsBrief
  BY DEF IInv, JoinIsBrief, CurrentInv
<1>2. QED
  BY Invariance, <1>1, PTL

\* When a message is handled, a waiting request means that no slot is free.
THEOREM NoOvertaking == Spec => []QueuedMeansFull
<1>1. IInv => QueuedMeansFull
  BY DEF IInv
<1>2. QED
  BY Invariance, <1>1, PTL

\* HandleFiles never deletes a file while a thread performs its transfer
\* without IsFileTransfer seeing that thread.
THEOREM UseIsSeen == Spec => []PerformingIsSeen
<1>1. IInv => PerformingIsSeen
  BY DEF IInv, PerformingIsSeen, IsFileTransfer, ListsInv
<1>2. QED
  BY Invariance, <1>1, PTL


-----------------------------------------------------------------------------
(* TransferPool implements TransferContract.                               *)

\* The contract's three variables, as the mapping in TransferPool gives them.
Status == [r \in Requests |-> ContractStatus(r)]
WaitingIn == StillWaiting(inputData)
WaitingOut == StillWaiting(outputData)

-----------------------------------------------------------------------------
(* The mapping.                                                            *)

\* What the status of a request says, case by case.
LEMMA StatusCases ==
    ASSUME IInv, NEW r \in Requests
    PROVE  /\ r \notin received => ContractStatus(r) = "new"
           /\ r \in active => ContractStatus(r) = "running"
           /\ InSeq(r, inputData) \/ InSeq(r, outputData) =>
                 r \in active \/ ContractStatus(r) = "queued"
           /\ r \notin active => ContractStatus(r) # "running"
<1> USE DEF IInv
<1>1. r \in active => r \in received /\ thread[r] # "none"
  BY DEF ListsInv
<1>2. InSeq(r, inputData) \/ InSeq(r, outputData) =>
          r \in received /\ (thread[r] = "none" \/ r \in active)
  BY DEF QueuesInv, CurrentInv, Launched
<1>3. QED
  BY <1>1, <1>2 DEF ContractStatus, Forgotten

\* The contract counts what is in _activeTransfers.
LEMMA RunningIsActive ==
    ASSUME IInv
    PROVE  Contract!Running = active
<1>1. active \subseteq Requests
  BY DEF IInv, TypeOK
<1>2. ASSUME NEW r \in Requests
      PROVE  ContractStatus(r) = "running" <=> r \in active
  BY <1>2, StatusCases
<1>3. QED
  BY <1>1, <1>2 DEF Contract!Running, Contract!Requests, Requests

\* The contract's Cardinality is that of FiniteSets.
LEMMA SameCardinality == ASSUME NEW A PROVE Contract!Cardinality(A) = Cardinality(A)
BY Zenon DEF Contract!Cardinality, Cardinality

\* What the status of a request depends on.
LEMMA SameStatus ==
    ASSUME \A r \in Requests :
              /\ r \in received' <=> r \in received
              /\ r \in active' <=> r \in active
              /\ thread'[r] = "none" <=> thread[r] = "none"
              /\ InSeq(r, inputData)' \/ InSeq(r, outputData)' <=>
                    InSeq(r, inputData) \/ InSeq(r, outputData)
    PROVE  Status' = Status
<1>1. ASSUME NEW r \in Requests
      PROVE  ContractStatus(r)' = ContractStatus(r)
  BY <1>1 DEF ContractStatus, Forgotten
<1>2. QED
  BY <1>1 DEF Status, Requests

\* One request moves and the others stay.
LEMMA OneMoves ==
    ASSUME NEW r \in Requests, NEW to, ContractStatus(r)' = to,
           \A x \in Requests \ {r} :
              /\ x \in received' <=> x \in received
              /\ x \in active' <=> x \in active
              /\ thread'[x] = "none" <=> thread[x] = "none"
              /\ InSeq(x, inputData)' \/ InSeq(x, outputData)' <=>
                    InSeq(x, inputData) \/ InSeq(x, outputData)
    PROVE  Status' = [Status EXCEPT ![r] = to]
<1>1. ASSUME NEW x \in Requests \ {r}
      PROVE  ContractStatus(x)' = ContractStatus(x)
  BY <1>1 DEF ContractStatus, Forgotten
<1>2. QED
  BY <1>1 DEF Status, Requests

-----------------------------------------------------------------------------
(* Every step of the pool is a step of the contract or none.               *)

\* Nothing that the contract sees changes.
Stutter ==
    /\ Status' = Status
    /\ WaitingIn' = WaitingIn
    /\ WaitingOut' = WaitingOut

\* The steps of the threads, of the lock and of the loop.
LEMMA QuietSteps ==
    ASSUME IInv,
           \/ Stop \/ LoopCondition \/ NoneEnded \/ JoinAndDelete
           \/ EnterNewTransfers \/ LeaveNewTransfers \/ FinishDirectLaunch \/ ReceiveOther
           \/ \E r \in Requests : Transfer(r)
    PROVE  Stutter
<1> USE DEF IInv
<1>1. /\ UNCHANGED <<active, received, inputData, outputData>>
      /\ \A r \in Requests : thread'[r] = "none" <=> thread[r] = "none"
  <2>1. CASE Stop \/ LoopCondition \/ NoneEnded \/ EnterNewTransfers \/ LeaveNewTransfers
             \/ FinishDirectLaunch \/ ReceiveOther
    BY <2>1 DEF Stop, LoopCondition, NoneEnded, EnterNewTransfers, LeaveNewTransfers,
                FinishDirectLaunch, ReceiveOther, queueVars
  <2>2. CASE JoinAndDelete
    BY <2>2 DEF JoinAndDelete, queueVars, TypeOK
  <2>3. ASSUME NEW r \in Requests, Transfer(r)
        PROVE  /\ UNCHANGED <<active, received, inputData, outputData>>
               /\ \A x \in Requests : thread'[x] = "none" <=> thread[x] = "none"
    BY <2>3 DEF Transfer, PerformReturns, OnTransferEnd, ThreadReturns, workerVars, queueVars,
                TypeOK
  <2>4. QED
    BY <2>1, <2>2, <2>3
<1>2. \/ at # "launchedQueued" /\ at' # "launchedQueued"
      \/ UNCHANGED <<at, current>>
  BY DEF Stop, LoopCondition, NoneEnded, JoinAndDelete, EnterNewTransfers, LeaveNewTransfers,
         FinishDirectLaunch, ReceiveOther, Transfer, PerformReturns, OnTransferEnd,
         ThreadReturns, workerVars
<1>3. Status' = Status
  BY <1>1, SameStatus
<1>4. QED
  BY <1>1, <1>2, <1>3 DEF Stutter, WaitingIn, WaitingOut, StillWaiting

\* The queue is popped after the launch: the contract has done so already.
LEMMA FinishQueuedLaunchStep ==
    ASSUME IInv, FinishQueuedLaunch
    PROVE  Stutter
<1> USE DEF IInv
<1>1. PICK c \in Requests : c = current
  BY DEF FinishQueuedLaunch, CurrentInv, Launched, TypeOK
<1>2. /\ c \in active /\ thread[c] # "none" /\ c \in received
      /\ c \in Inputs => inputData # <<>> /\ c = Head(inputData)
      /\ c \notin Inputs => outputData # <<>> /\ c = Head(outputData)
  BY <1>1 DEF FinishQueuedLaunch, CurrentInv, Launched, TypeOK, ListsInv
<1>3. /\ inputData \in Seq(Inputs) /\ Distinct(inputData)
      /\ outputData \in Seq(Outputs) /\ Distinct(outputData)
  BY DEF TypeOK, QueuesInv
<1>4. /\ c \in Inputs => \A x : InSeq(x, outputData) => x # c
      /\ c \notin Inputs => \A x : InSeq(x, inputData) => x # c
  BY <1>3, ElementFacts, PoolAssumption
<1>5. \A x \in Requests \ {c} :
          InSeq(x, inputData)' \/ InSeq(x, outputData)' <=>
              InSeq(x, inputData) \/ InSeq(x, outputData)
  <2>1. CASE c \in Inputs
    <3>1. inputData' = Tail(inputData) /\ outputData' = outputData
      BY <1>1, <2>1 DEF FinishQueuedLaunch
    <3>2. \A x : InSeq(x, Tail(inputData)) <=> InSeq(x, inputData) /\ x # c
      BY <1>2, <1>3, <2>1, TailFacts
    <3>3. QED
      BY <3>1, <3>2
  <2>2. CASE c \notin Inputs
    <3>1. inputData' = inputData /\ outputData' = Tail(outputData)
      BY <1>1, <2>2 DEF FinishQueuedLaunch
    <3>2. \A x : InSeq(x, Tail(outputData)) <=> InSeq(x, outputData) /\ x # c
      BY <1>2, <1>3, <2>2, TailFacts
    <3>3. QED
      BY <3>1, <3>2
  <2>3. QED
    BY <2>1, <2>2
<1>6. UNCHANGED <<received, active, thread>>
  BY DEF FinishQueuedLaunch
<1>7. ContractStatus(c) = "running" /\ ContractStatus(c)' = "running"
  BY <1>2, <1>6 DEF ContractStatus, Forgotten
<1>8. Status' = Status
  <2>1. Status' = [Status EXCEPT ![c] = "running"]
    BY <1>5, <1>6, <1>7, OneMoves
  <2>2. QED
    BY <1>7, <2>1 DEF Status
<1>9. WaitingIn' = WaitingIn /\ WaitingOut' = WaitingOut
  <2>1. /\ c \in Inputs => ~(outputData # <<>> /\ c = Head(outputData))
        /\ c \notin Inputs => ~(inputData # <<>> /\ c = Head(inputData))
    BY <1>3, <1>4, TailFacts
  <2>2. QED
    BY <1>1, <1>2, <2>1 DEF FinishQueuedLaunch, WaitingIn, WaitingOut, StillWaiting
<1>10. QED
  BY <1>8, <1>9 DEF Stutter

\* Reaping a transfer is the moment its slot is free again.
LEMMA TakeEndedStep ==
    ASSUME IInv, TakeEnded
    PROVE  \E r \in Requests : Contract!Finish(r)
<1> USE DEF IInv
<1>1. PICK r \in Requests : r = Head(ended)
  BY TailFacts DEF TakeEnded, TypeOK, QueuesInv
<1>2. r \in active /\ thread[r] # "none" /\ r \in received
  BY <1>1, TailFacts DEF TakeEnded, TypeOK, QueuesInv, ListsInv
<1>3. /\ active' = active \ {r}
      /\ UNCHANGED <<received, thread, inputData, outputData>>
      /\ at # "launchedQueued" /\ at' # "launchedQueued"
  BY <1>1 DEF TakeEnded, queueVars
<1>4. ContractStatus(r) = "running" /\ ContractStatus(r)' = "done"
  BY <1>2, <1>3 DEF ContractStatus, Forgotten
<1>5. Status' = [Status EXCEPT ![r] = "done"]
  BY <1>3, <1>4, OneMoves
<1>6. WaitingIn' = WaitingIn /\ WaitingOut' = WaitingOut
  BY <1>3 DEF WaitingIn, WaitingOut, StillWaiting
<1>7. Contract!Finish(r)
  BY <1>4, <1>5, <1>6 DEF Contract!Finish, Contract!Move, Status, WaitingIn, WaitingOut
<1>8. QED
  BY <1>7 DEF Contract!Requests, Requests

\* What every launch does to the status of the request.
LEMMA LaunchMoves ==
    ASSUME IInv, NEW r \in Requests, NEW next, Launch(r, next), thread[r] = "none",
           r \in received', \A x \in Requests \ {r} : x \in received' <=> x \in received,
           UNCHANGED <<inputData, outputData>>
    PROVE  Status' = [Status EXCEPT ![r] = "running"]
<1>1. /\ active' = active \cup {r}
      /\ thread' = [thread EXCEPT ![r] = "performing"]
      /\ thread \in [Requests -> ThreadStates]
  BY DEF Launch, IInv, TypeOK
<1>2. ContractStatus(r)' = "running"
  BY <1>1 DEF ContractStatus, Forgotten
<1>3. QED
  BY <1>1, <1>2, OneMoves

\* The oldest queued download starts.
LEMMA LaunchQueuedInputStep ==
    ASSUME IInv, LaunchQueuedInput
    PROVE  \E r \in Requests : Contract!StartQueued(r)
<1> USE DEF IInv
<1>1. PICK r \in Requests : r = Head(inputData)
  BY TailFacts DEF LaunchQueuedInput, TypeOK, QueuesInv, Requests
<1>2. /\ r \in Inputs /\ r \in received /\ thread[r] = "none" /\ r \notin active
      /\ InSeq(r, inputData)
  BY <1>1, TailFacts DEF LaunchQueuedInput, TypeOK, QueuesInv, ListsInv
<1>3. /\ UNCHANGED <<received, inputData, outputData>>
      /\ Launch(r, "launchedQueued")
      /\ current' = r /\ at = "drain" /\ at' = "launchedQueued" /\ inputData # <<>>
  BY <1>1 DEF LaunchQueuedInput, Launch, queueVars
<1>4. Status[r] = "queued"
  BY <1>2, StatusCases DEF Status
<1>5. Status' = [Status EXCEPT ![r] = "running"]
  BY <1>2, <1>3, LaunchMoves
<1>6. ~(outputData # <<>> /\ r = Head(outputData))
  BY <1>2, TailFacts, PoolAssumption DEF TypeOK, QueuesInv
<1>7. /\ WaitingIn = inputData /\ WaitingIn' = Tail(inputData)
      /\ WaitingOut' = WaitingOut
  BY <1>1, <1>3, <1>6 DEF WaitingIn, WaitingOut, StillWaiting
<1>8. Contract!Cardinality(Contract!Running) < MaxActive
  BY RunningIsActive, SameCardinality DEF LaunchQueuedInput, HasFreeSlot
<1>9. Contract!StartQueued(r)
  BY <1>1, <1>3, <1>4, <1>5, <1>7, <1>8
     DEF Contract!StartQueued, Contract!Move, Status, WaitingIn, WaitingOut
<1>10. QED
  BY <1>9

\* The oldest queued upload starts, and no download waits.
LEMMA LaunchQueuedOutputStep ==
    ASSUME IInv, LaunchQueuedOutput
    PROVE  \E r \in Requests : Contract!StartQueued(r)
<1> USE DEF IInv
<1>1. PICK r \in Requests : r = Head(outputData)
  BY TailFacts DEF LaunchQueuedOutput, TypeOK, QueuesInv, Requests
<1>2. /\ r \in received /\ thread[r] = "none" /\ r \notin active
      /\ InSeq(r, outputData)
  BY <1>1, TailFacts DEF LaunchQueuedOutput, TypeOK, QueuesInv, ListsInv
<1>3. /\ UNCHANGED <<received, inputData, outputData>>
      /\ Launch(r, "launchedQueued")
      /\ current' = r /\ at = "drain" /\ at' = "launchedQueued"
      /\ inputData = <<>> /\ outputData # <<>>
  BY <1>1 DEF LaunchQueuedOutput, Launch, queueVars
<1>4. Status[r] = "queued"
  BY <1>2, StatusCases DEF Status
<1>5. Status' = [Status EXCEPT ![r] = "running"]
  BY <1>2, <1>3, LaunchMoves
<1>6. /\ WaitingOut = outputData /\ WaitingOut' = Tail(outputData)
      /\ WaitingIn = <<>> /\ WaitingIn' = <<>>
  BY <1>1, <1>3 DEF WaitingIn, WaitingOut, StillWaiting
<1>7. Contract!Cardinality(Contract!Running) < MaxActive
  BY RunningIsActive, SameCardinality DEF LaunchQueuedOutput, HasFreeSlot
<1>8. Contract!StartQueued(r)
  BY <1>1, <1>3, <1>4, <1>5, <1>6, <1>7
     DEF Contract!StartQueued, Contract!Move, Status, WaitingIn, WaitingOut
<1>9. QED
  BY <1>8

\* A request that starts at once: QueuedMeansFull says that nobody waits.
LEMMA ReceiveAndLaunchStep ==
    ASSUME IInv, NEW r \in Requests, ReceiveAndLaunch(r)
    PROVE  Contract!StartNow(r)
<1> USE DEF IInv
<1>1. /\ r \notin received /\ thread[r] = "none"
      /\ inputData = <<>> /\ outputData = <<>>
  BY DEF ReceiveAndLaunch, ListsInv, TypeOK, QueuedMeansFull
<1>2. /\ received' = received \cup {r}
      /\ UNCHANGED <<inputData, outputData>>
      /\ Launch(r, "launchedDirect")
      /\ at = "receive" /\ at' = "launchedDirect"
  BY DEF ReceiveAndLaunch, Launch, queueVars
<1>3. Status[r] = "new"
  BY <1>1, StatusCases DEF Status
<1>4. Status' = [Status EXCEPT ![r] = "running"]
  <2>1. r \in received' /\ \A x \in Requests \ {r} : x \in received' <=> x \in received
    BY <1>2
  <2>2. QED
    BY <1>1, <1>2, <2>1, LaunchMoves
<1>5. WaitingIn = <<>> /\ WaitingOut = <<>> /\ WaitingIn' = <<>> /\ WaitingOut' = <<>>
  BY <1>1, <1>2 DEF WaitingIn, WaitingOut, StillWaiting
<1>6. Contract!Cardinality(Contract!Running) < MaxActive
  BY RunningIsActive, SameCardinality DEF ReceiveAndLaunch, HasFreeSlot
<1>7. QED
  BY <1>3, <1>4, <1>5, <1>6
     DEF Contract!StartNow, Contract!Move, Status, WaitingIn, WaitingOut

\* A request is put off only while every slot is taken.
LEMMA ReceiveAndQueueStep ==
    ASSUME IInv, NEW r \in Requests, ReceiveAndQueue(r)
    PROVE  Contract!PutOff(r)
<1> USE DEF IInv
<1>1. /\ r \notin received /\ thread[r] = "none" /\ r \notin active
      /\ inputData \in Seq(Inputs) /\ outputData \in Seq(Outputs)
  BY DEF ReceiveAndQueue, ListsInv, TypeOK
<1>2. /\ received' = received \cup {r}
      /\ UNCHANGED <<active, thread>>
      /\ at = "receive" /\ at' = "loop"
      /\ r \in Inputs => inputData' = Append(inputData, r) /\ outputData' = outputData
      /\ r \notin Inputs => outputData' = Append(outputData, r) /\ inputData' = inputData
  BY DEF ReceiveAndQueue
<1>3. \A x \in Requests :
          InSeq(x, inputData)' \/ InSeq(x, outputData)' <=>
              InSeq(x, inputData) \/ InSeq(x, outputData) \/ x = r
  <2>1. CASE r \in Inputs
    <3>1. \A x : InSeq(x, Append(inputData, r)) <=> InSeq(x, inputData) \/ x = r
      BY <1>1, <2>1, AppendFacts
    <3>2. QED
      BY <1>2, <2>1, <3>1
  <2>2. CASE r \notin Inputs
    <3>1. r \in Outputs
      BY <2>2 DEF Requests
    <3>2. \A x : InSeq(x, Append(outputData, r)) <=> InSeq(x, outputData) \/ x = r
      BY <1>1, <3>1, AppendFacts
    <3>3. QED
      BY <1>2, <2>2, <3>2
  <2>3. QED
    BY <2>1, <2>2
<1>4. Status[r] = "new"
  BY <1>1, StatusCases DEF Status
<1>5. Status' = [Status EXCEPT ![r] = "queued"]
  <2>1. ContractStatus(r)' = "queued"
    BY <1>1, <1>2, <1>3 DEF ContractStatus, Forgotten
  <2>2. \A x \in Requests \ {r} : x \in received' <=> x \in received
    BY <1>2
  <2>3. QED
    BY <1>2, <1>3, <2>1, <2>2, OneMoves
<1>6. /\ WaitingIn = inputData /\ WaitingIn' = inputData'
      /\ WaitingOut = outputData /\ WaitingOut' = outputData'
  BY <1>2 DEF WaitingIn, WaitingOut, StillWaiting
<1>7. Contract!Cardinality(Contract!Running) >= MaxActive
  <2>1. ~(Cardinality(active) < MaxActive) /\ Cardinality(active) \in Nat
    BY FS_CardinalityType DEF ReceiveAndQueue, HasFreeSlot, SlotsInv
  <2>2. Contract!Cardinality(Contract!Running) = Cardinality(active)
    BY RunningIsActive, SameCardinality
  <2>3. QED
    BY <2>1, <2>2, PoolAssumption
<1>8. QED
  BY <1>2, <1>4, <1>5, <1>6, <1>7
     DEF Contract!PutOff, Contract!Move, Status, WaitingIn, WaitingOut, Requests

\* A restart forgets what is queued and nothing else.
LEMMA StartStep ==
    ASSUME IInv, Start
    PROVE  Contract!Forget
<1> USE DEF IInv
<1>1. /\ at = "stopped" /\ at' = "loop"
      /\ inputData' = <<>> /\ outputData' = <<>>
      /\ UNCHANGED <<active, thread, received>>
  BY DEF Start
<1>2. ASSUME NEW r \in Requests
      PROVE  ContractStatus(r)' =
                 IF ContractStatus(r) = "queued" THEN "forgotten" ELSE ContractStatus(r)
  <2>1. /\ ~InSeq(r, inputData') /\ ~InSeq(r, outputData')
        /\ r \in active => thread[r] # "none"
    BY <1>1, EmptyFacts DEF ListsInv
  <2>2. QED
    BY <1>1, <2>1 DEF ContractStatus, Forgotten
<1>3. WaitingIn' = <<>> /\ WaitingOut' = <<>>
  BY <1>1 DEF WaitingIn, WaitingOut, StillWaiting
<1>4. Status' = [r \in Requests |->
                   IF Status[r] = "queued" THEN "forgotten" ELSE Status[r]]
  BY <1>2 DEF Status, Requests
<1>5. QED
  BY <1>3, <1>4
     DEF Contract!Forget, Contract!Requests, Requests, Status, WaitingIn, WaitingOut

-----------------------------------------------------------------------------
\* A service that was never started has only requests that never came.
LEMMA InitImplements == Init => Contract!Init
<1> SUFFICES ASSUME Init PROVE Contract!Init
  OBVIOUS
<1>1. \A r \in Requests : ContractStatus(r) = "new"
  BY DEF Init, ContractStatus
<1>2. StillWaiting(inputData) = <<>> /\ StillWaiting(outputData) = <<>>
  BY DEF Init, StillWaiting
<1>3. QED
  BY <1>1, <1>2 DEF Contract!Init, Contract!Requests, Requests

\* Each action of the pool is one action of the contract, or a stutter.
LEMMA NextImplements == IInv /\ [Next]_vars => [Contract!Next]_(Contract!contractVars)
<1> SUFFICES ASSUME IInv, [Next]_vars
             PROVE  Contract!Next \/ UNCHANGED Contract!contractVars
  OBVIOUS
<1>1. ASSUME Stutter PROVE UNCHANGED Contract!contractVars
  BY <1>1 DEF Stutter, Status, WaitingIn, WaitingOut, Contract!contractVars
<1>2. CASE Start
  BY <1>2, StartStep DEF Contract!Next
<1>3. CASE Stop \/ LoopCondition \/ NoneEnded \/ JoinAndDelete \/ EnterNewTransfers
           \/ LeaveNewTransfers \/ FinishDirectLaunch \/ ReceiveOther
           \/ \E r \in Requests : Transfer(r)
  BY <1>1, <1>3, QuietSteps
<1>4. CASE FinishQueuedLaunch
  BY <1>1, <1>4, FinishQueuedLaunchStep
<1>5. CASE TakeEnded
  BY <1>5, TakeEndedStep DEF Contract!Next, Contract!Requests, Requests
<1>6. CASE LaunchQueuedInput \/ LaunchQueuedOutput
  BY <1>6, LaunchQueuedInputStep, LaunchQueuedOutputStep
     DEF Contract!Next, Contract!Requests, Requests
<1>7. CASE \E r \in Requests : ReceiveAndLaunch(r) \/ ReceiveAndQueue(r)
  BY <1>7, ReceiveAndLaunchStep, ReceiveAndQueueStep
     DEF Contract!Next, Contract!Requests, Requests
<1>8. CASE UNCHANGED vars
  <2>1. UNCHANGED <<at, current, active, thread, received, inputData, outputData>>
    BY <1>8 DEF vars
  <2>2. Status' = Status
    BY <2>1, SameStatus
  <2>3. Stutter
    BY <2>1, <2>2 DEF Stutter, WaitingIn, WaitingOut, StillWaiting
  <2>4. QED
    BY <1>1, <2>3
<1>9. QED
  BY <1>2, <1>3, <1>4, <1>5, <1>6, <1>7, <1>8 DEF Next, Worker

\* The locked and threaded pool of Service implements the queueing contract:
\* no request is lost, run twice, overtaken, or started past the limit.
THEOREM PoolImplementsContract == Spec => ImplementsContract
<1>1. Spec => Contract!Init /\ [][Contract!Next]_(Contract!contractVars)
  BY InitImplements, NextImplements, Invariance, PTL DEF Spec
<1>2. QED
  BY <1>1 DEF ImplementsContract, Contract!Spec
=============================================================================
