-------------------------- MODULE TransferContract --------------------------
(***************************************************************************)
(* What a Service promises the message handlers that call GetFile(data)    *)
(* and SendFile(data): at most MaxActive transfers run at a time; a        *)
(* request that cannot start at once waits in the queue of its direction;  *)
(* queued downloads start before queued uploads, each queue in the order   *)
(* the requests came; nobody overtakes a queued request; each request runs *)
(* at most once.  A restart of the service forgets the queued requests and *)
(* nothing else.  There are no threads, locks or flags at this level:      *)
(* TransferPool has those and implements this module.                      *)
(***************************************************************************)
EXTENDS Naturals, Sequences, FiniteSets

CONSTANTS Inputs,     \* download requests (InputTransferData)
          Outputs,    \* upload requests (OutputTransferData)
          MaxActive   \* MAX_ACTIVE_TRANSFERS_COUNT

VARIABLES status,   \* status[r]: where request r is in its life
          inq,      \* downloads accepted and waiting
          outq      \* uploads accepted and waiting

contractVars == <<status, inq, outq>>

Requests == Inputs \cup Outputs

Running == {r \in Requests : status[r] = "running"}

Init ==
    /\ status = [r \in Requests |-> "new"]
    /\ inq = <<>>
    /\ outq = <<>>

Move(r, from, to) ==
    /\ status[r] = from
    /\ status' = [status EXCEPT ![r] = to]

\* A request starts at once: only into a free slot, and past no queued one.
StartNow(r) ==
    /\ Cardinality(Running) < MaxActive
    /\ inq = <<>> /\ outq = <<>>
    /\ Move(r, "new", "running")
    /\ UNCHANGED <<inq, outq>>

\* A request is put off because every slot is taken.
PutOff(r) ==
    /\ Cardinality(Running) >= MaxActive
    /\ Move(r, "new", "queued")
    /\ \/ /\ r \in Inputs
          /\ inq' = Append(inq, r)
          /\ UNCHANGED outq
       \/ /\ r \in Outputs
          /\ outq' = Append(outq, r)
          /\ UNCHANGED inq

\* The longest waiting download starts; an upload only when none waits.
StartQueued(r) ==
    /\ Cardinality(Running) < MaxActive
    /\ Move(r, "queued", "running")
    /\ \/ /\ inq # <<>> /\ r = Head(inq)
          /\ inq' = Tail(inq)
          /\ UNCHANGED outq
       \/ /\ inq = <<>>
          /\ outq # <<>> /\ r = Head(outq)
          /\ outq' = Tail(outq)
          /\ UNCHANGED inq

Finish(r) ==
    /\ Move(r, "running", "done")
    /\ UNCHANGED <<inq, outq>>

\* A restart: what was queued is forgotten, what runs keeps running.
Forget ==
    /\ status' = [r \in Requests |->
                    IF status[r] = "queued" THEN "forgotten" ELSE status[r]]
    /\ inq' = <<>>
    /\ outq' = <<>>

Next ==
    \/ \E r \in Requests : StartNow(r) \/ PutOff(r) \/ StartQueued(r) \/ Finish(r)
    \/ Forget

Spec == Init /\ [][Next]_contractVars
=============================================================================
