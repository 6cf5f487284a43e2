---------------------------- MODULE Distribution ----------------------------
(***************************************************************************)
(* Where the files of the network are kept.  Every host computes from its  *)
(* node list which node is the home of a file (File2NodeHash), asks that   *)
(* node to fetch what it should have (HandleFilesLocality), and deletes    *)
(* its own copy when its time to live is over (HandleFiles), without ever  *)
(* hearing whether the home has got it.                                    *)
(*                                                                         *)
(* Composed with Membership: Start, Stop, the node lists, the network and  *)
(* the handlers of NetworkChangeMsg are that module's; the hosts are those *)
(* of one port, so nobody needs a Ping.  A file is one element of Files,   *)
(* its name, content and hash in one (no two files share a name).  A time  *)
(* to live is counted in halves of a second.  Every transfer finds a free  *)
(* slot (TransferPool has the limit) and is part of IsFileTransfer until   *)
(* its thread is reaped, here the moment it ends.                          *)
(* No user asks for a download, so AddLocalFile always stores what came.   *)
(***************************************************************************)
EXTENDS Membership, Queues

CONSTANTS
    Files,
    Removable,     \* the files a user may ask to remove
    NoFile,        \* no name to remove
    Fragile,       \* the files whose data may fail to be written: the disk is full,
                   \* or the name is that of a file in a directory
    Place,         \* Place[f]: the hash of the hash, File2NodeHash before "%"
    TTL,           \* seconds a copy is given: File::TTL and HandleFilesLocality
    MaxGap,        \* bound: seconds from one HandleFiles to the next
    Prompt,        \* whether every transfer is over before a second passes
    MaxAdds,       \* bound: calls of AddFile, all hosts together
    MaxStops,      \* bound: calls of Stop, all hosts together
    MaxTransfers   \* bound: transfers requested, all hosts together

ASSUME FilesAssumption ==
    /\ NoFile \notin Files /\ Removable \subseteq Files /\ Fragile \subseteq Files
    /\ Place \in [Files -> Nat]
    /\ TTL \in Nat \ {0} /\ MaxGap \in Nat \ {0} /\ Prompt \in BOOLEAN
    /\ MaxAdds \in Nat /\ MaxStops \in Nat /\ MaxTransfers \in Nat

VARIABLES
    files,      \* files[p]: _files, a sequence of File
    disk,       \* disk[p]: the files whose data is at the path of p's entry for them
    stage,      \* stage[p]: how far the turn of p's worker is, see Stages
    update,     \* update[p]: _updateLocalFiles
    toRemove,   \* toRemove[p]: _removeFilename while _shouldRemoveFile
    inputs,     \* inputs[p]: p's InputFileTransfers
    outputs,    \* outputs[p]: p's OutputFileTransfers
    transfers,  \* transfers requested so far; the last one is the newest TcpPort
    added,      \* files users have added
    adds,       \* how often users have added one
    removed,    \* files users have asked to remove
    stops,      \* how often Stop was called
    left,       \* files a Service had, or was receiving, when it stopped
    unwritten,  \* <<p, f>>: p has listed f although its data was not written
    twice       \* <<p, f>>: p has listed f while it had f in its list

history == <<added, adds, removed, stops, left, unwritten, twice>>
fileVars == <<files, disk, stage, update, toRemove, inputs, outputs, transfers, history>>
memberVars == vars
distVars == <<memberVars, fileVars>>

\* In the order of the calls in the loop of Service::run: HandleFilesLocality,
\* HandleFiles, and the Select with what is received.
Stages == {"locality", "files", "receive"}

Second == 2

MarkedTTL == 1   \* 0.5f

FullTTL == Second * TTL

File(f) == [file |-> f, local |-> TRUE, marked |-> FALSE, ttl |-> FullTTL]

Has(p, f) == \E i \in DOMAIN files[p] : files[p][i].file = f

Home(p, f) == nodes[p][(Place[f] % Len(nodes[p])) + 1]

IsFileTransfer(p, f) == \E t \in inputs[p] \cup outputs[p] : t.file = f

DistInit ==
    /\ Init
    /\ files = [p \in Hosts |-> <<>>]
    /\ disk = [p \in Hosts |-> {}]
    /\ stage = [p \in Hosts |-> "locality"]
    /\ update = [p \in Hosts |-> FALSE]
    /\ toRemove = [p \in Hosts |-> NoFile]
    /\ inputs = [p \in Hosts |-> {}]
    /\ outputs = [p \in Hosts |-> {}]
    /\ transfers = 0
    /\ added = {} /\ adds = 0
    /\ removed = {}
    /\ stops = 0 /\ left = {}
    /\ unwritten = {} /\ twice = {}

\* MarkedToRemove is set on the first entry with the name.
Marked(list, f) ==
    LET found == {i \in DOMAIN list : list[i].file = f}
    IN  IF found = {} THEN list
        ELSE [list EXCEPT ![Min(found)].marked = TRUE, ![Min(found)].ttl = MarkedTTL]

\* StoreLocalFileData, which does not look at its stream, and the new entry, for
\* which nobody looks at the list.  A write that fails may have truncated what was
\* there.  Without a service the path is "/name", where the data can be written or
\* cannot.
StoreAndList(p, f) ==
    /\ \/ /\ disk' = [disk EXCEPT ![p] = @ \cup {f}]
          /\ UNCHANGED unwritten
       \/ /\ f \in Fragile \/ ~Open(p)
          /\ \E rest \in {disk[p], disk[p] \ {f}} : disk' = [disk EXCEPT ![p] = rest]
          /\ unwritten' = unwritten \cup {<<p, f>>}
    /\ files' = [files EXCEPT ![p] = Append(@, File(f))]
    /\ twice' = IF Has(p, f) THEN twice \cup {<<p, f>>} ELSE twice

-----------------------------------------------------------------------------
(* The main thread.                                                        *)

\* AddFile: stored, listed, and up for redistribution.  Nobody adds a file again
\* after its removal.
AddFile(p, f) ==
    /\ Open(p) /\ ~exit[p]
    /\ adds < MaxAdds /\ f \notin removed
    /\ adds' = adds + 1
    /\ added' = added \cup {f}
    /\ StoreAndList(p, f)
    /\ update' = [update EXCEPT ![p] = TRUE]
    /\ UNCHANGED <<memberVars, stage, toRemove, inputs, outputs, transfers>>
    /\ UNCHANGED <<removed, stops, left>>

\* RemoveFile: a mailbox for the worker.  One removal per file is enough.
RemoveFile(p, f) ==
    /\ Open(p) /\ ~exit[p]
    /\ f \in (added \cap Removable) \ removed
    /\ toRemove[p] = NoFile
    /\ toRemove' = [toRemove EXCEPT ![p] = f]
    /\ removed' = removed \cup {f}
    /\ UNCHANGED <<memberVars, files, disk, stage, update, inputs, outputs, transfers>>
    /\ UNCHANGED <<added, adds, stops, left, unwritten, twice>>

\* The call of Stop; the worker stops later, in StopFiles.
StopService(p) ==
    /\ stops < MaxStops
    /\ stops' = stops + 1
    /\ Stop(p)
    /\ UNCHANGED <<files, disk, stage, update, toRemove, inputs, outputs, transfers>>
    /\ UNCHANGED <<added, adds, removed, left, unwritten, twice>>

-----------------------------------------------------------------------------
(* The worker's housekeeping, at the beginning of a turn.                  *)

\* Faulty variant: a copy that is to go is not given any time.
PlacedKeepsTTL(p) ==
    [i \in DOMAIN files[p] |->
        [files[p][i] EXCEPT !.local = (Home(p, files[p][i].file) = p)]]

\* What HandleFilesLocality makes of the list, and what it sends to q.
Placed(p) ==
    [i \in DOMAIN files[p] |->
        LET e == files[p][i] IN
        IF Home(p, e.file) = p THEN [e EXCEPT !.local = TRUE]
        ELSE [e EXCEPT !.local = FALSE, !.ttl = FullTTL]]

Requests(p) ==
    [i \in DOMAIN files[p] |-> [type |-> "request", file |-> files[p][i].file]]

\* Faulty variant: only what was local until now is announced.
RequestsForOnce(p, q) ==
    LET away == {i \in DOMAIN files[p] : files[p][i].local /\ Home(p, files[p][i].file) = q}
    IN  Picked(Requests(p), IF p = q THEN {} ELSE away)

RequestsFor(p, q) ==
    LET away == {i \in DOMAIN files[p] : Home(p, files[p][i].file) = q}
    IN  Picked(Requests(p), IF p = q THEN {} ELSE away)

\* HandleFilesLocality, when the flag is set: it does not ask whether the home
\* has the file already.
HandleFilesLocality(p) ==
    /\ phase[p] = "turn" /\ stage[p] = "locality"
    /\ stage' = [stage EXCEPT ![p] = "files"]
    /\ update' = [update EXCEPT ![p] = FALSE]
    /\ IF update[p]
       THEN /\ files' = [files EXCEPT ![p] = Placed(p)]
            /\ net' = [net EXCEPT ![p] = [q \in Hosts |->
                          IF Open(q) THEN net[p][q] \o RequestsFor(p, q) ELSE net[p][q]]]
       ELSE UNCHANGED <<files, net>>
    /\ UNCHANGED <<phase, exit, nodes, toPing, counters>>
    /\ UNCHANGED <<disk, toRemove, inputs, outputs, transfers, history>>

\* Every datagram is handled and every file placed.
Handled ==
    /\ \A p \in Hosts : Open(p) => phase[p] = "turn" /\ ~exit[p] /\ ~update[p]
    /\ \A p, q \in Hosts : net[p][q] = <<>>

\* And every transfer is over; only those that wait in Accept for a peer that
\* will not connect may be left.
Calm ==
    /\ Handled
    /\ \A p \in Hosts : outputs[p] = {} /\ \A t \in inputs[p] : t.stage = "wait"

\* Timing: datagrams and turns take milliseconds, a transfer that has to wait
\* for a slot takes as long as the transfers before it.
SecondsPass == Handled /\ (Prompt => Calm)

\* Faulty variant: what is old goes on ageing.
AgedWithoutEnd(list, diff) ==
    [i \in DOMAIN list |-> [list[i] EXCEPT !.ttl = @ - Second * diff]]

\* HandleFiles, "diff" seconds after the last time: ageing, the removal the
\* user asked for, and the deletion of what is old and not needed here.
Aged(list, diff) ==
    [i \in DOMAIN list |-> [list[i] EXCEPT !.ttl = IF @ > 0 THEN @ - Second * diff ELSE @]]

\* Faulty variant: also local files grow old.
ExpiredLocal(p, e) == e.ttl <= 0 /\ ~IsFileTransfer(p, e.file)

Expired(p, e) ==
    /\ e.ttl <= 0
    /\ ~e.local \/ e.marked
    /\ ~IsFileTransfer(p, e.file)

HandleFiles(p, diff) ==
    /\ phase[p] = "turn" /\ stage[p] = "files"
    /\ stage' = [stage EXCEPT ![p] = "receive"]
    /\ diff > 0 => SecondsPass
    /\ LET aged == Aged(files[p], diff)
           asked == IF toRemove[p] = NoFile THEN aged ELSE Marked(aged, toRemove[p])
           gone == {i \in DOMAIN asked : Expired(p, asked[i])}
       IN  /\ files' = [files EXCEPT ![p] = Picked(asked, DOMAIN asked \ gone)]
           /\ disk' = [disk EXCEPT ![p] = @ \ {asked[i].file : i \in gone}]
    /\ net' = IF toRemove[p] = NoFile THEN net
              ELSE Sent(net, p, SamePort(p) \cup ToSet(nodes[p]),
                        [type |-> "remove", file |-> toRemove[p]])
    /\ toRemove' = [toRemove EXCEPT ![p] = NoFile]
    /\ UNCHANGED <<phase, exit, nodes, toPing, counters>>
    /\ UNCHANGED <<update, inputs, outputs, transfers, history>>

-----------------------------------------------------------------------------
(* The worker's message handlers.                                          *)

\* The worker receives, and its next turn begins.
Received(p) ==
    /\ stage[p] = "receive"
    /\ stage' = [stage EXCEPT ![p] = "locality"]

\* Faulty variant: only a node that leaves has the files redistributed.
ReceiveNodeLeaveOnly(p, q) ==
    /\ Received(p)
    /\ ReceiveNew(p, q) \/ ReceiveLeave(p, q)
    /\ update' = [update EXCEPT ![p] = @ \/ Len(nodes'[p]) < Len(nodes[p])]
    /\ UNCHANGED <<files, disk, toRemove, inputs, outputs, transfers, history>>

\* MSG_TYPE_NETOWRK_CHANGE: a node list that changes has the files redistributed.
ReceiveNode(p, q) ==
    /\ Received(p)
    /\ ReceiveNew(p, q) \/ ReceiveLeave(p, q)
    /\ update' = [update EXCEPT ![p] = @ \/ nodes'[p] # nodes[p]]
    /\ UNCHANGED <<files, disk, toRemove, inputs, outputs, transfers, history>>

\* Select times out.
ReceiveNothing(p) ==
    /\ phase[p] = "turn"
    /\ Received(p)
    /\ EndTurn(p)
    /\ UNCHANGED <<exit, nodes, net, toPing, counters>>
    /\ UNCHANGED <<files, disk, update, toRemove, inputs, outputs, transfers, history>>

\* The end of Stop: the farewell, and the list and the directory are deleted.
\* The transfer threads go on, and no flag is cleared.
StopFiles(p) ==
    /\ Leave(p)
    /\ files' = [files EXCEPT ![p] = <<>>]
    /\ disk' = [disk EXCEPT ![p] = {}]
    /\ left' = left \cup disk[p] \cup {t.file : t \in inputs[p]}
    /\ UNCHANGED <<stage, update, toRemove, inputs, outputs, transfers>>
    /\ UNCHANGED <<added, adds, removed, stops, unwritten, twice>>

\* A datagram about files.
FileMsg(p, q, type) ==
    /\ Received(p)
    /\ Incoming(p, q, type)
    /\ net' = Taken(net, q, p)
    /\ EndTurn(p)
    /\ UNCHANGED <<exit, nodes, toPing, counters, update>>

\* MSG_TYPE_TRANSFER_REQUEST: of a known sender, for a file that is not listed.
ReceiveRequest(p, q) ==
    /\ FileMsg(p, q, "request")
    /\ LET f == Head(net[q][p]).file IN
       IF Knows(p, q) /\ ~Has(p, f)
       THEN /\ transfers < MaxTransfers
            /\ transfers' = transfers + 1
            /\ inputs' = [inputs EXCEPT ![p] = @ \cup
                   {[file |-> f, peer |-> q, port |-> transfers + 1, stage |-> "start"]}]
       ELSE UNCHANGED <<transfers, inputs>>
    /\ UNCHANGED <<files, disk, toRemove, outputs, history>>

\* MSG_TYPE_TRANSFER_INIT: of a known sender.
ReceiveInit(p, q) ==
    /\ FileMsg(p, q, "init")
    /\ LET m == Head(net[q][p]) IN
       outputs' = [outputs EXCEPT ![p] =
           IF Knows(p, q) THEN @ \cup {[file |-> m.file, peer |-> q, port |-> m.port]} ELSE @]
    /\ UNCHANGED <<files, disk, toRemove, inputs, transfers, history>>

\* MSG_TYPE_REMOVE_FILE: of anybody.
ReceiveRemove(p, q) ==
    /\ FileMsg(p, q, "remove")
    /\ files' = [files EXCEPT ![p] = Marked(@, Head(net[q][p]).file)]
    /\ UNCHANGED <<disk, toRemove, inputs, outputs, transfers, history>>

-----------------------------------------------------------------------------
(* The transfer threads.                                                   *)

\* InputFileTransfer::Perform, first half: tell the peer where to connect
\* and listen there, which Exchange takes apart.  After a Stop the datagram names
\* port 0, a sender nobody knows.
InputInit(p, t) ==
    /\ t \in inputs[p] /\ t.stage = "start"
    /\ inputs' = [inputs EXCEPT ![p] = (@ \ {t}) \cup {[t EXCEPT !.stage = "wait"]}]
    /\ net' = IF Open(p)
              THEN Sent(net, p, {t.peer}, [type |-> "init", file |-> t.file, port |-> t.port])
              ELSE net
    /\ UNCHANGED <<phase, exit, nodes, toPing, counters>>
    /\ UNCHANGED <<files, disk, stage, update, toRemove, outputs, transfers, history>>

\* The input transfer an output transfer connects to.
Partner(p, o) == {t \in inputs[o.peer] : t.port = o.port /\ t.stage = "wait"}

\* Faulty variant: what is sent is given away.
OutputGivesAway(p, o) ==
    /\ o \in outputs[p]
    /\ outputs' = [outputs EXCEPT ![p] = @ \ {o}]
    /\ inputs' = [inputs EXCEPT ![o.peer] =
           (@ \ Partner(p, o)) \cup
           IF Has(p, o.file) /\ o.file \in disk[p]
           THEN {[t EXCEPT !.stage = "data"] : t \in Partner(p, o)}
           ELSE {}]
    /\ disk' = [disk EXCEPT ![p] = @ \ {o.file}]
    /\ UNCHANGED <<memberVars, files, stage, update, toRemove, transfers, history>>

\* OutputFileTransfer::Perform: the file is looked up and read after the
\* connection is made; if it is not there any more, both sides fail.
OutputPerform(p, o) ==
    /\ o \in outputs[p]
    /\ outputs' = [outputs EXCEPT ![p] = @ \ {o}]
    /\ inputs' = [inputs EXCEPT ![o.peer] =
           (@ \ Partner(p, o)) \cup
           IF Has(p, o.file) /\ o.file \in disk[p]
           THEN {[t EXCEPT !.stage = "data"] : t \in Partner(p, o)}
           ELSE {}]
    /\ UNCHANGED <<memberVars, files, disk, stage, update, toRemove, transfers, history>>

\* InputFileTransfer::Perform, second half: AddLocalFile.  The new entry is
\* local whatever the node list says, and nobody checks again.
InputStore(p, t) ==
    /\ t \in inputs[p] /\ t.stage = "data"
    /\ inputs' = [inputs EXCEPT ![p] = @ \ {t}]
    /\ StoreAndList(p, t.file)
    /\ UNCHANGED <<memberVars, stage, update, toRemove, outputs, transfers>>
    /\ UNCHANGED <<added, adds, removed, stops, left>>

-----------------------------------------------------------------------------
Users ==
    \/ \E p \in Hosts : StopService(p) \/ (Start(p) /\ UNCHANGED fileVars)
    \/ \E p \in Hosts, f \in Files : AddFile(p, f) \/ RemoveFile(p, f)

FileWorker(p) ==
    \/ Announce(p) /\ UNCHANGED fileVars
    \/ HandleFilesLocality(p)
    \/ \E diff \in 0 .. MaxGap : HandleFiles(p, diff)
    \/ ReceiveNothing(p)
    \/ \E q \in Hosts :
          \/ ReceiveNode(p, q) \/ ReceiveRequest(p, q)
          \/ ReceiveInit(p, q) \/ ReceiveRemove(p, q)
    \/ StopFiles(p)

Threads(p) ==
    \/ \E t \in inputs[p] : InputInit(p, t) \/ InputStore(p, t)
    \/ \E o \in outputs[p] : OutputPerform(p, o)

DistNext ==
    \/ Users
    \/ \E p \in Hosts : FileWorker(p) \/ Threads(p)
    \/ \E p, q \in Hosts : Lose(p, q) /\ UNCHANGED fileVars

DistSpec == DistInit /\ [][DistNext]_distVars

-----------------------------------------------------------------------------
(* Properties.                                                             *)

Holds(p, f) == Has(p, f) /\ f \in disk[p]

\* Every variable has the type of its counterpart.
DistTypeOK ==
    /\ \A p \in Hosts : \A i \in DOMAIN files[p] :
          files[p][i] \in [file : Files, local : BOOLEAN, marked : BOOLEAN,
                           ttl : (1 - Second * MaxGap) .. FullTTL]
    /\ disk \in [Hosts -> SUBSET Files]
    /\ stage \in [Hosts -> Stages]
    /\ update \in [Hosts -> BOOLEAN]
    /\ toRemove \in [Hosts -> Files \cup {NoFile}]
    /\ \A p \in Hosts : \A t \in inputs[p] : t.stage \in {"start", "wait", "data"}
    /\ transfers \in 0 .. MaxTransfers

\* Files a user added, nobody asked to remove, no stopping Service took along and
\* no write has failed for.
Wanted ==
    {f \in added \ (removed \cup left) : \A p \in Hosts : <<p, f>> \notin unwritten}

\* "File is not used in any transfer and it's signed to the other node so
\* remove the local data" (Service.cpp:1181): the last copy of a file is never
\* deleted by HandleFiles; only a user or a Service that stops removes it.
NeverLost == \A f \in Wanted : \E p \in Hosts : Open(p) /\ Holds(p, f)

\* The same when no datagram was lost: every copy but one is deleted on a
\* timer, by hosts that disagree about the home while nodes come and go.  It
\* holds on the instances of one file; a file that its home is asked for again
\* while it fetches it can be lost (DistributionTwice.cfg).
Kept == losses = 0 => NeverLost

\* HandleFiles deletes data by name (Service.cpp:1184), and AddFile and
\* AddLocalFile list what they store without a look at the list (1313) or at
\* their stream (1326): a host lists a file without its data only after one of
\* its own writes of it has failed or it has listed the file twice, whatever the
\* other hosts do and whatever is lost, removed or stopped.
ListedIsStored ==
    \A p \in Hosts, f \in Files :
        Has(p, f) /\ <<p, f>> \notin unwritten \cup twice => f \in disk[p]

\* When all is calm, the home of a file, on which all hosts agree, holds it.
Delivered ==
    Calm /\ losses = 0 => \A f \in Wanted : \A p \in Hosts :
                             Open(p) => Holds(Home(p, f), f)

\* "Removes file from the network" (Service.h:93): when all is calm and every
\* copy has aged, a removed file is nowhere.
RemovedIsGone ==
    Calm /\ (\A p \in Hosts : toRemove[p] = NoFile /\ \A i \in DOMAIN files[p] : files[p][i].ttl <= 0) =>
        \A f \in removed : \A p \in Hosts : ~Has(p, f)

=============================================================================
