------------------------------ MODULE Commands ------------------------------
(***************************************************************************)
(* The command line, the service's thread and the transfer threads of one  *)
(* process.  They share, without a lock, the flags and strings by which    *)
(* the command line hands commands to the worker; a step here touches one  *)
(* of these fields.                                                        *)
(*                                                                         *)
(* ping, list and remove are boxes: a flag and its argument.  A download   *)
(* has two strings, its flag, and a second flag while answers are awaited. *)
(* What the commands do in the network is left to Membership and           *)
(* Distribution: here other nodes answer what they are asked.              *)
(***************************************************************************)
EXTENDS CommandLine, Naturals, Sequences, FiniteSets, SequencesExt

CONSTANTS
    Sessions,     \* bound: the user types the lines of one of these, with None for
                  \* an argument that is missing, while so many chances befall:
                  \* a TRANSFER_REQUEST of another node or a failure (Start, Select,
                  \* a query nobody hears, a transfer)
    Ports,        \* the arguments that are numbers of ports
    Addresses,    \* the arguments ParseAddress takes
    Names,        \* file names
    Holders,      \* Holders[f]: the nodes that have file f
    Known,        \* the nodes in the list of this node
    Transfers     \* slots: as many input transfers run at a time

\* get and add are typed with names of files; no file has an empty one.
ASSUME CommandsAssumption ==
    /\ None \notin Names
    /\ \A session \in Sessions :
          /\ session.lines \in Seq(Lines) /\ session.chances \in Nat
          /\ \A i \in DOMAIN session.lines : session.lines[i].cmd \in {"get", "add"} =>
                session.lines[i].arg0 \in Names \cup {None}
    /\ DOMAIN Holders = Names

VARIABLES
    main,          \* [at, line]: the command line
    arg0, arg1,    \* of main()
    running,       \* _local is set
    sockets,       \* the open ones of _socket and _broadcastingSocket
    exitFlag,
    worker,        \* where the service's thread is in run()
    isReady,       \* of run()
    flag, payload, \* of the boxes
    shouldGetFile, getFileWaitForInfo, getFilename, getFileLocalPath,
    inputData,     \* _inputData: transfers that wait for a slot
    found,         \* name of the file HandleDownloadFile has found
    transfer,      \* transfer[t]: [at, name, why] of an input transfer
    files,         \* names of the entries of _files
    inbox,         \* messages to the service that it has not read yet
    accepted, served, \* history: arguments the boxes took and gave
    asked, saved,  \* history: <<path, name>> asked for and written
    mishaps,       \* history: what has come between a download and its file
    input,         \* the lines still to be typed
    chances        \* what may still befall

userVars == <<main, arg0, arg1>>
lifeVars == <<running, sockets, exitFlag>>
boxVars == <<flag, payload, accepted, served>>
getVars == <<shouldGetFile, getFileWaitForInfo, getFilename, getFileLocalPath>>
goalVars == <<asked, saved, mishaps>>
transferVars == <<transfer, inputData>>
countVars == <<input, chances>>
vars == <<userVars, lifeVars, worker, isReady, boxVars, getVars, found,
          transferVars, files, inbox, goalVars, countVars>>

Boxes == {"remove", "ping", "list"}
BothSockets == {"_socket", "_broadcastingSocket"}

\* A slot of the transfers that is free.
FreeSlot == [at |-> "new", name |-> None, why |-> "get"]

Idle == [at |-> "read", line |-> [cmd |-> None, arg0 |-> None, arg1 |-> None]]

Init ==
    /\ main = Idle
    /\ arg0 = None /\ arg1 = None
    /\ running = FALSE
    /\ sockets = {}
    /\ exitFlag = FALSE
    /\ worker = "dead"
    /\ isReady = FALSE
    /\ flag = [k \in Boxes |-> FALSE]
    /\ payload = [k \in Boxes |-> None]
    /\ accepted = [k \in Boxes |-> <<>>]
    /\ served = [k \in Boxes |-> <<>>]
    /\ shouldGetFile = FALSE /\ getFileWaitForInfo = FALSE
    /\ getFilename = None /\ getFileLocalPath = None
    /\ found = None
    /\ transfer = [t \in Transfers |-> FreeSlot]
    /\ inputData = <<>>
    /\ files = {}
    /\ inbox = {}
    /\ asked = {} /\ saved = {} /\ mishaps = {}
    /\ \E session \in Sessions : input = session.lines /\ chances = session.chances

-----------------------------------------------------------------------------
(* The command line: parsing.                                              *)

\* The comparisons in their order, up to the first that succeeds.
Parsed(line) ==
    LET t1  == Else([ok |-> FALSE, arg0 |-> arg0, arg1 |-> arg1], "quit", 0, line)
        t2  == Else(t1, "start", 0, line)
        t3  == Else(t2, "start", 1, line)
        t4  == Else(t3, "stop", 0, line)
        t5  == Else(t4, "ping", 1, line)
        t6  == Else(t5, "add", 1, line)
        t7  == Else(t6, "remove", 1, line)
        t8  == Else(t7, "get", 2, line)
        t9  == Else(t8, "get", 1, line)
        t10 == Else(t9, "list", 0, line)
        t11 == Else(t10, "list", 1, line)
    IN  Else(t11, "nodes", 0, line)

InGet == {"getClear", "getName", "getCopy", "getFind", "getWait"}
InSave == {"save", "clearWait", "clearName", "clearPath", "clearFlag"}

ReadLine ==
    /\ main.at = "read"
    /\ input # <<>>
    /\ LET line == Head(input)
           args == Parsed(line)
       IN /\ main' = IF args.ok THEN [at |-> "call", line |-> line] ELSE Idle
          /\ arg0' = args.arg0
          /\ arg1' = IF line.cmd = "get" /\ args.arg1 = None THEN args.arg0 ELSE args.arg1
    /\ input' = Tail(input)
    /\ UNCHANGED <<lifeVars, worker, isReady, boxVars, getVars, found, transferVars,
                   files, inbox, goalVars, chances>>

Calls(cmd) == main.at = "call" /\ main.line.cmd = cmd

GoTo(at) == main' = [main EXCEPT !.at = at] /\ UNCHANGED <<arg0, arg1>>

Return == main' = Idle /\ UNCHANGED <<arg0, arg1>>

-----------------------------------------------------------------------------
(* The command line: the methods of Service.                               *)

\* A call fails.
Fails(kind) ==
    /\ chances > 0
    /\ chances' = chances - 1
    /\ mishaps' = mishaps \cup {kind}

\* Sockets that an earlier Start left open make Open fail; otherwise each call
\* may fail and leave those open that are.
Start ==
    /\ Calls("start")
    /\ Return
    /\ \/ /\ running \/ arg0 \notin Ports \cup {None} \/ sockets # {}
          /\ UNCHANGED <<lifeVars, worker, isReady, inputData, mishaps, chances>>
       \/ /\ ~running /\ arg0 \in Ports \cup {None} /\ sockets = {}
          /\ \/ /\ running' = TRUE
                /\ sockets' = BothSockets
                /\ exitFlag' = FALSE
                /\ worker' = "top"
                /\ isReady' \in BOOLEAN
                /\ inputData' = <<>>
                /\ UNCHANGED <<mishaps, chances>>
             \/ /\ Fails("start")
                /\ sockets' \in {{}, {"_socket"}, BothSockets}
                /\ UNCHANGED <<running, exitFlag, worker, isReady, inputData>>
    /\ UNCHANGED <<boxVars, getVars, found, transfer, files, inbox, asked, saved,
                   input>>

\* Methods that do nothing when the service does not run, when the command
\* before was not taken yet, or when there is no such address.
Ignored ==
    /\ \/ main.line.cmd \in {"stop", "get", "quit"} \cup Boxes /\ ~running
       \/ main.line.cmd \in Boxes /\ flag[main.line.cmd]
       \/ main.line.cmd = "ping" /\ arg0 \notin Addresses
       \/ main.line.cmd = "get" /\ shouldGetFile
       \/ main.line.cmd = "nodes"
    /\ main.at = "call"
    /\ IF main.line.cmd = "quit" THEN GoTo("gone") ELSE Return
    /\ UNCHANGED <<lifeVars, worker, isReady, boxVars, getVars, found, transferVars,
                   files, inbox, goalVars, countVars>>

Available(goal) == Holders[goal[2]] \cap Known # {}

\* The user still waits for a file that a known node has.
Unanswered == \E goal \in asked \ saved : Available(goal)

\* A mishap of a kind, if it concerns a download.
Mishap(kind, concerns) ==
    mishaps' = IF concerns THEN mishaps \cup {kind} ELSE mishaps

\* Stop, and a quit while the service runs.
Stop ==
    /\ Calls("stop") \/ Calls("quit")
    /\ running
    /\ exitFlag' = TRUE
    /\ Mishap("stopped", Unanswered)
    /\ GoTo("join")
    /\ UNCHANGED <<running, sockets, worker, isReady, boxVars, getVars, found, transferVars,
                   files, inbox, asked, saved, countVars>>

\* Faulty variant: the sockets are closed to wake the thread up.
StopBeforeJoin ==
    /\ main.at = "join"
    /\ running' = FALSE
    /\ sockets' = {}
    /\ files' = {}
    /\ inbox' = {}
    /\ IF main.line.cmd = "quit" THEN GoTo("gone") ELSE Return
    /\ UNCHANGED <<exitFlag, worker, isReady, boxVars, getVars, found, transferVars,
                   goalVars, countVars>>

\* join() returns when the thread has ended; then everything is closed.
StopJoin ==
    /\ main.at = "join"
    /\ worker = "dead"
    /\ running' = FALSE
    /\ sockets' = {}
    /\ files' = {}
    /\ inbox' = {}
    /\ IF main.line.cmd = "quit" THEN GoTo("gone") ELSE Return
    /\ UNCHANGED <<exitFlag, worker, isReady, boxVars, getVars, found, transferVars,
                   goalVars, countVars>>

AddFile ==
    /\ Calls("add")
    /\ files' = files \cup {arg0}
    /\ Return
    /\ UNCHANGED <<lifeVars, worker, isReady, boxVars, getVars, found, transferVars,
                   inbox, goalVars, countVars>>

\* Ping, ListFiles and RemoveFile: the argument first ...
PostPayload(k) ==
    /\ Calls(k)
    /\ running /\ ~flag[k]
    /\ k = "ping" => arg0 \in Addresses
    /\ payload' = [payload EXCEPT ![k] = arg0]
    /\ GoTo(IF k = "list" THEN "listWait" ELSE "flag")
    /\ UNCHANGED <<lifeVars, worker, isReady, flag, accepted, served, getVars, found,
                   transferVars, files, inbox, goalVars, countVars>>

\* ... list ends the wait for answers to a get ...
ListWait ==
    /\ main.at = "listWait"
    /\ getFileWaitForInfo' = FALSE
    /\ Mishap("listed", Unanswered)
    /\ GoTo("flag")
    /\ UNCHANGED <<lifeVars, worker, isReady, boxVars, shouldGetFile, getFilename,
                   getFileLocalPath, found, transferVars, files, inbox, asked, saved, countVars>>

\* ... then the flag.
PostFlag(k) ==
    /\ main.at = "flag" /\ main.line.cmd = k
    /\ flag' = [flag EXCEPT ![k] = TRUE]
    /\ accepted' = [accepted EXCEPT ![k] = Append(@, arg0)]
    /\ Return
    /\ UNCHANGED <<lifeVars, worker, isReady, payload, served, getVars, found, transferVars,
                   files, inbox, goalVars, countVars>>

\* A get is being served: by the worker, in the network, or by a transfer.
BeingServed ==
    \/ getFileWaitForInfo
    \/ worker \in InGet
    \/ \E t \in Transfers : transfer[t].at \in InSave

\* DownloadFile: the name, the path, the flag, and the wait flag last.
GetName ==
    /\ Calls("get")
    /\ running /\ ~shouldGetFile
    /\ getFilename' = arg0
    /\ asked' = asked \cup {<<arg1, arg0>>}
    /\ Mishap("hasty", BeingServed)
    /\ GoTo("getPath")
    /\ UNCHANGED <<lifeVars, worker, isReady, boxVars, shouldGetFile, getFileWaitForInfo,
                   getFileLocalPath, found, transferVars, files, inbox, saved, countVars>>

GetPath ==
    /\ main.at = "getPath"
    /\ getFileLocalPath' = arg1
    /\ GoTo("getFlag")
    /\ UNCHANGED <<lifeVars, worker, isReady, boxVars, shouldGetFile, getFileWaitForInfo,
                   getFilename, found, transferVars, files, inbox, goalVars, countVars>>

GetFlag ==
    /\ main.at = "getFlag"
    /\ shouldGetFile' = TRUE
    /\ GoTo("getWait")
    /\ UNCHANGED <<lifeVars, worker, isReady, boxVars, getFileWaitForInfo, getFilename,
                   getFileLocalPath, found, transferVars, files, inbox, goalVars, countVars>>

\* When the worker was faster and awaits answers already, it will ignore them.
GetWait ==
    /\ main.at = "getWait"
    /\ getFileWaitForInfo' = FALSE
    /\ Mishap("overtaken", getFileWaitForInfo)
    /\ Return
    /\ UNCHANGED <<lifeVars, worker, isReady, boxVars, shouldGetFile, getFilename,
                   getFileLocalPath, found, transferVars, files, inbox, asked, saved, countVars>>

Main ==
    \/ Start \/ Ignored \/ Stop \/ StopJoin \/ AddFile
    \/ \E k \in Boxes : PostPayload(k) \/ PostFlag(k)
    \/ ListWait \/ GetName \/ GetPath \/ GetFlag \/ GetWait

-----------------------------------------------------------------------------
(* The worker: one turn of run().                                          *)

\* A file goes to the path; nothing can be written to an empty one.
Written(name) == IF getFileLocalPath = None THEN {} ELSE {<<getFileLocalPath, name>>}

WorkerStep(from, to) == worker = from /\ worker' = to

IsFree(t) == transfer[t].at = "new"

HasFreeSlot == \E t \in Transfers : IsFree(t)

\* OnTransferStart: the slots are all alike.
Launch(new) ==
    transfer' = [transfer EXCEPT ![CHOOSE t \in Transfers : IsFree(t)] = new]

\* Test the exit flag.  HandleEndedTransfers gives the slots of the ended
\* transfers back; the queue and the slots are the worker's own.
Top ==
    /\ WorkerStep("top", IF exitFlag THEN "leave" ELSE IF inputData = <<>> THEN "get" ELSE "new")
    /\ transfer' = [t \in Transfers |->
           IF ~exitFlag /\ transfer[t].at \in {"done", "failed"} THEN FreeSlot ELSE transfer[t]]
    /\ UNCHANGED <<userVars, lifeVars, isReady, boxVars, getVars, found, inputData,
                   files, inbox, goalVars, countVars>>

\* HandleNewTransfers: what waits goes into the free slots.
StartQueued ==
    /\ WorkerStep("new", "new")
    /\ inputData # <<>> /\ HasFreeSlot
    /\ Launch(Head(inputData))
    /\ inputData' = Tail(inputData)
    /\ UNCHANGED <<userVars, lifeVars, isReady, boxVars, getVars, found,
                   files, inbox, goalVars, countVars>>

NothingToStart ==
    /\ WorkerStep("new", "get")
    /\ inputData = <<>> \/ ~HasFreeSlot
    /\ UNCHANGED <<userVars, lifeVars, isReady, boxVars, getVars, found, transferVars,
                   files, inbox, goalVars, countVars>>

\* At the end the farewell is broadcast.
Leave ==
    /\ WorkerStep("leave", "dead")
    /\ UNCHANGED <<userVars, lifeVars, isReady, boxVars, getVars, found, transferVars,
                   files, inbox, goalVars, countVars>>

\* HandleDownloadFile, until the file is looked up.
TestGet ==
    /\ WorkerStep("get", IF shouldGetFile THEN "getClear" ELSE "remove")
    /\ UNCHANGED <<userVars, lifeVars, isReady, boxVars, getVars, found, transferVars,
                   files, inbox, goalVars, countVars>>

ClearGet ==
    /\ WorkerStep("getClear", "getName")
    /\ shouldGetFile' = FALSE
    /\ UNCHANGED <<userVars, lifeVars, isReady, boxVars, getFileWaitForInfo, getFilename,
                   getFileLocalPath, found, transferVars, files, inbox, goalVars, countVars>>

LookUp ==
    /\ WorkerStep("getName", IF getFilename \in files THEN "getCopy" ELSE "getFind")
    /\ found' = IF getFilename \in files THEN getFilename ELSE None
    /\ UNCHANGED <<userVars, lifeVars, isReady, boxVars, getVars, transferVars,
                   files, inbox, goalVars, countVars>>

CopyLocal ==
    /\ WorkerStep("getCopy", "remove")
    /\ saved' = saved \cup Written(found)
    /\ found' = None
    /\ UNCHANGED <<userVars, lifeVars, isReady, boxVars, getVars, transferVars,
                   files, inbox, asked, mishaps, countVars>>

Message(type, names) ==
    UNION {{[type |-> type, name |-> f, from |-> h] : h \in Holders[f]} : f \in names}

\* FIND_FILE is broadcast; every holder that hears it answers.
FindFile ==
    /\ \/ /\ WorkerStep("getFind", "getWait")
          /\ inbox' = inbox \cup Message("info", {getFilename} \cap Names)
          /\ UNCHANGED <<mishaps, chances>>
       \/ /\ worker = "getFind" /\ worker' \in {"getWait", "remove"}
          /\ Fails("query")
          /\ UNCHANGED inbox
    /\ UNCHANGED <<userVars, lifeVars, isReady, boxVars, getVars, found, transferVars,
                   files, asked, saved, input>>

AwaitInfo ==
    /\ WorkerStep("getWait", "remove")
    /\ getFileWaitForInfo' = TRUE
    /\ UNCHANGED <<userVars, lifeVars, isReady, boxVars, shouldGetFile, getFilename,
                   getFileLocalPath, found, transferVars, files, inbox, goalVars, countVars>>

\* A box is tested, served and cleared at places of its own.
Serving  == [remove |-> "serveRemove", ping |-> "servePing", list |-> "serveList"]
Clearing == [remove |-> "clearRemove", ping |-> "clearPing", list |-> "clearList"]

\* The boxes, in the order of run(): HandleFiles, the ping and the list.
After(k) == IF k = "remove" THEN "ping" ELSE IF k = "ping" THEN "list" ELSE "select"

\* Faulty variant: the flag is cleared first, as HandleDownloadFile does.
TestBoxClears(k) ==
    /\ WorkerStep(k, IF flag[k] THEN Serving[k] ELSE After(k))
    /\ flag' = [flag EXCEPT ![k] = FALSE]
    /\ UNCHANGED <<userVars, lifeVars, isReady, payload, accepted, served, getVars, found,
                   transferVars, files, inbox, goalVars, countVars>>

TestBox(k) ==
    /\ WorkerStep(k, IF flag[k] THEN Serving[k] ELSE After(k))
    /\ UNCHANGED <<userVars, lifeVars, isReady, boxVars, getVars, found, transferVars,
                   files, inbox, goalVars, countVars>>

\* The argument goes into a message; LIST_FILES is answered.
ServeBox(k) ==
    /\ WorkerStep(Serving[k], Clearing[k])
    /\ served' = [served EXCEPT ![k] = Append(@, payload[k])]
    /\ inbox' = IF k = "list" THEN inbox \cup Message("info", Names) ELSE inbox
    /\ UNCHANGED <<userVars, lifeVars, isReady, flag, payload, accepted, getVars, found,
                   transferVars, files, goalVars, countVars>>

ClearBox(k) ==
    /\ WorkerStep(Clearing[k], After(k))
    /\ flag' = [flag EXCEPT ![k] = FALSE]
    /\ UNCHANGED <<userVars, lifeVars, isReady, payload, accepted, served, getVars, found,
                   transferVars, files, inbox, goalVars, countVars>>

\* Faulty variant: isReady is set and never reset.
SelectKeepsReady ==
    /\ worker = "select"
    /\ isReady' = (isReady \/ inbox # {})
    /\ worker' = IF isReady' THEN "receive" ELSE "top"
    /\ UNCHANGED <<userVars, lifeVars, boxVars, getVars, found, transferVars, files, inbox,
                   goalVars, countVars>>

\* Select waits for a message or 500 ms; when it fails isReady stays as it is.
Select ==
    /\ worker = "select"
    /\ \/ /\ isReady' = (inbox # {})
          /\ UNCHANGED <<mishaps, chances>>
       \/ /\ Fails("select")
          /\ UNCHANGED isReady
    /\ worker' = IF isReady' THEN "receive" ELSE "top"
    /\ UNCHANGED <<userVars, lifeVars, boxVars, getVars, found, transferVars, files, inbox,
                   asked, saved, input>>

\* FILE_INFO of the file that is waited for, and TRANSFER_REQUEST of a file this
\* node does not have, start a transfer, when they come from a known node.
Wanted(m) ==
    /\ m.from \in Known
    /\ IF m.type = "info" THEN getFileWaitForInfo /\ m.name = getFilename
       ELSE m.name \notin files

TransferOf(m) ==
    [at |-> "fetch", name |-> m.name, why |-> IF m.type = "info" THEN "get" ELSE "place"]

\* Faulty variant: the first answer ends the wait.
ReceiveEndsWait ==
    /\ WorkerStep("receive", "top")
    /\ \E m \in inbox, t \in Transfers :
          /\ inbox' = inbox \ {m}
          /\ transfer' = IF Wanted(m) THEN [transfer EXCEPT ![t] = TransferOf(m)] ELSE transfer
          /\ getFileWaitForInfo' = (getFileWaitForInfo /\ ~Wanted(m))
    /\ UNCHANGED <<userVars, lifeVars, isReady, boxVars, shouldGetFile, getFilename,
                   getFileLocalPath, found, inputData, files, goalVars, countVars>>

\* Receive blocks when there is no message.  A transfer starts at once or waits
\* for a slot.
Receive ==
    /\ WorkerStep("receive", "top")
    /\ \E m \in inbox :
          /\ inbox' = inbox \ {m}
          /\ \/ /\ Wanted(m) /\ HasFreeSlot
                /\ Launch(TransferOf(m))
                /\ UNCHANGED inputData
             \/ /\ Wanted(m) /\ ~HasFreeSlot
                /\ inputData' = Append(inputData, TransferOf(m))
                /\ UNCHANGED transfer
             \/ /\ ~Wanted(m)
                /\ UNCHANGED transferVars
    /\ UNCHANGED <<userVars, lifeVars, isReady, boxVars, getVars, found, files,
                   goalVars, countVars>>

Worker ==
    \/ Top \/ Leave \/ StartQueued \/ NothingToStart
    \/ TestGet \/ ClearGet \/ LookUp \/ CopyLocal \/ FindFile \/ AwaitInfo
    \/ \E k \in Boxes : TestBox(k) \/ ServeBox(k) \/ ClearBox(k)
    \/ Select \/ Receive

-----------------------------------------------------------------------------
(* The transfer threads: what Perform makes of a download, and AddLocalFile.*)

\* The end of main() ends the process, with its threads.
TransferStep(t, from, to) ==
    /\ main.at # "gone"
    /\ transfer[t].at = from
    /\ transfer' = [transfer EXCEPT ![t].at = to]
    /\ UNCHANGED inputData

\* Perform fails, or stays in Accept for ever and keeps the slot.
Fail(t) ==
    /\ \E to \in {"failed", "stuck"} : TransferStep(t, "fetch", to)
    /\ Fails("transfer")
    /\ UNCHANGED <<userVars, lifeVars, worker, isReady, boxVars, getVars, found, files,
                   inbox, asked, saved, input>>

\* Faulty variant: the name is not compared.
CheckWaitOnly(t) ==
    /\ TransferStep(t, "fetch", IF getFileWaitForInfo THEN "save" ELSE "store")
    /\ UNCHANGED <<userVars, lifeVars, worker, isReady, boxVars, getVars, found, files,
                   inbox, goalVars, countVars>>

\* The data has come.  Check if it's file to get.
Check(t) ==
    /\ TransferStep(t, "fetch",
           IF getFileWaitForInfo /\ transfer[t].name = getFilename THEN "save" ELSE "store")
    /\ UNCHANGED <<userVars, lifeVars, worker, isReady, boxVars, getVars, found, files,
                   inbox, goalVars, countVars>>

Save(t) ==
    /\ TransferStep(t, "save", "clearWait")
    /\ saved' = saved \cup Written(transfer[t].name)
    /\ UNCHANGED <<userVars, lifeVars, worker, isReady, boxVars, getVars, found, files,
                   inbox, asked, mishaps, countVars>>

\* The fields are cleared one by one.
Clear(t) ==
    /\ \/ /\ TransferStep(t, "clearWait", "clearName")
          /\ getFileWaitForInfo' = FALSE
          /\ UNCHANGED <<getFilename, getFileLocalPath, shouldGetFile>>
       \/ /\ TransferStep(t, "clearName", "clearPath")
          /\ getFilename' = None
          /\ UNCHANGED <<getFileWaitForInfo, getFileLocalPath, shouldGetFile>>
       \/ /\ TransferStep(t, "clearPath", "clearFlag")
          /\ getFileLocalPath' = None
          /\ UNCHANGED <<getFileWaitForInfo, getFilename, shouldGetFile>>
       \/ /\ TransferStep(t, "clearFlag", "done")
          /\ shouldGetFile' = FALSE
          /\ UNCHANGED <<getFileWaitForInfo, getFilename, getFileLocalPath>>
    /\ UNCHANGED <<userVars, lifeVars, worker, isReady, boxVars, found, files,
                   inbox, goalVars, countVars>>

\* Faulty variant: the entry gets the name of the download.
StoreAsDownload(t) ==
    /\ TransferStep(t, "store", "done")
    /\ files' = files \cup {getFilename}
    /\ UNCHANGED <<userVars, lifeVars, worker, isReady, boxVars, getVars, found,
                   inbox, goalVars, countVars>>

\* Not the download: into the local database.
StoreLocal(t) ==
    /\ TransferStep(t, "store", "done")
    /\ files' = files \cup {transfer[t].name}
    /\ UNCHANGED <<userVars, lifeVars, worker, isReady, boxVars, getVars, found,
                   inbox, goalVars, countVars>>

Thread(t) == Check(t) \/ Fail(t) \/ Save(t) \/ Clear(t) \/ StoreLocal(t)

\* Another node asks this one to keep a file.
RequestComes ==
    /\ chances > 0
    /\ chances' = chances - 1
    /\ sockets = BothSockets
    /\ \E m \in Message("request", Names) : inbox' = inbox \cup {m}
    /\ UNCHANGED <<userVars, lifeVars, worker, isReady, boxVars, getVars, found, transferVars,
                   files, goalVars, input>>

-----------------------------------------------------------------------------
Next == ReadLine \/ Main \/ Worker \/ RequestComes \/ \E t \in Transfers : Thread(t)

Spec == Init /\ [][Next]_vars

\* Threads keep running; lines are typed, and requests come, or not.
FairSpec ==
    /\ Spec
    /\ WF_vars(Main)
    /\ WF_vars(Worker)
    /\ \A t \in Transfers : WF_vars(Thread(t))

-----------------------------------------------------------------------------
(* Properties.                                                             *)

WorkerPlaces ==
    {"dead", "top", "leave", "new", "get", "select", "receive"} \cup InGet \cup Boxes
    \cup {Serving[k] : k \in Boxes} \cup {Clearing[k] : k \in Boxes}

\* Every variable has the type of its counterpart.
TypeOK ==
    /\ main \in [at : {"read", "call", "join", "gone", "flag", "listWait", "getPath",
                       "getFlag", "getWait"}, line : Lines]
    /\ running \in BOOLEAN /\ exitFlag \in BOOLEAN /\ isReady \in BOOLEAN
    /\ sockets \subseteq BothSockets
    /\ worker \in WorkerPlaces
    /\ flag \in [Boxes -> BOOLEAN]
    /\ shouldGetFile \in BOOLEAN /\ getFileWaitForInfo \in BOOLEAN
    /\ getFilename \in Names \cup {None}
    /\ files \subseteq Names

\* A command gets the arguments of its own line, whatever lines and failed
\* comparisons came before; only a plain start takes over an older arg0.
ArgumentsAreOwn ==
    main.at = "call" /\ <<main.line.cmd, main.line.arg0>> # <<"start", None>> =>
        /\ arg0 = main.line.arg0 \/ main.line.cmd = "quit"
        /\ main.line.cmd = "get" =>
              arg1 = IF main.line.arg1 = None THEN main.line.arg0 ELSE main.line.arg1

\* A ping, list or remove that is accepted reaches the network once, in order
\* and with its own argument, though flag and argument are shared without a lock
\* and survive a restart; the box holds one command at most.
ServedAsAccepted ==
    \A k \in Boxes :
        /\ Len(served[k]) <= Len(accepted[k])
        /\ served[k] = SubSeq(accepted[k], 1, Len(served[k]))
        /\ Len(accepted[k]) <= Len(served[k]) + 1

\* "assert(!_socket.IsClosed())" (Service.cpp:694) at every step of the worker,
\* not only its first: no Start leaves a worker on half-open sockets, and no
\* Stop takes them from a worker that has still to say farewell.
WorkerHasSockets == worker # "dead" => running /\ sockets = BothSockets

\* A path of the user receives only files that he asked for by name: not one
\* that this node is asked to keep, nor an answer to another query, though the
\* name and the path are read at different times and cleared by transfers that
\* end at the same time.  It is the file that was asked for under this path if no
\* get was typed while another was being served; one that is typed then changes
\* the path and the name under the hands of the worker and the transfers.
SavedIsAsked ==
    /\ \A s \in saved : \E g, h \in asked : s = <<g[1], h[2]>>
    /\ "hasty" \notin mishaps => saved \subseteq asked

\* Stop, which joins the worker, comes back whatever else has failed; unless
\* Select has, after which Receive may block for ever.
StopReturns == main.at = "join" ~> (main.at # "join" \/ "select" \in mishaps)

\* A download of a file that a known node has is answered, or one of these
\* mishaps came between: a call failed, the user typed stop, list or the next
\* get, or the worker took the get before DownloadFile cleared the wait flag.
GetIsAnswered == Unanswered ~> (~Unanswered \/ mishaps # {})

\* "Place file in the local database" (FileTransfer.cpp:64): a file that this
\* node was asked to keep is in its list when the transfer is done.
PlacedIsStored ==
    [][\A t \in Transfers :
          transfer[t].why = "place" /\ transfer[t].at # "done" /\ transfer'[t].at = "done"
              => transfer[t].name \in files']_vars

=============================================================================
