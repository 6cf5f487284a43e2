--------------------------- MODULE CommandsProofs ---------------------------
(***************************************************************************)
(* Proofs about Commands for every session of the user, any number of      *)
(* transfer threads, file names, holders and failures.                     *)
(***************************************************************************)
EXTENDS Commands, CommandLineFacts

-----------------------------------------------------------------------------
(* The inductive invariant, by subject.                                    *)

\* A line that names files names files.
Named(line) == line.cmd \in {"get", "add"} => line.arg0 \in Names \cup {None}

MainPlaces ==
    {"read", "call", "join", "gone", "flag", "listWait", "getPath", "getFlag", "getWait"}

TransferPlaces ==
    {"new", "fetch", "store", "done", "failed", "stuck"} \cup InSave

TransferType == [at : TransferPlaces, name : Names \cup {None}, why : {"get", "place"}]

QueuedType == [at : {"fetch"}, name : Names, why : {"get", "place"}]

\* A slot in use has the name of a file.
Slotted(slots) ==
    /\ slots \in [Transfers -> TransferType]
    /\ \A t \in Transfers : slots[t].at # "new" => slots[t].name \in Names

\* Types, beyond TypeOK, of what the other parts speak of.
Typed ==
    /\ TypeOK
    /\ arg0 \in STRING /\ arg1 \in STRING
    /\ payload \in [Boxes -> STRING]
    /\ accepted \in [Boxes -> Seq(STRING)] /\ served \in [Boxes -> Seq(STRING)]
    /\ found \in Names \cup {None}
    /\ Slotted(transfer)
    /\ inputData \in Seq(QueuedType)
    /\ \A m \in inbox : m.name \in Names
    /\ input \in Seq(Lines) /\ Named(main.line)
    /\ \A i \in DOMAIN input : Named(input[i])

\* The place of the command line fits the command it executes.
Executes ==
    /\ main.at = "flag" => main.line.cmd \in Boxes
    /\ main.at = "listWait" => main.line.cmd = "list"
    /\ main.at \in {"getPath", "getFlag", "getWait"} => main.line.cmd = "get"
    /\ Calls("add") => main.line.arg0 # None

\* Between argument and flag the command line owns the box, from flag to
\* clearing the worker does; what it has taken and not yet given is payload.
Posting(k) == main.at \in {"flag", "listWait"} /\ main.line.cmd = k

BoxIsOwned(k) ==
    /\ Posting(k) => ~flag[k] /\ payload[k] = arg0
    /\ worker \in {Serving[k], Clearing[k]} => flag[k]
    /\ accepted[k] = IF flag[k] /\ worker # Clearing[k]
                     THEN Append(served[k], payload[k]) ELSE served[k]

BoxInv == \A k \in Boxes : BoxIsOwned(k)

\* The user gave this name, or this path, in some get.
GivenName(name) == \E goal \in asked : goal[2] = name

GivenPath(path) == \E goal \in asked : goal[1] = path

\* Whatever mishaps there were, names and paths come from gets.
Given ==
    /\ getFilename = None \/ GivenName(getFilename)
    /\ getFileLocalPath = None \/ GivenPath(getFileLocalPath)
    /\ main.at = "getPath" => GivenPath(arg1)
    /\ worker = "getCopy" => GivenName(found)
    /\ \A t \in Transfers : transfer[t].at = "save" => GivenName(transfer[t].name)

\* While the fields of a get are set nobody serves a get: not the worker, and no
\* transfer is at its end.
Asking == main.at \in {"getPath", "getFlag"}

Unserved == ~shouldGetFile /\ ~BeingServed

\* A file called name may go where the download goes.
MayGo(name) == getFileLocalPath = None \/ <<getFileLocalPath, name>> \in asked

\* The name and the path that are kept belong to one get, or one is cleared.
Destination ==
    IF main.at = "getPath"
    THEN <<arg1, getFilename>> \in asked
    ELSE getFilename = None \/ MayGo(getFilename)

\* So do the files that are about to be written.
Leaving ==
    /\ worker = "getCopy" => MayGo(found)
    /\ \A t \in Transfers : transfer[t].at = "save" => MayGo(transfer[t].name)

\* All this as long as no get was typed while another was being served.
GetInv == (Asking => Unserved) /\ Destination /\ Leaving

CInv ==
    Typed /\ ArgumentsAreOwn /\ Executes /\ BoxInv /\ WorkerHasSockets /\ Given
    /\ ("hasty" \notin mishaps => GetInv) /\ SavedIsAsked

-----------------------------------------------------------------------------
(* Parsing: what the chain of comparisons makes of a line.                 *)

\* A comparison that has succeeded leaves the arguments of the line.
Fits(args, line) ==
    /\ \/ args.arg0 = line.arg0
       \/ line.cmd = "quit"
       \/ line.cmd = "start" /\ line.arg0 = None
    /\ line.cmd = "get" => args.arg1 = line.arg1
    /\ line.cmd = "add" => line.arg0 # None

LEMMA ParsedFits ==
    ASSUME arg0 \in STRING, arg1 \in STRING, NEW line \in Lines
    PROVE  Parsed(line) \in ArgsType /\ (Parsed(line).ok => Fits(Parsed(line), line))
<1> DEFINE t0  == [ok |-> FALSE, arg0 |-> arg0, arg1 |-> arg1]
           t1  == Else(t0, "quit", 0, line)
           t2  == Else(t1, "start", 0, line)
           t3  == Else(t2, "start", 1, line)
           t4  == Else(t3, "stop", 0, line)
           t5  == Else(t4, "ping", 1, line)
           t6  == Else(t5, "add", 1, line)
           t7  == Else(t6, "remove", 1, line)
           t8  == Else(t7, "get", 2, line)
           t9  == Else(t8, "get", 1, line)
           t10 == Else(t9, "list", 0, line)
           t11 == Else(t10, "list", 1, line)
           t12 == Else(t11, "nodes", 0, line)
           fits(t) == t \in ArgsType /\ (t.ok => Fits(t, line))
           cleared(t, cmd) == ~t.ok => line.cmd = cmd \/ t.arg0 = None
<1>0. Parsed(line) = t12
  BY DEF Parsed
<1>1. t0 \in ArgsType /\ ~t0.ok
  BY DEF ArgsType
<1> HIDE DEF t0
<1>2. fits(t1)
  <2>1. Compared(t0, "quit", 0, line, t1)
    BY <1>1, ElseFacts
  <2> HIDE DEF t1
  <2>2. QED
    BY <1>1, <2>1 DEF Compared, Fits
<1> HIDE DEF t1
<1>3. fits(t2)
  <2>1. Compared(t1, "start", 0, line, t2)
    BY <1>2, ElseFacts
  <2> HIDE DEF t2
  <2>2. QED
    BY <1>2, <2>1 DEF Compared, Fits
<1> HIDE DEF t2
<1>4. fits(t3) /\ cleared(t3, "start")
  <2>1. Compared(t2, "start", 1, line, t3)
    BY <1>3, ElseFacts
  <2> HIDE DEF t3
  <2>2. QED
    BY <1>3, <2>1 DEF Compared, Fits
<1> HIDE DEF t3
<1>5. fits(t4)
  <2>1. Compared(t3, "stop", 0, line, t4)
    BY <1>4, ElseFacts
  <2> HIDE DEF t4
  <2>2. QED
    BY <1>4, <2>1 DEF Compared, Fits
<1> HIDE DEF t4
<1>6. fits(t5)
  <2>1. Compared(t4, "ping", 1, line, t5)
    BY <1>5, ElseFacts
  <2> HIDE DEF t5
  <2>2. QED
    BY <1>5, <2>1 DEF Compared, Fits
<1> HIDE DEF t5
<1>7. fits(t6)
  <2>1. Compared(t5, "add", 1, line, t6)
    BY <1>6, ElseFacts
  <2> HIDE DEF t6
  <2>2. QED
    BY <1>6, <2>1 DEF Compared, Fits
<1> HIDE DEF t6
<1>8. fits(t7)
  <2>1. Compared(t6, "remove", 1, line, t7)
    BY <1>7, ElseFacts
  <2> HIDE DEF t7
  <2>2. QED
    BY <1>7, <2>1 DEF Compared, Fits
<1> HIDE DEF t7
<1>9. fits(t8) /\ (~t8.ok /\ line.cmd = "get" => line.arg1 = None /\ t8.arg1 = None)
  <2>1. Compared(t7, "get", 2, line, t8)
    BY <1>8, ElseFacts
  <2> HIDE DEF t8
  <2>2. QED
    BY <1>8, <2>1 DEF Compared, Fits
<1> HIDE DEF t8
<1>10. fits(t9) /\ cleared(t9, "get")
  <2>1. Compared(t8, "get", 1, line, t9)
    BY <1>9, ElseFacts
  <2> HIDE DEF t9
  <2>2. QED
    BY <1>9, <2>1 DEF Compared, Fits
<1> HIDE DEF t9
<1>11. fits(t10)
  <2>1. Compared(t9, "list", 0, line, t10)
    BY <1>10, ElseFacts
  <2> HIDE DEF t10
  <2>2. QED
    BY <1>10, <2>1 DEF Compared, Fits
<1> HIDE DEF t10
<1>12. fits(t11) /\ cleared(t11, "list")
  <2>1. Compared(t10, "list", 1, line, t11)
    BY <1>11, ElseFacts
  <2> HIDE DEF t11
  <2>2. QED
    BY <1>11, <2>1 DEF Compared, Fits
<1> HIDE DEF t11
<1>13. fits(t12)
  <2>1. Compared(t11, "nodes", 0, line, t12)
    BY <1>12, ElseFacts
  <2> HIDE DEF t12
  <2>2. QED
    BY <1>12, <2>1 DEF Compared, Fits
<1>14. QED
  BY <1>0, <1>13

-----------------------------------------------------------------------------
(* The places of the worker.                                               *)

\* All places but those where a box is served or cleared.
Plain == {"dead", "top", "leave", "new", "get", "select", "receive"} \cup InGet \cup Boxes

LEMMA Places ==
    /\ Plain \subseteq WorkerPlaces
    /\ \A k \in Boxes :
          /\ Serving[k] \in WorkerPlaces \ Plain /\ Clearing[k] \in WorkerPlaces \ Plain
          /\ After(k) \in (Boxes \cup {"select"})
          /\ After(k) \in Plain /\ k \in Plain
          /\ \A j \in Boxes : /\ Serving[j] # Clearing[k]
                              /\ j # k => Serving[j] # Serving[k] /\ Clearing[j] # Clearing[k]
<1>1. Plain \subseteq WorkerPlaces
  BY DEF Plain, WorkerPlaces
<1>2. ASSUME NEW k \in Boxes
      PROVE  /\ Serving[k] \in WorkerPlaces /\ Clearing[k] \in WorkerPlaces
             /\ After(k) \in Boxes \cup {"select"}
             /\ After(k) \in Plain /\ k \in Plain
  BY DEF WorkerPlaces, After, Boxes, Plain
<1>3. ASSUME NEW k \in Boxes
      PROVE  Serving[k] \notin Plain /\ Clearing[k] \notin Plain
  BY DEF Serving, Clearing, Boxes, Plain, InGet
<1>4. ASSUME NEW k \in Boxes, NEW j \in Boxes
      PROVE  /\ Serving[j] # Clearing[k]
             /\ j # k => Serving[j] # Serving[k] /\ Clearing[j] # Clearing[k]
  BY DEF Serving, Clearing, Boxes
<1>5. QED
  BY <1>1, <1>2, <1>3, <1>4

LEMMA MessageNames ==
    ASSUME NEW type, NEW names, NEW m \in Message(type, names)
    PROVE  m.name \in names
BY DEF Message

-----------------------------------------------------------------------------
(* Which variables the command line, the worker and the threads leave.     *)

LEMMA MainFrame ==
    Main => /\ UNCHANGED <<arg0, arg1, transfer, found, served, saved, input>>
            /\ Start \/ UNCHANGED <<worker, isReady>>
            /\ inputData' \in {inputData, <<>>}
            /\ \/ main' = Idle
               \/ \E at \in MainPlaces \ {"read", "call"} : main' = [main EXCEPT !.at = at]
<1> USE DEF userVars, lifeVars, boxVars, getVars, goalVars, countVars, transferVars, GoTo, Return,
            MainPlaces
<1>1. CASE Start \/ Ignored \/ Stop \/ StopJoin \/ AddFile
  BY <1>1 DEF Start, Ignored, Stop, StopJoin, AddFile
<1>2. ASSUME NEW k \in Boxes, PostPayload(k)
      PROVE  /\ UNCHANGED <<arg0, arg1, transferVars, found, served, saved, input, worker, isReady>>
             /\ \E at \in MainPlaces \ {"read", "call"} : main' = [main EXCEPT !.at = at]
  BY <1>2 DEF PostPayload
<1>3. ASSUME NEW k \in Boxes, PostFlag(k)
      PROVE  /\ UNCHANGED <<arg0, arg1, transferVars, found, served, saved, input, worker, isReady>>
             /\ main' = Idle
  BY <1>3 DEF PostFlag
<1>4. CASE ListWait \/ GetName \/ GetPath \/ GetFlag \/ GetWait
  BY <1>4 DEF ListWait, GetName, GetPath, GetFlag, GetWait
<1>5. QED
  BY <1>1, <1>2, <1>3, <1>4 DEF Main

LEMMA WorkerFrame ==
    Worker => /\ worker # "dead"
              /\ UNCHANGED <<userVars, lifeVars, payload, accepted, getFilename,
                             getFileLocalPath, files, asked, input>>
              /\ shouldGetFile' = shouldGetFile \/ shouldGetFile' = FALSE
<1> USE DEF userVars, lifeVars, boxVars, getVars, goalVars, countVars, WorkerStep
<1>1. ASSUME NEW k \in Boxes, TestBox(k) \/ ServeBox(k) \/ ClearBox(k)
      PROVE  /\ worker # "dead"
             /\ UNCHANGED <<userVars, lifeVars, payload, accepted, shouldGetFile, getFilename,
                            getFileLocalPath, files, asked, input>>
  <2>1. worker # "dead"
    BY <1>1, Places DEF TestBox, ServeBox, ClearBox, Plain, Boxes
  <2>2. QED
    BY <1>1, <2>1 DEF TestBox, ServeBox, ClearBox
<1>2. CASE Top \/ Leave \/ StartQueued \/ NothingToStart \/ TestGet \/ ClearGet \/ LookUp
  BY <1>2 DEF Top, Leave, StartQueued, NothingToStart, TestGet, ClearGet, LookUp
<1>3. CASE CopyLocal \/ FindFile \/ AwaitInfo
  BY <1>3 DEF CopyLocal, FindFile, AwaitInfo
<1>4. CASE Select \/ Receive
  BY <1>4 DEF Select, Receive
<1>5. QED
  BY <1>1, <1>2, <1>3, <1>4 DEF Worker

LEMMA ThreadFrame ==
    ASSUME NEW t \in Transfers, Thread(t)
    PROVE  /\ UNCHANGED <<userVars, lifeVars, worker, isReady, boxVars, found, inbox, inputData,
                          asked, input>>
           /\ Save(t) \/ UNCHANGED saved
           /\ Clear(t) \/ UNCHANGED getVars
<1> USE DEF userVars, lifeVars, boxVars, getVars, goalVars, countVars
<1>1. QED
  BY DEF Thread, Fail, Check, Save, Clear, StoreLocal, TransferStep

LEMMA RequestFrame ==
    RequestComes => UNCHANGED <<userVars, lifeVars, worker, isReady, boxVars, getVars, found,
                                transferVars, files, goalVars, input>>
BY DEF RequestComes

\* What was asked for, and what went wrong, is kept.
LEMMA HistoryGrows == [Next]_vars => asked \subseteq asked' /\ mishaps \subseteq mishaps'
<1> SUFFICES ASSUME [Next]_vars PROVE asked \subseteq asked' /\ mishaps \subseteq mishaps'
  OBVIOUS
<1> USE DEF goalVars
<1>1. ASSUME NEW k \in Boxes, PostPayload(k) \/ PostFlag(k) \/ TestBox(k) \/ ServeBox(k) \/ ClearBox(k)
      PROVE  UNCHANGED <<asked, mishaps>>
  BY <1>1 DEF PostPayload, PostFlag, TestBox, ServeBox, ClearBox
<1>2. CASE Start \/ Ignored \/ Stop \/ StopJoin \/ AddFile
  BY <1>2 DEF Start, Ignored, Stop, StopJoin, AddFile, Fails, Mishap
<1>3. CASE ListWait \/ GetName \/ GetPath \/ GetFlag \/ GetWait
  BY <1>3 DEF ListWait, GetName, GetPath, GetFlag, GetWait, Mishap
<1>4. CASE \/ Top \/ Leave \/ StartQueued \/ NothingToStart \/ TestGet \/ ClearGet \/ LookUp
           \/ CopyLocal \/ AwaitInfo \/ Receive
  BY <1>4 DEF Top, Leave, StartQueued, NothingToStart, TestGet, ClearGet, LookUp, CopyLocal,
              AwaitInfo, Receive
<1>5. CASE FindFile \/ Select
  BY <1>5 DEF FindFile, Select, Fails
<1>6. ASSUME NEW t \in Transfers, Thread(t)
      PROVE  UNCHANGED asked /\ mishaps \subseteq mishaps'
  BY <1>6 DEF Thread, Fail, Check, Save, Clear, StoreLocal, Fails
<1>7. CASE ReadLine \/ RequestComes \/ UNCHANGED vars
  BY <1>7 DEF ReadLine, RequestComes, vars
<1>8. QED
  BY <1>1, <1>2, <1>3, <1>4, <1>5, <1>6, <1>7 DEF Next, Main, Worker

-----------------------------------------------------------------------------
(* The worker has its sockets.                                             *)

LEMMA SocketsNext == WorkerHasSockets /\ [Next]_vars => WorkerHasSockets'
<1> SUFFICES ASSUME WorkerHasSockets, [Next]_vars PROVE WorkerHasSockets'
  OBVIOUS
<1>1. CASE Start
  BY <1>1 DEF Start, lifeVars, WorkerHasSockets
<1>2. CASE StopJoin
  BY <1>2 DEF StopJoin, WorkerHasSockets
<1>3. CASE Worker
  <2>1. worker # "dead" /\ UNCHANGED <<running, sockets>>
    <3>1. ASSUME NEW k \in Boxes, TestBox(k) \/ ServeBox(k) \/ ClearBox(k)
          PROVE  worker # "dead" /\ UNCHANGED <<running, sockets>>
      BY <3>1, Places DEF TestBox, ServeBox, ClearBox, WorkerStep, lifeVars, Plain, Boxes
    <3>2. CASE Top \/ Leave \/ StartQueued \/ NothingToStart \/ TestGet \/ ClearGet \/ LookUp \/ CopyLocal \/ FindFile \/ AwaitInfo
      BY <3>2 DEF Top, Leave, StartQueued, NothingToStart, TestGet, ClearGet, LookUp, CopyLocal, FindFile, AwaitInfo,
                  WorkerStep, lifeVars
    <3>3. CASE Select \/ Receive
      BY <3>3 DEF Select, Receive, WorkerStep, lifeVars
    <3>4. QED
      BY <1>3, <3>1, <3>2, <3>3 DEF Worker
  <2>2. QED
    BY <2>1 DEF WorkerHasSockets
<1>4. CASE ReadLine \/ Ignored \/ AddFile \/ ListWait \/ GetName \/ GetPath \/ GetFlag \/ GetWait
  BY <1>4 DEF ReadLine, Ignored, AddFile, ListWait, GetName, GetPath, GetFlag, GetWait,
              lifeVars, WorkerHasSockets
<1>5. CASE Stop
  BY <1>5 DEF Stop, WorkerHasSockets
<1>6. ASSUME NEW k \in Boxes, PostPayload(k) \/ PostFlag(k)
      PROVE  WorkerHasSockets'
  BY <1>6 DEF PostPayload, PostFlag, lifeVars, WorkerHasSockets
<1>7. CASE RequestComes
  BY <1>7 DEF RequestComes, lifeVars, WorkerHasSockets
<1>8. ASSUME NEW t \in Transfers, Thread(t)
      PROVE  WorkerHasSockets'
  BY <1>8 DEF Thread, Fail, Check, Save, Clear, StoreLocal, lifeVars, WorkerHasSockets
<1>9. CASE UNCHANGED vars
  BY <1>9 DEF vars, lifeVars, WorkerHasSockets
<1>10. QED
  BY <1>1, <1>2, <1>3, <1>4, <1>5, <1>6, <1>7, <1>8, <1>9 DEF Next, Main
-----------------------------------------------------------------------------
(* The invariant holds at the start, and its parts are preserved.          *)

LEMMA CInit == Init => CInv
<1> SUFFICES ASSUME Init PROVE CInv
  OBVIOUS
<1>1. Idle.at = "read" /\ Idle.line \in Lines /\ Idle.line.arg0 = None /\ None \in STRING
  BY NoneAssumption DEF Idle, Lines
<1> USE DEF Init
<1>2. Typed
  <2>1. TypeOK
    <3>1. main \in [at : MainPlaces, line : Lines]
      BY <1>1 DEF Idle, MainPlaces
    <3>2. worker \in WorkerPlaces
      BY DEF WorkerPlaces
    <3>3. flag \in [Boxes -> BOOLEAN]
      OBVIOUS
    <3>4. QED
      BY <3>1, <3>2, <3>3 DEF TypeOK, MainPlaces
  <2>2. payload \in [Boxes -> STRING]
    BY <1>1
  <2>3. accepted \in [Boxes -> Seq(STRING)] /\ served \in [Boxes -> Seq(STRING)]
    OBVIOUS
  <2>4. Slotted(transfer) /\ inputData \in Seq(QueuedType)
    BY DEF Slotted, TransferType, TransferPlaces, FreeSlot
  <2>5. input \in Seq(Lines) /\ \A i \in DOMAIN input : Named(input[i])
    <3>1. PICK session \in Sessions : input = session.lines
      OBVIOUS
    <3>2. QED
      BY <3>1, CommandsAssumption DEF Named
  <2>6. Named(main.line)
    BY <1>1 DEF Named
  <2>7. QED
    BY <1>1, <2>1, <2>2, <2>3, <2>4, <2>5, <2>6 DEF Typed
<1>3. BoxInv
  <2>1. ASSUME NEW k \in Boxes
        PROVE  worker \notin {Serving[k], Clearing[k]}
    BY <2>1, Places DEF Plain
  <2>2. QED
    BY <1>1, <2>1 DEF BoxInv, BoxIsOwned, Posting
<1>4. ArgumentsAreOwn /\ Executes /\ WorkerHasSockets /\ SavedIsAsked
  BY <1>1 DEF ArgumentsAreOwn, Executes, WorkerHasSockets, SavedIsAsked, Calls
<1>5. Given /\ GetInv
  BY <1>1 DEF Given, GetInv, Asking, Destination, Leaving, FreeSlot
<1>6. QED
  BY <1>2, <1>3, <1>4, <1>5 DEF CInv

\* What the user types and what main() keeps of it.
LEMMA UserTyped ==
    ASSUME Typed, [Next]_vars
    PROVE  /\ main' \in [at : MainPlaces, line : Lines] /\ Named(main'.line)
           /\ arg0' \in STRING /\ arg1' \in STRING
           /\ input' \in Seq(Lines) /\ \A i \in DOMAIN input' : Named(input'[i])
<1>1. /\ main \in [at : MainPlaces, line : Lines] /\ Named(main.line)
      /\ arg0 \in STRING /\ arg1 \in STRING
      /\ input \in Seq(Lines) /\ \A i \in DOMAIN input : Named(input[i])
  BY DEF Typed, TypeOK, MainPlaces
<1>2. Idle \in [at : MainPlaces, line : Lines] /\ Named(Idle.line)
  BY NoneAssumption DEF Idle, Lines, MainPlaces, Named
<1>3. CASE ReadLine
  <2> DEFINE line == Head(input)
             args == Parsed(line)
  <2>1. line \in Lines /\ Named(line)
    BY <1>1, <1>3 DEF ReadLine
  <2>2. args \in ArgsType
    BY <1>1, <2>1, ParsedFits
  <2>3. input' \in Seq(Lines) /\ \A i \in DOMAIN input' : Named(input'[i])
    BY <1>1, <1>3 DEF ReadLine
  <2>4. /\ main' = IF args.ok THEN [at |-> "call", line |-> line] ELSE Idle
        /\ arg0' = args.arg0
        /\ arg1' = IF line.cmd = "get" /\ args.arg1 = None THEN args.arg0 ELSE args.arg1
    BY <1>3 DEF ReadLine
  <2> HIDE DEF line, args
  <2>5. arg0' \in STRING /\ arg1' \in STRING
    BY <2>2, <2>4 DEF ArgsType
  <2>6. main' \in [at : MainPlaces, line : Lines] /\ Named(main'.line)
    BY <1>2, <2>1, <2>4 DEF MainPlaces
  <2>7. QED
    BY <2>3, <2>5, <2>6
<1>4. CASE Main
  <2>1. UNCHANGED <<arg0, arg1, input>>
    BY <1>4, MainFrame
  <2>2. CASE main' = Idle
    BY <1>1, <1>2, <2>1, <2>2
  <2>3. ASSUME NEW at \in MainPlaces, main' = [main EXCEPT !.at = at]
        PROVE  main' \in [at : MainPlaces, line : Lines] /\ main'.line = main.line
    BY <1>1, <2>3
  <2>4. QED
    BY <1>1, <1>4, <2>1, <2>2, <2>3, MainFrame
<1>5. CASE Worker \/ RequestComes \/ \E t \in Transfers : Thread(t)
  BY <1>1, <1>5, WorkerFrame, RequestFrame, ThreadFrame DEF userVars
<1>6. CASE UNCHANGED vars
  BY <1>1, <1>6 DEF vars, userVars, countVars
<1>7. QED
  BY <1>3, <1>4, <1>5, <1>6 DEF Next

\* The service and its worker.
LEMMA WorkerTyped ==
    ASSUME Typed, [Next]_vars
    PROVE  /\ running' \in BOOLEAN /\ exitFlag' \in BOOLEAN /\ isReady' \in BOOLEAN
           /\ sockets' \subseteq BothSockets
           /\ worker' \in WorkerPlaces /\ found' \in Names \cup {None}
           /\ shouldGetFile' \in BOOLEAN /\ getFileWaitForInfo' \in BOOLEAN
<1>1. /\ running \in BOOLEAN /\ exitFlag \in BOOLEAN /\ isReady \in BOOLEAN
      /\ sockets \subseteq BothSockets
      /\ worker \in WorkerPlaces /\ found \in Names \cup {None}
      /\ shouldGetFile \in BOOLEAN /\ getFileWaitForInfo \in BOOLEAN
      /\ getFilename \in Names \cup {None}
  BY DEF Typed, TypeOK
<1>2. /\ {"dead", "top", "leave", "new", "get", "select", "receive", "remove"} \subseteq WorkerPlaces
      /\ InGet \subseteq WorkerPlaces
  BY DEF WorkerPlaces, Boxes
<1>3. CASE Main
  <2>1. found' = found
    BY <1>3, MainFrame
  <2>2. CASE Start
    BY <1>1, <1>2, <2>1, <2>2 DEF Start, lifeVars, getVars, BothSockets
  <2>3. CASE Ignored \/ Stop \/ StopJoin \/ AddFile
    BY <1>1, <2>1, <2>3 DEF Ignored, Stop, StopJoin, AddFile, lifeVars, getVars
  <2>4. ASSUME NEW k \in Boxes, PostPayload(k) \/ PostFlag(k)
        PROVE  UNCHANGED <<lifeVars, worker, isReady, getVars>>
    BY <2>4 DEF PostPayload, PostFlag
  <2>5. CASE ListWait \/ GetName \/ GetPath \/ GetFlag \/ GetWait
    BY <1>1, <2>1, <2>5 DEF ListWait, GetName, GetPath, GetFlag, GetWait, lifeVars
  <2>6. QED
    BY <1>1, <1>3, <2>1, <2>2, <2>3, <2>4, <2>5 DEF Main, lifeVars, getVars
<1>4. CASE Worker
  <2>1. UNCHANGED lifeVars /\ shouldGetFile' \in BOOLEAN
    BY <1>1, <1>4, WorkerFrame
  <2>2. ASSUME NEW k \in Boxes, TestBox(k) \/ ServeBox(k) \/ ClearBox(k)
        PROVE  worker' \in WorkerPlaces /\ UNCHANGED <<isReady, found, getVars>>
    <3>1. UNCHANGED <<isReady, found, getVars>>
      BY <2>2 DEF TestBox, ServeBox, ClearBox
    <3>2. /\ Serving[k] \in WorkerPlaces /\ Clearing[k] \in WorkerPlaces
          /\ After(k) \in WorkerPlaces
      BY Places
    <3>3. QED
      BY <2>2, <3>1, <3>2 DEF TestBox, ServeBox, ClearBox, WorkerStep
  <2>3. CASE Top \/ Leave \/ StartQueued \/ NothingToStart \/ TestGet \/ ClearGet \/ LookUp
    BY <1>1, <1>2, <2>1, <2>3
       DEF Top, Leave, StartQueued, NothingToStart, TestGet, ClearGet, LookUp, WorkerStep, getVars, lifeVars, InGet
  <2>4. CASE CopyLocal \/ FindFile \/ AwaitInfo
    BY <1>1, <1>2, <2>1, <2>4
       DEF CopyLocal, FindFile, AwaitInfo, WorkerStep, getVars, lifeVars, InGet
  <2>5. CASE Select \/ Receive
    BY <1>1, <1>2, <2>1, <2>5 DEF Select, Receive, WorkerStep, getVars, lifeVars
  <2>6. QED
    BY <1>1, <1>4, <2>1, <2>2, <2>3, <2>4, <2>5 DEF Worker, getVars, lifeVars
<1>5. ASSUME NEW t \in Transfers, Thread(t)
      PROVE  /\ UNCHANGED <<lifeVars, worker, isReady, found>>
             /\ shouldGetFile' \in BOOLEAN /\ getFileWaitForInfo' \in BOOLEAN
  BY <1>1, <1>5, ThreadFrame DEF Clear, getVars
<1>6. CASE ReadLine \/ RequestComes \/ UNCHANGED vars
  BY <1>1, <1>6 DEF ReadLine, RequestComes, vars, lifeVars, getVars
<1>7. QED
  BY <1>1, <1>3, <1>4, <1>5, <1>6 DEF Next, lifeVars

LEMMA Appended ==
    ASSUME NEW S, NEW s \in Seq(S), NEW e \in S
    PROVE  Append(s, e) \in Seq(S)
OBVIOUS

\* The boxes.
LEMMA BoxTyped ==
    ASSUME Typed, [Next]_vars
    PROVE  /\ flag' \in [Boxes -> BOOLEAN] /\ payload' \in [Boxes -> STRING]
           /\ accepted' \in [Boxes -> Seq(STRING)] /\ served' \in [Boxes -> Seq(STRING)]
<1>1. /\ flag \in [Boxes -> BOOLEAN] /\ payload \in [Boxes -> STRING] /\ arg0 \in STRING
      /\ accepted \in [Boxes -> Seq(STRING)] /\ served \in [Boxes -> Seq(STRING)]
  BY DEF Typed, TypeOK
<1>2. ASSUME NEW k \in Boxes, PostPayload(k) \/ PostFlag(k)
      PROVE  /\ flag' \in [Boxes -> BOOLEAN] /\ payload' \in [Boxes -> STRING]
             /\ accepted' \in [Boxes -> Seq(STRING)] /\ served' \in [Boxes -> Seq(STRING)]
  <2>1. CASE PostPayload(k)
    BY <1>1, <2>1 DEF PostPayload
  <2>2. CASE PostFlag(k)
    <3>1. accepted[k] \in Seq(STRING) /\ arg0 \in STRING
      BY <1>1
    <3>2. Append(accepted[k], arg0) \in Seq(STRING)
      BY <3>1, Appended
    <3>3. QED
      BY <1>1, <2>2, <3>2 DEF PostFlag
  <2>3. QED
    BY <1>2, <2>1, <2>2
<1>3. ASSUME NEW k \in Boxes, TestBox(k) \/ ServeBox(k) \/ ClearBox(k)
      PROVE  /\ flag' \in [Boxes -> BOOLEAN] /\ payload' \in [Boxes -> STRING]
             /\ accepted' \in [Boxes -> Seq(STRING)] /\ served' \in [Boxes -> Seq(STRING)]
  <2>1. CASE TestBox(k) \/ ClearBox(k)
    BY <1>1, <2>1 DEF TestBox, ClearBox, boxVars
  <2>2. CASE ServeBox(k)
    <3>1. Append(served[k], payload[k]) \in Seq(STRING)
      BY <1>1
    <3>2. QED
      BY <1>1, <2>2, <3>1 DEF ServeBox
  <2>3. QED
    BY <1>3, <2>1, <2>2
<1>4. ASSUME Main, ~\E k \in Boxes : PostPayload(k) \/ PostFlag(k)
      PROVE  UNCHANGED boxVars
  BY <1>4 DEF Main, Start, Ignored, Stop, StopJoin, AddFile, ListWait, GetName, GetPath, GetFlag, GetWait
<1>5. ASSUME Worker, ~\E k \in Boxes : TestBox(k) \/ ServeBox(k) \/ ClearBox(k)
      PROVE  UNCHANGED boxVars
  BY <1>5 DEF Worker, Top, Leave, StartQueued, NothingToStart, TestGet, ClearGet, LookUp, CopyLocal, FindFile, AwaitInfo,
              Select, Receive
<1>6. ASSUME NEW t \in Transfers, Thread(t)
      PROVE  UNCHANGED boxVars
  BY <1>6, ThreadFrame
<1>7. ASSUME ReadLine \/ RequestComes \/ UNCHANGED vars
      PROVE  UNCHANGED boxVars
  BY <1>7 DEF ReadLine, RequestComes, vars
<1>8. QED
  BY <1>1, <1>2, <1>3, <1>4, <1>5, <1>6, <1>7 DEF Next, boxVars

\* The arguments of an add and of a get are names.
LEMMA NamesCalled ==
    ASSUME Typed, ArgumentsAreOwn, Executes
    PROVE  /\ Calls("get") => arg0 \in Names \cup {None}
           /\ Calls("add") => arg0 \in Names
BY DEF Typed, Named, ArgumentsAreOwn, Executes, Calls

\* A transfer goes into a slot that is free.
LEMMA LaunchFacts ==
    ASSUME HasFreeSlot, NEW new, Launch(new)
    PROVE  \E t \in Transfers : IsFree(t) /\ transfer' = [transfer EXCEPT ![t] = new]
<1> DEFINE slot == CHOOSE t \in Transfers : IsFree(t)
<1>1. slot \in Transfers /\ IsFree(slot)
  BY DEF HasFreeSlot
<1>2. transfer' = [transfer EXCEPT ![slot] = new]
  BY DEF Launch
<1> HIDE DEF slot
<1>3. QED
  BY <1>1, <1>2

LEMMA LaunchTyped ==
    ASSUME Slotted(transfer), HasFreeSlot, NEW new \in QueuedType, Launch(new)
    PROVE  Slotted(transfer')
<1>1. PICK t \in Transfers : transfer' = [transfer EXCEPT ![t] = new]
  BY LaunchFacts
<1>2. new \in TransferType /\ new.name \in Names
  BY DEF QueuedType, TransferType, TransferPlaces
<1>3. QED
  BY <1>1, <1>2 DEF Slotted

\* File names: of the download, of the list and of what is under way.
LEMMA NamesTyped ==
    ASSUME Typed, ArgumentsAreOwn, Executes, [Next]_vars
    PROVE  /\ getFilename' \in Names \cup {None}
           /\ files' \subseteq Names
           /\ \A m \in inbox' : m.name \in Names
           /\ Slotted(transfer') /\ inputData' \in Seq(QueuedType)
<1>1. /\ getFilename \in Names \cup {None} /\ files \subseteq Names
      /\ \A m \in inbox : m.name \in Names
      /\ Slotted(transfer) /\ inputData \in Seq(QueuedType)
  BY DEF Typed, TypeOK
<1>2. CASE Main
  <2>1. transfer' = transfer /\ inputData' \in Seq(QueuedType)
    <3>1. <<>> \in Seq(QueuedType)
      OBVIOUS
    <3>2. transfer' = transfer /\ inputData' \in {inputData, <<>>}
      BY <1>2, MainFrame
    <3>3. QED
      BY <1>1, <3>1, <3>2
  <2>2. CASE GetName
    BY <1>1, <2>1, <2>2, NamesCalled DEF GetName
  <2>3. CASE AddFile
    BY <1>1, <2>1, <2>3, NamesCalled DEF AddFile, getVars
  <2>4. CASE StopJoin
    BY <1>1, <2>1, <2>4 DEF StopJoin, getVars
  <2>5. ASSUME NEW k \in Boxes, PostPayload(k) \/ PostFlag(k)
        PROVE  UNCHANGED <<getFilename, files, inbox>>
    BY <2>5 DEF PostPayload, PostFlag, getVars
  <2>6. CASE Start \/ Ignored \/ Stop \/ ListWait \/ GetPath \/ GetFlag \/ GetWait
    BY <1>1, <2>1, <2>6 DEF Start, Ignored, Stop, ListWait, GetPath, GetFlag, GetWait, getVars
  <2>7. QED
    BY <1>1, <1>2, <2>1, <2>2, <2>3, <2>4, <2>5, <2>6 DEF Main
<1>3. CASE Worker
  <2>1. UNCHANGED <<getFilename, files>>
    BY <1>3, WorkerFrame
  <2>2. CASE FindFile
    <3>1. UNCHANGED transferVars
      BY <2>2 DEF FindFile
    <3>2. \A m \in Message("info", {getFilename} \cap Names) : m.name \in Names
      BY MessageNames
    <3>3. inbox' = inbox \/ inbox' = inbox \cup Message("info", {getFilename} \cap Names)
      BY <2>2 DEF FindFile
    <3>4. QED
      BY <1>1, <2>1, <3>1, <3>2, <3>3 DEF transferVars
  <2>3. ASSUME NEW k \in Boxes, TestBox(k) \/ ServeBox(k) \/ ClearBox(k)
        PROVE  UNCHANGED transferVars /\ \A m \in inbox' : m.name \in Names
    <3>1. \A m \in Message("info", Names) : m.name \in Names
      BY MessageNames
    <3>2. QED
      BY <1>1, <2>3, <3>1 DEF TestBox, ServeBox, ClearBox
  <2>4. CASE Receive
    <3>1. PICK m \in inbox :
             /\ inbox' = inbox \ {m}
             /\ \/ HasFreeSlot /\ Launch(TransferOf(m)) /\ UNCHANGED inputData
                \/ inputData' = Append(inputData, TransferOf(m)) /\ UNCHANGED transfer
                \/ UNCHANGED transferVars
      BY <2>4 DEF Receive
    <3>2. TransferOf(m) \in QueuedType
      BY <1>1 DEF TransferOf, QueuedType
    <3>3. Slotted(transfer') /\ inputData' \in Seq(QueuedType)
      BY <1>1, <3>1, <3>2, LaunchTyped DEF transferVars
    <3>4. QED
      BY <1>1, <2>1, <3>1, <3>3
  <2>5. CASE StartQueued
    <3>1. Head(inputData) \in QueuedType /\ Tail(inputData) \in Seq(QueuedType)
      BY <1>1, <2>5 DEF StartQueued
    <3>2. Slotted(transfer') /\ inputData' \in Seq(QueuedType)
      BY <1>1, <2>5, <3>1, LaunchTyped DEF StartQueued
    <3>3. QED
      BY <1>1, <2>1, <2>5, <3>2 DEF StartQueued
  <2>6. CASE Top
    <3>1. FreeSlot \in TransferType
      BY DEF FreeSlot, TransferType, TransferPlaces
    <3>2. Slotted(transfer')
      BY <1>1, <2>6, <3>1 DEF Top, Slotted, FreeSlot
    <3>3. QED
      BY <1>1, <2>1, <2>6, <3>2 DEF Top
  <2>7. CASE \/ Leave \/ NothingToStart \/ TestGet \/ ClearGet \/ LookUp \/ CopyLocal
             \/ AwaitInfo \/ Select
    BY <1>1, <2>1, <2>7 DEF Leave, NothingToStart, TestGet, ClearGet, LookUp, CopyLocal, AwaitInfo,
                            Select, transferVars
  <2>8. QED
    BY <1>1, <1>3, <2>1, <2>2, <2>3, <2>4, <2>5, <2>6, <2>7 DEF Worker, transferVars
<1>4. ASSUME NEW t \in Transfers, Thread(t)
      PROVE  /\ Slotted(transfer') /\ getFilename' \in Names \cup {None} /\ files' \subseteq Names
             /\ UNCHANGED <<inbox, inputData>>
  <2>1. UNCHANGED <<inbox, inputData>>
    BY <1>4, ThreadFrame
  <2>2. ASSUME NEW from \in TransferPlaces \ {"new"}, NEW to \in TransferPlaces,
               TransferStep(t, from, to)
        PROVE  Slotted(transfer') /\ transfer[t].name \in Names
    BY <1>1, <2>2 DEF TransferStep, TransferType, Slotted
  <2>3. CASE Fail(t)
    BY <1>1, <2>1, <2>2, <2>3 DEF Fail, TransferPlaces, InSave, getVars
  <2>4. CASE Check(t)
    <3>1. {"fetch", "save", "store"} \subseteq TransferPlaces
      BY DEF TransferPlaces, InSave
    <3>2. QED
      BY <1>1, <2>1, <2>2, <2>4, <3>1 DEF Check, getVars
  <2>5. CASE Save(t)
    BY <1>1, <2>1, <2>2, <2>5 DEF Save, TransferPlaces, InSave, getVars
  <2>6. CASE Clear(t)
    <3>1. Slotted(transfer')
      BY <2>2, <2>6 DEF Clear, TransferPlaces, InSave
    <3>2. QED
      BY <1>1, <2>1, <2>6, <3>1 DEF Clear
  <2>7. CASE StoreLocal(t)
    <3>1. Slotted(transfer') /\ transfer[t].name \in Names
      BY <2>2, <2>7 DEF StoreLocal, TransferPlaces
    <3>2. QED
      BY <1>1, <2>1, <2>7, <3>1 DEF StoreLocal, getVars
  <2>8. QED
    BY <1>4, <2>3, <2>4, <2>5, <2>6, <2>7 DEF Thread
<1>5. CASE RequestComes
  <2>1. \A m \in Message("request", Names) : m.name \in Names
    BY MessageNames
  <2>2. QED
    BY <1>1, <1>5, <2>1 DEF RequestComes, getVars, transferVars
<1>6. CASE ReadLine \/ UNCHANGED vars
  BY <1>1, <1>6 DEF ReadLine, vars, getVars, transferVars
<1>7. QED
  BY <1>1, <1>2, <1>3, <1>4, <1>5, <1>6 DEF Next

LEMMA TypedNext == CInv /\ [Next]_vars => Typed'
<1> SUFFICES ASSUME Typed, ArgumentsAreOwn, Executes, [Next]_vars PROVE Typed'
  BY DEF CInv
<1>1. QED
  BY UserTyped, WorkerTyped, BoxTyped, NamesTyped DEF Typed, TypeOK, MainPlaces

\* The line just read is the one whose arguments main() holds; no other step
\* begins a command.
LEMMA ArgumentsNext == CInv /\ [Next]_vars => ArgumentsAreOwn' /\ Executes'
<1> SUFFICES ASSUME Typed, ArgumentsAreOwn, Executes, [Next]_vars
             PROVE  ArgumentsAreOwn' /\ Executes'
  BY DEF CInv
<1>1. Idle.at = "read"
  BY DEF Idle
<1>2. CASE ReadLine
  <2> DEFINE line == Head(input)
             args == Parsed(line)
  <2>1. line \in Lines
    BY <1>2 DEF ReadLine, Typed
  <2>2. args \in ArgsType /\ (args.ok => Fits(args, line))
    BY <2>1, ParsedFits DEF Typed
  <2>3. /\ main' = IF args.ok THEN [at |-> "call", line |-> line] ELSE Idle
        /\ arg0' = args.arg0
        /\ arg1' = IF line.cmd = "get" /\ args.arg1 = None THEN args.arg0 ELSE args.arg1
    BY <1>2 DEF ReadLine
  <2> HIDE DEF line, args
  <2>4. CASE ~args.ok
    BY <1>1, <2>3, <2>4 DEF ArgumentsAreOwn, Executes, Calls
  <2>5. CASE args.ok
    <3>1. main'.at = "call" /\ main'.line = line
      BY <2>3, <2>5
    <3>2. Fits(args, line)
      BY <2>2, <2>5
    <3>3. Executes'
      BY <3>1, <3>2 DEF Executes, Calls, Fits
    <3>4. ASSUME ~(line.cmd = "start" /\ line.arg0 = None)
          PROVE  /\ arg0' = line.arg0 \/ line.cmd = "quit"
                 /\ line.cmd = "get" => arg1' = IF line.arg1 = None THEN line.arg0 ELSE line.arg1
      BY <2>3, <3>2, <3>4 DEF Fits
    <3>5. QED
      BY <3>1, <3>3, <3>4 DEF ArgumentsAreOwn
  <2>6. QED
    BY <2>4, <2>5
<1>3. CASE Main
  <2>1. main'.at # "call"
    BY <1>1, <1>3, MainFrame DEF Typed, TypeOK
  <2>2. CASE main' = Idle
    BY <1>1, <2>1, <2>2 DEF ArgumentsAreOwn, Executes, Calls
  <2>3. CASE Start \/ Ignored \/ Stop \/ StopJoin \/ AddFile
    <3>1. main' = Idle \/ \E at \in {"gone", "join"} : main' = [main EXCEPT !.at = at]
      BY <2>3 DEF Start, Ignored, Stop, StopJoin, AddFile, GoTo, Return
    <3>2. QED
      BY <2>1, <2>2, <3>1 DEF ArgumentsAreOwn, Executes, Calls, Typed, TypeOK
  <2>4. ASSUME NEW k \in Boxes, PostPayload(k) \/ PostFlag(k)
        PROVE  Executes'
    <3>1. CASE PostPayload(k)
      <4>1. /\ main' = [main EXCEPT !.at = IF k = "list" THEN "listWait" ELSE "flag"]
            /\ main.line.cmd = k
        BY <3>1 DEF PostPayload, GoTo, Calls
      <4>2. QED
        BY <2>1, <4>1 DEF Executes, Calls, Typed, TypeOK
    <3>2. CASE PostFlag(k)
      BY <2>2, <3>2 DEF PostFlag, Return
    <3>3. QED
      BY <2>4, <3>1, <3>2
  <2>5. CASE ListWait
    BY <2>1, <2>5
       DEF ListWait, GoTo, ArgumentsAreOwn, Executes, Calls, Typed, TypeOK, Boxes
  <2>6. CASE GetName \/ GetPath \/ GetFlag \/ GetWait
    <3>1. CASE GetWait
      BY <2>2, <3>1 DEF GetWait, Return
    <3>2. CASE GetName \/ GetPath \/ GetFlag
      <4>1. /\ \E at \in {"getPath", "getFlag", "getWait"} : main' = [main EXCEPT !.at = at]
            /\ main.line.cmd = "get"
        BY <3>2 DEF GetName, GetPath, GetFlag, GoTo, Calls, Executes
      <4>2. QED
        BY <2>1, <4>1 DEF ArgumentsAreOwn, Executes, Calls, Typed, TypeOK
    <3>3. QED
      BY <2>6, <3>1, <3>2
  <2>7. QED
    BY <1>3, <2>1, <2>3, <2>4, <2>5, <2>6 DEF Main, ArgumentsAreOwn
<1>4. CASE Worker \/ RequestComes \/ \E t \in Transfers : Thread(t)
  <2>1. UNCHANGED userVars
    BY <1>4, WorkerFrame, RequestFrame, ThreadFrame
  <2>2. QED
    BY <2>1 DEF userVars, ArgumentsAreOwn, Executes, Calls
<1>5. CASE UNCHANGED vars
  BY <1>5 DEF vars, userVars, ArgumentsAreOwn, Executes, Calls
<1>6. QED
  BY <1>2, <1>3, <1>4, <1>5 DEF Next

\* What was accepted is what was served, and the argument in a full box.
LEMMA BoxNext == CInv /\ [Next]_vars => BoxInv'
<1> SUFFICES ASSUME Typed, Executes, BoxInv, WorkerHasSockets, [Next]_vars, NEW k \in Boxes
             PROVE  BoxIsOwned(k)'
  BY DEF CInv, BoxInv
<1>1. BoxIsOwned(k)
  BY DEF BoxInv
<1>2. /\ flag \in [Boxes -> BOOLEAN] /\ payload \in [Boxes -> STRING]
      /\ accepted \in [Boxes -> Seq(STRING)] /\ served \in [Boxes -> Seq(STRING)]
  BY DEF Typed, TypeOK
<1>3. Idle.at = "read"
  BY DEF Idle
<1>4. ASSUME UNCHANGED boxVars,
             worker' = worker \/ (worker \in Plain /\ worker' \in Plain),
             UNCHANGED userVars \/ main'.at \notin {"flag", "listWait"}
      PROVE  BoxIsOwned(k)'
  <2>1. /\ Posting(k)' => Posting(k) /\ arg0' = arg0
        /\ worker' = Serving[k] <=> worker = Serving[k]
        /\ worker' = Clearing[k] <=> worker = Clearing[k]
    BY <1>4, Places DEF Posting, userVars
  <2>2. QED
    BY <1>1, <1>4, <2>1 DEF boxVars, BoxIsOwned
<1>5. CASE Main
  <2>1. CASE Start
    <3>1. /\ UNCHANGED boxVars
          /\ worker' = worker \/ (worker \in Plain /\ worker' \in Plain)
          /\ main'.at \notin {"flag", "listWait"}
      BY <1>3, <2>1 DEF Start, Return, WorkerHasSockets, Plain
    <3>2. QED
      BY <1>4, <3>1
  <2>2. CASE Ignored \/ Stop \/ StopJoin \/ AddFile
    <3>1. UNCHANGED <<boxVars, worker>> /\ main'.at \notin {"flag", "listWait"}
      BY <1>3, <2>2 DEF Ignored, Stop, StopJoin, AddFile, GoTo, Return, Typed, TypeOK
    <3>2. QED
      BY <1>4, <3>1
  <2>3. CASE GetName \/ GetPath \/ GetFlag \/ GetWait
    <3>1. UNCHANGED <<boxVars, worker>> /\ main'.at \notin {"flag", "listWait"}
      BY <1>3, <2>3 DEF GetName, GetPath, GetFlag, GetWait, GoTo, Return, Typed, TypeOK
    <3>2. QED
      BY <1>4, <3>1
  <2>4. CASE ListWait
    <3>1. /\ Posting(k)' => Posting(k) /\ arg0' = arg0
          /\ UNCHANGED <<worker, boxVars>>
      BY <2>4 DEF ListWait, GoTo, Posting, Typed, TypeOK
    <3>2. QED
      BY <1>1, <3>1 DEF boxVars, BoxIsOwned
  <2>5. ASSUME NEW j \in Boxes, PostPayload(j)
        PROVE  BoxIsOwned(k)'
    <3>1. /\ Posting(k)' => j = k
          /\ ~flag[j] /\ payload' = [payload EXCEPT ![j] = arg0]
          /\ UNCHANGED <<worker, flag, accepted, served, arg0>>
      BY <2>5 DEF PostPayload, Calls, GoTo, Posting, Typed, TypeOK
    <3>2. QED
      BY <1>1, <1>2, <3>1 DEF BoxIsOwned
  <2>6. ASSUME NEW j \in Boxes, PostFlag(j)
        PROVE  BoxIsOwned(k)'
    <3>1. /\ ~Posting(k)'
          /\ flag' = [flag EXCEPT ![j] = TRUE]
          /\ accepted' = [accepted EXCEPT ![j] = Append(accepted[j], arg0)]
          /\ UNCHANGED <<worker, payload, served>>
      BY <1>3, <2>6 DEF PostFlag, Return, Posting
    <3>2. j = k => Posting(k)
      BY <2>6 DEF PostFlag, Posting
    <3>3. QED
      BY <1>1, <1>2, <3>1, <3>2 DEF BoxIsOwned
  <2>7. QED
    BY <1>5, <2>1, <2>2, <2>3, <2>4, <2>5, <2>6 DEF Main
<1>6. CASE Worker
  <2>1. UNCHANGED <<userVars, payload, accepted>>
    BY <1>6, WorkerFrame
  <2>2. Posting(k)' = Posting(k) /\ arg0' = arg0
    BY <2>1 DEF userVars, Posting
  <2>3. ASSUME NEW j \in Boxes, TestBox(j)
        PROVE  BoxIsOwned(k)'
    <3>1. /\ worker = j /\ worker' = IF flag[j] THEN Serving[j] ELSE After(j)
          /\ UNCHANGED boxVars
      BY <2>3 DEF TestBox, WorkerStep
    <3>2. worker # Clearing[k] /\ worker' # Clearing[k] /\ (worker' = Serving[k] => flag[k])
      BY <3>1, Places
    <3>3. QED
      BY <1>1, <2>1, <2>2, <3>1, <3>2 DEF boxVars, BoxIsOwned
  <2>4. ASSUME NEW j \in Boxes, ServeBox(j)
        PROVE  BoxIsOwned(k)'
    <3>1. /\ worker = Serving[j] /\ worker' = Clearing[j]
          /\ served' = [served EXCEPT ![j] = Append(served[j], payload[j])]
          /\ UNCHANGED <<flag, payload, accepted>>
      BY <2>4 DEF ServeBox, WorkerStep
    <3>2. CASE j = k
      <4>1. worker # Clearing[k] /\ flag[k]
        BY <1>1, <3>1, <3>2, Places DEF BoxIsOwned
      <4>2. QED
        BY <1>1, <1>2, <2>2, <3>1, <3>2, <4>1 DEF BoxIsOwned
    <3>3. CASE j # k
      <4>1. worker # Clearing[k] /\ worker' \notin {Serving[k], Clearing[k]}
        BY <3>1, <3>3, Places
      <4>2. QED
        BY <1>1, <1>2, <2>2, <3>1, <3>3, <4>1 DEF BoxIsOwned
    <3>4. QED
      BY <3>2, <3>3
  <2>5. ASSUME NEW j \in Boxes, ClearBox(j)
        PROVE  BoxIsOwned(k)'
    <3>1. /\ worker = Clearing[j] /\ worker' = After(j)
          /\ flag' = [flag EXCEPT ![j] = FALSE]
          /\ UNCHANGED <<payload, accepted, served>>
      BY <2>5 DEF ClearBox, WorkerStep
    <3>2. worker' \notin {Serving[k], Clearing[k]}
      BY <3>1, Places
    <3>3. j # k => worker # Clearing[k]
      BY <3>1, Places
    <3>4. QED
      BY <1>1, <1>2, <2>2, <3>1, <3>2, <3>3 DEF BoxIsOwned
  <2>6. ASSUME ~\E j \in Boxes : TestBox(j) \/ ServeBox(j) \/ ClearBox(j)
        PROVE  UNCHANGED <<userVars, boxVars>> /\ worker \in Plain /\ worker' \in Plain
    <3>1. CASE Top \/ Leave \/ StartQueued \/ NothingToStart \/ TestGet \/ ClearGet \/ LookUp
      BY <3>1 DEF Top, Leave, StartQueued, NothingToStart, TestGet, ClearGet, LookUp, WorkerStep, Plain, InGet, Boxes
    <3>2. CASE CopyLocal \/ FindFile \/ AwaitInfo
      BY <3>2 DEF CopyLocal, FindFile, AwaitInfo, WorkerStep, Plain, InGet, Boxes
    <3>3. CASE Select \/ Receive
      BY <3>3 DEF Select, Receive, WorkerStep, Plain
    <3>4. QED
      BY <1>6, <2>6, <3>1, <3>2, <3>3 DEF Worker
  <2>7. QED
    BY <1>4, <2>3, <2>4, <2>5, <2>6
<1>7. ASSUME NEW t \in Transfers, Thread(t)
      PROVE  BoxIsOwned(k)'
  <2>1. UNCHANGED <<userVars, worker, boxVars>>
    BY <1>7, ThreadFrame
  <2>2. QED
    BY <1>4, <2>1
<1>8. CASE ReadLine
  <2>1. UNCHANGED <<worker, boxVars>> /\ main'.at \notin {"flag", "listWait"}
    BY <1>3, <1>8 DEF ReadLine
  <2>2. QED
    BY <1>4, <2>1
<1>9. CASE RequestComes \/ UNCHANGED vars
  <2>1. UNCHANGED <<userVars, worker, boxVars>>
    BY <1>9 DEF RequestComes, vars
  <2>2. QED
    BY <1>4, <2>1
<1>10. QED
  BY <1>5, <1>6, <1>7, <1>8, <1>9 DEF Next

-----------------------------------------------------------------------------
(* The download.                                                           *)

\* What the worker starts is not at its end.
LEMMA LaunchedLeaves ==
    ASSUME Slotted(transfer), \A m \in inbox : m.name \in Names, inputData \in Seq(QueuedType),
           Receive \/ StartQueued, NEW t \in Transfers, transfer'[t].at \in InSave
    PROVE  transfer'[t] = transfer[t]
<1>1. ASSUME NEW new \in QueuedType, HasFreeSlot, Launch(new)
      PROVE  transfer'[t] = transfer[t]
  <2>1. PICK u \in Transfers : transfer' = [transfer EXCEPT ![u] = new]
    BY <1>1, LaunchFacts
  <2>2. new.at = "fetch"
    BY DEF QueuedType
  <2>3. QED
    BY <2>1, <2>2 DEF Slotted, InSave
<1>2. CASE Receive
  <2>1. PICK m \in inbox :
           \/ HasFreeSlot /\ Launch(TransferOf(m))
           \/ UNCHANGED transfer
    BY <1>2 DEF Receive, transferVars
  <2>2. TransferOf(m) \in QueuedType
    BY DEF TransferOf, QueuedType
  <2>3. QED
    BY <1>1, <2>1, <2>2
<1>3. CASE StartQueued
  BY <1>1, <1>3 DEF StartQueued
<1>4. QED
  BY <1>2, <1>3

\* No get has been hasty up to this step.
LEMMA NotHasty ==
    ASSUME CInv, [Next]_vars, "hasty" \notin mishaps'
    PROVE  Typed /\ GetInv
BY HistoryGrows DEF CInv

\* While the fields of a get are set, nobody begins to serve one.
LEMMA UnservedNext ==
    ASSUME CInv, [Next]_vars, "hasty" \notin mishaps'
    PROVE  (Asking => Unserved)'
<1> SUFFICES ASSUME Typed, Asking => Unserved, Asking'
             PROVE  Unserved'
  BY NotHasty DEF GetInv
<1>1. transfer \in [Transfers -> TransferType]
  BY DEF Typed, Slotted
<1>2. CASE ReadLine
  BY <1>2 DEF ReadLine, Asking, Idle
<1>3. CASE Main
  <2>1. CASE GetName
    <3>1. ~shouldGetFile /\ ~BeingServed
      BY <2>1 DEF GetName, Mishap
    <3>2. UNCHANGED <<shouldGetFile, getFileWaitForInfo, worker, transfer>>
      BY <2>1 DEF GetName, transferVars
    <3>3. QED
      BY <3>1, <3>2 DEF Unserved, BeingServed
  <2>2. CASE GetPath
    <3>1. Asking /\ UNCHANGED <<shouldGetFile, getFileWaitForInfo, worker, transfer>>
      BY <2>2 DEF GetPath, Asking, transferVars
    <3>2. QED
      BY <3>1 DEF Unserved, BeingServed
  <2>3. CASE Start \/ Ignored \/ Stop \/ StopJoin \/ AddFile
    BY <2>3 DEF Start, Ignored, Stop, StopJoin, AddFile, GoTo, Return, Idle, Asking,
                Typed, TypeOK
  <2>4. ASSUME NEW k \in Boxes, PostPayload(k) \/ PostFlag(k)
        PROVE  FALSE
    BY <2>4 DEF PostPayload, PostFlag, GoTo, Return, Idle, Asking, Typed, TypeOK
  <2>5. CASE ListWait \/ GetFlag \/ GetWait
    BY <2>5 DEF ListWait, GetFlag, GetWait, GoTo, Return, Idle, Asking, Typed, TypeOK
  <2>6. QED
    BY <1>3, <2>1, <2>2, <2>3, <2>4, <2>5 DEF Main
<1>4. CASE Worker
  <2>1. Unserved /\ shouldGetFile' = FALSE
    BY <1>4, WorkerFrame DEF userVars, Asking, Unserved
  <2>2. /\ ~getFileWaitForInfo /\ worker \notin InGet
        /\ \A t \in Transfers : transfer[t].at \notin InSave
    BY <2>1 DEF Unserved, BeingServed
  <2>3. ASSUME ~getFileWaitForInfo', worker' \notin InGet,
               \A t \in Transfers : transfer'[t].at \notin InSave
        PROVE  Unserved'
    BY <2>1, <2>3 DEF Unserved, BeingServed
  <2>4. CASE Leave \/ NothingToStart \/ TestGet \/ ClearGet \/ LookUp \/ CopyLocal \/ FindFile \/ AwaitInfo
    BY <2>1, <2>2, <2>3, <2>4
       DEF Leave, NothingToStart, TestGet, ClearGet, LookUp, CopyLocal, FindFile, AwaitInfo,
           WorkerStep, Unserved, InGet, getVars, transferVars
  <2>5. CASE Top
    <3>1. \A t \in Transfers : transfer'[t].at \in {transfer[t].at, "new"}
      BY <1>1, <2>5 DEF Top, FreeSlot
    <3>2. worker' \notin InGet /\ getFileWaitForInfo' = getFileWaitForInfo
      BY <2>5 DEF Top, WorkerStep, InGet, getVars
    <3>3. QED
      BY <2>2, <2>3, <3>1, <3>2 DEF InSave
  <2>6. ASSUME NEW k \in Boxes, TestBox(k) \/ ServeBox(k) \/ ClearBox(k)
        PROVE  Unserved'
    <3>1. /\ worker' \in {Serving[k], Clearing[k], After(k)}
          /\ UNCHANGED <<getFileWaitForInfo, transfer>>
      BY <2>6 DEF TestBox, ServeBox, ClearBox, WorkerStep, getVars, transferVars
    <3>2. Serving[k] \notin InGet /\ Clearing[k] \notin InGet /\ After(k) \notin InGet
      BY Places DEF Plain, InGet, Boxes
    <3>3. QED
      BY <2>2, <2>3, <3>1, <3>2
  <2>7. CASE Select
    BY <2>2, <2>3, <2>7 DEF Select, InGet, getVars, transferVars
  <2>8. CASE Receive \/ StartQueued
    <3>1. \A t \in Transfers : transfer'[t].at \in InSave => transfer'[t] = transfer[t]
      BY <2>8, LaunchedLeaves DEF Typed
    <3>2. worker' \notin InGet /\ getFileWaitForInfo' = getFileWaitForInfo
      BY <2>8 DEF Receive, StartQueued, WorkerStep, InGet, getVars
    <3>3. QED
      BY <2>2, <2>3, <3>1, <3>2
  <2>9. QED
    BY <1>4, <2>4, <2>5, <2>6, <2>7, <2>8 DEF Worker
<1>5. ASSUME NEW t \in Transfers, Thread(t)
      PROVE  Unserved'
  <2>1. Unserved /\ worker' = worker
    BY <1>5, ThreadFrame DEF userVars, Asking
  <2>2. ~getFileWaitForInfo /\ \A u \in Transfers : transfer[u].at \notin InSave
    BY <2>1 DEF Unserved, BeingServed
  <2>3. ~Save(t) /\ ~Clear(t)
    BY <2>2 DEF Save, Clear, TransferStep, InSave
  <2>4. UNCHANGED <<shouldGetFile, getFileWaitForInfo>>
    BY <1>5, <2>3, ThreadFrame DEF getVars
  <2>5. \A u \in Transfers : transfer'[u].at \in {transfer[u].at, "failed", "stuck", "store", "done"}
    BY <1>1, <1>5, <2>2, <2>3
       DEF Thread, Fail, Check, StoreLocal, TransferStep, TransferType
  <2>6. QED
    BY <2>1, <2>2, <2>4, <2>5 DEF Unserved, BeingServed, InSave
<1>6. CASE RequestComes \/ UNCHANGED vars
  BY <1>6 DEF RequestComes, vars, userVars, getVars, transferVars, Asking, Unserved, BeingServed
<1>7. QED
  BY <1>2, <1>3, <1>4, <1>5, <1>6 DEF Next

LEMMA DestinationNext ==
    ASSUME CInv, [Next]_vars, "hasty" \notin mishaps'
    PROVE  Destination'
<1> SUFFICES ASSUME Typed, Asking => Unserved, Destination
             PROVE  Destination'
  BY NotHasty DEF GetInv
<1>1. CASE GetName
  BY <1>1 DEF GetName, GoTo, Destination, Typed, TypeOK
<1>2. CASE GetPath
  BY <1>2 DEF GetPath, GoTo, goalVars, Destination, MayGo, Typed, TypeOK
<1>3. ASSUME main.at # "getPath", main'.at # "getPath",
             UNCHANGED <<getFilename, getFileLocalPath, asked>>
      PROVE  Destination'
  BY <1>3 DEF Destination, MayGo
<1>4. CASE Start \/ Ignored \/ Stop \/ StopJoin \/ AddFile
  <2>1. main.at # "getPath" /\ UNCHANGED <<getFilename, getFileLocalPath, asked>>
    BY <1>4 DEF Start, Ignored, Stop, StopJoin, AddFile, Calls, getVars, goalVars
  <2>2. main'.at # "getPath"
    BY <1>4 DEF Start, Ignored, Stop, StopJoin, AddFile, GoTo, Return, Idle, Typed, TypeOK
  <2>3. QED
    BY <1>3, <2>1, <2>2
<1>5. ASSUME NEW k \in Boxes, PostPayload(k) \/ PostFlag(k)
      PROVE  Destination'
  <2>1. main.at # "getPath" /\ UNCHANGED <<getFilename, getFileLocalPath, asked>>
    BY <1>5 DEF PostPayload, PostFlag, Calls, getVars, goalVars
  <2>2. main'.at # "getPath"
    BY <1>5 DEF PostPayload, PostFlag, GoTo, Return, Idle, Typed, TypeOK
  <2>3. QED
    BY <1>3, <2>1, <2>2
<1>6. CASE ListWait \/ GetFlag \/ GetWait
  <2>1. main.at # "getPath" /\ UNCHANGED <<getFilename, getFileLocalPath, asked>>
    BY <1>6 DEF ListWait, GetFlag, GetWait, goalVars
  <2>2. main'.at # "getPath"
    BY <1>6 DEF ListWait, GetFlag, GetWait, GoTo, Return, Idle, Typed, TypeOK
  <2>3. QED
    BY <1>3, <2>1, <2>2
<1>7. CASE ReadLine
  <2>1. main.at # "getPath" /\ main'.at # "getPath"
    BY <1>7 DEF ReadLine, Idle
  <2>2. UNCHANGED <<getFilename, getFileLocalPath, asked>>
    BY <1>7 DEF ReadLine, getVars, goalVars
  <2>3. QED
    BY <1>3, <2>1, <2>2
<1>8. CASE Worker
  <2>1. UNCHANGED <<main, arg1, getFilename, getFileLocalPath, asked>>
    BY <1>8, WorkerFrame DEF userVars
  <2>2. QED
    BY <2>1 DEF Destination, MayGo
<1>9. ASSUME NEW t \in Transfers, Thread(t)
      PROVE  Destination'
  <2>1. UNCHANGED <<main, arg1, asked>>
    BY <1>9, ThreadFrame DEF userVars
  <2>2. CASE Clear(t)
    <3>1. transfer[t].at \in InSave
      BY <2>2 DEF Clear, TransferStep, InSave
    <3>2. main.at # "getPath"
      BY <3>1 DEF Asking, Unserved, BeingServed
    <3>3. QED
      BY <2>1, <2>2, <3>2 DEF Clear, Destination, MayGo
  <2>3. CASE UNCHANGED getVars
    BY <2>1, <2>3 DEF getVars, Destination, MayGo
  <2>4. QED
    BY <1>9, <2>2, <2>3, ThreadFrame
<1>10. CASE RequestComes \/ UNCHANGED vars
  <2>1. UNCHANGED <<main, arg1, getFilename, getFileLocalPath, asked>>
    BY <1>10 DEF RequestComes, vars, userVars, getVars, goalVars
  <2>2. QED
    BY <2>1 DEF Destination, MayGo
<1>11. QED
  BY <1>1, <1>2, <1>4, <1>5, <1>6, <1>7, <1>8, <1>9, <1>10 DEF Next, Main

\* Only DownloadFile sets the name and the path.
LEMMA MainLeaves ==
    ASSUME Typed, Main
    PROVE  /\ GetPath \/ UNCHANGED getFileLocalPath
           /\ GetName \/ (UNCHANGED getFilename /\ main'.at # "getPath")
<1> USE DEF getVars, GoTo, Return, Idle
<1>1. CASE Start \/ Ignored \/ Stop \/ StopJoin \/ AddFile
  BY <1>1 DEF Start, Ignored, Stop, StopJoin, AddFile, Typed, TypeOK
<1>2. ASSUME NEW k \in Boxes, PostPayload(k) \/ PostFlag(k)
      PROVE  UNCHANGED <<getFilename, getFileLocalPath>> /\ main'.at # "getPath"
  BY <1>2 DEF PostPayload, PostFlag, Typed, TypeOK
<1>3. CASE ListWait \/ GetName \/ GetPath \/ GetFlag \/ GetWait
  BY <1>3 DEF ListWait, GetName, GetPath, GetFlag, GetWait, Typed, TypeOK
<1>4. QED
  BY <1>1, <1>2, <1>3 DEF Main

\* Only the look-up leads to a copy, and no step of the worker to a file saved.
LEMMA WorkerLeaves ==
    ASSUME Typed, Worker
    PROVE  /\ LookUp \/ worker' # "getCopy"
           /\ \A t \in Transfers : transfer'[t].at = "save" => transfer'[t] = transfer[t]
<1>1. transfer \in [Transfers -> TransferType]
  BY DEF Typed, Slotted
<1>2. ASSUME NEW k \in Boxes, TestBox(k) \/ ServeBox(k) \/ ClearBox(k)
      PROVE  worker' # "getCopy" /\ transfer' = transfer
  <2>1. worker' \in {Serving[k], Clearing[k], After(k)} /\ transfer' = transfer
    BY <1>2 DEF TestBox, ServeBox, ClearBox, WorkerStep, transferVars
  <2>2. QED
    BY <2>1, Places DEF Plain, InGet, Boxes
<1>3. CASE Top
  BY <1>1, <1>3 DEF Top, WorkerStep, FreeSlot
<1>4. CASE Receive \/ StartQueued
  <2>1. worker' # "getCopy"
    BY <1>4 DEF Receive, StartQueued, WorkerStep
  <2>2. \A t \in Transfers : transfer'[t].at \in InSave => transfer'[t] = transfer[t]
    BY <1>4, LaunchedLeaves DEF Typed
  <2>3. QED
    BY <2>1, <2>2 DEF InSave
<1>5. CASE Leave \/ NothingToStart \/ TestGet \/ ClearGet \/ CopyLocal \/ FindFile \/ AwaitInfo \/ Select
  BY <1>5 DEF Leave, NothingToStart, TestGet, ClearGet, CopyLocal, FindFile, AwaitInfo, Select,
              WorkerStep, transferVars
<1>6. CASE LookUp
  BY <1>6 DEF LookUp, transferVars
<1>7. QED
  BY <1>2, <1>3, <1>4, <1>5, <1>6 DEF Worker

LEMMA LeavingNext ==
    ASSUME CInv, [Next]_vars, "hasty" \notin mishaps'
    PROVE  Leaving'
<1> SUFFICES ASSUME Typed, Asking => Unserved, Destination, Leaving
             PROVE  Leaving'
  BY NotHasty DEF GetInv
<1>1. transfer \in [Transfers -> TransferType] /\ asked \subseteq asked'
  BY HistoryGrows DEF Typed, Slotted
<1>2. ASSUME UNCHANGED getFileLocalPath,
             worker' = "getCopy" => worker = "getCopy" /\ UNCHANGED found,
             \A t \in Transfers : transfer'[t].at = "save" => transfer'[t] = transfer[t]
      PROVE  Leaving'
  BY <1>1, <1>2 DEF Leaving, MayGo
<1>3. CASE Main
  <2>1. /\ UNCHANGED <<transfer, found>>
        /\ worker' = "getCopy" => worker = "getCopy"
    BY <1>3, MainFrame DEF Start
  <2>2. CASE GetPath
    <3>1. ~(worker = "getCopy") /\ \A t \in Transfers : transfer[t].at # "save"
      BY <2>2 DEF GetPath, Asking, Unserved, BeingServed, InGet, InSave
    <3>2. QED
      BY <2>1, <3>1 DEF Leaving
  <2>3. ASSUME ~GetPath
        PROVE  UNCHANGED getFileLocalPath
    BY <1>3, <2>3, MainLeaves
  <2>4. QED
    BY <1>2, <2>1, <2>2, <2>3
<1>4. CASE Worker
  <2>1. UNCHANGED <<main, getFilename, getFileLocalPath>>
    BY <1>4, WorkerFrame DEF userVars
  <2>2. CASE LookUp
    <3>1. worker' = "getCopy" => getFilename \in files /\ found' = getFilename
      BY <2>2 DEF LookUp, WorkerStep
    <3>2. main.at # "getPath"
      BY <2>2 DEF LookUp, WorkerStep, Asking, Unserved, BeingServed, InGet
    <3>3. getFilename \in files => MayGo(getFilename)
      BY <3>2, CommandsAssumption DEF Destination, Typed, TypeOK
    <3>4. UNCHANGED <<transfer, asked>>
      BY <2>2 DEF LookUp, transferVars, goalVars
    <3>5. QED
      BY <2>1, <3>1, <3>3, <3>4 DEF Leaving, MayGo
  <2>3. ASSUME ~LookUp
        PROVE  /\ worker' # "getCopy"
               /\ \A t \in Transfers : transfer'[t].at = "save" => transfer'[t] = transfer[t]
    BY <1>4, <2>3, WorkerLeaves
  <2>4. QED
    BY <1>2, <2>1, <2>2, <2>3
<1>5. ASSUME NEW t \in Transfers, Thread(t)
      PROVE  Leaving'
  <2>1. UNCHANGED <<main, worker, found, asked>>
    BY <1>5, ThreadFrame DEF userVars
  <2>2. CASE Check(t)
    <3>1. UNCHANGED <<getFilename, getFileLocalPath>>
      BY <2>2 DEF Check, getVars
    <3>2. transfer'[t].at = "save" => getFileWaitForInfo /\ transfer[t].name = getFilename
      BY <1>1, <2>2 DEF Check, TransferStep, TransferType
    <3>3. transfer[t].name # None
      BY <2>2, CommandsAssumption DEF Check, TransferStep, Typed, Slotted
    <3>4. transfer'[t].at = "save" => MayGo(transfer[t].name)
      BY <3>2, <3>3 DEF Destination, Asking, Unserved, BeingServed
    <3>5. /\ transfer'[t].name = transfer[t].name
          /\ \A u \in Transfers \ {t} : transfer'[u] = transfer[u]
      BY <1>1, <2>2 DEF Check, TransferStep, TransferType
    <3>6. QED
      BY <2>1, <3>1, <3>4, <3>5 DEF Leaving, MayGo
  <2>3. CASE Clear(t)
    <3>1. getFileLocalPath' = getFileLocalPath \/ getFileLocalPath' = None
      BY <2>3 DEF Clear
    <3>2. \A u \in Transfers : transfer'[u].at = "save" => transfer'[u] = transfer[u]
      BY <1>1, <2>3 DEF Clear, TransferStep, TransferType
    <3>3. QED
      BY <2>1, <3>1, <3>2 DEF Leaving, MayGo
  <2>4. CASE Fail(t) \/ Save(t) \/ StoreLocal(t)
    <3>1. \A u \in Transfers : transfer'[u].at = "save" => transfer'[u] = transfer[u]
      BY <1>1, <2>4 DEF Fail, Save, StoreLocal, TransferStep, TransferType
    <3>2. getFileLocalPath' = getFileLocalPath
      BY <2>4 DEF Fail, Save, StoreLocal, getVars
    <3>3. QED
      BY <1>2, <2>1, <3>1, <3>2
  <2>5. QED
    BY <1>5, <2>2, <2>3, <2>4 DEF Thread
<1>6. CASE ReadLine \/ RequestComes \/ UNCHANGED vars
  <2>1. UNCHANGED <<worker, transfer, found, getFileLocalPath>>
    BY <1>6 DEF ReadLine, RequestComes, vars, getVars, transferVars
  <2>2. QED
    BY <1>2, <2>1
<1>7. QED
  BY <1>3, <1>4, <1>5, <1>6 DEF Next

\* Names and paths are taken from gets, and stay names and paths of gets.
LEMMA GivenNext == CInv /\ [Next]_vars => Given'
<1> SUFFICES ASSUME Typed, ArgumentsAreOwn, Given, [Next]_vars PROVE Given'
  BY DEF CInv
<1>1. /\ transfer \in [Transfers -> TransferType]
      /\ \A name : GivenName(name) => GivenName(name)'
      /\ \A path : GivenPath(path) => GivenPath(path)'
  BY HistoryGrows DEF Typed, Slotted, GivenName, GivenPath
<1>2. ASSUME getFilename' \in {None, getFilename}, getFileLocalPath' \in {None, getFileLocalPath},
             main'.at = "getPath" => main.at = "getPath" /\ UNCHANGED arg1,
             worker' = "getCopy" => worker = "getCopy" /\ UNCHANGED found,
             \A t \in Transfers : transfer'[t].at = "save" => transfer'[t] = transfer[t]
      PROVE  Given'
  BY <1>1, <1>2 DEF Given
<1>3. CASE Main
  <2>1. /\ UNCHANGED <<transfer, found, arg1>>
        /\ worker' = "getCopy" => worker = "getCopy"
    BY <1>3, MainFrame DEF Start
  <2>2. CASE GetName
    <3>1. /\ getFilename' = arg0 /\ asked' = asked \cup {<<arg1, arg0>>}
          /\ UNCHANGED <<getFileLocalPath, worker>>
      BY <2>2 DEF GetName
    <3>2. GivenName(getFilename)' /\ GivenPath(arg1)'
      <4>1. <<arg1, arg0>> \in asked' /\ <<arg1, arg0>>[1] = arg1 /\ <<arg1, arg0>>[2] = arg0
        BY <3>1
      <4>2. \E goal \in asked' : goal[2] = getFilename'
        BY <3>1, <4>1
      <4>3. \E goal \in asked' : goal[1] = arg1'
        BY <2>1, <4>1
      <4>4. QED
        BY <4>2, <4>3 DEF GivenName, GivenPath
    <3>3. QED
      BY <1>1, <2>1, <3>1, <3>2 DEF Given
  <2>3. CASE GetPath
    <3>1. GivenPath(arg1) /\ getFileLocalPath' = arg1 /\ UNCHANGED getFilename
          /\ main'.at # "getPath"
      BY <2>3 DEF GetPath, GoTo, Given, Typed, TypeOK
    <3>2. QED
      BY <1>1, <2>1, <3>1 DEF Given
  <2>4. ASSUME ~GetName, ~GetPath
        PROVE  UNCHANGED <<getFilename, getFileLocalPath>> /\ main'.at # "getPath"
    BY <1>3, <2>4, MainLeaves
  <2>5. QED
    BY <1>2, <2>1, <2>2, <2>3, <2>4
<1>4. CASE Worker
  <2>1. UNCHANGED <<main, arg1, getFilename, getFileLocalPath>>
    BY <1>4, WorkerFrame DEF userVars
  <2>2. CASE LookUp
    <3>1. worker' = "getCopy" => getFilename \in files /\ found' = getFilename
      BY <2>2 DEF LookUp, WorkerStep
    <3>2. getFilename \in files => GivenName(getFilename)
      BY CommandsAssumption DEF Given, Typed, TypeOK
    <3>3. UNCHANGED <<transfer, asked>>
      BY <2>2 DEF LookUp, transferVars, goalVars
    <3>4. QED
      BY <2>1, <3>1, <3>2, <3>3 DEF Given, GivenName, GivenPath
  <2>3. ASSUME ~LookUp
        PROVE  /\ worker' # "getCopy"
               /\ \A t \in Transfers : transfer'[t].at = "save" => transfer'[t] = transfer[t]
    BY <1>4, <2>3, WorkerLeaves
  <2>4. QED
    BY <1>2, <1>4, <2>1, <2>2, <2>3, WorkerLeaves
<1>5. ASSUME NEW t \in Transfers, Thread(t)
      PROVE  Given'
  <2>1. UNCHANGED <<main, arg1, worker, found, asked>>
    BY <1>5, ThreadFrame DEF userVars
  <2>2. CASE Check(t)
    <3>1. UNCHANGED <<getFilename, getFileLocalPath>>
      BY <2>2 DEF Check, getVars
    <3>2. transfer'[t].at = "save" => transfer[t].name = getFilename
      BY <1>1, <2>2 DEF Check, TransferStep, TransferType
    <3>3. transfer[t].name # None
      BY <2>2, CommandsAssumption DEF Check, TransferStep, Typed, Slotted
    <3>4. transfer'[t].at = "save" => GivenName(transfer[t].name)
      BY <3>2, <3>3 DEF Given
    <3>5. /\ transfer'[t].name = transfer[t].name
          /\ \A u \in Transfers \ {t} : transfer'[u] = transfer[u]
      BY <1>1, <2>2 DEF Check, TransferStep, TransferType
    <3>6. QED
      BY <2>1, <3>1, <3>4, <3>5 DEF Given, GivenName, GivenPath
  <2>3. CASE Clear(t)
    <3>1. getFilename' \in {None, getFilename} /\ getFileLocalPath' \in {None, getFileLocalPath}
      BY <2>3 DEF Clear
    <3>2. \A u \in Transfers : transfer'[u].at = "save" => transfer'[u] = transfer[u]
      BY <1>1, <2>3 DEF Clear, TransferStep, TransferType
    <3>3. QED
      BY <1>2, <2>1, <3>1, <3>2
  <2>4. CASE Fail(t) \/ Save(t) \/ StoreLocal(t)
    <3>1. \A u \in Transfers : transfer'[u].at = "save" => transfer'[u] = transfer[u]
      BY <1>1, <2>4 DEF Fail, Save, StoreLocal, TransferStep, TransferType
    <3>2. UNCHANGED <<getFilename, getFileLocalPath>>
      BY <2>4 DEF Fail, Save, StoreLocal, getVars
    <3>3. QED
      BY <1>2, <2>1, <3>1, <3>2
  <2>5. QED
    BY <1>5, <2>2, <2>3, <2>4 DEF Thread
<1>6. CASE ReadLine \/ RequestComes \/ UNCHANGED vars
  <2>1. UNCHANGED <<worker, transfer, found, getFilename, getFileLocalPath>>
    BY <1>6 DEF ReadLine, RequestComes, vars, getVars, transferVars
  <2>2. main'.at = "getPath" => main.at = "getPath" /\ UNCHANGED arg1
    BY <1>6 DEF ReadLine, RequestComes, vars, userVars, Idle
  <2>3. QED
    BY <1>2, <2>1, <2>2
<1>7. QED
  BY <1>3, <1>4, <1>5, <1>6 DEF Next

\* A write goes to the path that is kept.
LEMMA SavedNext == CInv /\ [Next]_vars => SavedIsAsked'
<1> SUFFICES ASSUME CInv, [Next]_vars
             PROVE  SavedIsAsked'
  OBVIOUS
<1>1. /\ Given /\ SavedIsAsked /\ Typed
      /\ "hasty" \notin mishaps' => "hasty" \notin mishaps /\ Leaving
      /\ asked \subseteq asked'
  BY HistoryGrows DEF CInv, GetInv
<1>2. ASSUME saved' = saved
      PROVE  SavedIsAsked'
  BY <1>1, <1>2 DEF SavedIsAsked
<1>3. ASSUME NEW name, saved' = saved \cup Written(name), GivenName(name),
             "hasty" \notin mishaps' => MayGo(name)
      PROVE  SavedIsAsked'
  <2>1. CASE getFileLocalPath = None
    BY <1>2, <1>3, <2>1 DEF Written
  <2>2. CASE getFileLocalPath # None
    <3>1. saved' = saved \cup {<<getFileLocalPath, name>>}
      BY <1>3, <2>2 DEF Written
    <3>2. GivenPath(getFileLocalPath)
      BY <1>1, <2>2 DEF Given
    <3>3. \A s \in saved' : \E g, h \in asked' : s = <<g[1], h[2]>>
      <4>1. \E g, h \in asked : <<getFileLocalPath, name>> = <<g[1], h[2]>>
        BY <1>3, <3>2 DEF GivenName, GivenPath
      <4>2. \A s \in saved : \E g, h \in asked : s = <<g[1], h[2]>>
        BY <1>1 DEF SavedIsAsked
      <4>3. QED
        BY <1>1, <3>1, <4>1, <4>2
    <3>4. "hasty" \notin mishaps' => saved' \subseteq asked'
      BY <1>1, <1>3, <2>2, <3>1 DEF SavedIsAsked, MayGo
    <3>5. QED
      BY <3>3, <3>4 DEF SavedIsAsked
  <2>3. QED
    BY <2>1, <2>2
<1>4. CASE CopyLocal
  <2>1. saved' = saved \cup Written(found) /\ worker = "getCopy"
    BY <1>4 DEF CopyLocal, WorkerStep
  <2>2. GivenName(found) /\ ("hasty" \notin mishaps' => MayGo(found))
    BY <1>1, <2>1 DEF Given, Leaving
  <2>3. QED
    BY <1>3, <2>1, <2>2
<1>5. ASSUME NEW t \in Transfers, Save(t)
      PROVE  SavedIsAsked'
  <2>1. saved' = saved \cup Written(transfer[t].name) /\ transfer[t].at = "save"
    BY <1>5 DEF Save, TransferStep
  <2>2. GivenName(transfer[t].name) /\ ("hasty" \notin mishaps' => MayGo(transfer[t].name))
    BY <1>1, <2>1 DEF Given, Leaving
  <2>3. QED
    BY <1>3, <2>1, <2>2
<1>6. CASE Main
  BY <1>2, <1>6, MainFrame
<1>7. CASE Worker
  <2>1. ASSUME NEW k \in Boxes, TestBox(k) \/ ServeBox(k) \/ ClearBox(k)
        PROVE  saved' = saved
    BY <2>1 DEF TestBox, ServeBox, ClearBox, goalVars
  <2>2. CASE Top \/ Leave \/ StartQueued \/ NothingToStart \/ TestGet \/ ClearGet \/ LookUp \/ FindFile \/ AwaitInfo
    BY <1>2, <2>2 DEF Top, Leave, StartQueued, NothingToStart, TestGet, ClearGet, LookUp,
                      FindFile, AwaitInfo, goalVars
  <2>3. CASE Select \/ Receive
    BY <1>2, <2>3 DEF Select, Receive, goalVars
  <2>4. QED
    BY <1>2, <1>4, <1>7, <2>1, <2>2, <2>3 DEF Worker
<1>8. ASSUME NEW t \in Transfers, Thread(t)
      PROVE  SavedIsAsked'
  BY <1>2, <1>5, <1>8, ThreadFrame
<1>9. CASE ReadLine \/ RequestComes \/ UNCHANGED vars
  BY <1>2, <1>9 DEF ReadLine, RequestComes, vars, goalVars
<1>10. QED
  BY <1>6, <1>7, <1>8, <1>9 DEF Next

-----------------------------------------------------------------------------
(* The theorems.                                                           *)

LEMMA CNext == CInv /\ [Next]_vars => CInv'
<1> SUFFICES ASSUME CInv, [Next]_vars PROVE CInv'
  OBVIOUS
<1>1. ("hasty" \notin mishaps => GetInv)'
  BY UnservedNext, DestinationNext, LeavingNext DEF GetInv
<1>2. QED
  BY <1>1, TypedNext, ArgumentsNext, BoxNext, SocketsNext, GivenNext, SavedNext DEF CInv

LEMMA CSafe == Spec => []CInv
BY CInit, CNext, PTL DEF Spec

\* The variables of the command line, the worker and the threads keep the types
\* of their counterparts in main() and Service, whatever is typed.
THEOREM CommandsTypeCorrect == Spec => []TypeOK
<1>1. CInv => TypeOK
  BY DEF CInv, Typed
<1>2. QED
  BY <1>1, CSafe, PTL

\* A command runs with the arguments of the line it was typed in, for every
\* sequence of lines: the chain of comparisons in main(), which clears and
\* overwrites arg0 and arg1 on the way, leaves the right ones.
THEOREM ArgumentsCorrect == Spec => []ArgumentsAreOwn
<1>1. CInv => ArgumentsAreOwn
  BY DEF CInv
<1>2. QED
  BY <1>1, CSafe, PTL

\* What Ping, ListFiles and RemoveFile take reaches the network once, in order
\* and with its own argument, though flag and argument are not locked.
THEOREM BoxesCorrect == Spec => []ServedAsAccepted
<1>1. ASSUME NEW s \in Seq(STRING), NEW e, NEW u, u = s \/ u = Append(s, e)
      PROVE  Len(s) <= Len(u) /\ s = SubSeq(u, 1, Len(s)) /\ Len(u) <= Len(s) + 1
  BY <1>1
<1>2. ASSUME CInv, NEW k \in Boxes
      PROVE  /\ Len(served[k]) <= Len(accepted[k])
             /\ served[k] = SubSeq(accepted[k], 1, Len(served[k]))
             /\ Len(accepted[k]) <= Len(served[k]) + 1
  <2>1. served[k] \in Seq(STRING)
    BY <1>2 DEF CInv, Typed
  <2>2. accepted[k] = served[k] \/ accepted[k] = Append(served[k], payload[k])
    BY <1>2 DEF CInv, BoxInv, BoxIsOwned
  <2>3. QED
    BY <1>1, <2>1, <2>2
<1>3. CInv => ServedAsAccepted
  BY <1>2 DEF ServedAsAccepted
<1>4. QED
  BY <1>3, CSafe, PTL

\* The assertion at the start of run() holds at every step of the worker: it has
\* both sockets until it has said farewell.
THEOREM SocketsCorrect == Spec => []WorkerHasSockets
<1>1. CInv => WorkerHasSockets
  BY DEF CInv
<1>2. QED
  BY <1>1, CSafe, PTL

\* Whatever lines are typed at whatever time, and with any number of transfers
\* that end together, a path of the user receives only files that he asked for by
\* name.  It is the file asked for under that path as long as no get was typed
\* while another was being served: DownloadFile then changes the fields that the
\* worker and AddLocalFile read one by one.
THEOREM DownloadsCorrect == Spec => []SavedIsAsked
<1>1. CInv => SavedIsAsked
  BY DEF CInv
<1>2. QED
  BY <1>1, CSafe, PTL
=============================================================================
