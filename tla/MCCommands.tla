----------------------------- MODULE MCCommands -----------------------------
(***************************************************************************)
(* Instances of Commands: the lines a user may type, and who has the files.*)
(***************************************************************************)
EXTENDS Commands, TLC

Line(cmd, a, b) == [cmd |-> cmd, arg0 |-> a, arg1 |-> b]

start == Line("start", "", "")
stop  == Line("stop", "", "")
quit  == Line("quit", "", "")
ping  == Line("ping", "8", "")
ping9 == Line("ping", "9", "")
pingf == Line("ping", "f", "")
list  == Line("list", "", "")
getTo == Line("get", "f", "g")
get   == Line("get", "f", "")
getG  == Line("get", "g", "")

Session(lines, n) == [lines |-> lines, chances |-> n]

AllSessions == {
    Session(<<ping, start, pingf, stop, start>>, 1),
    Session(<<Line("start", "8", ""), ping, ping9, stop, start>>, 1),
    Session(<<start, getTo, get>>, 0),
    Session(<<start, get, getG>>, 0),
    Session(<<start, Line("add", "f", ""), get, stop>>, 1),
    Session(<<start, get, list>>, 1),
    Session(<<start, get, quit>>, 1),
    Session(<<start, Line("remove", "f", ""), Line("nodes", "", ""), Line("remove", "f", "")>>, 1)}

GetOnce == {Session(<<start, getTo>>, 1)}

OneHolder == [n \in {"f", "g"} |-> IF n = "f" THEN {1} ELSE {}]
BothFiles == [n \in {"f", "g"} |-> IF n = "f" THEN {1} ELSE {1, 2}]
=============================================================================
