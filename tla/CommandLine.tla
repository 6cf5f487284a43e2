---------------------------- MODULE CommandLine ----------------------------
(***************************************************************************)
(* How a line typed by the user becomes arguments: the comparisons that    *)
(* main() makes, one after the other, on strings that outlive the line.    *)
(***************************************************************************)

CONSTANT None   \* the empty string

ASSUME NoneAssumption == None \in STRING

\* A line is a command and up to two arguments, None for what is missing.
Lines == [cmd : STRING, arg0 : STRING, arg1 : STRING]

\* Faulty variant: arg1 is written only when there is a second argument.
CompareKeepsArg1(c, line, args) ==
    LET same == line.cmd = c[1] IN
    IF c[2] = 0
    THEN [args EXCEPT !.ok = same /\ line.arg0 = None]
    ELSE [ok   |-> same /\ (IF c[2] = 1 THEN line.arg0 # None ELSE line.arg1 # None),
          arg0 |-> IF same THEN line.arg0 ELSE None,
          arg1 |-> IF c[2] = 2 /\ same /\ line.arg1 # None THEN line.arg1 ELSE args.arg1]

\* ParseCommandArg0, 1 and 2: the arguments are cleared before the comparison.
Compare(c, line, args) ==
    LET same == line.cmd = c[1] IN
    IF c[2] = 0
    THEN [args EXCEPT !.ok = same /\ line.arg0 = None]
    ELSE [ok   |-> same /\ (IF c[2] = 1 THEN line.arg0 # None ELSE line.arg1 # None),
          arg0 |-> IF same THEN line.arg0 ELSE None,
          arg1 |-> IF c[2] = 1 THEN args.arg1 ELSE IF same THEN line.arg1 ELSE None]

\* One more comparison in main(), after those that failed.
Else(args, cmd, n, line) == IF args.ok THEN args ELSE Compare(<<cmd, n>>, line, args)
=============================================================================
