-------------------------- MODULE CommandLineFacts --------------------------
(* What one comparison of main() does to the arguments.                    *)
EXTENDS CommandLine, Naturals, TLAPS

ArgsType == [ok : BOOLEAN, arg0 : STRING, arg1 : STRING]

\* What a comparison with "word" and n arguments makes of args: one without
\* arguments leaves them alone, one with arguments clears them when the command
\* is another.
Compared(args, word, n, line, t) ==
    /\ t \in ArgsType
    /\ args.ok => t = args
    /\ t.ok /\ ~args.ok => line.cmd = word
    /\ n = 0 => t.arg0 = args.arg0 /\ t.arg1 = args.arg1
    /\ n = 0 /\ t.ok /\ ~args.ok => line.arg0 = None
    /\ n # 0 /\ ~args.ok => t.arg0 = IF line.cmd = word THEN line.arg0 ELSE None
    /\ n = 1 => t.arg1 = args.arg1
    /\ n = 1 /\ t.ok /\ ~args.ok => line.arg0 # None
    /\ n = 2 /\ ~args.ok /\ line.cmd = word => t.arg1 = line.arg1
    /\ n = 2 /\ ~args.ok /\ line.cmd = word /\ ~t.ok => line.arg1 = None

LEMMA ElseFacts ==
    ASSUME NEW line \in Lines, NEW args \in ArgsType, NEW word, NEW n \in {0, 1, 2}
    PROVE  Compared(args, word, n, line, Else(args, word, n, line))
<1> SUFFICES ASSUME NEW t, t = Else(args, word, n, line)
             PROVE  Compared(args, word, n, line, t)
  OBVIOUS
<1> USE DEF Compared
<1> DEFINE same == line.cmd = word
<1>1. None \in STRING /\ line.cmd \in STRING /\ line.arg0 \in STRING /\ line.arg1 \in STRING
  BY NoneAssumption DEF Lines
<1>2. CASE args.ok
  <2>1. t = args
    BY <1>2 DEF Else
  <2>2. QED
    BY <1>2, <2>1
<1>3. ~args.ok => t = Compare(<<word, n>>, line, args)
  BY DEF Else
<1>4. <<word, n>>[1] = word /\ <<word, n>>[2] = n
  OBVIOUS
<1>5. CASE ~args.ok /\ n = 0
  <2> DEFINE ok == same /\ line.arg0 = None
  <2>1. t = [args EXCEPT !.ok = ok]
    BY <1>5, <1>3, <1>4, Zenon DEF Compare
  <2>2. ok \in BOOLEAN /\ (ok <=> same /\ line.arg0 = None)
    OBVIOUS
  <2> HIDE DEF ok
  <2>3. t \in ArgsType /\ t.ok = ok /\ t.arg0 = args.arg0 /\ t.arg1 = args.arg1
    BY <2>1, <2>2 DEF ArgsType
  <2>4. QED
    BY <1>5, <2>2, <2>3
<1>6. CASE ~args.ok /\ n # 0
  <2> DEFINE ok == same /\ (IF n = 1 THEN line.arg0 # None ELSE line.arg1 # None)
             a0 == IF same THEN line.arg0 ELSE None
             a1 == IF n = 1 THEN args.arg1 ELSE IF same THEN line.arg1 ELSE None
  <2>1. t = [ok |-> ok, arg0 |-> a0, arg1 |-> a1]
    BY <1>3, <1>4, <1>6, Zenon DEF Compare
  <2>2. /\ ok \in BOOLEAN /\ a0 \in STRING /\ a1 \in STRING
        /\ ok <=> same /\ (IF n = 1 THEN line.arg0 # None ELSE line.arg1 # None)
        /\ a0 = IF same THEN line.arg0 ELSE None
        /\ n = 1 => a1 = args.arg1
        /\ n = 2 /\ same => a1 = line.arg1
    BY <1>1 DEF ArgsType
  <2> HIDE DEF ok, a0, a1
  <2>3. t \in ArgsType /\ t.ok = ok /\ t.arg0 = a0 /\ t.arg1 = a1
    BY <2>1, <2>2 DEF ArgsType
  <2>4. QED
    BY <1>6, <2>2, <2>3
<1>7. QED
  BY <1>2, <1>5, <1>6
=============================================================================
