----------------------------- MODULE MCExchange -----------------------------
(***************************************************************************)
(* Instances of Exchange.  In a chain of hosts the one in the middle both  *)
(* fetches a file and serves one; two hosts that fetch from each other     *)
(* make a cycle.                                                           *)
(***************************************************************************)
EXTENDS Exchange, TLC

CONSTANTS a, b, c, j1, j2, j3

\* b fetches from a, c from b, and with a third job c from a.
ChainSender == (j1 :> a) @@ (j2 :> b) @@ (j3 :> a)
ChainReceiver == (j1 :> b) @@ (j2 :> c) @@ (j3 :> c)
ChainSize == (j1 :> 2) @@ (j2 :> 1) @@ (j3 :> 1)

\* a and b fetch from each other.
CrossedSender == (j1 :> a) @@ (j2 :> b)
CrossedReceiver == (j1 :> b) @@ (j2 :> a)
CrossedSize == (j1 :> 2) @@ (j2 :> 2)
=============================================================================
