--------------------------- MODULE MCTransferPool ---------------------------
(* An instance of TransferPool for TLC.                                    *)
EXTENDS TransferPool

CONSTANTS i1, i2, o1, o2

\* Every request is about a file of its own but i1 and o1, which share one.
MCFileHash == [r \in Requests |-> IF r = o1 THEN i1 ELSE r]
=============================================================================
