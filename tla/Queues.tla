------------------------------- MODULE Queues -------------------------------
(* Operators on sequences; QueueFacts has the lemmas about them.           *)
EXTENDS Naturals, FiniteSets

InSeq(r, s) == \E i \in DOMAIN s : s[i] = r

\* A queue without repetition.
Distinct(s) == \A i, j \in DOMAIN s : s[i] = s[j] => i = j

\* The elements at the places P of a sequence, in their order: SelectSeq, of which
\* the provers know nothing.  The k-th of the places has k places up to itself.
Upto(P, i) == {j \in P : j <= i}
Picked(s, P) ==
    [k \in 1 .. Cardinality(P) |-> s[CHOOSE i \in P : Cardinality(Upto(P, i)) = k]]

=============================================================================
