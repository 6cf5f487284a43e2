----------------------------- MODULE QueueFacts -----------------------------
(* Lemmas about queues without repetition, and about picking from a list.   *)
EXTENDS Queues, Sequences, SequenceTheorems, FiniteSetTheorems, TLAPS

\* Appending adds exactly one element, and a new one keeps them distinct.
LEMMA AppendFacts ==
    ASSUME NEW S, NEW s \in Seq(S), NEW e \in S
    PROVE  /\ Append(s, e) \in Seq(S)
           /\ Append(s, e) # <<>>
           /\ \A x : InSeq(x, Append(s, e)) <=> (InSeq(x, s) \/ x = e)
           /\ Distinct(s) /\ ~InSeq(e, s) => Distinct(Append(s, e))
<1>1. /\ Append(s, e) \in Seq(S) /\ Append(s, e) # <<>>
      /\ DOMAIN s = 1 .. Len(s) /\ Len(s) \in Nat
      /\ DOMAIN Append(s, e) = 1 .. (Len(s) + 1)
      /\ \A i \in 1 .. Len(s) : Append(s, e)[i] = s[i]
      /\ Append(s, e)[Len(s) + 1] = e
  BY AppendProperties
<1>2. ASSUME NEW x, InSeq(x, Append(s, e))
      PROVE  InSeq(x, s) \/ x = e
  BY <1>1, <1>2 DEF InSeq
<1>3. ASSUME NEW x, InSeq(x, s) \/ x = e
      PROVE  InSeq(x, Append(s, e))
  <2>1. CASE x = e
    <3>1. Len(s) + 1 \in DOMAIN Append(s, e)
      BY <1>1
    <3>2. QED
      BY <1>1, <2>1, <3>1 DEF InSeq
  <2>2. CASE InSeq(x, s)
    <3>1. PICK i \in 1 .. Len(s) : s[i] = x
      BY <1>1, <2>2 DEF InSeq
    <3>2. i \in DOMAIN Append(s, e) /\ Append(s, e)[i] = x
      BY <1>1, <3>1
    <3>3. QED
      BY <3>2 DEF InSeq
  <2>3. QED
    BY <1>3, <2>1, <2>2
<1>4. ASSUME Distinct(s), ~InSeq(e, s)
      PROVE  Distinct(Append(s, e))
  BY <1>1, <1>4 DEF InSeq, Distinct
<1>5. QED
  BY <1>1, <1>2, <1>3, <1>4

\* Taking the head off removes it and nothing else.
LEMMA TailFacts ==
    ASSUME NEW S, NEW s \in Seq(S), s # <<>>, Distinct(s)
    PROVE  /\ Head(s) \in S /\ InSeq(Head(s), s)
           /\ Tail(s) \in Seq(S) /\ Distinct(Tail(s))
           /\ \A x : InSeq(x, Tail(s)) <=> (InSeq(x, s) /\ x # Head(s))
<1>1. /\ Head(s) = s[1] /\ 1 \in DOMAIN s /\ DOMAIN s = 1 .. Len(s)
      /\ DOMAIN Tail(s) = 1 .. (Len(s) - 1)
      /\ Len(s) \in Nat \ {0}
      /\ \A i \in 1 .. (Len(s) - 1) : Tail(s)[i] = s[i + 1]
  OBVIOUS
<1>2. Head(s) \in S /\ InSeq(Head(s), s) /\ Tail(s) \in Seq(S)
  BY <1>1 DEF InSeq
<1>3. Distinct(Tail(s))
  BY <1>1 DEF Distinct
<1>4. ASSUME NEW x, InSeq(x, Tail(s))
      PROVE  InSeq(x, s) /\ x # Head(s)
  <2>1. PICK i \in 1 .. (Len(s) - 1) : Tail(s)[i] = x
    BY <1>1, <1>4 DEF InSeq
  <2>2. s[i + 1] = x /\ i + 1 \in DOMAIN s /\ i + 1 # 1
    BY <1>1, <2>1
  <2>3. QED
    BY <1>1, <2>2 DEF InSeq, Distinct
<1>5. ASSUME NEW x, InSeq(x, s), x # Head(s)
      PROVE  InSeq(x, Tail(s))
  <2>1. PICK i \in 1 .. Len(s) : s[i] = x
    BY <1>1, <1>5 DEF InSeq
  <2>2. i - 1 \in 1 .. (Len(s) - 1) /\ Tail(s)[i - 1] = x
    BY <1>1, <1>5, <2>1
  <2>3. QED
    BY <1>1, <2>2 DEF InSeq
<1>6. QED
  BY <1>2, <1>3, <1>4, <1>5

\* What is in a sequence over S is in S, and the empty sequence has nothing.
LEMMA ElementFacts ==
    ASSUME NEW S, NEW s \in Seq(S)
    PROVE  \A x : InSeq(x, s) => x \in S /\ s # <<>>
BY DEF InSeq

LEMMA EmptyFacts ==
    (\A S : <<>> \in Seq(S)) /\ Distinct(<<>>) /\ \A x : ~InSeq(x, <<>>)
BY DEF InSeq, Distinct

LEMMA FinitePlaces ==
    ASSUME NEW n \in Nat, NEW P \in SUBSET (1 .. n)
    PROVE  IsFiniteSet(P) /\ Cardinality(P) \in Nat
<1>1. IsFiniteSet(1 .. n)
  BY FS_Interval
<1>2. QED
  BY <1>1, FS_Subset, FS_CardinalityType

\* Of two places of P the later one has more places up to itself.
LEMMA UptoFacts ==
    ASSUME NEW n \in Nat, NEW P \in SUBSET (1 .. n), NEW i \in P
    PROVE  /\ IsFiniteSet(Upto(P, i))
           /\ Cardinality(Upto(P, i)) \in 1 .. Cardinality(P)
           /\ \A j \in P : j < i => Cardinality(Upto(P, j)) < Cardinality(Upto(P, i))
<1>1. IsFiniteSet(P) /\ Cardinality(P) \in Nat
  BY FinitePlaces
<1>2. ASSUME NEW j \in P
      PROVE  /\ Upto(P, j) \subseteq P /\ j \in Upto(P, j) /\ IsFiniteSet(Upto(P, j))
             /\ Cardinality(Upto(P, j)) \in 1 .. Cardinality(P)
  <2>1. Upto(P, j) \subseteq P /\ j \in Upto(P, j)
    BY DEF Upto
  <2>2. IsFiniteSet(Upto(P, j)) /\ Cardinality(Upto(P, j)) <= Cardinality(P)
    BY <1>1, <2>1, FS_Subset
  <2>3. Cardinality(Upto(P, j)) \in Nat \ {0}
    BY <2>1, <2>2, FS_CardinalityType, FS_EmptySet
  <2>4. QED
    BY <1>1, <2>1, <2>2, <2>3
<1>3. ASSUME NEW j \in P, j < i
      PROVE  Cardinality(Upto(P, j)) < Cardinality(Upto(P, i))
  <2>1. Upto(P, j) \subseteq Upto(P, i) /\ i \notin Upto(P, j)
    <3>1. i \in Nat /\ j \in Nat /\ P \subseteq Nat
      OBVIOUS
    <3>2. \A k \in P : k <= j => k <= i
      BY <1>3, <3>1
    <3>3. ~(i <= j)
      BY <1>3, <3>1
    <3>4. QED
      BY <3>2, <3>3 DEF Upto
  <2>2. /\ Cardinality(Upto(P, j)) <= Cardinality(Upto(P, i))
        /\ Cardinality(Upto(P, i)) # Cardinality(Upto(P, j))
    BY <1>2, <2>1, FS_Subset
  <2>3. QED
    BY <1>1, <1>2, <2>2
<1>4. QED
  BY <1>2, <1>3

\* Every number of places up to all of them is that of one place.
LEMMA RankFacts ==
    ASSUME NEW n \in Nat, NEW P \in SUBSET (1 .. n)
    PROVE  /\ \A k \in 1 .. Cardinality(P) : \E i \in P : Cardinality(Upto(P, i)) = k
           /\ \A i, j \in P : Cardinality(Upto(P, i)) = Cardinality(Upto(P, j)) => i = j
<1> DEFINE c == Cardinality(P)
           rank == [i \in P |-> Cardinality(Upto(P, i))]
<1>1. IsFiniteSet(P) /\ c \in Nat
  BY FinitePlaces
<1>2. rank \in [P -> 1 .. c]
  BY UptoFacts
<1>3. ASSUME NEW i \in P, NEW j \in P, rank[i] = rank[j]
      PROVE  i = j
  <2>1. /\ rank[i] = Cardinality(Upto(P, i)) /\ rank[j] = Cardinality(Upto(P, j))
        /\ rank[i] \in 1 .. c
    BY <1>2
  <2>2. /\ i < j => Cardinality(Upto(P, i)) < Cardinality(Upto(P, j))
        /\ j < i => Cardinality(Upto(P, j)) < Cardinality(Upto(P, i))
    BY UptoFacts
  <2>3. i \in Nat /\ j \in Nat
    OBVIOUS
  <2>4. ~(i < j) /\ ~(j < i)
    BY <1>1, <1>3, <2>1, <2>2
  <2>5. QED
    BY <2>3, <2>4
<1>4. rank \in Injection(P, 1 .. c)
  BY <1>2, <1>3 DEF Injection, IsInjective
<1>5. rank \in Surjection(P, 1 .. c)
  <2>1. IsFiniteSet(1 .. c) /\ Cardinality(1 .. c) = c
    BY <1>1, FS_Interval
  <2>2. QED
    BY <1>1, <1>4, <2>1, FS_Injection
<1>6. QED
  BY <1>3, <1>5 DEF Surjection

\* A place before all others of P.
LEMMA LeastPlace ==
    ASSUME NEW n \in Nat, NEW P \in SUBSET (1 .. n), P # {}
    PROVE  \E i \in P : \A j \in P : i <= j
<1>1. Cardinality(P) \in Nat \ {0}
  BY FinitePlaces, FS_EmptySet
<1>2. PICK i \in P : Cardinality(Upto(P, i)) = 1
  BY <1>1, RankFacts
<1>3. ASSUME NEW j \in P
      PROVE  i <= j
  <2>1. j < i => Cardinality(Upto(P, j)) < 1 /\ Cardinality(Upto(P, j)) \in 1 .. Cardinality(P)
    BY <1>2, UptoFacts
  <2>2. i \in Nat /\ j \in Nat
    OBVIOUS
  <2>3. QED
    BY <1>1, <2>1, <2>2
<1>4. QED
  BY <1>3

\* Picking gives a sequence of exactly the elements at the places, as many as places.
LEMMA PickedFacts ==
    ASSUME NEW S, NEW s \in Seq(S), NEW P \in SUBSET DOMAIN s
    PROVE  /\ Picked(s, P) \in Seq(S)
           /\ \A k \in DOMAIN Picked(s, P) : \E i \in P : Picked(s, P)[k] = s[i]
           /\ \A i \in P : InSeq(s[i], Picked(s, P))
<1> DEFINE n == Cardinality(P)
           place(k) == CHOOSE i \in P : Cardinality(Upto(P, i)) = k
<1>1. /\ Len(s) \in Nat /\ DOMAIN s = 1 .. Len(s) /\ P \in SUBSET (1 .. Len(s))
      /\ IsFiniteSet(P) /\ n \in Nat
  <2>1. Len(s) \in Nat /\ DOMAIN s = 1 .. Len(s) /\ P \in SUBSET (1 .. Len(s))
    OBVIOUS
  <2>2. QED
    BY <2>1, FinitePlaces
<1>2. \A k \in 1 .. n : place(k) \in P /\ Cardinality(Upto(P, place(k))) = k
  <2>1. \A k \in 1 .. n : \E i \in P : Cardinality(Upto(P, i)) = k
    BY <1>1, RankFacts
  <2>2. QED
    BY <2>1
<1>3. ASSUME NEW i \in P
      PROVE  \E k \in 1 .. n : place(k) = i
  <2>1. Cardinality(Upto(P, i)) \in 1 .. n
    BY <1>1, UptoFacts
  <2>2. \A j \in P : Cardinality(Upto(P, i)) = Cardinality(Upto(P, j)) => i = j
    BY <1>1, RankFacts
  <2>3. QED
    BY <1>2, <2>1, <2>2
<1> HIDE DEF n
<1>4. Picked(s, P) = [k \in 1 .. n |-> s[place(k)]]
  BY DEF Picked, n
<1> HIDE DEF place
<1>5. Picked(s, P) \in [1 .. n -> S]
  BY <1>1, <1>2, <1>4
<1>6. Picked(s, P) \in Seq(S)
  BY <1>1, <1>5
<1>7. QED
  BY <1>2, <1>3, <1>4, <1>6 DEF InSeq

\* What is picked at two places comes from two places.
LEMMA PickedApart ==
    ASSUME NEW S, NEW s \in Seq(S), NEW P \in SUBSET DOMAIN s,
           NEW k \in DOMAIN Picked(s, P), NEW l \in DOMAIN Picked(s, P), k # l
    PROVE  \E i, j \in P : i # j /\ Picked(s, P)[k] = s[i] /\ Picked(s, P)[l] = s[j]
<1> DEFINE n == Cardinality(P)
           place(m) == CHOOSE i \in P : Cardinality(Upto(P, i)) = m
<1>1. Len(s) \in Nat /\ P \in SUBSET (1 .. Len(s))
  OBVIOUS
<1>2. \A m \in 1 .. n : place(m) \in P /\ Cardinality(Upto(P, place(m))) = m
  <2>1. \A m \in 1 .. n : \E i \in P : Cardinality(Upto(P, i)) = m
    BY <1>1, RankFacts
  <2>2. QED
    BY <2>1
<1> HIDE DEF n
<1>3. Picked(s, P) = [m \in 1 .. n |-> s[place(m)]]
  BY DEF Picked, n
<1> HIDE DEF place
<1>4. /\ k \in 1 .. n /\ l \in 1 .. n
      /\ Picked(s, P)[k] = s[place(k)] /\ Picked(s, P)[l] = s[place(l)]
  BY <1>3
<1>5. place(k) \in P /\ place(l) \in P /\ place(k) # place(l)
  BY <1>2, <1>4
<1>6. QED
  BY <1>4, <1>5

=============================================================================
