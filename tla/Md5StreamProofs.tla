-------------------------- MODULE Md5StreamProofs ---------------------------
(***************************************************************************)
(* Proof that MD5 transforms the blocks of the standard, for data of every *)
(* length, cut in every way into calls of update().                        *)
(***************************************************************************)
EXTENDS Md5Stream, SequenceTheorems, TLAPS

Byte == 0 .. 255
Block == [1 .. 64 -> Byte]

\* The words of the bit count after the bytes n.
BitCount(n) == <<(8 * n) % Word, ((8 * n) \div Word) % Word>>

\* The object has been fed with these bytes: the whole blocks are transformed,
\* the rest is in the buffer, and all of them are counted.
Fed(md5, data) ==
    /\ md5 \in [count : Nat \X Nat, buffer : Block, blocks : Seq(Block), finalized : BOOLEAN]
    /\ md5.count = BitCount(Len(data))
    /\ Len(md5.blocks) = Len(data) \div 64
    /\ \A k \in 1 .. Len(md5.blocks), p \in 1 .. 64 :
          md5.blocks[k][p] = data[64 * (k - 1) + p]
    /\ \A p \in 1 .. Len(data) % 64 : md5.buffer[p] = data[64 * (Len(data) \div 64) + p]

-----------------------------------------------------------------------------
(* The bit count.                                                          *)

LEMMA WordFacts == Word \in Nat \ {0} /\ (Word = 1024 \/ Word = 4294967296)
BY WordAssumption

LEMMA CountFacts ==
    ASSUME NEW n \in Nat
    PROVE  /\ BitCount(n) \in Nat \X Nat
           /\ (BitCount(n)[1] \div 8) % 64 = n % 64
<1>1. CASE Word = 1024
  BY <1>1 DEF BitCount
<1>2. CASE Word = 4294967296
  BY <1>2 DEF BitCount
<1>3. QED
  BY <1>1, <1>2, WordFacts

\* The carry and the high bits of the length are right for every count, also
\* when the 64 bits overflow.
LEMMA CountedFacts ==
    ASSUME NEW n \in Nat, NEW length \in Nat
    PROVE  Counted(BitCount(n), length) = BitCount(n + length)
<1>1. CASE Word = 1024
  BY <1>1 DEF BitCount, Counted
<1>2. CASE Word = 4294967296
  BY <1>2 DEF BitCount, Counted
<1>3. QED
  BY <1>1, <1>2, WordFacts

-----------------------------------------------------------------------------
(* update().                                                               *)

LEMMA ConcatFacts ==
    ASSUME NEW S
    PROVE  \A s, t \in Seq(S) :
           /\ s \o t \in Seq(S) /\ Len(s \o t) = Len(s) + Len(t)
           /\ \A k \in 1 .. Len(s) : (s \o t)[k] = s[k]
           /\ \A k \in 1 .. Len(t) : (s \o t)[Len(s) + k] = t[k]
<1> SUFFICES ASSUME NEW s \in Seq(S), NEW t \in Seq(S)
             PROVE  /\ s \o t \in Seq(S) /\ Len(s \o t) = Len(s) + Len(t)
                    /\ \A k \in 1 .. Len(s) : (s \o t)[k] = s[k]
                    /\ \A k \in 1 .. Len(t) : (s \o t)[Len(s) + k] = t[k]
  OBVIOUS
<1>1. Len(s) \in Nat /\ Len(t) \in Nat
  OBVIOUS
<1>2. \A k \in 1 .. Len(s) + Len(t) :
          (s \o t)[k] = IF k <= Len(s) THEN s[k] ELSE t[k - Len(s)]
  BY ConcatProperties
<1>3. ASSUME NEW k \in 1 .. Len(t)
      PROVE  (s \o t)[Len(s) + k] = t[k]
  <2>1. /\ Len(s) + k \in 1 .. Len(s) + Len(t) /\ ~(Len(s) + k <= Len(s))
        /\ (Len(s) + k) - Len(s) = k
    BY <1>1
  <2>2. QED
    BY <1>2, <2>1
<1>4. ASSUME NEW k \in 1 .. Len(s)
      PROVE  (s \o t)[k] = s[k]
  BY <1>1, <1>2
<1>5. QED
  BY <1>3, <1>4, ConcatProperties

\* The data with the first bytes of the input behind it.
LEMMA AllFacts ==
    ASSUME NEW data \in Seq(Byte), NEW input \in Seq(Byte), NEW length \in 0 .. Len(input)
    PROVE  LET all == data \o SubSeq(input, 1, length)
           IN /\ all \in Seq(Byte)
              /\ Len(all) = Len(data) + length
              /\ \A i \in 1 .. Len(data) : all[i] = data[i]
              /\ \A i \in 1 .. length : all[Len(data) + i] = input[i]
<1> DEFINE more == SubSeq(input, 1, length)
<1>1. more \in Seq(Byte) /\ Len(more) = length /\ \A i \in 1 .. length : more[i] = input[i]
  <2>1. \A i \in 1 .. length : input[i] \in Byte
    OBVIOUS
  <2>2. QED
    BY <2>1, SubSeqProperties
<1> HIDE DEF more
<1>2. /\ data \o more \in Seq(Byte) /\ Len(data \o more) = Len(data) + Len(more)
      /\ \A k \in 1 .. Len(data) : (data \o more)[k] = data[k]
      /\ \A k \in 1 .. Len(more) : (data \o more)[Len(data) + k] = more[k]
  <2>1. \A s, t \in Seq(Byte) :
           /\ s \o t \in Seq(Byte) /\ Len(s \o t) = Len(s) + Len(t)
           /\ \A k \in 1 .. Len(s) : (s \o t)[k] = s[k]
           /\ \A k \in 1 .. Len(t) : (s \o t)[Len(s) + k] = t[k]
    BY ConcatFacts
  <2>2. QED
    BY <1>1, <2>1
<1>3. QED
  BY <1>1, <1>2 DEF more

\* How many blocks there are before and after, and what is left over.
LEMMA BlockArithmetic ==
    ASSUME NEW l \in Nat, NEW length \in Nat
    PROVE  LET index == l % 64
               n == (index + length) \div 64
           IN /\ index \in 0 .. 63 /\ n \in Nat /\ l \div 64 \in Nat
              /\ l = 64 * (l \div 64) + index
              /\ (l + length) \div 64 = l \div 64 + n
              /\ (l + length) % 64 = index + length - 64 * n
              /\ 64 * n <= index + length /\ index + length < 64 * n + 64
OBVIOUS

\* The blocks that one call makes are those of the data and the input.
MadeRight(md5, data, input, length) ==
    \A k \in 1 .. Transforms(md5, length) :
       /\ MadeBlock(md5, input, k) \in Block
       /\ \A p \in 1 .. 64 :
             MadeBlock(md5, input, k)[p] =
                (data \o SubSeq(input, 1, length))[64 * (Len(data) \div 64 + k - 1) + p]

LEMMA NewBlocks ==
    ASSUME NEW md5, NEW data \in Seq(Byte), Fed(md5, data),
           NEW input \in Seq(Byte), NEW length \in 0 .. Len(input)
    PROVE  MadeRight(md5, data, input, length)
<1> SUFFICES ASSUME NEW k \in 1 .. Transforms(md5, length)
             PROVE  /\ MadeBlock(md5, input, k) \in Block
                    /\ \A p \in 1 .. 64 :
                          MadeBlock(md5, input, k)[p] =
                             (data \o SubSeq(input, 1, length))[64 * (Len(data) \div 64 + k - 1) + p]
  BY DEF MadeRight
<1> DEFINE all == data \o SubSeq(input, 1, length)
           l == Len(data)
           index == l % 64
           n == (index + length) \div 64
           q == l \div 64
<1>1. l \in Nat /\ length \in Nat
  OBVIOUS
<1>2. Index(md5) = index
  BY <1>1, CountFacts DEF Index, Fed, blocksize
<1>3. k \in 1 .. n
  BY <1>2 DEF Transforms, blocksize
<1>4. /\ \A i \in 1 .. l : all[i] = data[i]
      /\ \A i \in 1 .. length : all[l + i] = input[i]
  BY AllFacts
<1>5. /\ \A p \in 1 .. index : md5.buffer[p] = data[64 * q + p]
      /\ \A p \in 1 .. 64 : md5.buffer[p] \in Byte
  BY DEF Fed, Block
<1>6. \A i \in 1 .. length : input[i] \in Byte
  OBVIOUS
<1> HIDE DEF l
<1>7. /\ index \in 0 .. 63 /\ n \in Nat /\ q \in Nat /\ l = 64 * q + index
      /\ 64 * n <= index + length
  BY <1>1, BlockArithmetic
<1> HIDE DEF all, index, n, q
<1>8. ASSUME NEW p \in 1 .. 64, k = 1
      PROVE  Filled(md5, input)[p] \in Byte /\ Filled(md5, input)[p] = all[64 * q + p]
  <2>1. Filled(md5, input)[p] = IF p <= index THEN md5.buffer[p] ELSE input[p - index]
    BY <1>2 DEF Filled, blocksize
  <2>2. CASE p <= index
    <3>1. p \in 1 .. index /\ 64 * q + p \in 1 .. l
      BY <1>1, <1>7, <2>2
    <3>2. QED
      BY <1>4, <1>5, <2>1, <2>2, <3>1
  <2>3. CASE p > index
    <3>1. p - index \in 1 .. length /\ 64 * q + p = l + (p - index)
      BY <1>1, <1>3, <1>7, <1>8, <2>3
    <3>2. input[p - index] = all[64 * q + p]
      BY <1>4, <3>1
    <3>3. ~(p <= index)
      BY <1>7, <2>3
    <3>4. QED
      BY <1>6, <2>1, <3>1, <3>2, <3>3
  <2>4. QED
    BY <1>7, <2>2, <2>3
<1>9. ASSUME NEW p \in 1 .. 64, k # 1
      PROVE  /\ input[64 * (k - 1) - index + p] \in Byte
             /\ input[64 * (k - 1) - index + p] = all[64 * (q + k - 1) + p]
  <2> DEFINE i == 64 * (k - 1) - index + p
  <2>1. i \in 1 .. length /\ 64 * (q + k - 1) + p = l + i
    BY <1>1, <1>3, <1>7, <1>9
  <2> HIDE DEF i
  <2>2. input[i] \in Byte /\ input[i] = all[64 * (q + k - 1) + p]
    BY <1>4, <1>6, <2>1
  <2>3. QED
    BY <2>2 DEF i
<1>10. CASE k = 1
  <2>1. MadeBlock(md5, input, k) = Filled(md5, input) /\ q + k - 1 = q
    BY <1>7, <1>10 DEF MadeBlock
  <2>2. Filled(md5, input) \in Block
    BY <1>8, <1>10 DEF Filled, Block, blocksize
  <2>3. \A p \in 1 .. 64 : MadeBlock(md5, input, k)[p] = all[64 * (q + k - 1) + p]
    BY <1>8, <1>10, <2>1
  <2>4. QED
    BY <2>1, <2>2, <2>3 DEF all, q, l
<1>11. CASE k # 1
  <2>1. MadeBlock(md5, input, k) = [p \in 1 .. 64 |-> input[64 * (k - 1) - index + p]]
    BY <1>2, <1>11 DEF MadeBlock, blocksize
  <2>2. MadeBlock(md5, input, k) \in Block
    BY <1>9, <1>11, <2>1 DEF Block
  <2>3. \A p \in 1 .. 64 : MadeBlock(md5, input, k)[p] = all[64 * (q + k - 1) + p]
    BY <1>9, <1>11, <2>1
  <2>4. QED
    BY <2>2, <2>3 DEF all, q, l
<1>12. QED
  BY <1>10, <1>11

\* One call of update() feeds the object with the first bytes of its input, and
\* with nothing else: the blocks it transforms, what stays in the buffer and the
\* bit count are those of all data so far (md5.cpp 258-291).
THEOREM UpdateCorrect ==
    ASSUME NEW md5, NEW data \in Seq(Byte), Fed(md5, data),
           NEW input \in Seq(Byte), NEW length \in 0 .. Len(input)
    PROVE  /\ Fed(Update(md5, input, length), data \o SubSeq(input, 1, length))
           /\ Update(md5, input, length).finalized = md5.finalized
<1> DEFINE all == data \o SubSeq(input, 1, length)
           new == Update(md5, input, length)
           l == Len(data)
           from == l % 64
           n == (from + length) \div 64
           q == l \div 64
           rest == from + length - 64 * n
           made == [k \in 1 .. n |-> MadeBlock(md5, input, k)]
           i == IF n = 0 THEN 0 ELSE 64 * n - from
           index == IF n = 0 THEN from ELSE 0
           buffer == [p \in 1 .. 64 |->
               IF p > index /\ p <= index + length - i THEN input[i + p - index]
               ELSE IF n = 0 THEN md5.buffer[p] ELSE Filled(md5, input)[p]]
<1>1. l \in Nat /\ length \in Nat
  OBVIOUS
<1>2. Index(md5) = from /\ Transforms(md5, length) = n
  BY <1>1, CountFacts DEF Index, Transforms, Fed, blocksize
<1>3. /\ md5 \in [count : Nat \X Nat, buffer : Block, blocks : Seq(Block), finalized : BOOLEAN]
      /\ md5.count = BitCount(l) /\ Len(md5.blocks) = q
      /\ \A k \in 1 .. q, p \in 1 .. 64 : md5.blocks[k][p] = data[64 * (k - 1) + p]
      /\ \A p \in 1 .. from : md5.buffer[p] = data[64 * q + p]
      /\ \A p \in 1 .. 64 : md5.buffer[p] \in Byte
  BY DEF Fed, Block
<1>4. new = [md5 EXCEPT !.count = Counted(md5.count, length),
                        !.blocks = md5.blocks \o made, !.buffer = buffer]
  BY <1>2 DEF Update, blocksize
<1>5. /\ n = 0 => index = from /\ i = 0
      /\ n # 0 => index = 0 /\ i = 64 * n - from
      /\ rest = from + length - 64 * n
  OBVIOUS
<1>6. \A p \in 1 .. 64 :
         buffer[p] = IF p > index /\ p <= index + length - i THEN input[i + p - index]
                     ELSE IF n = 0 THEN md5.buffer[p] ELSE Filled(md5, input)[p]
  OBVIOUS
<1>7. buffer = [p \in 1 .. 64 |-> buffer[p]]
  OBVIOUS
<1>8. /\ DOMAIN made = 1 .. n /\ made = [k \in 1 .. n |-> made[k]]
      /\ \A k \in 1 .. n : made[k] = MadeBlock(md5, input, k)
  OBVIOUS
<1> HIDE DEF new, rest, made, i, index, buffer
<1>9. /\ all \in Seq(Byte) /\ Len(all) = l + length
      /\ \A j \in 1 .. l : all[j] = data[j]
      /\ \A j \in 1 .. length : all[l + j] = input[j]
  BY AllFacts
<1>10. \A j \in 1 .. length : input[j] \in Byte
  OBVIOUS
<1>11. \A k \in 1 .. n : /\ MadeBlock(md5, input, k) \in Block
                         /\ \A p \in 1 .. 64 : MadeBlock(md5, input, k)[p] = all[64 * (q + k - 1) + p]
  <2>1. MadeRight(md5, data, input, length)
    BY NewBlocks
  <2> HIDE DEF n
  <2>2. QED
    BY <1>2, <2>1 DEF MadeRight
<1> HIDE DEF l
<1>12. /\ from \in 0 .. 63 /\ n \in Nat /\ q \in Nat /\ l = 64 * q + from
       /\ (l + length) \div 64 = q + n
       /\ (l + length) % 64 = from + length - 64 * n
       /\ 64 * n <= from + length /\ from + length < 64 * n + 64
  BY <1>1, BlockArithmetic
<1> HIDE DEF all, from, n, q
<1>13. /\ md5.blocks \o made \in Seq(Block) /\ Len(md5.blocks \o made) = q + n
       /\ \A k \in 1 .. q : (md5.blocks \o made)[k] = md5.blocks[k]
       /\ \A k \in 1 .. n : (md5.blocks \o made)[q + k] = MadeBlock(md5, input, k)
  <2>1. made \in [1 .. n -> Block]
    BY <1>8, <1>11
  <2>2. made \in Seq(Block)
    BY <1>12, <2>1, SeqDef
  <2>3. Len(made) = n
    BY <1>12, <2>1, <2>2, LenProperties
  <2>4. md5.blocks \in Seq(Block) /\ Len(md5.blocks) = q
    BY <1>3
  <2>5. \A s, t \in Seq(Block) :
           /\ s \o t \in Seq(Block) /\ Len(s \o t) = Len(s) + Len(t)
           /\ \A k \in 1 .. Len(s) : (s \o t)[k] = s[k]
           /\ \A k \in 1 .. Len(t) : (s \o t)[Len(s) + k] = t[k]
    BY ConcatFacts
  <2>6. QED
    BY <1>8, <2>2, <2>3, <2>4, <2>5
<1>14. Counted(md5.count, length) = BitCount(l + length)
  BY <1>1, <1>3, CountedFacts
<1>15. ASSUME NEW k \in 1 .. q + n, NEW p \in 1 .. 64
       PROVE  (md5.blocks \o made)[k][p] = all[64 * (k - 1) + p]
  <2>1. CASE k <= q
    <3>1. k \in 1 .. q /\ 64 * (k - 1) + p \in 1 .. l
      BY <1>12, <2>1
    <3>2. (md5.blocks \o made)[k] = md5.blocks[k] /\ md5.blocks[k][p] = data[64 * (k - 1) + p]
      BY <1>3, <1>13, <3>1
    <3>3. all[64 * (k - 1) + p] = data[64 * (k - 1) + p]
      BY <1>9, <3>1
    <3>4. QED
      BY <3>2, <3>3
  <2>2. CASE k > q
    <3>1. PICK j \in 1 .. n : k = q + j
      <4>1. k - q \in 1 .. n /\ k = q + (k - q)
        BY <1>12, <2>2
      <4>2. QED
        BY <4>1
    <3>2. (md5.blocks \o made)[k] = MadeBlock(md5, input, j)
      BY <1>13, <3>1
    <3>3. MadeBlock(md5, input, j)[p] = all[64 * (q + j - 1) + p]
      BY <1>11
    <3>4. q + j - 1 = k - 1
      BY <1>12, <3>1
    <3>5. QED
      BY <3>2, <3>3, <3>4
  <2>3. k <= q \/ k > q
    BY <1>12
  <2>4. QED
    BY <2>1, <2>2, <2>3
<1>16. ASSUME n # 0, NEW p \in 1 .. 64
       PROVE  Filled(md5, input)[p] \in Byte
  <2>1. 1 \in 1 .. n
    BY <1>12, <1>16
  <2>2. MadeBlock(md5, input, 1) \in Block /\ MadeBlock(md5, input, 1) = Filled(md5, input)
    BY <1>11, <2>1 DEF MadeBlock
  <2>3. QED
    BY <2>2 DEF Block
<1>17. /\ index + length - i = rest /\ i \in Nat /\ index \in Nat
       /\ rest \in 0 .. 63 /\ (l + length) % 64 = rest
       /\ index + i + l = 64 * (q + n) + 2 * index
  <2>1. CASE n = 0
    BY <1>1, <1>5, <1>12, <2>1
  <2>2. CASE n # 0
    BY <1>1, <1>5, <1>12, <2>2
  <2>3. QED
    BY <2>1, <2>2
<1>18. ASSUME NEW p \in 1 .. 64, p > index, p <= rest
       PROVE  /\ input[i + p - index] \in Byte
              /\ input[i + p - index] = all[64 * (q + n) + p]
  <2>1. PICK j \in 1 .. length : j = i + p - index
    <3>1. i + p - index \in 1 .. length
      BY <1>1, <1>12, <1>17, <1>18
    <3>2. QED
      BY <3>1
  <2>2. l + j = 64 * (q + n) + p
    BY <1>1, <1>12, <1>17, <2>1
  <2>3. input[j] \in Byte /\ input[j] = all[64 * (q + n) + p]
    BY <1>9, <1>10, <2>2
  <2>4. QED
    BY <2>1, <2>3
<1>19. ASSUME NEW p \in 1 .. 64
       PROVE  buffer[p] \in Byte /\ (p <= rest => buffer[p] = all[64 * (q + n) + p])
  <2>1. buffer[p] = IF p > index /\ p <= rest THEN input[i + p - index]
                    ELSE IF n = 0 THEN md5.buffer[p] ELSE Filled(md5, input)[p]
    BY <1>6, <1>17
  <2>2. CASE p > index /\ p <= rest
    BY <1>18, <2>1, <2>2
  <2>3. CASE ~(p > index /\ p <= rest) /\ n = 0
    <3>1. buffer[p] = md5.buffer[p]
      BY <2>1, <2>3
    <3>2. ASSUME p <= rest
          PROVE  p \in 1 .. from /\ 64 * (q + n) + p = 64 * q + p /\ 64 * q + p \in 1 .. l
      <4>1. ~(p > index) /\ index = from
        BY <1>5, <2>3, <3>2
      <4>2. QED
        BY <1>12, <1>17, <2>3, <4>1
    <3>3. QED
      BY <1>3, <1>9, <3>1, <3>2
  <2>4. CASE ~(p > index /\ p <= rest) /\ n # 0
    <3>1. buffer[p] = Filled(md5, input)[p]
      BY <2>1, <2>4
    <3>2. p > index
      <4>1. index = 0
        BY <1>5, <2>4
      <4>2. QED
        BY <4>1
    <3>3. ~(p <= rest)
      BY <2>4, <3>2
    <3>4. QED
      BY <1>16, <2>4, <3>1, <3>3
  <2>5. QED
    BY <2>2, <2>3, <2>4
<1>20. buffer \in Block
  BY <1>7, <1>19 DEF Block
<1>21. l + length \in Nat
  BY <1>1
<1>22. BitCount(l + length) \in Nat \X Nat
  BY <1>21, CountFacts
<1>23. /\ new.count = BitCount(l + length) /\ new.blocks = md5.blocks \o made
       /\ new.buffer = buffer /\ new.finalized = md5.finalized
       /\ new \in [count : Nat \X Nat, buffer : Block, blocks : Seq(Block), finalized : BOOLEAN]
  BY <1>3, <1>4, <1>13, <1>14, <1>20, <1>22
<1>24. Len(new.blocks) = q + n /\ Len(all) \div 64 = q + n /\ Len(all) % 64 = rest
  BY <1>9, <1>12, <1>13, <1>17, <1>23
<1>25. new.count = BitCount(Len(all))
  BY <1>9, <1>23
<1>26. \A k \in 1 .. Len(new.blocks), p \in 1 .. 64 : new.blocks[k][p] = all[64 * (k - 1) + p]
  <2>1. new.blocks = md5.blocks \o made /\ Len(new.blocks) = q + n
    BY <1>23, <1>24
  <2>2. QED
    BY <1>15, <2>1
<1>27. \A p \in 1 .. Len(all) % 64 : new.buffer[p] = all[64 * (Len(all) \div 64) + p]
  <2>1. \A p \in 1 .. rest : p \in 1 .. 64 /\ p <= rest
    BY <1>17
  <2>2. \A p \in 1 .. rest : buffer[p] = all[64 * (q + n) + p]
    BY <1>19, <2>1
  <2>3. QED
    BY <1>23, <1>24, <2>2
<1>28. Fed(new, all)
  BY <1>23, <1>24, <1>25, <1>26, <1>27 DEF Fed
<1>29. QED
  BY <1>23, <1>28 DEF all, new

-----------------------------------------------------------------------------
(* finalize().                                                             *)

LEMMA EncodeFacts ==
    ASSUME NEW w \in Nat
    PROVE  encode(w) \in Seq(Byte) /\ Len(encode(w)) = 4
<1>1. /\ w % 256 \in Byte /\ (w \div 256) % 256 \in Byte
      /\ (w \div 65536) % 256 \in Byte /\ (w \div 16777216) % 256 \in Byte
  BY DEF Byte
<1>2. QED
  BY <1>1 DEF encode

\* The zero bytes behind the bit that ends the data.
Zeros(n) == [i \in 1 .. (119 - (n % 64)) % 64 |-> 0]

LEMMA PaddingArithmetic ==
    ASSUME NEW n \in Nat
    PROVE  LET padLen == IF n % 64 < 56 THEN 56 - (n % 64) ELSE 120 - (n % 64)
           IN /\ padLen \in 1 .. 64 /\ padLen = 1 + ((119 - (n % 64)) % 64)
              /\ (n + padLen + 8) % 64 = 0 /\ (119 - (n % 64)) % 64 \in Nat
OBVIOUS

LEMMA PaddingFacts ==
    ASSUME NEW n \in Nat, NEW padLen \in 1 .. 64, padLen = 1 + ((119 - (n % 64)) % 64)
    PROVE  /\ padding \in Seq(Byte) /\ Len(padding) = 64
           /\ SubSeq(padding, 1, padLen) = <<128>> \o Zeros(n)
           /\ Zeros(n) \in Seq(Byte) /\ <<128>> \in Seq(Byte)
<1> DEFINE z == (119 - (n % 64)) % 64
<1>1. z \in Nat /\ padLen = 1 + z
  BY PaddingArithmetic
<1>2. \A i \in 1 .. 64 : padding[i] = IF i = 1 THEN 128 ELSE 0
  BY DEF padding
<1>3. padding \in [1 .. 64 -> Byte]
  BY DEF padding, Byte
<1>4. padding \in Seq(Byte)
  BY <1>3, SeqDef
<1>5. Len(padding) = 64
  BY <1>3, <1>4, LenProperties
<1>6. Zeros(n) = [i \in 1 .. z |-> 0]
  BY DEF Zeros
<1> HIDE DEF z
<1>7. Zeros(n) \in [1 .. z -> Byte]
  BY <1>6 DEF Byte
<1>8. Zeros(n) \in Seq(Byte)
  BY <1>1, <1>7, SeqDef
<1>9. Len(Zeros(n)) = z
  BY <1>1, <1>7, <1>8, LenProperties
<1>10. <<128>> \in Seq(Byte) /\ Len(<<128>>) = 1 /\ <<128>>[1] = 128
  BY DEF Byte
<1> DEFINE pad == SubSeq(padding, 1, padLen)
           all == <<128>> \o Zeros(n)
<1>11. /\ pad \in Seq(Byte) /\ Len(pad) = padLen
       /\ \A i \in 1 .. padLen : pad[i] = padding[i]
  <2>1. \A i \in 1 .. padLen : padding[i] \in Byte
    BY <1>3
  <2>2. padLen <= Len(padding) /\ padLen \in Nat
    BY <1>5
  <2>3. QED
    BY <1>4, <2>1, <2>2, SubSeqProperties
<1>12. /\ all \in Seq(Byte) /\ Len(all) = 1 + z
       /\ all[1] = 128 /\ \A i \in 1 .. z : all[1 + i] = 0
  <2>1. \A s, t \in Seq(Byte) :
           /\ s \o t \in Seq(Byte) /\ Len(s \o t) = Len(s) + Len(t)
           /\ \A k \in 1 .. Len(s) : (s \o t)[k] = s[k]
           /\ \A k \in 1 .. Len(t) : (s \o t)[Len(s) + k] = t[k]
    BY ConcatFacts
  <2>2. \A i \in 1 .. z : Zeros(n)[i] = 0
    BY <1>6
  <2> HIDE DEF all
  <2>3. /\ all \in Seq(Byte) /\ Len(all) = Len(<<128>>) + Len(Zeros(n))
        /\ \A k \in 1 .. Len(<<128>>) : all[k] = <<128>>[k]
        /\ \A k \in 1 .. Len(Zeros(n)) : all[Len(<<128>>) + k] = Zeros(n)[k]
    BY <1>8, <1>10, <2>1 DEF all
  <2>4. QED
    BY <1>9, <1>10, <2>2, <2>3
<1> HIDE DEF pad, all
<1>13. ASSUME NEW i \in 1 .. padLen
       PROVE  pad[i] = all[i]
  <2>1. i \in 1 .. 64 /\ pad[i] = padding[i]
    BY <1>11
  <2>2. CASE i = 1
    BY <1>2, <1>12, <2>1, <2>2
  <2>3. CASE i # 1
    <3>1. PICK j \in 1 .. z : i = 1 + j
      <4>1. i - 1 \in 1 .. z /\ i = 1 + (i - 1)
        BY <1>1, <2>3
      <4>2. QED
        BY <4>1
    <3>2. pad[i] = 0
      BY <1>2, <2>1, <2>3
    <3>3. QED
      BY <1>12, <3>1, <3>2
  <2>4. QED
    BY <2>2, <2>3
<1>14. pad = all
  BY <1>1, <1>11, <1>12, <1>13, SeqEqual
<1>15. QED
  BY <1>4, <1>5, <1>8, <1>10, <1>14 DEF pad, all

\* The length that finalize() appends, as the standard wants it.
Bits(n) == encode(BitCount(n)[1]) \o encode(BitCount(n)[2])

LEMMA BitsFacts ==
    ASSUME NEW n \in Nat
    PROVE  /\ Bits(n) \in Seq(Byte) /\ Len(Bits(n)) = 8 /\ SubSeq(Bits(n), 1, 8) = Bits(n)
           /\ encode(BitCount(n)[1]) \in Seq(Byte) /\ encode(BitCount(n)[2]) \in Seq(Byte)
<1> DEFINE low == encode(BitCount(n)[1])
           high == encode(BitCount(n)[2])
<1>1. BitCount(n)[1] \in Nat /\ BitCount(n)[2] \in Nat
  BY CountFacts
<1>2. low \in Seq(Byte) /\ Len(low) = 4 /\ high \in Seq(Byte) /\ Len(high) = 4
  BY <1>1, EncodeFacts
<1> HIDE DEF low, high
<1>3. low \o high \in Seq(Byte) /\ Len(low \o high) = Len(low) + Len(high)
  <2>1. low \in Seq(Byte) /\ high \in Seq(Byte)
    BY <1>2
  <2>2. low \o high \in Seq(Byte)
    BY <2>1
  <2>3. Len(low \o high) = Len(low) + Len(high)
    BY <2>1
  <2>4. QED
    BY <2>2, <2>3
<1>4. Bits(n) = low \o high
  BY DEF Bits, low, high
<1>5. Bits(n) \in Seq(Byte) /\ Len(Bits(n)) = 8
  BY <1>2, <1>3, <1>4
<1>6. \A i \in 1 .. 8 : Bits(n)[i] \in Byte
  <2>1. \A s \in Seq(Byte) : \A i \in 1 .. Len(s) : s[i] \in Byte
    OBVIOUS
  <2>2. QED
    BY <1>5, <2>1
<1> DEFINE same == SubSeq(Bits(n), 1, 8)
<1>7. same \in Seq(Byte) /\ Len(same) = 8 /\ \A i \in 1 .. 8 : same[i] = Bits(n)[i]
  BY <1>6, SubSeqProperties
<1> HIDE DEF same
<1>8. same = Bits(n)
  BY <1>5, <1>7, SeqEqual
<1>9. QED
  BY <1>2, <1>5, <1>8 DEF same, low, high

\* What finalize() adds is what the standard adds.
LEMMA PaddedIsStandard ==
    ASSUME NEW data \in Seq(Byte), NEW padLen \in 1 .. 64,
           padLen = 1 + ((119 - (Len(data) % 64)) % 64)
    PROVE  (data \o SubSeq(padding, 1, padLen)) \o SubSeq(Bits(Len(data)), 1, 8) = Standard(data)
<1> DEFINE n == Len(data)
           low == encode(BitCount(n)[1])
           high == encode(BitCount(n)[2])
           one == <<128>>
           zeros == Zeros(n)
<1>1. n \in Nat
  OBVIOUS
<1>2. /\ SubSeq(Bits(n), 1, 8) = low \o high
      /\ low \in Seq(Byte) /\ high \in Seq(Byte)
  BY <1>1, BitsFacts DEF Bits
<1>3. /\ SubSeq(padding, 1, padLen) = one \o zeros
      /\ zeros \in Seq(Byte) /\ one \in Seq(Byte)
  BY <1>1, PaddingFacts
<1>4. Standard(data) = (((data \o one) \o zeros) \o low) \o high
  BY DEF Standard, Zeros, BitCount
<1> HIDE DEF n, low, high, one, zeros
<1>5. (data \o one) \o zeros = data \o (one \o zeros)
  BY <1>3, ConcatAssociative
<1> DEFINE padded == data \o (one \o zeros)
<1>6. padded \in Seq(Byte)
  BY <1>3
<1> HIDE DEF padded
<1>7. (padded \o low) \o high = padded \o (low \o high)
  <2>1. low \in Seq(Byte) /\ high \in Seq(Byte)
    BY <1>2
  <2>2. QED
    BY <1>6, <2>1, ConcatAssociative
<1>8. QED
  BY <1>2, <1>3, <1>4, <1>5, <1>7 DEF padded, n

\* A new object has been fed with nothing.
LEMMA NewMd5Fed == Fed(NewMd5, <<>>)
<1>1. NewMd5.buffer \in Block
  BY DEF NewMd5, Block, Byte, blocksize
<1>2. BitCount(0) = <<0, 0>>
  BY WordFacts DEF BitCount
<1>3. Len(<<>>) = 0 /\ 0 % 64 = 0 /\ 0 \div 64 = 0
  OBVIOUS
<1>4. NewMd5 \in [count : Nat \X Nat, buffer : Block, blocks : Seq(Block), finalized : BOOLEAN]
  BY <1>1 DEF NewMd5
<1>5. NewMd5.count = <<0, 0>> /\ NewMd5.blocks = <<>>
  BY DEF NewMd5
<1>6. QED
  BY <1>2, <1>3, <1>4, <1>5 DEF Fed

\* finalize() transforms the blocks that the standard asks for, whatever the data
\* and however it was cut into calls of update() (md5.cpp 305-337).
THEOREM FinalizeCorrect ==
    ASSUME NEW md5, NEW data \in Seq(Byte), Fed(md5, data), ~md5.finalized
    PROVE  CutIntoBlocks(Finalize(md5).blocks, Standard(data))
<1> DEFINE n == Len(data)
           padLen == IF n % 64 < 56 THEN 56 - (n % 64) ELSE 120 - (n % 64)
           bits == encode(md5.count[1]) \o encode(md5.count[2])
           first == Update(md5, padding, padLen)
           once == data \o SubSeq(padding, 1, padLen)
           padded == Update(first, bits, 8)
<1>1. n \in Nat
  OBVIOUS
<1>2. Index(md5) = n % 64 /\ md5.count = BitCount(n)
  BY <1>1, CountFacts DEF Index, Fed, blocksize
<1>3. Finalize(md5).blocks = padded.blocks
  BY <1>2 DEF Finalize, NewMd5
<1>4. bits = Bits(n)
  BY <1>2 DEF Bits
<1> HIDE DEF bits
<1>5. /\ padLen \in 1 .. 64 /\ padLen = 1 + ((119 - (n % 64)) % 64)
      /\ (n + padLen + 8) % 64 = 0
  BY <1>1, PaddingArithmetic
<1> HIDE DEF padLen
<1>6. padding \in Seq(Byte) /\ Len(padding) = 64
  BY <1>1, <1>5, PaddingFacts
<1>7. /\ bits \in Seq(Byte) /\ Len(bits) = 8
      /\ once \o SubSeq(bits, 1, 8) = Standard(data)
  BY <1>1, <1>4, <1>5, BitsFacts, PaddedIsStandard
<1>8. Fed(first, once) /\ once \in Seq(Byte) /\ Len(once) = n + padLen
  <2>1. padLen \in 0 .. Len(padding)
    BY <1>5, <1>6
  <2>2. QED
    BY <1>6, <2>1, UpdateCorrect, AllFacts
<1> HIDE DEF first, once
<1>9. /\ Fed(padded, Standard(data))
      /\ Len(Standard(data)) = n + padLen + 8
  <2>1. 8 \in 0 .. Len(bits)
    BY <1>7
  <2>2. Fed(padded, once \o SubSeq(bits, 1, 8))
    BY <1>7, <1>8, <2>1, UpdateCorrect
  <2>3. Len(once \o SubSeq(bits, 1, 8)) = Len(once) + 8
    BY <1>7, <1>8, <2>1, AllFacts
  <2>4. QED
    BY <1>7, <1>8, <2>2, <2>3
<1> HIDE DEF padded, n
<1>10. Len(Standard(data)) = 64 * (Len(Standard(data)) \div 64)
  BY <1>1, <1>5, <1>9
<1>11. QED
  BY <1>3, <1>9, <1>10 DEF Fed, CutIntoBlocks

\* The constructor that CalculateHash uses, update() and finalize(), transforms
\* the blocks that the standard asks for of any data (md5.cpp 118-123).
THEOREM HashCorrect ==
    ASSUME NEW data \in Seq(Byte)
    PROVE  CutIntoBlocks(Finalize(Update(NewMd5, data, Len(data))).blocks, Standard(data))
<1> DEFINE md5 == Update(NewMd5, data, Len(data))
           all == <<>> \o SubSeq(data, 1, Len(data))
<1>1. Len(data) \in 0 .. Len(data) /\ <<>> \in Seq(Byte)
  OBVIOUS
<1>2. Fed(md5, all) /\ md5.finalized = NewMd5.finalized
  BY <1>1, NewMd5Fed, UpdateCorrect
<1>3. /\ all \in Seq(Byte) /\ Len(all) = Len(<<>>) + Len(data)
      /\ \A i \in 1 .. Len(data) : all[Len(<<>>) + i] = data[i]
  BY <1>1, AllFacts
<1> HIDE DEF md5, all
<1>4. Len(all) = Len(data) /\ \A i \in 1 .. Len(data) : all[i] = data[i]
  BY <1>3
<1>5. all = data
  BY <1>3, <1>4, SeqEqual
<1>6. ~md5.finalized
  BY <1>2 DEF NewMd5
<1>7. QED
  BY <1>2, <1>5, <1>6, FinalizeCorrect DEF md5

=============================================================================
