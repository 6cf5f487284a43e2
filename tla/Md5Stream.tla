----------------------------- MODULE Md5Stream ------------------------------
(***************************************************************************)
(* How the class MD5 cuts what it is fed into the blocks it transforms.    *)
(* The object is a record: the two words of the bit count, the buffer, the *)
(* blocks transformed so far in the place of the state they make (Md5 has  *)
(* the transformation), and whether it is finalized.                       *)
(***************************************************************************)
EXTENDS Naturals, Sequences

CONSTANT Word   \* 2^32, the values of uint4 and size_type

\* A smaller word lets a model checker see the bit count overflow.
ASSUME WordAssumption == Word = 1024 \/ Word = 65536 * 65536

blocksize == 64

NewMd5 ==
    [count |-> <<0, 0>>, buffer |-> [p \in 1 .. blocksize |-> 0],
     blocks |-> <<>>, finalized |-> FALSE]

\* count[0] / 8 % blocksize
Index(md5) == (md5.count[1] \div 8) % blocksize

\* The 64 bits of the count: the carry of the low word is seen from the sum
\* being smaller than what was added.
Counted(count, length) ==
    LET bits == (8 * length) % Word
        low == (count[1] + bits) % Word
        carry == IF low < bits THEN 1 ELSE 0
    IN <<low, (count[2] + carry + (length \div (Word \div 8))) % Word>>

\* How many times update() calls transform().
Transforms(md5, length) == (Index(md5) + length) \div blocksize

\* The buffer after the first memcpy, when the input fills it.
Filled(md5, input) ==
    [p \in 1 .. blocksize |->
        IF p <= Index(md5) THEN md5.buffer[p] ELSE input[p - Index(md5)]]

\* The block that the k-th of these calls transforms: the first one is the buffer,
\* the others are in the input.
MadeBlock(md5, input, k) ==
    IF k = 1 THEN Filled(md5, input)
    ELSE [p \in 1 .. blocksize |-> input[blocksize * (k - 1) - Index(md5) + p]]

\* update(): transform what is whole, and the rest from i on into the buffer. The
\* length is below Word - 64: i + blocksize does not overflow.
Update(md5, input, length) ==
    LET n == Transforms(md5, length)
        i == IF n = 0 THEN 0 ELSE blocksize * n - Index(md5)
        index == IF n = 0 THEN Index(md5) ELSE 0
    IN [md5 EXCEPT
          !.count = Counted(@, length),
          !.blocks = @ \o [k \in 1 .. n |-> MadeBlock(md5, input, k)],
          !.buffer = [p \in 1 .. blocksize |->
              IF p > index /\ p <= index + length - i THEN input[i + p - index]
              ELSE IF n = 0 THEN @[p] ELSE Filled(md5, input)[p]]]

\* encode(): the bytes of a word, the low one first.
encode(word) ==
    <<word % 256, (word \div 256) % 256, (word \div 65536) % 256, (word \div 16777216) % 256>>

padding == [i \in 1 .. 64 |-> IF i = 1 THEN 128 ELSE 0]

\* finalize(): pad to 56 bytes of a block, then the length before the padding.
Finalize(md5) ==
    LET bits == encode(md5.count[1]) \o encode(md5.count[2])
        padLen == IF Index(md5) < 56 THEN 56 - Index(md5) ELSE 120 - Index(md5)
        padded == Update(Update(md5, padding, padLen), bits, 8)
    IN IF md5.finalized THEN md5
       ELSE [NewMd5 EXCEPT !.blocks = padded.blocks, !.finalized = TRUE]

-----------------------------------------------------------------------------
(* What the standard asks for.                                             *)

\* What is transformed is the data, a one bit, zeros up to 56 bytes of a block,
\* and the length in bits, the low word first.
Standard(data) ==
    LET n == Len(data)
        zeros == (119 - (n % 64)) % 64
    IN data \o <<128>> \o [i \in 1 .. zeros |-> 0]
         \o encode((8 * n) % Word) \o encode(((8 * n) \div Word) % Word)

\* The blocks, one after the other, are the sequence.
CutIntoBlocks(blocks, s) ==
    /\ 64 * Len(blocks) = Len(s)
    /\ \A k \in 1 .. Len(blocks), p \in 1 .. 64 : blocks[k][p] = s[64 * (k - 1) + p]

=============================================================================
