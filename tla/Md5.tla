-------------------------------- MODULE Md5 ---------------------------------
(***************************************************************************)
(* The arithmetic of MD5 and of the placement of files.  A word of 32 bits *)
(* is a pair of its halves <<high, low>>.                                  *)
(***************************************************************************)
EXTENDS Md5Stream, SequencesExt, Bitwise

Half == 65536

Plus(v, w) ==
    LET low == v[2] + w[2]
    IN <<(v[1] + w[1] + (low \div Half)) % Half, low % Half>>

NotW(v) == <<Half - 1 - v[1], Half - 1 - v[2]>>
AndW(v, w) == <<v[1] & w[1], v[2] & w[2]>>
OrW(v, w) == <<v[1] | w[1], v[2] | w[2]>>
XorW(v, w) == <<v[1] ^^ w[1], v[2] ^^ w[2]>>

rotate_left(v, n) ==
    LET u == IF n < 16 THEN v ELSE <<v[2], v[1]>>
        up == 2 ^ (n % 16)
        down == 2 ^ (16 - (n % 16))
    IN <<((u[1] % down) * up) + (u[2] \div down), ((u[2] % down) * up) + (u[1] \div down)>>

\* F, G, H and I of the four rounds.
Mix(round, x, y, z) ==
    CASE round = 1 -> OrW(AndW(x, y), AndW(NotW(x), z))
      [] round = 2 -> OrW(AndW(x, z), AndW(y, NotW(z)))
      [] round = 3 -> XorW(x, XorW(y, z))
      [] round = 4 -> XorW(y, OrW(x, NotW(z)))

\* S11 to S44.
Shift == << <<7, 12, 17, 22>>, <<5, 9, 14, 20>>, <<4, 11, 16, 23>>, <<6, 10, 15, 21>> >>

\* Which word of the block the step takes, counted from 0.
WordOfStep(step) ==
    CASE step < 16 -> step
      [] step \in 16 .. 31 -> (5 * step + 1) % 16
      [] step \in 32 .. 47 -> (3 * step + 5) % 16
      [] step \in 48 .. 63 -> (7 * step) % 16

\* The constant of each step.
SineWord == <<
    <<55146, 42104>>, <<59591, 46934>>, <<9248, 28891>>, <<49597, 52974>>,
    <<62844, 4015>>, <<18311, 50730>>, <<43056, 17939>>, <<64838, 38145>>,
    <<27008, 39128>>, <<35652, 63407>>, <<65535, 23473>>, <<35164, 55230>>,
    <<27536, 4386>>, <<64920, 29075>>, <<42617, 17294>>, <<18868, 2081>>,
    <<63006, 9570>>, <<49216, 45888>>, <<9822, 23121>>, <<59830, 51114>>,
    <<54831, 4189>>, <<580, 5203>>, <<55457, 59009>>, <<59347, 64456>>,
    <<8673, 52710>>, <<49975, 2006>>, <<62677, 3463>>, <<17754, 5357>>,
    <<43491, 59653>>, <<64751, 41976>>, <<26479, 729>>, <<36138, 19594>>,
    <<65530, 14658>>, <<34673, 63105>>, <<28061, 24866>>, <<64997, 14348>>,
    <<42174, 59972>>, <<19422, 53161>>, <<63163, 19296>>, <<48831, 48240>>,
    <<10395, 32454>>, <<60065, 10234>>, <<54511, 12421>>, <<1160, 7429>>,
    <<55764, 53305>>, <<59099, 39397>>, <<8098, 31992>>, <<50348, 22117>>,
    <<62505, 8772>>, <<17194, 65431>>, <<43924, 9127>>, <<64659, 41017>>,
    <<25947, 22979>>, <<36620, 52370>>, <<65519, 62589>>, <<34180, 24017>>,
    <<28584, 32335>>, <<65068, 59104>>, <<41729, 17172>>, <<19976, 4513>>,
    <<63315, 32386>>, <<48442, 62005>>, <<10967, 53947>>, <<60294, 54161>>>>

decode(block) ==
    [i \in 1 .. 16 |-> <<block[4 * i - 1] + 256 * block[4 * i],
                         block[4 * i - 3] + 256 * block[4 * i - 2]>>]

\* FF, GG, HH and II: the words change places from step to step.
Stepped(abcd, step, x) ==
    LET round == (step \div 16) + 1
        mixed == Plus(abcd[1], Mix(round, abcd[2], abcd[3], abcd[4]))
        sum == Plus(mixed, Plus(x[WordOfStep(step) + 1], SineWord[step + 1]))
        turned == rotate_left(sum, Shift[round][(step % 4) + 1])
    IN <<abcd[4], Plus(turned, abcd[2]), abcd[2], abcd[3]>>

transform(state, block) ==
    LET x == decode(block)
        last == FoldLeft(LAMBDA abcd, i : Stepped(abcd, i - 1, x), state, [i \in 1 .. 64 |-> i])
    IN [i \in 1 .. 4 |-> Plus(state[i], last[i])]

initState == << <<26437, 8961>>, <<61389, 43913>>, <<39098, 56574>>, <<4146, 21622>> >>

\* CalculateHash: the 16 bytes of the digest.
CalculateHash(data) ==
    LET md5 == Finalize(Update(NewMd5, data, Len(data)))
        state == FoldLeft(transform, initState, md5.blocks)
        bytes(w) == <<w[2] % 256, w[2] \div 256, w[1] % 256, w[1] \div 256>>
    IN bytes(state[1]) \o bytes(state[2]) \o bytes(state[3]) \o bytes(state[4])

\* File2NodeHash before the remainder: v * 379 ^ byte, over the bytes.
HashOfHash(hash) ==
    LET times379(v) == <<(379 * v[1] + ((379 * v[2]) \div Half)) % Half, (379 * v[2]) % Half>>
    IN FoldLeft(LAMBDA v, byte : XorW(times379(v), <<0, byte>>), <<0, hash[1]>>, Tail(hash))

-----------------------------------------------------------------------------
(* Properties.                                                             *)

\* The test suite of RFC 1321, which MD5::transform is taken from, for the
\* empty text, "a", "abc" and "message digest".
DigestsOfTheStandard ==
    /\ CalculateHash(<<>>) =
         <<212, 29, 140, 217, 143, 0, 178, 4, 233, 128, 9, 152, 236, 248, 66, 126>>
    /\ CalculateHash(<<97>>) =
         <<12, 193, 117, 185, 192, 241, 182, 168, 49, 195, 153, 226, 105, 119, 38, 97>>
    /\ CalculateHash(<<97, 98, 99>>) =
         <<144, 1, 80, 152, 60, 210, 79, 176, 214, 150, 63, 125, 40, 225, 127, 114>>
    /\ CalculateHash(<<109, 101, 115, 115, 97, 103, 101, 32, 100, 105, 103, 101, 115, 116>>) =
         <<249, 107, 105, 125, 124, 183, 147, 141, 82, 90, 47, 49, 170, 241, 97, 208>>

\* The blocks are those of the standard however the data is cut into calls of
\* update(), at every boundary of a block, of the padding and of the bit count.
BlocksOfTheStandard ==
    \A n \in {0, 1, 8, 55, 56, 63, 64, 65, 119, 120, 127, 128, 130} :
        LET data == [i \in 1 .. n |-> 1000 + i]
        IN \A cut \in {c \in {0, 1, 55, 56, 63, 64, 65, 127, 128, n} : c <= n} :
              CutIntoBlocks(
                  Finalize(Update(Update(NewMd5, data, cut),
                                  SubSeq(data, cut + 1, n), n - cut)).blocks,
                  Standard(data))

=============================================================================
