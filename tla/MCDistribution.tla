--------------------------- MODULE MCDistribution ---------------------------
(* Instances of Distribution for TLC, with the addresses of MCMembership;  *)
(* files have a content, so their places are the ones the code computes.   *)
EXTENDS MCMembership, Distribution, Md5

CONSTANTS song, tune, hymn

\* TLC evaluates the properties of the hash with every instance.
ASSUME DigestsAssumption == DigestsOfTheStandard
ASSUME BlocksAssumption == BlocksOfTheStandard

\* Contents of one byte, and the homes they give in lists of 1, 2 and 3 nodes:
\* that of the song moves at every join (0, 1, 2), that of the tune goes to the
\* second node and comes back (0, 1, 0), that of the hymn stays (0, 0, 0).
Song == <<14>>
Tune == <<4>>
Hymn == <<5>>

SongHash == HashOfHash(CalculateHash(Song))
TuneHash == HashOfHash(CalculateHash(Tune))
HymnHash == HashOfHash(CalculateHash(Hymn))

MCPlace ==
    [x \in Files |->
        CASE x = song -> SongHash[1] * Half + SongHash[2]
          [] x = tune -> TuneHash[1] * Half + TuneHash[2]
          [] x = hymn -> HymnHash[1] * Half + HymnHash[2]]

\* The scene of DistributionTwice: while only a and c are up, files are added on
\* a; b comes when c has been asked twice, and stops when all is calm.
Scene ==
    /\ added' # added => ToSet(nodes[a]) = {a, c} /\ files'[a] # files[a]
    /\ Open(b)' /\ ~Open(b) => transfers = 2
    /\ stops' # stops => exit'[b] /\ Calm

\* A file is added again when all is calm, where its home is another node.
Again ==
    adds > 0 /\ adds' > adds =>
        Calm /\ \E p \in Hosts : files'[p] # files[p] /\ Home(p, song) # p

\* One thing goes wrong: a datagram is lost, the file is removed, or a host fails
\* to write it.
OneMishap == losses + Cardinality(removed) + Cardinality(unwritten) <= 1
=============================================================================
