-------------------------- MODULE MCDecompressFile ---------------------------
(* DecompressFile over small archives: streams of up to four units in      *)
(* blocks of up to two, with every kind of header and archives from too    *)
(* short to too long.                                                      *)
EXTENDS DecompressFile

AllHeaders ==
    [version : 1..4, directory : BOOLEAN, streamLzp : BOOLEAN, segmented : BOOLEAN,
     blockSize : 2..3, originalSize : {4}, codedSize : {0, 3, 4}, streamBits : {20, 27},
     blockCount : 0..4]

(* Without a stream header the coded size is the original size.            *)
MCHeaders ==
    {h \in AllHeaders :
       /\ h.streamLzp \/ (h.codedSize = 4 /\ h.streamBits = 20)
       /\ h.version = 3 \/ (h.segmented /\ h.codedSize = 4)}

=============================================================================
