-------------------------- MODULE MCTransformedBlock --------------------------
(* Every block of up to six of the bytes 0, 2 and 7, every one of eight    *)
(* bits, and a few long ones whose sort recurses.                          *)
EXTENDS TransformedBlock

MCBlocks ==
    UNION {[1..n -> {0, 2, 7}] : n \in 1..6} \cup [1..8 -> {0, 1}]
    \cup {<<0,1,0,0,1,0,1,0,0,1,0,0,1,0,1,0,0,1,0,1,0>>,
          <<2,1,2,0,2,1,2,0,2,1,2,0,2,1,2,0,2,1,2,0,2,1,2>>,
          <<3,3,3,3,3,3,3,1,1,1,1,1,0,0,0,0,0,0,0,0,0,2>>}

=============================================================================
