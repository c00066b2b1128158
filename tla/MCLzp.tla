-------------------------------- MODULE MCLzp ---------------------------------
(* Lzp over bytes 0..3: blocks of two values, where repeats and overlaps   *)
(* abound, blocks with all four, where the marker itself occurs, and       *)
(* arbitrary short streams.                                                *)
EXTENDS Lzp

MCInputs ==
    [1..12 -> {0, 1}]
    \cup {<<0, 1, 2, 3>> \o rest : rest \in [1..6 -> {0, 1, 2}]}
    \cup {<<0, 1>>}

MCForeignStreams ==
    {[coded |-> bytes, size |-> 6] : bytes \in UNION {[1..n -> 0..2] : n \in 0..5}}
    \cup {[coded |-> <<2>> \o literals \o <<2>> \o token, size |-> 9] :
             literals \in [1..4 -> {0, 1}], token \in UNION {[1..n -> 0..3] : n \in 1..3}}
    \cup {[coded |-> <<2, 0, 0, 0, 2, 3, 3, 3, 3, 0>>, size |-> 6]}

MCHash(context) == FoldLeft(LAMBDA hash, b : (2 * hash + b) % SlotCount, 0, context)

MCRules ==
    {[minMatch |-> 3, farMatch |-> 3, farDistance |-> 100],
     [minMatch |-> 4, farMatch |-> 2, farDistance |-> 3]}

=============================================================================
