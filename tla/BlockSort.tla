------------------------------- MODULE BlockSort -------------------------------
(***************************************************************************)
(* What transforms.cpp does with the sorted suffixes of a block, and what  *)
(* undoes it: bwt_encode and bwt_decode, mtf_encode and mtf_decode, as     *)
(* functions of the block.  A suffix is its position in the text, from 0.  *)
(***************************************************************************)
EXTENDS Naturals, Sequences, FiniteSets, SequencesExt

CONSTANTS
    Width,           \* bits of a byte: 8
    ByteValues       \* alphabet_size: 2^8

ASSUME BytesAssumption ==
    /\ Width \in Nat /\ Width >= 2
    /\ ByteValues \in Nat /\ ByteValues >= 2 /\ ByteValues = 2^Width

At(text, position) == text[position + 1]

Positions(text) == 0..(Len(text) - 1)

Upwards(n) == [i \in 1..n |-> i - 1]

Downwards(n) == [i \in 1..n |-> n - i]

(* The suffix at p sorts before the one at q; a prefix sorts first.        *)
SuffixLess(text, p, q) ==
    \E length \in 0..(Len(text) - 1) :
        /\ \A i \in 1..length : p + i <= Len(text) /\ q + i <= Len(text) /\ text[p + i] = text[q + i]
        /\ q + length < Len(text)
        /\ p + length = Len(text) \/ text[p + length + 1] < text[q + length + 1]

InOrder(text, order) ==
    /\ ToSet(order) = Positions(text)
    /\ \A i \in 1..(Len(order) - 1) : SuffixLess(text, order[i], order[i + 1])

(* The suffixes in order.                                                  *)
SuffixOrder(text) ==
    [rank \in 1..Len(text) |->
        CHOOSE p \in Positions(text) :
            Cardinality({q \in Positions(text) : SuffixLess(text, q, p)}) = rank - 1]

(* bwt_encode, given the sorted suffixes: the symbol before each suffix.   *)
(* The row of suffix 0 is left out and is the primary index.               *)
BwtEncode(text, order) ==
    [data    |-> <<Last(text)>> \o [i \in 1..(Len(text) - 1) |->
                                     text[SelectSeq(order, LAMBDA suffix : suffix > 0)[i]]],
     primary |-> CHOOSE rank \in DOMAIN order : order[rank] = 0]

(* bwt_decode: the text is rebuilt from both ends at once.                 *)
BwtDecode(data, primary) ==
    LET size == Len(data)
        backward == [stored \in Positions(data) |->
            Cardinality({i \in Positions(data) :
                \/ At(data, i) < At(data, stored)
                \/ At(data, i) = At(data, stored) /\ i < stored})]
        rowOf(slot) == CHOOSE i \in Positions(data) : backward[i] = slot
        forward == [slot \in Positions(data) |->
            LET stored == rowOf(slot) IN IF stored < primary /\ stored > 0 THEN stored - 1 ELSE stored]
        symbolOf(slot) == At(data, rowOf(slot))
        step(s, index) ==
            LET slot == backward[s.behind]
            IN  [output |-> [s.output EXCEPT ![index + 1]    = symbolOf(s.ahead),
                                             ![size - index] = symbolOf(slot)],
                 ahead  |-> forward[s.ahead],
                 behind |-> IF slot + 1 < primary THEN slot + 1 ELSE slot]
        halves == FoldLeft(step, [output |-> data, ahead |-> primary - 1, behind |-> 0],
                           Upwards(size \div 2))
    IN  IF size % 2 = 0 THEN halves.output
        ELSE [halves.output EXCEPT ![size \div 2 + 1] = symbolOf(halves.ahead)]

-----------------------------------------------------------------------------

AllBytes == Upwards(ByteValues)

ToFront(symbols, i) == <<symbols[i]>> \o RemoveAt(symbols, i)

MtfEncode(data) ==
    LET step(s, value) ==
            LET i == CHOOSE i \in DOMAIN s.symbols : s.symbols[i] = value
            IN  [symbols |-> ToFront(s.symbols, i), output |-> Append(s.output, i - 1)]
    IN  FoldLeft(step, [symbols |-> AllBytes, output |-> <<>>], data).output

MtfDecode(data) ==
    LET step(s, position) ==
            [symbols |-> ToFront(s.symbols, position + 1),
             output  |-> Append(s.output, s.symbols[position + 1])]
    IN  FoldLeft(step, [symbols |-> AllBytes, output |-> <<>>], data).output

=============================================================================
