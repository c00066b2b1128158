--------------------------------- MODULE Lzp ----------------------------------
(***************************************************************************)
(* lzp_encode and lzp_decode of transforms.cpp.  Both sides keep a table   *)
(* from the hash of the last bytes to the position after their previous    *)
(* occurrence, and a repeat of what stood there becomes a token that holds *)
(* its length only.  The decoder must therefore make every update of the   *)
(* table at the same position as the encoder, although it learns of a      *)
(* match only after it has looked up the prediction.                       *)
(*                                                                         *)
(* Positions count from zero as in the code, sequences from one.           *)
(***************************************************************************)
EXTENDS Naturals, Sequences, FiniteSets, SequencesExt, FiniteSetsExt

CONSTANTS
    Inputs,          \* blocks to encode
    ForeignStreams,  \* [coded, size]: streams that did not come from lzp_encode
    Rules,           \* [minMatch, farMatch, farDistance]: an LzpRule each
    DigitBase,       \* what a byte of a length holds: 128, in bytes of twice that
    ContextSize,     \* lzp_context_size: 8
    Hash(_),         \* the slot lzp_slot finds for the bytes of a context
    SlotCount,       \* the size of the table
    MaxDigits        \* how many digits a length may have: 6

Bytes == 0..(2 * DigitBase - 1)

(* lzp_put_length: least significant digit first, a flag on all but the    *)
(* last.                                                                   *)
LengthDigits(value) ==
    LET digits[v \in 0..value] ==
          IF v >= DigitBase THEN <<(v % DigitBase) + DigitBase>> \o digits[v \div DigitBase]
                            ELSE <<v>>
    IN  digits[value]

ASSUME LzpAssumption ==
    /\ {DigitBase, ContextSize, SlotCount, MaxDigits} \subseteq Nat \ {0} /\ DigitBase >= 2
    /\ \A context \in [1..ContextSize -> Bytes] : Hash(context) \in 0..(SlotCount - 1)
    /\ \A r \in Rules : {r.minMatch, r.farMatch} \subseteq Nat \ {0}

ASSUME StreamAssumption ==
    /\ Inputs \subseteq Seq(Bytes)
    /\ \A stream \in ForeignStreams : stream.coded \in Seq(Bytes) /\ stream.size \in Nat

(* Six digits of seven bits are enough for the size of any block.          *)
ASSUME DigitsAssumption ==
    \A block \in Inputs : \A n \in 0..Len(block) : Len(LengthDigits(n)) <= MaxDigits

VARIABLES
    phase,         \* "encode", "none", "decode", "done" or "rejected"
    foreign,       \* the stream did not come from lzp_encode
    rule,          \* the LzpRule of both sides
    input,         \* what lzp_encode is given
    encIndex,      \* the encoder's index
    encTable,      \* the encoder's table: a position + 1, or 0
    coded,         \* the encoder's output, which the decoder reads
    expectedSize,  \* expected_size
    position,      \* the decoder's position in coded
    decTable,      \* the decoder's table
    decoded        \* the decoder's output

lzpVars == <<phase, foreign, rule, input, encIndex, encTable, coded, expectedSize, position,
             decTable, decoded>>

EmptyTable == [slot \in 0..(SlotCount - 1) |-> 0]

Lesser(a, b) == IF a < b THEN a ELSE b

(* The least frequent byte of the block, the smallest of several.          *)
Marker(block) ==
    LET frequency == [b \in Bytes |-> Cardinality({i \in DOMAIN block : block[i] = b})]
    IN  CHOOSE b \in Bytes :
          \A c \in Bytes : frequency[b] < frequency[c] \/ (frequency[b] = frequency[c] /\ b <= c)

(* The slot of the bytes before a position.                                *)
Slot(bytes, at) == Hash(SubSeq(bytes, at - ContextSize + 1, at))

(* lzp_needed *)
Needed(distance) == IF distance >= rule.farDistance THEN rule.farMatch ELSE rule.minMatch

(* lzp_match_length *)
MatchLength(source, at) ==
    Max({n \in 0..(Len(input) - at) : \A k \in 1..n : input[source + k] = input[at + k]})

Predicted(table, bytes, at) == IF at >= ContextSize THEN table[Slot(bytes, at)] ELSE 0

(* The table after both the positions from first to last have been seen.   *)
Marked(table, bytes, first, last) ==
    [slot \in DOMAIN table |->
       LET seen == {p \in first..last : p >= ContextSize /\ Slot(bytes, p) = slot}
       IN  IF seen = {} THEN table[slot] ELSE Max(seen) + 1]

LzpInit ==
    /\ rule \in Rules
    /\ \/ /\ foreign = FALSE
          /\ input \in Inputs
          /\ expectedSize = Len(input)
          /\ phase = IF Len(input) <= Lesser(rule.minMatch, rule.farMatch) + ContextSize
                       THEN "none" ELSE "encode"
          /\ coded = <<Marker(input)>>
       \/ \E stream \in ForeignStreams :
            /\ foreign = TRUE
            /\ phase = IF stream.coded = <<>> THEN "rejected" ELSE "decode"
            /\ input = <<>>
            /\ coded = stream.coded
            /\ expectedSize = stream.size
    /\ encIndex = 0
    /\ encTable = EmptyTable
    /\ position = 1
    /\ decTable = EmptyTable
    /\ decoded = <<>>

-----------------------------------------------------------------------------
(* lzp_encode                                                              *)

Source == Predicted(encTable, input, encIndex) - 1

MatchTaken ==
    /\ Predicted(encTable, input, encIndex) # 0
    /\ MatchLength(Source, encIndex) >= Needed(encIndex - Source)

(* A stream that has grown to the size of the block is given up.           *)
GoOn == phase' = IF Len(coded') >= Len(input) THEN "none" ELSE "encode"

EncodeMatch ==
    /\ phase = "encode"
    /\ encIndex < Len(input)
    /\ MatchTaken
    /\ LET match == MatchLength(Source, encIndex)
       IN  /\ coded' = coded \o <<Marker(input)>>
                             \o LengthDigits(match - Needed(encIndex - Source) + 1)
           /\ encTable' = Marked(encTable, input, encIndex, encIndex + match - 1)
           /\ encIndex' = encIndex + match
    /\ GoOn
    /\ UNCHANGED <<foreign, rule, input, expectedSize, position, decTable, decoded>>

EncodeLiteral ==
    /\ phase = "encode"
    /\ encIndex < Len(input)
    /\ ~MatchTaken
    /\ LET value == input[encIndex + 1]
       IN  coded' = coded \o (IF value = Marker(input) THEN <<value, 0>> ELSE <<value>>)
    /\ encTable' = Marked(encTable, input, encIndex, encIndex)
    /\ encIndex' = encIndex + 1
    /\ GoOn
    /\ UNCHANGED <<foreign, rule, input, expectedSize, position, decTable, decoded>>

Encoded ==
    /\ phase = "encode"
    /\ encIndex = Len(input)
    /\ phase' = "decode"
    /\ UNCHANGED <<foreign, rule, input, encIndex, encTable, coded, expectedSize, position,
                   decTable, decoded>>

-----------------------------------------------------------------------------
(* lzp_decode                                                              *)

Decoding == phase = "decode" /\ Len(decoded) < expectedSize

NextByte == coded[position + 1]

AtMarker == position < Len(coded) /\ NextByte = coded[1]

(* The last digit of the length behind the marker, 0 when it is missing.   *)
LengthEnd ==
    SelectInSeq(SubSeq(coded, position + 2, Len(coded)), LAMBDA digit : digit < DigitBase)

LengthRead == AtMarker /\ LengthEnd \in 1..MaxDigits

(* Six digits of seven bits, or fewer, fit the 64 bits they are put in.     *)
Number(digits) ==
    LET number[i \in 1..(Len(digits) + 1)] ==
          IF i > Len(digits) THEN 0 ELSE (digits[i] % DigitBase) + DigitBase * number[i + 1]
    IN  number[1]

Length == Number(SubSeq(coded, position + 2, position + 1 + LengthEnd))

AfterToken == position + 1 + LengthEnd

Prediction == Predicted(decTable, decoded, Len(decoded))

Match == Length - 1 + Needed(Len(decoded) - (Prediction - 1))

MatchFits == Prediction # 0 /\ Match <= expectedSize - Len(decoded)

(* Byte by byte: the source may run into what is being written.            *)
Copied(source, count) ==
    LET copy[k \in 1..count] ==
          IF source + k <= Len(decoded) THEN decoded[source + k]
                                        ELSE copy[source + k - Len(decoded)]
    IN  copy

DecodeLiteral ==
    /\ Decoding
    /\ position < Len(coded) /\ ~AtMarker
    /\ decoded' = Append(decoded, NextByte)
    /\ decTable' = Marked(decTable, decoded, Len(decoded), Len(decoded))
    /\ position' = position + 1
    /\ UNCHANGED <<phase, foreign, rule, input, encIndex, encTable, coded, expectedSize>>

DecodeMarker ==
    /\ Decoding
    /\ LengthRead
    /\ Length = 0
    /\ decoded' = Append(decoded, coded[1])
    /\ decTable' = Marked(decTable, decoded, Len(decoded), Len(decoded))
    /\ position' = AfterToken
    /\ UNCHANGED <<phase, foreign, rule, input, encIndex, encTable, coded, expectedSize>>

DecodeMatchUnmarked ==
    /\ Decoding
    /\ LengthRead
    /\ Length # 0
    /\ MatchFits
    /\ decoded' = decoded \o Copied(Prediction - 1, Match)
    /\ decTable' = Marked(decTable, decoded', Len(decoded), Len(decoded))
    /\ position' = AfterToken
    /\ UNCHANGED <<phase, foreign, rule, input, encIndex, encTable, coded, expectedSize>>

DecodeMatchFaulty ==
    /\ Decoding
    /\ LengthRead
    /\ Length # 0
    /\ MatchFits
    /\ decoded' = decoded \o Copied(Prediction - 1, Match)
    /\ decTable' = Marked(decTable, decoded', Len(decoded), Len(decoded) + Match)
    /\ position' = AfterToken
    /\ UNCHANGED <<phase, foreign, rule, input, encIndex, encTable, coded, expectedSize>>

DecodeMatch ==
    /\ Decoding
    /\ LengthRead
    /\ Length # 0
    /\ MatchFits
    /\ decoded' = decoded \o Copied(Prediction - 1, Match)
    /\ decTable' = Marked(decTable, decoded', Len(decoded), Len(decoded) + Match - 1)
    /\ position' = AfterToken
    /\ UNCHANGED <<phase, foreign, rule, input, encIndex, encTable, coded, expectedSize>>

(* Truncated, or with a length that is malformed or leads out of the block. *)
DecodeThrows ==
    /\ Decoding
    /\ \/ position >= Len(coded)
       \/ AtMarker /\ ~LengthRead
       \/ LengthRead /\ Length # 0 /\ ~MatchFits
    /\ phase' = "rejected"
    /\ UNCHANGED <<foreign, rule, input, encIndex, encTable, coded, expectedSize, position,
                   decTable, decoded>>

DecodeEnds ==
    /\ phase = "decode"
    /\ Len(decoded) >= expectedSize
    /\ phase' = IF position = Len(coded) THEN "done" ELSE "rejected"
    /\ UNCHANGED <<foreign, rule, input, encIndex, encTable, coded, expectedSize, position,
                   decTable, decoded>>

LzpStopped == phase \in {"none", "done", "rejected"} /\ UNCHANGED lzpVars

LzpNext ==
    \/ EncodeMatch \/ EncodeLiteral \/ Encoded
    \/ DecodeLiteral \/ DecodeMarker \/ DecodeMatch \/ DecodeThrows \/ DecodeEnds
    \/ LzpStopped

LzpSpec == LzpInit /\ [][LzpNext]_lzpVars

-----------------------------------------------------------------------------
(* Properties                                                              *)

(* Whatever the block and its repeats, and with tables that collide: a     *)
(* stream is kept only when it is shorter than the block (the headers have *)
(* no room for another), it is never refused, and it decodes to the block. *)
RoundTrip ==
    ~foreign =>
      /\ phase = "decode" => Len(coded) < Len(input)
      /\ phase # "rejected"
      /\ phase = "done" => decoded = input

(* Of any stream: the decoder's predictions point at bytes it has already  *)
(* written, and it never writes more than it was told to expect.           *)
DecoderInBounds ==
    /\ \A slot \in DOMAIN decTable : decTable[slot] <= Len(decoded)
    /\ Len(decoded) <= expectedSize

=============================================================================
