--------------------------- MODULE TransformedBlock ---------------------------
(***************************************************************************)
(* A block in the mode "transformed": it is sorted (SuffixSort), goes      *)
(* through bwt_encode and mtf_encode (BlockSort), and its runs are encoded *)
(* by rc_encode; decode_block checks the metadata and undoes it.           *)
(*                                                                         *)
(* The range coder between rc_encode and rc_decode is a channel of         *)
(* decisions <<context, bit>>, a context being the adaptive probability    *)
(* the bit was coded with.  A decoder that asks with the context the bit   *)
(* was coded with gets that bit; one that asks with another gets any bit.  *)
(* A payload the encoder did not write gives any bits at all.              *)
(***************************************************************************)
EXTENDS SuffixSort

CONSTANTS
    SmallLiteralMax,   \* small_literal_max: 3
    MediumLiteralMax,  \* medium_literal_max: 15
    PositionContexts,  \* digit_position_contexts: 4
    Blocks,            \* the blocks encoded
    ForeignSizes       \* block sizes in the headers of payloads written by others

ASSUME RunAssumption ==
    /\ SmallLiteralMax \in Nat /\ MediumLiteralMax \in Nat /\ PositionContexts \in Nat \ {0}
    /\ Blocks \subseteq Seq(0..(ByteValues - 1)) /\ <<>> \notin Blocks
    /\ ForeignSizes \subseteq Nat

VARIABLES
    phase,            \* "sort", "encode", "header", "decode", "done", "rejected" or "abandoned"
    foreign,          \* the payload was written by another encoder
    minExtensionRun,  \* shorter runs of a literal are spelled out
    mtf,              \* the input of rc_encode
    index,            \* how much of it is encoded
    model,            \* the RunSymbolModel of the side that runs, without its probabilities
    channel,          \* the decisions coded
    primary,          \* primary_index of the header
    symbolCount,      \* its intermediate_size
    symbolsRead,      \* symbols decoded
    position,         \* decisions decoded
    output,           \* output of rc_decode
    run,              \* its run_length, magnitude and run_value
    decoded           \* the block that decode_block returns

encoderVars == <<minExtensionRun, mtf, index, channel, primary, symbolCount>>
decoderVars == <<symbolsRead, position, output, run, decoded>>
vars == <<block, sortVars, phase, foreign, model, encoderVars, decoderVars>>

RunA == 0
RunB == 1
RunC == 2
RunD == 3
LiteralOffset == 3
InvalidLiteral == ByteValues + LiteralOffset      \* of byte 0, which has run digits

NewModel == [previous |-> "start", digit |-> 0, bucket |-> 0, extension |-> FALSE]

NewRun(value) == [length |-> 0, magnitude |-> 1, value |-> value]

Init ==
    /\ \/ /\ foreign = FALSE /\ phase = "sort"
          /\ block \in Blocks
          /\ primary = 0 /\ symbolCount = 0
          /\ minExtensionRun \in {2, 3}
       \/ /\ foreign = TRUE /\ phase = "header"
          /\ \E size \in ForeignSizes :
                /\ block = [i \in 1..size |-> 0]
                /\ primary \in 0..(size + 1) /\ symbolCount \in 0..(size + 1)
          /\ minExtensionRun = 2
    /\ SortStarts
    /\ mtf = <<>> /\ index = 0 /\ channel = <<>>
    /\ model = NewModel
    /\ symbolsRead = 0 /\ position = 0 /\ output = <<>> /\ decoded = <<>>
    /\ run = NewRun(0)

-----------------------------------------------------------------------------
(* RunSymbolModel                                                          *)

(* The digits of a run after the last distinct context share it.           *)
DigitContext(m, class) ==
    IF m.previous # class THEN 0
    ELSE IF m.digit + 1 < PositionContexts THEN m.digit + 1 ELSE PositionContexts - 1

Bucket(value) ==
    IF value <= SmallLiteralMax THEN value
    ELSE IF value <= MediumLiteralMax THEN SmallLiteralMax + 1 ELSE 0

Advance(m, symbol) ==
    LET digits(class) == [m EXCEPT !.previous = class,
                                   !.digit = IF m.previous = class THEN @ + 1 ELSE 0]
    IN  IF symbol <= RunB THEN [digits("zero") EXCEPT !.extension = FALSE]
        ELSE IF symbol <= RunD THEN digits("repeat")
        ELSE [m EXCEPT !.previous = "literal", !.extension = TRUE,
                       !.bucket = Bucket(symbol - LiteralOffset)]

(* The bits of a literal from the highest, each in the context of those    *)
(* before it, which lead to a node of a tree.                              *)
LiteralBits(m, value) ==
    [i \in 1..Width |->
        <<<<"literal", m.previous = "zero", m.bucket, (ByteValues + value) \div 2^(Width - i + 1)>>,
          (value \div 2^(Width - i)) % 2>>]

IsZero(m, bit) == <<<<"is zero", m.previous>>, bit>>
ZeroValue(m, bit) == <<<<"zero value", DigitContext(m, "zero")>>, bit>>
IsRepeat(m, bit) == <<<<"is repeat", DigitContext(m, "repeat")>>, bit>>
RepeatValue(m, bit) == <<<<"repeat value", DigitContext(m, "repeat")>>, bit>>

-----------------------------------------------------------------------------
(* rc_encode                                                               *)

(* encode_symbol                                                           *)
Decisions(m, symbol) ==
    IF symbol <= RunB
      THEN <<IsZero(m, 0), ZeroValue(m, IF symbol = RunB THEN 1 ELSE 0)>>
    ELSE IF m.extension /\ symbol <= RunD
      THEN <<IsZero(m, 1), IsRepeat(m, 0), RepeatValue(m, IF symbol = RunD THEN 1 ELSE 0)>>
    ELSE <<IsZero(m, 1)>> \o (IF m.extension THEN <<IsRepeat(m, 1)>> ELSE <<>>)
                          \o LiteralBits(m, symbol - LiteralOffset)

(* emit_run_length: bijective base 2, least significant digit first.       *)
RunDigits(length, one, two) ==
    LET digits[n \in Nat] ==
            IF n = 0 THEN <<>>
            ELSE <<IF (n - 1) % 2 = 1 THEN two ELSE one>> \o digits[(n - 1) \div 2]
    IN  digits[length]

RunSymbols(value, length) ==
    IF value = 0 THEN RunDigits(length, RunA, RunB)
    ELSE IF length < minExtensionRun THEN [i \in 1..length |-> value + LiteralOffset]
    ELSE <<value + LiteralOffset>> \o RunDigits(length - 1, RunC, RunD)

SortBlock ==
    /\ phase = "sort"
    /\ SortStep
    /\ UNCHANGED <<phase, foreign, model, encoderVars, decoderVars>>

TransformBlock ==
    /\ phase = "sort"
    /\ Sorted
    /\ LET bwt == BwtEncode(block, [i \in 1..Len(block) |-> sa[i - 1]])
       IN  mtf' = MtfEncode(bwt.data) /\ primary' = bwt.primary
    /\ phase' = "encode"
    /\ UNCHANGED <<block, sortVars, foreign, model, minExtensionRun, index, channel, symbolCount,
                   decoderVars>>

(* One turn of the loop: a run as long as it gets, symbol by symbol.       *)
EncodeRun ==
    /\ phase = "encode"
    /\ index < Len(mtf)
    /\ \E length \in 1..(Len(mtf) - index) :
        /\ \A i \in 1..length : mtf[index + i] = mtf[index + 1]
        /\ index + length < Len(mtf) => mtf[index + length + 1] # mtf[index + 1]
        /\ LET symbols == RunSymbols(mtf[index + 1], length)
               emit(s, symbol) == [model   |-> Advance(s.model, symbol),
                                   channel |-> s.channel \o Decisions(s.model, symbol)]
               coded == FoldLeft(emit, [model |-> model, channel |-> channel], symbols)
           IN  /\ model' = coded.model
               /\ channel' = coded.channel
               /\ symbolCount' = symbolCount + Len(symbols)
        /\ index' = index + length
    /\ UNCHANGED <<block, sortVars, phase, foreign, minExtensionRun, mtf, primary, decoderVars>>

(* The payload is no smaller than the best one so far.                     *)
GiveUp ==
    /\ phase = "encode"
    /\ index > 0
    /\ phase' = "abandoned"
    /\ UNCHANGED <<block, sortVars, foreign, model, encoderVars, decoderVars>>

EncodeEnds ==
    /\ phase = "encode"
    /\ index = Len(mtf)
    /\ phase' = "header"
    /\ model' = NewModel
    /\ UNCHANGED <<block, sortVars, foreign, encoderVars, decoderVars>>

-----------------------------------------------------------------------------
(* decode_block                                                            *)

(* Run symbols consume at least one byte each.                             *)
HeaderAllowed == primary \in 1..Len(block) /\ symbolCount \in 1..Len(block)

CheckHeader ==
    /\ phase = "header"
    /\ phase' = IF HeaderAllowed THEN "decode" ELSE "rejected"
    /\ UNCHANGED <<block, sortVars, foreign, model, encoderVars, decoderVars>>

(* decode_symbol: every symbol the decoder may come to in its state, and   *)
(* the decisions on the way there.                                         *)
Outcomes(m) ==
    LET notZero == <<IsZero(m, 1)>>
        literal == IF m.extension THEN notZero \o <<IsRepeat(m, 1)>> ELSE notZero
    IN  {[symbol |-> IF bit = 1 THEN RunB ELSE RunA,
          asked  |-> <<IsZero(m, 0), ZeroValue(m, bit)>>] : bit \in {0, 1}}
        \cup {[symbol |-> IF bit = 1 THEN RunD ELSE RunC,
               asked  |-> notZero \o <<IsRepeat(m, 0), RepeatValue(m, bit)>>] :
                  bit \in IF m.extension THEN {0, 1} ELSE {}}
        \cup {[symbol |-> IF value = 0 THEN InvalidLiteral ELSE value + LiteralOffset,
               asked  |-> literal \o LiteralBits(m, value)] : value \in 0..(ByteValues - 1)}

(* The channel answers so.                                                 *)
Answered(asked) ==
    \A i \in DOMAIN asked :
        LET at == position + i
        IN  ~foreign /\ at <= Len(channel) /\ channel[at][1] = asked[i][1] => channel[at] = asked[i]

Flushed == output \o [i \in 1..run.length |-> run.value]

Reject == phase' = "rejected" /\ UNCHANGED <<output, run>>

AddDigitFaulty(out, r, weight) ==
    LET length == r.length + weight * r.magnitude
    IN  IF length > Len(block) THEN Reject
        ELSE /\ output' = out
             /\ run' = [r EXCEPT !.length = length, !.magnitude = 2 * @]
             /\ UNCHANGED phase

(* The next digit of the length of a run.                                  *)
AddDigit(out, r, weight) ==
    LET length == r.length + weight * r.magnitude
    IN  IF length > Len(block) - Len(out) THEN Reject
        ELSE /\ output' = out
             /\ run' = [r EXCEPT !.length = length, !.magnitude = 2 * @]
             /\ UNCHANGED phase

AddZeroDigitFaulty(weight) == AddDigit(output, [run EXCEPT !.value = 0], weight)

(* The first digit of a run of zeros ends the run of a literal.            *)
AddZeroDigit(weight) ==
    IF run.value # 0 THEN AddDigit(Flushed, NewRun(0), weight) ELSE AddDigit(output, run, weight)

AddLiteral(value) ==
    IF Len(Flushed) >= Len(block) THEN Reject
    ELSE output' = Append(Flushed, value) /\ run' = NewRun(value) /\ UNCHANGED phase

DecodeSymbol ==
    /\ phase = "decode"
    /\ symbolsRead < symbolCount
    /\ \E outcome \in Outcomes(model) :
        /\ Answered(outcome.asked)
        /\ position' = position + Len(outcome.asked)
        /\ model' = Advance(model, outcome.symbol)
        /\ CASE outcome.symbol <= RunB -> AddZeroDigit(outcome.symbol + 1)
             [] outcome.symbol \in {RunC, RunD} -> AddDigit(output, run, outcome.symbol - RunC + 1)
             [] outcome.symbol = InvalidLiteral -> Reject
             [] OTHER -> AddLiteral(outcome.symbol - LiteralOffset)
    /\ symbolsRead' = symbolsRead + 1
    /\ UNCHANGED <<block, sortVars, foreign, encoderVars, decoded>>

(* The tests at the end of rc_decode, then mtf_decode and bwt_decode.  Of  *)
(* a payload written by others, any part may be left over.                 *)
DecodeEnds ==
    /\ phase = "decode"
    /\ symbolsRead = symbolCount
    /\ \E trailing \in BOOLEAN :
        /\ ~foreign => trailing = (position # Len(channel))
        /\ IF Len(Flushed) # Len(block) \/ trailing
             THEN phase' = "rejected" /\ UNCHANGED <<output, run, decoded>>
             ELSE /\ phase' = "done"
                  /\ output' = Flushed
                  /\ run' = NewRun(run.value)
                  /\ decoded' = BwtDecode(MtfDecode(Flushed), primary)
    /\ UNCHANGED <<block, sortVars, foreign, model, encoderVars, symbolsRead, position>>

Stopped == phase \in {"done", "rejected", "abandoned"} /\ UNCHANGED vars

Next ==
    \/ SortBlock \/ TransformBlock \/ EncodeRun \/ GiveUp \/ EncodeEnds
    \/ CheckHeader \/ DecodeSymbol \/ DecodeEnds
    \/ Stopped

Spec == Init /\ [][Next]_vars

-----------------------------------------------------------------------------
(* Properties                                                              *)

(* The sort, whose levels share one array, leaves the suffixes in order.   *)
SuffixesSorted == Sorted /\ ~foreign => InOrder(block, [i \in 1..Len(block) |-> sa[i - 1]])

(* Whatever the payload, the run being decoded and what was decoded before *)
(* it fit the block, so the weights of its digits, which double each time  *)
(* in 64 bits, never get far beyond the size of a block.                   *)
RunsBounded ==
    phase = "decode" => /\ Len(output) + run.length <= Len(block)
                        /\ run.magnitude <= Len(block) + 1

(* A block decodes to itself, and no check of the decoder ever rejects it. *)
RoundTrip ==
    ~foreign => /\ phase # "rejected"
                /\ phase = "done" => decoded = block

=============================================================================
