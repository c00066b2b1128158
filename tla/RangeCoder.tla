------------------------------ MODULE RangeCoder ------------------------------
(***************************************************************************)
(* RangeEncoder and RangeDecoder of transforms.cpp, the adaptive binary    *)
(* range coder under the run coding of a block.  The encoder keeps the     *)
(* lower end of its interval in a register of Full values and a carry: a   *)
(* byte that a later carry may still change is held back in cache_, with   *)
(* the run of all-ones bytes after it counted in cache_size_.              *)
(*                                                                         *)
(* A byte has Base values and a register as many as Full.  The symbols the *)
(* coder is used for choose a probability by what was coded before: here,  *)
(* by the bit before.                                                      *)
(***************************************************************************)
EXTENDS Naturals, Sequences, SequencesExt

CONSTANTS
    Base,            \* values of a byte: 256
    Top,             \* range_top: 2^24
    One,             \* probability_one: 2^probability_bits
    AdaptDivisor,    \* 2^adaptation_shift
    FlushCount,      \* shifts of finish and bytes the decoder starts with: 5
    MaxBits,         \* the most bits encoded
    MaxOutput,       \* no bit is encoded beyond so many bytes
    ForeignPayloads  \* payloads that did not come from the encoder

Full == Base * Top

(* The number that bytes spell.                                            *)
Value(bytes) ==
    LET value[n \in 0..Len(bytes)] == IF n = 0 THEN 0 ELSE value[n - 1] * Base + bytes[n]
    IN  value[Len(bytes)]

(* Base to the n-th: a one and n zeros.                                    *)
Power(n) == Value([i \in 1..(n + 1) |-> IF i = 1 THEN 1 ELSE 0])

ASSUME CoderAssumption ==
    /\ Base \in Nat /\ Base >= 2
    /\ Top \in Nat /\ One \in Nat /\ One >= 2 /\ Top >= One
    /\ AdaptDivisor \in Nat /\ AdaptDivisor >= 2

ASSUME BoundAssumption ==
    /\ FlushCount \in Nat \ {0} /\ MaxBits \in Nat /\ MaxOutput \in Nat
    /\ ForeignPayloads \subseteq Seq(0..(Base - 1))

(* A register and its carry are as many bytes as finish shifts.            *)
ASSUME FlushAssumption == FlushCount >= 2 /\ Top = Power(FlushCount - 2)

VARIABLES
    phase,        \* "encode", "flush", "start", "decode", "done" or "rejected"
    foreign,      \* the payload did not come from the encoder
    bits,         \* what was encoded; of a foreign payload, as many bits
    probability,  \* the adaptive probabilities of the side that runs
    range,        \* range_ of the side that runs
    low,          \* low_, carry included
    cache,        \* cache_
    cacheSize,    \* cache_size_
    output,       \* output_, the payload of the decoder
    flushes,      \* iterations of finish
    exact,        \* history: low_ without ever dropping a digit
    code,         \* code_
    position,     \* position_
    decoded       \* the bits decoded

encoderVars == <<low, cache, cacheSize, output, exact>>
decoderVars == <<code, position, decoded>>
vars == <<phase, foreign, bits, probability, range, flushes, encoderVars, decoderVars>>

EvenOdds == [context \in {0, 1} |-> One \div 2]

Init ==
    /\ \/ phase = "encode" /\ foreign = FALSE /\ output = <<>> /\ bits = <<>>
       \/ /\ phase = "start" /\ foreign = TRUE
          /\ output \in ForeignPayloads
          /\ bits = [i \in 1..MaxBits |-> 0]
    /\ probability = EvenOdds
    /\ range = Full - 1
    /\ low = 0
    /\ cache = 0
    /\ cacheSize = 1
    /\ flushes = 0
    /\ exact = 0
    /\ code = 0
    /\ position = 0
    /\ decoded = <<>>

Context(coded) == IF coded = <<>> THEN 0 ELSE Last(coded)

(* The part of the range a zero gets in a context.                         *)
Bound(context) == (range \div One) * probability[context]

AdaptFaulty(context, bit) ==
    probability' = [probability EXCEPT ![context] =
        IF bit = 0 THEN @ + (One - @) \div AdaptDivisor + 1 ELSE @ - @ \div AdaptDivisor]

Adapt(context, bit) ==
    probability' = [probability EXCEPT ![context] =
        IF bit = 0 THEN @ + (One - @) \div AdaptDivisor ELSE @ - @ \div AdaptDivisor]

-----------------------------------------------------------------------------
(* RangeEncoder                                                            *)

Carry == low \div Full
Digit == (low \div Top) % Base

(* The bytes held back: the cache and all-ones bytes.                      *)
Held == [i \in 1..cacheSize |-> IF i = 1 THEN cache ELSE Base - 1]

HoldBackFaulty == FALSE

(* An all-ones byte waits for a carry that has not come yet.               *)
HoldBack == Digit = Base - 1 /\ Carry = 0

ShiftLowFaulty ==
    /\ IF HoldBack
         THEN cacheSize' = cacheSize + 1 /\ UNCHANGED <<output, cache>>
         ELSE /\ output' = output \o [Held EXCEPT ![1] = (@ + Carry) % Base]
              /\ cache' = Digit
              /\ cacheSize' = 1
    /\ low' = (low % Top) * Base

(* shift_low *)
ShiftLow ==
    /\ IF HoldBack
         THEN cacheSize' = cacheSize + 1 /\ UNCHANGED <<output, cache>>
         ELSE /\ output' = output \o [i \in DOMAIN Held |-> (Held[i] + Carry) % Base]
              /\ cache' = Digit
              /\ cacheSize' = 1
    /\ low' = (low % Top) * Base

EncodeBit(bit) ==
    /\ phase = "encode"
    /\ range >= Top
    /\ Len(bits) < MaxBits /\ Len(output) + cacheSize <= MaxOutput
    /\ bits' = Append(bits, bit)
    /\ LET bound == Bound(Context(bits))
       IN  IF bit = 0
             THEN range' = bound /\ UNCHANGED <<low, exact>>
             ELSE low' = low + bound /\ exact' = exact + bound /\ range' = range - bound
    /\ Adapt(Context(bits), bit)
    /\ UNCHANGED <<phase, foreign, flushes, cache, cacheSize, output, decoderVars>>

(* One turn of the loop at the end of encode_bit.                          *)
Normalise ==
    /\ phase = "encode"
    /\ range < Top
    /\ range' = range * Base
    /\ ShiftLow
    /\ exact' = exact * Base
    /\ UNCHANGED <<phase, foreign, bits, probability, flushes, decoderVars>>

Finish ==
    /\ phase = "encode"
    /\ range >= Top
    /\ phase' = "flush"
    /\ UNCHANGED <<foreign, bits, probability, range, flushes, encoderVars, decoderVars>>

FlushedFaulty == flushes = FlushCount - 1

Flushed == flushes = FlushCount

Flush ==
    /\ phase = "flush"
    /\ ~Flushed
    /\ ShiftLow
    /\ flushes' = flushes + 1
    /\ UNCHANGED <<phase, foreign, bits, probability, range, exact, decoderVars>>

(* The payload goes to a new decoder.                                      *)
Handover ==
    /\ phase = "flush"
    /\ Flushed
    /\ phase' = "start"
    /\ probability' = EvenOdds
    /\ range' = Full - 1
    /\ UNCHANGED <<foreign, bits, flushes, encoderVars, decoderVars>>

-----------------------------------------------------------------------------
(* RangeDecoder                                                            *)

(* The shift drops the highest byte of the register.                       *)
ReadByte ==
    /\ position < Len(output)
    /\ code' = (code % Top) * Base + output[position + 1]
    /\ position' = position + 1

(* One turn of the loop of the constructor.                                *)
Start ==
    /\ phase = "start"
    /\ ReadByte
    /\ phase' = IF position + 1 = FlushCount THEN "decode" ELSE "start"
    /\ UNCHANGED <<foreign, bits, probability, range, flushes, encoderVars, decoded>>

DecodeBit ==
    /\ phase = "decode"
    /\ range >= Top
    /\ Len(decoded) < Len(bits)
    /\ LET bound == Bound(Context(decoded))
           bit   == IF code < bound THEN 0 ELSE 1
       IN  /\ decoded' = Append(decoded, bit)
           /\ Adapt(Context(decoded), bit)
           /\ IF bit = 0
                THEN range' = bound /\ UNCHANGED code
                ELSE range' = range - bound /\ code' = code - bound
    /\ UNCHANGED <<phase, foreign, bits, flushes, encoderVars, position>>

Refill ==
    /\ phase = "decode"
    /\ range < Top
    /\ range' = range * Base
    /\ ReadByte
    /\ UNCHANGED <<phase, foreign, bits, probability, flushes, encoderVars, decoded>>

Truncated ==
    /\ phase = "start" \/ (phase = "decode" /\ range < Top)
    /\ position >= Len(output)
    /\ phase' = "rejected"
    /\ UNCHANGED <<foreign, bits, probability, range, flushes, encoderVars, decoderVars>>

(* What rc_decode tests at the end.                                        *)
DecodeEnds ==
    /\ phase = "decode"
    /\ range >= Top
    /\ Len(decoded) = Len(bits)
    /\ phase' = IF position = Len(output) THEN "done" ELSE "rejected"
    /\ UNCHANGED <<foreign, bits, probability, range, flushes, encoderVars, decoderVars>>

Stopped == phase \in {"done", "rejected"} /\ UNCHANGED vars

Next ==
    \/ (\E bit \in {0, 1} : EncodeBit(bit)) \/ Normalise \/ Finish \/ Flush \/ Handover
    \/ Start \/ DecodeBit \/ Refill \/ Truncated \/ DecodeEnds
    \/ Stopped

Spec == Init /\ [][Next]_vars

-----------------------------------------------------------------------------
(* Properties                                                              *)

(* The registers and probabilities stay in the widths the code gives them: *)
(* low_ needs one bit more than the register, a subtraction never wraps,   *)
(* and no probability reaches zero or one, where an interval would vanish. *)
RegistersFit ==
    /\ range \in 1..(Full - 1)
    /\ low \in 0..(2 * Full - 1)
    /\ code \in 0..(Full - 1)
    /\ cache \in 0..(Base - 1)
    /\ \A context \in {0, 1} : probability[context] \in 1..(One - 1)

(* A carry never meets a byte it would overflow, so it stops at the byte   *)
(* held back in cache_.                                                    *)
CarryStops == phase \in {"encode", "flush"} /\ low >= Full => cache < Base - 1

(* What has been output, held back and kept in low_ is together exactly    *)
(* the lower end of the interval: no carry is lost or added twice.         *)
CarryExact ==
    phase = "encode" => Value(output \o Held) * Full + low = exact

(* What was encoded is decoded, from exactly the bytes that were written.  *)
RoundTrip ==
    ~foreign => /\ phase # "rejected"
                /\ phase = "done" => decoded = bits

=============================================================================
