------------------------------ MODULE MixedBlock ------------------------------
(***************************************************************************)
(* A block in the mode "mixed": it may go through a filter (Filters), is   *)
(* sorted (BlockSort), and cm_encode codes every byte, decision by         *)
(* decision, with the estimates of a model (MixedModel); decode_block      *)
(* undoes it with cm_decode.                                               *)
(*                                                                         *)
(* The coder is a carryless arithmetic coder: the interval low..high of    *)
(* registers of Full values is cut at an estimate, and while both ends     *)
(* have the same highest byte that byte is shifted out.                    *)
(***************************************************************************)
EXTENDS MixedModel, Filters

CONSTANTS
    Top,              \* what the highest byte of a register counts: 2^24
    One,              \* the estimates are below: 2^16
    FlushCount,       \* bytes of a register: 4
    Blocks,           \* the blocks encoded
    Plans,            \* the record plans that may be chosen
    ForeignPayloads,  \* payloads that did not come from the encoder
    ForeignSizes      \* block sizes in their headers

Full == ByteValues * Top

ASSUME MixedAssumption ==
    /\ Top \in Nat \ {0} /\ One \in Nat /\ One >= 2 /\ FlushCount \in Nat \ {0}
    /\ Blocks \subseteq Seq(0..(ByteValues - 1)) /\ <<>> \notin Blocks
    /\ ForeignPayloads \subseteq Seq(0..(ByteValues - 1)) /\ ForeignSizes \subseteq Nat

ASSUME PlanAssumption ==
    \A plan \in Plans : /\ plan.unit \in RecordUnits /\ plan.unit < ByteValues
                        /\ plan.stride \in Nat /\ plan.stride >= plan.unit
                        /\ plan.mask \in Seq(0..(ByteValues - 1))

VARIABLES
    phase,      \* "filter", "encode", "flush", "header", "start", "decode", "done",
                \* "rejected" or "abandoned"
    foreign,    \* the payload did not come from the encoder
    block,      \* the block encoded; of a foreign payload, a block of the size in the header
    filter,     \* "none", "x86" or "record", in the header
    plan,       \* the plan of the record filter, of the side that runs
    primary,    \* primary_index of the header
    data,       \* the input of cm_encode
    model,      \* the model of the side that runs
    node,       \* where the byte being coded is in its decisions
    index,      \* bytes coded
    low,        \* low of the side that runs
    high,       \* high
    flushes,    \* bytes flushed, or read by the decoder before the first decision
    payload,    \* output of cm_encode, then the payload of the block
    code,       \* code of the decoder
    position,   \* position in the payload
    output,     \* bytes decoded
    decoded     \* the block that decode_block returns

blockVars == <<foreign, block, filter, plan, primary, data>>
coderVars == <<low, high, flushes, payload, code, position>>
vars == <<phase, blockVars, model, node, index, coderVars, output, decoded>>

Init ==
    /\ \/ /\ phase = "filter" /\ foreign = FALSE
          /\ block \in Blocks /\ payload = <<>>
          /\ filter \in {"none", "x86", "record"} /\ primary = 0
       \/ /\ phase = "header" /\ foreign = TRUE
          /\ payload \in ForeignPayloads
          /\ \E size \in ForeignSizes : block = [i \in 1..size |-> 0] /\ primary \in 0..(size + 1)
          /\ filter \in {"none", "record"}
    /\ plan = [unit |-> 1, stride |-> 1, mask |-> <<0>>]
    /\ data = <<>> /\ output = <<>> /\ decoded = <<>>
    /\ model = NewModel(Len(block))
    /\ node = 0 /\ index = 0
    /\ low = 0 /\ high = Full - 1
    /\ flushes = 0 /\ code = 0 /\ position = 0

-----------------------------------------------------------------------------
(* The coder                                                               *)

Mid(estimate) == low + ((high - low) * estimate) \div One

Narrow(bit, estimate) ==
    IF bit = 1 THEN high' = Mid(estimate) /\ UNCHANGED low
               ELSE low' = Mid(estimate) + 1 /\ UNCHANGED high

Settled == low \div Top # high \div Top

FilledFaulty(register) == (register % Top) * ByteValues

(* The register is shifted and ones come in.                               *)
Filled(register) == (register % Top) * ByteValues + ByteValues - 1

ShiftInterval == low' = (low % Top) * ByteValues /\ high' = Filled(high)

(* blend clamps the estimate, so no decision is ever certain.              *)
Estimates == 1..(One - 1)

Clamped(estimate) ==
    IF estimate \in Estimates THEN estimate ELSE IF estimate < 1 THEN 1 ELSE One - 1

Complete == node >= ByteValues

(* The node after a decision; a repeat completes the byte.                 *)
After(bit) == IF node > 0 THEN 2 * node + bit ELSE IF bit = 1 THEN ByteValues + model.c1 ELSE 1

-----------------------------------------------------------------------------
(* encode_block and cm_encode                                              *)

(* The filter, the sort and its output.  A record plan, however it was     *)
(* chosen, has records shorter than the block.                             *)
Transform ==
    /\ phase = "filter"
    /\ \E chosen \in Plans \cup {plan} :
        /\ IF filter = "record" THEN chosen \in Plans /\ chosen.stride < Len(block)
                                ELSE chosen = plan
        /\ plan' = chosen
        /\ LET stream == CASE filter = "none"   -> block
                           [] filter = "x86"    -> X86Filter(block, FALSE)
                           [] filter = "record" -> RecordFilterEncode(block, chosen)
               bwt    == BwtEncode(stream, SuffixOrder(stream))
           IN  data' = bwt.data /\ primary' = bwt.primary
    /\ phase' = "encode"
    /\ UNCHANGED <<foreign, block, filter, model, node, index, coderVars, output, decoded>>

(* One decision: the repeat decision, or a bit of a byte that is not one.  *)
EncodeDecision ==
    /\ phase = "encode" /\ Settled /\ index < Len(data) /\ ~Complete
    /\ node # Excluded(model)
    /\ LET value == data[index + 1]
           bit   == IF node > 0 THEN BitAfter(value, node)
                    ELSE IF value = model.c1 THEN 1 ELSE 0
           coded == PredictAndUpdate(model, node, bit)
       IN  /\ \E estimate \in Estimates : estimate = Clamped(coded.estimate) /\ Narrow(bit, estimate)
           /\ model' = coded.model
           /\ node' = After(bit)
    /\ UNCHANGED <<phase, blockVars, index, flushes, payload, code, position, output, decoded>>

(* The branch that would spell the previous byte again is not coded.       *)
EncodeForced ==
    /\ phase = "encode" /\ Settled /\ index < Len(data)
    /\ node = Excluded(model)
    /\ node' = After(BitAfter(data[index + 1], node))
    /\ UNCHANGED <<phase, blockVars, model, index, coderVars, output, decoded>>

EncodeByteEnds ==
    /\ phase = "encode" /\ Settled /\ Complete
    /\ model' = EndByte(model, data[index + 1])
    /\ node' = 0
    /\ index' = index + 1
    /\ UNCHANGED <<phase, blockVars, coderVars, output, decoded>>

ShiftOut ==
    /\ phase = "encode" /\ ~Settled
    /\ payload' = Append(payload, low \div Top)
    /\ ShiftInterval
    /\ UNCHANGED <<phase, blockVars, model, node, index, flushes, code, position, output, decoded>>

(* No record plan fits the block, or the payload exceeds the best one so   *)
(* far: with the plan alone, after a byte, or at the end.                  *)
GiveUp ==
    /\ \/ phase = "filter" /\ filter = "record"
       \/ phase = "encode" /\ Settled /\ node = 0 /\ index > 0
       \/ phase = "flush" /\ flushes = FlushCount
    /\ phase' = "abandoned"
    /\ UNCHANGED <<blockVars, model, node, index, coderVars, output, decoded>>

EncodeEnds ==
    /\ phase = "encode" /\ Settled /\ index = Len(data)
    /\ phase' = "flush"
    /\ UNCHANGED <<blockVars, model, node, index, coderVars, output, decoded>>

Flush ==
    /\ phase = "flush" /\ flushes < FlushCount
    /\ payload' = Append(payload, low \div Top)
    /\ low' = (low % Top) * ByteValues
    /\ flushes' = flushes + 1
    /\ UNCHANGED <<phase, blockVars, model, node, index, high, code, position, output, decoded>>

(* The plan of a record filter is put before the payload.                  *)
WriteBlock ==
    /\ phase = "flush" /\ flushes = FlushCount
    /\ payload' = IF filter = "record" THEN PlanWrite(plan) \o payload ELSE payload
    /\ phase' = "header"
    /\ UNCHANGED <<blockVars, model, node, index, low, high, flushes, code, position, output,
                   decoded>>

-----------------------------------------------------------------------------
(* decode_block and cm_decode                                              *)

Reject == phase' = "rejected" /\ UNCHANGED <<blockVars, model, node, index, coderVars, output, decoded>>

HeaderAllowed ==
    /\ primary \in 1..Len(block)
    /\ filter = "record" => PlanReadable(payload, Len(block))

InvalidHeader == phase = "header" /\ ~HeaderAllowed /\ Reject

(* A new model and interval; the coded stream follows the plan.            *)
ReadHeader ==
    /\ phase = "header" /\ HeaderAllowed
    /\ IF filter = "record"
         THEN /\ plan' = PlanRead(payload)
              /\ position' = 3 + Len(PlanRead(payload).mask)
         ELSE UNCHANGED <<plan, position>>
    /\ phase' = "start"
    /\ model' = NewModel(Len(block))
    /\ node' = 0 /\ index' = 0 /\ flushes' = 0
    /\ low' = 0 /\ high' = Full - 1
    /\ UNCHANGED <<foreign, block, filter, primary, data, payload, code, output, decoded>>

ReadByte ==
    /\ position < Len(payload)
    /\ code' = (code % Top) * ByteValues + payload[position + 1]
    /\ position' = position + 1

Start ==
    /\ phase = "start" /\ flushes < FlushCount
    /\ ReadByte
    /\ flushes' = flushes + 1
    /\ phase' = IF flushes + 1 = FlushCount THEN "decode" ELSE phase
    /\ UNCHANGED <<blockVars, model, node, index, low, high, payload, output, decoded>>

DecodeDecision ==
    /\ phase = "decode" /\ Settled /\ Len(output) < Len(block) /\ ~Complete
    /\ node # Excluded(model)
    /\ LET slots == Predict(model, node)
       IN  \E estimate \in Estimates, bit \in {0, 1} :
            /\ estimate = Clamped(slots.estimate)
            /\ bit = IF code <= Mid(estimate) THEN 1 ELSE 0
            /\ Narrow(bit, estimate)
            /\ model' = Update(model, node, slots, bit)
            /\ node' = After(bit)
    /\ UNCHANGED <<phase, blockVars, index, flushes, payload, code, position, output, decoded>>

DecodeForced ==
    /\ phase = "decode" /\ Settled /\ Len(output) < Len(block)
    /\ node = Excluded(model)
    /\ node' = After((model.c1 + 1) % 2)
    /\ UNCHANGED <<phase, blockVars, model, index, coderVars, output, decoded>>

DecodeByteEnds ==
    /\ phase = "decode" /\ Settled /\ Complete
    /\ model' = EndByte(model, node - ByteValues)
    /\ node' = 0
    /\ output' = Append(output, node - ByteValues)
    /\ UNCHANGED <<phase, blockVars, index, coderVars, decoded>>

ShiftIn ==
    /\ phase = "decode" /\ ~Settled
    /\ ReadByte
    /\ ShiftInterval
    /\ UNCHANGED <<phase, blockVars, model, node, index, flushes, payload, output, decoded>>

Truncated ==
    /\ phase = "start" \/ (phase = "decode" /\ ~Settled)
    /\ position >= Len(payload)
    /\ Reject

DecodeEnds ==
    /\ phase = "decode" /\ Settled /\ Len(output) = Len(block)
    /\ IF position # Len(payload) THEN Reject
       ELSE /\ phase' = "done"
            /\ LET stream == BwtDecode(output, primary)
               IN  decoded' = CASE filter = "none"   -> stream
                                [] filter = "x86"    -> X86Filter(stream, TRUE)
                                [] filter = "record" -> RecordFilterDecode(stream, plan)
            /\ UNCHANGED <<blockVars, model, node, index, coderVars, output>>

Stopped == phase \in {"done", "rejected", "abandoned"} /\ UNCHANGED vars

Next ==
    \/ Transform \/ EncodeDecision \/ EncodeForced \/ EncodeByteEnds \/ ShiftOut \/ GiveUp
    \/ EncodeEnds \/ Flush \/ WriteBlock
    \/ InvalidHeader \/ ReadHeader \/ Start \/ DecodeDecision \/ DecodeForced \/ DecodeByteEnds
    \/ ShiftIn \/ Truncated \/ DecodeEnds
    \/ Stopped

Spec == Init /\ [][Next]_vars

-----------------------------------------------------------------------------
(* Properties                                                              *)

(* The interval never becomes empty or leaves the registers, however close *)
(* its ends come, and the decoder's code stays inside it, whatever the     *)
(* payload: otherwise bits would be decoded from outside of the interval.  *)
CodeInside ==
    /\ phase \in {"encode", "decode"} => low <= high /\ high < Full /\ (Settled => low < high)
    /\ phase = "decode" => low <= code /\ code <= high

(* A block decodes to itself, and no check of the decoder ever rejects it: *)
(* the models of both sides see the same and stay the same.                *)
RoundTrip ==
    ~foreign => /\ phase # "rejected"
                /\ phase = "done" => decoded = block

=============================================================================
