-------------------------------- MODULE Filters --------------------------------
(***************************************************************************)
(* The filters of transforms.cpp a block may go through before the sort:   *)
(* x86_filter makes the operands of branches absolute, record_filter takes *)
(* differences between records.  Positions count from 0.                   *)
(***************************************************************************)
EXTENDS Integers, BlockSort

CONSTANTS
    BranchOpcodes,   \* x86_branch_opcode: 0xE8 and 0xE9
    OperandSize,     \* bytes of an operand: 4
    RecordUnits      \* record_units

ASSUME FilterAssumption ==
    /\ OperandSize \in Nat \ {0} /\ RecordUnits \subseteq Nat \ {0}

(* x86_write_operand: all bytes but the highest, which only has the sign.  *)
StoredOperand(value) ==
    [i \in 1..OperandSize |->
        LET digit == (value \div ByteValues^(i - 1)) % ByteValues
        IN  IF i < OperandSize THEN digit ELSE IF digit % 2 = 1 THEN ByteValues - 1 ELSE 0]

Operand(data, at) ==
    FoldRight(LAMBDA byte, value : value * ByteValues + byte, SubSeq(data, at + 1, at + OperandSize), 0)

(* One pass of x86_filter: opcodes are never rewritten and operands are    *)
(* skipped, converted or not, so every pass walks the same positions.      *)
X86Filter(data, decode) ==
    LET visit(s, index) ==
            IF index < s.next \/ index + 1 + OperandSize > Len(data)
               \/ s.data[index + 1] \notin BranchOpcodes
              THEN s
            ELSE LET next   == index + 1 + OperandSize
                     value  == Operand(s.data, index + 1)
                     stored == StoredOperand(IF decode THEN value - next ELSE value + next)
                 IN  [next |-> next,
                      data |-> IF s.data[next] \in {0, ByteValues - 1}
                                 THEN [i \in DOMAIN data |->
                                          IF i \in (index + 2)..next THEN stored[i - index - 1]
                                          ELSE s.data[i]]
                                 ELSE s.data]
    IN  FoldLeft(visit, [next |-> 0, data |-> data], Upwards(Len(data))).data

-----------------------------------------------------------------------------

RecordUnitCount(stride, unit) == (stride + unit - 1) \div unit

(* record_unit_selected                                                    *)
UnitSelected(plan, column) ==
    (plan.mask[column \div Width + 1] \div 2^(column % Width)) % 2 = 1

(* The bytes of selected units, which are whole and not of the first       *)
(* record.                                                                 *)
Filtered(plan, size) ==
    {at \in plan.stride..(size - 1) :
        LET record == at - (at % plan.stride)
            column == (at % plan.stride) \div plan.unit
            width  == plan.stride - column * plan.unit
        IN  /\ UnitSelected(plan, column)
            /\ record + column * plan.unit + (IF width < plan.unit THEN width ELSE plan.unit) <= size}

UnitStarts(plan, at) == (at % plan.stride) % plan.unit = 0

(* From the last record to the first, so that every difference is taken    *)
(* against the unfiltered record before it.                                *)
LastRecordFirst(size, stride) ==
    LET records == (size + stride - 1) \div stride
    IN  [i \in 1..(records * stride) |->
            ((records - 1 - ((i - 1) \div stride)) * stride) + ((i - 1) % stride)]

RecordFilterEncode(data, plan) ==
    LET subtract(s, at) ==
            LET difference == s.data[at + 1] - s.data[at - plan.stride + 1]
                                  - (IF UnitStarts(plan, at) THEN 0 ELSE s.borrow)
            IN  [data   |-> [s.data EXCEPT ![at + 1] = difference % ByteValues],
                 borrow |-> IF difference < 0 THEN 1 ELSE 0]
    IN  FoldLeft(subtract, [data |-> data, borrow |-> 0],
                 SelectSeq(LastRecordFirst(Len(data), plan.stride),
                           LAMBDA at : at \in Filtered(plan, Len(data)))).data

RecordFilterDecode(data, plan) ==
    LET add(s, at) ==
            LET sum == s.data[at + 1] + s.data[at - plan.stride + 1]
                           + (IF UnitStarts(plan, at) THEN 0 ELSE s.carry)
            IN  [data |-> [s.data EXCEPT ![at + 1] = sum % ByteValues], carry |-> sum \div ByteValues]
    IN  FoldLeft(add, [data |-> data, carry |-> 0],
                 SelectSeq(Upwards(Len(data)), LAMBDA at : at \in Filtered(plan, Len(data)))).data

(* record_plan_write: the bytes before the coded stream.                   *)
PlanWrite(plan) ==
    <<plan.unit % ByteValues, plan.stride % ByteValues, (plan.stride \div ByteValues) % ByteValues>> \o plan.mask

MaskSize(stride, unit) == (RecordUnitCount(stride, unit) + Width - 1) \div Width

StrideOf(payload) == payload[2] + ByteValues * payload[3]

(* record_plan_read, of a payload it accepts.                              *)
PlanRead(payload) ==
    [unit   |-> payload[1],
     stride |-> StrideOf(payload),
     mask   |-> SubSeq(payload, 4, 3 + MaskSize(StrideOf(payload), payload[1]))]

(* What record_plan_read accepts: bits past the last unit are clear, and   *)
(* at least one unit is filtered.                                          *)
PlanReadable(payload, blockSize) ==
    /\ Len(payload) >= 3
    /\ payload[1] \in RecordUnits
    /\ StrideOf(payload) \in payload[1]..(blockSize - 1)
    /\ LET size  == MaskSize(StrideOf(payload), payload[1])
           spare == size * Width - RecordUnitCount(StrideOf(payload), payload[1])
       IN  /\ Len(payload) - 3 >= size
           /\ payload[3 + size] \div 2^(Width - spare) = 0
           /\ \E i \in 4..(3 + size) : payload[i] # 0

=============================================================================
