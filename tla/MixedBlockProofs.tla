--------------------------- MODULE MixedBlockProofs ---------------------------
(***************************************************************************)
(* For every width of byte and register, every precision of the estimates  *)
(* and whatever the model estimates: the interval of the carryless coder   *)
(* never becomes empty, and the decoder's code never leaves it.            *)
(***************************************************************************)
EXTENDS MixedBlock, TLAPS

Phases == {"filter", "encode", "flush", "header", "start", "decode", "done", "rejected", "abandoned"}

TypeInv ==
    /\ phase \in Phases
    /\ low \in 0..(Full - 1) /\ high \in 0..(Full - 1) /\ code \in 0..(Full - 1)
    /\ payload \in Seq(0..(ByteValues - 1))
    /\ position \in Nat

(* What WriteBlock puts before the payload is made of bytes.               *)
PlanOK ==
    phase \in {"filter", "encode", "flush"} =>
        plan.unit \in Nat /\ plan.stride \in Nat /\ plan.mask \in Seq(0..(ByteValues - 1))

(* Both sides start with all of the register.                              *)
WholeAtStart == phase \in {"filter", "start"} => low = 0 /\ high = Full - 1

IntervalOK == phase \in {"encode", "decode"} => low <= high

CoderInv == TypeInv /\ PlanOK /\ WholeAtStart /\ IntervalOK /\ CodeInside

-----------------------------------------------------------------------------
(* Arithmetic                                                              *)

(* The register holds at least one byte.                                   *)
LEMMA FullSize ==
    /\ Top \in Nat /\ Top >= 1 /\ ByteValues \in Nat /\ ByteValues >= 2
    /\ Full \in Nat /\ Full = ByteValues * Top /\ Full >= ByteValues
<1>1. Top \in Nat /\ Top >= 1 /\ ByteValues \in Nat /\ ByteValues >= 2
  BY MixedAssumption, BytesAssumption
<1>2. ByteValues * Top \in Nat /\ ByteValues * Top >= ByteValues * 1
  BY <1>1
<1> QED
  BY <1>1, <1>2 DEF Full

(* Quotient and remainder.                                                 *)
LEMMA Division ==
    ASSUME NEW n \in Nat, NEW d \in Nat, d > 0
    PROVE  /\ n \div d \in Nat /\ n % d \in 0..(d - 1)
           /\ n = d * (n \div d) + (n % d)
OBVIOUS

(* One time more is at least so much more.                                 *)
LEMMA Multiple ==
    ASSUME NEW f \in Nat, NEW a \in Nat, NEW b \in Nat, a >= b + 1
    PROVE  f * a >= f * b + f
<1>1. PICK k \in Nat : a = b + 1 + k
  <2>1. a - b - 1 \in Nat /\ a = b + 1 + (a - b - 1)
    OBVIOUS
  <2> QED
    BY <2>1
<1>2. f * (b + 1 + k) = f * b + f + f * k /\ f * k \in Nat /\ f * b \in Nat
  BY <1>1
<1> QED
  BY <1>1, <1>2

(* A greater number has no smaller quotient.                               *)
LEMMA QuotientGrows ==
    ASSUME NEW m \in Nat, NEW n \in Nat, m <= n, NEW d \in Nat, d > 0
    PROVE  m \div d <= n \div d
<1> DEFINE a == m \div d
           b == n \div d
<1>1. /\ a \in Nat /\ b \in Nat /\ m % d \in Nat /\ n % d \in 0..(d - 1)
      /\ m = d * a + (m % d) /\ n = d * b + (n % d)
  BY Division
<1> SUFFICES ASSUME a >= b + 1 PROVE FALSE
  BY <1>1
<1> HIDE DEF a, b
<1>2. d * a >= d * b + d
  BY <1>1, Multiple
<1>3. d * a \in Nat /\ d * b \in Nat
  BY <1>1
<1> QED
  BY <1>1, <1>2, <1>3

(* A share of a range, in Oneths of it, is less than all of it.            *)
LEMMA ShareSmaller ==
    ASSUME NEW r \in Nat, r >= 1, NEW e \in Estimates
    PROVE  (r * e) \div One \in 0..(r - 1)
<1>1. One \in Nat /\ One >= 2 /\ e \in Nat /\ e + 1 <= One
  BY MixedAssumption DEF Estimates
<1> DEFINE p == r * e
           q == p \div One
<1>2. p \in Nat /\ r * (e + 1) = p + r
  BY <1>1
<1>3. r * One >= r * (e + 1)
  <2>1. CASE One = e + 1
    BY <2>1, <1>1, <1>2
  <2>2. CASE One >= (e + 1) + 1
    <3>1. r * One >= r * (e + 1) + r
      BY <2>2, <1>1, Multiple
    <3> QED
      BY <3>1, <1>1, <1>2
  <2> QED
    BY <2>1, <2>2, <1>1
<1>4. q \in Nat /\ p % One \in 0..(One - 1) /\ p = One * q + (p % One)
  BY <1>1, <1>2, Division
<1> HIDE DEF p, q
<1> SUFFICES ASSUME q >= r PROVE FALSE
  BY <1>4 DEF p, q
<1>5. One * q >= One * r
  <2>1. CASE q = r
    BY <2>1, <1>1
  <2>2. CASE q >= r + 1
    <3>1. One * q >= One * r + One
      BY <2>2, <1>1, <1>4, Multiple
    <3> QED
      BY <3>1, <1>1, <1>4
  <2> QED
    BY <2>1, <2>2, <1>4
<1>6. One * r = r * One /\ One * r \in Nat
  BY <1>1
<1> QED
  BY <1>1, <1>2, <1>3, <1>4, <1>5, <1>6

-----------------------------------------------------------------------------
(* Sequences                                                               *)

(* An element of a sequence over a set is in the set.                      *)
LEMMA ElementOf ==
    ASSUME NEW S, NEW s \in Seq(S), NEW i \in 1..Len(s)
    PROVE  s[i] \in S
OBVIOUS

(* A part of a sequence is over the same set.                              *)
LEMMA PartOf ==
    ASSUME NEW S, NEW s \in Seq(S), NEW n \in Int, n <= Len(s)
    PROVE  SubSeq(s, 4, n) \in Seq(S)
OBVIOUS

-----------------------------------------------------------------------------
(* The two operations both sides share                                     *)

(* An interval of more than one value is cut into two that are not empty.  *)
LEMMA MidInside ==
    ASSUME TypeInv, low < high, NEW estimate \in Estimates
    PROVE  Mid(estimate) \in low..(high - 1)
<1>1. low \in Nat /\ high \in Nat /\ high - low \in Nat /\ high - low >= 1
  BY FullSize DEF TypeInv
<1>2. ((high - low) * estimate) \div One \in 0..((high - low) - 1)
  BY <1>1, ShareSmaller
<1> DEFINE share == ((high - low) * estimate) \div One
<1>3. Mid(estimate) = low + share
  BY DEF Mid
<1> HIDE DEF share
<1> QED
  BY <1>1, <1>2, <1>3 DEF share

(* The rest of a register, shifted, leaves room for a byte.                *)
LEMMA ShiftedFits ==
    ASSUME NEW n \in Nat, NEW byte \in 0..(ByteValues - 1)
    PROVE  (n % Top) * ByteValues + byte \in 0..(Full - 1)
<1> DEFINE r == n % Top
<1>1. r \in 0..(Top - 1)
  BY FullSize, Division
<1> HIDE DEF r
<1>2. ByteValues * Top >= ByteValues * r + ByteValues
  BY <1>1, FullSize, Multiple
<1>3. r * ByteValues = ByteValues * r /\ r * ByteValues \in Nat
  BY <1>1, FullSize
<1>4. r * ByteValues + byte \in 0..(Full - 1)
  BY <1>1, <1>2, <1>3, FullSize
<1> QED
  BY <1>4 DEF r

(* Registers with the same highest byte keep their order when it goes.     *)
LEMMA ShiftKeepsOrder ==
    ASSUME NEW m \in Nat, NEW n \in Nat, m <= n, m \div Top = n \div Top,
           NEW a \in 0..(ByteValues - 1), NEW b \in 0..(ByteValues - 1), a <= b
    PROVE  (m % Top) * ByteValues + a <= (n % Top) * ByteValues + b
<1> DEFINE q == m \div Top
           r == m % Top
           s == n % Top
<1>1. q \in Nat /\ r \in Nat /\ s \in Nat /\ m = Top * q + r /\ n = Top * q + s
  BY FullSize, Division
<1> HIDE DEF q, r, s
<1>2. Top * q \in Nat
  BY <1>1, FullSize
<1>3. r <= s
  BY <1>1, <1>2
<1>4. r * ByteValues <= s * ByteValues
  <2>1. CASE r = s
    BY <2>1, <1>1, FullSize
  <2>2. CASE s >= r + 1
    <3>1. ByteValues * s >= ByteValues * r + ByteValues
      BY <2>2, <1>1, FullSize, Multiple
    <3>2. ByteValues * s = s * ByteValues /\ ByteValues * r = r * ByteValues
          /\ ByteValues * s \in Nat /\ ByteValues * r \in Nat
      BY <1>1, FullSize
    <3> QED
      BY <3>1, <3>2, FullSize
  <2> QED
    BY <2>1, <2>2, <1>1, <1>3
<1>5. r * ByteValues \in Nat /\ s * ByteValues \in Nat
  BY <1>1, FullSize
<1>6. r * ByteValues + a <= s * ByteValues + b
  BY <1>4, <1>5, FullSize
<1> QED
  BY <1>6 DEF r, s

(* What a decision leaves of the interval.                                 *)
LEMMA NarrowInside ==
    ASSUME TypeInv, low < high, NEW estimate \in Estimates, NEW bit, Narrow(bit, estimate)
    PROVE  /\ low' \in 0..(Full - 1) /\ high' \in 0..(Full - 1) /\ low' <= high'
           /\ \A c \in Int : /\ low <= c /\ c <= high
                             /\ bit = IF c <= Mid(estimate) THEN 1 ELSE 0
                             => low' <= c /\ c <= high'
<1> DEFINE mid == Mid(estimate)
<1>1. mid \in low..(high - 1)
  BY MidInside
<1>2. low \in 0..(Full - 1) /\ high \in 0..(Full - 1) /\ Full \in Nat
  BY FullSize DEF TypeInv
<1>3. \/ bit = 1 /\ high' = mid /\ low' = low
      \/ bit # 1 /\ low' = mid + 1 /\ high' = high
  BY DEF Narrow
<1> HIDE DEF mid
<1> QED
  BY <1>1, <1>2, <1>3 DEF mid

(* What a shift makes of the interval.                                     *)
LEMMA ShiftInside ==
    ASSUME TypeInv, low <= high, ~Settled, ShiftInterval
    PROVE  /\ low' \in 0..(Full - 1) /\ high' \in 0..(Full - 1) /\ low' <= high'
           /\ \A c \in Nat, byte \in 0..(ByteValues - 1) :
                low <= c /\ c <= high =>
                    /\ low' <= (c % Top) * ByteValues + byte
                    /\ (c % Top) * ByteValues + byte <= high'
<1>1. low \in Nat /\ high \in Nat /\ low \div Top = high \div Top
  BY FullSize DEF TypeInv, Settled
<1>2. /\ low' = (low % Top) * ByteValues + 0
      /\ high' = (high % Top) * ByteValues + (ByteValues - 1)
      /\ 0 \in 0..(ByteValues - 1) /\ ByteValues - 1 \in 0..(ByteValues - 1)
  <2>1. low % Top \in Nat /\ high % Top \in Nat
    BY <1>1, FullSize, Division
  <2>2. (low % Top) * ByteValues \in Nat /\ (high % Top) * ByteValues \in Nat
    BY <2>1, FullSize
  <2>3. low' = (low % Top) * ByteValues /\ high' = (high % Top) * ByteValues + ByteValues - 1
    BY DEF ShiftInterval, Filled
  <2> QED
    BY <2>2, <2>3, FullSize
<1>3. low' \in 0..(Full - 1) /\ high' \in 0..(Full - 1)
  BY <1>1, <1>2, ShiftedFits
<1>4. low' <= high'
  <2>1. low <= high /\ 0 <= ByteValues - 1
    BY FullSize
  <2>2. (low % Top) * ByteValues + 0 <= (high % Top) * ByteValues + (ByteValues - 1)
    BY <2>1, <1>1, <1>2, ShiftKeepsOrder
  <2> QED
    BY <2>2, <1>2
<1>5. ASSUME NEW c \in Nat, NEW byte \in 0..(ByteValues - 1), low <= c, c <= high
      PROVE  /\ low' <= (c % Top) * ByteValues + byte
             /\ (c % Top) * ByteValues + byte <= high'
  <2>1. low \div Top <= c \div Top /\ c \div Top <= high \div Top
    BY <1>1, <1>5, QuotientGrows, FullSize
  <2>2. c \div Top \in Nat /\ low \div Top \in Nat
    BY <1>1, <1>5, FullSize, Division
  <2>3. c \div Top = low \div Top /\ c \div Top = high \div Top
    BY <2>1, <2>2, <1>1
  <2>4. 0 <= byte /\ byte <= ByteValues - 1
    BY <1>5, FullSize
  <2>5. low' <= (c % Top) * ByteValues + byte
    BY <1>1, <1>2, <1>5, <2>3, <2>4, ShiftKeepsOrder
  <2>6. (c % Top) * ByteValues + byte <= high'
    BY <1>1, <1>2, <1>5, <2>3, <2>4, ShiftKeepsOrder
  <2> QED
    BY <2>5, <2>6
<1> QED
  BY <1>3, <1>4, <1>5

(* The highest byte of a register is a byte.                               *)
LEMMA TopByte ==
    ASSUME NEW n \in 0..(Full - 1)
    PROVE  n \div Top \in 0..(ByteValues - 1)
<1> DEFINE q == n \div Top
<1>1. n \in Nat /\ q \in Nat /\ n % Top \in Nat /\ n = Top * q + (n % Top)
  BY FullSize, Division
<1> SUFFICES ASSUME q >= ByteValues PROVE FALSE
  BY <1>1, FullSize
<1> HIDE DEF q
<1>2. Top * q >= Top * ByteValues
  <2>1. CASE q = ByteValues
    BY <2>1, FullSize
  <2>2. CASE q >= ByteValues + 1
    <3>1. Top * q >= Top * ByteValues + Top
      BY <2>2, <1>1, FullSize, Multiple
    <3>2. Top * ByteValues \in Nat /\ Top * q \in Nat
      BY <1>1, FullSize
    <3> QED
      BY <3>1, <3>2, FullSize
  <2> QED
    BY <2>1, <2>2, <1>1, FullSize
<1>3. Top * ByteValues = Full /\ Top * q \in Nat
  BY <1>1, FullSize
<1> QED
  BY <1>1, <1>2, <1>3, FullSize

(* A byte read replaces the highest one, and fits.                         *)
LEMMA ByteRead ==
    ASSUME TypeInv, ReadByte
    PROVE  /\ code' \in 0..(Full - 1) /\ position' \in Nat
           /\ \E byte \in 0..(ByteValues - 1) : code' = (code % Top) * ByteValues + byte
<1>1. /\ payload \in Seq(0..(ByteValues - 1)) /\ position \in Nat /\ position < Len(payload)
      /\ code' = (code % Top) * ByteValues + payload[position + 1] /\ position' = position + 1
      /\ code \in Nat
  BY FullSize DEF TypeInv, ReadByte
<1>2. payload[position + 1] \in 0..(ByteValues - 1)
  <2>1. position + 1 \in 1..Len(payload)
    BY <1>1
  <2> QED
    BY <1>1, <2>1, ElementOf
<1> QED
  BY <1>1, <1>2, ShiftedFits

(* The mask of a plan read is a sequence of bytes.                         *)
LEMMA MaskRead ==
    ASSUME NEW blockSize, NEW stream \in Seq(0..(ByteValues - 1)), PlanReadable(stream, blockSize)
    PROVE  PlanRead(stream).mask \in Seq(0..(ByteValues - 1))
<1> DEFINE size == MaskSize(StrideOf(stream), stream[1])
<1>1. PlanRead(stream).mask = SubSeq(stream, 4, 3 + size)
  BY DEF PlanRead
<1>2. Len(stream) \in Nat /\ Len(stream) - 3 >= size
  BY DEF PlanReadable
<1>3. size \in Int
  <2>1. /\ StrideOf(stream) \in Int /\ stream[1] \in Nat /\ stream[1] > 0
    <3>1. stream[2] \in 0..(ByteValues - 1) /\ stream[3] \in 0..(ByteValues - 1)
      <4>1. Len(stream) \in Nat /\ Len(stream) >= 3
        BY DEF PlanReadable
      <4>2. 2 \in 1..Len(stream) /\ 3 \in 1..Len(stream)
        BY <4>1
      <4> QED
        BY <4>2, ElementOf
    <3>2. stream[2] \in Int /\ stream[3] \in Int /\ ByteValues * stream[3] \in Int
      BY <3>1, FullSize
    <3>3. stream[1] \in RecordUnits
      BY DEF PlanReadable
    <3>4. stream[1] \in Nat /\ stream[1] > 0
      <4> DEFINE unit == stream[1]
      <4>1. unit \in RecordUnits
        BY <3>3
      <4> HIDE DEF unit
      <4>2. unit \in Nat /\ unit > 0
        BY <4>1, FilterAssumption
      <4> QED
        BY <4>2 DEF unit
    <3>5. StrideOf(stream) = stream[2] + ByteValues * stream[3]
      BY DEF StrideOf
    <3> QED
      BY <3>2, <3>4, <3>5
  <2>2. RecordUnitCount(StrideOf(stream), stream[1]) \in Int
    BY <2>1 DEF RecordUnitCount
  <2> QED
    BY <2>2, BytesAssumption DEF MaskSize
<1> HIDE DEF size
<1>4. 3 + size \in Int /\ 3 + size <= Len(stream)
  BY <1>2, <1>3
<1> QED
  BY <1>1, <1>4, PartOf

(* An unsettled interval may be a single value, a settled one never is.    *)
LEMMA SettledApart ==
    ASSUME TypeInv, low <= high, Settled
    PROVE  low < high
BY FullSize DEF TypeInv, Settled

-----------------------------------------------------------------------------
(* The invariant                                                           *)

(* What the properties need of a state once the interval is known.         *)
LEMMA InsideSuffices ==
    ASSUME TypeInv, PlanOK, WholeAtStart, IntervalOK,
           phase = "decode" => low <= code /\ code <= high
    PROVE  CoderInv
<1>1. phase \in {"encode", "decode"} => high < Full /\ (Settled => low < high)
  BY FullSize, SettledApart DEF IntervalOK, TypeInv
<1> QED
  BY <1>1 DEF CoderInv, CodeInside, IntervalOK

(* The first states, of either kind of payload.                            *)
LEMMA InitInv == Init => CoderInv
<1> SUFFICES ASSUME Init PROVE CoderInv
  OBVIOUS
<1>1. phase \in {"filter", "header"} /\ low = 0 /\ high = Full - 1 /\ code = 0 /\ position = 0
  BY DEF Init
<1>2. payload \in Seq(0..(ByteValues - 1))
  <2>1. payload = <<>> \/ payload \in ForeignPayloads
    BY DEF Init
  <2>2. <<>> \in Seq(0..(ByteValues - 1)) /\ ForeignPayloads \subseteq Seq(0..(ByteValues - 1))
    BY MixedAssumption
  <2> QED
    BY <2>1, <2>2
<1>3. TypeInv
  BY <1>1, <1>2, FullSize DEF TypeInv, Phases
<1>4. PlanOK
  <2>1. plan = [unit |-> 1, stride |-> 1, mask |-> <<0>>]
    BY DEF Init
  <2>2. <<0>> \in Seq(0..(ByteValues - 1))
    BY FullSize
  <2> QED
    BY <2>1, <2>2 DEF PlanOK
<1> QED
  BY <1>1, <1>3, <1>4, InsideSuffices DEF WholeAtStart, IntervalOK

(* The bytes of a plan are bytes.                                          *)
LEMMA PlanBytes ==
    ASSUME PlanOK, phase = "flush"
    PROVE  PlanWrite(plan) \in Seq(0..(ByteValues - 1))
<1>1. plan.unit \in Nat /\ plan.stride \in Nat /\ plan.mask \in Seq(0..(ByteValues - 1))
  BY DEF PlanOK
<1>2. plan.stride \div ByteValues \in Nat
  BY <1>1, FullSize, Division
<1>3. /\ plan.unit % ByteValues \in 0..(ByteValues - 1)
      /\ plan.stride % ByteValues \in 0..(ByteValues - 1)
      /\ (plan.stride \div ByteValues) % ByteValues \in 0..(ByteValues - 1)
  BY <1>1, <1>2, FullSize, Division
<1> QED
  BY <1>1, <1>3 DEF PlanWrite

(* Every step of either side keeps the invariant.                          *)
LEMMA StepInv == CoderInv /\ [Next]_vars => CoderInv'
<1> SUFFICES ASSUME CoderInv, [Next]_vars PROVE CoderInv'
  OBVIOUS
<1> USE FullSize
<1>a. TypeInv /\ PlanOK /\ WholeAtStart /\ IntervalOK
  BY DEF CoderInv
<1>b. phase = "decode" => low <= code /\ code <= high
  BY DEF CoderInv, CodeInside
<1> SUFFICES /\ TypeInv' /\ PlanOK' /\ WholeAtStart' /\ IntervalOK'
             /\ (phase = "decode" => low <= code /\ code <= high)'
  <2> SUFFICES ASSUME TypeInv', PlanOK', WholeAtStart', IntervalOK',
                      (phase = "decode" => low <= code /\ code <= high)'
               PROVE  CoderInv'
    OBVIOUS
  <2> QED
    BY InsideSuffices, PTL
<1>d. ASSUME UNCHANGED <<low, high, code, payload, position>>,
             phase' \in {"done", "rejected", "abandoned"}
      PROVE  /\ TypeInv' /\ PlanOK' /\ WholeAtStart' /\ IntervalOK'
             /\ (phase = "decode" => low <= code /\ code <= high)'
  BY <1>a, <1>d DEF TypeInv, Phases, PlanOK, WholeAtStart, IntervalOK
<1>1. CASE Transform
  <2>1. phase = "filter" /\ phase' = "encode" /\ UNCHANGED <<low, high, code, payload, position>>
    BY <1>1 DEF Transform, coderVars
  <2>2. plan' \in Plans \/ plan' = plan
    BY <1>1 DEF Transform
  <2>3. PlanOK'
    BY <1>a, <2>1, <2>2, PlanAssumption, FilterAssumption DEF PlanOK
  <2> QED
    BY <1>a, <2>1, <2>3 DEF TypeInv, Phases, WholeAtStart, IntervalOK
<1>2. CASE EncodeDecision
  <2>1. /\ phase = "encode" /\ phase' = "encode" /\ Settled
        /\ UNCHANGED <<plan, code, payload, position>>
    BY <1>2 DEF EncodeDecision, blockVars
  <2>2. \E bit : \E estimate \in Estimates : Narrow(bit, estimate)
    BY <1>2 DEF EncodeDecision
  <2>3. low < high
    BY <1>a, <2>1, SettledApart DEF IntervalOK
  <2>4. low' \in 0..(Full - 1) /\ high' \in 0..(Full - 1) /\ low' <= high'
    <3>1. PICK bit : \E estimate \in Estimates : Narrow(bit, estimate)
      BY <2>2
    <3> QED
      BY <1>a, <2>3, <3>1, NarrowInside
  <2> QED
    BY <1>a, <2>1, <2>4 DEF TypeInv, Phases, PlanOK, WholeAtStart, IntervalOK
<1>3. CASE EncodeForced
  BY <1>3, <1>a DEF EncodeForced, blockVars, coderVars, TypeInv, PlanOK, WholeAtStart, IntervalOK
<1>4. CASE EncodeByteEnds
  BY <1>4, <1>a DEF EncodeByteEnds, blockVars, coderVars, TypeInv, PlanOK, WholeAtStart, IntervalOK
<1>5. CASE ShiftOut
  <2>1. /\ phase = "encode" /\ phase' = "encode" /\ ~Settled /\ ShiftInterval
        /\ payload' = Append(payload, low \div Top)
        /\ UNCHANGED <<plan, code, position>>
    BY <1>5 DEF ShiftOut, blockVars
  <2>2. low' \in 0..(Full - 1) /\ high' \in 0..(Full - 1) /\ low' <= high'
    BY <1>a, <2>1, ShiftInside DEF IntervalOK
  <2>3. payload' \in Seq(0..(ByteValues - 1))
    BY <1>a, <2>1, TopByte DEF TypeInv
  <2> QED
    BY <1>a, <2>1, <2>2, <2>3 DEF TypeInv, Phases, PlanOK, WholeAtStart, IntervalOK
<1>6. CASE GiveUp
  BY <1>6, <1>d DEF GiveUp, coderVars
<1>7. CASE EncodeEnds
  BY <1>7, <1>a DEF EncodeEnds, blockVars, coderVars, TypeInv, Phases, PlanOK, WholeAtStart, IntervalOK
<1>8. CASE Flush
  <2>1. /\ phase = "flush" /\ phase' = "flush"
        /\ payload' = Append(payload, low \div Top)
        /\ low' = (low % Top) * ByteValues
        /\ UNCHANGED <<plan, high, code, position>>
    BY <1>8 DEF Flush, blockVars
  <2>2. payload' \in Seq(0..(ByteValues - 1))
    BY <1>a, <2>1, TopByte DEF TypeInv
  <2>3. low' \in 0..(Full - 1)
    <3>1. low \in Nat /\ 0 \in 0..(ByteValues - 1)
      BY <1>a DEF TypeInv
    <3>2. (low % Top) * ByteValues + 0 \in 0..(Full - 1)
      BY <3>1, ShiftedFits
    <3>3. (low % Top) * ByteValues \in Nat
      <4>1. low % Top \in Nat
        BY <3>1, Division
      <4> QED
        BY <4>1
    <3> QED
      BY <3>2, <3>3, <2>1
  <2> QED
    BY <1>a, <2>1, <2>2, <2>3 DEF TypeInv, Phases, PlanOK, WholeAtStart, IntervalOK
<1>9. CASE WriteBlock
  <2>1. /\ phase = "flush" /\ phase' = "header"
        /\ payload' = IF filter = "record" THEN PlanWrite(plan) \o payload ELSE payload
        /\ UNCHANGED <<low, high, code, position>>
    BY <1>9 DEF WriteBlock
  <2>2. payload' \in Seq(0..(ByteValues - 1))
    <3>1. PlanWrite(plan) \in Seq(0..(ByteValues - 1)) /\ payload \in Seq(0..(ByteValues - 1))
      BY <1>a, <2>1, PlanBytes DEF TypeInv
    <3>2. PlanWrite(plan) \o payload \in Seq(0..(ByteValues - 1))
      BY <3>1
    <3> QED
      BY <2>1, <3>1, <3>2
  <2> QED
    BY <1>a, <2>1, <2>2 DEF TypeInv, Phases, PlanOK, WholeAtStart, IntervalOK
<1>10. CASE InvalidHeader
  BY <1>10, <1>d DEF InvalidHeader, Reject, coderVars
<1>11. CASE ReadHeader
  <2>1. /\ phase' = "start" /\ low' = 0 /\ high' = Full - 1
        /\ UNCHANGED <<code, payload>>
    BY <1>11 DEF ReadHeader
  <2>2. position' \in Nat
    <3>1. CASE filter = "record"
      <4>1. position' = 3 + Len(PlanRead(payload).mask)
        BY <3>1, <1>11 DEF ReadHeader
      <4>2. PlanRead(payload).mask \in Seq(0..(ByteValues - 1))
        BY <3>1, <1>11, <1>a, MaskRead DEF ReadHeader, HeaderAllowed, TypeInv
      <4> QED
        BY <4>1, <4>2
    <3>2. CASE filter # "record"
      BY <3>2, <1>11, <1>a DEF ReadHeader, TypeInv
    <3> QED
      BY <3>1, <3>2
  <2> QED
    BY <1>a, <2>1, <2>2 DEF TypeInv, Phases, PlanOK, WholeAtStart, IntervalOK
<1>12. CASE Start
  <2>1. /\ phase = "start" /\ phase' \in {"start", "decode"} /\ ReadByte
        /\ UNCHANGED <<low, high, payload>>
    BY <1>12 DEF Start
  <2>2. code' \in 0..(Full - 1) /\ position' \in Nat
    BY <1>a, <2>1, ByteRead
  <2> QED
    BY <1>a, <2>1, <2>2 DEF TypeInv, Phases, PlanOK, WholeAtStart, IntervalOK
<1>13. CASE DecodeDecision
  <2>1. /\ phase = "decode" /\ phase' = "decode" /\ Settled
        /\ UNCHANGED <<code, payload, position>>
    BY <1>13 DEF DecodeDecision
  <2>2. PICK estimate \in Estimates, bit \in {0, 1} :
          bit = (IF code <= Mid(estimate) THEN 1 ELSE 0) /\ Narrow(bit, estimate)
    BY <1>13 DEF DecodeDecision
  <2>3. low < high
    BY <1>a, <2>1, SettledApart DEF IntervalOK
  <2>4. code \in Int /\ low <= code /\ code <= high
    BY <1>a, <1>b, <2>1 DEF TypeInv
  <2>5. /\ low' \in 0..(Full - 1) /\ high' \in 0..(Full - 1) /\ low' <= high'
        /\ low' <= code /\ code <= high'
    BY <1>a, <2>2, <2>3, <2>4, NarrowInside
  <2> QED
    BY <1>a, <2>1, <2>5 DEF TypeInv, Phases, PlanOK, WholeAtStart, IntervalOK
<1>14. CASE DecodeForced
  BY <1>14, <1>a, <1>b
  DEF DecodeForced, blockVars, coderVars, TypeInv, PlanOK, WholeAtStart, IntervalOK
<1>15. CASE DecodeByteEnds
  BY <1>15, <1>a, <1>b
  DEF DecodeByteEnds, blockVars, coderVars, TypeInv, PlanOK, WholeAtStart, IntervalOK
<1>16. CASE ShiftIn
  <2>1. /\ phase = "decode" /\ phase' = "decode" /\ ~Settled /\ ReadByte /\ ShiftInterval
        /\ UNCHANGED payload
    BY <1>16 DEF ShiftIn
  <2>2. code' \in 0..(Full - 1) /\ position' \in Nat
    BY <1>a, <2>1, ByteRead
  <2>3. PICK byte \in 0..(ByteValues - 1) : code' = (code % Top) * ByteValues + byte
    BY <1>a, <2>1, ByteRead
  <2>4. low <= high /\ code \in Nat /\ low <= code /\ code <= high
    BY <1>a, <1>b, <2>1 DEF TypeInv, IntervalOK
  <2>5. /\ low' \in 0..(Full - 1) /\ high' \in 0..(Full - 1) /\ low' <= high'
        /\ low' <= code' /\ code' <= high'
    BY <1>a, <2>1, <2>3, <2>4, ShiftInside
  <2> QED
    BY <1>a, <2>1, <2>2, <2>5 DEF TypeInv, Phases, PlanOK, WholeAtStart, IntervalOK
<1>17. CASE Truncated
  BY <1>17, <1>d DEF Truncated, Reject, coderVars
<1>18. CASE DecodeEnds
  BY <1>18, <1>d DEF DecodeEnds, Reject, coderVars
<1>19. CASE Stopped \/ UNCHANGED vars
  BY <1>19, <1>a, <1>b
  DEF Stopped, vars, blockVars, coderVars, TypeInv, PlanOK, WholeAtStart, IntervalOK
<1> QED
  BY <1>1, <1>2, <1>3, <1>4, <1>5, <1>6, <1>7, <1>8, <1>9, <1>10, <1>11, <1>12, <1>13, <1>14,
     <1>15, <1>16, <1>17, <1>18, <1>19 DEF Next

(* The inductive invariant of the arithmetic coder of cm_encode and        *)
(* cm_decode.                                                              *)
THEOREM CoderInvariance == Spec => []CoderInv
<1> QED
  BY InitInv, StepInv, PTL DEF Spec

(* The interval is never empty and stays in the registers, and cm_decode's *)
(* code never leaves it, whatever the model, the block and the payload.    *)
THEOREM CodeAlwaysInside == Spec => []CodeInside
<1>1. CoderInv => CodeInside
  BY DEF CoderInv
<1> QED
  BY <1>1, CoderInvariance, PTL

=============================================================================
