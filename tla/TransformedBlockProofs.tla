------------------------ MODULE TransformedBlockProofs ------------------------
(***************************************************************************)
(* For every block and every payload: the runs that rc_decode reads never  *)
(* pass the block, and the weights of their digits stay as small.          *)
(***************************************************************************)
EXTENDS TransformedBlock, TLAPS

Runs == [length : Nat, magnitude : Nat, value : Int]

(* A run may grow: the weight of its next digit is at most one more than   *)
(* its length, as every digit before counts for its weight or twice that.  *)
Growing(out, r) ==
    /\ out \in Seq(Int) /\ r \in Runs
    /\ r.magnitude <= r.length + 1
    /\ Len(out) + r.length <= Len(block)

(* Nothing is decoded before the header is checked.                        *)
NothingYet == phase \in {"sort", "encode", "header"} => output = <<>> /\ run = NewRun(0)

DecodeInv ==
    /\ Len(block) \in Nat
    /\ NothingYet
    /\ phase = "decode" => Growing(output, run)

-----------------------------------------------------------------------------

(* A new run is empty, and its first digit weighs one.                     *)
LEMMA NewRunGrows ==
    ASSUME NEW out \in Seq(Int), Len(block) \in Nat, Len(out) <= Len(block), NEW value \in Int
    PROVE  Growing(out, NewRun(value))
<1>1. NewRun(value) \in Runs
  BY DEF NewRun, Runs
<1>2. NewRun(value).length = 0 /\ NewRun(value).magnitude = 1
  BY DEF NewRun
<1> QED
  BY <1>1, <1>2 DEF Growing

(* A digit is rejected or leaves the run as it should be.                  *)
LEMMA DigitKeeps ==
    ASSUME Len(block) \in Nat, NEW out, NEW r, Growing(out, r), NEW weight \in {1, 2},
           AddDigit(out, r, weight)
    PROVE  phase' = "rejected" \/ (phase' = phase /\ Growing(output', run'))
<1> DEFINE length == r.length + weight * r.magnitude
           grown  == [r EXCEPT !.length = length, !.magnitude = 2 * @]
<1>1. r.length \in Nat /\ r.magnitude \in Nat /\ r.magnitude <= r.length + 1 /\ Len(out) \in Nat
  BY DEF Growing, Runs
<1>2. length \in Nat /\ length >= r.length + r.magnitude
  BY <1>1
<1>3. CASE length > Len(block) - Len(out)
  BY <1>3 DEF AddDigit, Reject
<1>4. CASE ~(length > Len(block) - Len(out))
  <2>1. output' = out /\ run' = grown /\ phase' = phase
    BY <1>4 DEF AddDigit
  <2>2. grown \in Runs /\ grown.length = length /\ grown.magnitude = 2 * r.magnitude
    <3>1. r \in Runs
      BY DEF Growing
    <3>2. 2 * r.magnitude \in Nat
      BY <1>1
    <3> DEFINE double == 2 * r.magnitude
    <3>3. grown = [r EXCEPT !.length = length, !.magnitude = double]
      OBVIOUS
    <3> HIDE DEF length, double, grown
    <3>4. grown \in Runs /\ grown.length = length /\ grown.magnitude = double
      BY <1>2, <3>1, <3>2, <3>3 DEF Runs, double
    <3> QED
      BY <3>4 DEF double
  <2>3. grown.magnitude <= grown.length + 1 /\ Len(out) + grown.length <= Len(block)
    <3> HIDE DEF length, grown
    <3> QED
      BY <1>1, <1>2, <1>4, <2>2
  <2>4. out \in Seq(Int)
    BY DEF Growing
  <2> QED
    BY <2>1, <2>2, <2>3, <2>4 DEF Growing
<1> QED
  BY <1>3, <1>4

(* What flush_run appends is as long as the run.                           *)
LEMMA FlushedLength ==
    ASSUME Growing(output, run)
    PROVE  Flushed \in Seq(Int) /\ Len(Flushed) = Len(output) + run.length
<1> DEFINE tail == [i \in 1..run.length |-> run.value]
<1>1. run.length \in Nat /\ run.value \in Int /\ output \in Seq(Int)
  BY DEF Growing, Runs
<1>2. tail \in Seq(Int) /\ Len(tail) = run.length
  BY <1>1
<1> HIDE DEF tail
<1>3. output \o tail \in Seq(Int) /\ Len(output \o tail) = Len(output) + Len(tail)
  BY <1>1, <1>2
<1> QED
  BY <1>2, <1>3 DEF Flushed, tail

(* Every symbol is a number.                                               *)
LEMMA SymbolIsNumber ==
    ASSUME NEW m, NEW outcome \in Outcomes(m)
    PROVE  outcome.symbol \in Nat
<1>1. ByteValues \in Nat
  BY BytesAssumption
<1>2. \/ outcome.symbol \in {RunA, RunB, RunC, RunD, InvalidLiteral}
      \/ \E value \in 0..(ByteValues - 1) : outcome.symbol = value + LiteralOffset
  <2> DEFINE notZero == <<IsZero(m, 1)>>
             literal == IF m.extension THEN notZero \o <<IsRepeat(m, 1)>> ELSE notZero
             zeros(bit) == [symbol |-> IF bit = 1 THEN RunB ELSE RunA,
                            asked  |-> <<IsZero(m, 0), ZeroValue(m, bit)>>]
             repeats(bit) == [symbol |-> IF bit = 1 THEN RunD ELSE RunC,
                              asked  |-> notZero \o <<IsRepeat(m, 0), RepeatValue(m, bit)>>]
             literals(value) == [symbol |-> IF value = 0 THEN InvalidLiteral ELSE value + LiteralOffset,
                                 asked  |-> literal \o LiteralBits(m, value)]
  <2>1. \/ \E bit \in {0, 1} : outcome = zeros(bit)
        \/ \E bit \in {0, 1} : outcome = repeats(bit)
        \/ \E value \in 0..(ByteValues - 1) : outcome = literals(value)
    BY DEF Outcomes
  <2>2. CASE \E bit \in {0, 1} : outcome = zeros(bit)
    BY <2>2
  <2>3. CASE \E bit \in {0, 1} : outcome = repeats(bit)
    BY <2>3
  <2>4. CASE \E value \in 0..(ByteValues - 1) : outcome = literals(value)
    BY <2>4
  <2> QED
    BY <2>1, <2>2, <2>3, <2>4
<1> QED
  BY <1>1, <1>2 DEF RunA, RunB, RunC, RunD, InvalidLiteral, LiteralOffset

-----------------------------------------------------------------------------

(* The invariant holds before the first symbol.                            *)
LEMMA InitInv == Init => DecodeInv
<1> SUFFICES ASSUME Init PROVE DecodeInv
  OBVIOUS
<1>1. output = <<>> /\ run = NewRun(0) /\ phase # "decode"
  BY DEF Init
<1>2. Len(block) \in Nat
  <2>1. CASE block \in Blocks
    BY <2>1, RunAssumption
  <2>2. CASE \E size \in ForeignSizes : block = [i \in 1..size |-> 0]
    <3>1. PICK size \in Nat : block = [i \in 1..size |-> 0]
      BY <2>2, RunAssumption
    <3> QED
      BY <3>1
  <2> QED
    BY <2>1, <2>2 DEF Init
<1> QED
  BY <1>1, <1>2 DEF DecodeInv, NothingYet

(* One symbol, of any kind, is rejected or keeps the invariant.            *)
LEMMA SymbolKeeps ==
    ASSUME DecodeInv, DecodeSymbol
    PROVE  phase' = "rejected" \/ (phase' = "decode" /\ Growing(output', run'))
<1>1. phase = "decode" /\ Len(block) \in Nat /\ Growing(output, run)
  BY DEF DecodeInv, DecodeSymbol
<1>2. PICK outcome \in Outcomes(model) :
        CASE outcome.symbol <= RunB -> AddZeroDigit(outcome.symbol + 1)
          [] outcome.symbol \in {RunC, RunD} -> AddDigit(output, run, outcome.symbol - RunC + 1)
          [] outcome.symbol = InvalidLiteral -> Reject
          [] OTHER -> AddLiteral(outcome.symbol - LiteralOffset)
  BY DEF DecodeSymbol
<1> DEFINE symbol == outcome.symbol
<1>3. symbol \in Nat
  BY SymbolIsNumber
<1>c. (CASE symbol <= RunB -> AddZeroDigit(symbol + 1)
         [] symbol \in {RunC, RunD} -> AddDigit(output, run, symbol - RunC + 1)
         [] symbol = InvalidLiteral -> Reject
         [] OTHER -> AddLiteral(symbol - LiteralOffset))
  BY <1>2
<1>4. Flushed \in Seq(Int) /\ Len(Flushed) = Len(output) + run.length /\ Len(Flushed) <= Len(block)
  BY <1>1, FlushedLength DEF Growing
<1> HIDE DEF symbol
<1>5. CASE symbol <= RunB
  <2>1. AddZeroDigit(symbol + 1)
    <3>1. symbol \notin {RunC, RunD} /\ symbol # InvalidLiteral
      BY <1>3, <1>5, BytesAssumption DEF RunB, RunC, RunD, InvalidLiteral, LiteralOffset
    <3> QED
      BY <1>c, <1>5, <3>1, Zenon
  <2>2. symbol + 1 \in {1, 2}
    BY <1>3, <1>5 DEF RunB
  <2>3. Growing(Flushed, NewRun(0))
    BY <1>1, <1>4, NewRunGrows
  <2> QED
    BY <1>1, <2>1, <2>2, <2>3, DigitKeeps DEF AddZeroDigit
<1>6. CASE symbol \in {RunC, RunD}
  <2>1. AddDigit(output, run, symbol - RunC + 1)
    <3>1. ~(symbol <= RunB) /\ symbol # InvalidLiteral
      BY <1>3, <1>6, BytesAssumption DEF RunB, RunC, RunD, InvalidLiteral, LiteralOffset
    <3> QED
      BY <1>c, <1>6, <3>1, Zenon
  <2>2. symbol - RunC + 1 \in {1, 2}
    BY <1>6 DEF RunC, RunD
  <2> QED
    BY <1>1, <2>1, <2>2, DigitKeeps
<1>7. CASE symbol > RunD
  <2>1. CASE Reject
    BY <2>1 DEF Reject
  <2>2. CASE AddLiteral(symbol - LiteralOffset)
    <3> DEFINE value == symbol - LiteralOffset
    <3>1. value \in Int
      BY <1>3 DEF LiteralOffset
    <3> HIDE DEF value
    <3>2. CASE Len(Flushed) >= Len(block)
      BY <2>2, <3>2 DEF AddLiteral, Reject
    <3>3. CASE ~(Len(Flushed) >= Len(block))
      <4>1. output' = Append(Flushed, value) /\ run' = NewRun(value) /\ phase' = phase
        BY <2>2, <3>3 DEF AddLiteral, value
      <4>2. Append(Flushed, value) \in Seq(Int) /\ Len(Append(Flushed, value)) = Len(Flushed) + 1
        BY <1>4, <3>1
      <4>3. Len(Append(Flushed, value)) <= Len(block)
        BY <1>1, <1>4, <3>3, <4>2
      <4> QED
        BY <1>1, <3>1, <4>1, <4>2, <4>3, NewRunGrows
    <3> QED
      BY <3>2, <3>3
  <2>3. ~(symbol <= RunB) /\ symbol \notin {RunC, RunD}
    BY <1>3, <1>7 DEF RunB, RunC, RunD
  <2> QED
    BY <1>c, <2>1, <2>2, <2>3
<1> QED
  BY <1>3, <1>5, <1>6, <1>7 DEF RunB, RunC, RunD

(* Every step of the decoder keeps it.                                     *)
LEMMA StepInv == DecodeInv /\ [Next]_vars => DecodeInv'
<1> SUFFICES ASSUME DecodeInv, [Next]_vars PROVE DecodeInv'
  OBVIOUS
<1>a. Len(block) \in Nat /\ NothingYet /\ (phase = "decode" => Growing(output, run))
  BY DEF DecodeInv
<1>b. block' = block
  BY DEF Next, vars, SortBlock, SortStep, SortSubstrings, NameSubstrings, InduceOrder,
         TransformBlock, EncodeRun, GiveUp, EncodeEnds, CheckHeader, DecodeSymbol, DecodeEnds, Stopped
<1>1. CASE SortBlock \/ TransformBlock \/ EncodeRun \/ EncodeEnds
  <2>1. /\ phase \in {"sort", "encode"} /\ phase' \in {"sort", "encode", "header"}
        /\ UNCHANGED <<output, run>>
    BY <1>1 DEF SortBlock, TransformBlock, EncodeRun, EncodeEnds, decoderVars
  <2> QED
    BY <1>a, <1>b, <2>1 DEF DecodeInv, NothingYet
<1>2. CASE GiveUp
  BY <1>2, <1>a, <1>b DEF GiveUp, DecodeInv, NothingYet
<1>3. CASE CheckHeader
  <2>1. /\ phase = "header" /\ phase' \in {"decode", "rejected"} /\ UNCHANGED <<output, run>>
    BY <1>3 DEF CheckHeader, decoderVars
  <2>2. Growing(<<>>, NewRun(0))
    <3>1. <<>> \in Seq(Int) /\ Len(<<>>) = 0 /\ 0 \in Int
      OBVIOUS
    <3>2. Len(<<>>) <= Len(block)
      BY <1>a, <3>1
    <3> QED
      BY <1>a, <3>1, <3>2, NewRunGrows
  <2>3. output' = <<>> /\ run' = NewRun(0)
    BY <1>a, <2>1 DEF NothingYet
  <2>4. Growing(output', run')
    BY <2>2, <2>3
  <2> QED
    BY <1>a, <1>b, <2>1, <2>4 DEF DecodeInv, NothingYet, Growing
<1>4. CASE DecodeSymbol
  <2>1. phase' = "rejected" \/ (phase' = "decode" /\ Growing(output', run'))
    BY <1>4, SymbolKeeps
  <2> QED
    BY <1>a, <1>b, <2>1 DEF DecodeInv, NothingYet, Growing
<1>5. CASE DecodeEnds
  <2>1. phase' \in {"rejected", "done"}
    BY <1>5 DEF DecodeEnds
  <2> QED
    BY <1>a, <1>b, <2>1 DEF DecodeInv, NothingYet
<1>6. CASE Stopped \/ UNCHANGED vars
  <2>1. UNCHANGED <<phase, output, run>>
    BY <1>6 DEF Stopped, vars, decoderVars
  <2> QED
    BY <1>a, <1>b, <2>1 DEF DecodeInv, NothingYet, Growing
<1> QED
  BY <1>1, <1>2, <1>3, <1>4, <1>5, <1>6 DEF Next

(* The invariant of rc_decode.                                             *)
THEOREM DecodeInvariance == Spec => []DecodeInv
<1> QED
  BY InitInv, StepInv, PTL DEF Spec

(* Whatever the payload of rc_decode, no run passes the block and no digit *)
(* weighs more than the block, so its 64-bit sums cannot overflow.         *)
THEOREM RunsAlwaysBounded == Spec => []RunsBounded
<1>1. DecodeInv => RunsBounded
  <2> SUFFICES ASSUME DecodeInv, phase = "decode"
               PROVE  Len(output) + run.length <= Len(block) /\ run.magnitude <= Len(block) + 1
    BY DEF RunsBounded
  <2>1. Growing(output, run) /\ Len(block) \in Nat
    BY DEF DecodeInv
  <2>2. run.length \in Nat /\ run.magnitude \in Nat /\ Len(output) \in Nat
    BY <2>1 DEF Growing, Runs
  <2> QED
    BY <2>1, <2>2 DEF Growing
<1> QED
  BY <1>1, DecodeInvariance, PTL

=============================================================================
