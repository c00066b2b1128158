--------------------------- MODULE RangeCoderProofs ---------------------------
(***************************************************************************)
(* For every width of byte and register and every precision of the         *)
(* probabilities: the registers of the range coder never leave their       *)
(* widths, a carry never runs past the byte that waits for it, none is     *)
(* lost, and the decoder reads every bit that was encoded.                 *)
(***************************************************************************)
EXTENDS RangeCoder, WellFoundedInduction, TLAPS

TypeInv ==
    /\ phase \in {"encode", "flush", "start", "decode", "done", "rejected"}
    /\ bits \in Seq({0, 1}) /\ decoded \in Seq({0, 1})
    /\ probability \in [{0, 1} -> 1..(One - 1)]
    /\ range \in 1..(Full - 1)
    /\ low \in 0..(2 * Full - 1)
    /\ cache \in 0..(Base - 1)
    /\ cacheSize \in Nat \ {0}
    /\ output \in Seq(0..(Base - 1))
    /\ code \in 0..(Full - 1)
    /\ position \in Nat

(* The interval ends below twice the register's range, and beyond the      *)
(* register only while the byte that waits can take a carry.               *)
IntervalOK ==
    phase = "encode" => /\ low + range <= 2 * Full
                        /\ low + range > Full => cache < Base - 1

CoderInv == TypeInv /\ IntervalOK /\ CarryStops

-----------------------------------------------------------------------------
(* Arithmetic                                                              *)

(* The register holds at least one byte and more.                          *)
LEMMA FullSize == Full \in Nat /\ Full >= 2 * Top /\ Top >= 2 /\ Full = Base * Top
<1>1. Base \in Nat /\ Top \in Nat /\ Base >= 2 /\ Top >= 2
  BY CoderAssumption
<1>2. Base * Top >= 2 * Top
  BY <1>1
<1> QED
  BY <1>1, <1>2 DEF Full

(* Quotient and remainder.                                                 *)
LEMMA Division ==
    ASSUME NEW n \in Nat, NEW d \in Nat, d > 0
    PROVE  /\ n \div d \in Nat /\ n % d \in 0..(d - 1)
           /\ n = d * (n \div d) + (n % d)
OBVIOUS

(* What is below a divisor is its own remainder.                           *)
LEMMA Below ==
    ASSUME NEW n \in Nat, NEW d \in Nat, n < d
    PROVE  n % d = n
OBVIOUS

(* One time more is at least so much more.                                 *)
LEMMA Multiple ==
    ASSUME NEW f \in Nat, NEW a \in Nat, NEW b \in Nat, a >= b + 1
    PROVE  f * a >= f * b + f
<1>1. PICK k \in Nat : a = b + 1 + k
  <2>1. a - b - 1 \in Nat /\ a = b + 1 + (a - b - 1)
    OBVIOUS
  <2> QED
    BY <2>1
<1>2. f * (b + 1 + k) = f * b + f + f * k /\ f * k \in Nat /\ f * b \in Nat
  BY <1>1
<1> QED
  BY <1>1, <1>2

(* An interval inside another ends no later.                               *)
LEMMA InsideInterval ==
    ASSUME NEW f \in Nat, NEW l \in Nat, NEW r \in Nat, NEW m \in Nat, NEW s \in Nat,
           s >= 1, m + s <= l + r, l + r <= 2 * f
    PROVE  /\ m + s <= 2 * f
           /\ m + s > f => l + r > f
           /\ m >= f => m + s > f
OBVIOUS

(* A share of a range, in Oneths of it, is neither empty nor all of it.    *)
LEMMA ShareInside ==
    ASSUME NEW r \in Nat, r >= One, NEW p \in 1..(One - 1)
    PROVE  (r \div One) * p \in 1..(r - 1)
<1> DEFINE d == r \div One
<1>1. d \in Nat /\ r % One \in 0..(One - 1) /\ r = One * d + (r % One)
  BY CoderAssumption, Division
<1>2. d >= 1
  <2>1. CASE d = 0
    BY <2>1, <1>1, CoderAssumption
  <2> QED
    BY <2>1, <1>1
<1> HIDE DEF d
<1>3. d * p \in Nat /\ d * p >= d
  BY <1>1, <1>2
<1>4. d * p <= d * (One - 1)
  BY <1>1, CoderAssumption
<1>5. d * (One - 1) = One * d - d
  BY <1>1, CoderAssumption
<1>6. d * p <= r - 1
  BY <1>1, <1>2, <1>3, <1>4, <1>5, CoderAssumption
<1>7. d * p \in 1..(r - 1)
  BY <1>1, <1>2, <1>3, <1>6
<1> QED
  BY <1>7 DEF d

(* Adaptation never takes the whole distance.                              *)
LEMMA FractionSmaller ==
    ASSUME NEW n \in Nat, n >= 1
    PROVE  n \div AdaptDivisor \in 0..(n - 1)
<1> DEFINE q == n \div AdaptDivisor
<1>1. q \in Nat /\ n % AdaptDivisor \in Nat /\ n = AdaptDivisor * q + (n % AdaptDivisor)
  BY CoderAssumption, Division
<1> HIDE DEF q
<1>2. AdaptDivisor * q >= 2 * q
  BY <1>1, CoderAssumption
<1>3. q <= n - 1
  BY <1>1, <1>2, CoderAssumption
<1> QED
  BY <1>1, <1>3 DEF q

-----------------------------------------------------------------------------
(* The two operations both sides share                                     *)

(* A context's share of the range is neither empty nor all of it.          *)
LEMMA BoundInside ==
    ASSUME TypeInv, range >= Top, NEW context \in {0, 1}
    PROVE  Bound(context) \in 1..(range - 1)
<1>1. range \in Nat /\ range >= One /\ probability[context] \in 1..(One - 1)
  BY FullSize, CoderAssumption DEF TypeInv
<1> QED
  BY <1>1, ShareInside DEF Bound

(* The context is the last bit, if there is one.                           *)
LEMMA ContextIsBit ==
    ASSUME NEW coded \in Seq({0, 1})
    PROVE  Context(coded) \in {0, 1}
BY DEF Context, Last

(* A probability that adapts stays a probability.                          *)
LEMMA AdaptStays ==
    ASSUME TypeInv, NEW context \in {0, 1}, NEW bit \in {0, 1}, Adapt(context, bit)
    PROVE  probability' \in [{0, 1} -> 1..(One - 1)]
<1> DEFINE p == probability[context]
<1>1. p \in 1..(One - 1) /\ One \in Nat
  BY CoderAssumption DEF TypeInv
<1>2. One - p \in Nat /\ One - p >= 1 /\ p \in Nat /\ p >= 1
  BY <1>1
<1>3. (One - p) \div AdaptDivisor \in 0..(One - p - 1)
  BY <1>2, FractionSmaller
<1>4. p \div AdaptDivisor \in 0..(p - 1)
  BY <1>2, FractionSmaller
<1> DEFINE up == (One - p) \div AdaptDivisor
           down == p \div AdaptDivisor
           next == IF bit = 0 THEN p + up ELSE p - down
<1>5. next \in 1..(One - 1)
  <2> HIDE DEF up, down, p
  <2>1. up \in 0..(One - p - 1) /\ down \in 0..(p - 1)
    BY <1>3, <1>4 DEF up, down, p
  <2> QED
    BY <2>1, <1>1, <1>2
<1>6. probability' = [probability EXCEPT ![context] = next]
  BY DEF Adapt
<1> HIDE DEF next
<1> QED
  BY <1>5, <1>6 DEF TypeInv

-----------------------------------------------------------------------------
(* shift_low                                                               *)

(* What the register looks like digit by digit.                            *)
LEMMA Digits ==
    ASSUME low \in 0..(2 * Full - 1)
    PROVE  /\ low \div Top \in Nat /\ low % Top \in 0..(Top - 1)
           /\ low = Top * (low \div Top) + (low % Top)
           /\ Digit \in 0..(Base - 1) /\ Carry \in {0, 1}
           /\ low \div Top = Base * Carry + Digit
<1> DEFINE q == low \div Top
           x == low % Top
<1>1. low \in Nat /\ Top \in Nat /\ Top > 0 /\ Base \in Nat /\ Base > 0
  BY FullSize, CoderAssumption
<1>2. q \in Nat /\ x \in 0..(Top - 1) /\ low = Top * q + x
  BY <1>1, Division
<1>3. q \div Base \in Nat /\ q % Base \in 0..(Base - 1) /\ q = Base * (q \div Base) + (q % Base)
  BY <1>1, <1>2, Division
<1>4. Digit = q % Base
  BY DEF Digit
<1> DEFINE c == q \div Base
           y == Top * (q % Base) + x
<1>5. low = Full * c + y /\ y \in 0..(Full - 1)
  <2> DEFINE d == q % Base
  <2>1. c \in Nat /\ d \in 0..(Base - 1) /\ q = Base * c + d
    BY <1>3
  <2> HIDE DEF d, c, q, x
  <2>2. low = Top * (Base * c + d) + x
    BY <1>2, <2>1
  <2>3. Top * (Base * c + d) = (Base * Top) * c + Top * d
    BY <1>1, <2>1
  <2>4. Top * d <= Top * (Base - 1) /\ Top * d \in Nat
    BY <1>1, <2>1
  <2>5. Top * (Base - 1) = Base * Top - Top
    BY <1>1
  <2>6. Top * d + x \in 0..(Full - 1)
    BY <2>4, <2>5, <1>1, <1>2, FullSize
  <2> QED
    BY <2>2, <2>3, <2>6, <1>1, <1>2, <2>1, FullSize DEF d
<1>6. Carry = c
  <2>1. c \in Nat
    BY <1>3
  <2> HIDE DEF c, y
  <2>2. Carry \in Nat /\ low % Full \in 0..(Full - 1) /\ low = Full * Carry + (low % Full)
    <3>1. Full \in Nat /\ Full > 0
      BY FullSize
    <3> QED
      BY <1>1, <3>1, Division DEF Carry
  <2> DEFINE z == low % Full
  <2> HIDE DEF z
  <2>3. Full * Carry + z = Full * c + y /\ z \in 0..(Full - 1)
    BY <2>2, <1>5 DEF z
  <2>4. ASSUME Carry >= c + 1 PROVE FALSE
    <3>1. Full * Carry >= Full * c + Full
      BY <2>1, <2>2, <2>4, FullSize, Multiple
    <3> QED
      BY <3>1, <2>1, <2>2, <2>3, <1>5, FullSize
  <2>5. ASSUME c >= Carry + 1 PROVE FALSE
    <3>1. Full * c >= Full * Carry + Full
      BY <2>1, <2>2, <2>5, FullSize, Multiple
    <3> QED
      BY <3>1, <2>1, <2>2, <2>3, <1>5, FullSize
  <2> QED
    BY <2>1, <2>2, <2>4, <2>5
<1>7. c \in {0, 1}
  <2>1. c \in Nat
    BY <1>3
  <2> HIDE DEF c, y
  <2>2. ASSUME c >= 2 PROVE FALSE
    <3>1. Full * c >= 2 * Full
      BY <2>1, <2>2, FullSize
    <3> QED
      BY <3>1, <2>1, <1>5, FullSize
  <2> QED
    BY <2>1, <2>2
<1> QED
  BY <1>2, <1>3, <1>4, <1>6, <1>7

(* A shift leaves a register without carry and outputs bytes only.         *)
LEMMA ShiftTypes ==
    ASSUME TypeInv, ShiftLow
    PROVE  /\ low' \in 0..(Full - Base) /\ cache' \in 0..(Base - 1)
           /\ cacheSize' \in Nat \ {0} /\ output' \in Seq(0..(Base - 1))
<1>1. low \in 0..(2 * Full - 1) /\ Base \in Nat /\ Base >= 2 /\ Top \in Nat /\ Top >= 2
  BY FullSize, CoderAssumption DEF TypeInv
<1>2. low' \in 0..(Full - Base)
  <2> DEFINE x == low % Top
  <2>1. x \in 0..(Top - 1)
    BY <1>1, Digits
  <2>2. low' = x * Base
    BY DEF ShiftLow
  <2> HIDE DEF x
  <2>3. x * Base <= (Top - 1) * Base /\ x * Base \in Nat
    BY <1>1, <2>1
  <2>4. (Top - 1) * Base = Base * Top - Base
    BY <1>1
  <2> QED
    BY <2>2, <2>3, <2>4, <1>1, FullSize
<1>3. cache' \in 0..(Base - 1) /\ cacheSize' \in Nat \ {0}
  <2>1. cache \in 0..(Base - 1) /\ cacheSize \in Nat \ {0} /\ Digit \in 0..(Base - 1)
    BY <1>1, Digits DEF TypeInv
  <2>2. CASE HoldBack
    BY <2>1, <2>2 DEF ShiftLow
  <2>3. CASE ~HoldBack
    BY <2>1, <2>3 DEF ShiftLow
  <2> QED
    BY <2>2, <2>3
<1>4. output' \in Seq(0..(Base - 1))
  <2>1. CASE HoldBack
    BY <2>1 DEF ShiftLow, TypeInv
  <2>2. CASE ~HoldBack
    <3> DEFINE more == [i \in DOMAIN Held |-> (Held[i] + Carry) % Base]
    <3>1. DOMAIN Held = 1..cacheSize /\ cacheSize \in Nat
      BY DEF Held, TypeInv
    <3>2. ASSUME NEW i \in 1..cacheSize PROVE (Held[i] + Carry) % Base \in 0..(Base - 1)
      <4>1. Held[i] \in Nat
        BY <1>1 DEF Held, TypeInv
      <4>2. Held[i] + Carry \in Nat
        BY <4>1, <1>1, Digits
      <4> QED
        BY <4>2, <1>1, Division
    <3>3. more \in Seq(0..(Base - 1))
      BY <3>1, <3>2
    <3>4. output' = output \o more
      BY <2>2 DEF ShiftLow
    <3> HIDE DEF more
    <3> QED
      BY <3>3, <3>4 DEF TypeInv
  <2> QED
    BY <2>1, <2>2
<1> QED
  BY <1>2, <1>3, <1>4

(* A shift of both ends keeps the interval below its bound, and the byte   *)
(* that waits from then on can take the carry that may still come.         *)
LEMMA ShiftInterval ==
    ASSUME TypeInv, ShiftLow, range < Top,
           low + range <= 2 * Full, low + range > Full => cache < Base - 1
    PROVE  /\ low' + range * Base <= 2 * Full
           /\ low' + range * Base > Full => cache' < Base - 1
<1> DEFINE x == low % Top
<1>1. /\ Base \in Nat /\ Base >= 2 /\ Top \in Nat /\ Top >= 2 /\ Full = Base * Top
      /\ range \in Nat /\ range >= 1 /\ low \in Nat /\ cache \in 0..(Base - 1)
  BY FullSize, CoderAssumption DEF TypeInv
<1>2. /\ x \in 0..(Top - 1) /\ Digit \in 0..(Base - 1) /\ Carry \in {0, 1}
      /\ low = Top * (Base * Carry + Digit) + x
  BY Digits DEF TypeInv
<1>3. low' = x * Base /\ cache' = (IF HoldBack THEN cache ELSE Digit)
  BY DEF ShiftLow
<1> HIDE DEF x
<1>4. low' + range * Base = Base * (x + range)
  BY <1>1, <1>2, <1>3
<1>5. Base * (x + range) <= Base * (2 * Top) /\ Base * (2 * Top) = 2 * Full
  BY <1>1, <1>2
<1>6. ASSUME low' + range * Base > Full PROVE x + range > Top
  <2>1. CASE x + range <= Top
    <3>1. Base * (x + range) <= Base * Top
      BY <2>1, <1>1, <1>2
    <3>2. Base * (x + range) > Base * Top
      BY <1>6, <1>4, <1>1
    <3>3. Base * (x + range) \in Nat /\ Base * Top \in Nat
      BY <1>1, <1>2
    <3> QED
      BY <3>1, <3>2, <3>3
  <2> QED
    BY <2>1, <1>1, <1>2
<1>7. ASSUME x + range > Top, Digit = Base - 1 PROVE Carry = 0 /\ cache < Base - 1
  <2>1. low = Full * Carry + (Full - Top) + x
    <3>1. Top * (Base * Carry + (Base - 1)) = (Base * Top) * Carry + (Base * Top - Top)
      BY <1>1, <1>2
    <3> QED
      BY <3>1, <1>7, <1>1, <1>2
  <2>2. Carry = 0
    BY <2>1, <1>7, <1>1, <1>2, FullSize
  <2>3. low + range > Full
    BY <2>1, <2>2, <1>7, <1>1, <1>2, FullSize
  <2> QED
    BY <2>2, <2>3
<1>8. ASSUME low' + range * Base > Full PROVE cache' < Base - 1
  <2>1. CASE Digit = Base - 1
    BY <2>1, <1>8, <1>6, <1>7, <1>3 DEF HoldBack
  <2>2. CASE Digit # Base - 1
    BY <2>2, <1>1, <1>2, <1>3 DEF HoldBack
  <2> QED
    BY <2>1, <2>2
<1> QED
  BY <1>4, <1>5, <1>8

-----------------------------------------------------------------------------
(* The number that bytes spell                                             *)

(* A set of naturals that is not empty has a least element: what stands    *)
(* for induction here.                                                     *)
LEMMA Least ==
    ASSUME NEW T, T \subseteq Nat, T # {}
    PROVE  \E n \in T : \A m \in T : n <= m
<1>1. IsWellFoundedOn(OpToRel(<, Nat), Nat)
  BY NatLessThanWellFounded
<1>2. PICK n \in T : \A m \in T : ~(<<m, n>> \in OpToRel(<, Nat))
  BY <1>1, WFMin
<1>3. \A m \in T : ~(m < n)
  BY <1>2 DEF OpToRel
<1> QED
  BY <1>3

(* The numbers the first bytes of s spell, up to the k-th.                 *)
Spells(t, s, k) ==
    /\ t \in [0..k -> Nat]
    /\ t[0] = 0
    /\ \A n \in 1..k : t[n] = t[n - 1] * Base + s[n]

(* One byte more.                                                          *)
LEMMA OneMore ==
    ASSUME NEW a \in Nat, NEW b \in Nat
    PROVE  /\ a * Base \in Nat /\ a * Base + b \in Nat
           /\ a * Base + (b + 1) = a * Base + b + 1
           /\ (a + 1) * Base = a * Base + Base
<1>1. Base \in Nat
  BY CoderAssumption
<1> QED
  BY <1>1

(* Every sequence has them.                                                *)
LEMMA ValuesExist ==
    ASSUME NEW s \in Seq(Nat), NEW k \in 0..Len(s)
    PROVE  \E t : Spells(t, s, k)
<1> DEFINE T == {n \in 0..Len(s) : ~\E t : Spells(t, s, n)}
<1>1. ASSUME T # {} PROVE FALSE
  <2>0. T \subseteq Nat
    OBVIOUS
  <2>1. PICK n \in T : \A m \in T : n <= m
    <3> HIDE DEF T
    <3> QED
      BY <1>1, <2>0, Least
  <2>2. n # 0
    <3>1. Spells([m \in 0..0 |-> 0], s, 0)
      BY DEF Spells
    <3> QED
      BY <3>1, <2>1
  <2>3. n - 1 \in 0..Len(s) /\ n \in 1..Len(s) /\ s[n] \in Nat /\ ~(n <= n - 1)
    BY <2>2
  <2>4. n - 1 \notin T
    BY <2>1, <2>3
  <2>5. PICK t : Spells(t, s, n - 1)
    BY <2>4, <2>3
  <2> DEFINE u == [m \in 0..n |-> IF m = n THEN t[n - 1] * Base + s[n] ELSE t[m]]
  <2>6. u \in [0..n -> Nat]
    <3>1. t \in [0..(n - 1) -> Nat] /\ t[n - 1] \in Nat
      BY <2>3, <2>5 DEF Spells
    <3>2. t[n - 1] * Base + s[n] \in Nat
      BY <2>3, <3>1, OneMore
    <3>3. ASSUME NEW m \in 0..n PROVE (IF m = n THEN t[n - 1] * Base + s[n] ELSE t[m]) \in Nat
      <4>1. CASE m = n
        BY <3>2, <4>1
      <4>2. CASE m # n
        <5>1. m \in 0..(n - 1)
          BY <2>3, <4>2
        <5> QED
          BY <3>1, <4>2, <5>1
      <4> QED
        BY <4>1, <4>2
    <3> QED
      BY <3>3
  <2>7. u[0] = 0
    BY <2>3, <2>5 DEF Spells
  <2>8. ASSUME NEW m \in 1..n PROVE u[m] = u[m - 1] * Base + s[m]
    <3>1. m \in 0..n /\ m - 1 \in 0..n /\ m - 1 # n
      BY <2>3
    <3>2. CASE m = n
      BY <3>1, <3>2
    <3>3. CASE m # n
      <4>1. m \in 1..(n - 1)
        BY <3>3, <2>3
      <4>2. t[m] = t[m - 1] * Base + s[m]
        BY <4>1, <2>5 DEF Spells
      <4> QED
        BY <3>1, <3>3, <4>2
    <3> QED
      BY <3>2, <3>3
  <2>9. Spells(u, s, n)
    <3> HIDE DEF u
    <3> QED
      BY <2>6, <2>7, <2>8 DEF Spells
  <2> QED
    BY <2>1, <2>9
<1> QED
  BY <1>1

(* They depend on nothing but the bytes.                                   *)
LEMMA ValuesUnique ==
    ASSUME NEW t, NEW s, NEW k \in Nat, Spells(t, s, k),
           NEW u, NEW r, NEW l \in Nat, Spells(u, r, l),
           k <= l, \A n \in 1..k : r[n] = s[n]
    PROVE  \A m \in 0..k : t[m] = u[m]
<1> DEFINE T == {m \in 0..k : t[m] # u[m]}
<1>1. ASSUME T # {} PROVE FALSE
  <2>0. T \subseteq Nat
    OBVIOUS
  <2>1. PICK m \in T : \A i \in T : m <= i
    <3> HIDE DEF T
    <3> QED
      BY <1>1, <2>0, Least
  <2>2. m # 0
    BY <2>1 DEF Spells
  <2>3. m - 1 \in 0..k /\ m \in 1..k /\ m \in 1..l /\ ~(m <= m - 1)
    BY <2>1, <2>2
  <2>4. t[m - 1] = u[m - 1]
    BY <2>1, <2>3
  <2>5. t[m] = t[m - 1] * Base + s[m] /\ u[m] = u[m - 1] * Base + r[m] /\ r[m] = s[m]
    BY <2>3 DEF Spells
  <2> QED
    BY <2>1, <2>4, <2>5
<1> QED
  BY <1>1

(* The recursive definition of Value is the last of them.                  *)
LEMMA ValueIsLast ==
    ASSUME NEW s \in Seq(Nat)
    PROVE  \E t : Spells(t, s, Len(s)) /\ Value(s) = t[Len(s)]
<1> DEFINE Def(t) == t = [n \in 0..Len(s) |-> IF n = 0 THEN 0 ELSE t[n - 1] * Base + s[n]]
<1>1. PICK u : Spells(u, s, Len(s))
  BY ValuesExist
<1>2. Def(u)
  <2>1. u = [n \in 0..Len(s) |-> u[n]]
    BY <1>1 DEF Spells
  <2>2. ASSUME NEW n \in 0..Len(s) PROVE u[n] = IF n = 0 THEN 0 ELSE u[n - 1] * Base + s[n]
    <3>1. n = 0 \/ n \in 1..Len(s)
      OBVIOUS
    <3> QED
      BY <1>1, <3>1 DEF Spells
  <2> QED
    BY <2>1, <2>2
<1> DEFINE t == CHOOSE x : Def(x)
<1>3. Def(t)
  <2> HIDE DEF Def
  <2> QED
    BY <1>2
<1>4. Value(s) = t[Len(s)]
  BY DEF Value
<1> HIDE DEF t
<1>5. \A n \in 0..Len(s) : t[n] = IF n = 0 THEN 0 ELSE t[n - 1] * Base + s[n]
  BY <1>3
<1> HIDE DEF Def
<1>6. \A n \in 0..Len(s) : t[n] = u[n]
  <2> DEFINE T == {n \in 0..Len(s) : t[n] # u[n]}
  <2>1. ASSUME T # {} PROVE FALSE
    <3>0. T \subseteq Nat
      OBVIOUS
    <3>1. PICK n \in T : \A i \in T : n <= i
      <4> HIDE DEF T
      <4> QED
        BY <2>1, <3>0, Least
    <3>2. n # 0
      BY <1>1, <1>5, <3>1 DEF Spells
    <3>3. n - 1 \in 0..Len(s) /\ n \in 1..Len(s) /\ ~(n <= n - 1)
      BY <3>1, <3>2
    <3>4. t[n - 1] = u[n - 1]
      BY <3>1, <3>3
    <3>5. u[n] = u[n - 1] * Base + s[n]
      BY <1>1, <3>3 DEF Spells
    <3> QED
      BY <1>5, <3>1, <3>2, <3>4, <3>5
  <2> QED
    BY <2>1
<1>7. Value(s) = u[Len(s)]
  BY <1>4, <1>6
<1> QED
  BY <1>1, <1>7

(* Bytes spell a number, and one byte more multiplies it.                  *)
LEMMA ValueIsNat ==
    ASSUME NEW s \in Seq(Nat)
    PROVE  Value(s) \in Nat
BY ValueIsLast DEF Spells

(* No bytes spell nothing.                                                 *)
LEMMA ValueEmpty == Value(<<>>) = 0
<1>1. <<>> \in Seq(Nat) /\ Len(<<>>) = 0
  OBVIOUS
<1> QED
  BY <1>1, ValueIsLast DEF Spells

(* One byte more multiplies what the others spell.                         *)
LEMMA ValueAppend ==
    ASSUME NEW s \in Seq(Nat), NEW x \in Nat
    PROVE  Value(Append(s, x)) = Value(s) * Base + x
<1> DEFINE r == Append(s, x)
<1>1. r \in Seq(Nat) /\ Len(r) = Len(s) + 1 /\ r[Len(r)] = x /\ \A n \in 1..Len(s) : r[n] = s[n]
  OBVIOUS
<1> HIDE DEF r
<1>2. PICK t : Spells(t, s, Len(s)) /\ Value(s) = t[Len(s)]
  BY ValueIsLast
<1>3. PICK u : Spells(u, r, Len(r)) /\ Value(r) = u[Len(r)]
  BY <1>1, ValueIsLast
<1>4. Len(s) \in Nat /\ Len(r) \in Nat /\ Len(s) <= Len(r) /\ Len(s) \in 0..Len(s)
      /\ Len(r) \in 1..Len(r) /\ Len(r) - 1 = Len(s)
  BY <1>1
<1>5. u[Len(s)] = t[Len(s)]
  <2>1. \A n \in 1..Len(s) : r[n] = s[n]
    BY <1>1
  <2>2. Spells(t, s, Len(s)) /\ Spells(u, r, Len(r)) /\ Len(s) \in Nat /\ Len(r) \in Nat
        /\ Len(s) <= Len(r) /\ Len(s) \in 0..Len(s)
    BY <1>2, <1>3, <1>4
  <2>3. \A m \in 0..Len(s) : t[m] = u[m]
    BY ONLY <2>1, <2>2, ValuesUnique
  <2> QED
    BY <2>2, <2>3
<1>6. u[Len(r)] = u[Len(r) - 1] * Base + r[Len(r)]
  BY <1>3, <1>4 DEF Spells
<1> QED
  BY <1>1, <1>2, <1>3, <1>4, <1>5, <1>6 DEF r

(* A carry into a byte followed by all-ones bytes adds one to the number.  *)
LEMMA ValueCarried ==
    ASSUME NEW s \in Seq(Nat), NEW r \in Seq(Nat), Len(r) = Len(s), NEW m \in 1..Len(s),
           \A i \in 1..Len(s) : i < m => r[i] = s[i],
           r[m] = s[m] + 1,
           \A i \in 1..Len(s) : i > m => s[i] = Base - 1 /\ r[i] = 0
    PROVE  Value(r) = Value(s) + 1
<1>1. PICK t : Spells(t, s, Len(s)) /\ Value(s) = t[Len(s)]
  BY ValueIsLast
<1>2. PICK u : Spells(u, r, Len(s)) /\ Value(r) = u[Len(s)]
  BY ValueIsLast
<1>3. Len(s) \in Nat /\ m \in Nat /\ Base \in Nat /\ Len(s) \in 1..Len(s) /\ m <= Len(s)
  BY CoderAssumption
<1>4. \A i \in 0..Len(s) : /\ t[i] \in Nat /\ u[i] \in Nat
                           /\ i > 0 => /\ t[i] = t[i - 1] * Base + s[i]
                                       /\ u[i] = u[i - 1] * Base + r[i]
  <2> SUFFICES ASSUME NEW i \in 0..Len(s)
               PROVE  /\ t[i] \in Nat /\ u[i] \in Nat
                      /\ i > 0 => /\ t[i] = t[i - 1] * Base + s[i]
                                  /\ u[i] = u[i - 1] * Base + r[i]
    OBVIOUS
  <2>1. t[i] \in Nat /\ u[i] \in Nat
    BY <1>1, <1>2 DEF Spells
  <2>2. i > 0 => i \in 1..Len(s)
    OBVIOUS
  <2> QED
    BY <1>1, <1>2, <2>1, <2>2 DEF Spells
<1>5. t[0] = 0 /\ u[0] = 0
  BY <1>1, <1>2 DEF Spells
<1> DEFINE T == {i \in 0..Len(s) : u[i] # IF i < m THEN t[i] ELSE t[i] + 1}
<1>6. ASSUME T # {} PROVE FALSE
  <2>0. T \subseteq Nat
    OBVIOUS
  <2>1. PICK i \in T : \A k \in T : i <= k
    <3> HIDE DEF T
    <3> QED
      BY <1>6, <2>0, Least
  <2>2. i \in 0..Len(s) /\ u[i] # IF i < m THEN t[i] ELSE t[i] + 1
    BY <2>1
  <2>3. i # 0
    BY <1>3, <1>5, <2>2
  <2>4. i \in 1..Len(s) /\ i - 1 \in 0..Len(s) /\ ~(i <= i - 1) /\ i \in Nat /\ i > 0
    BY <2>2, <2>3
  <2>5. u[i - 1] = IF i - 1 < m THEN t[i - 1] ELSE t[i - 1] + 1
    BY <2>1, <2>4
  <2>6. /\ t[i] = t[i - 1] * Base + s[i] /\ u[i] = u[i - 1] * Base + r[i]
        /\ t[i - 1] \in Nat /\ u[i - 1] \in Nat /\ t[i] \in Nat /\ u[i] \in Nat
    BY <1>4, <2>4
  <2>7. s[i] \in Nat /\ r[i] \in Nat
    BY <2>4
  <2>8. CASE i < m
    <3>1. r[i] = s[i] /\ u[i - 1] = t[i - 1]
      BY <1>3, <2>4, <2>5, <2>8
    <3> QED
      BY <2>2, <2>6, <2>8, <3>1
  <2>9. CASE i = m
    <3>1. r[i] = s[i] + 1 /\ u[i - 1] = t[i - 1]
      BY <1>3, <2>4, <2>5, <2>9
    <3>2. u[i] = t[i] + 1
      <4>1. t[i - 1] * Base \in Nat
        BY <2>6, <2>7, OneMore
      <4> DEFINE p == t[i - 1] * Base
      <4>2. u[i] = p + (s[i] + 1) /\ t[i] = p + s[i] /\ p \in Nat
        BY <2>6, <3>1, <4>1
      <4> HIDE DEF p
      <4> QED
        BY <2>7, <4>2
    <3> QED
      BY <1>3, <2>2, <2>9, <3>2
  <2>10. CASE i > m
    <3>1. s[i] = Base - 1 /\ r[i] = 0 /\ u[i - 1] = t[i - 1] + 1
      BY <1>3, <2>4, <2>5, <2>10
    <3>2. t[i - 1] * Base \in Nat /\ (t[i - 1] + 1) * Base = t[i - 1] * Base + Base
      BY <2>6, <2>7, OneMore
    <3>3. u[i] = t[i] + 1
      <4> DEFINE p == t[i - 1] * Base
                 q == (t[i - 1] + 1) * Base
      <4>1. u[i] = q + 0 /\ t[i] = p + (Base - 1) /\ p \in Nat /\ q = p + Base
        BY <2>6, <3>1, <3>2
      <4> HIDE DEF p, q
      <4> QED
        BY <1>3, <4>1
    <3> QED
      BY <1>3, <2>2, <2>4, <2>10, <3>3
  <2> QED
    BY <1>3, <2>4, <2>8, <2>9, <2>10
<1>7. u[Len(s)] = t[Len(s)] + 1
  <2>1. Len(s) \in 0..Len(s) /\ ~(Len(s) < m)
    BY <1>3
  <2> QED
    BY <1>6, <2>1
<1> QED
  BY <1>1, <1>2, <1>7

(* Two sequences of bytes one after the other.                             *)
LEMMA JoinedLength ==
    ASSUME NEW a \in Seq(Nat), NEW b \in Seq(Nat)
    PROVE  Len(a \o b) = Len(a) + Len(b)
OBVIOUS

(* The bytes held back are the cache and all-ones bytes.                   *)
LEMMA HeldBytes ==
    ASSUME TypeInv
    PROVE  /\ Held \in Seq(Nat) /\ Len(Held) = cacheSize /\ DOMAIN Held = 1..cacheSize
           /\ Held[1] = cache /\ \A i \in 1..cacheSize : i > 1 => Held[i] = Base - 1
           /\ output \in Seq(Nat) /\ output \o Held \in Seq(Nat)
           /\ cacheSize \in Nat \ {0} /\ cache \in 0..(Base - 1) /\ cache \in Nat
           /\ Base \in Nat /\ Base >= 2
<1>1. /\ cacheSize \in Nat \ {0} /\ cache \in 0..(Base - 1) /\ cache \in Nat
      /\ Base \in Nat /\ Base >= 2 /\ Base - 1 \in Nat
  BY CoderAssumption DEF TypeInv
<1>2. Held \in Seq(Nat) /\ Len(Held) = cacheSize /\ DOMAIN Held = 1..cacheSize
  BY <1>1 DEF Held
<1>3. Held[1] = cache /\ \A i \in 1..cacheSize : i > 1 => Held[i] = Base - 1
  BY <1>1 DEF Held
<1>4. output \in Seq(Nat)
  <2> DEFINE Byte == 0..(Base - 1)
  <2>1. output \in Seq(Byte) /\ \A b \in Byte : b \in Nat
    BY <1>1 DEF TypeInv
  <2> HIDE DEF Byte
  <2>2. Len(output) \in Nat /\ \A i \in 1..Len(output) : output[i] \in Nat
    BY <2>1
  <2>3. output = [i \in 1..Len(output) |-> output[i]]
    BY <2>1
  <2>4. [i \in 1..Len(output) |-> output[i]] \in Seq(Nat)
    BY <2>2
  <2> QED
    BY <2>3, <2>4
<1>5. output \o Held \in Seq(Nat)
  BY <1>2, <1>4
<1> QED
  BY <1>1, <1>2, <1>3, <1>4, <1>5

(* A byte that waits with the others changes none of them.                 *)
LEMMA HeldBackValue ==
    ASSUME TypeInv, ShiftLow, HoldBack
    PROVE  Value(output' \o Held') = (Value(output \o Held) + Carry) * Base + Digit
<1>1. output' = output /\ cache' = cache /\ cacheSize' = cacheSize + 1
      /\ Digit = Base - 1 /\ Carry = 0
  BY DEF ShiftLow, HoldBack
<1>2. Held' = [i \in 1..(cacheSize + 1) |-> IF i = 1 THEN cache ELSE Base - 1]
  BY <1>1 DEF Held
<1>3. Held = [i \in 1..cacheSize |-> IF i = 1 THEN cache ELSE Base - 1]
  BY DEF Held
<1>4. /\ Held \in Seq(Nat) /\ output \in Seq(Nat) /\ output \o Held \in Seq(Nat)
      /\ cacheSize \in Nat \ {0} /\ Base - 1 \in Nat /\ Base \in Nat /\ cache \in Nat
  BY HeldBytes
<1>5. Held' = Append(Held, Base - 1)
  BY <1>2, <1>3, <1>4
<1>6. output \o Append(Held, Base - 1) = Append(output \o Held, Base - 1)
  BY <1>4
<1>7. Value(Append(output \o Held, Base - 1)) = Value(output \o Held) * Base + (Base - 1)
  BY <1>4, ValueAppend
<1>8. Value(output \o Held) + 0 = Value(output \o Held)
  <2>1. Value(output \o Held) \in Nat
    BY <1>4, ValueIsNat
  <2> QED
    BY <2>1
<1> QED
  BY <1>1, <1>5, <1>6, <1>7, <1>8

(* The bytes that are output spell what waited, and the carry is in them.  *)
LEMMA OutputValue ==
    ASSUME TypeInv, Carry \in {0, 1}, Carry = 1 => cache < Base - 1
    PROVE  LET more == [i \in DOMAIN Held |-> (Held[i] + Carry) % Base]
           IN  /\ output \o more \in Seq(Nat)
               /\ Value(output \o more) = Value(output \o Held) + Carry
<1> DEFINE more == [i \in DOMAIN Held |-> (Held[i] + Carry) % Base]
<1>1. /\ Held \in Seq(Nat) /\ Len(Held) = cacheSize /\ DOMAIN Held = 1..cacheSize
      /\ output \in Seq(Nat) /\ output \o Held \in Seq(Nat)
      /\ cacheSize \in Nat \ {0} /\ cache \in 0..(Base - 1) /\ Base \in Nat /\ Base >= 2
  BY HeldBytes
<1>2. ASSUME NEW i \in 1..cacheSize
      PROVE  more[i] = IF Carry = 0 THEN Held[i] ELSE IF i = 1 THEN Held[i] + 1 ELSE 0
  <2>1. more[i] = (Held[i] + Carry) % Base
    BY <1>1
  <2>2. Held[i] = (IF i = 1 THEN cache ELSE Base - 1) /\ Held[i] \in 0..(Base - 1)
    BY <1>1, HeldBytes
  <2> HIDE DEF more
  <2>3. CASE Carry = 0
    <3>1. Held[i] + Carry = Held[i] /\ Held[i] \in Nat /\ Held[i] < Base
      BY <1>1, <2>2, <2>3
    <3> QED
      BY <1>1, <2>1, <2>3, <3>1, Below
  <2>4. CASE Carry = 1 /\ i = 1
    <3>1. Held[i] + 1 \in Nat /\ Held[i] + 1 < Base
      BY <1>1, <2>2, <2>4
    <3> QED
      BY <1>1, <2>1, <2>4, <3>1, Below
  <2>5. CASE Carry = 1 /\ i # 1
    <3>1. Held[i] + 1 = Base
      BY <1>1, <2>2, <2>5
    <3> QED
      BY <1>1, <2>1, <2>5, <3>1
  <2> QED
    BY <2>3, <2>4, <2>5
<1>3. more \in Seq(Nat) /\ Len(more) = cacheSize /\ DOMAIN more = 1..cacheSize
  <2>1. \A i \in 1..cacheSize : more[i] \in Nat
    BY <1>1, <1>2
  <2>2. DOMAIN more = 1..cacheSize /\ more = [i \in 1..cacheSize |-> more[i]]
    BY <1>1
  <2> HIDE DEF more
  <2> DEFINE copy == [i \in 1..cacheSize |-> more[i]]
  <2>3. copy \in Seq(Nat)
    BY <1>1, <2>1
  <2>4. Len(copy) = cacheSize
    BY <1>1
  <2> QED
    BY <2>2, <2>3, <2>4
<1> DEFINE s == output \o Held
           r == output \o more
           m == Len(output) + 1
<1> HIDE DEF more
<1>4. /\ s \in Seq(Nat) /\ r \in Seq(Nat) /\ Len(output) \in Nat
      /\ Len(s) = Len(output) + cacheSize /\ Len(r) = Len(s) /\ m \in 1..Len(s)
  <2>1. s \in Seq(Nat) /\ r \in Seq(Nat) /\ Len(output) \in Nat
    BY <1>1, <1>3
  <2>2. Len(s) = Len(output) + cacheSize /\ Len(r) = Len(output) + cacheSize
    <3>1. Len(s) = Len(output) + Len(Held) /\ Len(r) = Len(output) + Len(more)
      BY <1>1, <1>3, JoinedLength
    <3> QED
      BY <1>1, <1>3, <3>1
  <2>3. m \in 1..(Len(output) + cacheSize)
    BY <1>1, <2>1
  <2> HIDE DEF s, r, m
  <2> QED
    BY <2>1, <2>2, <2>3
<1>5. \A i \in 1..Len(s) :
        /\ s[i] = IF i <= Len(output) THEN output[i] ELSE Held[i - Len(output)]
        /\ r[i] = IF i <= Len(output) THEN output[i] ELSE more[i - Len(output)]
  BY <1>1, <1>3, <1>4
<1>6. CASE Carry = 0
  <2>1. \A i \in 1..cacheSize : more[i] = Held[i]
    BY <1>2, <1>6
  <2>2. more = Held
    BY <1>1, <1>3, <2>1
  <2> HIDE DEF s
  <2>3. Value(s) \in Nat
    BY <1>4, ValueIsNat
  <2>4. Value(s) + 0 = Value(s)
    BY <2>3
  <2>5. r = s
    BY <2>2 DEF s
  <2> HIDE DEF r
  <2> QED
    BY <1>4, <1>6, <2>4, <2>5 DEF s, r, more
<1>7. CASE Carry = 1
  <2>1. more[1] = Held[1] + 1 /\ \A i \in 1..cacheSize : i > 1 => more[i] = 0 /\ Held[i] = Base - 1
    BY <1>1, <1>2, <1>7, HeldBytes
  <2>2. \A i \in 1..Len(s) : i < m => r[i] = s[i]
    BY <1>4, <1>5
  <2>3. r[m] = s[m] + 1
    <3>1. ~(m <= Len(output)) /\ m - Len(output) = 1
      BY <1>4
    <3> QED
      BY <1>4, <1>5, <2>1, <3>1
  <2>4. \A i \in 1..Len(s) : i > m => s[i] = Base - 1 /\ r[i] = 0
    <3> SUFFICES ASSUME NEW i \in 1..Len(s), i > m PROVE s[i] = Base - 1 /\ r[i] = 0
      OBVIOUS
    <3>1. ~(i <= Len(output)) /\ i - Len(output) \in 1..cacheSize /\ i - Len(output) > 1
      BY <1>1, <1>4
    <3> QED
      BY <1>5, <2>1, <3>1
  <2> HIDE DEF s, r, m
  <2>5. Value(r) = Value(s) + 1
    BY <1>4, <2>2, <2>3, <2>4, ValueCarried
  <2> QED
    BY <1>4, <1>7, <2>5 DEF s, r, more
<1> QED
  BY <1>6, <1>7

(* shift_low loses no carry: all bytes together are those before, with     *)
(* the carry added, and the digit.                                         *)
LEMMA ShiftedValue ==
    ASSUME TypeInv, ShiftLow, low >= Full => cache < Base - 1
    PROVE  Value(output' \o Held') = (Value(output \o Held) + Carry) * Base + Digit
<1>1. Digit \in 0..(Base - 1) /\ Carry \in {0, 1} /\ Base \in Nat
  BY Digits, CoderAssumption DEF TypeInv
<1>2. Carry = 1 => low >= Full
  <2>1. low \in Nat /\ Full \in Nat /\ Full > 0
    BY FullSize DEF TypeInv
  <2> QED
    BY <2>1 DEF Carry
<1>3. CASE HoldBack
  BY <1>3, HeldBackValue
<1>4. CASE ~HoldBack
  <2> DEFINE more == [i \in DOMAIN Held |-> (Held[i] + Carry) % Base]
  <2>1. output' = output \o more /\ cache' = Digit /\ cacheSize' = 1
    BY <1>4 DEF ShiftLow
  <2>2. output' \in Seq(Nat) /\ Value(output') = Value(output \o Held) + Carry
    BY <1>1, <1>2, <2>1, OutputValue
  <2>3. output' \o Held' = Append(output', Digit)
    <3>1. Held' = <<Digit>>
      BY <2>1 DEF Held
    <3> HIDE DEF more
    <3> QED
      BY <2>2, <3>1
  <2>4. Digit \in Nat
    BY <1>1
  <2> HIDE DEF more
  <2>5. Value(Append(output', Digit)) = Value(output') * Base + Digit
    BY <2>2, <2>4, ValueAppend
  <2> QED
    BY <2>2, <2>3, <2>5
<1> QED
  BY <1>3, <1>4

-----------------------------------------------------------------------------
(* The invariant                                                           *)

(* Both kinds of initial state satisfy the invariant.                      *)
LEMMA InitCoderInv == Init => CoderInv
<1> SUFFICES ASSUME Init PROVE CoderInv
  OBVIOUS
<1>1. One \div 2 \in 1..(One - 1)
  BY CoderAssumption
<1>2. probability \in [{0, 1} -> 1..(One - 1)]
  BY <1>1 DEF Init, EvenOdds
<1>3. output \in Seq(0..(Base - 1)) /\ bits \in Seq({0, 1})
  <2>1. ForeignPayloads \subseteq Seq(0..(Base - 1)) /\ MaxBits \in Nat
    BY BoundAssumption
  <2>2. [i \in 1..MaxBits |-> 0] \in Seq({0, 1})
    BY <2>1
  <2>3. CASE output = <<>> /\ bits = <<>>
    BY <2>3
  <2>4. CASE output \in ForeignPayloads /\ bits = [i \in 1..MaxBits |-> 0]
    BY <2>1, <2>2, <2>4
  <2> QED
    BY <2>3, <2>4 DEF Init
<1>4. Full \in Nat /\ Full >= 2 /\ Base \in Nat /\ Base >= 2
  BY FullSize, CoderAssumption
<1>5. /\ phase \in {"encode", "start"} /\ range = Full - 1 /\ low = 0 /\ cache = 0
      /\ cacheSize = 1 /\ code = 0 /\ position = 0 /\ decoded = <<>>
  BY DEF Init
<1>6. TypeInv
  BY <1>2, <1>3, <1>4, <1>5 DEF TypeInv
<1>7. low + range <= Full /\ low < Full
  BY <1>4, <1>5
<1>8. IntervalOK /\ CarryStops
  BY <1>4, <1>5 DEF IntervalOK, CarryStops
<1> QED
  BY <1>6, <1>8 DEF CoderInv

(* encode_bit before its loop: the interval is one part of what it was.    *)
LEMMA EncodeStep ==
    ASSUME CoderInv, NEW bit \in {0, 1}, EncodeBit(bit)
    PROVE  CoderInv'
<1> DEFINE context == Context(bits)
           bound == Bound(context)
<1>1. TypeInv /\ phase = "encode" /\ range >= Top /\ low + range <= 2 * Full
      /\ (low + range > Full => cache < Base - 1)
  BY DEF CoderInv, IntervalOK, EncodeBit
<1>2. context \in {0, 1}
  BY <1>1, ContextIsBit DEF TypeInv
<1>3. bound \in 1..(range - 1)
  BY <1>1, <1>2, BoundInside
<1>4. probability' \in [{0, 1} -> 1..(One - 1)]
  BY <1>1, <1>2, AdaptStays DEF EncodeBit
<1>5. bits' \in Seq({0, 1})
  BY <1>1 DEF EncodeBit, TypeInv
<1>6. \/ range' = bound /\ low' = low
      \/ range' = range - bound /\ low' = low + bound
  BY DEF EncodeBit
<1> HIDE DEF bound, context
<1>7. /\ range \in 1..(Full - 1) /\ low \in 0..(2 * Full - 1) /\ Full \in Nat /\ Full >= 1
      /\ cache \in 0..(Base - 1) /\ Base \in Nat
  BY <1>1, FullSize, CoderAssumption DEF TypeInv
<1>8. /\ range' \in 1..(Full - 1) /\ low' \in 0..(2 * Full - 1)
      /\ low' + range' <= low + range /\ low' + range' \in Nat
  BY <1>1, <1>3, <1>6, <1>7
<1>9. UNCHANGED <<phase, cache, cacheSize, output, code, position, decoded>>
  BY DEF EncodeBit, decoderVars
<1>10. TypeInv'
  BY <1>1, <1>4, <1>5, <1>8, <1>9 DEF TypeInv
<1>11. /\ low' + range' <= 2 * Full
       /\ low' + range' > Full => cache' < Base - 1
       /\ low' >= Full => cache' < Base - 1
  <2>1. /\ low \in Nat /\ range \in Nat /\ low' \in Nat /\ range' \in Nat
        /\ range' >= 1 /\ Full \in Nat
    BY <1>7, <1>8
  <2>2. /\ low' + range' <= 2 * Full
        /\ low' + range' > Full => low + range > Full
        /\ low' >= Full => low' + range' > Full
    BY <2>1, <1>1, <1>8, InsideInterval
  <2>3. cache' = cache
    BY <1>9
  <2> QED
    BY <2>2, <2>3, <1>1
<1>12. IntervalOK' /\ CarryStops'
  BY <1>11 DEF IntervalOK, CarryStops
<1> QED
  BY <1>10, <1>12 DEF CoderInv

(* A turn of its loop.                                                     *)
LEMMA NormaliseStep == CoderInv /\ Normalise => CoderInv'
<1> SUFFICES ASSUME CoderInv, Normalise PROVE CoderInv'
  OBVIOUS
<1>1. /\ TypeInv /\ phase = "encode" /\ range < Top /\ ShiftLow /\ range' = range * Base
      /\ low + range <= 2 * Full /\ (low + range > Full => cache < Base - 1)
  BY DEF CoderInv, IntervalOK, Normalise
<1>2. /\ low' + range' <= 2 * Full
      /\ low' + range' > Full => cache' < Base - 1
  BY <1>1, ShiftInterval
<1>3. range' \in 1..(Full - 1)
  <2>1. range \in 1..(Top - 1) /\ Base \in Nat /\ Base >= 2 /\ Top \in Nat /\ Full = Base * Top
    BY <1>1, FullSize, CoderAssumption DEF TypeInv
  <2>2. range * Base <= (Top - 1) * Base /\ range * Base >= 1 * Base
    BY <2>1
  <2>3. (Top - 1) * Base = Base * Top - Base
    BY <2>1
  <2> QED
    BY <1>1, <2>1, <2>2, <2>3
<1>4. /\ low' \in 0..(Full - Base) /\ cache' \in 0..(Base - 1)
      /\ cacheSize' \in Nat \ {0} /\ output' \in Seq(0..(Base - 1))
  BY <1>1, ShiftTypes
<1>5. UNCHANGED <<phase, bits, probability, code, position, decoded>>
  BY DEF Normalise, decoderVars
<1>6. Full \in Nat /\ Base \in Nat /\ Base >= 2
  BY FullSize, CoderAssumption
<1>7. low' \in 0..(2 * Full - 1) /\ low' < Full
  BY <1>4, <1>6
<1>8. TypeInv'
  BY <1>1, <1>3, <1>4, <1>5, <1>7 DEF TypeInv
<1>9. IntervalOK' /\ CarryStops'
  BY <1>2, <1>6, <1>7 DEF IntervalOK, CarryStops
<1> QED
  BY <1>8, <1>9 DEF CoderInv

(* finish shifts the lower end only.                                       *)
LEMMA FlushStep == CoderInv /\ Flush => CoderInv'
<1> SUFFICES ASSUME CoderInv, Flush PROVE CoderInv'
  OBVIOUS
<1>1. TypeInv /\ phase = "flush" /\ ShiftLow
  BY DEF CoderInv, Flush
<1>2. /\ low' \in 0..(Full - Base) /\ cache' \in 0..(Base - 1)
      /\ cacheSize' \in Nat \ {0} /\ output' \in Seq(0..(Base - 1))
  BY <1>1, ShiftTypes
<1>3. UNCHANGED <<phase, bits, probability, range, code, position, decoded>>
  BY DEF Flush, decoderVars
<1>4. Full \in Nat /\ Base \in Nat /\ Base >= 2
  BY FullSize, CoderAssumption
<1>5. low' \in 0..(2 * Full - 1) /\ low' < Full
  BY <1>2, <1>4
<1>6. TypeInv'
  BY <1>1, <1>2, <1>3, <1>5 DEF TypeInv
<1>7. IntervalOK' /\ CarryStops'
  BY <1>1, <1>3, <1>4, <1>5 DEF IntervalOK, CarryStops
<1> QED
  BY <1>6, <1>7 DEF CoderInv

(* The steps between encoding and decoding, and the ends.                  *)
LEMMA PhaseSteps ==
    ASSUME CoderInv, Finish \/ Handover \/ Truncated \/ DecodeEnds
    PROVE  CoderInv'
<1>1. UNCHANGED <<bits, low, cache, cacheSize, output, code, position, decoded>>
  BY DEF Finish, Handover, Truncated, DecodeEnds, encoderVars, decoderVars
<1>2. /\ range' \in 1..(Full - 1) /\ probability' \in [{0, 1} -> 1..(One - 1)]
  <2>1. EvenOdds \in [{0, 1} -> 1..(One - 1)]
    <3>1. One \div 2 \in 1..(One - 1)
      BY CoderAssumption
    <3> QED
      BY <3>1 DEF EvenOdds
  <2>2. Full - 1 \in 1..(Full - 1)
    <3>1. Full \in Nat /\ Full >= 2
      BY FullSize, CoderAssumption
    <3> QED
      BY <3>1
  <2>3. range \in 1..(Full - 1) /\ probability \in [{0, 1} -> 1..(One - 1)]
    BY DEF CoderInv, TypeInv
  <2>4. CASE Handover
    BY <2>1, <2>2, <2>4 DEF Handover
  <2>5. CASE Finish \/ Truncated \/ DecodeEnds
    BY <2>3, <2>5 DEF Finish, Truncated, DecodeEnds
  <2> QED
    BY <2>4, <2>5
<1>3. phase' \in {"flush", "start", "done", "rejected"} /\ (phase' = "flush" => phase = "encode")
  BY DEF Finish, Handover, Truncated, DecodeEnds
<1>4. TypeInv'
  BY <1>1, <1>2, <1>3 DEF CoderInv, TypeInv
<1>5. IntervalOK' /\ CarryStops'
  BY <1>1, <1>3 DEF CoderInv, IntervalOK, CarryStops
<1> QED
  BY <1>4, <1>5 DEF CoderInv

(* A byte moves into the decoder's register.                               *)
LEMMA ReadByteFits ==
    ASSUME TypeInv, ReadByte
    PROVE  code' \in 0..(Full - 1) /\ position' \in Nat
<1> DEFINE x == code % Top
           byte == output[position + 1]
<1>1. /\ Base \in Nat /\ Base >= 2 /\ Top \in Nat /\ Top >= 2 /\ Full = Base * Top
      /\ code \in Nat
  BY FullSize, CoderAssumption DEF TypeInv
<1>2. x \in 0..(Top - 1)
  BY <1>1, Division
<1>3. byte \in 0..(Base - 1) /\ position' \in Nat
  <2>1. /\ position \in Nat /\ output \in Seq(0..(Base - 1))
        /\ position < Len(output) /\ position' = position + 1
    BY DEF TypeInv, ReadByte
  <2>2. position + 1 \in 1..Len(output)
    BY <2>1
  <2>3. byte \in 0..(Base - 1)
    <3> HIDE DEF byte
    <3> DEFINE Byte == 0..(Base - 1)
    <3>1. output \in Seq(Byte)
      BY <2>1
    <3> HIDE DEF Byte
    <3>2. output[position + 1] \in Byte
      BY <3>1, <2>1, <2>2
    <3> QED
      BY <3>2 DEF Byte, byte
  <2> QED
    BY <2>1, <2>3
<1>4. code' = x * Base + byte
  BY DEF ReadByte
<1> HIDE DEF x, byte
<1>5. x * Base <= (Top - 1) * Base /\ x * Base \in Nat
  BY <1>1, <1>2
<1>6. (Top - 1) * Base = Base * Top - Base
  BY <1>1
<1> QED
  BY <1>1, <1>3, <1>4, <1>5, <1>6

(* The decoder's steps leave the encoder alone.                            *)
LEMMA DecoderSteps ==
    ASSUME CoderInv, Start \/ DecodeBit \/ Refill
    PROVE  CoderInv'
<1>1. UNCHANGED <<bits, low, cache, cacheSize, output>> /\ TypeInv
  BY DEF Start, DecodeBit, Refill, encoderVars, CoderInv
<1>2. phase' \in {"start", "decode"}
  BY DEF Start, DecodeBit, Refill
<1>3. IntervalOK' /\ CarryStops'
  BY <1>2 DEF IntervalOK, CarryStops
<1>4. CASE Start
  <2>1. code' \in 0..(Full - 1) /\ position' \in Nat
    BY <1>1, <1>4, ReadByteFits DEF Start
  <2>2. UNCHANGED <<probability, range, decoded>>
    BY <1>4 DEF Start
  <2>3. TypeInv'
    BY <1>1, <1>2, <2>1, <2>2 DEF TypeInv
  <2> QED
    BY <2>3, <1>3 DEF CoderInv
<1>5. CASE DecodeBit
  <2> DEFINE context == Context(decoded)
             bound == Bound(context)
             bit == IF code < bound THEN 0 ELSE 1
  <2>1. context \in {0, 1}
    BY <1>1, ContextIsBit DEF TypeInv
  <2>2. bound \in 1..(range - 1)
    BY <1>1, <1>5, <2>1, BoundInside DEF DecodeBit
  <2>3. probability' \in [{0, 1} -> 1..(One - 1)]
    BY <1>1, <1>5, <2>1, AdaptStays DEF DecodeBit
  <2>4. decoded' \in Seq({0, 1})
    BY <1>1, <1>5 DEF DecodeBit, TypeInv
  <2>5. \/ range' = bound /\ code' = code
        \/ code >= bound /\ range' = range - bound /\ code' = code - bound
    <3>1. CASE bit = 0
      BY <1>5, <3>1 DEF DecodeBit
    <3>2. CASE bit # 0
      <4>1. ~(code < bound)
        BY <3>2
      <4>2. code \in Nat /\ bound \in Nat
        BY <1>1, <2>2 DEF TypeInv
      <4> QED
        BY <1>5, <3>2, <4>1, <4>2 DEF DecodeBit
    <3> QED
      BY <3>1, <3>2
  <2>6. UNCHANGED position
    BY <1>5 DEF DecodeBit
  <2> HIDE DEF bound, bit, context
  <2>7. range \in 1..(Full - 1) /\ code \in 0..(Full - 1) /\ Full \in Nat
    BY <1>1, FullSize DEF TypeInv
  <2>8. range' \in 1..(Full - 1) /\ code' \in 0..(Full - 1)
    BY <2>2, <2>5, <2>7
  <2>9. TypeInv'
    BY <1>1, <1>2, <2>3, <2>4, <2>6, <2>8 DEF TypeInv
  <2> QED
    BY <2>9, <1>3 DEF CoderInv
<1>6. CASE Refill
  <2>1. code' \in 0..(Full - 1) /\ position' \in Nat
    BY <1>1, <1>6, ReadByteFits DEF Refill
  <2>2. UNCHANGED <<probability, decoded>> /\ range' = range * Base /\ range < Top
    BY <1>6 DEF Refill
  <2>3. range' \in 1..(Full - 1)
    <3>1. range \in 1..(Top - 1) /\ Base \in Nat /\ Base >= 2 /\ Top \in Nat /\ Full = Base * Top
      BY <1>1, <2>2, FullSize, CoderAssumption DEF TypeInv
    <3>2. range * Base <= (Top - 1) * Base /\ range * Base >= 1 * Base
      BY <3>1
    <3>3. (Top - 1) * Base = Base * Top - Base
      BY <3>1
    <3> QED
      BY <2>2, <3>1, <3>2, <3>3
  <2>4. TypeInv'
    BY <1>1, <1>2, <2>1, <2>2, <2>3 DEF TypeInv
  <2> QED
    BY <2>4, <1>3 DEF CoderInv
<1> QED
  BY <1>4, <1>5, <1>6

(* The interval moves up by the part that is left out: nothing is shifted. *)
LEMMA EncodeExact ==
    ASSUME CoderInv, CarryExact, NEW bit \in {0, 1}, EncodeBit(bit)
    PROVE  CarryExact'
<1> DEFINE bound == Bound(Context(bits))
<1>1. TypeInv /\ phase = "encode" /\ range >= Top
  BY DEF CoderInv, EncodeBit
<1>2. bound \in 1..(range - 1)
  BY <1>1, ContextIsBit, BoundInside DEF TypeInv
<1>3. \/ low' = low /\ exact' = exact
      \/ low' = low + bound /\ exact' = exact + bound
  BY DEF EncodeBit
<1>4. Value(output' \o Held') = Value(output \o Held)
  BY DEF EncodeBit, Held
<1>5. Value(output \o Held) * Full \in Nat
  <2>1. Value(output \o Held) \in Nat /\ Full \in Nat
    BY <1>1, HeldBytes, ValueIsNat, FullSize
  <2> QED
    BY <2>1
<1>6. Value(output \o Held) * Full + low = exact
  BY <1>1 DEF CarryExact
<1>7. low \in Nat /\ bound \in Nat
  BY <1>1, <1>2, FullSize DEF TypeInv
<1> DEFINE sum == Value(output \o Held) * Full
<1> HIDE DEF bound, sum
<1>8. sum + low' = exact'
  <2>1. sum \in Nat /\ sum + low = exact
    BY <1>5, <1>6 DEF sum
  <2> QED
    BY <1>3, <1>7, <2>1
<1> QED
  BY <1>4, <1>8 DEF CarryExact, sum

(* The arithmetic of a shift: v is what was output, c the carry, d the     *)
(* digit and x what is left of the register.                               *)
LEMMA ShiftedSum ==
    ASSUME NEW v \in Nat, NEW c \in Nat, NEW d \in Nat, NEW x \in Nat
    PROVE  ((v + c) * Base + d) * Full + x * Base
             = (v * Full + (Top * (Base * c + d) + x)) * Base
<1>1. Base \in Nat /\ Top \in Nat /\ Full \in Nat /\ Full = Base * Top
  BY FullSize, CoderAssumption
<1>2. ((v + c) * Base + d) * Full = v * Base * Full + c * Base * Full + d * Full
  BY <1>1
<1>3. (v * Full + (Top * (Base * c + d) + x)) * Base
        = v * Full * Base + (Top * (Base * c + d)) * Base + x * Base
  BY <1>1
<1>4. (Top * (Base * c + d)) * Base = c * Base * (Base * Top) + d * (Base * Top)
  BY <1>1
<1>5. v * Full * Base = v * Base * Full
  BY <1>1
<1>6. (Top * (Base * c + d)) * Base = c * Base * Full + d * Full
  BY <1>1, <1>4
<1>7. /\ v * Base * Full \in Nat /\ c * Base * Full \in Nat
      /\ d * Full \in Nat /\ x * Base \in Nat
  BY <1>1
<1> DEFINE a == v * Base * Full
           b == c * Base * Full
           e == d * Full
           f == x * Base
           left == ((v + c) * Base + d) * Full
           right == (v * Full + (Top * (Base * c + d) + x)) * Base
<1>8. left = a + b + e
  BY <1>2
<1>9. right = a + (b + e) + f
  BY <1>3, <1>5, <1>6
<1>10. a \in Nat /\ b \in Nat /\ e \in Nat /\ f \in Nat
  BY <1>7
<1> SUFFICES left + f = right
  OBVIOUS
<1> HIDE DEF a, b, e, f, left, right
<1> QED
  BY <1>8, <1>9, <1>10

(* A shift multiplies all of what was output, held back and kept.          *)
LEMMA ShiftedWhole ==
    ASSUME TypeInv, ShiftLow, low >= Full => cache < Base - 1
    PROVE  /\ Value(output \o Held) * Full + low \in Nat
           /\ Value(output' \o Held') * Full + low' = (Value(output \o Held) * Full + low) * Base
<1> DEFINE v == Value(output \o Held)
           x == low % Top
<1>1. v \in Nat
  BY HeldBytes, ValueIsNat
<1>2. x \in Nat /\ Digit \in Nat /\ Carry \in Nat /\ low = Top * (Base * Carry + Digit) + x
  BY Digits DEF TypeInv
<1>3. Value(output' \o Held') = (v + Carry) * Base + Digit
  BY ShiftedValue
<1>4. low' = x * Base
  BY DEF ShiftLow
<1>5. low \in Nat /\ Full \in Nat
  BY FullSize DEF TypeInv
<1> HIDE DEF v, x
<1>6. ((v + Carry) * Base + Digit) * Full + x * Base
        = (v * Full + (Top * (Base * Carry + Digit) + x)) * Base
  BY <1>1, <1>2, ShiftedSum
<1>7. v * Full + low \in Nat
  BY <1>1, <1>5
<1> QED
  BY <1>2, <1>3, <1>4, <1>6, <1>7 DEF v

(* A shift of the interval multiplies all of it.                           *)
LEMMA NormaliseExact ==
    ASSUME CoderInv, CarryExact, Normalise
    PROVE  CarryExact'
<1>1. TypeInv /\ phase = "encode" /\ ShiftLow /\ exact' = exact * Base
      /\ (low >= Full => cache < Base - 1)
  BY DEF CoderInv, CarryStops, Normalise
<1>2. Value(output \o Held) * Full + low = exact
  BY <1>1 DEF CarryExact
<1>3. Value(output' \o Held') * Full + low' = exact'
  BY <1>1, <1>2, ShiftedWhole
<1> QED
  BY <1>3 DEF CarryExact

(* No other step encodes.                                                  *)
LEMMA NextExact == CoderInv /\ CarryExact /\ [Next]_vars => CarryExact'
<1> SUFFICES ASSUME CoderInv, CarryExact, [Next]_vars PROVE CarryExact'
  OBVIOUS
<1>1. ASSUME NEW bit \in {0, 1}, EncodeBit(bit) PROVE CarryExact'
  BY <1>1, EncodeExact
<1>2. CASE Normalise
  BY <1>2, NormaliseExact
<1>3. CASE Flush \/ Finish \/ Handover \/ Truncated \/ DecodeEnds \/ Start \/ DecodeBit \/ Refill
  <2>1. phase' # "encode"
    BY <1>3 DEF Flush, Finish, Handover, Truncated, DecodeEnds, Start, DecodeBit, Refill
  <2> QED
    BY <2>1 DEF CarryExact
<1>4. CASE UNCHANGED vars
  BY <1>4 DEF CarryExact, Held, vars, encoderVars, decoderVars
<1> QED
  BY <1>1, <1>2, <1>3, <1>4 DEF Next, Stopped

(* Nothing was output and a zero waits.                                    *)
LEMMA InitExact == Init => CarryExact
<1> SUFFICES ASSUME Init, phase = "encode" PROVE Value(output \o Held) * Full + low = exact
  BY DEF CarryExact
<1>1. output = <<>> /\ cache = 0 /\ cacheSize = 1 /\ low = 0 /\ exact = 0
  BY DEF Init
<1>2. Held = Append(<<>>, 0)
  BY <1>1 DEF Held
<1>3. output \o Held = Append(<<>>, 0) /\ <<>> \in Seq(Nat)
  BY <1>1, <1>2
<1>4. Value(Append(<<>>, 0)) = 0
  <2>1. Value(Append(<<>>, 0)) = Value(<<>>) * Base + 0
    BY <1>3, ValueAppend
  <2> QED
    BY <2>1, ValueEmpty, CoderAssumption
<1>5. 0 * Full + 0 = 0
  BY FullSize
<1> QED
  BY <1>1, <1>3, <1>4, <1>5

(* Every step keeps the invariant.                                         *)
LEMMA NextCoderInv == CoderInv /\ [Next]_vars => CoderInv'
<1> SUFFICES ASSUME CoderInv, [Next]_vars PROVE CoderInv'
  OBVIOUS
<1>1. ASSUME NEW bit \in {0, 1}, EncodeBit(bit) PROVE CoderInv'
  BY <1>1, EncodeStep
<1>2. CASE Normalise
  BY <1>2, NormaliseStep
<1>3. CASE Flush
  BY <1>3, FlushStep
<1>4. CASE Finish \/ Handover \/ Truncated \/ DecodeEnds
  BY <1>4, PhaseSteps
<1>5. CASE Start \/ DecodeBit \/ Refill
  BY <1>5, DecoderSteps
<1>6. CASE UNCHANGED vars
  BY <1>6 DEF CoderInv, TypeInv, IntervalOK, CarryStops, vars, encoderVars, decoderVars
<1> QED
  BY <1>1, <1>2, <1>3, <1>4, <1>5, <1>6 DEF Next, Stopped

(* The registers keep their types and the interval its bounds.             *)
THEOREM CoderInvariance == Spec => []CoderInv
BY InitCoderInv, NextCoderInv, PTL DEF Spec

-----------------------------------------------------------------------------
(* What the decoder is to find                                             *)

(* What the encoder was between two of its steps: the bits coded, the      *)
(* interval without ever dropping a digit, and the shifts so far.          *)
Milestone ==
    [coded : Nat, range : 1..(Full - 1), exact : Nat,
     probability : [{0, 1} -> 1..(One - 1)], shifts : Nat]

ContextAt(s, n) == IF n = 0 THEN 0 ELSE s[n]

Share(a, context) == (a.range \div One) * a.probability[context]

Adapted(odds, context, bit) ==
    [odds EXCEPT ![context] =
        IF bit = 0 THEN @ + (One - @) \div AdaptDivisor ELSE @ - @ \div AdaptDivisor]

CodesBit(s, a, b) ==
    /\ a.range >= Top /\ a.coded + 1 \in 1..Len(s)
    /\ b.coded = a.coded + 1 /\ b.shifts = a.shifts
    /\ b.probability = Adapted(a.probability, ContextAt(s, a.coded), s[a.coded + 1])
    /\ IF s[a.coded + 1] = 0
         THEN b.range = Share(a, ContextAt(s, a.coded)) /\ b.exact = a.exact
         ELSE /\ b.range = a.range - Share(a, ContextAt(s, a.coded))
              /\ b.exact = a.exact + Share(a, ContextAt(s, a.coded))

Shifts(a, b) ==
    /\ a.range < Top
    /\ b.coded = a.coded /\ b.shifts = a.shifts + 1 /\ b.probability = a.probability
    /\ b.range = a.range * Base /\ b.exact = a.exact * Base

Beginning ==
    [coded |-> 0, range |-> Full - 1, exact |-> 0, probability |-> EvenOdds, shifts |-> 0]

(* h leads in k steps from the beginning to where the bits s are coded.    *)
Trace(h, k, s) ==
    /\ h \in [0..k -> Milestone]
    /\ h[0] = Beginning
    /\ \A j \in 1..k : CodesBit(s, h[j - 1], h[j]) \/ Shifts(h[j - 1], h[j])

-----------------------------------------------------------------------------
(* Where the payload lies                                                  *)

(* The payload o, whose first bytes spell t, spells the lower end of the   *)
(* last interval of h.                                                     *)
Hits(h, k, s, t, o) ==
    /\ Trace(h, k, s)
    /\ Spells(t, o, Len(o))
    /\ Len(o) = FlushCount + h[k].shifts
    /\ t[Len(o)] = h[k].exact

(* Its bytes up to those a step has seen spell a number of its interval.   *)
Inside(h, k, t, j) ==
    /\ h[j].shifts <= h[k].shifts
    /\ h[j].exact <= t[FlushCount + h[j].shifts]
    /\ t[FlushCount + h[j].shifts] < h[j].exact + h[j].range

(* Its parts are numbers.                                                  *)
LEMMA MilestoneNumbers ==
    ASSUME NEW m \in Milestone
    PROVE  /\ m.coded \in Nat /\ m.exact \in Nat /\ m.shifts \in Nat
           /\ m.range \in Nat /\ m.range >= 1 /\ m.range < Full
           /\ m.probability \in [{0, 1} -> 1..(One - 1)]
<1>1. /\ m.coded \in Nat /\ m.exact \in Nat /\ m.shifts \in Nat
      /\ m.range \in 1..(Full - 1) /\ m.probability \in [{0, 1} -> 1..(One - 1)]
  BY DEF Milestone
<1>2. Full \in Nat
  BY FullSize
<1> QED
  BY <1>1, <1>2

(* A bit's part of an interval is inside of it.                            *)
LEMMA PartInside ==
    ASSUME NEW s \in Seq({0, 1}), NEW a \in Milestone, NEW b \in Milestone, CodesBit(s, a, b)
    PROVE  /\ a.exact <= b.exact /\ b.exact + b.range <= a.exact + a.range
           /\ Share(a, ContextAt(s, a.coded)) \in 1..(a.range - 1)
<1> DEFINE context == ContextAt(s, a.coded)
<1>1. /\ a.range \in Nat /\ a.exact \in Nat /\ b.exact \in Nat /\ a.coded \in Nat
      /\ a.probability \in [{0, 1} -> 1..(One - 1)] /\ a.range >= Top
      /\ a.coded + 1 \in 1..Len(s) /\ b.range \in Nat
  BY MilestoneNumbers DEF CodesBit
<1>2. context \in {0, 1}
  <2>1. CASE a.coded = 0
    BY <2>1 DEF ContextAt
  <2>2. CASE a.coded # 0
    <3>1. a.coded \in 1..Len(s)
      BY <1>1, <2>2
    <3> QED
      BY <2>2, <3>1 DEF ContextAt
  <2> QED
    BY <2>1, <2>2
<1> HIDE DEF context
<1>3. a.probability[context] \in 1..(One - 1) /\ a.range \in Nat /\ a.range >= One
  <2>1. a.probability[context] \in 1..(One - 1)
    BY <1>1, <1>2
  <2>2. a.range >= One
    BY <1>1, CoderAssumption
  <2> QED
    BY <1>1, <2>1, <2>2
<1>4. Share(a, context) \in 1..(a.range - 1)
  BY <1>3, ShareInside DEF Share
<1>5. \/ b.range = Share(a, context) /\ b.exact = a.exact
      \/ b.range = a.range - Share(a, context) /\ b.exact = a.exact + Share(a, context)
  BY DEF CodesBit, context
<1>6. a.exact <= b.exact /\ b.exact + b.range <= a.exact + a.range
  BY <1>1, <1>3, <1>4, <1>5
<1> QED
  BY <1>4, <1>6 DEF context

(* A byte more is a digit less: what is inside of an interval's multiple   *)
(* begins inside of it.                                                    *)
LEMMA DigitLess ==
    ASSUME NEW e \in Nat, NEW r \in Nat, NEW p \in Nat, NEW d \in 0..(Base - 1),
           e * Base <= p * Base + d, p * Base + d < e * Base + r * Base
    PROVE  e <= p /\ p < e + r
<1>1. Base \in Nat /\ Base >= 2
  BY CoderAssumption
<1>2. ASSUME e >= p + 1 PROVE FALSE
  <2>1. Base * e >= Base * p + Base
    BY <1>1, <1>2, Multiple
  <2>2. Base * e = e * Base /\ Base * p = p * Base /\ p * Base \in Nat /\ e * Base \in Nat
    BY <1>1
  <2> QED
    BY <1>1, <2>1, <2>2
<1>3. ASSUME p >= e + r PROVE FALSE
  <2>1. p * Base >= (e + r) * Base
    <3>1. CASE p = e + r
      BY <1>1, <3>1
    <3>2. CASE p >= (e + r) + 1
      <4>1. Base * p >= Base * (e + r) + Base
        BY <1>1, <3>2, Multiple
      <4>2. Base * p = p * Base /\ Base * (e + r) = (e + r) * Base
            /\ p * Base \in Nat /\ (e + r) * Base \in Nat
        BY <1>1
      <4> QED
        BY <1>1, <4>1, <4>2
    <3> QED
      BY <1>3, <3>1, <3>2
  <2>2. (e + r) * Base = e * Base + r * Base /\ p * Base \in Nat /\ e * Base \in Nat /\ r * Base \in Nat
    BY <1>1
  <2> QED
    BY <1>1, <2>1, <2>2
<1> QED
  BY <1>2, <1>3

(* So it is at every step.                                                 *)
LEMMA AlwaysInside ==
    ASSUME NEW k \in Nat, NEW h, NEW s \in Seq({0, 1}), NEW t, NEW o \in Seq(0..(Base - 1)),
           Hits(h, k, s, t, o)
    PROVE  \A j \in 0..k : Inside(h, k, t, j)
<1> DEFINE T == {d \in 0..k : ~Inside(h, k, t, k - d)}
<1>1. ASSUME T # {} PROVE FALSE
  <2>0. T \subseteq Nat
    OBVIOUS
  <2>1. PICK d \in T : \A i \in T : d <= i
    <3> HIDE DEF T
    <3> QED
      BY <1>1, <2>0, Least
  <2>2. d \in 0..k /\ ~Inside(h, k, t, k - d) /\ k \in 0..k
    BY <2>1
  <2>3. d # 0
    <3>1. h[k] \in Milestone /\ t[Len(o)] = h[k].exact /\ Len(o) = FlushCount + h[k].shifts
      BY <2>2 DEF Hits, Trace
    <3>2. h[k].range \in Nat /\ h[k].range >= 1 /\ h[k].exact \in Nat /\ h[k].shifts \in Nat
      BY <3>1, FullSize DEF Milestone
    <3>3. Inside(h, k, t, k)
      BY <3>1, <3>2 DEF Inside
    <3>4. k - 0 = k
      OBVIOUS
    <3> QED
      BY <2>2, <3>3, <3>4
  <2> DEFINE j == k - d
  <2>4. j \in 0..k /\ j + 1 \in 1..k /\ j + 1 \in 0..k /\ j + 1 = k - (d - 1) /\ d - 1 \in 0..k
        /\ ~(d <= d - 1) /\ (j + 1) - 1 = j
    BY <2>2, <2>3
  <2>5. Inside(h, k, t, j + 1)
    <3>1. d - 1 \notin T
      BY <2>1, <2>4
    <3> QED
      BY <2>4, <3>1
  <2>6. ~Inside(h, k, t, j)
    BY <2>2
  <2> HIDE DEF j, T
  <2>7. h[j] \in Milestone /\ h[j + 1] \in Milestone /\ h[k] \in Milestone
        /\ (CodesBit(s, h[j], h[j + 1]) \/ Shifts(h[j], h[j + 1]))
    BY <2>2, <2>4 DEF Hits, Trace
  <2> DEFINE a == h[j]
             b == h[j + 1]
             n == FlushCount + a.shifts
  <2>8. /\ a.range \in Nat /\ a.exact \in Nat /\ a.shifts \in Nat /\ a.range >= 1
        /\ b.range \in Nat /\ b.exact \in Nat /\ b.shifts \in Nat
        /\ h[k].shifts \in Nat /\ FlushCount \in Nat
    <3>1. FlushCount \in Nat
      BY BoundAssumption
    <3> QED
      BY <2>7, <3>1, MilestoneNumbers
  <2>9. /\ b.shifts <= h[k].shifts /\ b.exact <= t[FlushCount + b.shifts]
        /\ t[FlushCount + b.shifts] < b.exact + b.range
    BY <2>5 DEF Inside
  <2>10. CASE CodesBit(s, a, b)
    <3>1. a.exact <= b.exact /\ b.exact + b.range <= a.exact + a.range /\ b.shifts = a.shifts
      BY <2>7, <2>10, PartInside DEF CodesBit
    <3>2. t[n] \in Nat
      <4>1. Len(o) = FlushCount + h[k].shifts /\ a.shifts <= h[k].shifts
        BY <2>9, <3>1 DEF Hits
      <4>2. a.shifts \in Nat /\ FlushCount \in Nat /\ h[k].shifts \in Nat
        BY <2>8
      <4> DEFINE u == a.shifts
                 v == h[k].shifts
      <4> HIDE DEF u, v
      <4>3. FlushCount + u \in 0..(FlushCount + v)
        <5>1. u \in Nat /\ v \in Nat /\ FlushCount \in Nat /\ u <= v
          BY <4>1, <4>2 DEF u, v
        <5> QED
          BY ONLY <5>1
      <4>4. n \in 0..Len(o)
        BY <4>1, <4>3 DEF u, v
      <4> QED
        BY <4>4 DEF Hits, Spells
    <3>3. a.exact <= t[n] /\ t[n] < a.exact + a.range /\ a.shifts <= h[k].shifts
      <4> DEFINE x == t[n]
      <4>1. b.exact <= x /\ x < b.exact + b.range /\ x \in Nat /\ a.shifts <= h[k].shifts
        BY <2>9, <3>1, <3>2
      <4> HIDE DEF x, a, b
      <4>2. /\ a.exact \in Nat /\ a.range \in Nat /\ b.exact \in Nat /\ b.range \in Nat /\ x \in Nat
            /\ a.exact <= b.exact /\ b.exact + b.range <= a.exact + a.range
            /\ b.exact <= x /\ x < b.exact + b.range
        BY <2>8, <3>1, <4>1
      <4>3. a.exact <= x /\ x < a.exact + a.range
        BY ONLY <4>2
      <4> QED
        BY <4>1, <4>3 DEF x
    <3> QED
      BY <2>6, <3>3 DEF Inside
  <2>11. CASE Shifts(a, b)
    <3>1. /\ b.shifts = a.shifts + 1 /\ b.range = a.range * Base /\ b.exact = a.exact * Base
      BY <2>11 DEF Shifts
    <3>2. n \in 0..Len(o) /\ n + 1 \in 1..Len(o) /\ FlushCount + b.shifts = n + 1 /\ (n + 1) - 1 = n
      <4>1. Len(o) = FlushCount + h[k].shifts /\ a.shifts + 1 <= h[k].shifts
        BY <2>9, <3>1 DEF Hits
      <4>2. FlushCount + b.shifts = FlushCount + (a.shifts + 1)
        BY <3>1
      <4>3. /\ a.shifts \in Nat /\ FlushCount \in Nat /\ h[k].shifts \in Nat
        BY <2>8
      <4> DEFINE u == a.shifts
                 v == h[k].shifts
                 w == b.shifts
      <4> HIDE DEF u, v, w
      <4>4. FlushCount + u \in 0..(FlushCount + v) /\ (FlushCount + u) + 1 \in 1..(FlushCount + v)
            /\ (FlushCount + u) + 1 = FlushCount + (u + 1) /\ ((FlushCount + u) + 1) - 1 = FlushCount + u
        <5>1. u \in Nat /\ v \in Nat /\ FlushCount \in Nat /\ u + 1 <= v
          BY <4>1, <4>3 DEF u, v
        <5> QED
          BY ONLY <5>1
      <4> QED
        BY <4>1, <4>2, <4>4 DEF u, v, w
    <3>3. t[n] \in Nat /\ t[n + 1] = t[n] * Base + o[n + 1]
      BY <3>2 DEF Hits, Spells
    <3>4. o[n + 1] \in 0..(Base - 1)
      <4> DEFINE Byte == 0..(Base - 1)
      <4>1. o \in Seq(Byte)
        OBVIOUS
      <4> HIDE DEF Byte
      <4>2. o[n + 1] \in Byte
        BY <4>1, <3>2
      <4> QED
        BY <4>2 DEF Byte
    <3> DEFINE p == t[n]
               d1 == o[n + 1]
    <3>5. a.exact * Base <= p * Base + d1 /\ p * Base + d1 < a.exact * Base + a.range * Base
      BY <2>9, <3>1, <3>2, <3>3
    <3>6. p \in Nat /\ d1 \in 0..(Base - 1)
      BY <3>3, <3>4
    <3>7. a.exact \in Nat /\ a.range \in Nat
      BY <2>8
    <3>8. a.exact <= p /\ p < a.exact + a.range
      <4> HIDE DEF a, p, d1
      <4> QED
        BY <3>5, <3>6, <3>7, DigitLess
    <3>9. a.shifts <= h[k].shifts
      BY <2>8, <2>9, <3>1
    <3> QED
      BY <2>6, <3>8, <3>9 DEF Inside
  <2> QED
    BY <2>7, <2>10, <2>11
<1>2. \A j \in 0..k : k - j \in 0..k /\ k - (k - j) = j
  OBVIOUS
<1>3. ASSUME NEW j \in 0..k PROVE Inside(h, k, t, j)
  <2>1. k - j \notin T
    BY <1>1
  <2> QED
    BY <1>2, <2>1
<1> QED
  BY <1>3

-----------------------------------------------------------------------------
(* What finish leaves                                                      *)

(* No other remainder than the one.                                        *)
LEMMA RemainderUnique ==
    ASSUME NEW n \in Nat, NEW d \in Nat, d > 0, NEW a \in Nat, NEW x \in 0..(d - 1), n = d * a + x
    PROVE  n % d = x
<1> DEFINE q == n \div d
           y == n % d
<1>1. q \in Nat /\ y \in 0..(d - 1) /\ n = d * q + y
  BY Division
<1> HIDE DEF q, y
<1>2. d * q \in Nat /\ d * a \in Nat
  BY <1>1
<1>3. ASSUME q >= a + 1 PROVE FALSE
  <2>1. d * q >= d * a + d
    BY <1>1, <1>3, Multiple
  <2> QED
    BY <1>1, <1>2, <2>1
<1>4. ASSUME a >= q + 1 PROVE FALSE
  <2>1. d * a >= d * q + d
    BY <1>1, <1>4, Multiple
  <2> QED
    BY <1>1, <1>2, <2>1
<1>5. q = a
  BY <1>1, <1>3, <1>4
<1>6. y = x
  BY <1>1, <1>2, <1>5
<1> QED
  BY <1>6 DEF y

(* Products of equals by the same are of equals.                           *)
LEMMA Cancelled ==
    ASSUME NEW a \in Nat, NEW b \in Nat, NEW f \in Nat, f > 0, f * a = f * b
    PROVE  a = b
<1>1. f * a \in Nat /\ f * b \in Nat
  OBVIOUS
<1>2. ASSUME a >= b + 1 PROVE FALSE
  BY <1>1, <1>2, Multiple
<1>3. ASSUME b >= a + 1 PROVE FALSE
  BY <1>1, <1>3, Multiple
<1> QED
  BY <1>2, <1>3

(* Powers begin at one and grow by a factor of Base.                       *)
LEMMA Powers ==
    /\ Power(0) = 1
    /\ \A n \in Nat : Power(n) \in Nat /\ Power(n + 1) = Power(n) * Base
<1> DEFINE Digits10(n) == [i \in 1..(n + 1) |-> IF i = 1 THEN 1 ELSE 0]
<1>1. ASSUME NEW n \in Nat PROVE Digits10(n) \in Seq(Nat)
  OBVIOUS
<1>2. Power(0) = 1
  <2>1. Digits10(0) = Append(<<>>, 1)
    OBVIOUS
  <2>2. Value(Append(<<>>, 1)) = Value(<<>>) * Base + 1
    <3>1. <<>> \in Seq(Nat)
      OBVIOUS
    <3> QED
      BY <3>1, ValueAppend
  <2>3. 0 * Base + 1 = 1
    BY CoderAssumption
  <2> QED
    BY <2>1, <2>2, <2>3, ValueEmpty DEF Power
<1>3. ASSUME NEW n \in Nat PROVE Power(n) \in Nat /\ Power(n + 1) = Power(n) * Base
  <2>1. Digits10(n + 1) = Append(Digits10(n), 0)
    OBVIOUS
  <2>2. Power(n) = Value(Digits10(n)) /\ Power(n + 1) = Value(Digits10(n + 1))
    BY DEF Power
  <2>3. Digits10(n) \in Seq(Nat)
    BY <1>1
  <2> DEFINE z == Digits10(n)
  <2> HIDE DEF z
  <2>4. z \in Seq(Nat) /\ Power(n) = Value(z) /\ Power(n + 1) = Value(Append(z, 0))
    BY <2>1, <2>2, <2>3 DEF z
  <2>5. Value(z) \in Nat
    BY <2>4, ValueIsNat
  <2>6. Value(Append(z, 0)) = Value(z) * Base + 0
    BY <2>4, ValueAppend
  <2>7. Value(z) * Base + 0 = Value(z) * Base
    BY <2>5, OneMore
  <2> QED
    BY <2>4, <2>5, <2>6, <2>7
<1> QED
  BY <1>2, <1>3

(* The powers below a register's highest byte divide it.                   *)
LEMMA PowersDivide ==
    ASSUME NEW f \in 0..(FlushCount - 2)
    PROVE  \E r \in Nat : r > 0 /\ Top = Power(f) * r
<1>0. FlushCount \in Nat /\ FlushCount >= 2 /\ Base \in Nat /\ Base >= 2 /\ Top \in Nat /\ Top >= 2
      /\ Top = Power(FlushCount - 2)
  BY BoundAssumption, FlushAssumption, CoderAssumption, FullSize
<1> DEFINE last == FlushCount - 2
           Divided(n) == \E r \in Nat : Top = Power(n) * r
           T == {d \in 0..last : ~Divided(last - d)}
<1>1. ASSUME T # {} PROVE FALSE
  <2>0. T \subseteq Nat
    BY <1>0
  <2>1. PICK d \in T : \A i \in T : d <= i
    <3> HIDE DEF T
    <3> QED
      BY <1>1, <2>0, Least
  <2>2. d \in 0..last /\ ~Divided(last - d) /\ last \in Nat
    BY <1>0, <2>1
  <2>3. d # 0
    <3>1. Top = Power(last) * 1
      BY <1>0
    <3>2. Divided(last) /\ last - 0 = last
      BY <1>0, <3>1
    <3> QED
      BY <2>2, <3>2
  <2> DEFINE n == last - d
  <2>4. n \in Nat /\ n + 1 = last - (d - 1) /\ d - 1 \in 0..last /\ ~(d <= d - 1)
    BY <1>0, <2>2, <2>3
  <2>5. Divided(n + 1)
    <3>1. d - 1 \notin T
      BY <2>1, <2>4
    <3> QED
      BY <2>4, <3>1
  <2>6. PICK r \in Nat : Top = Power(n + 1) * r
    BY <2>5
  <2> HIDE DEF n
  <2>7. Power(n) \in Nat /\ Power(n + 1) = Power(n) * Base
    BY <2>4, Powers
  <2>8. Top = Power(n) * (Base * r) /\ Base * r \in Nat
    <3> DEFINE p == Power(n)
    <3> HIDE DEF p
    <3>1. p \in Nat /\ Top = (p * Base) * r
      BY <2>6, <2>7 DEF p
    <3>2. (p * Base) * r = p * (Base * r) /\ Base * r \in Nat
      BY <1>0, <3>1
    <3> QED
      BY <3>1, <3>2 DEF p
  <2> QED
    BY <2>2, <2>8 DEF n
<1>2. last - f \in 0..last /\ last - (last - f) = f
  BY <1>0
<1>3. PICK r \in Nat : Top = Power(f) * r
  <2>1. last - f \notin T
    BY <1>1
  <2> QED
    BY <1>2, <2>1
<1>4. r # 0
  <2>1. Power(f) \in Nat
    BY <1>0, Powers
  <2>2. Power(f) * 0 = 0
    BY <2>1
  <2> QED
    BY <1>0, <1>3, <2>2
<1> QED
  BY <1>3, <1>4

(* A shift of a register of which the last f bytes are zero.               *)
LEMMA ShiftedZeros ==
    ASSUME NEW l \in Nat, NEW f \in 0..(FlushCount - 1), NEW q \in Nat, l = Power(f) * q,
           f = FlushCount - 1 => l = 0
    PROVE  \E z \in Nat : (l % Top) * Base = Power(f + 1) * z
<1>0. /\ FlushCount \in Nat /\ FlushCount >= 2 /\ Base \in Nat /\ Base >= 2
      /\ Top \in Nat /\ Top > 0 /\ f \in Nat
  BY BoundAssumption, FlushAssumption, CoderAssumption, FullSize
<1>1. Power(f) \in Nat /\ Power(f + 1) = Power(f) * Base /\ Power(f + 1) \in Nat
  <2>1. f + 1 \in Nat
    BY <1>0
  <2> QED
    BY <1>0, <2>1, Powers
<1>2. CASE f = FlushCount - 1
  <2>1. l % Top = 0
    BY <1>0, <1>2, Below
  <2>2. (l % Top) * Base = Power(f + 1) * 0
    BY <1>0, <1>1, <2>1
  <2> QED
    BY <2>2
<1>3. CASE f # FlushCount - 1
  <2>1. f \in 0..(FlushCount - 2)
    BY <1>0, <1>3
  <2>2. PICK r \in Nat : r > 0 /\ Top = Power(f) * r
    BY <2>1, PowersDivide
  <2> DEFINE p == Power(f)
             a == q \div r
             x == q % r
  <2>3. a \in Nat /\ x \in 0..(r - 1) /\ q = r * a + x
    BY <2>2, Division
  <2> HIDE DEF p, a, x
  <2>4. p \in Nat /\ Top = p * r /\ l = p * q
    BY <1>1, <2>2 DEF p
  <2>5. l = Top * a + p * x
    <3>1. p * (r * a + x) = (p * r) * a + p * x
      BY <2>2, <2>3, <2>4
    <3> QED
      BY <2>3, <2>4, <3>1
  <2>6. p * x \in 0..(Top - 1)
    <3>1. p * r >= p * x + p
      BY <2>2, <2>3, <2>4, Multiple
    <3>2. p # 0
      BY <1>0, <2>2, <2>4
    <3>3. p * x \in Nat
      BY <2>3, <2>4
    <3> QED
      BY <1>0, <2>4, <3>1, <3>2, <3>3
  <2>7. l % Top = p * x
    BY <1>0, <2>3, <2>5, <2>6, RemainderUnique
  <2>8. (p * x) * Base = (p * Base) * x /\ x \in Nat
    BY <1>0, <2>3, <2>4
  <2> QED
    BY <1>1, <2>7, <2>8 DEF p
<1> QED
  BY <1>2, <1>3

-----------------------------------------------------------------------------
(* Both sides step by step                                                 *)

Here ==
    [coded |-> Len(bits), range |-> range, exact |-> exact, probability |-> probability,
     shifts |-> Len(output) + cacheSize - 1]

(* The encoder came from the beginning to where it is.                     *)
EncodeTrace ==
    phase = "encode" => \E k \in Nat : \E h : Trace(h, k, bits) /\ h[k] = Here

(* All bits are coded, and finish only outputs what there is.              *)
FlushTrace ==
    phase = "flush" =>
        \E k \in Nat : \E h : /\ Trace(h, k, bits)
                              /\ h[k].coded = Len(bits) /\ h[k].range >= Top
                              /\ h[k].exact = exact
                              /\ Len(output) + cacheSize = 1 + h[k].shifts + flushes

FlushSum ==
    phase = "flush" =>
        /\ flushes \in 0..FlushCount
        /\ exact \in Nat
        /\ Value(output \o Held) * Full + low = exact * Power(flushes)
        /\ \E q \in Nat : low = Power(flushes) * q
        /\ flushes > 0 => low < Full
        /\ flushes = FlushCount => cacheSize = 1 /\ cache = 0 /\ low = 0

(* The decoder has not begun.                                              *)
Idle ==
    /\ phase = "encode" => flushes = 0
    /\ phase \in {"encode", "flush"} => code = 0 /\ position = 0 /\ decoded = <<>>

Complete(h, k, t) ==
    /\ Hits(h, k, bits, t, output)
    /\ h[k].coded = Len(bits) /\ h[k].range >= Top

(* The decoder is at a milestone of the encoder, and code is what the      *)
(* payload spells so far above the lower end of its interval.              *)
At(m, t) ==
    /\ range = m.range /\ probability = m.probability
    /\ Len(decoded) = m.coded /\ \A i \in 1..Len(decoded) : decoded[i] = bits[i]
    /\ position = FlushCount + m.shifts
    /\ code + m.exact = t[position]

Starting(t) ==
    /\ range = Full - 1 /\ probability = EvenOdds /\ decoded = <<>>
    /\ position < FlushCount /\ code = t[position]

DecodeTrace ==
    ~foreign /\ phase \in {"start", "decode"} =>
        \E k \in Nat : \E h, t : /\ Complete(h, k, t)
                                 /\ phase = "start" => Starting(t)
                                 /\ phase = "decode" => \E j \in 0..k : At(h[j], t)

TraceInv ==
    /\ EncodeTrace /\ FlushTrace /\ FlushSum /\ Idle /\ DecodeTrace /\ RoundTrip

-----------------------------------------------------------------------------
(* The encoder's steps                                                     *)

(* The beginning is a milestone.                                           *)
LEMMA BeginningFits == Beginning \in Milestone
<1>1. Full - 1 \in 1..(Full - 1)
  <2>1. Full \in Nat /\ Full >= 2
    BY FullSize, CoderAssumption
  <2> QED
    BY <2>1
<1>2. EvenOdds \in [{0, 1} -> 1..(One - 1)]
  <2>1. One \div 2 \in 1..(One - 1)
    BY CoderAssumption
  <2> QED
    BY <2>1 DEF EvenOdds
<1> QED
  BY <1>1, <1>2 DEF Beginning, Milestone

(* One step more.                                                          *)
LEMMA TraceExtended ==
    ASSUME NEW k \in Nat, NEW h, NEW s \in Seq({0, 1}), NEW r \in Seq({0, 1}),
           Len(s) <= Len(r), \A i \in 1..Len(s) : r[i] = s[i],
           Trace(h, k, s), NEW m \in Milestone, CodesBit(r, h[k], m) \/ Shifts(h[k], m)
    PROVE  \E g : Trace(g, k + 1, r) /\ g[k + 1] = m
<1> DEFINE g == [j \in 0..(k + 1) |-> IF j = k + 1 THEN m ELSE h[j]]
<1>1. g[k + 1] = m /\ g[k] = h[k] /\ g[0] = h[0] /\ \A j \in 0..k : g[j] = h[j]
  OBVIOUS
<1>2. g \in [0..(k + 1) -> Milestone]
  <2>1. ASSUME NEW j \in 0..(k + 1) PROVE (IF j = k + 1 THEN m ELSE h[j]) \in Milestone
    <3>1. j # k + 1 => j \in 0..k
      OBVIOUS
    <3> QED
      BY <3>1 DEF Trace
  <2> QED
    BY <2>1
<1> HIDE DEF g
<1>3. ASSUME NEW j \in 1..(k + 1) PROVE CodesBit(r, g[j - 1], g[j]) \/ Shifts(g[j - 1], g[j])
  <2>1. CASE j = k + 1
    <3>1. j - 1 = k
      BY <2>1
    <3> QED
      BY <1>1, <2>1, <3>1
  <2>2. CASE j # k + 1
    <3>1. j \in 1..k /\ j \in 0..k /\ j - 1 \in 0..k
      BY <2>2
    <3>2. g[j] = h[j] /\ g[j - 1] = h[j - 1]
      BY <1>1, <3>1
    <3>3. CASE Shifts(h[j - 1], h[j])
      BY <3>2, <3>3
    <3>4. CASE CodesBit(s, h[j - 1], h[j])
      <4> DEFINE n == h[j - 1].coded
      <4>1. n \in Nat /\ n + 1 \in 1..Len(s)
        <5>1. h[j - 1] \in Milestone
          BY <3>1 DEF Trace
        <5> QED
          BY <3>4, <5>1, MilestoneNumbers DEF CodesBit
      <4>2. n + 1 \in 1..Len(r) /\ s[n + 1] = r[n + 1]
        BY <4>1
      <4>3. ContextAt(s, n) = ContextAt(r, n)
        <5>1. n # 0 => n \in 1..Len(s)
          BY <4>1
        <5> QED
          BY <5>1 DEF ContextAt
      <4>4. CodesBit(r, h[j - 1], h[j])
        BY <3>4, <4>2, <4>3 DEF CodesBit
      <4> QED
        BY <3>2, <4>4
    <3> QED
      BY <3>1, <3>3, <3>4 DEF Trace
  <2> QED
    BY <2>1, <2>2
<1>4. g[0] = Beginning
  BY <1>1 DEF Trace
<1>5. Trace(g, k + 1, r)
  BY <1>2, <1>3, <1>4 DEF Trace
<1> QED
  BY <1>1, <1>5

(* Where the encoder is is a milestone.                                    *)
LEMMA HereFits ==
    ASSUME TypeInv, exact \in Nat
    PROVE  Here \in Milestone
<1>1. Len(bits) \in Nat /\ Len(output) \in Nat /\ cacheSize \in Nat \ {0}
  BY DEF TypeInv
<1>2. Len(output) + cacheSize - 1 \in Nat
  BY <1>1
<1> QED
  BY <1>1, <1>2 DEF Here, Milestone, TypeInv

(* In the encoder the lower end is a number.                               *)
LEMMA ExactIsNat ==
    ASSUME TypeInv, CarryExact, phase = "encode"
    PROVE  exact \in Nat
<1>1. Value(output \o Held) \in Nat /\ low \in Nat /\ Full \in Nat
  <2>1. Value(output \o Held) \in Nat
    BY HeldBytes, ValueIsNat
  <2>2. low \in Nat /\ Full \in Nat
    BY FullSize DEF TypeInv
  <2> QED
    BY <2>1, <2>2
<1>2. Value(output \o Held) * Full + low \in Nat
  BY <1>1
<1> QED
  BY <1>2 DEF CarryExact

(* At first there is nothing.                                              *)
LEMMA InitTrace == Init => TraceInv
<1> SUFFICES ASSUME Init PROVE TraceInv
  OBVIOUS
<1>1. /\ phase \in {"encode", "start"} /\ flushes = 0 /\ code = 0 /\ position = 0 /\ decoded = <<>>
      /\ range = Full - 1 /\ exact = 0 /\ probability = EvenOdds /\ cacheSize = 1
      /\ phase = "encode" => output = <<>> /\ bits = <<>>
      /\ phase = "start" => foreign
  BY DEF Init
<1>2. EncodeTrace
  <2> SUFFICES ASSUME phase = "encode"
               PROVE  \E k \in Nat : \E h : Trace(h, k, bits) /\ h[k] = Here
    BY DEF EncodeTrace
  <2> DEFINE h == [j \in 0..0 |-> Beginning]
  <2>1. Here = Beginning
    <3>1. Len(output) + cacheSize - 1 = 0 /\ Len(bits) = 0
      BY <1>1
    <3> QED
      BY <1>1, <3>1 DEF Here, Beginning
  <2>2. h \in [0..0 -> Milestone] /\ h[0] = Beginning
    BY BeginningFits
  <2> HIDE DEF h
  <2>3. Trace(h, 0, bits)
    BY <2>2 DEF Trace
  <2> QED
    BY <2>1, <2>2, <2>3
<1>3. FlushTrace /\ FlushSum /\ Idle /\ DecodeTrace /\ RoundTrip
  BY <1>1 DEF FlushTrace, FlushSum, Idle, DecodeTrace, RoundTrip
<1> QED
  BY <1>2, <1>3 DEF TraceInv

(* A bit is coded.                                                         *)
LEMMA EncodeTraced ==
    ASSUME CoderInv, CoderInv', CarryExact, CarryExact', TraceInv, NEW bit \in {0, 1}, EncodeBit(bit)
    PROVE  TraceInv'
<1> DEFINE context == Context(bits)
<1>1. /\ TypeInv /\ TypeInv' /\ phase = "encode" /\ phase' = "encode" /\ range >= Top
      /\ UNCHANGED <<output, cacheSize, flushes, code, position, decoded>>
      /\ bits' = Append(bits, bit)
  BY DEF CoderInv, EncodeBit, decoderVars
<1>2. exact \in Nat /\ exact' \in Nat
  <2>1. exact \in Nat
    BY <1>1, ExactIsNat
  <2>2. (TypeInv /\ CarryExact /\ phase = "encode" => exact \in Nat)'
    BY ExactIsNat, PTL
  <2> QED
    BY <1>1, <2>1, <2>2
<1>3. /\ bits \in Seq({0, 1}) /\ bits' \in Seq({0, 1}) /\ Len(bits') = Len(bits) + 1
      /\ Len(bits) \in Nat
      /\ bits'[Len(bits) + 1] = bit /\ \A i \in 1..Len(bits) : bits'[i] = bits[i]
  BY <1>1 DEF TypeInv
<1>4. context = ContextAt(bits', Len(bits))
  <2>1. CASE bits = <<>>
    BY <2>1 DEF Context, ContextAt
  <2>2. CASE bits # <<>>
    <3>1. Len(bits) # 0 /\ Len(bits) \in 1..Len(bits)
      BY <1>3, <2>2
    <3> QED
      BY <1>3, <2>2, <3>1 DEF Context, ContextAt, Last
  <2> QED
    BY <2>1, <2>2
<1>5. CodesBit(bits', Here, Here')
  <2> DEFINE share == Share(Here, ContextAt(bits', Len(bits)))
  <2>1. /\ Here.coded = Len(bits) /\ Here.range = range /\ Here.exact = exact
        /\ Here.probability = probability /\ Here.shifts = Len(output) + cacheSize - 1
        /\ Here'.coded = Len(bits') /\ Here'.range = range' /\ Here'.exact = exact'
        /\ Here'.probability = probability' /\ Here'.shifts = Len(output') + cacheSize' - 1
    BY DEF Here
  <2>2. share = Bound(context)
    BY <1>4, <2>1 DEF Share, Bound
  <2>3. IF bit = 0 THEN range' = share /\ exact' = exact
                   ELSE range' = range - share /\ exact' = exact + share
    BY <2>2 DEF EncodeBit
  <2>4. probability' = Adapted(probability, ContextAt(bits', Len(bits)), bit)
    BY <1>4 DEF EncodeBit, Adapt, Adapted
  <2>5. Len(bits) + 1 \in 1..Len(bits')
    BY <1>3
  <2> HIDE DEF share
  <2> QED
    BY <1>1, <1>3, <2>1, <2>3, <2>4, <2>5 DEF CodesBit, share
<1>6. Here' \in Milestone
  <2>1. (TypeInv /\ exact \in Nat => Here \in Milestone)'
    BY HereFits, PTL
  <2> QED
    BY <1>1, <1>2, <2>1
<1>7. EncodeTrace'
  <2>0. PICK k \in Nat : \E h : Trace(h, k, bits) /\ h[k] = Here
    BY <1>1 DEF TraceInv, EncodeTrace
  <2>1. PICK h : Trace(h, k, bits) /\ h[k] = Here
    BY <2>0
  <2>2. CodesBit(bits', h[k], Here')
    BY <1>5, <2>1
  <2>3. Len(bits) <= Len(bits')
    BY <1>3
  <2>4. \E g : Trace(g, k + 1, bits') /\ g[k + 1] = Here'
    BY <1>3, <1>6, <2>1, <2>2, <2>3, TraceExtended
  <2> QED
    BY <2>4 DEF EncodeTrace
<1>8. (FlushTrace /\ FlushSum /\ Idle /\ DecodeTrace /\ RoundTrip)'
  BY <1>1 DEF FlushTrace, FlushSum, Idle, DecodeTrace, RoundTrip, TraceInv
<1> QED
  BY <1>7, <1>8 DEF TraceInv

(* A shift outputs or holds back one byte more.                            *)
LEMMA ShiftLength ==
    ASSUME TypeInv, ShiftLow
    PROVE  Len(output') + cacheSize' = Len(output) + cacheSize + 1
<1>1. /\ Len(output) \in Nat /\ cacheSize \in Nat /\ output \in Seq(Nat) /\ Held \in Seq(Nat)
      /\ DOMAIN Held = 1..cacheSize
  BY HeldBytes
<1>2. CASE HoldBack
  BY <1>1, <1>2 DEF ShiftLow
<1>3. CASE ~HoldBack
  <2> DEFINE more == [i \in DOMAIN Held |-> (Held[i] + Carry) % Base]
  <2>1. output' = output \o more /\ cacheSize' = 1
    BY <1>3 DEF ShiftLow
  <2>2. \A i \in 1..cacheSize : more[i] \in Nat
    <3> SUFFICES ASSUME NEW i \in 1..cacheSize PROVE (Held[i] + Carry) % Base \in Nat
      BY <1>1
    <3>1. Held[i] \in Nat /\ Carry \in Nat
      <4>1. Held[i] \in Nat
        BY <1>1
      <4>2. Carry \in {0, 1}
        BY Digits DEF TypeInv
      <4> QED
        BY <4>1, <4>2
    <3>2. Held[i] + Carry \in Nat /\ Base \in Nat /\ Base > 0
      BY <3>1, CoderAssumption
    <3> QED
      BY <3>2, Division
  <2>3. more = [i \in 1..cacheSize |-> more[i]]
    BY <1>1
  <2> HIDE DEF more
  <2> DEFINE copy == [i \in 1..cacheSize |-> more[i]]
  <2>4. copy \in Seq(Nat) /\ Len(copy) = cacheSize
    BY <1>1, <2>2
  <2>5. Len(output \o more) = Len(output) + Len(more) /\ Len(more) = cacheSize
    BY <1>1, <2>3, <2>4, JoinedLength
  <2> QED
    BY <1>1, <2>1, <2>5
<1> QED
  BY <1>2, <1>3

(* The interval is shifted.                                                *)
LEMMA NormaliseTraced ==
    ASSUME CoderInv, CoderInv', CarryExact, CarryExact', TraceInv, Normalise
    PROVE  TraceInv'
<1>1. /\ TypeInv /\ TypeInv' /\ phase = "encode" /\ phase' = "encode" /\ range < Top /\ ShiftLow
      /\ UNCHANGED <<bits, probability, flushes, code, position, decoded>>
      /\ range' = range * Base /\ exact' = exact * Base
  BY DEF CoderInv, Normalise, decoderVars
<1>2. exact \in Nat /\ exact' \in Nat
  <2>1. exact \in Nat
    BY <1>1, ExactIsNat
  <2>2. (TypeInv /\ CarryExact /\ phase = "encode" => exact \in Nat)'
    BY ExactIsNat, PTL
  <2> QED
    BY <1>1, <2>1, <2>2
<1>3. Shifts(Here, Here')
  <2>1. /\ Here.coded = Len(bits) /\ Here.range = range /\ Here.exact = exact
        /\ Here.probability = probability /\ Here.shifts = Len(output) + cacheSize - 1
        /\ Here'.coded = Len(bits') /\ Here'.range = range' /\ Here'.exact = exact'
        /\ Here'.probability = probability' /\ Here'.shifts = Len(output') + cacheSize' - 1
    BY DEF Here
  <2>2. Len(output') + cacheSize' = Len(output) + cacheSize + 1
    BY <1>1, ShiftLength
  <2>3. Len(output) \in Nat /\ cacheSize \in Nat /\ Len(output') \in Nat /\ cacheSize' \in Nat
    BY <1>1 DEF TypeInv
  <2>4. Len(output') + cacheSize' - 1 = (Len(output) + cacheSize - 1) + 1
    BY <2>2, <2>3
  <2> QED
    BY <1>1, <2>1, <2>4 DEF Shifts
<1>4. Here' \in Milestone
  <2>1. (TypeInv /\ exact \in Nat => Here \in Milestone)'
    BY HereFits, PTL
  <2> QED
    BY <1>1, <1>2, <2>1
<1>5. EncodeTrace'
  <2>0. PICK k \in Nat : \E h : Trace(h, k, bits) /\ h[k] = Here
    BY <1>1 DEF TraceInv, EncodeTrace
  <2>1. PICK h : Trace(h, k, bits) /\ h[k] = Here
    BY <2>0
  <2>2. Shifts(h[k], Here')
    BY <1>3, <2>1
  <2>3. bits \in Seq({0, 1}) /\ bits' = bits /\ Len(bits) <= Len(bits)
    BY <1>1 DEF TypeInv
  <2>4. \E g : Trace(g, k + 1, bits) /\ g[k + 1] = Here'
    BY <1>4, <2>1, <2>2, <2>3, TraceExtended
  <2> QED
    BY <2>3, <2>4 DEF EncodeTrace
<1>6. (FlushTrace /\ FlushSum /\ Idle /\ DecodeTrace /\ RoundTrip)'
  BY <1>1 DEF FlushTrace, FlushSum, Idle, DecodeTrace, RoundTrip, TraceInv
<1> QED
  BY <1>5, <1>6 DEF TraceInv

(* The bytes of the register and its carry: a register is Base to the      *)
(* power of the shifts of finish but one.                                  *)
LEMMA RegisterPower ==
    /\ Power(FlushCount - 1) = Full /\ Power(FlushCount) = Full * Base
    /\ FlushCount \in Nat /\ FlushCount >= 2 /\ Full \in Nat /\ Full > 0
    /\ Base \in Nat /\ Base >= 2 /\ Top \in Nat
<1>1. /\ FlushCount \in Nat /\ FlushCount >= 2 /\ Base \in Nat /\ Base >= 2 /\ Top \in Nat
      /\ Full \in Nat /\ Full > 0 /\ Full = Base * Top /\ Top = Power(FlushCount - 2)
  BY BoundAssumption, FlushAssumption, CoderAssumption, FullSize
<1>2. /\ FlushCount - 2 \in Nat /\ (FlushCount - 2) + 1 = FlushCount - 1
      /\ FlushCount - 1 \in Nat /\ (FlushCount - 1) + 1 = FlushCount
  BY <1>1
<1>3. Power(FlushCount - 1) = Power(FlushCount - 2) * Base
  <2>1. Power((FlushCount - 2) + 1) = Power(FlushCount - 2) * Base
    BY <1>2, Powers
  <2> QED
    BY <1>2, <2>1
<1>4. Power(FlushCount) = Power(FlushCount - 1) * Base
  <2>1. Power((FlushCount - 1) + 1) = Power(FlushCount - 1) * Base
    BY <1>2, Powers
  <2> QED
    BY <1>2, <2>1
<1>5. Top * Base = Base * Top
  BY <1>1
<1> QED
  BY <1>1, <1>3, <1>4, <1>5

(* All bits are coded.                                                     *)
LEMMA FinishTraced ==
    ASSUME CoderInv, CarryExact, TraceInv, Finish
    PROVE  TraceInv'
<1>1. /\ TypeInv /\ phase = "encode" /\ phase' = "flush" /\ range >= Top /\ flushes = 0
      /\ UNCHANGED <<bits, range, flushes, low, cache, cacheSize, output, exact, code, position, decoded>>
  BY DEF CoderInv, Finish, encoderVars, decoderVars, TraceInv, Idle
<1>2. exact \in Nat
  BY <1>1, ExactIsNat
<1>3. low \in Nat /\ Len(output) \in Nat /\ cacheSize \in Nat
  BY <1>1, FullSize DEF TypeInv
<1>4. FlushTrace'
  <2>1. PICK k \in Nat : \E h : Trace(h, k, bits) /\ h[k] = Here
    BY <1>1 DEF TraceInv, EncodeTrace
  <2>2. PICK h : Trace(h, k, bits) /\ h[k] = Here
    BY <2>1
  <2>3. /\ h[k].coded = Len(bits) /\ h[k].range >= Top /\ h[k].exact = exact
        /\ h[k].shifts = Len(output) + cacheSize - 1
    BY <1>1, <2>2 DEF Here
  <2>4. Len(output) + cacheSize = 1 + h[k].shifts + flushes
    BY <1>1, <1>3, <2>3
  <2>5. /\ Trace(h, k, bits') /\ h[k].coded = Len(bits') /\ h[k].range >= Top
        /\ h[k].exact = exact' /\ Len(output') + cacheSize' = 1 + h[k].shifts + flushes'
    BY <1>1, <2>2, <2>3, <2>4
  <2> QED
    BY <2>5 DEF FlushTrace
<1>5. FlushSum'
  <2>1. Value(output \o Held) * Full + low = exact * Power(0)
    BY <1>1, <1>2, Powers DEF CarryExact
  <2>2. low = Power(0) * low
    BY <1>3, Powers
  <2>3. 0 \in 0..FlushCount /\ 0 # FlushCount
    BY RegisterPower
  <2>4. Held' = Held
    BY <1>1 DEF Held
  <2> QED
    BY <1>1, <1>2, <1>3, <2>1, <2>2, <2>3, <2>4 DEF FlushSum
<1>6. EncodeTrace' /\ Idle' /\ DecodeTrace' /\ RoundTrip'
  BY <1>1 DEF EncodeTrace, Idle, DecodeTrace, RoundTrip, TraceInv
<1> QED
  BY <1>4, <1>5, <1>6 DEF TraceInv

(* A turn of the loop of finish.                                           *)
LEMMA FlushTraced ==
    ASSUME CoderInv, TraceInv, Flush
    PROVE  TraceInv'
<1>1. /\ TypeInv /\ phase = "flush" /\ phase' = "flush" /\ ShiftLow /\ flushes' = flushes + 1
      /\ flushes # FlushCount /\ (low >= Full => cache < Base - 1)
      /\ UNCHANGED <<bits, exact, code, position, decoded>>
  BY DEF CoderInv, CarryStops, Flush, Flushed, decoderVars
<1>2. /\ flushes \in 0..FlushCount /\ exact \in Nat
      /\ Value(output \o Held) * Full + low = exact * Power(flushes)
      /\ \E q \in Nat : low = Power(flushes) * q
      /\ flushes > 0 => low < Full
  BY <1>1 DEF TraceInv, FlushSum
<1>3. /\ flushes \in Nat /\ flushes \in 0..(FlushCount - 1) /\ flushes' \in 0..FlushCount /\ flushes' > 0
      /\ flushes' = FlushCount => flushes = FlushCount - 1
  BY <1>1, <1>2, RegisterPower
<1>4. low \in Nat /\ Full \in Nat /\ Base \in Nat /\ Base >= 2
  BY <1>1, RegisterPower DEF TypeInv
<1>5. flushes = FlushCount - 1 => low = 0
  <2> SUFFICES ASSUME flushes = FlushCount - 1 PROVE low = 0
    OBVIOUS
  <2>1. PICK q \in Nat : low = Power(flushes) * q
    BY <1>2
  <2>2. low = Full * q /\ low < Full
    <3>1. flushes > 0
      BY RegisterPower
    <3> QED
      BY <1>2, <2>1, <3>1, RegisterPower
  <2>3. ASSUME q >= 0 + 1 PROVE FALSE
    <3>1. Full * q >= Full * 0 + Full
      BY <1>4, <2>3, Multiple
    <3> QED
      BY <1>4, <2>2, <3>1
  <2>4. q = 0
    BY <2>3
  <2> QED
    BY <1>4, <2>2, <2>4
<1>6. FlushSum'
  <2>1. low' = (low % Top) * Base
    BY <1>1 DEF ShiftLow
  <2>2. PICK q \in Nat : low = Power(flushes) * q
    BY <1>2
  <2>3. \E z \in Nat : low' = Power(flushes') * z
    BY <1>1, <1>3, <1>4, <1>5, <2>1, <2>2, ShiftedZeros
  <2>4. Value(output' \o Held') * Full + low' = exact' * Power(flushes')
    <3>1. Value(output' \o Held') * Full + low' = (exact * Power(flushes)) * Base
      BY <1>1, <1>2, ShiftedWhole
    <3>2. Power(flushes) \in Nat /\ Power(flushes + 1) = Power(flushes) * Base
      BY <1>3, Powers
    <3> DEFINE p == Power(flushes)
    <3> HIDE DEF p
    <3>3. (exact * p) * Base = exact * (p * Base)
      BY <1>2, <1>4, <3>2 DEF p
    <3> QED
      BY <1>1, <3>1, <3>2, <3>3 DEF p
  <2>5. low' < Full
    <3>1. low' \in 0..(Full - Base)
      BY <1>1, ShiftTypes
    <3> QED
      BY <1>4, <3>1
  <2>6. flushes' = FlushCount => cacheSize' = 1 /\ cache' = 0 /\ low' = 0
    <3> SUFFICES ASSUME flushes' = FlushCount PROVE cacheSize' = 1 /\ cache' = 0 /\ low' = 0
      OBVIOUS
    <3>1. low = 0
      BY <1>3, <1>5
    <3>2. low % Top = 0 /\ low \div Top = 0
      BY <3>1, FullSize, CoderAssumption
    <3>3. Digit = 0 /\ 0 # Base - 1
      BY <1>4, <3>2 DEF Digit
    <3>4. ~HoldBack
      BY <3>3 DEF HoldBack
    <3>5. 0 * Base = 0
      BY <1>4
    <3> QED
      BY <1>1, <3>2, <3>3, <3>4, <3>5 DEF ShiftLow
  <2>7. exact' \in Nat
    BY <1>1, <1>2
  <2> QED
    BY <1>3, <2>3, <2>4, <2>5, <2>6, <2>7 DEF FlushSum
<1>7. FlushTrace'
  <2>1. PICK k \in Nat : \E h : /\ Trace(h, k, bits)
                                /\ h[k].coded = Len(bits) /\ h[k].range >= Top
                                /\ h[k].exact = exact
                                /\ Len(output) + cacheSize = 1 + h[k].shifts + flushes
    BY <1>1 DEF TraceInv, FlushTrace
  <2>2. PICK h : /\ Trace(h, k, bits)
                 /\ h[k].coded = Len(bits) /\ h[k].range >= Top
                 /\ h[k].exact = exact
                 /\ Len(output) + cacheSize = 1 + h[k].shifts + flushes
    BY <2>1
  <2>3. Len(output') + cacheSize' = 1 + h[k].shifts + flushes'
    <3>1. Len(output') + cacheSize' = Len(output) + cacheSize + 1
      BY <1>1, ShiftLength
    <3>2. h[k].shifts \in Nat
      <4>1. h[k] \in Milestone
        <5>1. k \in 0..k
          OBVIOUS
        <5> QED
          BY <2>2, <5>1 DEF Trace
      <4> QED
        BY <4>1, MilestoneNumbers
    <3>3. Len(output) + cacheSize + 1 = (1 + h[k].shifts + flushes) + 1
      BY <2>2
    <3> DEFINE w == h[k].shifts
    <3> HIDE DEF w
    <3>4. (1 + w + flushes) + 1 = 1 + w + (flushes + 1)
      BY <1>3, <3>2 DEF w
    <3> QED
      BY <1>1, <3>1, <3>3, <3>4 DEF w
  <2> QED
    BY <1>1, <2>2, <2>3 DEF FlushTrace
<1>8. EncodeTrace' /\ Idle' /\ DecodeTrace' /\ RoundTrip'
  BY <1>1 DEF EncodeTrace, Idle, DecodeTrace, RoundTrip, TraceInv
<1> QED
  BY <1>6, <1>7, <1>8 DEF TraceInv

(* What was output spells the lower end of the last interval.              *)
LEMMA OutputSpells ==
    ASSUME CoderInv, TraceInv, phase = "flush", flushes = FlushCount
    PROVE  Value(output) = exact
<1>1. /\ cacheSize = 1 /\ cache = 0 /\ low = 0 /\ exact \in Nat
      /\ Value(output \o Held) * Full + low = exact * Power(FlushCount)
  BY DEF TraceInv, FlushSum
<1>2. output \in Seq(Nat) /\ Value(output) \in Nat
  BY HeldBytes, ValueIsNat DEF CoderInv
<1>3. Value(output \o Held) = Value(output) * Base
  <2>1. Held = Append(<<>>, 0)
    BY <1>1 DEF Held
  <2>2. output \o Held = Append(output, 0)
    BY <1>2, <2>1
  <2>3. Value(Append(output, 0)) = Value(output) * Base + 0
    BY <1>2, ValueAppend
  <2>4. Value(output) * Base + 0 = Value(output) * Base
    <3> DEFINE v == Value(output)
    <3>1. v \in Nat
      BY <1>2
    <3> HIDE DEF v
    <3>2. v * Base + 0 = v * Base
      BY <3>1, RegisterPower
    <3> QED
      BY <3>2 DEF v
  <2> QED
    BY <2>2, <2>3, <2>4
<1> DEFINE v == Value(output)
<1> HIDE DEF v
<1>4. v \in Nat /\ (v * Base) * Full + 0 = exact * (Full * Base)
  BY <1>1, <1>2, <1>3, RegisterPower DEF v
<1>5. (Full * Base) * v = (Full * Base) * exact
  <2>1. (v * Base) * Full = (Full * Base) * v /\ (v * Base) * Full \in Nat
    BY <1>4, RegisterPower
  <2>2. exact * (Full * Base) = (Full * Base) * exact
    BY <1>1, RegisterPower
  <2> QED
    BY <1>4, <2>1, <2>2
<1>6. Full * Base \in Nat /\ Full * Base > 0
  BY RegisterPower
<1>7. v = exact
  BY <1>1, <1>4, <1>5, <1>6, Cancelled
<1> QED
  BY <1>7 DEF v

(* The payload goes to the decoder.                                        *)
LEMMA HandoverTraced ==
    ASSUME CoderInv, TraceInv, Handover
    PROVE  TraceInv'
<1>1. /\ TypeInv /\ phase = "flush" /\ phase' = "start" /\ flushes = FlushCount
      /\ probability' = EvenOdds /\ range' = Full - 1
      /\ UNCHANGED <<foreign, bits, output, cacheSize, exact, code, position, decoded>>
      /\ code = 0 /\ position = 0 /\ decoded = <<>>
  BY DEF CoderInv, Handover, Flushed, encoderVars, decoderVars, TraceInv, Idle
<1>2. DecodeTrace'
  <2>1. PICK k \in Nat : \E h : /\ Trace(h, k, bits)
                                /\ h[k].coded = Len(bits) /\ h[k].range >= Top
                                /\ h[k].exact = exact
                                /\ Len(output) + cacheSize = 1 + h[k].shifts + flushes
    BY <1>1 DEF TraceInv, FlushTrace
  <2>2. PICK h : /\ Trace(h, k, bits)
                 /\ h[k].coded = Len(bits) /\ h[k].range >= Top
                 /\ h[k].exact = exact
                 /\ Len(output) + cacheSize = 1 + h[k].shifts + flushes
    BY <2>1
  <2>3. output \in Seq(Nat) /\ Len(output) \in Nat
    BY <1>1, HeldBytes
  <2>4. PICK t : Spells(t, output, Len(output)) /\ Value(output) = t[Len(output)]
    BY <2>3, ValueIsLast
  <2>5. t[Len(output)] = h[k].exact
    BY <1>1, <2>2, <2>4, OutputSpells
  <2>6. Len(output) = FlushCount + h[k].shifts
    <3>1. cacheSize = 1
      BY <1>1 DEF TraceInv, FlushSum
    <3>2. h[k].shifts \in Nat
      <4>1. h[k] \in Milestone
        <5>1. k \in 0..k
          OBVIOUS
        <5> QED
          BY <2>2, <5>1 DEF Trace
      <4> QED
        BY <4>1, MilestoneNumbers
    <3> DEFINE w == h[k].shifts
    <3> HIDE DEF w
    <3>3. Len(output) + 1 = 1 + w + FlushCount /\ w \in Nat
      BY <1>1, <2>2, <3>1, <3>2 DEF w
    <3>4. Len(output) = FlushCount + w
      BY <2>3, <3>3, RegisterPower
    <3> QED
      BY <3>4 DEF w
  <2>7. Complete(h, k, t)'
    BY <1>1, <2>2, <2>4, <2>5, <2>6 DEF Complete, Hits
  <2>8. Starting(t)'
    <3>1. t[0] = 0
      BY <2>4 DEF Spells
    <3> QED
      BY <1>1, <3>1, RegisterPower DEF Starting
  <2> QED
    BY <1>1, <2>7, <2>8 DEF DecodeTrace
<1>3. EncodeTrace' /\ FlushTrace' /\ FlushSum' /\ Idle' /\ RoundTrip'
  BY <1>1 DEF EncodeTrace, FlushTrace, FlushSum, Idle, RoundTrip, TraceInv
<1> QED
  BY <1>2, <1>3 DEF TraceInv

-----------------------------------------------------------------------------
(* The decoder's steps                                                     *)

(* What is known of the payload.                                           *)
LEMMA PayloadFacts ==
    ASSUME TypeInv, NEW k \in Nat, NEW h, NEW t, Complete(h, k, t)
    PROVE  /\ \A j \in 0..k : h[j] \in Milestone /\ Inside(h, k, t, j)
           /\ \A n \in 0..Len(output) : t[n] \in Nat
           /\ \A n \in 1..Len(output) : /\ output[n] \in 0..(Base - 1)
                                        /\ t[n] = t[n - 1] * Base + output[n]
           /\ t[0] = 0 /\ Len(output) = FlushCount + h[k].shifts /\ Len(output) \in Nat
           /\ h[0] = Beginning /\ h[k].coded = Len(bits) /\ h[k].range >= Top
           /\ \A j \in 1..k : CodesBit(bits, h[j - 1], h[j]) \/ Shifts(h[j - 1], h[j])
<1>1. /\ Hits(h, k, bits, t, output) /\ bits \in Seq({0, 1}) /\ output \in Seq(0..(Base - 1))
      /\ h[k].coded = Len(bits) /\ h[k].range >= Top
  BY DEF Complete, TypeInv
<1>2. \A j \in 0..k : Inside(h, k, t, j)
  BY <1>1, AlwaysInside
<1>3. Trace(h, k, bits) /\ Spells(t, output, Len(output)) /\ Len(output) = FlushCount + h[k].shifts
  BY <1>1 DEF Hits
<1>4. Len(output) \in Nat
  BY <1>1
<1>5. \A n \in 1..Len(output) : output[n] \in 0..(Base - 1)
  <2> DEFINE Byte == 0..(Base - 1)
  <2>1. output \in Seq(Byte)
    BY <1>1
  <2> HIDE DEF Byte
  <2>2. \A n \in 1..Len(output) : output[n] \in Byte
    BY <2>1
  <2> QED
    BY <2>2 DEF Byte
<1> QED
  BY <1>1, <1>2, <1>3, <1>4, <1>5 DEF Trace, Spells

(* The first bytes fit the register below its highest byte.                *)
LEMMA FirstBytesFit ==
    ASSUME TypeInv, NEW k \in Nat, NEW h, NEW t, Complete(h, k, t)
    PROVE  \A n \in 0..(FlushCount - 1) : t[n] < Top
<1>0. /\ FlushCount \in Nat /\ FlushCount >= 2 /\ Base \in Nat /\ Base >= 2 /\ Top \in Nat
      /\ Full \in Nat /\ Full = Base * Top
  BY RegisterPower, FullSize
<1>1. /\ \A n \in 0..FlushCount : t[n] \in Nat
      /\ \A n \in 1..FlushCount : output[n] \in 0..(Base - 1) /\ t[n] = t[n - 1] * Base + output[n]
      /\ t[FlushCount] < Full
  <2>1. h[k].shifts \in Nat /\ Len(output) = FlushCount + h[k].shifts
    <3>1. k \in 0..k
      OBVIOUS
    <3> QED
      BY <3>1, PayloadFacts, MilestoneNumbers
  <2>2. (\A n \in 0..FlushCount : n \in 0..Len(output)) /\ (\A n \in 1..FlushCount : n \in 1..Len(output))
    BY <1>0, <2>1
  <2>3. t[FlushCount] < Full
    <3>1. Inside(h, k, t, 0) /\ h[0] = Beginning
      <4>1. 0 \in 0..k
        OBVIOUS
      <4> QED
        BY <4>1, PayloadFacts
    <3>2. t[FlushCount + 0] < 0 + (Full - 1)
      BY <3>1 DEF Inside, Beginning
    <3>3. FlushCount + 0 = FlushCount
      BY <1>0
    <3>4. t[FlushCount] \in Nat
      <4>1. FlushCount \in 0..Len(output)
        BY <1>0, <2>2
      <4> QED
        BY <4>1, PayloadFacts
    <3> QED
      BY <1>0, <3>2, <3>3, <3>4
  <2> QED
    BY <2>2, <2>3, PayloadFacts
<1> DEFINE last == FlushCount - 1
           T == {d \in 0..last : ~(t[last - d] < Top)}
<1>2. ASSUME T # {} PROVE FALSE
  <2>0. T \subseteq Nat
    BY <1>0
  <2>1. PICK d \in T : \A i \in T : d <= i
    <3> HIDE DEF T
    <3> QED
      BY <1>2, <2>0, Least
  <2> DEFINE n == last - d
  <2>2. d \in 0..last /\ ~(t[n] < Top) /\ n \in 0..FlushCount /\ n + 1 \in 1..FlushCount /\ (n + 1) - 1 = n
    BY <1>0, <2>1
  <2>3. t[n] \in Nat /\ output[n + 1] \in 0..(Base - 1) /\ t[n + 1] = t[n] * Base + output[n + 1]
    BY <1>1, <2>2
  <2>4. CASE d = 0
    <3>1. n + 1 = FlushCount
      BY <1>0, <2>4
    <3> DEFINE p == t[n]
               b == output[n + 1]
    <3>2. p \in Nat /\ b \in 0..(Base - 1) /\ p * Base + b < Base * Top /\ p >= Top
      BY <1>0, <1>1, <2>2, <2>3, <3>1
    <3> HIDE DEF p, b
    <3>3. Base * p >= Base * Top
      <4>1. CASE p = Top
        BY <1>0, <4>1
      <4>2. CASE p >= Top + 1
        <5>1. Base * p >= Base * Top + Base
          BY <1>0, <3>2, <4>2, Multiple
        <5>2. Base * p \in Nat /\ Base * Top \in Nat
          BY <1>0, <3>2
        <5> QED
          BY <1>0, <5>1, <5>2
      <4> QED
        BY <1>0, <3>2, <4>1, <4>2
    <3>4. Base * p = p * Base /\ p * Base \in Nat /\ Base * Top \in Nat
      BY <1>0, <3>2
    <3> QED
      BY <3>2, <3>3, <3>4
  <2>5. CASE d # 0
    <3>1. d - 1 \in 0..last /\ ~(d <= d - 1) /\ last - (d - 1) = n + 1
      BY <1>0, <2>2, <2>5
    <3>2. d - 1 \notin T
      BY <2>1, <3>1
    <3>3. t[n + 1] < Top
      BY <3>1, <3>2
    <3> DEFINE p == t[n]
               b == output[n + 1]
    <3>4. p \in Nat /\ b \in 0..(Base - 1) /\ p * Base + b < Top /\ p >= Top
      BY <1>0, <2>2, <2>3, <3>3
    <3> HIDE DEF p, b
    <3>5. p * Base >= p /\ p * Base \in Nat
      BY <1>0, <3>4
    <3> QED
      BY <1>0, <3>4, <3>5
  <2> QED
    BY <2>4, <2>5
<1>3. ASSUME NEW n \in 0..last PROVE t[n] < Top
  <2>1. last - n \in 0..last /\ last - (last - n) = n
    BY <1>0
  <2>2. last - n \notin T
    BY <1>2
  <2> QED
    BY <2>1, <2>2
<1> QED
  BY <1>3

(* The decoder takes its first bytes.                                      *)
LEMMA StartTraced ==
    ASSUME CoderInv, TraceInv, Start
    PROVE  TraceInv'
<1>1. /\ TypeInv /\ phase = "start" /\ ReadByte /\ position < Len(output)
      /\ code' = (code % Top) * Base + output[position + 1] /\ position' = position + 1
      /\ phase' = (IF position + 1 = FlushCount THEN "decode" ELSE "start")
      /\ UNCHANGED <<foreign, bits, probability, range, output, decoded>>
  BY DEF CoderInv, Start, ReadByte, encoderVars
<1>2. DecodeTrace'
  <2> SUFFICES ASSUME ~foreign PROVE DecodeTrace'
    BY <1>1 DEF DecodeTrace
  <2>1. PICK k \in Nat : \E h, t : Complete(h, k, t) /\ Starting(t)
    BY <1>1 DEF TraceInv, DecodeTrace
  <2>2. PICK h, t : Complete(h, k, t) /\ Starting(t)
    BY <2>1
  <2>3. /\ range = Full - 1 /\ probability = EvenOdds /\ decoded = <<>>
        /\ position < FlushCount /\ code = t[position]
    BY <2>2 DEF Starting
  <2>4. /\ position \in Nat /\ FlushCount \in Nat /\ Top \in Nat /\ Len(output) \in Nat
        /\ position \in 0..(FlushCount - 1) /\ position + 1 \in 1..Len(output) /\ (position + 1) - 1 = position
    <3>1. position \in Nat /\ FlushCount \in Nat /\ Top \in Nat /\ Len(output) \in Nat
      BY <1>1, RegisterPower DEF TypeInv
    <3> QED
      BY <1>1, <2>3, <3>1
  <2>5. code \in Nat /\ code < Top
    <3>1. code < Top
      BY <1>1, <2>2, <2>3, <2>4, FirstBytesFit
    <3>2. code \in Nat
      BY <1>1, FullSize DEF TypeInv
    <3> QED
      BY <3>1, <3>2
  <2>6. code' = t[position + 1]
    <3>1. code % Top = code
      BY <2>4, <2>5, Below
    <3>2. t[position + 1] = t[position] * Base + output[position + 1]
      BY <1>1, <2>2, <2>4, PayloadFacts
    <3> QED
      BY <1>1, <2>3, <3>1, <3>2
  <2>7. Complete(h, k, t)'
    BY <1>1, <2>2 DEF Complete
  <2>8. CASE position + 1 = FlushCount
    <3>1. At(h[0], t)'
      <4>1. h[0] = Beginning
        BY <1>1, <2>2, PayloadFacts
      <4>2. /\ Beginning.range = Full - 1 /\ Beginning.probability = EvenOdds /\ Beginning.coded = 0
            /\ Beginning.exact = 0 /\ Beginning.shifts = 0
        BY DEF Beginning
      <4>3. code' + 0 = t[position'] /\ position' = FlushCount + 0
        <5>1. code' \in Nat
          <6>1. position + 1 \in 0..Len(output)
            BY <2>4
          <6> QED
            BY <1>1, <2>2, <2>6, <6>1, PayloadFacts
        <5> QED
          BY <1>1, <2>4, <2>6, <2>8, <5>1
      <4>4. decoded' = <<>> /\ Len(decoded') = 0 /\ \A i \in 1..Len(decoded') : decoded'[i] = bits'[i]
        BY <1>1, <2>3
      <4> QED
        BY <1>1, <2>3, <4>1, <4>2, <4>3, <4>4 DEF At
    <3>2. phase' = "decode" /\ 0 \in 0..k
      BY <1>1, <2>8
    <3> QED
      BY <2>7, <3>1, <3>2 DEF DecodeTrace
  <2>9. CASE position + 1 # FlushCount
    <3>1. phase' = "start" /\ position' < FlushCount
      BY <1>1, <2>3, <2>4, <2>9
    <3>2. Starting(t)'
      BY <1>1, <2>3, <2>6, <3>1 DEF Starting
    <3> QED
      BY <2>7, <3>1, <3>2 DEF DecodeTrace
  <2> QED
    BY <2>8, <2>9
<1>3. EncodeTrace' /\ FlushTrace' /\ FlushSum' /\ Idle' /\ RoundTrip'
  BY <1>1 DEF EncodeTrace, FlushTrace, FlushSum, Idle, RoundTrip, TraceInv
<1> QED
  BY <1>2, <1>3 DEF TraceInv

(* The decoder is at one of the milestones, and what it still lacks lies   *)
(* in the next.                                                            *)
LEMMA DecodePlace ==
    ASSUME TypeInv, TraceInv, ~foreign, phase = "decode"
    PROVE  \E k \in Nat : \E h, t : /\ Complete(h, k, t)
                                    /\ \E j \in 0..k : At(h[j], t)
BY DEF TraceInv, DecodeTrace

(* Short of the last milestone there is a next one; at the last, all bits  *)
(* are decoded and the range needs no byte.                                *)
LEMMA NextMilestone ==
    ASSUME TypeInv, NEW k \in Nat, NEW h, NEW t, Complete(h, k, t), NEW j \in 0..k, At(h[j], t)
    PROVE  /\ j = k => range >= Top /\ Len(decoded) = Len(bits) /\ position = Len(output)
           /\ j # k => /\ j + 1 \in 0..k
                       /\ h[j] \in Milestone /\ h[j + 1] \in Milestone
                       /\ Inside(h, k, t, j) /\ Inside(h, k, t, j + 1)
                       /\ range >= Top => CodesBit(bits, h[j], h[j + 1])
                       /\ range < Top => Shifts(h[j], h[j + 1])
<1>1. CASE j = k
  BY <1>1, PayloadFacts DEF At
<1>2. CASE j # k
  <2>1. j + 1 \in 0..k /\ j + 1 \in 1..k /\ (j + 1) - 1 = j
    BY <1>2
  <2>2. /\ h[j] \in Milestone /\ h[j + 1] \in Milestone
        /\ Inside(h, k, t, j) /\ Inside(h, k, t, j + 1)
        /\ CodesBit(bits, h[j], h[j + 1]) \/ Shifts(h[j], h[j + 1])
    <3>1. CodesBit(bits, h[(j + 1) - 1], h[j + 1]) \/ Shifts(h[(j + 1) - 1], h[j + 1])
      BY <2>1, PayloadFacts
    <3> QED
      BY <2>1, <3>1, PayloadFacts
  <2>3. range = h[j].range /\ range \in Nat /\ Top \in Nat
    BY FullSize, CoderAssumption DEF At, TypeInv
  <2>4. range >= Top => ~Shifts(h[j], h[j + 1])
    BY <2>3 DEF Shifts
  <2>5. range < Top => ~CodesBit(bits, h[j], h[j + 1])
    BY <2>3 DEF CodesBit
  <2> QED
    BY <1>2, <2>1, <2>2, <2>4, <2>5
<1> QED
  BY <1>1, <1>2

(* The code tells which part of the interval the payload lies in.          *)
LEMMA BitTold ==
    ASSUME NEW a \in Milestone, NEW b \in Milestone, NEW s \in Seq({0, 1}), CodesBit(s, a, b),
           NEW c \in Nat, NEW x \in Nat, c + a.exact = x,
           b.exact <= x, x < b.exact + b.range,
           NEW bound \in Nat, bound = Share(a, ContextAt(s, a.coded)),
           NEW bit, bit = (IF c < bound THEN 0 ELSE 1)
    PROVE  /\ bit = s[a.coded + 1]
           /\ b.range = (IF bit = 0 THEN bound ELSE a.range - bound)
           /\ (IF bit = 0 THEN c ELSE c - bound) + b.exact = x
<1> DEFINE coded == s[a.coded + 1]
<1>1. a.exact \in Nat /\ b.exact \in Nat /\ a.range \in Nat /\ b.range \in Nat
  BY MilestoneNumbers
<1>2. coded \in {0, 1}
  <2>1. a.coded + 1 \in 1..Len(s)
    BY DEF CodesBit
  <2> QED
    BY <2>1
<1>3. IF coded = 0 THEN b.range = bound /\ b.exact = a.exact
                   ELSE b.range = a.range - bound /\ b.exact = a.exact + bound
  BY DEF CodesBit
<1> DEFINE ae == a.exact
           be == b.exact
           ar == a.range
           br == b.range
<1> HIDE DEF coded, ae, be, ar, br
<1>4. /\ ae \in Nat /\ be \in Nat /\ ar \in Nat /\ br \in Nat /\ coded \in {0, 1}
      /\ IF coded = 0 THEN br = bound /\ be = ae ELSE br = ar - bound /\ be = ae + bound
      /\ c + ae = x /\ be <= x /\ x < be + br
  BY <1>1, <1>2, <1>3 DEF ae, be, ar, br
<1>5. CASE coded = 0
  <2>1. c < bound
    BY <1>4, <1>5
  <2>2. bit = 0
    BY <2>1
  <2> QED
    BY <1>4, <1>5, <2>2 DEF coded, ae, be, ar, br
<1>6. CASE coded = 1
  <2>1. ~(c < bound) /\ (c - bound) + be = x
    <3>1. be = ae + bound /\ c + ae = x /\ be <= x /\ ae \in Nat /\ bound \in Nat /\ c \in Nat
      BY <1>4, <1>6
    <3>2. ae + bound <= c + ae /\ x = c + ae
      BY <3>1
    <3>3. bound <= c
      BY ONLY <3>1, <3>2
    <3>4. (c - bound) + (ae + bound) = c + ae
      BY ONLY <3>1
    <3> QED
      BY <3>1, <3>2, <3>3, <3>4
  <2>2. bit = 1
    BY <2>1
  <2> QED
    BY <1>4, <1>6, <2>1, <2>2 DEF coded, ae, be, ar, br
<1> QED
  BY <1>4, <1>5, <1>6

(* A bit is decoded as it was coded.                                       *)
LEMMA DecodeBitTraced ==
    ASSUME CoderInv, CoderInv', TraceInv, DecodeBit
    PROVE  TraceInv'
<1> DEFINE context == Context(decoded)
           bound == Bound(context)
           bit == IF code < bound THEN 0 ELSE 1
<1>1. /\ TypeInv /\ TypeInv' /\ phase = "decode" /\ phase' = "decode" /\ range >= Top
      /\ Len(decoded) < Len(bits)
      /\ UNCHANGED <<foreign, bits, output, position>>
      /\ decoded' = Append(decoded, bit)
      /\ Adapt(context, bit)
      /\ IF bit = 0 THEN range' = bound /\ code' = code ELSE range' = range - bound /\ code' = code - bound
  BY DEF CoderInv, DecodeBit, encoderVars
<1>2. DecodeTrace'
  <2> SUFFICES ASSUME ~foreign PROVE DecodeTrace'
    BY <1>1 DEF DecodeTrace
  <2>1. PICK k \in Nat : \E h, t : Complete(h, k, t) /\ \E j \in 0..k : At(h[j], t)
    BY <1>1, DecodePlace
  <2>2. PICK h, t : Complete(h, k, t) /\ \E j \in 0..k : At(h[j], t)
    BY <2>1
  <2>3. PICK j \in 0..k : At(h[j], t)
    BY <2>2
  <2>4. /\ j # k /\ j + 1 \in 0..k /\ h[j] \in Milestone /\ h[j + 1] \in Milestone
        /\ Inside(h, k, t, j) /\ Inside(h, k, t, j + 1)
        /\ CodesBit(bits, h[j], h[j + 1])
    <3>1. Len(decoded) # Len(bits)
      <4>1. TypeInv /\ Len(decoded) < Len(bits)
        BY <1>1
      <4> HIDE DEF bit, bound, context
      <4>2. Len(decoded) \in Nat /\ Len(bits) \in Nat
        BY <4>1 DEF TypeInv
      <4> QED
        BY <4>1, <4>2
    <3> QED
      BY <1>1, <2>2, <2>3, <3>1, NextMilestone
  <2>5. /\ range = h[j].range /\ probability = h[j].probability /\ Len(decoded) = h[j].coded
        /\ \A i \in 1..Len(decoded) : decoded[i] = bits[i]
        /\ position = FlushCount + h[j].shifts /\ code + h[j].exact = t[position]
    BY <2>3 DEF At
  <2>6. h[j + 1].shifts = h[j].shifts /\ h[j + 1].coded = h[j].coded + 1
    BY <2>4 DEF CodesBit
  <2>7. context = ContextAt(bits, h[j].coded)
    <3>1. decoded \in Seq({0, 1}) /\ Len(decoded) \in Nat
      BY <1>1 DEF TypeInv
    <3>2. CASE decoded = <<>>
      <4>1. Len(decoded) = 0
        BY <3>2
      <4> QED
        BY <2>5, <3>2, <4>1 DEF Context, ContextAt
    <3>3. CASE decoded # <<>>
      <4>1. Len(decoded) # 0 /\ Len(decoded) \in 1..Len(decoded)
        BY <3>1, <3>3
      <4>2. context = decoded[Len(decoded)]
        BY <3>3 DEF Context, Last
      <4> QED
        BY <2>5, <4>1, <4>2 DEF ContextAt
    <3> QED
      BY <3>2, <3>3
  <2>8. bound = Share(h[j], ContextAt(bits, h[j].coded)) /\ bound \in Nat
    <3>1. context \in {0, 1}
      BY <1>1, ContextIsBit DEF TypeInv
    <3>2. bound \in 1..(range - 1)
      BY <1>1, <3>1, BoundInside
    <3>3. bound = (range \div One) * probability[context]
      BY DEF Bound
    <3> QED
      BY <2>5, <2>7, <3>2, <3>3 DEF Share
  <2>9. h[j + 1].exact <= t[position] /\ t[position] < h[j + 1].exact + h[j + 1].range
    BY <2>4, <2>5, <2>6 DEF Inside
  <2>10. code \in Nat /\ t[position] \in Nat /\ bits \in Seq({0, 1})
    <3>1. code \in Nat /\ bits \in Seq({0, 1})
      BY <1>1, FullSize DEF TypeInv
    <3>2. h[j].exact \in Nat
      BY <2>4, MilestoneNumbers
    <3>3. code + h[j].exact \in Nat
      BY <3>1, <3>2
    <3> QED
      BY <2>5, <3>1, <3>3
  <2>11. bit = (IF code < bound THEN 0 ELSE 1)
    OBVIOUS
  <2> HIDE DEF bit, bound, context
  <2>12. /\ bit = bits[h[j].coded + 1]
         /\ h[j + 1].range = (IF bit = 0 THEN bound ELSE h[j].range - bound)
         /\ (IF bit = 0 THEN code ELSE code - bound) + h[j + 1].exact = t[position]
    <3> DEFINE a == h[j]
               b == h[j + 1]
               x == t[position]
    <3>1. /\ a \in Milestone /\ b \in Milestone /\ bits \in Seq({0, 1}) /\ CodesBit(bits, a, b)
          /\ code \in Nat /\ x \in Nat /\ code + a.exact = x
          /\ b.exact <= x /\ x < b.exact + b.range
          /\ bound \in Nat /\ bound = Share(a, ContextAt(bits, a.coded))
      BY <2>4, <2>5, <2>8, <2>9, <2>10
    <3> HIDE DEF a, b, x
    <3>2. /\ bit = bits[a.coded + 1]
          /\ b.range = (IF bit = 0 THEN bound ELSE a.range - bound)
          /\ (IF bit = 0 THEN code ELSE code - bound) + b.exact = x
      BY <2>11, <3>1, BitTold
    <3> QED
      BY <3>2 DEF a, b, x
  <2>13. range' = h[j + 1].range /\ code' + h[j + 1].exact = t[position']
    BY <1>1, <2>5, <2>12
  <2>14. probability' = h[j + 1].probability
    <3>1. h[j + 1].probability = Adapted(h[j].probability, ContextAt(bits, h[j].coded), bit)
      BY <2>4, <2>12 DEF CodesBit
    <3>2. probability' = Adapted(probability, context, bit)
      BY <1>1 DEF Adapt, Adapted
    <3> QED
      BY <2>5, <2>7, <3>1, <3>2
  <2>15. Len(decoded') = h[j + 1].coded /\ \A i \in 1..Len(decoded') : decoded'[i] = bits'[i]
    <3>1. decoded \in Seq({0, 1}) /\ Len(decoded) \in Nat
      BY <1>1 DEF TypeInv
    <3>2. bit \in {0, 1}
      BY <2>11
    <3>3. /\ Len(decoded') = Len(decoded) + 1 /\ decoded'[Len(decoded) + 1] = bit
          /\ \A i \in 1..Len(decoded) : decoded'[i] = decoded[i]
      BY <1>1, <3>1, <3>2
    <3>4. bit = bits[Len(decoded) + 1]
      BY <2>5, <2>12
    <3> SUFFICES ASSUME NEW i \in 1..Len(decoded') PROVE decoded'[i] = bits[i]
      BY <1>1, <2>5, <2>6, <3>3
    <3>5. i \in 1..Len(decoded) \/ i = Len(decoded) + 1
      BY <3>1, <3>3
    <3> QED
      BY <2>5, <3>3, <3>4, <3>5
  <2>16. At(h[j + 1], t)'
    BY <1>1, <2>5, <2>6, <2>13, <2>14, <2>15 DEF At
  <2>17. Complete(h, k, t)'
    BY <1>1, <2>2 DEF Complete
  <2> QED
    BY <1>1, <2>4, <2>16, <2>17 DEF DecodeTrace
<1>3. EncodeTrace' /\ FlushTrace' /\ FlushSum' /\ Idle' /\ RoundTrip'
  BY <1>1 DEF EncodeTrace, FlushTrace, FlushSum, Idle, RoundTrip, TraceInv
<1> QED
  BY <1>2, <1>3 DEF TraceInv

(* A byte comes in where the encoder shifted one out.                      *)
LEMMA RefillTraced ==
    ASSUME CoderInv, TraceInv, Refill
    PROVE  TraceInv'
<1>1. /\ TypeInv /\ phase = "decode" /\ phase' = "decode" /\ range < Top /\ range' = range * Base
      /\ code' = (code % Top) * Base + output[position + 1] /\ position' = position + 1
      /\ UNCHANGED <<foreign, bits, probability, output, decoded>>
  BY DEF CoderInv, Refill, ReadByte, encoderVars
<1>2. DecodeTrace'
  <2> SUFFICES ASSUME ~foreign PROVE DecodeTrace'
    BY <1>1 DEF DecodeTrace
  <2>1. PICK k \in Nat : \E h, t : Complete(h, k, t) /\ \E j \in 0..k : At(h[j], t)
    BY <1>1, DecodePlace
  <2>2. PICK h, t : Complete(h, k, t) /\ \E j \in 0..k : At(h[j], t)
    BY <2>1
  <2>3. PICK j \in 0..k : At(h[j], t)
    BY <2>2
  <2>4. /\ range = h[j].range /\ probability = h[j].probability /\ Len(decoded) = h[j].coded
        /\ \A i \in 1..Len(decoded) : decoded[i] = bits[i]
        /\ position = FlushCount + h[j].shifts /\ code + h[j].exact = t[position]
    BY <2>3 DEF At
  <2>5. range \in Nat /\ Top \in Nat /\ code \in Nat /\ position \in Nat /\ Base \in Nat
    BY <1>1, FullSize, RegisterPower DEF TypeInv
  <2>6. /\ j + 1 \in 0..k /\ h[j] \in Milestone /\ h[j + 1] \in Milestone
        /\ Inside(h, k, t, j) /\ Inside(h, k, t, j + 1) /\ Shifts(h[j], h[j + 1])
    <3>1. ~(range >= Top)
      BY <1>1, <2>5
    <3> QED
      BY <1>1, <2>2, <2>3, <3>1, NextMilestone
  <2>7. /\ h[j + 1].coded = h[j].coded /\ h[j + 1].shifts = h[j].shifts + 1
        /\ h[j + 1].probability = h[j].probability
        /\ h[j + 1].range = h[j].range * Base /\ h[j + 1].exact = h[j].exact * Base
    BY <2>6 DEF Shifts
  <2>8. /\ h[j].exact \in Nat /\ h[j].range \in Nat /\ h[j].shifts \in Nat
    BY <2>6, MilestoneNumbers
  <2>9. code < Top
    <3> DEFINE e == h[j].exact
    <3>1. code + e < e + range /\ e \in Nat
      BY <2>4, <2>6, <2>8 DEF Inside
    <3> HIDE DEF e
    <3> QED
      BY <1>1, <2>5, <3>1
  <2>10. position + 1 \in 1..Len(output) /\ (position + 1) - 1 = position
    <3>1. position < Len(output)
      BY DEF Refill, ReadByte
    <3>2. Len(output) \in Nat
      BY <1>1 DEF TypeInv
    <3> QED
      BY <2>5, <3>1, <3>2
  <2>11. output[position + 1] \in 0..(Base - 1) /\ t[position + 1] = t[position] * Base + output[position + 1]
    BY <1>1, <2>2, <2>10, PayloadFacts
  <2>12. code' + h[j + 1].exact = t[position']
    <3>1. code' = code * Base + output[position + 1]
      BY <1>1, <2>5, <2>9, Below
    <3> DEFINE e == h[j].exact
               d == output[position + 1]
               x == t[position]
    <3>2. /\ code' = code * Base + d /\ h[j + 1].exact = e * Base /\ t[position'] = x * Base + d
          /\ x = code + e /\ e \in Nat /\ d \in Nat
      BY <1>1, <2>4, <2>5, <2>7, <2>8, <2>11, <3>1
    <3> HIDE DEF e, d, x
    <3>3. (code * Base + d) + e * Base = (code + e) * Base + d
      BY <2>5, <3>2
    <3> QED
      BY <3>2, <3>3
  <2>13. position' = FlushCount + h[j + 1].shifts
    <3> DEFINE w == h[j].shifts
    <3>1. position' = (FlushCount + w) + 1 /\ h[j + 1].shifts = w + 1 /\ w \in Nat
      BY <1>1, <2>4, <2>7, <2>8
    <3> HIDE DEF w
    <3> QED
      BY <3>1, RegisterPower
  <2>14. At(h[j + 1], t)'
    BY <1>1, <2>4, <2>7, <2>12, <2>13 DEF At
  <2>15. Complete(h, k, t)'
    BY <1>1, <2>2 DEF Complete
  <2> QED
    BY <1>1, <2>6, <2>14, <2>15 DEF DecodeTrace
<1>3. EncodeTrace' /\ FlushTrace' /\ FlushSum' /\ Idle' /\ RoundTrip'
  BY <1>1 DEF EncodeTrace, FlushTrace, FlushSum, Idle, RoundTrip, TraceInv
<1> QED
  BY <1>2, <1>3 DEF TraceInv

(* The payload of the encoder is never too short.                          *)
LEMMA NeverTruncated ==
    ASSUME CoderInv, TraceInv, Truncated
    PROVE  foreign
<1> SUFFICES ASSUME ~foreign PROVE FALSE
  OBVIOUS
<1>1. TypeInv /\ position >= Len(output) /\ (phase = "start" \/ (phase = "decode" /\ range < Top))
  BY DEF CoderInv, Truncated
<1>2. position \in Nat /\ Len(output) \in Nat /\ FlushCount \in Nat /\ range \in Nat /\ Top \in Nat
  BY <1>1, FullSize, RegisterPower DEF TypeInv
<1>3. CASE phase = "start"
  <2>1. PICK k \in Nat : \E h, t : Complete(h, k, t) /\ Starting(t)
    BY <1>3 DEF TraceInv, DecodeTrace
  <2>2. PICK h, t : Complete(h, k, t) /\ Starting(t)
    BY <2>1
  <2>3. h[k].shifts \in Nat /\ Len(output) = FlushCount + h[k].shifts
    <3>1. k \in 0..k
      OBVIOUS
    <3> QED
      BY <1>1, <2>2, <3>1, PayloadFacts, MilestoneNumbers
  <2>4. position < FlushCount
    BY <2>2 DEF Starting
  <2> DEFINE w == h[k].shifts
  <2> HIDE DEF w
  <2>5. w \in Nat /\ Len(output) = FlushCount + w
    BY <2>3 DEF w
  <2> QED
    BY <1>1, <1>2, <2>4, <2>5
<1>4. CASE phase = "decode" /\ range < Top
  <2>1. PICK k \in Nat : \E h, t : Complete(h, k, t) /\ \E j \in 0..k : At(h[j], t)
    BY <1>1, <1>4, DecodePlace
  <2>2. PICK h, t : Complete(h, k, t) /\ \E j \in 0..k : At(h[j], t)
    BY <2>1
  <2>3. PICK j \in 0..k : At(h[j], t)
    BY <2>2
  <2>4. /\ h[j] \in Milestone /\ h[j + 1] \in Milestone /\ Inside(h, k, t, j + 1) /\ Shifts(h[j], h[j + 1])
    <3>1. ~(range >= Top)
      BY <1>2, <1>4
    <3> QED
      BY <1>1, <1>4, <2>2, <2>3, <3>1, NextMilestone
  <2> DEFINE v == h[j].shifts
             w == h[k].shifts
  <2>5. v \in Nat /\ w \in Nat /\ v + 1 <= w /\ position = FlushCount + v /\ Len(output) = FlushCount + w
    <3>1. h[k] \in Milestone /\ Len(output) = FlushCount + h[k].shifts
      <4>1. k \in 0..k
        OBVIOUS
      <4> QED
        BY <1>1, <2>2, <4>1, PayloadFacts
    <3>2. position = FlushCount + h[j].shifts
      BY <2>3 DEF At
    <3>3. h[j + 1].shifts = h[j].shifts + 1 /\ h[j + 1].shifts <= h[k].shifts
      BY <2>4 DEF Shifts, Inside
    <3> QED
      BY <2>4, <3>1, <3>2, <3>3, MilestoneNumbers
  <2> HIDE DEF v, w
  <2> QED
    BY <1>1, <1>2, <2>5
<1> QED
  BY <1>1, <1>3, <1>4

(* When all bits are decoded, all bytes are read.                          *)
LEMMA DecodeEndsTraced ==
    ASSUME CoderInv, TraceInv, DecodeEnds
    PROVE  TraceInv'
<1>1. /\ TypeInv /\ phase = "decode" /\ range >= Top /\ Len(decoded) = Len(bits)
      /\ phase' = (IF position = Len(output) THEN "done" ELSE "rejected")
      /\ UNCHANGED <<foreign, bits, decoded>>
  BY DEF CoderInv, DecodeEnds, decoderVars
<1>2. ASSUME ~foreign PROVE position = Len(output) /\ decoded = bits
  <2>1. PICK k \in Nat : \E h, t : Complete(h, k, t) /\ \E j \in 0..k : At(h[j], t)
    BY <1>1, <1>2, DecodePlace
  <2>2. PICK h, t : Complete(h, k, t) /\ \E j \in 0..k : At(h[j], t)
    BY <2>1
  <2>3. PICK j \in 0..k : At(h[j], t)
    BY <2>2
  <2>4. Len(decoded) = h[j].coded /\ \A i \in 1..Len(decoded) : decoded[i] = bits[i]
    BY <2>3 DEF At
  <2>5. j = k
    <3> SUFFICES ASSUME j # k PROVE FALSE
      OBVIOUS
    <3>1. CodesBit(bits, h[j], h[j + 1])
      BY <1>1, <2>2, <2>3, NextMilestone
    <3>2. h[j].coded + 1 \in 1..Len(bits)
      BY <3>1 DEF CodesBit
    <3>3. Len(bits) \in Nat /\ h[j].coded = Len(bits)
      BY <1>1, <2>4 DEF TypeInv
    <3> QED
      BY <3>2, <3>3
  <2>6. position = Len(output)
    BY <1>1, <2>2, <2>3, <2>5, NextMilestone
  <2>7. decoded = bits
    <3>1. decoded \in Seq({0, 1}) /\ bits \in Seq({0, 1}) /\ Len(decoded) = Len(bits)
      BY <1>1 DEF TypeInv
    <3>2. /\ decoded = [i \in 1..Len(decoded) |-> decoded[i]]
          /\ bits = [i \in 1..Len(decoded) |-> bits[i]]
      BY <3>1
    <3> QED
      BY <2>4, <3>2
  <2> QED
    BY <2>6, <2>7
<1>3. RoundTrip'
  BY <1>1, <1>2 DEF RoundTrip
<1>4. EncodeTrace' /\ FlushTrace' /\ FlushSum' /\ Idle' /\ DecodeTrace'
  BY <1>1 DEF EncodeTrace, FlushTrace, FlushSum, Idle, DecodeTrace
<1> QED
  BY <1>3, <1>4 DEF TraceInv

(* Every step of both sides keeps to the milestones.                       *)
LEMMA NextTraced == CoderInv /\ CarryExact /\ TraceInv /\ [Next]_vars => TraceInv'
<1> SUFFICES ASSUME CoderInv, CarryExact, TraceInv, [Next]_vars PROVE TraceInv'
  OBVIOUS
<1>0. CoderInv' /\ CarryExact'
  BY NextCoderInv, NextExact
<1>1. ASSUME NEW bit \in {0, 1}, EncodeBit(bit) PROVE TraceInv'
  BY <1>0, <1>1, EncodeTraced
<1>2. CASE Normalise
  BY <1>0, <1>2, NormaliseTraced
<1>3. CASE Finish
  BY <1>3, FinishTraced
<1>4. CASE Flush
  BY <1>4, FlushTraced
<1>5. CASE Handover
  BY <1>5, HandoverTraced
<1>6. CASE Start
  BY <1>6, StartTraced
<1>7. CASE DecodeBit
  BY <1>0, <1>7, DecodeBitTraced
<1>8. CASE Refill
  BY <1>8, RefillTraced
<1>9. CASE Truncated
  <2>1. foreign /\ foreign' = foreign /\ phase' = "rejected"
    BY <1>9, NeverTruncated DEF Truncated
  <2> QED
    BY <2>1 DEF TraceInv, EncodeTrace, FlushTrace, FlushSum, Idle, DecodeTrace, RoundTrip
<1>10. CASE DecodeEnds
  BY <1>10, DecodeEndsTraced
<1>11. CASE UNCHANGED vars
  <2>1. /\ UNCHANGED <<phase, foreign, bits, probability, range, low, cache, cacheSize, output, flushes,
                       exact, code, position, decoded>>
        /\ Held' = Held /\ Here' = Here
    BY <1>11 DEF vars, encoderVars, decoderVars, Held, Here
  <2>2. EncodeTrace' /\ FlushTrace' /\ Idle' /\ RoundTrip'
    BY <2>1 DEF TraceInv, EncodeTrace, FlushTrace, Idle, RoundTrip
  <2>3. FlushSum'
    BY <2>1 DEF TraceInv, FlushSum
  <2>4. DecodeTrace'
    BY <2>1 DEF TraceInv, DecodeTrace, Complete, Starting, At
  <2> QED
    BY <2>2, <2>3, <2>4 DEF TraceInv
<1> QED
  BY <1>1, <1>2, <1>3, <1>4, <1>5, <1>6, <1>7, <1>8, <1>9, <1>10, <1>11 DEF Next, Stopped

-----------------------------------------------------------------------------
(* The results                                                             *)

(* RangeEncoder and RangeDecoder: no register overflows but for the one    *)
(* bit of carry, no subtraction wraps, and no probability or interval      *)
(* becomes empty, also on a payload the encoder did not write.             *)
THEOREM RegistersAlwaysFit == Spec => []RegistersFit
<1>1. CoderInv => RegistersFit
  BY DEF CoderInv, TypeInv, RegistersFit
<1> QED
  BY <1>1, CoderInvariance, PTL

(* shift_low: a carry is always absorbed by the byte held in cache_, so no *)
(* byte that was output has to change.                                     *)
THEOREM CarryAlwaysStops == Spec => []CarryStops
<1>1. CoderInv => CarryStops
  BY DEF CoderInv
<1> QED
  BY <1>1, CoderInvariance, PTL

(* shift_low and the loop of encode_bit: however many all-ones bytes were  *)
(* held back, whenever the carry came, what was output, what is held back  *)
(* and low_ are together exactly the lower end of the interval.            *)
THEOREM CarryAlwaysExact == Spec => []CarryExact
<1>1. Init => CoderInv /\ CarryExact
  BY InitCoderInv, InitExact
<1>2. CoderInv /\ CarryExact /\ [Next]_vars => (CoderInv /\ CarryExact)'
  BY NextCoderInv, NextExact
<1> QED
  BY <1>1, <1>2, PTL DEF Spec

(* rc_encode's coder and rc_decode's: whatever is encoded is decoded, and  *)
(* the decoder uses exactly the bytes the encoder wrote.                   *)
THEOREM AlwaysRoundTrips == Spec => []RoundTrip
<1>1. Init => CoderInv /\ CarryExact /\ TraceInv
  BY InitCoderInv, InitExact, InitTrace
<1>2. CoderInv /\ CarryExact /\ TraceInv /\ [Next]_vars => (CoderInv /\ CarryExact /\ TraceInv)'
  BY NextCoderInv, NextExact, NextTraced
<1>3. TraceInv => RoundTrip
  BY DEF TraceInv
<1> QED
  BY <1>1, <1>2, <1>3, PTL DEF Spec

=============================================================================
