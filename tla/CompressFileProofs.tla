------------------------- MODULE CompressFileProofs --------------------------
(***************************************************************************)
(* Proofs about CompressFile for every block size, window and size of the  *)
(* source: what replaces the output can be decoded, whatever was buffered, *)
(* collapsed, cut or compared on the way, and a source file that changes   *)
(* its size is noticed.                                                    *)
(***************************************************************************)
EXTENDS CompressFile, WellFoundedInduction, TLAPS

-----------------------------------------------------------------------------
(* Cutting a stream into blocks                                            *)

SizesOf(blocks) == [i \in DOMAIN blocks |-> blocks[i].size]

(* The sum of the first k sizes of s.                                      *)
FirstOf(s, k) == Total([i \in 1..k |-> s[i]])

Need(size) == ExpectedBlockCount(size, BlockSize)

(* A whole chunk of what is left.                                          *)
Whole(left) == IF left < BlockSize THEN left ELSE BlockSize

(* No piece is longer than what is left before it.                         *)
PiecesFit(s, size) == \A k \in 1..Len(s) : s[k] <= size - FirstOf(s, k - 1)

(* No chunk was cut at a content boundary.                                 *)
PiecesWhole(s, size) == \A k \in 1..Len(s) : s[k] = Whole(size - FirstOf(s, k - 1))

(* s is a complete cut of a stream: there are at least as many pieces as   *)
(* chunks, and exactly as many only if every chunk is one piece.           *)
Cut(s, size) ==
    /\ s \in Seq(1..BlockSize)
    /\ Total(s) = size
    /\ PiecesFit(s, size)
    /\ Len(s) >= Need(size) /\ Len(s) <= size
    /\ Len(s) = Need(size) => PiecesWhole(s, size)

-----------------------------------------------------------------------------
(* The invariant                                                           *)

Coding == {"read", "cut", "finish"}

BeforeCoding == {"measure", "open", "fill", "probe", "choose"}

BetweenRounds == {"count", "create", "header"}

(* 1 for a chunk that is not cut to its end.                               *)
ChunkCount == IF chunk > 0 THEN 1 ELSE 0

(* The cut as far as it has come; between two chunks it stands at a        *)
(* multiple of the block size, or at the end.                              *)
CutOK ==
    /\ position <= StreamSize
    /\ Total(accepted) + chunk = position
    /\ PiecesFit(accepted, StreamSize)
    /\ Len(accepted) <= position - chunk
    /\ position < StreamSize => position = Need(position) * BlockSize
    /\ Len(accepted) + ChunkCount >= Need(position)
    /\ Len(accepted) + ChunkCount = Need(position) =>
         /\ PiecesWhole(accepted, StreamSize)
         /\ chunk > 0 => chunk = Whole(StreamSize - (position - chunk))

(* How far the calling thread is, and what it has cut by then.             *)
PositionOK ==
    /\ pc = "cut" => chunk > 0
    /\ pc \notin {"cut", "threw"} => chunk = 0
    /\ pc \in BeforeCoding => position = 0 /\ accepted = <<>> /\ encoded = <<>> /\ withPass = <<>>
    /\ pc \in BetweenRounds /\ ~buffered => position = 0 /\ accepted = <<>>
    /\ pc = "finish" => position = StreamSize
    /\ pc \in {"check", "patch", "close", "commit"} /\ ~buffered => position = StreamSize

(* What the choice of the stream-wide pass rests on.                       *)
ChoiceOK ==
    /\ pc \in {"measure", "open"} => ~buffered
    /\ pc = "measure" => inputSize = 0
    /\ pc \in BeforeCoding => collapsed = 0 /\ ~streamLzp /\ round = "plain"
    /\ pc \in {"fill", "probe", "choose", "copy"} => buffered
    /\ pc = "check" => ~buffered
    /\ buffered => inputSize > BlockSize /\ inputSize <= StreamLzpLimit
    /\ ~buffered => round = "plain" /\ collapsed = 0 /\ encoded = <<>> /\ withPass = <<>>
    /\ collapsed > 0 => collapsed < inputSize
    /\ round = "pass" => collapsed > 0 /\ withPass = <<>>
    /\ streamLzp => buffered /\ collapsed > 0
    /\ pc \in Coding /\ streamLzp => round = "pass"
    /\ withPass # <<>> => Cut(SizesOf(withPass), collapsed) /\ collapsed > 0

(* The sink holds the first blocks of the cut, in order.                   *)
SinkOK ==
    /\ pc \in Coding /\ buffered =>
         Len(encoded) <= Len(accepted) /\ \A i \in DOMAIN encoded : encoded[i].size = accepted[i]
    /\ ~buffered =>
         Len(written) <= Len(accepted) /\ \A i \in DOMAIN written : written[i].size = accepted[i]
    /\ pc \in BeforeCoding \cup BetweenRounds => written = <<>>
    /\ pc \in Coding /\ buffered => written = <<>>
    /\ pc \in BetweenRounds \cup {"copy"} /\ buffered => Cut(SizesOf(encoded), CodedSize)
    /\ pc = "copy" =>
         Len(written) <= Len(encoded) /\ \A i \in DOMAIN written : written[i] = encoded[i]
    /\ pc \in {"check", "patch", "close", "commit"} => Cut(SizesOf(written), CodedSize)
    /\ \A blocks \in {encoded, withPass, written} :
         \A i \in DOMAIN blocks : blocks[i].payload <= blocks[i].size

HeaderWith(segmented, count) ==
    [version |-> ArchiveVersion, directory |-> directory, streamLzp |-> streamLzp,
     segmented |-> segmented, blockSize |-> BlockSize, originalSize |-> inputSize,
     codedSize |-> CodedSize, streamBits |-> 20, blockCount |-> count]

HeaderWritten ==
    pc \in {"copy", "check", "patch"} \/ (pc \in Coding /\ ~buffered)

(* The header announces the fewest blocks there can be until it is         *)
(* corrected to those there are.                                           *)
HeaderOK ==
    /\ HeaderWritten => header = HeaderWith(FALSE, Announced)
    /\ pc \in {"close", "commit"} => header = HeaderWith(Len(written) # Announced, Len(written))
    /\ HeaderWritten \/ pc \in {"create", "header", "close", "commit"} =>
         BlockCountFits(CodedSize, BlockSize)

(* How much of the source was read: all of it when the archive is done.    *)
TakenOK ==
    /\ ~buffered => taken = position
    /\ pc = "fill" => taken = 0
    /\ buffered /\ pc \notin {"fill", "threw"} => taken = inputSize
    /\ pc \in {"patch", "close", "commit"} => taken = inputSize

OutputOK ==
    /\ pc = "commit" => ~outputBad
    /\ target # "old" => Ended

IndInv ==
    /\ TypeOK
    /\ CutOK
    /\ PositionOK
    /\ ChoiceOK
    /\ SinkOK
    /\ HeaderOK
    /\ TakenOK
    /\ OutputOK
    /\ Decodable

(* The counter of the blocks written never wraps around.                   *)
CountOK == Len(written) <= MaxBlockCount

-----------------------------------------------------------------------------
(* Sums                                                                    *)

(* A set of naturals that is not empty has a least element: what stands    *)
(* for induction here.                                                     *)
LEMMA Least ==
    ASSUME NEW T, T \subseteq Nat, T # {}
    PROVE  \E n \in T : \A m \in T : n <= m
<1>1. IsWellFoundedOn(OpToRel(<, Nat), Nat)
  BY NatLessThanWellFounded
<1>2. PICK n \in T : \A m \in T : ~(<<m, n>> \in OpToRel(<, Nat))
  BY <1>1, WFMin
<1>3. \A m \in T : ~(m < n)
  BY <1>2 DEF OpToRel
<1> QED
  BY <1>3

(* The partial sums of s up to the k-th.                                   *)
Sums(t, s, k) ==
    /\ t \in [0..k -> Nat]
    /\ t[0] = 0
    /\ \A n \in 1..k : t[n] = t[n - 1] + s[n]

(* Every sequence has its partial sums.                                    *)
LEMMA SumsExist ==
    ASSUME NEW s \in Seq(Nat), NEW k \in 0..Len(s)
    PROVE  \E t : Sums(t, s, k)
<1> DEFINE T == {n \in 0..Len(s) : ~\E t : Sums(t, s, n)}
<1>1. ASSUME T # {} PROVE FALSE
  <2>0. T \subseteq Nat
    OBVIOUS
  <2>1. PICK n \in T : \A m \in T : n <= m
    <3> HIDE DEF T
    <3> QED
      BY <1>1, <2>0, Least
  <2>2. n # 0
    <3>1. Sums([m \in 0..0 |-> 0], s, 0)
      BY DEF Sums
    <3> QED
      BY <3>1, <2>1
  <2>3. n - 1 \in 0..Len(s) /\ n \in 1..Len(s) /\ s[n] \in Nat /\ ~(n <= n - 1)
    BY <2>2
  <2>4. n - 1 \notin T
    BY <2>1, <2>3
  <2>5. PICK t : Sums(t, s, n - 1)
    BY <2>4, <2>3
  <2> DEFINE u == [m \in 0..n |-> IF m = n THEN t[n - 1] + s[n] ELSE t[m]]
  <2>6. u \in [0..n -> Nat]
    BY <2>3, <2>5 DEF Sums
  <2>7. u[0] = 0
    BY <2>3, <2>5 DEF Sums
  <2>8. ASSUME NEW m \in 1..n PROVE u[m] = u[m - 1] + s[m]
    <3>1. m \in 0..n /\ m - 1 \in 0..n /\ m - 1 # n
      BY <2>3
    <3>2. CASE m = n
      BY <3>1, <3>2
    <3>3. CASE m # n
      <4>1. m \in 1..(n - 1)
        BY <3>3, <2>3
      <4>2. t[m] = t[m - 1] + s[m]
        BY <4>1, <2>5 DEF Sums
      <4> QED
        BY <3>1, <3>3, <4>2
    <3> QED
      BY <3>2, <3>3
  <2>9. Sums(u, s, n)
    <3> HIDE DEF u
    <3> QED
      BY <2>6, <2>7, <2>8 DEF Sums
  <2> QED
    BY <2>1, <2>9
<1> QED
  BY <1>1

(* Partial sums depend on nothing but what is summed.                      *)
LEMMA SumsUnique ==
    ASSUME NEW t, NEW s, NEW k \in Nat, Sums(t, s, k),
           NEW u, NEW r, NEW l \in Nat, Sums(u, r, l),
           k <= l, \A n \in 1..k : r[n] = s[n]
    PROVE  \A m \in 0..k : t[m] = u[m]
<1> DEFINE T == {m \in 0..k : t[m] # u[m]}
<1>1. ASSUME T # {} PROVE FALSE
  <2>0. T \subseteq Nat
    OBVIOUS
  <2>1. PICK m \in T : \A i \in T : m <= i
    <3> HIDE DEF T
    <3> QED
      BY <1>1, <2>0, Least
  <2>2. m # 0
    BY <2>1 DEF Sums
  <2>3. m - 1 \in 0..k /\ m \in 1..k /\ m \in 1..l /\ ~(m <= m - 1)
    BY <2>1, <2>2
  <2>4. t[m - 1] = u[m - 1]
    BY <2>1, <2>3
  <2>5. t[m] = t[m - 1] + s[m] /\ u[m] = u[m - 1] + r[m] /\ r[m] = s[m]
    BY <2>3 DEF Sums
  <2> QED
    BY <2>1, <2>4, <2>5
<1> QED
  BY <1>1

(* The recursive definition of Total is its last partial sum.              *)
LEMMA TotalIsSum ==
    ASSUME NEW s \in Seq(Nat)
    PROVE  \E t : Sums(t, s, Len(s)) /\ Total(s) = t[Len(s)]
<1> DEFINE Def(t) == t = [n \in 0..Len(s) |-> IF n = 0 THEN 0 ELSE t[n - 1] + s[n]]
<1>1. PICK u : Sums(u, s, Len(s))
  BY SumsExist
<1>2. Def(u)
  <2>1. u = [n \in 0..Len(s) |-> u[n]]
    BY <1>1 DEF Sums
  <2>2. ASSUME NEW n \in 0..Len(s) PROVE u[n] = IF n = 0 THEN 0 ELSE u[n - 1] + s[n]
    <3>1. n = 0 \/ n \in 1..Len(s)
      OBVIOUS
    <3> QED
      BY <1>1, <3>1 DEF Sums
  <2> QED
    BY <2>1, <2>2
<1> DEFINE t == CHOOSE x : Def(x)
<1>3. Def(t)
  <2> HIDE DEF Def
  <2> QED
    BY <1>2
<1>4. Total(s) = t[Len(s)]
  BY DEF Total
<1> HIDE DEF t
<1>5. \A n \in 0..Len(s) : t[n] = IF n = 0 THEN 0 ELSE t[n - 1] + s[n]
  BY <1>3
<1> HIDE DEF Def
<1>6. \A n \in 0..Len(s) : t[n] = u[n]
  <2> DEFINE T == {n \in 0..Len(s) : t[n] # u[n]}
  <2>1. ASSUME T # {} PROVE FALSE
    <3>0. T \subseteq Nat
      OBVIOUS
    <3>1. PICK n \in T : \A i \in T : n <= i
      <4> HIDE DEF T
      <4> QED
        BY <2>1, <3>0, Least
    <3>2. n # 0
      BY <1>1, <1>5, <3>1 DEF Sums
    <3>3. n - 1 \in 0..Len(s) /\ n \in 1..Len(s) /\ ~(n <= n - 1)
      BY <3>1, <3>2
    <3>4. t[n - 1] = u[n - 1]
      BY <3>1, <3>3
    <3>5. u[n] = u[n - 1] + s[n]
      BY <1>1, <3>3 DEF Sums
    <3> QED
      BY <1>5, <3>1, <3>2, <3>4, <3>5
  <2> QED
    BY <2>1
<1>7. Total(s) = u[Len(s)]
  BY <1>4, <1>6
<1> QED
  BY <1>1, <1>7

(* Sizes add up to a size.                                                 *)
LEMMA TotalIsNat ==
    ASSUME NEW s \in Seq(Nat)
    PROVE  Total(s) \in Nat
BY TotalIsSum DEF Sums

(* No sizes add up to nothing.                                             *)
LEMMA TotalEmpty == Total(<<>>) = 0
<1>1. <<>> \in Seq(Nat) /\ Len(<<>>) = 0
  OBVIOUS
<1> QED
  BY <1>1, TotalIsSum DEF Sums

(* One more size is added.                                                 *)
LEMMA TotalAppend ==
    ASSUME NEW s \in Seq(Nat), NEW x \in Nat
    PROVE  Total(Append(s, x)) = Total(s) + x
<1> DEFINE r == Append(s, x)
<1>1. r \in Seq(Nat) /\ Len(r) = Len(s) + 1 /\ r[Len(r)] = x /\ \A n \in 1..Len(s) : r[n] = s[n]
  OBVIOUS
<1> HIDE DEF r
<1>2. PICK t : Sums(t, s, Len(s)) /\ Total(s) = t[Len(s)]
  BY TotalIsSum
<1>3. PICK u : Sums(u, r, Len(r)) /\ Total(r) = u[Len(r)]
  BY <1>1, TotalIsSum
<1>4. Len(s) \in Nat /\ Len(r) \in Nat /\ Len(s) <= Len(r) /\ Len(s) \in 0..Len(s)
      /\ Len(r) \in 1..Len(r) /\ Len(r) - 1 = Len(s)
  BY <1>1
<1>5. u[Len(s)] = t[Len(s)]
  <2>1. \A n \in 1..Len(s) : r[n] = s[n]
    BY <1>1
  <2>2. Sums(t, s, Len(s)) /\ Sums(u, r, Len(r)) /\ Len(s) \in Nat /\ Len(r) \in Nat
        /\ Len(s) <= Len(r) /\ Len(s) \in 0..Len(s)
    BY <1>2, <1>3, <1>4
  <2>3. \A m \in 0..Len(s) : t[m] = u[m]
    BY ONLY <2>1, <2>2, SumsUnique
  <2> QED
    BY <2>2, <2>3
<1>6. u[Len(r)] = u[Len(r) - 1] + r[Len(r)]
  BY <1>3, <1>4 DEF Sums
<1> QED
  BY <1>1, <1>2, <1>3, <1>4, <1>5, <1>6 DEF r

(* A sum is no smaller than the first of its terms.                        *)
LEMMA TotalAtLeastFirst ==
    ASSUME NEW s \in Seq(Nat), Len(s) >= 1
    PROVE  Total(s) >= s[1]
<1>1. PICK t : Sums(t, s, Len(s)) /\ Total(s) = t[Len(s)]
  BY TotalIsSum
<1>2. t[1] = s[1]
  <2>1. 1 \in 1..Len(s) /\ 1 - 1 = 0 /\ s[1] \in Nat
    OBVIOUS
  <2> QED
    BY <1>1, <2>1 DEF Sums
<1> DEFINE T == {n \in 1..Len(s) : ~(t[n] >= s[1])}
<1>3. ASSUME T # {} PROVE FALSE
  <2>0. T \subseteq Nat
    OBVIOUS
  <2>1. PICK n \in T : \A i \in T : n <= i
    <3> HIDE DEF T
    <3> QED
      BY <1>3, <2>0, Least
  <2>2. n \in 1..Len(s) /\ ~(t[n] >= s[1])
    BY <2>1
  <2>3. n # 1
    BY <1>2, <2>2
  <2>4. n - 1 \in 1..Len(s) /\ n - 1 \in 0..Len(s) /\ ~(n <= n - 1) /\ s[n] \in Nat /\ s[1] \in Nat
    BY <2>2, <2>3
  <2>5. t[n - 1] >= s[1]
    BY <2>1, <2>4
  <2>6. t[n] = t[n - 1] + s[n] /\ t[n - 1] \in Nat
    BY <1>1, <2>2, <2>4 DEF Sums
  <2> QED
    BY <2>2, <2>4, <2>5, <2>6
<1>4. Len(s) \in 1..Len(s)
  OBVIOUS
<1> QED
  BY <1>1, <1>3, <1>4

-----------------------------------------------------------------------------
(* Block counts                                                            *)

(* Blocks hold at least one byte.                                          *)
LEMMA Positive == BlockSize \in Nat \ {0} /\ BlockSize <= MaxBlockSize
BY CompressAssumption, FormatAssumption DEF BlockSizeValid

(* Nothing takes no block.                                                 *)
LEMMA NeedZero == Need(0) = 0
BY DEF Need, ExpectedBlockCount

(* A count of blocks is a number.                                          *)
LEMMA NeedIsNat == ASSUME NEW size \in Nat PROVE Need(size) \in Nat
BY Positive DEF Need, ExpectedBlockCount

(* Quotient and remainder determine each other.                            *)
LEMMA Quotient ==
    ASSUME NEW b \in Nat \ {0}, NEW c \in Nat, NEW r \in 0..(b - 1)
    PROVE  (c * b + r) \div b = c
<1> DEFINE n == c * b + r
           q == n \div b
           m == n % b
<1>1. c * b \in Nat /\ n \in Nat
  OBVIOUS
<1>2. q \in Nat /\ m \in 0..(b - 1) /\ n = b * q + m
  <2> HIDE DEF n
  <2> QED
    BY <1>1
<1> HIDE DEF q, m
<1>3. CASE q > c
  <2>1. PICK k \in Nat : q = c + 1 + k
    <3>1. q - c - 1 \in Nat /\ q = c + 1 + (q - c - 1)
      BY <1>2, <1>3
    <3> QED
      BY <3>1
  <2>2. b * (c + 1 + k) = c * b + b + b * k /\ b * k \in Nat
    BY <2>1
  <2> QED
    BY <1>1, <1>2, <2>1, <2>2
<1>4. CASE q < c
  <2>1. PICK k \in Nat : c = q + 1 + k
    <3>1. c - q - 1 \in Nat /\ c = q + 1 + (c - q - 1)
      BY <1>2, <1>4
    <3> QED
      BY <3>1
  <2>2. (q + 1 + k) * b = b * q + b + b * k /\ b * k \in Nat
    BY <1>2, <2>1
  <2> QED
    BY <1>1, <1>2, <2>1, <2>2
<1> QED
  BY <1>2, <1>3, <1>4 DEF q

(* One chunk more, whole or not, takes one block more.                     *)
LEMMA NeedNext ==
    ASSUME NEW c \in Nat, NEW x \in 1..BlockSize
    PROVE  Need(c * BlockSize + x) = c + 1
<1>1. PICK m \in Nat : m = c * BlockSize
  BY Positive
<1>2. x \in Nat /\ x - 1 \in 0..(BlockSize - 1) /\ m + x # 0 /\ m + x - 1 = m + (x - 1)
  BY Positive
<1>3. (m + (x - 1)) \div BlockSize = c
  BY <1>1, <1>2, Positive, Quotient
<1>4. Need(m + x) = c + 1
  BY <1>2, <1>3 DEF Need, ExpectedBlockCount
<1> QED
  BY <1>1, <1>4

-----------------------------------------------------------------------------
(* Cuts                                                                    *)

(* The first sizes of a sequence, also of one that grows.                  *)
LEMMA FirstOfFacts ==
    ASSUME NEW s \in Seq(Nat)
    PROVE  /\ FirstOf(s, Len(s)) = Total(s)
           /\ \A k \in 0..Len(s) : FirstOf(s, k) \in Nat
<1>1. [i \in 1..Len(s) |-> s[i]] = s
  OBVIOUS
<1>2. ASSUME NEW k \in 0..Len(s) PROVE FirstOf(s, k) \in Nat
  <2>1. [i \in 1..k |-> s[i]] \in Seq(Nat)
    <3>1. \A i \in 1..k : s[i] \in Nat
      OBVIOUS
    <3> QED
      BY <3>1
  <2> QED
    BY <2>1, TotalIsNat DEF FirstOf
<1> QED
  BY <1>1, <1>2 DEF FirstOf

(* A piece more leaves the sums before it as they are.                     *)
LEMMA FirstOfAppend ==
    ASSUME NEW s \in Seq(Nat), NEW x \in Nat, NEW k \in 0..Len(s)
    PROVE  FirstOf(Append(s, x), k) = FirstOf(s, k)
<1>1. [i \in 1..k |-> Append(s, x)[i]] = [i \in 1..k |-> s[i]]
  OBVIOUS
<1> QED
  BY <1>1 DEF FirstOf

(* One more piece, no longer than what is left, and as long as the chunk   *)
(* when the cut follows the chunks.                                        *)
LEMMA PieceAppended ==
    ASSUME NEW s \in Seq(Nat), NEW size \in Nat, NEW x \in Nat
    PROVE  /\ PiecesFit(s, size) /\ x <= size - Total(s) => PiecesFit(Append(s, x), size)
           /\ PiecesWhole(s, size) /\ x = Whole(size - Total(s)) => PiecesWhole(Append(s, x), size)
<1> DEFINE r == Append(s, x)
<1>1. Len(r) = Len(s) + 1 /\ r[Len(s) + 1] = x /\ \A k \in 1..Len(s) : r[k] = s[k]
  OBVIOUS
<1>2. \A k \in 1..Len(s) : FirstOf(r, k - 1) = FirstOf(s, k - 1)
  BY FirstOfAppend
<1>3. FirstOf(r, Len(s)) = Total(s)
  BY FirstOfAppend, FirstOfFacts
<1> HIDE DEF r
<1>4. ASSUME NEW k \in 1..Len(r) PROVE k \in 1..Len(s) \/ (k = Len(s) + 1 /\ k - 1 = Len(s))
  BY <1>1
<1>5. ASSUME PiecesFit(s, size), x <= size - Total(s) PROVE PiecesFit(r, size)
  BY <1>1, <1>2, <1>3, <1>4, <1>5 DEF PiecesFit
<1>6. ASSUME PiecesWhole(s, size), x = Whole(size - Total(s)) PROVE PiecesWhole(r, size)
  BY <1>1, <1>2, <1>3, <1>4, <1>6 DEF PiecesWhole
<1> QED
  BY <1>5, <1>6 DEF r

-----------------------------------------------------------------------------
(* What holds of any state of the invariant                                *)

Block == [size : 1..BlockSize, payload : 1..BlockSize]

Blocks == Seq(Block)

(* Sizes and counts are numbers.                                           *)
LEMMA Numbers ==
    ASSUME TypeOK
    PROVE  /\ inputSize \in Nat /\ collapsed \in Nat /\ StreamSize \in Nat /\ CodedSize \in Nat
           /\ position \in Nat /\ chunk \in Nat /\ taken \in Nat /\ window \in Nat \ {0}
           /\ accepted \in Seq(Nat) /\ Len(accepted) \in Nat /\ Total(accepted) \in Nat
           /\ Len(encoded) \in Nat /\ Len(written) \in Nat /\ Len(withPass) \in Nat
           /\ encoded \in Blocks /\ written \in Blocks /\ withPass \in Blocks
<1>1. inputSize \in Nat /\ collapsed \in Nat /\ window \in Nat \ {0}
  BY CompressAssumption DEF TypeOK
<1>2. StreamSize \in Nat /\ CodedSize \in Nat
  BY <1>1 DEF StreamSize, CodedSize
<1>3. accepted \in Seq(Nat)
  BY Positive DEF TypeOK
<1> QED
  BY <1>1, <1>2, <1>3, TotalIsNat, Positive DEF TypeOK, Blocks, Block

(* The sizes of a sequence of blocks.                                      *)
LEMMA SizesAreSizes ==
    ASSUME NEW blocks \in Blocks
    PROVE  /\ SizesOf(blocks) \in Seq(1..BlockSize) /\ SizesOf(blocks) \in Seq(Nat)
           /\ Len(SizesOf(blocks)) = Len(blocks)
           /\ DOMAIN SizesOf(blocks) = DOMAIN blocks
           /\ \A i \in DOMAIN blocks : SizesOf(blocks)[i] = blocks[i].size
<1>1. DOMAIN blocks = 1..Len(blocks) /\ Len(blocks) \in Nat
  BY DEF Blocks
<1>2. \A i \in 1..Len(blocks) : blocks[i].size \in 1..BlockSize
  <2> SUFFICES ASSUME NEW i \in 1..Len(blocks) PROVE blocks[i].size \in 1..BlockSize
    OBVIOUS
  <2>1. blocks[i] \in Block
    BY DEF Blocks
  <2> QED
    BY <2>1 DEF Block
<1>3. SizesOf(blocks) = [i \in 1..Len(blocks) |-> blocks[i].size]
  BY <1>1 DEF SizesOf
<1> QED
  BY <1>1, <1>2, <1>3, Positive

(* The cut does not change with other variables.                           *)
LEMMA CutMoves ==
    ASSUME CutOK, UNCHANGED <<inputSize, buffered, collapsed, round, position, chunk, accepted>>
    PROVE  CutOK'
BY DEF CutOK, StreamSize, ChunkCount

(* Where nothing is cut yet the stream may be any.                         *)
LEMMA CutStarts ==
    ASSUME position' = 0, chunk' = 0, accepted' = <<>>, StreamSize' \in Nat
    PROVE  CutOK'
<1>1. Len(accepted') = 0 /\ Total(accepted') = 0 /\ Need(position') = 0 /\ ChunkCount' = 0
  BY TotalEmpty, NeedZero DEF ChunkCount
<1>2. PiecesFit(accepted', StreamSize') /\ PiecesWhole(accepted', StreamSize')
  BY <1>1 DEF PiecesFit, PiecesWhole
<1>3. 0 = 0 * BlockSize
  BY Positive
<1> QED
  BY <1>1, <1>2, <1>3 DEF CutOK

(* A cut that has reached the end of its stream is complete.               *)
LEMMA CutComplete ==
    ASSUME TypeOK, CutOK, position = StreamSize, chunk = 0
    PROVE  Cut(accepted, StreamSize)
<1>1. Need(position) \in Nat
  BY Numbers, NeedIsNat
<1> QED
  BY <1>1, Numbers DEF TypeOK, CutOK, Cut, ChunkCount

(* So are the blocks a sink has got of it, once it has got them all.       *)
LEMMA SinkComplete ==
    ASSUME TypeOK, CutOK, position = StreamSize, chunk = 0,
           NEW blocks \in Blocks, Len(blocks) = Len(accepted),
           \A i \in DOMAIN blocks : blocks[i].size = accepted[i]
    PROVE  Cut(SizesOf(blocks), StreamSize)
<1>1. SizesOf(blocks) = accepted
  <2>1. /\ SizesOf(blocks) \in Seq(Nat) /\ accepted \in Seq(Nat)
        /\ Len(SizesOf(blocks)) = Len(accepted)
    BY SizesAreSizes, Numbers
  <2>2. \A i \in 1..Len(accepted) : SizesOf(blocks)[i] = accepted[i]
    <3>1. DOMAIN blocks = 1..Len(accepted)
      BY DEF Blocks
    <3>2. \A i \in DOMAIN blocks : SizesOf(blocks)[i] = blocks[i].size
      BY SizesAreSizes
    <3> QED
      BY <3>1, <3>2
  <2> QED
    BY <2>1, <2>2
<1> QED
  BY <1>1, CutComplete

(* The invariant holds at the start.                                       *)
LEMMA InitIndInv == Init => IndInv
<1> SUFFICES ASSUME Init PROVE IndInv
  OBVIOUS
<1> USE DEF Init
<1>1. TypeOK
  <2>1. \A S : <<>> \in Seq(S)
    OBVIOUS
  <2>2. \A blocks \in {encoded, withPass, written} :
          blocks \in Seq([size : 1..BlockSize, payload : 1..BlockSize])
    BY <2>1
  <2>3. /\ taken \in 0..inputSize /\ collapsed \in 0..inputSize /\ position \in 0..inputSize
        /\ chunk \in 0..BlockSize /\ accepted \in Seq(1..BlockSize)
    BY <2>1, Positive
  <2> QED
    BY <2>2, <2>3 DEF TypeOK, Positions
<1>2. CutOK
  <2>1. Len(accepted) = 0 /\ Total(accepted) = 0 /\ Need(position) = 0 /\ ChunkCount = 0
    BY TotalEmpty, NeedZero DEF ChunkCount
  <2>2. PiecesFit(accepted, StreamSize) /\ PiecesWhole(accepted, StreamSize)
    BY <2>1 DEF PiecesFit, PiecesWhole
  <2>3. 0 = 0 * BlockSize /\ StreamSize = 0
    BY Positive DEF StreamSize
  <2> QED
    BY <2>1, <2>2, <2>3 DEF CutOK
<1>3. PositionOK /\ ChoiceOK
  BY DEF PositionOK, ChoiceOK, BeforeCoding, BetweenRounds, Coding
<1>4. SinkOK
  BY DEF SinkOK, BeforeCoding, BetweenRounds, Coding
<1>5. HeaderOK /\ TakenOK /\ OutputOK /\ Decodable
  BY DEF HeaderOK, HeaderWritten, TakenOK, OutputOK, Decodable, Coding
<1> QED
  BY <1>1, <1>2, <1>3, <1>4, <1>5 DEF IndInv

-----------------------------------------------------------------------------
(* Steps before the stream is coded                                        *)

(* The size is taken; nothing is chosen or read yet.                       *)
LEMMA MeasureStep ==
    ASSUME IndInv, Measure
    PROVE  IndInv'
<1> USE DEF Measure, sourceVars, choiceVars, pipeVars, fileVars
<1>0. position = 0 /\ chunk = 0 /\ accepted = <<>> /\ taken = 0 /\ ~buffered /\ collapsed = 0
      /\ target = "old" /\ round = "plain"
  BY DEF IndInv, PositionOK, ChoiceOK, TakenOK, OutputOK, BeforeCoding, Ended
<1>1. TypeOK'
  BY <1>0, CompressAssumption DEF IndInv, TypeOK, Positions
<1>2. CutOK'
  BY <1>0, <1>1, CompressAssumption, CutStarts DEF TypeOK, StreamSize
<1>3. PositionOK' /\ TakenOK'
  BY <1>0 DEF IndInv, PositionOK, TakenOK, BeforeCoding, BetweenRounds
<1>4. ChoiceOK'
  BY <1>0 DEF IndInv, ChoiceOK, BeforeCoding, Coding
<1>5. SinkOK'
  BY <1>0 DEF IndInv, SinkOK, BeforeCoding, BetweenRounds, Coding
<1>6. HeaderOK' /\ OutputOK' /\ Decodable'
  BY <1>0 DEF HeaderOK, HeaderWritten, OutputOK, Decodable, Coding
<1> QED
  BY <1>1, <1>2, <1>3, <1>4, <1>5, <1>6 DEF IndInv

(* Whether the source is buffered; no stream is chosen yet.                *)
LEMMA OpenStep ==
    ASSUME IndInv, Open
    PROVE  IndInv'
<1> USE DEF Open, sourceVars, choiceVars, pipeVars, fileVars
<1>0. /\ position = 0 /\ chunk = 0 /\ accepted = <<>> /\ taken = 0 /\ collapsed = 0 /\ ~buffered
      /\ encoded = <<>> /\ withPass = <<>> /\ written = <<>> /\ ~streamLzp
      /\ target = "old" /\ round = "plain" /\ pc' \in {"fill", "count"}
      /\ buffered' => pc' = "fill"
      /\ ~buffered' => pc' = "count"
  BY DEF IndInv, PositionOK, ChoiceOK, SinkOK, TakenOK, OutputOK, BeforeCoding, Ended
<1>1. TypeOK'
  BY <1>0 DEF IndInv, TypeOK, Positions
<1>2. CutOK'
  BY <1>0, <1>1, Numbers, CutStarts DEF IndInv, StreamSize
<1>3. PositionOK' /\ TakenOK'
  BY <1>0 DEF PositionOK, TakenOK, BeforeCoding, BetweenRounds
<1>4. ChoiceOK'
  BY <1>0 DEF IndInv, ChoiceOK, BeforeCoding, Coding
<1>5. SinkOK'
  BY <1>0 DEF SinkOK, BeforeCoding, BetweenRounds, Coding
<1>6. HeaderOK' /\ OutputOK' /\ Decodable'
  BY <1>0 DEF HeaderOK, HeaderWritten, OutputOK, Decodable, Coding
<1> QED
  BY <1>1, <1>2, <1>3, <1>4, <1>5, <1>6 DEF IndInv

(* The whole source is read, and nothing more is found.                    *)
LEMMA FillProbeStep ==
    ASSUME IndInv, Fill \/ Probe
    PROVE  IndInv'
<1> USE DEF Fill, Probe, sourceVars, choiceVars, pipeVars, fileVars
<1>0. /\ chunk = 0 /\ target = "old" /\ buffered /\ pc \in {"fill", "probe"}
      /\ pc' \in {"probe", "choose"} /\ taken' = inputSize
      /\ UNCHANGED <<fileSize, directory, inputSize, window, buffered, collapsed, round, withPass,
                     streamLzp, position, chunk, accepted, encoded, header, written, outputBad,
                     temporary, target>>
  BY DEF IndInv, PositionOK, ChoiceOK, TakenOK, OutputOK, BeforeCoding, Ended
<1>1. TypeOK'
  BY <1>0, Numbers DEF IndInv, TypeOK, Positions
<1>2. CutOK'
  BY <1>0, CutMoves DEF IndInv
<1>3. PositionOK' /\ TakenOK'
  BY <1>0 DEF IndInv, PositionOK, TakenOK, BeforeCoding, BetweenRounds
<1>4. ChoiceOK'
  BY <1>0 DEF IndInv, ChoiceOK, BeforeCoding, Coding
<1>5. SinkOK'
  BY <1>0 DEF IndInv, SinkOK, BeforeCoding, BetweenRounds, Coding
<1>6. HeaderOK' /\ OutputOK' /\ Decodable'
  BY <1>0 DEF HeaderOK, HeaderWritten, OutputOK, Decodable, Coding
<1> QED
  BY <1>1, <1>2, <1>3, <1>4, <1>5, <1>6 DEF IndInv

(* The stream-wide pass gave nothing, a decisive or a marginal stream.     *)
LEMMA ChooseStep ==
    ASSUME IndInv, Choose
    PROVE  IndInv'
<1> USE DEF Choose, sourceVars, choiceVars, pipeVars, fileVars
<1>0. /\ position = 0 /\ chunk = 0 /\ accepted = <<>> /\ target = "old" /\ buffered
      /\ encoded = <<>> /\ withPass = <<>> /\ written = <<>> /\ ~streamLzp /\ taken = inputSize
      /\ inputSize \in Nat /\ inputSize > BlockSize /\ BlockSize \in Nat \ {0}
      /\ collapsed' \in 0..(inputSize - 1) /\ pc' = "read" /\ inputSize <= StreamLzpLimit
      /\ round' = (IF collapsed' = 0 THEN "plain" ELSE "pass")
      /\ streamLzp' => collapsed' # 0
      /\ UNCHANGED <<fileSize, directory, inputSize, window, taken, buffered, withPass, position,
                     chunk, accepted, encoded, header, written, outputBad, temporary, target>>
  BY Positive, Numbers
     DEF IndInv, PositionOK, ChoiceOK, SinkOK, TakenOK, OutputOK, BeforeCoding, Ended
<1>1. TypeOK'
  BY <1>0 DEF IndInv, TypeOK, Positions
<1>2. CutOK'
  BY <1>0, CutStarts DEF StreamSize
<1>3. PositionOK' /\ TakenOK'
  BY <1>0 DEF PositionOK, TakenOK, BeforeCoding, BetweenRounds
<1>4. ChoiceOK'
  BY <1>0 DEF IndInv, ChoiceOK, BeforeCoding, Coding
<1>5. SinkOK'
  BY <1>0 DEF SinkOK, BeforeCoding, BetweenRounds, Coding
<1>6. HeaderOK' /\ OutputOK' /\ Decodable'
  BY <1>0 DEF HeaderOK, HeaderWritten, OutputOK, Decodable, Coding
<1> QED
  BY <1>1, <1>2, <1>3, <1>4, <1>5, <1>6 DEF IndInv

-----------------------------------------------------------------------------
(* Steps of the coding of a stream                                         *)

(* The parts of the invariant that no coding step disturbs.                *)
LEMMA CodingQuiet ==
    ASSUME IndInv, pc \in Coding, pc' \in Coding,
           UNCHANGED <<directory, inputSize, buffered, collapsed, streamLzp, header, outputBad, target>>
    PROVE  HeaderOK' /\ OutputOK' /\ Decodable'
<1>1. CodedSize' = CodedSize /\ target = "old"
  BY DEF CodedSize, IndInv, OutputOK, Ended, Coding
<1>2. HeaderOK'
  BY <1>1 DEF IndInv, HeaderOK, HeaderWritten, HeaderWith, Announced, Coding
<1> QED
  BY <1>1, <1>2 DEF OutputOK, Decodable, Coding

(* The next chunk begins where whole chunks end.                           *)
LEMMA TakeChunkStep ==
    ASSUME IndInv, TakeChunk
    PROVE  IndInv'
<1>0. /\ pc = "read" /\ pc' = "cut" /\ position < StreamSize /\ chunk = 0
      /\ chunk' = NextSize /\ position' = position + NextSize
      /\ taken' = IF buffered THEN taken ELSE taken + NextSize
      /\ UNCHANGED <<fileSize, directory, inputSize, window, buffered, collapsed, round, withPass,
                     streamLzp, accepted, encoded, header, written, outputBad, temporary, target>>
  BY DEF IndInv, PositionOK, TakeChunk, sourceVars, choiceVars, fileVars
<1>1. /\ BlockSize \in Nat \ {0} /\ position \in Nat /\ StreamSize \in Nat
      /\ inputSize \in Nat /\ StreamSize <= inputSize /\ StreamSize' = StreamSize
      /\ ~buffered => StreamSize = inputSize
      /\ Total(accepted) \in Nat /\ Len(accepted) \in Nat
  BY <1>0, Positive, Numbers DEF IndInv, TypeOK, StreamSize
<1>2. /\ NextSize \in 1..BlockSize /\ position + NextSize <= StreamSize
      /\ position + NextSize < StreamSize => NextSize = BlockSize
      /\ NextSize = Whole(StreamSize - position)
  BY <1>0, <1>1 DEF NextSize, Whole
<1>3. TypeOK'
  <2>1. /\ position' \in 0..inputSize' /\ chunk' \in 0..BlockSize
    BY <1>0, <1>1, <1>2
  <2>2. taken' \in 0..inputSize'
    BY <1>0, <1>1, <1>2 DEF IndInv, TypeOK, TakenOK
  <2> QED
    BY <1>0, <2>1, <2>2 DEF IndInv, TypeOK, Positions
<1>4. CutOK'
  <2> DEFINE c == Need(position)
             x == NextSize
  <2>1. c \in Nat /\ position = c * BlockSize
    BY <1>0, <1>1, NeedIsNat DEF IndInv, CutOK
  <2>2. Need(c * BlockSize + x) = c + 1
    BY <1>2, <2>1, NeedNext
  <2>3. Need(position') = c + 1
    BY <1>0, <2>1, <2>2
  <2>4. position' < StreamSize => position' = (c + 1) * BlockSize
    <3>1. (c + 1) * BlockSize = c * BlockSize + BlockSize
      BY <1>1, <2>1
    <3> QED
      BY <1>0, <1>2, <2>1, <3>1
  <2>5. /\ Total(accepted) = position /\ Len(accepted) <= position /\ Len(accepted) >= c
        /\ PiecesFit(accepted, StreamSize)
        /\ Len(accepted) = c => PiecesWhole(accepted, StreamSize)
    BY <1>0, <1>1 DEF IndInv, CutOK, ChunkCount
  <2>6. ChunkCount' = 1
    BY <1>0, <1>2 DEF ChunkCount
  <2>7. position' - chunk' = position
    BY <1>0, <1>1, <1>2
  <2> HIDE DEF c, x
  <2>8. /\ Total(accepted') + chunk' = position' /\ position' <= StreamSize'
        /\ PiecesFit(accepted', StreamSize') /\ Len(accepted') <= position' - chunk'
    BY <1>0, <1>1, <1>2, <2>5, <2>7
  <2>9. position' < StreamSize' => position' = Need(position') * BlockSize
    BY <1>1, <2>3, <2>4
  <2>10. /\ Len(accepted') + ChunkCount' >= Need(position')
         /\ Len(accepted') + ChunkCount' = Need(position') =>
              /\ PiecesWhole(accepted', StreamSize')
              /\ chunk' = Whole(StreamSize' - (position' - chunk'))
    <3>1. Len(accepted') + ChunkCount' = Len(accepted) + 1 /\ Need(position') = c + 1
      BY <1>0, <1>1, <2>3, <2>6
    <3>2. chunk' = Whole(StreamSize' - (position' - chunk'))
      BY <1>0, <1>1, <1>2, <2>7
    <3>3. Len(accepted) = c => PiecesWhole(accepted', StreamSize')
      BY <1>0, <1>1, <2>5
    <3> QED
      BY <1>1, <2>1, <2>5, <3>1, <3>2, <3>3
  <2> QED
    BY <2>8, <2>9, <2>10 DEF CutOK
<1>5. PositionOK' /\ ChoiceOK'
  BY <1>0, <1>1, <1>2 DEF IndInv, PositionOK, ChoiceOK, BeforeCoding, BetweenRounds, Coding
<1>6. SinkOK'
  BY <1>0 DEF IndInv, SinkOK, BeforeCoding, BetweenRounds, Coding
<1>7. TakenOK'
  BY <1>0 DEF IndInv, TakenOK
<1>8. HeaderOK' /\ OutputOK' /\ Decodable'
  BY <1>0, CodingQuiet DEF Coding
<1> QED
  BY <1>3, <1>4, <1>5, <1>6, <1>7, <1>8 DEF IndInv

(* The pipeline accepts a piece; it ends the chunk or leaves a rest.       *)
LEMMA SubmitPieceStep ==
    ASSUME IndInv, SubmitPiece
    PROVE  IndInv'
<1>0. PICK piece \in 1..chunk :
        /\ accepted' = Append(accepted, piece)
        /\ chunk' = chunk - piece
        /\ pc' = IF piece = chunk THEN "read" ELSE "cut"
  BY DEF SubmitPiece
<1>1. /\ pc = "cut"
      /\ UNCHANGED <<fileSize, directory, inputSize, window, taken, buffered, collapsed, round,
                     withPass, streamLzp, position, encoded, header, written, outputBad, temporary,
                     target>>
  BY DEF SubmitPiece, sourceVars, choiceVars, fileVars
<1>2. /\ BlockSize \in Nat \ {0} /\ position \in Nat /\ StreamSize \in Nat /\ chunk \in 1..BlockSize
      /\ piece \in Nat \ {0} /\ piece \in 1..BlockSize /\ StreamSize' = StreamSize
      /\ Total(accepted) \in Nat /\ Len(accepted) \in Nat /\ accepted \in Seq(Nat)
  BY <1>0, <1>1, Positive, Numbers DEF IndInv, TypeOK, StreamSize
<1>3. /\ accepted' \in Seq(1..BlockSize) /\ Len(accepted') = Len(accepted) + 1
      /\ \A i \in 1..Len(accepted) : accepted'[i] = accepted[i]
      /\ Total(accepted') = Total(accepted) + piece
  <2>1. accepted \in Seq(1..BlockSize)
    BY DEF IndInv, TypeOK
  <2> QED
    BY <1>0, <1>2, <2>1, TotalAppend
<1>4. TypeOK'
  <2>1. chunk' \in 0..BlockSize /\ pc' \in Positions
    BY <1>0, <1>2 DEF Positions
  <2> QED
    BY <1>1, <1>3, <2>1 DEF IndInv, TypeOK
<1>5. CutOK'
  <2>1. /\ Total(accepted) + chunk = position /\ position <= StreamSize
        /\ PiecesFit(accepted, StreamSize) /\ Len(accepted) <= position - chunk
        /\ position < StreamSize => position = Need(position) * BlockSize
        /\ Len(accepted) + 1 >= Need(position) /\ Need(position) \in Nat
        /\ Len(accepted) + 1 = Need(position) =>
             /\ PiecesWhole(accepted, StreamSize)
             /\ chunk = Whole(StreamSize - (position - chunk))
    BY <1>2, NeedIsNat DEF IndInv, CutOK, ChunkCount
  <2>2. PiecesFit(accepted', StreamSize')
    BY <1>0, <1>2, <2>1, PieceAppended
  <2>3. CASE piece = chunk
    <3>1. chunk' = 0 /\ ChunkCount' = 0
      BY <1>0, <1>2, <2>3 DEF ChunkCount
    <3>2. Len(accepted) + 1 = Need(position) => PiecesWhole(accepted', StreamSize')
      <4>1. StreamSize - (position - chunk) = StreamSize - Total(accepted)
        BY <1>2, <2>1
      <4> QED
        BY <1>0, <1>2, <2>1, <2>3, <4>1, PieceAppended
    <3>3. Total(accepted') + chunk' = position' /\ Len(accepted') <= position' - chunk'
      BY <1>1, <1>2, <1>3, <2>1, <2>3, <3>1
    <3>4. Len(accepted') + ChunkCount' = Len(accepted) + 1 /\ Need(position') = Need(position)
      BY <1>1, <1>2, <1>3, <3>1
    <3>5. position' < StreamSize' => position' = Need(position') * BlockSize
      BY <1>1, <1>2, <2>1
    <3>6. /\ Len(accepted') + ChunkCount' >= Need(position')
          /\ Len(accepted') + ChunkCount' = Need(position') => PiecesWhole(accepted', StreamSize')
      BY <2>1, <3>2, <3>4
    <3>7. ~(chunk' > 0) /\ position' <= StreamSize'
      BY <1>1, <1>2, <2>1, <3>1
    <3> QED
      BY <2>2, <3>3, <3>5, <3>6, <3>7 DEF CutOK
  <2>4. CASE piece # chunk
    <3>1. chunk' \in Nat \ {0} /\ ChunkCount' = 1 /\ chunk' = chunk - piece
      BY <1>0, <1>2, <2>4 DEF ChunkCount
    <3>2. Len(accepted') + 1 # Need(position)
      BY <1>2, <1>3, <2>1
    <3> QED
      BY <1>1, <1>2, <1>3, <2>1, <2>2, <3>1, <3>2 DEF CutOK
  <2> QED
    BY <2>3, <2>4
<1>6. PositionOK' /\ ChoiceOK' /\ TakenOK'
  BY <1>0, <1>1, <1>2
     DEF IndInv, PositionOK, ChoiceOK, TakenOK, BeforeCoding, BetweenRounds, Coding
<1>7. SinkOK'
  <2>1. /\ encoded \in Blocks /\ written \in Blocks
        /\ Len(encoded) \in Nat /\ Len(written) \in Nat
    BY Numbers DEF IndInv
  <2>2. /\ Len(encoded) <= Len(accepted) => \A i \in DOMAIN encoded : i \in 1..Len(accepted)
        /\ Len(written) <= Len(accepted) => \A i \in DOMAIN written : i \in 1..Len(accepted)
    BY <1>2, <2>1 DEF Blocks
  <2>3. /\ pc \in Coding /\ pc' \in Coding
        /\ pc' \notin BeforeCoding \cup BetweenRounds \cup {"copy", "check", "patch", "close", "commit"}
    BY <1>0, <1>1 DEF Coding, BeforeCoding, BetweenRounds
  <2>4. buffered => /\ Len(encoded) <= Len(accepted') /\ written = <<>>
                    /\ \A i \in DOMAIN encoded : encoded[i].size = accepted'[i]
    <3>1. buffered => /\ Len(encoded) <= Len(accepted) /\ written = <<>>
                      /\ \A i \in DOMAIN encoded : encoded[i].size = accepted[i]
      BY <2>3 DEF IndInv, SinkOK
    <3>2. buffered => \A i \in DOMAIN encoded : encoded[i].size = accepted'[i]
      BY <1>3, <2>2, <3>1
    <3>3. buffered => Len(encoded) <= Len(accepted')
      BY <1>2, <1>3, <2>1, <3>1
    <3> QED
      BY <3>1, <3>2, <3>3
  <2>5. ~buffered => /\ Len(written) <= Len(accepted')
                     /\ \A i \in DOMAIN written : written[i].size = accepted'[i]
    <3>1. ~buffered => /\ Len(written) <= Len(accepted)
                       /\ \A i \in DOMAIN written : written[i].size = accepted[i]
      BY DEF IndInv, SinkOK
    <3>2. ~buffered => \A i \in DOMAIN written : written[i].size = accepted'[i]
      BY <1>3, <2>2, <3>1
    <3>3. ~buffered => Len(written) <= Len(accepted')
      BY <1>2, <1>3, <2>1, <3>1
    <3> QED
      BY <3>1, <3>2, <3>3
  <2>6. \A blocks \in {encoded, withPass, written} :
          \A i \in DOMAIN blocks : blocks[i].payload <= blocks[i].size
    BY DEF IndInv, SinkOK
  <2> QED
    BY <1>1, <2>3, <2>4, <2>5, <2>6 DEF SinkOK
<1>8. HeaderOK' /\ OutputOK' /\ Decodable'
  BY <1>0, <1>1, CodingQuiet DEF Coding
<1> QED
  BY <1>4, <1>5, <1>6, <1>7, <1>8 DEF IndInv

(* No piece is longer than a block.                                        *)
LEMMA AcceptedSizes ==
    ASSUME TypeOK
    PROVE  \A i \in 1..Len(accepted) : accepted[i] \in 1..BlockSize
BY Positive DEF TypeOK

(* A sequence of blocks that gets the next one of the cut.                 *)
LEMMA BlockAppended ==
    ASSUME TypeOK, NEW blocks \in Blocks, Len(blocks) < Len(accepted),
           \A i \in DOMAIN blocks : blocks[i].size = accepted[i],
           \A i \in DOMAIN blocks : blocks[i].payload <= blocks[i].size,
           NEW payload \in 1..accepted[Len(blocks) + 1]
    PROVE  LET more == Append(blocks, [size |-> accepted[Len(blocks) + 1], payload |-> payload])
           IN  /\ more \in Blocks /\ Len(more) <= Len(accepted)
               /\ \A i \in DOMAIN more : more[i].size = accepted[i]
               /\ \A i \in DOMAIN more : more[i].payload <= more[i].size
<1> DEFINE n == Len(blocks) + 1
           block == [size |-> accepted[n], payload |-> payload]
           more == Append(blocks, block)
<1>1. n \in 1..Len(accepted) /\ Len(blocks) \in Nat /\ accepted[n] \in 1..BlockSize
  <2>1. Len(blocks) \in Nat /\ Len(accepted) \in Nat /\ accepted \in Seq(1..BlockSize)
    BY Numbers DEF TypeOK, Blocks
  <2>2. n \in 1..Len(accepted)
    BY <2>1
  <2>3. accepted[n] \in 1..BlockSize
    BY <2>2, AcceptedSizes
  <2> QED
    BY <2>1, <2>2, <2>3
<1>2. block \in Block /\ block.size = accepted[n] /\ block.payload <= block.size
  BY <1>1, Positive DEF Block
<1> HIDE DEF block
<1>3. /\ more \in Blocks /\ Len(more) = n /\ more[n] = block /\ DOMAIN more = DOMAIN blocks \cup {n}
      /\ \A i \in DOMAIN blocks : more[i] = blocks[i]
  BY <1>1, <1>2 DEF Blocks
<1> HIDE DEF more
<1>4. /\ more \in Blocks /\ Len(more) <= Len(accepted)
      /\ \A i \in DOMAIN more : more[i].size = accepted[i]
      /\ \A i \in DOMAIN more : more[i].payload <= more[i].size
  BY <1>1, <1>2, <1>3
<1> QED
  BY <1>4 DEF more, block

(* The sink gets the next block of the cut.                                *)
LEMMA SinkStep ==
    ASSUME IndInv, SinkToVector \/ SinkToFile
    PROVE  IndInv'
<1>0. /\ pc \in {"cut", "finish"} /\ target = "old"
      /\ UNCHANGED <<pc, fileSize, directory, inputSize, window, taken, buffered, collapsed, round,
                     withPass, streamLzp, position, chunk, accepted, header, temporary, target>>
  BY DEF IndInv, OutputOK, Ended, SinkToVector, SinkToFile, WriteBlock, sourceVars, choiceVars,
         pipeVars, fileVars
<1>1. CutOK' /\ PositionOK' /\ TakenOK'
  <2>1. CutOK'
    BY <1>0, CutMoves DEF IndInv
  <2>2. UNCHANGED StreamSize
    BY <1>0 DEF StreamSize
  <2> QED
    BY <1>0, <2>1, <2>2 DEF IndInv, PositionOK, TakenOK, BeforeCoding, BetweenRounds
<1>2. HeaderOK' /\ OutputOK' /\ Decodable'
  <2>1. CodedSize' = CodedSize
    BY <1>0 DEF CodedSize
  <2> QED
    BY <1>0, <2>1
       DEF IndInv, HeaderOK, HeaderWritten, HeaderWith, Announced, Coding, OutputOK, Decodable
<1>3. encoded \in Blocks /\ written \in Blocks /\ withPass \in Blocks
  BY Numbers DEF IndInv
<1>4. CASE SinkToVector
  <2>1. PICK payload \in 1..accepted[Len(encoded) + 1] :
          encoded' = Append(encoded, [size |-> accepted[Len(encoded) + 1], payload |-> payload])
    BY <1>4 DEF SinkToVector, NextEncoded, Sunk
  <2>2. buffered /\ Len(encoded) < Len(accepted) /\ UNCHANGED <<written, outputBad>>
    BY <1>4 DEF SinkToVector, fileVars
  <2>3. /\ encoded' \in Blocks /\ Len(encoded') <= Len(accepted)
        /\ \A i \in DOMAIN encoded' : encoded'[i].size = accepted[i]
        /\ \A i \in DOMAIN encoded' : encoded'[i].payload <= encoded'[i].size
    <3>1. /\ \A i \in DOMAIN encoded : encoded[i].size = accepted[i]
          /\ \A i \in DOMAIN encoded : encoded[i].payload <= encoded[i].size
      BY <1>0, <2>2 DEF IndInv, SinkOK, Coding
    <3> QED
      BY <1>3, <2>1, <2>2, <3>1, BlockAppended DEF IndInv
  <2>4. TypeOK'
    BY <1>0, <1>3, <2>2, <2>3 DEF IndInv, TypeOK, Blocks, Block
  <2>5. SinkOK' /\ ChoiceOK'
    BY <1>0, <2>2, <2>3
       DEF IndInv, SinkOK, ChoiceOK, BeforeCoding, BetweenRounds, Coding
  <2> QED
    BY <1>1, <1>2, <2>4, <2>5 DEF IndInv
<1>5. CASE SinkToFile
  <2>1. PICK payload \in 1..accepted[Len(written) + 1] :
          written' = Append(written, [size |-> accepted[Len(written) + 1], payload |-> payload])
    BY <1>5 DEF SinkToFile, WriteBlock, NextEncoded, Sunk
  <2>2. ~buffered /\ Len(written) < Len(accepted) /\ UNCHANGED encoded /\ outputBad' \in BOOLEAN
    BY <1>5 DEF SinkToFile, WriteBlock, pipeVars
  <2>3. /\ written' \in Blocks /\ Len(written') <= Len(accepted)
        /\ \A i \in DOMAIN written' : written'[i].size = accepted[i]
        /\ \A i \in DOMAIN written' : written'[i].payload <= written'[i].size
    <3>1. /\ \A i \in DOMAIN written : written[i].size = accepted[i]
          /\ \A i \in DOMAIN written : written[i].payload <= written[i].size
      BY <1>0, <2>2 DEF IndInv, SinkOK, Coding
    <3> QED
      BY <1>3, <2>1, <2>2, <3>1, BlockAppended DEF IndInv
  <2>4. TypeOK'
    BY <1>0, <1>3, <2>2, <2>3 DEF IndInv, TypeOK, Blocks, Block
  <2>5. SinkOK' /\ ChoiceOK'
    BY <1>0, <2>2, <2>3
       DEF IndInv, SinkOK, ChoiceOK, BeforeCoding, BetweenRounds, Coding
  <2> QED
    BY <1>1, <1>2, <2>4, <2>5 DEF IndInv
<1> QED
  BY <1>4, <1>5

-----------------------------------------------------------------------------
(* Steps after the stream is coded                                         *)

sameVars == <<directory, inputSize, window, taken, buffered, collapsed, round, withPass,
              streamLzp, position, chunk, accepted, encoded, header, written, outputBad>>

(* Many steps only move the calling thread on.                             *)
LEMMA MovesOn ==
    ASSUME IndInv, pc' \in Positions, fileSize' \in FileSizes, temporary' \in BOOLEAN,
           UNCHANGED <<sameVars, target>>
    PROVE  /\ TypeOK' /\ CutOK'
           /\ StreamSize' = StreamSize /\ CodedSize' = CodedSize /\ Announced' = Announced
           /\ \A segmented, count : HeaderWith(segmented, count)' = HeaderWith(segmented, count)
<1>1. TypeOK'
  BY DEF IndInv, TypeOK, sameVars
<1>2. CutOK'
  BY CutMoves DEF IndInv, sameVars
<1>3. StreamSize' = StreamSize /\ CodedSize' = CodedSize
  BY DEF StreamSize, CodedSize, sameVars
<1> QED
  BY <1>1, <1>2, <1>3 DEF Announced, HeaderWith, sameVars

(* The whole stream is cut; the pipeline has still to finish.              *)
LEMMA StreamReadStep ==
    ASSUME IndInv, StreamRead
    PROVE  IndInv'
<1>0. /\ pc = "read" /\ pc' = "finish" /\ position = StreamSize /\ chunk = 0
      /\ pc' \in Positions /\ pc \in Coding /\ pc' \in Coding
      /\ UNCHANGED <<fileSize, temporary, sameVars, target>>
  BY DEF StreamRead, IndInv, PositionOK, Coding, Positions, sameVars, sourceVars, choiceVars,
         pipeVars, fileVars
<1>1. fileSize' \in FileSizes /\ temporary' \in BOOLEAN
  BY <1>0 DEF IndInv, TypeOK
<1>2. TypeOK' /\ CutOK' /\ StreamSize' = StreamSize
  BY <1>0, <1>1, MovesOn
<1>3. PositionOK' /\ TakenOK' /\ ChoiceOK'
  BY <1>0, <1>2
     DEF IndInv, PositionOK, TakenOK, ChoiceOK, BeforeCoding, BetweenRounds, Coding, sameVars
<1>4. SinkOK'
  BY <1>0 DEF IndInv, SinkOK, BeforeCoding, BetweenRounds, Coding, sameVars
<1>5. HeaderOK' /\ OutputOK' /\ Decodable'
  BY <1>0, CodingQuiet DEF sameVars
<1> QED
  BY <1>2, <1>3, <1>4, <1>5 DEF IndInv

(* A streamed archive holds the whole cut of the source.                   *)
LEMMA StreamFinishedStep ==
    ASSUME IndInv, StreamFinished
    PROVE  IndInv'
<1>0. /\ pc = "finish" /\ pc' = "check" /\ position = StreamSize /\ chunk = 0 /\ ~buffered
      /\ Len(written) = Len(accepted) /\ target = "old" /\ ~streamLzp /\ round = "plain"
      /\ pc' \in Positions /\ collapsed = 0 /\ encoded = <<>> /\ withPass = <<>>
      /\ UNCHANGED <<fileSize, temporary, sameVars, target>>
  BY DEF StreamFinished, IndInv, PositionOK, ChoiceOK, OutputOK, Ended, Positions, sameVars,
         sourceVars, choiceVars, pipeVars, fileVars
<1>1. fileSize' \in FileSizes /\ temporary' \in BOOLEAN
  BY <1>0 DEF IndInv, TypeOK
<1>2. /\ TypeOK' /\ CutOK' /\ StreamSize' = StreamSize /\ CodedSize' = CodedSize
      /\ Announced' = Announced
      /\ \A segmented, count : HeaderWith(segmented, count)' = HeaderWith(segmented, count)
  BY <1>0, <1>1, MovesOn
<1>3. PositionOK' /\ TakenOK' /\ ChoiceOK'
  BY <1>0, <1>2
     DEF IndInv, PositionOK, TakenOK, ChoiceOK, BeforeCoding, BetweenRounds, Coding, sameVars
<1>4. Cut(SizesOf(written), CodedSize)
  <2>1. written \in Blocks /\ \A i \in DOMAIN written : written[i].size = accepted[i]
    BY <1>0, Numbers DEF IndInv, SinkOK
  <2>2. Cut(SizesOf(written), StreamSize)
    BY <1>0, <2>1, SinkComplete DEF IndInv
  <2> QED
    BY <1>0, <2>2 DEF StreamSize, CodedSize
<1>5. SinkOK'
  <2>1. Cut(SizesOf(written), CodedSize)'
    BY <1>0, <1>2, <1>4 DEF sameVars
  <2> QED
    BY <1>0, <2>1 DEF IndInv, SinkOK, BeforeCoding, BetweenRounds, Coding, sameVars
<1>6. HeaderOK'
  <2>1. header = HeaderWith(FALSE, Announced) /\ BlockCountFits(CodedSize, BlockSize)
    BY <1>0 DEF IndInv, HeaderOK, HeaderWritten, Coding
  <2>2. header' = HeaderWith(FALSE, Announced)'
    BY <1>0, <1>2, <2>1 DEF sameVars
  <2> QED
    BY <1>0, <1>2, <2>1, <2>2 DEF HeaderOK, HeaderWritten
<1>7. OutputOK' /\ Decodable'
  BY <1>0 DEF OutputOK, Decodable
<1> QED
  BY <1>2, <1>3, <1>5, <1>6, <1>7 DEF IndInv

(* The blocks of the LZP stream are kept, the plain input is cut next.     *)
LEMMA PassFinishedStep ==
    ASSUME IndInv, PassFinished
    PROVE  IndInv'
<1>0. /\ pc = "finish" /\ pc' = "read" /\ position = StreamSize /\ chunk = 0 /\ buffered
      /\ round = "pass" /\ ~streamLzp /\ Len(encoded) = Len(accepted) /\ target = "old"
      /\ collapsed > 0 /\ written = <<>> /\ taken = inputSize /\ withPass' = encoded
      /\ round' = "plain" /\ position' = 0 /\ accepted' = <<>> /\ encoded' = <<>>
      /\ UNCHANGED <<fileSize, directory, inputSize, window, taken, buffered, collapsed, streamLzp,
                     chunk, header, written, outputBad, temporary, target>>
  BY DEF PassFinished, IndInv, PositionOK, ChoiceOK, SinkOK, TakenOK, OutputOK, Ended, Coding,
         sourceVars, fileVars
<1>1. TypeOK'
  BY <1>0, Numbers DEF IndInv, TypeOK, Positions
<1>2. CutOK'
  BY <1>0, Numbers, CutStarts DEF IndInv, StreamSize
<1>3. PositionOK' /\ TakenOK'
  BY <1>0 DEF PositionOK, TakenOK, BeforeCoding, BetweenRounds
<1>4. ChoiceOK'
  <2>1. encoded \in Blocks /\ \A i \in DOMAIN encoded : encoded[i].size = accepted[i]
    BY <1>0, Numbers DEF IndInv, SinkOK, Coding
  <2>2. Cut(SizesOf(encoded), StreamSize) /\ StreamSize = collapsed
    BY <1>0, <2>1, SinkComplete DEF IndInv, StreamSize
  <2>3. Cut(SizesOf(withPass'), collapsed')
    BY <1>0, <2>2
  <2> QED
    BY <1>0, <2>3 DEF IndInv, ChoiceOK, BeforeCoding, Coding
<1>5. SinkOK'
  BY <1>0 DEF IndInv, SinkOK, BeforeCoding, BetweenRounds, Coding
<1>6. HeaderOK' /\ OutputOK' /\ Decodable'
  BY <1>0, CodingQuiet DEF HeaderOK, HeaderWritten, OutputOK, Decodable, Coding
<1> QED
  BY <1>1, <1>2, <1>3, <1>4, <1>5, <1>6 DEF IndInv

(* Whichever stream is kept, its blocks are a complete cut of it.          *)
LEMMA PlainFinishedStep ==
    ASSUME IndInv, PlainFinished
    PROVE  IndInv'
<1>0. /\ pc = "finish" /\ pc' = "count" /\ position = StreamSize /\ chunk = 0 /\ buffered
      /\ round = "plain" \/ streamLzp
      /\ Len(encoded) = Len(accepted) /\ target = "old" /\ written = <<>> /\ taken = inputSize
      /\ UNCHANGED <<fileSize, directory, inputSize, window, taken, buffered, collapsed, round,
                     withPass, position, chunk, accepted, header, written, outputBad, temporary,
                     target>>
  BY DEF PlainFinished, IndInv, PositionOK, SinkOK, TakenOK, OutputOK, Ended, Coding,
         sourceVars, fileVars
<1>1. encoded \in Blocks /\ withPass \in Blocks
  BY Numbers DEF IndInv
<1>2. CutOK' /\ PositionOK' /\ TakenOK'
  <2>1. CutOK'
    BY <1>0, CutMoves DEF IndInv
  <2> QED
    BY <1>0, <2>1 DEF PositionOK, TakenOK, BeforeCoding, BetweenRounds
<1>3. HeaderOK' /\ OutputOK' /\ Decodable'
  BY <1>0 DEF HeaderOK, HeaderWritten, OutputOK, Decodable, Coding
<1>4. /\ encoded' \in {encoded, withPass} /\ streamLzp' \in BOOLEAN
      /\ streamLzp' => collapsed > 0
      /\ Cut(SizesOf(encoded'), CodedSize')
  <2>1. CASE withPass # <<>> /\ PassWorthIt
    <3>1. streamLzp' = TRUE /\ encoded' = withPass
      BY <2>1 DEF PlainFinished
    <3>2. Cut(SizesOf(withPass), collapsed) /\ collapsed > 0
      BY <2>1 DEF IndInv, ChoiceOK
    <3>3. CodedSize' = collapsed
      BY <1>0, <3>1 DEF CodedSize
    <3> QED
      BY <3>1, <3>2, <3>3
  <2>2. CASE ~(withPass # <<>> /\ PassWorthIt)
    <3>1. streamLzp' = streamLzp /\ encoded' = encoded
      BY <2>2 DEF PlainFinished
    <3>2. /\ streamLzp => round = "pass" /\ collapsed > 0
          /\ streamLzp \in BOOLEAN
      BY <1>0 DEF IndInv, ChoiceOK, TypeOK, Coding
    <3>3. CodedSize' = StreamSize
      BY <1>0, <3>1, <3>2 DEF CodedSize, StreamSize
    <3>4. \A i \in DOMAIN encoded : encoded[i].size = accepted[i]
      BY <1>0 DEF IndInv, SinkOK, Coding
    <3>5. Cut(SizesOf(encoded), StreamSize)
      BY <1>0, <1>1, <3>4, SinkComplete DEF IndInv
    <3> QED
      BY <3>1, <3>2, <3>3, <3>5
  <2> QED
    BY <2>1, <2>2
<1>5. TypeOK'
  BY <1>0, <1>1, <1>4 DEF IndInv, TypeOK, Positions, Blocks, Block
<1>6. ChoiceOK'
  BY <1>0, <1>4 DEF IndInv, ChoiceOK, BeforeCoding, Coding
<1>7. SinkOK'
  BY <1>0, <1>4 DEF IndInv, SinkOK, BeforeCoding, BetweenRounds, Coding
<1> QED
  BY <1>2, <1>3, <1>5, <1>6, <1>7 DEF IndInv

-----------------------------------------------------------------------------
(* Steps that write the archive                                            *)

(* The count is found to fit the header, the temporary file is created.    *)
LEMMA CountCreateStep ==
    ASSUME IndInv, Count \/ Create
    PROVE  IndInv'
<1>0. /\ pc \in {"count", "create"} /\ pc' \in {"create", "header"} /\ target = "old"
      /\ pc = "count" => BlockCountFits(CodedSize, BlockSize)
      /\ pc' \in Positions /\ chunk = 0 /\ temporary' \in {temporary, TRUE}
      /\ UNCHANGED <<fileSize, sameVars, target>>
  BY DEF Count, Create, IndInv, PositionOK, OutputOK, Ended, Positions, sameVars, sourceVars,
         choiceVars, pipeVars, fileVars
<1>1. fileSize' \in FileSizes /\ temporary' \in BOOLEAN
  BY <1>0 DEF IndInv, TypeOK
<1>2. TypeOK' /\ CutOK' /\ StreamSize' = StreamSize /\ CodedSize' = CodedSize
  BY <1>0, <1>1, MovesOn
<1>3. PositionOK' /\ TakenOK' /\ ChoiceOK'
  BY <1>0, <1>2
     DEF IndInv, PositionOK, TakenOK, ChoiceOK, BeforeCoding, BetweenRounds, Coding, sameVars
<1>4. SinkOK'
  BY <1>0, <1>2 DEF IndInv, SinkOK, BeforeCoding, BetweenRounds, Coding, sameVars
<1>5. HeaderOK'
  <2>1. BlockCountFits(CodedSize, BlockSize)
    BY <1>0 DEF IndInv, HeaderOK
  <2>2. BlockCountFits(CodedSize, BlockSize)'
    BY <1>2, <2>1
  <2> QED
    BY <1>0, <2>2 DEF HeaderOK, HeaderWritten, Coding
<1>6. OutputOK' /\ Decodable'
  BY <1>0 DEF OutputOK, Decodable
<1> QED
  BY <1>2, <1>3, <1>4, <1>5, <1>6 DEF IndInv

(* The header announces the count of whole chunks.                         *)
LEMMA WriteHeaderStep ==
    ASSUME IndInv, WriteHeader
    PROVE  IndInv'
<1>0. /\ pc = "header" /\ pc' = (IF buffered THEN "copy" ELSE "read") /\ target = "old"
      /\ outputBad' \in BOOLEAN /\ chunk = 0 /\ written = <<>>
      /\ BlockCountFits(CodedSize, BlockSize)
      /\ header' = HeaderWith(FALSE, Announced)
      /\ UNCHANGED <<fileSize, directory, inputSize, window, taken, buffered, collapsed, round,
                     withPass, streamLzp, position, chunk, accepted, encoded, written, temporary,
                     target>>
  BY DEF WriteHeader, HeaderWith, IndInv, PositionOK, SinkOK, HeaderOK, OutputOK, Ended,
         BetweenRounds, sourceVars, choiceVars, pipeVars
<1>1. TypeOK'
  BY <1>0 DEF IndInv, TypeOK, Positions
<1>2. CutOK' /\ StreamSize' = StreamSize /\ CodedSize' = CodedSize /\ Announced' = Announced
  <2>1. CodedSize' = CodedSize
    BY <1>0 DEF CodedSize
  <2> QED
    BY <1>0, <2>1, CutMoves DEF IndInv, StreamSize, Announced
<1>3. PositionOK' /\ TakenOK' /\ ChoiceOK'
  BY <1>0, <1>2
     DEF IndInv, PositionOK, TakenOK, ChoiceOK, BeforeCoding, BetweenRounds, Coding
<1>4. SinkOK'
  <2>1. /\ Len(written) = 0 /\ DOMAIN written = {} /\ Len(encoded) \in Nat /\ Len(accepted) \in Nat
    BY <1>0, Numbers DEF IndInv
  <2> QED
    BY <1>0, <1>2, <2>1 DEF IndInv, SinkOK, PositionOK, ChoiceOK, BeforeCoding, BetweenRounds, Coding
<1>5. HeaderOK'
  <2>1. header' = HeaderWith(FALSE, Announced)'
    BY <1>0, <1>2 DEF HeaderWith
  <2>2. BlockCountFits(CodedSize, BlockSize)'
    BY <1>0, <1>2
  <2> QED
    BY <1>0, <2>1, <2>2 DEF HeaderOK
<1>6. OutputOK' /\ Decodable'
  BY <1>0 DEF OutputOK, Decodable
<1> QED
  BY <1>1, <1>2, <1>3, <1>4, <1>5, <1>6 DEF IndInv

(* The blocks of the vector follow the header one by one.                  *)
LEMMA CopyBlockStep ==
    ASSUME IndInv, CopyBlock
    PROVE  IndInv'
<1>0. /\ pc = "copy" /\ pc' = "copy" /\ target = "old" /\ buffered
      /\ outputBad' \in BOOLEAN /\ Len(written) < Len(encoded)
      /\ written' = Append(written, encoded[Len(written) + 1])
      /\ UNCHANGED <<fileSize, directory, inputSize, window, taken, buffered, collapsed, round,
                     withPass, streamLzp, position, chunk, accepted, encoded, header, temporary,
                     target>>
  BY DEF CopyBlock, WriteBlock, IndInv, ChoiceOK, OutputOK, Ended, sourceVars, choiceVars, pipeVars
<1>1. /\ written \in Blocks /\ encoded \in Blocks /\ Len(written) \in Nat /\ Len(encoded) \in Nat
      /\ \A i \in DOMAIN written : written[i] = encoded[i]
      /\ \A i \in DOMAIN encoded : encoded[i].payload <= encoded[i].size
      /\ \A i \in DOMAIN withPass : withPass[i].payload <= withPass[i].size
  BY <1>0, Numbers DEF IndInv, SinkOK
<1>2. /\ written' \in Blocks /\ Len(written') = Len(written) + 1
      /\ Len(written') <= Len(encoded) /\ DOMAIN written' = 1..(Len(written) + 1)
      /\ \A i \in DOMAIN written' : written'[i] = encoded[i] /\ i \in DOMAIN encoded
  <2>1. Len(written) + 1 \in 1..Len(encoded) /\ DOMAIN encoded = 1..Len(encoded)
    BY <1>0, <1>1 DEF Blocks
  <2>2. encoded[Len(written) + 1] \in Block
    BY <1>1, <2>1 DEF Blocks
  <2>3. /\ written' \in Blocks /\ Len(written') = Len(written) + 1
        /\ DOMAIN written' = 1..(Len(written) + 1)
        /\ written'[Len(written) + 1] = encoded[Len(written) + 1]
        /\ \A i \in 1..Len(written) : written'[i] = written[i]
    BY <1>0, <1>1, <2>2 DEF Blocks
  <2>4. DOMAIN written = 1..Len(written)
    BY <1>1 DEF Blocks
  <2> QED
    BY <1>0, <1>1, <2>1, <2>3, <2>4
<1>3. TypeOK'
  BY <1>0, <1>1, <1>2 DEF IndInv, TypeOK, Blocks, Block
<1>4. CutOK' /\ StreamSize' = StreamSize /\ CodedSize' = CodedSize /\ Announced' = Announced
  <2>1. CodedSize' = CodedSize
    BY <1>0 DEF CodedSize
  <2> QED
    BY <1>0, <2>1, CutMoves DEF IndInv, StreamSize, Announced
<1>5. PositionOK' /\ TakenOK' /\ ChoiceOK'
  BY <1>0, <1>4
     DEF IndInv, PositionOK, TakenOK, ChoiceOK, BeforeCoding, BetweenRounds, Coding
<1>6. SinkOK'
  <2>1. \A i \in DOMAIN written' : written'[i].payload <= written'[i].size
    BY <1>1, <1>2
  <2>2. Cut(SizesOf(encoded), CodedSize)'
    BY <1>0, <1>4 DEF IndInv, SinkOK
  <2> QED
    BY <1>0, <1>1, <1>2, <2>1, <2>2 DEF SinkOK, BeforeCoding, BetweenRounds, Coding
<1>7. HeaderOK'
  <2>1. header = HeaderWith(FALSE, Announced) /\ BlockCountFits(CodedSize, BlockSize)
    BY <1>0 DEF IndInv, HeaderOK, HeaderWritten
  <2>2. header' = HeaderWith(FALSE, Announced)' /\ BlockCountFits(CodedSize, BlockSize)'
    BY <1>0, <1>4, <2>1 DEF HeaderWith
  <2> QED
    BY <1>0, <2>2 DEF HeaderOK
<1>8. OutputOK' /\ Decodable'
  BY <1>0 DEF OutputOK, Decodable
<1> QED
  BY <1>3, <1>4, <1>5, <1>6, <1>7, <1>8 DEF IndInv

(* All blocks are written, and a streamed source ended where it should.    *)
LEMMA WrittenStep ==
    ASSUME IndInv, Copied \/ CheckSource
    PROVE  IndInv'
<1>0. /\ pc \in {"copy", "check"} /\ pc' = "patch" /\ target = "old" /\ chunk = 0
      /\ pc = "copy" => buffered /\ Len(written) = Len(encoded)
      /\ pc = "check" => ~buffered /\ taken = inputSize
      /\ pc' \in Positions
      /\ UNCHANGED <<fileSize, temporary, sameVars, target>>
  BY DEF Copied, CheckSource, IndInv, PositionOK, ChoiceOK, OutputOK, Ended, Positions, sameVars,
         sourceVars, choiceVars, pipeVars, fileVars
<1>1. fileSize' \in FileSizes /\ temporary' \in BOOLEAN
  BY <1>0 DEF IndInv, TypeOK
<1>2. /\ TypeOK' /\ CutOK' /\ StreamSize' = StreamSize /\ CodedSize' = CodedSize
      /\ Announced' = Announced
      /\ \A segmented, count : HeaderWith(segmented, count)' = HeaderWith(segmented, count)
  BY <1>0, <1>1, MovesOn
<1>3. PositionOK' /\ TakenOK' /\ ChoiceOK'
  BY <1>0, <1>2
     DEF IndInv, PositionOK, TakenOK, ChoiceOK, BeforeCoding, BetweenRounds, Coding, sameVars
<1>4. Cut(SizesOf(written), CodedSize)
  <2>1. CASE pc = "copy"
    <3>1. /\ Cut(SizesOf(encoded), CodedSize) /\ \A i \in DOMAIN written : written[i] = encoded[i]
          /\ written \in Blocks /\ encoded \in Blocks
      BY <1>0, <2>1, Numbers DEF IndInv, SinkOK
    <3>2. written = encoded
      BY <1>0, <2>1, <3>1 DEF Blocks
    <3> QED
      BY <3>1, <3>2
  <2>2. CASE pc = "check"
    BY <2>2 DEF IndInv, SinkOK
  <2> QED
    BY <1>0, <2>1, <2>2
<1>5. SinkOK'
  <2>1. Cut(SizesOf(written), CodedSize)'
    BY <1>0, <1>2, <1>4 DEF sameVars
  <2> QED
    BY <1>0, <2>1 DEF IndInv, SinkOK, BeforeCoding, BetweenRounds, Coding, sameVars
<1>6. HeaderOK'
  <2>1. header = HeaderWith(FALSE, Announced) /\ BlockCountFits(CodedSize, BlockSize)
    BY <1>0 DEF IndInv, HeaderOK, HeaderWritten
  <2>2. header' = HeaderWith(FALSE, Announced)'
    BY <1>0, <1>2, <2>1 DEF sameVars
  <2> QED
    BY <1>0, <1>2, <2>1, <2>2 DEF HeaderOK, HeaderWritten
<1>7. OutputOK' /\ Decodable'
  BY <1>0 DEF OutputOK, Decodable
<1> QED
  BY <1>2, <1>3, <1>5, <1>6, <1>7 DEF IndInv

(* As long as it has not wrapped around, the counter counts.               *)
LEMMA CountedIsExact ==
    ASSUME TypeOK, CountOK
    PROVE  Counted = Len(written)
<1>1. Len(written) \in Nat /\ MaxBlockCount \in Nat \ {0} /\ Len(written) <= MaxBlockCount
  BY Numbers, FormatAssumption DEF CountOK
<1> QED
  BY <1>1 DEF Counted

(* The header is corrected to the blocks there are.                        *)
LEMMA PatchHeaderStep ==
    ASSUME IndInv, CountOK, PatchHeader
    PROVE  IndInv'
<1>0. /\ pc = "patch" /\ pc' = "close" /\ target = "old" /\ chunk = 0
      /\ outputBad' \in BOOLEAN
      /\ header = HeaderWith(FALSE, Announced) /\ BlockCountFits(CodedSize, BlockSize)
      /\ UNCHANGED <<fileSize, directory, inputSize, window, taken, buffered, collapsed, round,
                     withPass, streamLzp, position, chunk, accepted, encoded, written, temporary,
                     target>>
  BY DEF PatchHeader, IndInv, TypeOK, PositionOK, HeaderOK, HeaderWritten, OutputOK, Ended,
         sourceVars, choiceVars, pipeVars
<1>1. TypeOK'
  BY <1>0 DEF IndInv, TypeOK, Positions
<1>2. CutOK' /\ StreamSize' = StreamSize /\ CodedSize' = CodedSize /\ Announced' = Announced
  <2>1. CodedSize' = CodedSize
    BY <1>0 DEF CodedSize
  <2> QED
    BY <1>0, <2>1, CutMoves DEF IndInv, StreamSize, Announced
<1>3. PositionOK' /\ TakenOK' /\ ChoiceOK'
  BY <1>0, <1>2
     DEF IndInv, PositionOK, TakenOK, ChoiceOK, BeforeCoding, BetweenRounds, Coding
<1>4. SinkOK'
  <2>1. Cut(SizesOf(written), CodedSize)'
    BY <1>0, <1>2 DEF IndInv, SinkOK
  <2> QED
    BY <1>0, <2>1 DEF IndInv, SinkOK, BeforeCoding, BetweenRounds, Coding
<1>5. HeaderOK'
  <2>1. header' = HeaderWith(Len(written) # Announced, Len(written))
    <3>0. Counted = Len(written)
      BY CountedIsExact DEF IndInv
    <3>1. CASE Len(written) # Announced
      BY <1>0, <3>0, <3>1 DEF PatchHeader, HeaderWith
    <3>2. CASE Len(written) = Announced
      BY <1>0, <3>0, <3>2 DEF PatchHeader, HeaderWith
    <3> QED
      BY <3>1, <3>2
  <2>2. header' = HeaderWith(Len(written) # Announced, Len(written))'
    BY <1>0, <1>2, <2>1 DEF HeaderWith
  <2>3. BlockCountFits(CodedSize, BlockSize)'
    BY <1>0, <1>2
  <2> QED
    BY <1>0, <2>2, <2>3 DEF HeaderOK, HeaderWritten, Coding
<1>6. OutputOK' /\ Decodable'
  BY <1>0 DEF OutputOK, Decodable
<1> QED
  BY <1>1, <1>2, <1>3, <1>4, <1>5, <1>6 DEF IndInv

(* Nothing written was lost.                                               *)
LEMMA CloseStep ==
    ASSUME IndInv, Close
    PROVE  IndInv'
<1>0. /\ pc = "close" /\ pc' = "commit" /\ target = "old" /\ chunk = 0 /\ ~outputBad
      /\ pc' \in Positions
      /\ UNCHANGED <<fileSize, temporary, sameVars, target>>
  BY DEF Close, IndInv, PositionOK, OutputOK, Ended, Positions, sameVars, sourceVars, choiceVars,
         pipeVars, fileVars
<1>1. fileSize' \in FileSizes /\ temporary' \in BOOLEAN
  BY <1>0 DEF IndInv, TypeOK
<1>2. /\ TypeOK' /\ CutOK' /\ StreamSize' = StreamSize /\ CodedSize' = CodedSize
      /\ Announced' = Announced
      /\ \A segmented, count : HeaderWith(segmented, count)' = HeaderWith(segmented, count)
  BY <1>0, <1>1, MovesOn
<1>3. PositionOK' /\ TakenOK' /\ ChoiceOK'
  BY <1>0, <1>2
     DEF IndInv, PositionOK, TakenOK, ChoiceOK, BeforeCoding, BetweenRounds, Coding, sameVars
<1>4. SinkOK'
  <2>1. Cut(SizesOf(written), CodedSize)'
    BY <1>0, <1>2 DEF IndInv, SinkOK, sameVars
  <2> QED
    BY <1>0, <2>1 DEF IndInv, SinkOK, BeforeCoding, BetweenRounds, Coding, sameVars
<1>5. HeaderOK'
  <2>1. /\ header = HeaderWith(Len(written) # Announced, Len(written))
        /\ BlockCountFits(CodedSize, BlockSize)
    BY <1>0 DEF IndInv, HeaderOK
  <2>2. header' = HeaderWith(Len(written) # Announced, Len(written))'
    BY <1>0, <1>2, <2>1 DEF sameVars, HeaderWith
  <2> QED
    BY <1>0, <1>2, <2>1, <2>2 DEF HeaderOK, HeaderWritten, Coding
<1>6. OutputOK' /\ Decodable'
  BY <1>0 DEF OutputOK, Decodable, sameVars
<1> QED
  BY <1>2, <1>3, <1>4, <1>5, <1>6 DEF IndInv

-----------------------------------------------------------------------------
(* What is committed can be decoded                                        *)

(* The sums over the blocks written are those over their sizes.            *)
LEMMA SizeOfFirstIsFirstOf ==
    ASSUME written \in Blocks, NEW k \in 0..Len(written)
    PROVE  SizeOfFirst(k) = FirstOf(SizesOf(written), k) /\ SizeOfFirst(k) \in Nat
<1>1. /\ DOMAIN written = 1..Len(written) /\ Len(written) \in Nat
      /\ \A i \in DOMAIN written : SizesOf(written)[i] = written[i].size
  BY SizesAreSizes DEF Blocks
<1>2. \A i \in 1..k : SizesOf(written)[i] = written[i].size
  BY <1>1
<1>3. [i \in 1..k |-> written[i].size] = [i \in 1..k |-> SizesOf(written)[i]]
  BY <1>2
<1>4. SizesOf(written) \in Seq(Nat) /\ k \in 0..Len(SizesOf(written))
  BY SizesAreSizes
<1>5. FirstOf(SizesOf(written), k) \in Nat
  BY <1>4, FirstOfFacts
<1> QED
  BY <1>3, <1>5 DEF SizeOfFirst, FirstOf

(* What is left of the archive at a block holds the block's payload.       *)
LEMMA PayloadFits ==
    ASSUME NEW blocks \in Blocks, NEW k \in 1..Len(blocks)
    PROVE  blocks[k].payload <= EncodedSize(SubSeq(blocks, k, Len(blocks))) - BlockHeaderSize
<1> DEFINE rest == SubSeq(blocks, k, Len(blocks))
           terms == [i \in DOMAIN rest |-> BlockHeaderSize + rest[i].payload]
<1>1. /\ rest \in Blocks /\ Len(rest) = Len(blocks) - k + 1 /\ Len(rest) \in Nat /\ Len(rest) >= 1
      /\ rest[1] = blocks[k]
  BY DEF Blocks
<1> HIDE DEF rest
<1>2. DOMAIN rest = 1..Len(rest)
  BY <1>1 DEF Blocks
<1>3. BlockHeaderSize \in Nat
  BY FormatAssumption
<1>4. \A i \in 1..Len(rest) : rest[i].payload \in Nat
  <2> SUFFICES ASSUME NEW i \in 1..Len(rest) PROVE rest[i].payload \in Nat
    OBVIOUS
  <2>1. rest[i] \in Block
    BY <1>1 DEF Blocks
  <2> QED
    BY <2>1, Positive DEF Block
<1>5. /\ terms \in Seq(Nat) /\ Len(terms) = Len(rest)
      /\ terms[1] = BlockHeaderSize + rest[1].payload
  BY <1>1, <1>2, <1>3, <1>4
<1>6. Total(terms) >= terms[1] /\ Total(terms) \in Nat
  <2> HIDE DEF terms
  <2> QED
    BY <1>1, <1>5, TotalAtLeastFirst, TotalIsNat
<1>7. EncodedSize(rest) = Total(terms)
  BY DEF EncodedSize
<1>8. rest[1].payload \in Nat
  BY <1>1, <1>4
<1> HIDE DEF terms
<1> QED
  BY <1>1, <1>3, <1>5, <1>6, <1>7, <1>8 DEF rest

(* The archive about to be committed is one decompress_file accepts.       *)
LEMMA Good ==
    ASSUME IndInv, pc = "commit"
    PROVE  /\ taken = inputSize /\ header.originalSize = inputSize
           /\ HeaderAccepted(header)
           /\ Len(written) = header.blockCount
           /\ SizeOfFirst(Len(written)) = header.codedSize
           /\ \A k \in DOMAIN written :
                LET left == header.codedSize - SizeOfFirst(k - 1)
                    archiveLeft == EncodedSize(SubSeq(written, k, Len(written))) - BlockHeaderSize
                IN  /\ OriginalSizeValid(header, written[k].size, left)
                    /\ PayloadSizeValid(written[k].payload, written[k].size, archiveLeft)
<1>0. /\ taken = inputSize
      /\ header = HeaderWith(Len(written) # Announced, Len(written))
      /\ BlockCountFits(CodedSize, BlockSize)
      /\ Cut(SizesOf(written), CodedSize)
      /\ \A i \in DOMAIN written : written[i].payload <= written[i].size
  BY DEF IndInv, TakenOK, HeaderOK, SinkOK
<1>1. /\ header.version = 3 /\ header.streamLzp = streamLzp
      /\ header.segmented <=> Len(written) # Announced
      /\ header.blockSize = BlockSize /\ header.originalSize = inputSize
      /\ header.codedSize = CodedSize /\ header.streamBits = 20
      /\ header.blockCount = Len(written)
  BY <1>0 DEF HeaderWith, ArchiveVersion
<1>2. /\ written \in Blocks /\ CodedSize \in Nat /\ Len(written) \in Nat
      /\ BlockSize \in Nat \ {0} /\ inputSize \in Nat /\ collapsed \in Nat
      /\ DOMAIN written = 1..Len(written)
  BY Numbers, Positive DEF IndInv, Blocks
<1>3. /\ SizesOf(written) \in Seq(Nat) /\ Len(SizesOf(written)) = Len(written)
      /\ \A i \in DOMAIN written : SizesOf(written)[i] = written[i].size
  BY <1>2, SizesAreSizes
<1>4. /\ Total(SizesOf(written)) = CodedSize
      /\ PiecesFit(SizesOf(written), CodedSize)
      /\ Len(written) >= Announced /\ Len(written) <= CodedSize
      /\ Len(written) = Announced => PiecesWhole(SizesOf(written), CodedSize)
      /\ Announced \in Nat
  BY <1>0, <1>2, <1>3, NeedIsNat DEF Cut, Announced, Need
<1>5. HeaderAccepted(header)
  <2>1. streamLzp => StreamHeaderValid(header)
    <3>1. ASSUME streamLzp
          PROVE  CodedSize = collapsed /\ collapsed > 0 /\ collapsed < inputSize
                 /\ inputSize <= StreamLzpLimit
      BY <3>1 DEF IndInv, ChoiceOK, CodedSize
    <3> QED
      BY <1>1, <3>1 DEF StreamHeaderValid, StreamHashBits
  <2>2. BlockCountValid(header)
    <3>1. ExpectedBlockCount(header.codedSize, header.blockSize) = Announced
      BY <1>1 DEF Announced
    <3>2. header.segmented => header.blockCount \in Announced..header.codedSize
      <4>1. /\ Announced \in Nat /\ Len(written) \in Nat /\ CodedSize \in Nat
            /\ Len(written) >= Announced /\ Len(written) <= CodedSize
        BY <1>2, <1>4
      <4>2. Len(written) \in Announced..CodedSize
        BY <4>1
      <4> QED
        BY <1>1, <4>2
    <3>3. ~header.segmented => header.blockCount = Announced
      BY <1>1
    <3> QED
      BY <3>1, <3>2, <3>3 DEF BlockCountValid
  <2>3. BlockSizeValid(header.blockSize) /\ FlagsKnown(header)
    BY <1>1, CompressAssumption DEF FlagsKnown
  <2>4. header.version \in OldestReadableVersion..ArchiveVersion
    BY <1>1 DEF OldestReadableVersion, ArchiveVersion
  <2> QED
    BY <1>0, <1>1, <2>1, <2>2, <2>3, <2>4 DEF HeaderAccepted
<1>6. SizeOfFirst(Len(written)) = header.codedSize
  <2>1. SizeOfFirst(Len(written)) = FirstOf(SizesOf(written), Len(written))
    <3>1. Len(written) \in 0..Len(written)
      BY <1>2
    <3> QED
      BY <1>2, <3>1, SizeOfFirstIsFirstOf
  <2>2. FirstOf(SizesOf(written), Len(SizesOf(written))) = CodedSize
    BY <1>3, <1>4, FirstOfFacts
  <2> QED
    BY <1>1, <1>3, <2>1, <2>2
<1>7. ASSUME NEW k \in DOMAIN written
      PROVE  /\ OriginalSizeValid(header, written[k].size, header.codedSize - SizeOfFirst(k - 1))
             /\ PayloadSizeValid(written[k].payload, written[k].size,
                                 EncodedSize(SubSeq(written, k, Len(written))) - BlockHeaderSize)
  <2>1. k \in 1..Len(written) /\ k - 1 \in 0..Len(written)
    BY <1>2
  <2>2. written[k].size \in 1..BlockSize /\ written[k].payload \in 1..BlockSize
    <3>1. written[k] \in Block
      BY <1>2, <2>1 DEF Blocks
    <3> QED
      BY <3>1 DEF Block
  <2> DEFINE left == CodedSize - SizeOfFirst(k - 1)
  <2>3. /\ written[k].size <= left
        /\ Len(written) = Announced => written[k].size = Whole(left)
    <3>1. SizeOfFirst(k - 1) = FirstOf(SizesOf(written), k - 1)
      BY <1>2, <2>1, SizeOfFirstIsFirstOf
    <3>2. SizesOf(written)[k] = written[k].size /\ k \in 1..Len(SizesOf(written))
      BY <1>3, <2>1
    <3> QED
      BY <1>4, <3>1, <3>2 DEF PiecesFit, PiecesWhole
  <2>4. ExpectedSize(header, left) = Whole(left)
    BY <1>1 DEF ExpectedSize, Whole
  <2>5. left \in Int
    BY <1>2, <2>1, SizeOfFirstIsFirstOf
  <2>6. OriginalSizeValid(header, written[k].size, left)
    <3> HIDE DEF left
    <3>1. written[k].size <= Whole(left)
      BY <1>2, <2>2, <2>3, <2>5 DEF Whole
    <3>2. written[k].size # 0
      BY <1>2, <2>2
    <3>3. ~header.segmented => written[k].size = Whole(left)
      BY <1>1, <2>3
    <3> QED
      BY <2>4, <3>1, <3>2, <3>3 DEF OriginalSizeValid
  <2>7. PayloadSizeValid(written[k].payload, written[k].size,
                         EncodedSize(SubSeq(written, k, Len(written))) - BlockHeaderSize)
    <3>1. written[k].payload <= written[k].size
      BY <1>0
    <3>2. written[k].payload <= EncodedSize(SubSeq(written, k, Len(written))) - BlockHeaderSize
      BY <1>2, <2>1, PayloadFits
    <3> QED
      BY <2>2, <3>1, <3>2 DEF PayloadSizeValid
  <2> QED
    BY <1>1, <2>6, <2>7
<1> QED
  BY <1>0, <1>1, <1>5, <1>6, <1>7

-----------------------------------------------------------------------------
(* The end of the call, and the other programs                             *)

(* Only a decodable archive reaches output_path.                           *)
LEMMA EndStep ==
    ASSUME IndInv, Commit \/ CommitThrows \/ Throws
    PROVE  IndInv'
<1>0. /\ pc' \in {"returned", "threw"} /\ pc' \in Positions /\ fileSize' = fileSize
      /\ pc \notin {"returned", "threw"} /\ target = "old"
      /\ temporary' \in BOOLEAN /\ target' \in {"old", "absent", "archive"}
      /\ target' # "old" => pc = "commit"
      /\ pc' = "returned" => pc = "commit"
      /\ UNCHANGED sameVars
  BY DEF IndInv, TypeOK, OutputOK, Commit, CommitThrows, Throws, Ended, Positions, sameVars,
         sourceVars, choiceVars, pipeVars, fileVars
<1>1. TypeOK'
  BY <1>0 DEF IndInv, TypeOK, sameVars
<1>2. CutOK' /\ StreamSize' = StreamSize
  BY <1>0, CutMoves DEF IndInv, StreamSize, sameVars
<1>3. PositionOK' /\ TakenOK' /\ ChoiceOK'
  BY <1>0, <1>2
     DEF IndInv, PositionOK, TakenOK, ChoiceOK, BeforeCoding, BetweenRounds, Coding, sameVars
<1>4. SinkOK'
  BY <1>0 DEF IndInv, SinkOK, BeforeCoding, BetweenRounds, Coding, sameVars
<1>5. HeaderOK' /\ OutputOK'
  BY <1>0 DEF HeaderOK, HeaderWritten, OutputOK, Ended, Coding
<1>6. Decodable'
  <2>1. CASE pc = "commit"
    <3>1. \A k : SizeOfFirst(k)' = SizeOfFirst(k)
      BY <1>0 DEF SizeOfFirst, sameVars
    <3>2. UNCHANGED <<taken, inputSize, header, written>>
      BY <1>0 DEF sameVars
    <3> QED
      BY <2>1, <3>1, <3>2, Good DEF Decodable
  <2>2. CASE pc # "commit"
    BY <1>0, <2>2 DEF Decodable
  <2> QED
    BY <2>1, <2>2
<1> QED
  BY <1>1, <1>2, <1>3, <1>4, <1>5, <1>6 DEF IndInv

(* Nothing the invariant says depends on how long the source is now.       *)
LEMMA SourceStep ==
    ASSUME IndInv, SourceChanges \/ UNCHANGED vars
    PROVE  IndInv'
<1>0. /\ fileSize' \in FileSizes /\ pc' \in Positions /\ temporary' \in BOOLEAN
      /\ UNCHANGED <<pc, temporary, sameVars, target>>
  BY DEF IndInv, TypeOK, SourceChanges, vars, sameVars, sourceVars, choiceVars, pipeVars, fileVars
<1>1. /\ TypeOK' /\ CutOK' /\ StreamSize' = StreamSize /\ CodedSize' = CodedSize
      /\ Announced' = Announced
      /\ \A segmented, count : HeaderWith(segmented, count)' = HeaderWith(segmented, count)
  BY <1>0, MovesOn
<1>2. UNCHANGED <<pc, target, sameVars>>
  BY <1>0
<1>3. PositionOK' /\ TakenOK'
  BY <1>1, <1>2 DEF IndInv, PositionOK, TakenOK, sameVars
<1>4. ChoiceOK'
  BY <1>2 DEF IndInv, ChoiceOK, sameVars
<1>5. SinkOK'
  <2>1. /\ Cut(SizesOf(encoded), CodedSize)' <=> Cut(SizesOf(encoded), CodedSize)
        /\ Cut(SizesOf(written), CodedSize)' <=> Cut(SizesOf(written), CodedSize)
    BY <1>1, <1>2 DEF sameVars
  <2> QED
    BY <1>2, <2>1 DEF IndInv, SinkOK, sameVars
<1>6. HeaderOK'
  <2>1. /\ HeaderWritten' = HeaderWritten
        /\ BlockCountFits(CodedSize, BlockSize)' <=> BlockCountFits(CodedSize, BlockSize)
        /\ header' = header /\ written' = written
    BY <1>1, <1>2 DEF HeaderWritten, sameVars
  <2>2. /\ HeaderWith(FALSE, Announced)' = HeaderWith(FALSE, Announced)
        /\ HeaderWith(Len(written) # Announced, Len(written))' =
             HeaderWith(Len(written) # Announced, Len(written))
    BY <1>1, <1>2 DEF HeaderWith, sameVars
  <2> QED
    BY <1>2, <2>1, <2>2 DEF IndInv, HeaderOK
<1>7. OutputOK'
  BY <1>2 DEF IndInv, OutputOK, Ended, sameVars
<1>8. Decodable'
  <2>1. \A k : SizeOfFirst(k)' = SizeOfFirst(k)
    BY <1>2 DEF SizeOfFirst, sameVars
  <2>2. UNCHANGED <<taken, inputSize, header, written>>
    BY <1>2 DEF sameVars
  <2> QED
    BY <1>2, <2>1, <2>2 DEF IndInv, Decodable
<1> QED
  BY <1>1, <1>3, <1>4, <1>5, <1>6, <1>7, <1>8 DEF IndInv

(* A block is only counted while the counter has room for it.              *)
LEMMA CountStep ==
    ASSUME TypeOK, CountOK, [Next]_vars
    PROVE  CountOK'
<1>1. ASSUME NEW block, WriteBlock(block) PROVE CountOK'
  <2>1. Len(written) # MaxBlockCount
    BY <1>1, CountedIsExact DEF WriteBlock
  <2>2. /\ Len(written) \in Nat /\ MaxBlockCount \in Nat
        /\ Len(written') = Len(written) + 1
    BY <1>1, Numbers, FormatAssumption DEF WriteBlock, Blocks
  <2> QED
    BY <2>1, <2>2 DEF CountOK
<1>2. CASE SinkToFile \/ CopyBlock
  BY <1>1, <1>2 DEF SinkToFile, CopyBlock
<1>3. CASE UNCHANGED written
  BY <1>3 DEF CountOK
<1>4. \/ SinkToFile \/ CopyBlock \/ UNCHANGED written
  BY DEF Next, Work, Measure, Open, Fill, Probe, Choose, TakeChunk, SubmitPiece, SinkToVector,
         StreamRead, StreamFinished, PassFinished, PlainFinished, Count, Create, WriteHeader,
         Copied, CheckSource, PatchHeader, Close, Commit, CommitThrows, Throws, SourceChanges,
         Stopped, vars, fileVars
<1> QED
  BY <1>2, <1>3, <1>4

(* Every step keeps the invariant.                                         *)
LEMMA NextIndInv == IndInv /\ CountOK /\ [Next]_vars => IndInv' /\ CountOK'
<1> SUFFICES ASSUME IndInv, CountOK, [Next]_vars PROVE IndInv' /\ CountOK'
  OBVIOUS
<1>0. CountOK'
  BY CountStep DEF IndInv
<1>1. CASE Measure \/ Open \/ Fill \/ Probe \/ Choose
  BY <1>0, <1>1, MeasureStep, OpenStep, FillProbeStep, ChooseStep
<1>2. CASE TakeChunk \/ SubmitPiece \/ SinkToVector \/ SinkToFile
  BY <1>0, <1>2, TakeChunkStep, SubmitPieceStep, SinkStep
<1>3. CASE StreamRead \/ StreamFinished \/ PassFinished \/ PlainFinished
  BY <1>0, <1>3, StreamReadStep, StreamFinishedStep, PassFinishedStep, PlainFinishedStep
<1>4. CASE Count \/ Create \/ WriteHeader \/ CopyBlock
  BY <1>0, <1>4, CountCreateStep, WriteHeaderStep, CopyBlockStep
<1>5. CASE Copied \/ CheckSource \/ PatchHeader \/ Close
  BY <1>0, <1>5, WrittenStep, PatchHeaderStep, CloseStep
<1>6. CASE Commit \/ CommitThrows \/ Throws
  BY <1>0, <1>6, EndStep
<1>7. CASE SourceChanges \/ UNCHANGED vars
  BY <1>0, <1>7, SourceStep
<1>8. CASE Stopped
  BY <1>0, <1>8, <1>7 DEF Stopped
<1> QED
  BY <1>0, <1>1, <1>2, <1>3, <1>4, <1>5, <1>6, <1>7, <1>8 DEF Next, Work

-----------------------------------------------------------------------------
(* The theorems                                                            *)

(* The invariant holds in every reachable state of compress_file.          *)
THEOREM Invariance == Spec => []IndInv
<1>1. Init => IndInv /\ CountOK
  <2>1. ASSUME Init PROVE Len(written) = 0
    BY <2>1 DEF Init
  <2> QED
    BY <2>1, InitIndInv, FormatAssumption DEF CountOK
<1>2. IndInv /\ CountOK /\ [Next]_vars => IndInv' /\ CountOK'
  BY NextIndInv
<1> QED
  BY <1>1, <1>2, PTL DEF Spec

(* Every variable keeps its type; position, chunk and taken, unsigned in   *)
(* the code, never pass the sizes they are compared with.                  *)
THEOREM TypeCorrect == Spec => []TypeOK
<1>1. IndInv => TypeOK
  BY DEF IndInv
<1> QED
  BY <1>1, Invariance, PTL

(* A replaced output is an archive of the whole source as measured, which  *)
(* decompress_file accepts block by block and to the last byte.            *)
THEOREM AlwaysDecodable == Spec => []Decodable
<1>1. IndInv => Decodable
  BY DEF IndInv
<1> QED
  BY <1>1, Invariance, PTL

(* The output is replaced only by an archive all of whose bytes were       *)
(* written without an error.                                               *)
THEOREM NoBadOutput == Spec => NoBadOutputCommitted
<1>1. IndInv /\ [Next]_vars => [target' = "archive" /\ target = "old" => ~outputBad]_vars
  <2> SUFFICES ASSUME IndInv, Next, target' = "archive", target = "old"
               PROVE  ~outputBad
    OBVIOUS
  <2>1. pc = "commit"
    BY DEF Next, Work, Measure, Open, Fill, Probe, Choose, TakeChunk, SubmitPiece, SinkToVector,
           SinkToFile, WriteBlock, StreamRead, StreamFinished, PassFinished, PlainFinished, Count,
           Create, WriteHeader, CopyBlock, Copied, CheckSource, PatchHeader, Close, Commit,
           CommitThrows, Throws, SourceChanges, Stopped, vars, fileVars
  <2> QED
    BY <2>1 DEF IndInv, OutputOK
<1> QED
  BY <1>1, Invariance, PTL DEF Spec, NoBadOutputCommitted

-----------------------------------------------------------------------------
(* A source that changes                                                   *)

(* From the moment the source, a file, is opened on it is longer, or       *)
(* shorter, than it was measured.                                          *)
Opened == pc \notin {"measure", "open"}

Grown == ~directory /\ (Opened => fileSize > inputSize)

Shrunk == ~directory /\ (Opened => fileSize < inputSize)

(* A grown source is not found exhausted after all of it was taken.        *)
GrownStops ==
    /\ buffered => pc \in {"fill", "probe", "threw"}
    /\ pc \notin {"copy", "patch", "close", "commit", "returned"}

(* A shrunken source cannot be read to the size it was measured.           *)
ShrunkStops ==
    /\ buffered => pc \in {"fill", "threw"}
    /\ ~buffered /\ Opened /\ pc # "threw" => taken < inputSize
    /\ pc \notin {"finish", "check", "copy", "patch", "close", "commit", "returned"}

(* What was read fits the size measured, so more is found behind it.       *)
LEMMA GrownStep ==
    ASSUME IndInv, Grown, GrownStops, [Next]_vars
    PROVE  GrownStops'
<1>0. /\ fileSize \in Nat /\ inputSize \in Nat /\ taken \in Nat
      /\ pc \in {"probe", "check"} => fileSize > inputSize
      /\ pc = "probe" => taken = inputSize
      /\ ~directory
  BY CompressAssumption, Numbers DEF IndInv, TypeOK, Grown, Opened, TakenOK, ChoiceOK
<1>1. ~Probe /\ ~CheckSource
  BY <1>0 DEF Probe, CheckSource, SourceExhausted
<1>2. CASE Measure \/ Open \/ Fill \/ Choose \/ TakeChunk \/ SubmitPiece \/ SinkToVector
  BY <1>2
     DEF Measure, Open, Fill, Choose, TakeChunk, SubmitPiece, SinkToVector, GrownStops, choiceVars,
         IndInv, ChoiceOK
<1>3. CASE SinkToFile \/ StreamRead \/ StreamFinished \/ PassFinished \/ PlainFinished \/ Count
  BY <1>3
     DEF SinkToFile, StreamRead, StreamFinished, PassFinished, PlainFinished, Count, GrownStops,
         choiceVars
<1>4. CASE Create \/ WriteHeader
  <2>1. /\ pc \in {"create", "header"} /\ buffered' = buffered
        /\ pc' = "header" \/ (pc' = IF buffered THEN "copy" ELSE "read")
    BY <1>4 DEF Create, WriteHeader, choiceVars
  <2> QED
    BY <2>1 DEF GrownStops
<1>6. CASE CopyBlock \/ Copied \/ PatchHeader \/ Close \/ Commit
  BY <1>6 DEF CopyBlock, Copied, PatchHeader, Close, Commit, GrownStops
<1>5. CASE SourceChanges \/ Stopped \/ UNCHANGED vars
  BY <1>5 DEF SourceChanges, Stopped, vars, GrownStops, choiceVars
<1>7. CASE Throws \/ CommitThrows
  <2>1. pc' = "threw"
    BY <1>7 DEF Throws, CommitThrows
  <2> QED
    BY <2>1 DEF GrownStops
<1> QED
  BY <1>1, <1>2, <1>3, <1>4, <1>5, <1>6, <1>7 DEF Next, Work

(* A step never reads past the end of the shorter source.                  *)
LEMMA ShrunkStep ==
    ASSUME IndInv, IndInv', Shrunk, Shrunk', ShrunkStops, [Next]_vars
    PROVE  ShrunkStops'
<1>0. /\ fileSize \in Nat /\ fileSize' \in Nat /\ inputSize \in Nat /\ taken \in Nat
      /\ pc = "fill" => fileSize < inputSize
      /\ pc = "read" => fileSize < inputSize
      /\ ~directory
  BY CompressAssumption, Numbers DEF IndInv, TypeOK, Shrunk, Opened
<1>1. ~Fill /\ ~StreamRead
  <2>1. ~Fill
    BY <1>0 DEF Fill, SourceHolds
  <2>2. ASSUME StreamRead PROVE FALSE
    <3>1. ~buffered /\ taken < inputSize
      BY <2>2 DEF StreamRead, ShrunkStops, Opened
    <3>2. taken = position /\ position = StreamSize /\ StreamSize = inputSize
      BY <2>2, <3>1 DEF StreamRead, IndInv, TakenOK, StreamSize
    <3> QED
      BY <1>0, <3>1, <3>2
  <2> QED
    BY <2>1, <2>2
<1>2. CASE Measure
  BY <1>2 DEF Measure, ShrunkStops, Opened, choiceVars
<1>3. CASE Open
  <2>1. /\ taken' = 0 /\ pc' \in {"fill", "count"} /\ inputSize' = inputSize
        /\ buffered' => pc' = "fill"
    BY <1>3 DEF Open, IndInv, ChoiceOK, TakenOK, PositionOK, BeforeCoding, sourceVars
  <2>2. Opened'
    BY <2>1 DEF Opened
  <2>3. fileSize' < inputSize'
    BY <2>2 DEF Shrunk
  <2> QED
    BY <1>0, <2>1, <2>3 DEF ShrunkStops
<1>4. CASE TakeChunk
  <2>1. ~buffered /\ pc' = "cut" /\ buffered' = buffered /\ inputSize' = inputSize
    BY <1>4 DEF TakeChunk, ShrunkStops, sourceVars, choiceVars
  <2>2. taken' = taken + NextSize /\ fileSize >= taken + NextSize
    BY <1>0, <1>4, <2>1 DEF TakeChunk, SourceHolds
  <2>3. taken' \in Nat /\ fileSize < inputSize
    <3>1. inputSize' \in Nat
      BY <1>0, <2>1
    <3>2. taken' \in Nat
      BY <3>1 DEF IndInv, TypeOK
    <3> QED
      BY <1>0, <1>4, <3>2 DEF TakeChunk
  <2> QED
    BY <1>0, <2>1, <2>2, <2>3 DEF ShrunkStops
<1>5. CASE Probe \/ Choose \/ SubmitPiece \/ SinkToVector \/ SinkToFile \/ StreamFinished
  BY <1>5
     DEF Probe, Choose, SubmitPiece, SinkToVector, SinkToFile, StreamFinished, ShrunkStops, Opened,
         sourceVars, choiceVars
<1>6. CASE PassFinished \/ PlainFinished \/ Count \/ Create \/ WriteHeader \/ CopyBlock
  BY <1>6
     DEF PassFinished, PlainFinished, Count, Create, WriteHeader, CopyBlock, ShrunkStops, Opened,
         sourceVars, choiceVars
<1>7. CASE Copied \/ CheckSource \/ PatchHeader \/ Close \/ Commit
  BY <1>7 DEF Copied, CheckSource, PatchHeader, Close, Commit, ShrunkStops
<1>8. CASE SourceChanges \/ Stopped \/ UNCHANGED vars
  BY <1>8 DEF SourceChanges, Stopped, vars, ShrunkStops, Opened, sourceVars, choiceVars
<1>9. CASE Throws \/ CommitThrows
  <2>1. pc' = "threw"
    BY <1>9 DEF Throws, CommitThrows
  <2> QED
    BY <2>1 DEF ShrunkStops
<1> QED
  BY <1>1, <1>2, <1>3, <1>4, <1>5, <1>6, <1>7, <1>8, <1>9 DEF Next, Work

(* A source file that is longer, or shorter, than it was measured from its *)
(* opening on is noticed, in a buffered as in a streamed compression:      *)
(* compress_file does not return.                                          *)
THEOREM ChangeNoticed == Spec => SourceChangeNoticed
<1>1. Init => GrownStops /\ ShrunkStops
  BY DEF Init, GrownStops, ShrunkStops, Opened
<1>2. IndInv /\ Grown /\ GrownStops /\ [Next]_vars => GrownStops'
  BY GrownStep
<1>3. IndInv /\ IndInv' /\ Shrunk /\ Shrunk' /\ ShrunkStops /\ [Next]_vars => ShrunkStops'
  BY ShrunkStep
<1>4. (GrownStops => pc # "returned") /\ (ShrunkStops => pc # "returned")
  BY DEF GrownStops, ShrunkStops
<1>5. Spec /\ []Grown => [](pc # "returned")
  BY <1>1, <1>2, <1>4, Invariance, PTL DEF Spec
<1>6. Spec /\ []Shrunk => [](pc # "returned")
  BY <1>1, <1>3, <1>4, Invariance, PTL DEF Spec
<1> QED
  BY <1>5, <1>6, PTL DEF SourceChangeNoticed, Grown, Shrunk, Opened

=============================================================================
