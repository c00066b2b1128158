------------------------ MODULE DecompressFileProofs -------------------------
(***************************************************************************)
(* Proofs about what decompress_file does.  First DecompressFile, for      *)
(* every window, every file header and every archive: its safety           *)
(* properties, and that its block loop implements OrderedPipeline.  Then   *)
(* TarArchive, the stream of a directory that is written by one end and    *)
(* extracted by the other: its types, that an archive extracted in pieces  *)
(* is what it is as a whole, and that the tree that went in comes out,     *)
(* for every tree, stream and buffer.                                      *)
(***************************************************************************)
EXTENDS DecompressFile, TarArchive, FiniteSetTheorems, WellFoundedInduction, TLAPS

(* What the calling thread holds besides the deque.                        *)
FrontCount == IF front = NoBlock THEN 0 ELSE 1

(* A block that is read and has no decoding yet.                           *)
ReadCount == IF pc \in {"decode", "spawn"} THEN 1 ELSE 0

Open == pc \notin {"unwind", "cleanup", "threw"}

Decoding == {b \in DOMAIN worker : worker[b] = "decoding"}

BeforeLoop == pc \in {"header", "create", "reserve"}

(* drain_front holds a slot exactly while it joins and writes it.          *)
FrontOK ==
    /\ front # NoBlock <=> pc \in {"join", "deliver"}
    /\ front # NoBlock => front = Len(delivered) + 1
    /\ pc = "deliver" => worker[front] = "decoded" /\ front \notin joinable

(* The deque holds the newest blocks, in order, without a gap.             *)
SlotsOK ==
    /\ Len(inFlight) + Len(delivered) + FrontCount <= Len(worker)
    /\ Open => Len(inFlight) + Len(delivered) + FrontCount = Len(worker)
    /\ \A i \in DOMAIN inFlight : inFlight[i] = Len(worker) - Len(inFlight) + i

(* The deque and the front never exceed the window, and one block at a     *)
(* time needs neither deque nor threads.                                   *)
RoomOK ==
    /\ ~Sequential => Len(inFlight) + FrontCount <= window
    /\ pc = "spawn" => ~Sequential /\ Len(inFlight) < window
    /\ Sequential => inFlight = <<>> /\ joinable = {} /\ pc # "join"
    /\ pc = "decode" => Sequential

(* Every running thread has an owner that will join it.                    *)
ThreadsOK ==
    /\ Decoding \subseteq joinable
    /\ joinable \subseteq Owned

(* What is written is a gap-free run of good blocks.                       *)
DeliveredOK ==
    \A b \in DOMAIN delivered : delivered[b] = b /\ worker[b] = "decoded"

(* How far reading has come.                                               *)
ReadOK ==
    /\ BeforeLoop => sizes = <<>> /\ worker = <<>>
    /\ Len(sizes) <= header.blockCount /\ Len(worker) <= Len(sizes)
    /\ Open => Len(sizes) = Len(worker) + ReadCount

(* What the blocks read so far restore and what is left make the whole.    *)
SumOK == remaining + Restored = header.codedSize

(* The loop is over once every block is written, and only then; nothing is *)
(* missing or trailing when the output is committed.                       *)
EndOK ==
    /\ pc = "drain" => Len(worker) = header.blockCount
    /\ pc \in {"check", "restore", "finish", "returned"} => drained
    /\ drained => /\ pc \in {"check", "restore", "finish", "returned", "cleanup", "threw"}
                  /\ Len(worker) = header.blockCount /\ Len(delivered) = Len(worker)
                  /\ Len(sizes) = Len(worker) /\ inFlight = <<>>
    /\ pc \in {"restore", "finish", "returned"} => StreamEndsHere
    /\ target = "restored" => drained /\ StreamEndsHere

(* Before the temporary output is made there is none.                      *)
TemporaryOK ==
    /\ pc \in {"header", "create"} => temporary = "none"
    /\ pc = "reserve" => header.streamLzp

(* No slot is left when the clean-up runs, and what has been committed is  *)
(* nothing it could remove.                                                *)
CleanupOK ==
    /\ pc = "cleanup" => inFlight = <<>>
    /\ target = "restored" => temporary = "none"

SlotInv == FrontOK /\ SlotsOK /\ RoomOK /\ ThreadsOK /\ DeliveredOK

StreamInv == ReadOK /\ SumOK /\ EndOK /\ TemporaryOK

IndInv == TypeOK /\ SlotInv /\ StreamInv /\ HeldWithinWindow /\ CleanupOK

-----------------------------------------------------------------------------
(* Sums                                                                    *)

(* A set of naturals that is not empty has a least element: what stands    *)
(* for induction here.                                                     *)
LEMMA Least ==
    ASSUME NEW T, T \subseteq Nat, T # {}
    PROVE  \E n \in T : \A m \in T : n <= m
<1>1. IsWellFoundedOn(OpToRel(<, Nat), Nat)
  BY NatLessThanWellFounded
<1>2. PICK n \in T : \A m \in T : ~(<<m, n>> \in OpToRel(<, Nat))
  BY <1>1, WFMin
<1>3. \A m \in T : ~(m < n)
  BY <1>2 DEF OpToRel
<1> QED
  BY <1>3

(* The partial sums of s up to the k-th.                                   *)
Sums(t, s, k) ==
    /\ t \in [0..k -> Nat]
    /\ t[0] = 0
    /\ \A n \in 1..k : t[n] = t[n - 1] + s[n]

(* Every sequence has its partial sums.                                    *)
LEMMA SumsExist ==
    ASSUME NEW s \in Seq(Nat), NEW k \in 0..Len(s)
    PROVE  \E t : Sums(t, s, k)
<1> DEFINE T == {n \in 0..Len(s) : ~\E t : Sums(t, s, n)}
<1>1. ASSUME T # {} PROVE FALSE
  <2>0. T \subseteq Nat
    OBVIOUS
  <2>1. PICK n \in T : \A m \in T : n <= m
    <3> HIDE DEF T
    <3> QED
      BY <1>1, <2>0, Least
  <2>2. n # 0
    <3>1. Sums([m \in 0..0 |-> 0], s, 0)
      BY DEF Sums
    <3> QED
      BY <3>1, <2>1
  <2>3. n - 1 \in 0..Len(s) /\ n \in 1..Len(s) /\ s[n] \in Nat /\ ~(n <= n - 1)
    BY <2>2
  <2>4. n - 1 \notin T
    BY <2>1, <2>3
  <2>5. PICK t : Sums(t, s, n - 1)
    BY <2>4, <2>3
  <2> DEFINE u == [m \in 0..n |-> IF m = n THEN t[n - 1] + s[n] ELSE t[m]]
  <2>6. u \in [0..n -> Nat]
    BY <2>3, <2>5 DEF Sums
  <2>7. u[0] = 0
    BY <2>3, <2>5 DEF Sums
  <2>8. ASSUME NEW m \in 1..n PROVE u[m] = u[m - 1] + s[m]
    <3>1. m \in 0..n /\ m - 1 \in 0..n /\ m - 1 # n
      BY <2>3
    <3>2. CASE m = n
      BY <3>1, <3>2
    <3>3. CASE m # n
      <4>1. m \in 1..(n - 1)
        BY <3>3, <2>3
      <4>2. t[m] = t[m - 1] + s[m]
        BY <4>1, <2>5 DEF Sums
      <4> QED
        BY <3>1, <3>3, <4>2
    <3> QED
      BY <3>2, <3>3
  <2>9. Sums(u, s, n)
    <3> HIDE DEF u
    <3> QED
      BY <2>6, <2>7, <2>8 DEF Sums
  <2> QED
    BY <2>1, <2>9
<1> QED
  BY <1>1

(* Partial sums depend on nothing but what is summed.                      *)
LEMMA SumsUnique ==
    ASSUME NEW t, NEW s, NEW k \in Nat, Sums(t, s, k),
           NEW u, NEW r, NEW l \in Nat, Sums(u, r, l),
           k <= l, \A n \in 1..k : r[n] = s[n]
    PROVE  \A m \in 0..k : t[m] = u[m]
<1> DEFINE T == {m \in 0..k : t[m] # u[m]}
<1>1. ASSUME T # {} PROVE FALSE
  <2>0. T \subseteq Nat
    OBVIOUS
  <2>1. PICK m \in T : \A i \in T : m <= i
    <3> HIDE DEF T
    <3> QED
      BY <1>1, <2>0, Least
  <2>2. m # 0
    BY <2>1 DEF Sums
  <2>3. m - 1 \in 0..k /\ m \in 1..k /\ m \in 1..l /\ ~(m <= m - 1)
    BY <2>1, <2>2
  <2>4. t[m - 1] = u[m - 1]
    BY <2>1, <2>3
  <2>5. t[m] = t[m - 1] + s[m] /\ u[m] = u[m - 1] + r[m] /\ r[m] = s[m]
    BY <2>3 DEF Sums
  <2> QED
    BY <2>1, <2>4, <2>5
<1> QED
  BY <1>1

(* The recursive definition of Total is its last partial sum.              *)
LEMMA TotalIsSum ==
    ASSUME NEW s \in Seq(Nat)
    PROVE  \E t : Sums(t, s, Len(s)) /\ Total(s) = t[Len(s)]
<1> DEFINE Def(t) == t = [n \in 0..Len(s) |-> IF n = 0 THEN 0 ELSE t[n - 1] + s[n]]
<1>1. PICK u : Sums(u, s, Len(s))
  BY SumsExist
<1>2. Def(u)
  <2>1. u = [n \in 0..Len(s) |-> u[n]]
    BY <1>1 DEF Sums
  <2>2. ASSUME NEW n \in 0..Len(s) PROVE u[n] = IF n = 0 THEN 0 ELSE u[n - 1] + s[n]
    <3>1. n = 0 \/ n \in 1..Len(s)
      OBVIOUS
    <3> QED
      BY <1>1, <3>1 DEF Sums
  <2> QED
    BY <2>1, <2>2
<1> DEFINE t == CHOOSE x : Def(x)
<1>3. Def(t)
  <2> HIDE DEF Def
  <2> QED
    BY <1>2
<1>4. Total(s) = t[Len(s)]
  BY DEF Total
<1> HIDE DEF t
<1>5. \A n \in 0..Len(s) : t[n] = IF n = 0 THEN 0 ELSE t[n - 1] + s[n]
  BY <1>3
<1> HIDE DEF Def
<1>6. \A n \in 0..Len(s) : t[n] = u[n]
  <2> DEFINE T == {n \in 0..Len(s) : t[n] # u[n]}
  <2>1. ASSUME T # {} PROVE FALSE
    <3>0. T \subseteq Nat
      OBVIOUS
    <3>1. PICK n \in T : \A i \in T : n <= i
      <4> HIDE DEF T
      <4> QED
        BY <2>1, <3>0, Least
    <3>2. n # 0
      BY <1>1, <1>5, <3>1 DEF Sums
    <3>3. n - 1 \in 0..Len(s) /\ n \in 1..Len(s) /\ ~(n <= n - 1)
      BY <3>1, <3>2
    <3>4. t[n - 1] = u[n - 1]
      BY <3>1, <3>3
    <3>5. u[n] = u[n - 1] + s[n]
      BY <1>1, <3>3 DEF Sums
    <3> QED
      BY <1>5, <3>1, <3>2, <3>4, <3>5
  <2> QED
    BY <2>1
<1>7. Total(s) = u[Len(s)]
  BY <1>4, <1>6
<1> QED
  BY <1>1, <1>7

(* Sizes add up to a size.                                                 *)
LEMMA TotalIsNat ==
    ASSUME NEW s \in Seq(Nat)
    PROVE  Total(s) \in Nat
BY TotalIsSum DEF Sums

(* No sizes add up to nothing.                                             *)
LEMMA TotalEmpty == Total(<<>>) = 0
<1>1. <<>> \in Seq(Nat) /\ Len(<<>>) = 0
  OBVIOUS
<1> QED
  BY <1>1, TotalIsSum DEF Sums

(* One more size is added.                                                 *)
LEMMA TotalAppend ==
    ASSUME NEW s \in Seq(Nat), NEW x \in Nat
    PROVE  Total(Append(s, x)) = Total(s) + x
<1> DEFINE r == Append(s, x)
<1>1. r \in Seq(Nat) /\ Len(r) = Len(s) + 1 /\ r[Len(r)] = x /\ \A n \in 1..Len(s) : r[n] = s[n]
  OBVIOUS
<1> HIDE DEF r
<1>2. PICK t : Sums(t, s, Len(s)) /\ Total(s) = t[Len(s)]
  BY TotalIsSum
<1>3. PICK u : Sums(u, r, Len(r)) /\ Total(r) = u[Len(r)]
  BY <1>1, TotalIsSum
<1>4. Len(s) \in Nat /\ Len(r) \in Nat /\ Len(s) <= Len(r) /\ Len(s) \in 0..Len(s)
      /\ Len(r) \in 1..Len(r) /\ Len(r) - 1 = Len(s)
  BY <1>1
<1>5. u[Len(s)] = t[Len(s)]
  <2>1. \A n \in 1..Len(s) : r[n] = s[n]
    BY <1>1
  <2>2. Sums(t, s, Len(s)) /\ Sums(u, r, Len(r)) /\ Len(s) \in Nat /\ Len(r) \in Nat
        /\ Len(s) <= Len(r) /\ Len(s) \in 0..Len(s)
    BY <1>2, <1>3, <1>4
  <2>3. \A m \in 0..Len(s) : t[m] = u[m]
    BY ONLY <2>1, <2>2, SumsUnique
  <2> QED
    BY <2>2, <2>3
<1>6. u[Len(r)] = u[Len(r) - 1] + r[Len(r)]
  BY <1>3, <1>4 DEF Sums
<1> QED
  BY <1>1, <1>2, <1>3, <1>4, <1>5, <1>6 DEF r

-----------------------------------------------------------------------------
(* What holds of any state of the invariant                                *)

(* Lengths, counts and sizes are numbers.                                  *)
LEMMA Numbers ==
    ASSUME TypeOK
    PROVE  /\ Len(worker) \in Nat /\ Len(inFlight) \in Nat /\ Len(delivered) \in Nat
           /\ Len(sizes) \in Nat /\ FrontCount \in Nat /\ window \in Nat \ {0}
           /\ header.codedSize \in Nat /\ header.blockCount \in Nat /\ header.directory \in BOOLEAN
           /\ remaining \in Nat /\ Restored \in Nat /\ sizes \in Seq(Nat)
<1>1. sizes \in Seq(Nat)
  BY FormatAssumption DEF TypeOK
<1> QED
  BY <1>1, TotalIsNat, WindowAssumption, HeadersAssumption DEF TypeOK, FrontCount, Restored

(* A pipeline that has not started satisfies the invariant.                *)
LEMMA InitIndInv == Init => IndInv
<1> SUFFICES ASSUME Init PROVE IndInv
  OBVIOUS
<1>0. header.codedSize \in Nat /\ header.blockCount \in Nat
  BY HeadersAssumption DEF Init
<1>1. TypeOK
  <2>1. remaining \in 0..header.codedSize /\ archiveRemaining \in Nat
    BY <1>0, ArchiveSizesAssumption DEF Init
  <2>2. \A S : <<>> \in Seq(S)
    OBVIOUS
  <2>3. /\ sizes \in Seq(1..MaxBlockSize) /\ worker \in Seq({"decoding", "decoded", "threw"})
        /\ inFlight \in Seq(Nat \ {0}) /\ delivered \in Seq(Nat \ {0})
    BY <2>2 DEF Init
  <2> QED
    BY <2>1, <2>3 DEF Init, TypeOK, NoBlock, Positions
<1>2. FrontOK /\ SlotsOK /\ RoomOK /\ DeliveredOK
  BY <1>1, Numbers DEF Init, FrontOK, SlotsOK, RoomOK, FrontCount, DeliveredOK, NoBlock
<1>3. ThreadsOK
  BY DEF Init, ThreadsOK, Decoding
<1>4. ReadOK /\ EndOK /\ TemporaryOK
  BY <1>0 DEF Init, ReadOK, ReadCount, EndOK, TemporaryOK
<1>5. SumOK
  BY <1>0, TotalEmpty DEF Init, SumOK, Restored
<1>6. HeldWithinWindow /\ CleanupOK
  BY <1>1, Numbers DEF Init, HeldWithinWindow, CleanupOK
<1> QED
  BY <1>1, <1>2, <1>3, <1>4, <1>5, <1>6 DEF IndInv, SlotInv, StreamInv

-----------------------------------------------------------------------------
(* Steps of the calling thread that touch no slot                          *)

(* The calling thread moves on, and touches no block, slot or thread.      *)
LEMMA CallerMoves ==
    ASSUME TypeOK, SlotInv,
           UNCHANGED <<header, window, worker, inFlight, front, joinable, delivered>>,
           Open' => Open,
           pc \notin {"join", "deliver"}, pc' \notin {"join", "deliver"},
           pc' = "spawn" => ~Sequential /\ Len(inFlight) < window,
           pc' = "decode" => Sequential
    PROVE  SlotInv'
<1>1. FrontOK' /\ SlotsOK'
  BY DEF SlotInv, FrontOK, SlotsOK, FrontCount
<1>2. RoomOK'
  BY DEF SlotInv, RoomOK, FrontCount, Sequential
<1>3. ThreadsOK' /\ DeliveredOK'
  BY DEF SlotInv, ThreadsOK, DeliveredOK, Decoding, Owned, Slots
<1> QED
  BY <1>1, <1>2, <1>3 DEF SlotInv

(* The steps before the block loop.                                        *)
LEMMA BeforeLoopStep ==
    ASSUME IndInv, CheckHeader \/ CreateOutput \/ CreateThrows \/ Reserve \/ ReserveThrows
    PROVE  IndInv'
<1> USE DEF CheckHeader, CreateOutput, CreateThrows, Reserve, ReserveThrows, RemoveTemporary
<1>0. UNCHANGED <<inputVars, readVars, threadVars, drained, delivered, target>>
  BY DEF outputVars
<1>1. TypeOK'
  <2>1. temporary' \in {"none", "there", "stuck"}
    BY DEF IndInv, TypeOK, outputVars
  <2>2. pc' \in Positions
    BY DEF Positions
  <2> QED
    BY <1>0, <2>1, <2>2 DEF IndInv, TypeOK, inputVars, readVars, threadVars
<1>2. SlotInv'
  BY <1>0, CallerMoves DEF IndInv, Open, inputVars, threadVars
<1>3. ReadOK' /\ EndOK' /\ TemporaryOK'
  BY <1>0, Numbers
     DEF IndInv, StreamInv, ReadOK, ReadCount, EndOK, TemporaryOK, BeforeLoop, Open, StreamEndsHere,
         inputVars, readVars, threadVars, outputVars
<1>4. SumOK' /\ HeldWithinWindow'
  BY <1>0 DEF IndInv, StreamInv, SumOK, Restored, HeldWithinWindow, inputVars, readVars
<1>5. CleanupOK'
  BY <1>0
     DEF IndInv, StreamInv, EndOK, ReadOK, BeforeLoop, TemporaryOK, CleanupOK, inputVars,
         readVars, outputVars
<1> QED
  BY <1>1, <1>2, <1>3, <1>4, <1>5 DEF IndInv, StreamInv

-----------------------------------------------------------------------------
(* The block loop                                                          *)

(* An exception on the calling thread, at a point where it holds no slot   *)
(* or one whose thread is joined already.                                  *)
LEMMA Aborts ==
    ASSUME IndInv, pc \in {"loop", "decode", "spawn", "join", "deliver"},
           pc' = "unwind", front' = NoBlock, joinable' = joinable \ {front},
           front # NoBlock => front \notin Decoding,
           UNCHANGED <<inputVars, readVars, worker, inFlight, drained, outputVars>>
    PROVE  IndInv'
<1> USE DEF inputVars, readVars, outputVars
<1>1. TypeOK'
  BY DEF IndInv, TypeOK, Positions, NoBlock
<1>2. FrontOK' /\ SlotsOK' /\ RoomOK'
  BY Numbers DEF IndInv, SlotInv, FrontOK, SlotsOK, RoomOK, FrontCount, Open, Sequential, NoBlock
<1>3. ThreadsOK' /\ DeliveredOK'
  <2>1. ThreadsOK'
    BY DEF IndInv, SlotInv, ThreadsOK, Decoding, Owned, Slots, TypeOK, NoBlock
  <2>2. DeliveredOK'
    BY DEF IndInv, SlotInv, DeliveredOK
  <2> QED
    BY <2>1, <2>2
<1>4. StreamInv'
  BY DEF IndInv, StreamInv, ReadOK, SumOK, Restored, EndOK, TemporaryOK, StreamEndsHere,
         BeforeLoop, Open
<1>5. HeldWithinWindow' /\ CleanupOK'
  BY DEF IndInv, HeldWithinWindow, CleanupOK
<1> QED
  BY <1>1, <1>2, <1>3, <1>4, <1>5 DEF IndInv, SlotInv

(* A malformed block, a thread that does not start, a failing write.       *)
LEMMA AbortStep ==
    ASSUME IndInv, ReadThrows \/ SpawnThrows \/ DeliverThrows
    PROVE  IndInv'
<1>1. front = NoBlock \/ pc = "deliver"
  BY DEF IndInv, SlotInv, FrontOK, ReadThrows, SpawnThrows, DeliverThrows
<1>2. joinable' = joinable \ {front}
  BY <1>1 DEF IndInv, SlotInv, TypeOK, FrontOK, NoBlock, ReadThrows, SpawnThrows, DeliverThrows,
              threadVars
<1>3. front # NoBlock => front \notin Decoding
  BY <1>1 DEF IndInv, SlotInv, FrontOK, Decoding
<1>4. front' = NoBlock
  BY <1>1 DEF ReadThrows, SpawnThrows, DeliverThrows, threadVars
<1>5. /\ pc \in {"loop", "decode", "spawn", "join", "deliver"} /\ pc' = "unwind"
      /\ UNCHANGED <<inputVars, readVars, worker, inFlight, drained, outputVars>>
  BY DEF ReadThrows, SpawnThrows, DeliverThrows, threadVars
<1> QED
  BY <1>1, <1>2, <1>3, <1>4, <1>5, Aborts

(* read_block: the sizes stay within what the header declared.             *)
LEMMA ReadBlockStep ==
    ASSUME IndInv, ReadBlock
    PROVE  IndInv'
<1>0. PICK size \in 1..MaxBlockSize, payload \in Nat :
        /\ OriginalSizeValid(header, size, remaining)
        /\ PayloadFits(payload, size)
        /\ archiveRemaining' = archiveRemaining - BlockHeaderSize - payload
        /\ remaining' = remaining - size
        /\ sizes' = Append(sizes, size)
  BY DEF ReadBlock
<1>1. /\ size \in Nat /\ payload \in Nat /\ size <= remaining /\ header.blockSize \in Nat
      /\ payload <= archiveRemaining - BlockHeaderSize
      /\ BlockHeaderSize \in Nat /\ archiveRemaining >= BlockHeaderSize
  <2>1. header.blockSize \in Nat
    BY HeadersAssumption DEF IndInv, TypeOK
  <2>2. size <= remaining
    BY SMTT(30), <1>0, <2>1, FormatAssumption, Numbers DEF IndInv, OriginalSizeValid, ExpectedSize
  <2> QED
    BY <1>0, <2>1, <2>2, FormatAssumption DEF PayloadFits, PayloadSizeValid, ReadBlock
<1>2. /\ UNCHANGED <<header, window, worker, inFlight, front, joinable, delivered, drained,
                     temporary, target>>
      /\ pc = "loop" /\ BlocksLeft /\ (Sequential \/ ~WindowFull)
      /\ pc' = IF Sequential THEN "decode" ELSE "spawn"
  BY DEF ReadBlock, inputVars, threadVars, outputVars
<1>3. /\ Len(sizes') = Len(sizes) + 1 /\ Len(sizes) = Len(worker) /\ front = NoBlock
      /\ Len(worker) < header.blockCount
  BY <1>0, <1>2, Numbers
     DEF IndInv, TypeOK, SlotInv, StreamInv, FrontOK, ReadOK, ReadCount, Open, BlocksLeft
<1>4. TypeOK'
  <2>1. remaining' \in 0..header'.codedSize /\ archiveRemaining' \in Nat
    BY SMTT(30), <1>0, <1>1, <1>2, Numbers DEF IndInv, TypeOK
  <2>2. sizes' \in Seq(1..MaxBlockSize)
    BY <1>0 DEF IndInv, TypeOK
  <2> QED
    BY <1>2, <2>1, <2>2 DEF IndInv, TypeOK, Positions
<1>5. SlotInv'
  BY <1>2, CallerMoves, Numbers DEF IndInv, Open, WindowFull
<1>6. ReadOK' /\ EndOK' /\ TemporaryOK'
  BY <1>2, <1>3, Numbers
     DEF IndInv, StreamInv, ReadOK, ReadCount, EndOK, TemporaryOK, BeforeLoop, Open
<1>7. SumOK'
  BY SMTT(30), <1>0, <1>1, <1>2, Numbers, TotalAppend DEF IndInv, StreamInv, SumOK, Restored
<1>8. HeldWithinWindow'
  BY <1>2, <1>3, Numbers
     DEF IndInv, SlotInv, SlotsOK, RoomOK, FrontCount, HeldWithinWindow, WindowFull, Open
<1>9. CleanupOK'
  BY <1>2 DEF IndInv, CleanupOK
<1> QED
  BY <1>4, <1>5, <1>6, <1>7, <1>8, <1>9 DEF IndInv, StreamInv

(* decode_block on the calling thread: nothing is ever in flight.          *)
LEMMA DecodeInlineStep ==
    ASSUME IndInv, DecodeInline
    PROVE  IndInv'
<1>0. /\ inFlight = <<>> /\ joinable = {} /\ front = NoBlock /\ Open /\ Sequential
      /\ Len(worker) = Len(delivered) /\ Len(sizes) = Len(worker) + 1 /\ ~drained
      /\ target # "restored"
      /\ UNCHANGED <<header, window, remaining, archiveRemaining, sizes, inFlight, joinable,
                     drained, delivered, temporary, target>>
  BY Numbers
     DEF IndInv, SlotInv, StreamInv, FrontOK, SlotsOK, RoomOK, ReadOK, ReadCount, EndOK, FrontCount,
         Open, DecodeInline, inputVars, readVars, outputVars
<1>1. CASE pc' = "unwind"
  <2>1. front' = NoBlock /\ joinable' = joinable \ {front} /\ UNCHANGED worker
    BY <1>0, <1>1 DEF DecodeInline
  <2> QED
    BY <1>0, <1>1, <2>1, Aborts DEF DecodeInline
<1>2. CASE pc' = "deliver"
  <2>0. worker' = Append(worker, "decoded") /\ front' = Len(worker) + 1
    BY <1>2 DEF DecodeInline, NextBlock
  <2>1. /\ TypeOK' /\ Len(worker') = Len(worker) + 1 /\ worker'[Len(worker) + 1] = "decoded"
        /\ \A b \in DOMAIN worker : worker'[b] = worker[b]
        /\ DOMAIN worker' = DOMAIN worker \cup {Len(worker) + 1}
    BY <1>0, <1>2, <2>0 DEF IndInv, TypeOK, Positions
  <2>2. FrontOK' /\ SlotsOK'
    BY <1>0, <1>2, <2>0, <2>1, Numbers
       DEF IndInv, SlotInv, FrontOK, SlotsOK, FrontCount, Open, NoBlock
  <2>3. RoomOK'
    BY <1>0, <1>2 DEF RoomOK, Sequential
  <2>4. ThreadsOK' /\ DeliveredOK'
    <3>1. Decoding' = {}
      BY <1>0, <2>1 DEF IndInv, SlotInv, ThreadsOK, Decoding
    <3>2. DOMAIN delivered = DOMAIN worker
      BY <1>0 DEF IndInv, TypeOK
    <3> QED
      BY <1>0, <2>1, <3>1, <3>2 DEF IndInv, SlotInv, ThreadsOK, DeliveredOK
  <2>5. ReadOK'
    BY <1>0, <1>2, <2>1, Numbers DEF IndInv, StreamInv, ReadOK, ReadCount, BeforeLoop
  <2>6. SumOK' /\ EndOK' /\ TemporaryOK'
    BY <1>0, <1>2 DEF IndInv, StreamInv, SumOK, Restored, EndOK, TemporaryOK
  <2>7. HeldWithinWindow' /\ CleanupOK'
    BY <1>0, <1>2 DEF IndInv, HeldWithinWindow, CleanupOK
  <2> QED
    BY <2>1, <2>2, <2>3, <2>4, <2>5, <2>6, <2>7 DEF IndInv, SlotInv, StreamInv
<1> QED
  BY <1>1, <1>2 DEF DecodeInline

(* The front slot leaves a deque that is not empty.                        *)
LEMMA TakeSlotStep ==
    ASSUME IndInv, MakeRoom \/ DrainMore
    PROVE  IndInv'
<1>0. /\ Len(worker) \in Nat /\ Len(inFlight) \in Nat /\ Len(delivered) \in Nat
      /\ window \in Nat \ {0}
  BY Numbers DEF IndInv
<1>1. /\ front = NoBlock /\ Open /\ Open' /\ inFlight # <<>> /\ ~Sequential /\ ~drained
      /\ target # "restored" /\ pc \in {"loop", "drain"} /\ pc' = "join"
      /\ front' = Head(inFlight) /\ inFlight' = Tail(inFlight)
      /\ UNCHANGED <<header, window, remaining, archiveRemaining, sizes, worker, joinable, drained,
                     delivered, temporary, target>>
  <2>1. /\ TakeSlot /\ pc \in {"loop", "drain"} /\ inFlight # <<>>
    <3>1. WindowFull => inFlight # <<>>
      BY <1>0 DEF WindowFull
    <3> QED
      BY <3>1 DEF MakeRoom, DrainMore
  <2> QED
    BY <2>1
       DEF IndInv, SlotInv, StreamInv, FrontOK, RoomOK, EndOK, Open, TakeSlot, inputVars, readVars,
           outputVars
<1>2. /\ Len(inFlight) \in Nat \ {0} /\ Len(inFlight') = Len(inFlight) - 1
      /\ front' = inFlight[1] /\ inFlight' \in Seq(Nat \ {0})
      /\ \A i \in DOMAIN inFlight' : inFlight'[i] = inFlight[i + 1]
  BY <1>1 DEF IndInv, TypeOK
<1>3. front' = Len(delivered) + 1
  <2>1. inFlight[1] = Len(worker) - Len(inFlight) + 1
    <3>1. 1 \in DOMAIN inFlight
      BY <1>2 DEF IndInv, TypeOK
    <3> QED
      BY <3>1 DEF IndInv, SlotInv, SlotsOK
  <2>2. Len(inFlight) + Len(delivered) = Len(worker)
    BY <1>0, <1>1 DEF IndInv, SlotInv, SlotsOK, FrontCount
  <2> QED
    BY <1>0, <1>2, <2>1, <2>2
<1>4. TypeOK'
  BY <1>1, <1>2, <1>3, Numbers DEF IndInv, TypeOK, Positions
<1>5. FrontOK'
  BY <1>1, <1>3, Numbers DEF IndInv, FrontOK, NoBlock
<1>6. SlotsOK'
  <2>1. FrontCount = 0 /\ FrontCount' = 1
    BY <1>1, <1>3, Numbers DEF IndInv, FrontCount, NoBlock
  <2>2. Len(inFlight') + Len(delivered') + FrontCount' = Len(worker')
    BY <1>1, <1>2, <2>1, Numbers DEF IndInv, SlotInv, SlotsOK
  <2>3. ASSUME NEW i \in DOMAIN inFlight'
        PROVE  inFlight'[i] = Len(worker') - Len(inFlight') + i
    <3>1. i + 1 \in DOMAIN inFlight /\ i \in Nat
      BY <1>1, <1>2 DEF IndInv, TypeOK
    <3>2. inFlight[i + 1] = Len(worker) - Len(inFlight) + (i + 1)
      BY <3>1 DEF IndInv, SlotInv, SlotsOK
    <3> QED
      BY <1>0, <1>1, <1>2, <3>1, <3>2
  <2> QED
    BY <1>4, <2>2, <2>3 DEF SlotsOK, TypeOK
<1>7. RoomOK'
  BY <1>1, <1>2, Numbers DEF IndInv, SlotInv, RoomOK, FrontCount, NoBlock, Sequential
<1>8. Slots \subseteq Slots' \cup {front'}
  <2> SUFFICES ASSUME NEW i \in DOMAIN inFlight, i # 1
              PROVE  inFlight[i] \in Slots'
    BY <1>2 DEF Slots
  <2> i - 1 \in DOMAIN inFlight' /\ inFlight'[i - 1] = inFlight[i]
    BY SMTT(30), <1>1, <1>2 DEF IndInv, TypeOK
  <2> QED
    BY DEF Slots
<1>9. ThreadsOK' /\ DeliveredOK'
  BY <1>1, <1>3, <1>8, Numbers
     DEF IndInv, SlotInv, ThreadsOK, DeliveredOK, Decoding, Owned, NoBlock
<1>10. StreamInv'
  BY <1>1
     DEF IndInv, StreamInv, ReadOK, ReadCount, SumOK, Restored, EndOK, TemporaryOK, BeforeLoop
<1>11. HeldWithinWindow' /\ CleanupOK'
  BY <1>1 DEF IndInv, HeldWithinWindow, CleanupOK
<1> QED
  BY <1>4, <1>5, <1>6, <1>7, <1>9, <1>10, <1>11 DEF IndInv, SlotInv

(* A new slot and its thread enter a deque that has room.                  *)
LEMMA SpawnStep ==
    ASSUME IndInv, Spawn
    PROVE  IndInv'
<1>1. /\ ~Sequential /\ Len(inFlight) < window /\ front = NoBlock /\ front' = NoBlock
      /\ Open /\ Open' /\ pc = "spawn" /\ pc' = "loop" /\ ~drained /\ target # "restored"
      /\ UNCHANGED <<header, window, remaining, archiveRemaining, sizes, drained, delivered,
                     temporary, target>>
  BY DEF IndInv, SlotInv, StreamInv, FrontOK, RoomOK, EndOK, Open, Spawn, inputVars, readVars,
         outputVars
<1>2. /\ Len(inFlight') = Len(inFlight) + 1 /\ Len(worker') = Len(worker) + 1
      /\ \A i \in DOMAIN inFlight : inFlight'[i] = inFlight[i]
      /\ inFlight'[Len(inFlight')] = Len(worker')
      /\ DOMAIN inFlight' = DOMAIN inFlight \cup {Len(inFlight')}
      /\ \A b \in DOMAIN worker : worker'[b] = worker[b]
      /\ DOMAIN worker' = DOMAIN worker \cup {Len(worker')}
      /\ joinable' = joinable \cup {Len(worker')}
  BY DEF IndInv, TypeOK, Spawn, NextBlock
<1>3. TypeOK'
  <2>1. /\ worker' \in Seq({"decoding", "decoded", "threw"})
        /\ inFlight' \in Seq(Nat \ {0})
    BY DEF IndInv, TypeOK, Spawn, NextBlock
  <2>2. joinable' \in SUBSET (Nat \ {0})
    <3>1. Len(worker') \in Nat \ {0} /\ joinable \in SUBSET (Nat \ {0})
      BY <1>2, Numbers DEF IndInv, TypeOK
    <3> QED
      BY <1>2, <3>1
  <2> QED
    BY <1>1, <2>1, <2>2 DEF IndInv, TypeOK, Positions
<1>4. FrontOK' /\ RoomOK'
  BY <1>1, <1>2, Numbers DEF IndInv, SlotInv, FrontOK, RoomOK, FrontCount, Sequential
<1>5. SlotsOK'
  <2>1. Len(inFlight') + Len(delivered') + FrontCount' = Len(worker')
    <3>1. FrontCount = 0 /\ FrontCount' = 0
      BY <1>1 DEF FrontCount
    <3>2. /\ Len(inFlight) + Len(delivered) = Len(worker)
          /\ Len(inFlight) \in Nat /\ Len(delivered) \in Nat
      BY <1>1, <3>1, Numbers DEF IndInv, SlotInv, SlotsOK
    <3> QED
      BY <1>1, <1>2, <3>1, <3>2
  <2>2. ASSUME NEW i \in DOMAIN inFlight'
        PROVE  inFlight'[i] = Len(worker') - Len(inFlight') + i
    <3>0. /\ Len(worker) \in Nat /\ Len(inFlight) \in Nat
          /\ i \in DOMAIN inFlight => i \in Nat
      BY Numbers DEF IndInv, TypeOK
    <3>1. CASE i \in DOMAIN inFlight
      BY <1>2, <3>0, <3>1 DEF IndInv, SlotInv, SlotsOK
    <3>2. CASE i = Len(inFlight')
      BY <1>2, <3>0, <3>2
    <3> QED
      BY <1>2, <3>1, <3>2
  <2>3. /\ Len(worker') \in Nat /\ Len(inFlight') \in Nat /\ Len(delivered') \in Nat
        /\ FrontCount' \in Nat
    BY <1>3 DEF TypeOK, FrontCount
  <2> QED
    BY <2>1, <2>2, <2>3 DEF SlotsOK
<1>6. ThreadsOK'
  <2>1. Slots' = Slots \cup {Len(worker')}
    BY <1>2 DEF Slots
  <2>2. Decoding' \subseteq Decoding \cup {Len(worker')}
    BY <1>2 DEF Decoding
  <2> QED
    BY <1>1, <1>2, <2>1, <2>2 DEF IndInv, SlotInv, ThreadsOK, Owned
<1>7. DeliveredOK'
  <2>1. DOMAIN delivered \subseteq DOMAIN worker
    BY Numbers DEF IndInv, TypeOK, SlotInv, SlotsOK
  <2> QED
    BY <1>1, <1>2, <2>1 DEF IndInv, SlotInv, DeliveredOK
<1>8. StreamInv'
  BY <1>1, <1>2, Numbers
     DEF IndInv, StreamInv, ReadOK, ReadCount, SumOK, Restored, EndOK, TemporaryOK, BeforeLoop
<1>9. HeldWithinWindow' /\ CleanupOK'
  BY <1>1 DEF IndInv, HeldWithinWindow, CleanupOK
<1> QED
  BY <1>3, <1>4, <1>5, <1>6, <1>7, <1>8, <1>9 DEF IndInv, SlotInv

(* The last block is read.                                                 *)
LEMMA LoopEndsStep ==
    ASSUME IndInv, LoopEnds
    PROVE  IndInv'
<1>1. /\ pc = "loop" /\ pc' = "drain" /\ ~BlocksLeft
      /\ UNCHANGED <<inputVars, readVars, threadVars, drained, outputVars>>
  BY DEF LoopEnds
<1> USE DEF inputVars, readVars, threadVars, outputVars
<1>2. TypeOK'
  BY <1>1 DEF IndInv, TypeOK, Positions
<1>3. SlotInv'
  BY <1>1, CallerMoves DEF IndInv, Open
<1>4. StreamInv'
  <2>1. Len(worker) = header.blockCount
    BY <1>1, Numbers DEF IndInv, StreamInv, ReadOK, BlocksLeft
  <2> QED
    BY <1>1, <2>1
       DEF IndInv, StreamInv, ReadOK, ReadCount, SumOK, Restored, EndOK, TemporaryOK, BeforeLoop
<1>5. HeldWithinWindow' /\ CleanupOK'
  BY <1>1 DEF IndInv, HeldWithinWindow, CleanupOK
<1> QED
  BY <1>2, <1>3, <1>4, <1>5 DEF IndInv

(* join() has returned: the result is good, or it is rethrown.             *)
LEMMA JoinFrontStep ==
    ASSUME IndInv, JoinFront
    PROVE  IndInv'
<1>0. /\ front = Len(delivered) + 1 /\ front # NoBlock /\ Open /\ ~drained
      /\ front \in DOMAIN worker /\ front \notin Decoding /\ ~Sequential /\ target # "restored"
      /\ pc = "join"
  <2>1. /\ pc = "join" /\ front = Len(delivered) + 1 /\ front # NoBlock /\ Open
    BY DEF IndInv, SlotInv, FrontOK, Open, JoinFront
  <2>2. front \in DOMAIN worker
    <3>1. FrontCount = 1
      BY <2>1 DEF FrontCount
    <3>2. front \in 1..Len(worker)
      BY <2>1, <3>1, Numbers DEF IndInv, SlotInv, SlotsOK
    <3> QED
      BY <3>2 DEF IndInv, TypeOK
  <2>3. ~Sequential /\ ~drained /\ target # "restored"
    BY <2>1 DEF IndInv, SlotInv, StreamInv, RoomOK, EndOK
  <2> QED
    BY <2>1, <2>2, <2>3 DEF JoinFront, ThreadEnded, Decoding
<1>1. CASE ResultThrew(front)
  BY <1>0, <1>1, Aborts DEF JoinFront
<1>2. CASE ~ResultThrew(front)
  <2>0. /\ pc' = "deliver" /\ joinable' = joinable \ {front} /\ worker[front] = "decoded"
        /\ UNCHANGED <<header, window, remaining, archiveRemaining, sizes, worker, inFlight, front,
                       drained, delivered, temporary, target>>
    BY <1>0, <1>2
       DEF IndInv, TypeOK, JoinFront, ThreadEnded, ResultThrew, inputVars, readVars, outputVars
  <2>1. TypeOK' /\ FrontOK'
    BY <1>0, <2>0 DEF IndInv, TypeOK, SlotInv, FrontOK, Positions
  <2>2. SlotsOK' /\ RoomOK'
    BY <1>0, <2>0 DEF IndInv, SlotInv, SlotsOK, RoomOK, FrontCount, Open, Sequential
  <2>3. ThreadsOK'
    BY <1>0, <2>0 DEF IndInv, SlotInv, ThreadsOK, Decoding, Owned, Slots
  <2>4. DeliveredOK'
    BY <2>0 DEF IndInv, SlotInv, DeliveredOK
  <2>5. StreamInv'
    BY <1>0, <2>0
       DEF IndInv, StreamInv, ReadOK, ReadCount, SumOK, Restored, EndOK, TemporaryOK, BeforeLoop,
           Open
  <2>6. HeldWithinWindow' /\ CleanupOK'
    BY <2>0 DEF IndInv, HeldWithinWindow, CleanupOK
  <2> QED
    BY <2>1, <2>2, <2>3, <2>4, <2>5, <2>6 DEF IndInv, SlotInv
<1> QED
  BY <1>1, <1>2

(* write_decoded takes the block that is next in order.                    *)
LEMMA DeliverStep ==
    ASSUME IndInv, Deliver
    PROVE  IndInv'
<1>1. /\ front = Len(delivered) + 1 /\ front # NoBlock /\ front' = NoBlock
      /\ worker[front] = "decoded" /\ front \notin joinable /\ Open /\ Open' /\ ~drained
      /\ target # "restored" /\ pc = "deliver" /\ pc' \in {"loop", "drain"}
      /\ pc' = "drain" => ~BlocksLeft
      /\ UNCHANGED <<header, window, remaining, archiveRemaining, sizes, worker, inFlight, joinable,
                     drained, temporary, target>>
  BY DEF IndInv, SlotInv, StreamInv, FrontOK, EndOK, Open, Deliver, inputVars, readVars
<1>2. /\ Len(delivered) \in Nat /\ Len(worker) \in Nat /\ Len(inFlight) \in Nat
      /\ Len(sizes) \in Nat /\ window \in Nat \ {0} /\ header.blockCount \in Nat
      /\ Len(delivered') = Len(delivered) + 1 /\ delivered' = Append(delivered, front)
      /\ delivered' \in Seq(Nat \ {0})
      /\ delivered'[front] = front /\ DOMAIN delivered' = DOMAIN delivered \cup {front}
      /\ \A b \in DOMAIN delivered : delivered'[b] = delivered[b]
  BY SMTT(30), <1>1, Numbers DEF IndInv, TypeOK, Deliver
<1>3. TypeOK'
  BY <1>1, <1>2 DEF IndInv, TypeOK, Positions, NoBlock
<1>4. FrontOK' /\ SlotsOK' /\ RoomOK'
  BY <1>1, <1>2 DEF IndInv, SlotInv, FrontOK, SlotsOK, RoomOK, FrontCount, Sequential
<1>5. ThreadsOK'
  BY <1>1 DEF IndInv, SlotInv, ThreadsOK, Decoding, Owned, Slots
<1>6. DeliveredOK'
  BY <1>1, <1>2 DEF IndInv, SlotInv, DeliveredOK
<1>7. ReadOK' /\ EndOK' /\ TemporaryOK'
  <2>1. pc' = "drain" => Len(worker) = header.blockCount
    BY <1>1, <1>2 DEF IndInv, StreamInv, ReadOK, BlocksLeft
  <2> QED
    BY <1>1, <2>1 DEF IndInv, StreamInv, ReadOK, ReadCount, EndOK, TemporaryOK, BeforeLoop
<1>8. SumOK'
  BY <1>1 DEF IndInv, StreamInv, SumOK, Restored
<1>9. HeldWithinWindow' /\ CleanupOK'
  BY <1>1, <1>2 DEF IndInv, HeldWithinWindow, CleanupOK
<1> QED
  BY <1>3, <1>4, <1>5, <1>6, <1>7, <1>8, <1>9 DEF IndInv, SlotInv, StreamInv

(* The deque is empty after the last block: everything is written.         *)
LEMMA DrainedStep ==
    ASSUME IndInv, Drained
    PROVE  IndInv'
<1>1. /\ pc = "drain" /\ pc' = "check" /\ drained' /\ inFlight = <<>> /\ front = NoBlock /\ ~drained
      /\ target # "restored" /\ Open
      /\ UNCHANGED <<header, window, remaining, archiveRemaining, sizes, worker, inFlight, front,
                     joinable, delivered, temporary, target>>
  BY DEF IndInv, SlotInv, StreamInv, FrontOK, EndOK, Open, Drained, inputVars, readVars, threadVars,
         outputVars
<1>2. /\ Len(worker) = header.blockCount /\ Len(delivered) = Len(worker)
      /\ Len(sizes) = Len(worker)
  BY <1>1, Numbers
     DEF IndInv, SlotInv, StreamInv, SlotsOK, FrontCount, ReadOK, ReadCount, EndOK
<1>3. TypeOK'
  BY <1>1 DEF IndInv, TypeOK, Positions, Drained
<1>4. SlotInv'
  BY <1>1, CallerMoves DEF IndInv
<1>5. StreamInv'
  BY <1>1, <1>2, <1>3
     DEF IndInv, StreamInv, ReadOK, ReadCount, SumOK, Restored, EndOK, TemporaryOK, BeforeLoop
<1>6. HeldWithinWindow' /\ CleanupOK'
  BY <1>1 DEF IndInv, HeldWithinWindow, CleanupOK
<1> QED
  BY <1>3, <1>4, <1>5, <1>6 DEF IndInv

(* The catch block: it joins every slot, then the deque goes.              *)
LEMMA UnwindStep ==
    ASSUME IndInv, UnwindJoin \/ UnwindDone
    PROVE  IndInv'
<1>1. /\ front = NoBlock /\ front' = NoBlock /\ ~drained /\ target # "restored"
      /\ UNCHANGED <<header, window, remaining, archiveRemaining, sizes, worker, drained, delivered,
                     temporary, target>>
      /\ pc = "unwind" /\ pc' \in {"unwind", "cleanup"} /\ joinable' \subseteq joinable
      /\ inFlight' = inFlight \/ inFlight' = <<>>
  BY DEF IndInv, SlotInv, StreamInv, FrontOK, EndOK, UnwindJoin, UnwindDone, inputVars, readVars,
         outputVars
<1>2. /\ Len(inFlight) \in Nat /\ Len(inFlight') \in Nat /\ Len(inFlight') <= Len(inFlight)
      /\ inFlight' \in Seq(Nat \ {0})
      /\ Len(delivered) \in Nat /\ Len(worker) \in Nat /\ window \in Nat \ {0}
  <2>1. inFlight \in Seq(Nat \ {0}) /\ <<>> \in Seq(Nat \ {0}) /\ Len(<<>>) = 0
    BY DEF IndInv, TypeOK
  <2>2. /\ Len(inFlight) \in Nat /\ Len(delivered) \in Nat /\ Len(worker) \in Nat
        /\ window \in Nat \ {0}
    BY Numbers DEF IndInv
  <2>3. CASE inFlight' = inFlight
    BY <2>1, <2>2, <2>3
  <2>4. CASE inFlight' = <<>>
    BY <2>1, <2>2, <2>4
  <2> QED
    BY <1>1, <2>3, <2>4
<1>3. TypeOK'
  BY <1>1, <1>2 DEF IndInv, TypeOK, Positions
<1>4. FrontOK'
  BY <1>1 DEF FrontOK
<1>5. SlotsOK'
  <2>1. FrontCount = 0 /\ FrontCount' = 0 /\ ~Open'
    BY <1>1 DEF FrontCount, Open
  <2>2. Len(inFlight') + Len(delivered') + FrontCount' <= Len(worker')
    BY <1>1, <1>2, <2>1 DEF IndInv, SlotInv, SlotsOK
  <2>3. \A i \in DOMAIN inFlight' : inFlight'[i] = Len(worker') - Len(inFlight') + i
    <3>1. CASE inFlight' = inFlight
      BY <1>1, <3>1 DEF IndInv, SlotInv, SlotsOK
    <3>2. CASE inFlight' = <<>>
      BY <3>2
    <3> QED
      BY <1>1, <3>1, <3>2
  <2> QED
    BY <2>1, <2>2, <2>3 DEF SlotsOK
<1>6. RoomOK'
  BY <1>1, <1>2 DEF IndInv, SlotInv, RoomOK, FrontCount, Sequential
<1>7. ThreadsOK'
  BY <1>1
     DEF IndInv, TypeOK, SlotInv, ThreadsOK, Decoding, Owned, Slots, AllJoined, ThreadEnded,
         UnwindJoin, UnwindDone
<1>8. DeliveredOK'
  BY <1>1 DEF IndInv, SlotInv, DeliveredOK
<1>9. StreamInv'
  BY <1>1
     DEF IndInv, StreamInv, ReadOK, ReadCount, SumOK, Restored, EndOK, TemporaryOK, BeforeLoop,
         Open
<1>10. HeldWithinWindow' /\ CleanupOK'
  <2>1. pc' = "cleanup" => inFlight' = <<>>
    BY <1>1 DEF UnwindJoin, UnwindDone
  <2> QED
    BY <1>1, <2>1 DEF IndInv, HeldWithinWindow, CleanupOK
<1> QED
  BY <1>3, <1>4, <1>5, <1>6, <1>7, <1>8, <1>9, <1>10 DEF IndInv, SlotInv

-----------------------------------------------------------------------------
(* The end of the call, the threads, and the invariant                     *)

(* The checks after the last block, the commit and the clean-up.           *)
LEMMA EndStep ==
    ASSUME IndInv, CheckEnd \/ Restore \/ Commit \/ CommitThrows \/ Cleanup
    PROVE  IndInv'
<1>1. /\ UNCHANGED <<header, window, remaining, archiveRemaining, sizes, worker, inFlight, front,
                     joinable, drained, delivered>>
      /\ pc \in {"check", "restore", "finish", "cleanup"}
      /\ pc' \in {"restore", "finish", "cleanup", "returned", "threw"}
      /\ pc' = "cleanup" => pc # "cleanup"
      /\ temporary' \in {temporary, "none", "stuck"}
      /\ target' \in {target, "absent", "restored"}
      /\ target' = "restored" => temporary' \in {temporary, "none"}
      /\ target' = "restored" => temporary' = "none" \/ target = "restored"
  <2>1. CASE CheckEnd
    BY <2>1 DEF CheckEnd, inputVars, readVars, threadVars, outputVars
  <2>2. CASE Restore
    BY <2>2 DEF Restore, inputVars, readVars, threadVars, outputVars
  <2>3. CASE Commit
    BY <2>3 DEF Commit, inputVars, readVars, threadVars
  <2>4. CASE CommitThrows
    BY <2>4 DEF CommitThrows, inputVars, readVars, threadVars
  <2>5. CASE Cleanup
    BY <2>5 DEF Cleanup, RemoveTemporary, IndInv, CleanupOK, inputVars, readVars, threadVars
  <2> QED
    BY <2>1, <2>2, <2>3, <2>4, <2>5
<1>2. TypeOK'
  BY <1>1 DEF IndInv, TypeOK, Positions
<1>3. Open' => Open
  BY DEF Open, CheckEnd, Restore, Commit, CommitThrows, Cleanup
<1>4. SlotInv'
  BY <1>1, <1>3, CallerMoves DEF IndInv
<1>5. ReadOK' /\ SumOK' /\ TemporaryOK'
  BY <1>1, <1>3
     DEF IndInv, StreamInv, ReadOK, ReadCount, SumOK, Restored, TemporaryOK, BeforeLoop, Open
<1>6. EndOK'
  <2>1. pc' \in {"restore", "finish", "returned"} => drained /\ StreamEndsHere
    BY DEF IndInv, StreamInv, EndOK, CheckEnd, Restore, Commit, CommitThrows, Cleanup
  <2>2. target' = "restored" => drained /\ StreamEndsHere
    BY DEF IndInv, StreamInv, EndOK, CheckEnd, Restore, Commit, CommitThrows, Cleanup, outputVars
  <2>3. StreamEndsHere' = StreamEndsHere
    BY <1>1 DEF StreamEndsHere
  <2> QED
    BY <1>1, <2>1, <2>2, <2>3 DEF IndInv, StreamInv, EndOK
<1>7. HeldWithinWindow' /\ CleanupOK'
  BY <1>1 DEF IndInv, StreamInv, EndOK, HeldWithinWindow, CleanupOK
<1> QED
  BY <1>2, <1>4, <1>5, <1>6, <1>7 DEF IndInv, StreamInv

(* A worker's end changes nothing but its own result.                      *)
LEMMA WorkerEndsStep ==
    ASSUME IndInv, NEW b \in DOMAIN worker, WorkerEnds(b)
    PROVE  IndInv'
<1>1. /\ UNCHANGED <<header, window, pc, remaining, archiveRemaining, sizes, inFlight, front,
                     joinable, drained, delivered, temporary, target>>
      /\ DOMAIN worker' = DOMAIN worker /\ Len(worker') = Len(worker)
      /\ \A c \in DOMAIN worker : c # b => worker'[c] = worker[c]
      /\ worker[b] = "decoding" /\ worker'[b] \in {"decoded", "threw"}
  BY DEF IndInv, TypeOK, WorkerEnds, inputVars, readVars, outputVars
<1>2. TypeOK'
  BY <1>1 DEF IndInv, TypeOK, WorkerEnds
<1>3. FrontOK'
  <2>1. pc = "deliver" => front # b
    BY <1>1 DEF IndInv, SlotInv, FrontOK
  <2>2. pc = "deliver" => front \in DOMAIN worker
    <3>1. pc = "deliver" => front \in 1..Len(worker)
      BY Numbers DEF IndInv, SlotInv, FrontOK, SlotsOK, FrontCount
    <3> QED
      BY <3>1 DEF IndInv, TypeOK
  <2> QED
    BY <1>1, <2>1, <2>2 DEF IndInv, SlotInv, FrontOK
<1>4. SlotsOK' /\ RoomOK'
  BY <1>1 DEF IndInv, SlotInv, SlotsOK, RoomOK, FrontCount, Open, Sequential
<1>5. ThreadsOK'
  BY <1>1 DEF IndInv, SlotInv, ThreadsOK, Decoding, Owned, Slots
<1>6. DeliveredOK'
  <2>1. DOMAIN delivered \subseteq DOMAIN worker
    BY SMTT(30), Numbers DEF IndInv, TypeOK, SlotInv, SlotsOK
  <2> QED
    BY <1>1, <2>1 DEF IndInv, SlotInv, DeliveredOK
<1>7. StreamInv'
  <2>1. worker = <<>> => DOMAIN worker = {}
    OBVIOUS
  <2> QED
    BY <1>1, <2>1
       DEF IndInv, StreamInv, ReadOK, ReadCount, SumOK, Restored, EndOK, TemporaryOK, BeforeLoop,
           Open, StreamEndsHere
<1>8. HeldWithinWindow' /\ CleanupOK'
  BY <1>1 DEF IndInv, HeldWithinWindow, CleanupOK
<1> QED
  BY <1>2, <1>3, <1>4, <1>5, <1>6, <1>7, <1>8 DEF IndInv, SlotInv

(* A step that changes nothing keeps the invariant.                        *)
LEMMA StutterStep ==
    ASSUME IndInv, UNCHANGED vars
    PROVE  IndInv'
<1> USE DEF vars, inputVars, readVars, threadVars, outputVars
<1>1. TypeOK' /\ HeldWithinWindow' /\ CleanupOK'
  BY DEF IndInv, TypeOK, HeldWithinWindow, CleanupOK
<1>2. SlotInv'
  BY DEF IndInv, SlotInv, FrontOK, SlotsOK, RoomOK, ThreadsOK, DeliveredOK, FrontCount, Open,
         Sequential, Owned, Slots, Decoding
<1>3. StreamInv'
  BY DEF IndInv, StreamInv, ReadOK, ReadCount, SumOK, Restored, EndOK, TemporaryOK, BeforeLoop,
         Open, StreamEndsHere
<1> QED
  BY <1>1, <1>2, <1>3 DEF IndInv

(* The invariant is inductive.                                             *)
LEMMA NextIndInv == IndInv /\ [Next]_vars => IndInv'
<1> SUFFICES ASSUME IndInv, [Next]_vars
            PROVE  IndInv'
  OBVIOUS
<1>1. CASE CheckHeader \/ CreateOutput \/ CreateThrows \/ Reserve \/ ReserveThrows
  BY <1>1, BeforeLoopStep
<1>2. CASE ReadThrows \/ SpawnThrows \/ DeliverThrows
  BY <1>2, AbortStep
<1>3. CASE ReadBlock
  BY <1>3, ReadBlockStep
<1>4. CASE DecodeInline
  BY <1>4, DecodeInlineStep
<1>5. CASE MakeRoom \/ DrainMore
  BY <1>5, TakeSlotStep
<1>6. CASE Spawn
  BY <1>6, SpawnStep
<1>7. CASE LoopEnds
  BY <1>7, LoopEndsStep
<1>8. CASE JoinFront
  BY <1>8, JoinFrontStep
<1>9. CASE Deliver
  BY <1>9, DeliverStep
<1>10. CASE Drained
  BY <1>10, DrainedStep
<1>11. CASE UnwindJoin \/ UnwindDone
  BY <1>11, UnwindStep
<1>12. CASE CheckEnd \/ Restore \/ Commit \/ CommitThrows \/ Cleanup
  BY <1>12, EndStep
<1>13. CASE \E b \in DOMAIN worker : WorkerEnds(b)
  BY <1>13, WorkerEndsStep
<1>14. CASE UNCHANGED vars
  BY <1>14, StutterStep
<1> QED
  BY <1>1, <1>2, <1>3, <1>4, <1>5, <1>6, <1>7, <1>8, <1>9, <1>10, <1>11, <1>12, <1>13, <1>14
     DEF Next, Caller, Stopped

(* In every reachable state the deque holds the newest blocks in order, the *)
(* output the gap-free run before them, and the blocks read so far and what *)
(* is left of the stream add up to what the header declared.               *)
THEOREM Invariance == Spec => []IndInv
<1>1. Init => IndInv
  BY InitIndInv
<1>2. IndInv /\ [Next]_vars => IndInv'
  BY NextIndInv
<1> QED
  BY <1>1, <1>2, PTL DEF Spec

-----------------------------------------------------------------------------
(* The results.  Each states a property the run checks on small constants. *)

(* Every variable keeps its type for every header, archive and window: no  *)
(* unsigned count of the code falls below zero.                            *)
THEOREM TypeCorrect == Spec => []TypeOK
<1>1. IndInv => TypeOK
  BY DEF IndInv
<1> QED
  BY <1>1, Invariance, PTL

(* However many blocks an archive announces, the reader is never further   *)
(* ahead of the writer than the window.                                    *)
THEOREM WindowBound == Spec => []HeldWithinWindow
<1>1. IndInv => HeldWithinWindow
  BY DEF IndInv
<1> QED
  BY <1>1, Invariance, PTL

(* What replaces the output was decoded and written whole and in order,    *)
(* its blocks restored exactly the declared size, and nothing followed.    *)
THEOREM RestoresExactly == Spec => []RestoredExactly
<1>1. IndInv => RestoredExactly
  <2> SUFFICES ASSUME IndInv, target = "restored"
              PROVE  /\ delivered = [b \in 1..header.blockCount |-> b]
                     /\ \A b \in DOMAIN worker : worker[b] = "decoded"
                     /\ Len(sizes) = header.blockCount
                     /\ Restored = header.codedSize
                     /\ archiveRemaining = 0
                     /\ joinable = {}
    BY DEF RestoredExactly
  <2>1. /\ Len(worker) = header.blockCount /\ Len(delivered) = header.blockCount
        /\ Len(sizes) = header.blockCount /\ inFlight = <<>> /\ front = NoBlock
        /\ remaining = 0 /\ archiveRemaining = 0
    BY DEF IndInv, SlotInv, StreamInv, FrontOK, EndOK, StreamEndsHere
  <2>2. Restored = header.codedSize
    BY <2>1, Numbers DEF IndInv, StreamInv, SumOK
  <2>3. DOMAIN worker = DOMAIN delivered /\ DOMAIN delivered = 1..header.blockCount
    BY <2>1 DEF IndInv, TypeOK
  <2>4. delivered = [b \in 1..header.blockCount |-> b]
    <3>1. delivered = [b \in 1..header.blockCount |-> delivered[b]]
      BY <2>3 DEF IndInv, TypeOK
    <3> QED
      BY <2>3, <3>1 DEF IndInv, SlotInv, DeliveredOK
  <2>5. \A b \in DOMAIN worker : worker[b] = "decoded"
    BY <2>3 DEF IndInv, SlotInv, DeliveredOK
  <2>6. joinable = {}
    BY <2>1 DEF IndInv, SlotInv, ThreadsOK, Owned, Slots
  <2> QED
    BY <2>1, <2>2, <2>4, <2>5, <2>6
<1> QED
  BY <1>1, Invariance, PTL

(* Whatever fails: before the call throws every worker is joined and the   *)
(* removal of the temporary file or staging directory has been tried, with *)
(* the one exception of the allocation before the outer try block.         *)
THEOREM CleansUp == Spec => CleanupTried
<1>1. IndInv /\ [Next]_vars =>
        [pc' = "threw" /\ pc # "threw" =>
           /\ joinable' = {}
           /\ temporary' = "there" => pc = "reserve" /\ header.directory
           /\ temporary' = "stuck" => target' # "restored"]_vars
  <2> SUFFICES ASSUME IndInv, Next, pc' = "threw", pc # "threw"
              PROVE  /\ joinable' = {}
                     /\ temporary' = "there" => pc = "reserve" /\ header.directory
                     /\ temporary' = "stuck" => target' # "restored"
    OBVIOUS
  <2>1. CheckHeader \/ CreateThrows \/ ReserveThrows \/ Cleanup
    BY DEF Next, Caller, CheckHeader, CreateOutput, CreateThrows, Reserve, ReserveThrows, ReadBlock,
           ReadThrows, DecodeInline, MakeRoom, DrainMore, TakeSlot, Spawn, SpawnThrows, LoopEnds,
           JoinFront, Deliver, DeliverThrows, Drained, UnwindJoin, UnwindDone, CheckEnd, Restore,
           Commit, CommitThrows, Cleanup, WorkerEnds, Stopped, vars
  <2>2. /\ pc \in {"header", "create", "reserve", "cleanup"}
        /\ joinable' = joinable /\ target' = target
    BY <2>1 DEF CheckHeader, CreateThrows, ReserveThrows, Cleanup, threadVars, outputVars
  <2>3. inFlight = <<>> /\ front = NoBlock
    <3>1. BeforeLoop => worker = <<>>
      BY DEF IndInv, StreamInv, ReadOK
    <3>2. worker = <<>> => Len(inFlight) = 0
      BY Numbers DEF IndInv, SlotInv, SlotsOK, FrontCount
    <3>3. Len(inFlight) = 0 => inFlight = <<>>
      BY DEF IndInv, TypeOK
    <3> QED
      BY <2>2, <3>1, <3>2, <3>3 DEF IndInv, CleanupOK, BeforeLoop, SlotInv, FrontOK
  <2>4. joinable = {}
    BY <2>3 DEF IndInv, SlotInv, ThreadsOK, Owned, Slots
  <2>5. temporary' = "there" => pc = "reserve" /\ header.directory
    <3>1. CASE CheckHeader \/ CreateThrows
      BY <3>1 DEF CheckHeader, CreateThrows, IndInv, StreamInv, TemporaryOK, outputVars
    <3>2. RemoveTemporary => temporary' # "there"
      BY DEF RemoveTemporary
    <3>3. CASE ReserveThrows \/ Cleanup
      BY <3>2, <3>3 DEF ReserveThrows, Cleanup
    <3> QED
      BY <2>1, <3>1, <3>3
  <2>6. temporary' = "stuck" => target' # "restored"
    <3>1. /\ target = "restored" => temporary = "none"
          /\ RemoveTemporary /\ temporary = "none" => temporary' = "none"
      BY DEF RemoveTemporary, IndInv, CleanupOK
    <3>2. temporary' = temporary \/ RemoveTemporary
      BY <2>1 DEF CheckHeader, CreateThrows, ReserveThrows, Cleanup, outputVars
    <3> QED
      BY <2>2, <3>1, <3>2
  <2> QED
    BY <2>2, <2>4, <2>5, <2>6
<1> QED
  BY <1>1, Invariance, PTL DEF Spec, CleanupTried

(* No std::thread is ever destroyed while it is joinable.                  *)
THEOREM ThreadsJoined == Spec => NoJoinableDestroyed
<1>1. IndInv /\ [Next]_vars => [\A b \in Owned \ Owned' : b \notin joinable']_vars
  <2> SUFFICES ASSUME IndInv, Next, NEW b \in Owned, b \notin Owned'
              PROVE  b \notin joinable'
    OBVIOUS
  <2>1. joinable' \subseteq Owned'
    BY NextIndInv DEF IndInv, SlotInv, ThreadsOK
  <2> QED
    BY <2>1
<1> QED
  BY <1>1, Invariance, PTL DEF Spec, NoJoinableDestroyed

-----------------------------------------------------------------------------
(* Refinement                                                              *)

(* The block loop, threads, deque and exceptions included, implements the  *)
(* in-order bounded pipeline.                                              *)
THEOREM Refinement == Spec => ImplementsOrderedPipeline
<1>1. Init => Abstract!Init
  BY WindowAssumption DEF Init, Abstract!Init, PipelineStatus
<1>2. IndInv /\ [Next]_vars => [Abstract!Next]_(Abstract!vars)
  <2> SUFFICES ASSUME IndInv, [Next]_vars
              PROVE  [Abstract!Next]_(Abstract!vars)
    OBVIOUS
  <2>0. /\ Len(worker) \in Nat /\ Len(delivered) \in Nat /\ window \in Nat \ {0}
        /\ Len(inFlight) \in Nat
    BY Numbers DEF IndInv
  <2>1. ASSUME UNCHANGED <<window, delivered>>, Len(worker') = Len(worker),
               PipelineStatus' = PipelineStatus
        PROVE  UNCHANGED Abstract!vars
    BY <2>1 DEF Abstract!vars
  <2>2. ASSUME UNCHANGED <<window, worker, delivered, drained>>, ~drained, Open,
               pc' \in {"unwind", "threw"}
        PROVE  Abstract!Abort
    BY <2>2 DEF Abstract!Abort, PipelineStatus, Open
  <2>3. drained => pc \in {"check", "restore", "finish", "returned", "cleanup", "threw"}
    BY DEF IndInv, StreamInv, EndOK
  <2>4. pc \in {"check", "restore", "finish", "returned"} => drained
    BY DEF IndInv, StreamInv, EndOK
  <2>5. CASE CheckHeader \/ CreateThrows \/ ReserveThrows
    <3>1. CASE pc' = "threw"
      <4>1. Abstract!Abort
        BY <2>2, <2>3, <2>5, <3>1
           DEF CheckHeader, CreateThrows, ReserveThrows, Open, inputVars, threadVars, outputVars
      <4> QED
        BY <4>1 DEF Abstract!Next
    <3>2. CASE pc' # "threw"
      <4>1. pc' = "create" /\ UNCHANGED <<window, worker, delivered, drained>> /\ pc = "header"
        BY <2>5, <3>2
           DEF CheckHeader, CreateThrows, ReserveThrows, inputVars, threadVars, outputVars
      <4> QED
        BY <2>1, <4>1 DEF PipelineStatus
    <3> QED
      BY <3>1, <3>2
  <2>6. CASE CreateOutput \/ Reserve \/ ReadBlock \/ MakeRoom \/ LoopEnds \/ DrainMore
    <3>1. /\ UNCHANGED <<window, worker, delivered, drained>>
          /\ pc \in {"create", "reserve", "loop", "drain"}
          /\ pc' \in {"reserve", "loop", "decode", "spawn", "join", "drain"}
      BY <2>6
         DEF CreateOutput, Reserve, ReadBlock, MakeRoom, LoopEnds, DrainMore, TakeSlot, inputVars,
             threadVars, outputVars
    <3> QED
      BY <2>1, <3>1 DEF PipelineStatus
  <2>7. CASE ReadThrows \/ SpawnThrows \/ DeliverThrows
    <3>1. Abstract!Abort
      BY <2>2, <2>3, <2>7
         DEF ReadThrows, SpawnThrows, DeliverThrows, Open, inputVars, threadVars, outputVars
    <3> QED
      BY <3>1 DEF Abstract!Next
  <2>8. CASE DecodeInline
    <3>1. CASE pc' = "unwind"
      <4>1. Abstract!Abort
        BY <2>2, <2>3, <2>8, <3>1 DEF DecodeInline, Open, inputVars, outputVars
      <4> QED
        BY <4>1 DEF Abstract!Next
    <3>2. CASE pc' = "deliver"
      <4>1. Len(worker) = Len(delivered)
        BY <2>0, <2>8 DEF DecodeInline, IndInv, SlotInv, FrontOK, SlotsOK, RoomOK, FrontCount, Open
      <4>2. Len(worker') = Len(worker) + 1
        BY <2>8, <3>2 DEF DecodeInline, IndInv, TypeOK
      <4>3. Abstract!Accept
        BY <2>0, <2>3, <2>8, <3>2, <4>1, <4>2
           DEF DecodeInline, Abstract!Accept, PipelineStatus, inputVars, outputVars
      <4> QED
        BY <4>3 DEF Abstract!Next
    <3> QED
      BY <2>8, <3>1, <3>2 DEF DecodeInline
  <2>9. CASE Spawn
    <3>1. Len(worker) < Len(delivered) + window
      BY <2>0, <2>9 DEF Spawn, IndInv, SlotInv, FrontOK, SlotsOK, RoomOK, FrontCount, Open
    <3>2. Len(worker') = Len(worker) + 1
      BY <2>9 DEF Spawn, IndInv, TypeOK
    <3>3. Abstract!Accept
      BY <2>3, <2>9, <3>1, <3>2
         DEF Spawn, Abstract!Accept, PipelineStatus, inputVars, outputVars
    <3> QED
      BY <3>3 DEF Abstract!Next
  <2>10. CASE JoinFront
    <3>1. pc = "join" /\ ~drained /\ UNCHANGED <<window, worker, delivered, drained>>
      BY <2>3, <2>10 DEF JoinFront, inputVars, outputVars
    <3>2. CASE ResultThrew(front)
      <4>1. Abstract!Abort
        BY <2>2, <2>10, <3>1, <3>2 DEF JoinFront, Open
      <4> QED
        BY <4>1 DEF Abstract!Next
    <3>3. CASE ~ResultThrew(front)
      BY <2>1, <2>10, <3>1, <3>3 DEF JoinFront, PipelineStatus
    <3> QED
      BY <3>2, <3>3
  <2>11. CASE Deliver
    <3>1. Len(delivered) < Len(worker) /\ front = Len(delivered) + 1
      BY <2>0, <2>11 DEF Deliver, IndInv, SlotInv, FrontOK, SlotsOK, FrontCount
    <3>2. pc' \in {"loop", "drain"} /\ pc = "deliver" /\ ~drained
      BY <2>3, <2>11 DEF Deliver
    <3>3. Abstract!Emit
      BY <2>11, <3>1, <3>2 DEF Deliver, Abstract!Emit, PipelineStatus, inputVars
    <3> QED
      BY <3>3 DEF Abstract!Next
  <2>12. CASE Drained
    <3>1. Len(worker) = Len(delivered)
      BY <2>0, <2>12 DEF Drained, IndInv, SlotInv, FrontOK, SlotsOK, FrontCount, Open
    <3>2. Abstract!Complete
      BY <2>3, <2>12, <3>1
         DEF Drained, Abstract!Complete, PipelineStatus, inputVars, threadVars, outputVars
    <3> QED
      BY <3>2 DEF Abstract!Next
  <2>13. CASE UnwindJoin \/ UnwindDone \/ Cleanup
    <3>1. /\ UNCHANGED <<window, worker, delivered, drained>>
          /\ pc \in {"unwind", "cleanup"} /\ pc' \in {"unwind", "cleanup", "threw"}
      BY <2>13 DEF UnwindJoin, UnwindDone, Cleanup, inputVars, threadVars, outputVars
    <3> QED
      BY <2>1, <3>1 DEF PipelineStatus
  <2>14. CASE CheckEnd \/ Restore \/ Commit \/ CommitThrows
    <3>1. UNCHANGED <<window, worker, delivered, drained>> /\ drained
      BY <2>4, <2>14
         DEF CheckEnd, Restore, Commit, CommitThrows, inputVars, threadVars, outputVars
    <3> QED
      BY <2>1, <3>1 DEF PipelineStatus
  <2>15. CASE \E b \in DOMAIN worker : WorkerEnds(b)
    <3>1. Len(worker') = Len(worker) /\ UNCHANGED <<window, pc, delivered, drained>>
      BY <2>15 DEF WorkerEnds, IndInv, TypeOK, inputVars, outputVars
    <3> QED
      BY <2>1, <3>1 DEF PipelineStatus
  <2>16. CASE UNCHANGED vars
    BY <2>1, <2>16 DEF vars, PipelineStatus, inputVars, threadVars, outputVars
  <2> QED
    BY <2>5, <2>6, <2>7, <2>8, <2>9, <2>10, <2>11, <2>12, <2>13, <2>14, <2>15, <2>16
       DEF Next, Caller, Stopped
<1> QED
  BY <1>1, <1>2, Invariance, PTL DEF Spec, Abstract!Spec, ImplementsOrderedPipeline

-----------------------------------------------------------------------------
(* Numbers and sequences                                                   *)

(* What holds of 0 and, with a number, of the next holds up to n.          *)
LEMMA Ascent ==
    ASSUME NEW n \in Nat, NEW S, 0 \in S, \A i \in 0..(n - 1) : i \in S => i + 1 \in S
    PROVE  0..n \subseteq S
<1> DEFINE T == {i \in 0..n : i \notin S}
<1>1. ASSUME T # {} PROVE FALSE
  <2>1. T \subseteq Nat
    OBVIOUS
  <2>2. PICK i \in T : \A j \in T : i <= j
    <3> HIDE DEF T
    <3> QED
      BY <1>1, <2>1, Least
  <2>3. i \in 0..n /\ i \notin S /\ i # 0
    BY <2>2
  <2>4. i - 1 \in 0..(n - 1) /\ i - 1 \in 0..n /\ (i - 1) + 1 = i /\ ~(i <= i - 1)
    BY <2>3
  <2>5. i - 1 \in S
    BY <2>2, <2>4
  <2> QED
    BY <2>3, <2>4, <2>5
<1> QED
  BY <1>1

LEMMA Block1 == TarBlock \in Nat /\ TarBlock >= 1
BY TarAssumption

LEMMA LeavesRoom ==
    ASSUME NEW b \in Nat, NEW m \in Nat, NEW n \in Nat, NEW limit \in Nat, (b + m) + n <= limit
    PROVE  b + m \in Nat /\ b <= b + m /\ b + m <= limit
OBVIOUS

(* Less than a block is padded.                                            *)
LEMMA PaddedFits ==
    ASSUME NEW n \in Nat
    PROVE  Padded(n) \in 0..(TarBlock - 1)
<1>1. TarBlock \in Nat /\ TarBlock > 0
  BY Block1
<1>2. n % TarBlock \in 0..(TarBlock - 1)
  BY <1>1
<1>3. TarBlock - (n % TarBlock) \in Nat
  BY <1>1, <1>2
<1>4. (TarBlock - (n % TarBlock)) % TarBlock \in 0..(TarBlock - 1)
  BY <1>1, <1>3
<1> QED
  BY <1>4 DEF Padded

Plain(s) == s \in Seq(Range(s))

LEMMA PlainIs ==
    ASSUME NEW s, Plain(s)
    PROVE  /\ Len(s) \in Nat /\ DOMAIN s = 1..Len(s)
           /\ s = [i \in 1..Len(s) |-> s[i]]
BY DEF Plain

LEMMA PlainSeq ==
    ASSUME NEW S, NEW s \in Seq(S)
    PROVE  Plain(s)
<1>1. \A i \in 1..Len(s) : s[i] \in Range(s)
  BY DEF Range
<1> QED
  BY <1>1 DEF Plain

LEMMA PlainMap ==
    ASSUME NEW n \in Nat, NEW s, s = [i \in 1..n |-> s[i]]
    PROVE  Plain(s) /\ Len(s) = n
<1>1. \A i \in 1..n : s[i] \in Range(s)
  BY DEF Range
<1>2. s \in [1..n -> Range(s)]
  BY <1>1
<1> QED
  BY <1>2 DEF Plain

LEMMA SamePlain ==
    ASSUME NEW s, NEW t, Plain(s), Plain(t), Len(s) = Len(t),
           \A i \in 1..Len(s) : s[i] = t[i]
    PROVE  s = t
BY PlainIs

LEMMA Join ==
    ASSUME NEW s, NEW t, Plain(s), Plain(t)
    PROVE  /\ Plain(s \o t) /\ Len(s \o t) = Len(s) + Len(t)
           /\ \A i \in 1..Len(s) : (s \o t)[i] = s[i]
           /\ \A i \in 1..Len(t) : (s \o t)[Len(s) + i] = t[i]
<1> DEFINE S == Range(s) \cup Range(t)
<1>1. s \in Seq(S) /\ t \in Seq(S)
  <2>1. \A i \in 1..Len(s) : s[i] \in S
    BY PlainIs DEF Range
  <2>2. \A i \in 1..Len(t) : t[i] \in S
    BY PlainIs DEF Range
  <2> QED
    BY <2>1, <2>2 DEF Plain
<1> HIDE DEF S
<1>2. s \o t \in Seq(S) /\ Len(s \o t) = Len(s) + Len(t)
  BY <1>1
<1>3. \A i \in 1..Len(s) : (s \o t)[i] = s[i]
  BY <1>1
<1>4. \A i \in 1..Len(t) : (s \o t)[Len(s) + i] = t[i]
  BY <1>1
<1>5. Plain(s \o t)
  BY <1>2, PlainSeq
<1> QED
  BY <1>2, <1>3, <1>4, <1>5

LEMMA Piece ==
    ASSUME NEW s, Plain(s), NEW m \in Nat, NEW n \in Nat, m <= n, n <= Len(s)
    PROVE  /\ Plain(SubSeq(s, m + 1, n)) /\ Len(SubSeq(s, m + 1, n)) = n - m
           /\ \A i \in 1..(n - m) : SubSeq(s, m + 1, n)[i] = s[m + i]
<1> DEFINE p == SubSeq(s, m + 1, n)
<1>1. Len(s) \in Nat /\ s \in Seq(Range(s))
  BY PlainIs DEF Plain
<1>2. p \in Seq(Range(s)) /\ Len(p) = n - m /\ \A i \in 1..(n - m) : p[i] = s[m + i]
  BY <1>1
<1> QED
  BY <1>2, PlainSeq

(* What is left of a sequence.                                             *)
LEMMA Remainder ==
    ASSUME NEW s, Plain(s), NEW m \in Nat, m <= Len(s)
    PROVE  /\ Plain(SubSeq(s, m + 1, Len(s))) /\ Len(SubSeq(s, m + 1, Len(s))) = Len(s) - m
           /\ \A i \in 1..(Len(s) - m) : SubSeq(s, m + 1, Len(s))[i] = s[m + i]
<1>1. Len(s) \in Nat /\ Len(s) <= Len(s)
  BY PlainIs
<1> QED
  BY <1>1, Piece

-----------------------------------------------------------------------------
(* Powers, sizes and their digits                                          *)

Powers(p, base, n) == p = [i \in 0..n |-> IF i = 0 THEN 1 ELSE base * p[i - 1]]

LEMMA PowersExist ==
    ASSUME NEW base \in Nat, NEW n \in Nat
    PROVE  \E p : Powers(p, base, n)
<1> DEFINE S == {i \in 0..n : \E p : Powers(p, base, i)}
<1>1. 0 \in S
  <2> DEFINE p == [i \in 0..0 |-> 1]
  <2>1. p = [i \in 0..0 |-> IF i = 0 THEN 1 ELSE base * p[i - 1]]
    OBVIOUS
  <2> HIDE DEF p
  <2> QED
    BY <2>1 DEF Powers
<1>2. ASSUME NEW i \in 0..(n - 1), i \in S PROVE i + 1 \in S
  <2>1. PICK p : Powers(p, base, i)
    BY <1>2
  <2> DEFINE q == [j \in 0..(i + 1) |-> IF j = i + 1 THEN base * p[i] ELSE p[j]]
  <2>2. ASSUME NEW j \in 0..(i + 1) PROVE q[j] = IF j = 0 THEN 1 ELSE base * q[j - 1]
    <3>1. CASE j = i + 1
      <4>1. j # 0 /\ j - 1 = i /\ i \in 0..(i + 1) /\ i # i + 1
        BY <3>1
      <4>2. q[j - 1] = p[i]
        BY <4>1
      <4> QED
        BY <3>1, <4>1, <4>2
    <3>2. CASE j # i + 1
      <4>1. j \in 0..i
        BY <3>2
      <4>2. q[j] = p[j] /\ p[j] = IF j = 0 THEN 1 ELSE base * p[j - 1]
        BY <2>1, <3>2, <4>1 DEF Powers
      <4>3. j # 0 => j - 1 \in 0..(i + 1) /\ j - 1 # i + 1
        BY <4>1
      <4> QED
        BY <4>2, <4>3
    <3> QED
      BY <3>1, <3>2
  <2>3. q = [j \in 0..(i + 1) |-> q[j]]
    OBVIOUS
  <2> HIDE DEF q
  <2>4. Powers(q, base, i + 1)
    BY <2>2, <2>3 DEF Powers
  <2>5. i + 1 \in 0..n
    OBVIOUS
  <2> QED
    BY <2>4, <2>5
<1> HIDE DEF S
<1>3. 0..n \subseteq S
  BY <1>1, <1>2, Ascent
<1>4. n \in S
  BY <1>3
<1> QED
  BY <1>4 DEF S

LEMMA PowersUnique ==
    ASSUME NEW base \in Nat, NEW n \in Nat, NEW m \in 0..n, NEW p, NEW q,
           Powers(p, base, n), Powers(q, base, m)
    PROVE  p[m] = q[m] /\ p[m] \in Nat
<1> DEFINE S == {i \in 0..m : p[i] = q[i] /\ p[i] \in Nat}
<1>1. 0 \in S
  BY DEF Powers
<1>2. ASSUME NEW i \in 0..(m - 1), i \in S PROVE i + 1 \in S
  <2>1. i + 1 \in 0..n /\ i + 1 \in 0..m /\ i + 1 # 0 /\ (i + 1) - 1 = i
    OBVIOUS
  <2>2. p[i + 1] = base * p[i] /\ q[i + 1] = base * q[i]
    BY <2>1 DEF Powers
  <2> QED
    BY <1>2, <2>1, <2>2
<1> HIDE DEF S
<1>3. 0..m \subseteq S
  BY <1>1, <1>2, Ascent
<1>4. m \in S
  BY <1>3
<1> QED
  BY <1>4 DEF S

LEMMA PowerIs ==
    ASSUME NEW base \in Nat, NEW n \in Nat
    PROVE  \E p : Powers(p, base, n) /\ Power(base, n) = p[n]
<1> DEFINE p == CHOOSE p : Powers(p, base, n)
<1>1. Powers(p, base, n)
  BY PowersExist
<1>2. Power(base, n) = p[n]
  BY DEF Power, Powers
<1> QED
  BY <1>1, <1>2

LEMMA PowerNat ==
    ASSUME NEW base \in Nat, NEW n \in Nat
    PROVE  Power(base, n) \in Nat
<1>1. PICK p : Powers(p, base, n) /\ Power(base, n) = p[n]
  BY PowerIs
<1>2. n \in 0..n
  OBVIOUS
<1> QED
  BY <1>1, <1>2, PowersUnique

LEMMA PowerStep ==
    ASSUME NEW base \in Nat
    PROVE  /\ Power(base, 0) = 1
           /\ \A n \in Nat : Power(base, n + 1) = base * Power(base, n)
<1>1. Power(base, 0) = 1
  <2>1. PICK p : Powers(p, base, 0) /\ Power(base, 0) = p[0]
    BY PowerIs
  <2> QED
    BY <2>1 DEF Powers
<1>2. ASSUME NEW n \in Nat PROVE Power(base, n + 1) = base * Power(base, n)
  <2>1. n + 1 \in Nat /\ n \in 0..(n + 1) /\ n + 1 \in 0..(n + 1) /\ n + 1 # 0 /\ (n + 1) - 1 = n
    OBVIOUS
  <2>2. PICK p : Powers(p, base, n + 1) /\ Power(base, n + 1) = p[n + 1]
    BY <2>1, PowerIs
  <2>3. PICK q : Powers(q, base, n) /\ Power(base, n) = q[n]
    BY PowerIs
  <2>4. p[n] = q[n]
    BY <2>1, <2>2, <2>3, PowersUnique
  <2>5. p[n + 1] = base * p[n]
    BY <2>1, <2>2 DEF Powers
  <2> QED
    BY <2>2, <2>3, <2>4, <2>5
<1> QED
  BY <1>1, <1>2

LEMMA PowerPositive ==
    ASSUME NEW base \in Nat, base >= 1, NEW n \in Nat
    PROVE  Power(base, n) \in Nat /\ Power(base, n) >= 1
<1> DEFINE S == {i \in 0..n : Power(base, i) >= 1}
<1>1. 0 \in S
  BY PowerStep
<1>2. ASSUME NEW i \in 0..(n - 1), i \in S PROVE i + 1 \in S
  <2>1. Power(base, i + 1) = base * Power(base, i) /\ Power(base, i) \in Nat
    BY PowerStep, PowerNat
  <2>2. base * Power(base, i) >= 1
    BY <1>2, <2>1
  <2> QED
    BY <2>1, <2>2
<1> HIDE DEF S
<1>3. 0..n \subseteq S
  BY <1>1, <1>2, Ascent
<1>4. n \in S
  BY <1>3
<1> QED
  BY <1>4, PowerNat DEF S

Values(v, field) ==
    v = [i \in 0..Len(field.digits) |->
           IF i = 0 THEN 0 ELSE v[i - 1] * field.base + field.digits[i]]

Spelled(field) == field.base \in Nat /\ field.digits \in Seq(Nat)

LEMMA ValuesExist ==
    ASSUME NEW field, Spelled(field)
    PROVE  \E v : Values(v, field)
<1> DEFINE n == Len(field.digits)
           S == {k \in 0..n : \E v : v = [i \in 0..k |->
                   IF i = 0 THEN 0 ELSE v[i - 1] * field.base + field.digits[i]]}
<1>0. n \in Nat
  BY DEF Spelled
<1>1. 0 \in S
  <2> DEFINE v == [i \in 0..0 |-> 0]
  <2>1. v = [i \in 0..0 |-> IF i = 0 THEN 0 ELSE v[i - 1] * field.base + field.digits[i]]
    OBVIOUS
  <2> HIDE DEF v
  <2> QED
    BY <1>0, <2>1
<1>2. ASSUME NEW k \in 0..(n - 1), k \in S PROVE k + 1 \in S
  <2>1. PICK v : v = [i \in 0..k |->
                   IF i = 0 THEN 0 ELSE v[i - 1] * field.base + field.digits[i]]
    BY <1>2
  <2> DEFINE w == [i \in 0..(k + 1) |-> IF i = k + 1 THEN v[k] * field.base + field.digits[i]
                                                     ELSE v[i]]
  <2>2. ASSUME NEW i \in 0..(k + 1)
        PROVE  w[i] = IF i = 0 THEN 0 ELSE w[i - 1] * field.base + field.digits[i]
    <3>0. k \in Nat
      BY <1>0
    <3>1. CASE i = k + 1
      <4>1. i # 0 /\ i - 1 = k /\ k \in 0..(k + 1) /\ k # k + 1
        BY <3>0, <3>1
      <4>2. w[i - 1] = v[k]
        BY <4>1
      <4>3. w[i] = v[k] * field.base + field.digits[i]
        BY <3>1
      <4> QED
        BY <4>1, <4>2, <4>3
    <3>2. CASE i # k + 1
      <4>1. i \in 0..k
        BY <3>0, <3>2
      <4>2. v[i] = IF i = 0 THEN 0 ELSE v[i - 1] * field.base + field.digits[i]
        BY <2>1, <4>1
      <4>3. w[i] = v[i]
        BY <3>2
      <4>4. i # 0 => w[i - 1] = v[i - 1]
        <5>1. i # 0 => i - 1 \in 0..(k + 1) /\ i - 1 # k + 1
          BY <3>0, <4>1
        <5> QED
          BY <5>1
      <4> QED
        BY <4>2, <4>3, <4>4
    <3> QED
      BY <3>1, <3>2
  <2>3. w = [i \in 0..(k + 1) |-> w[i]]
    OBVIOUS
  <2> HIDE DEF w
  <2>4. w = [i \in 0..(k + 1) |->
                   IF i = 0 THEN 0 ELSE w[i - 1] * field.base + field.digits[i]]
    BY <2>2, <2>3
  <2>5. k + 1 \in 0..n
    BY <1>0
  <2> QED
    BY <2>4, <2>5
<1>3. n \in S
  <2> HIDE DEF S, n
  <2>1. 0..n \subseteq S
    BY <1>0, <1>1, <1>2, Ascent
  <2> QED
    BY <1>0, <2>1
<1> QED
  BY <1>3 DEF Values

LEMMA ParseSizeIs ==
    ASSUME NEW field, Spelled(field)
    PROVE  \E v : Values(v, field) /\ ParseSize(field) = v[Len(field.digits)]
<1> DEFINE v == CHOOSE v : Values(v, field)
<1>1. Values(v, field)
  BY ValuesExist
<1>2. ParseSize(field) = v[Len(field.digits)]
  BY DEF ParseSize, Values
<1> QED
  BY <1>1, <1>2

LEMMA ParseSizeNat ==
    ASSUME NEW field, Spelled(field)
    PROVE  ParseSize(field) \in Nat
<1>1. PICK v : Values(v, field) /\ ParseSize(field) = v[Len(field.digits)]
  BY ParseSizeIs
<1> DEFINE n == Len(field.digits)
           S == {i \in 0..n : v[i] \in Nat}
<1>2. n \in Nat /\ field.base \in Nat /\ \A i \in 1..n : field.digits[i] \in Nat
  BY DEF Spelled
<1>3. 0 \in S
  BY <1>1, <1>2 DEF Values
<1>4. ASSUME NEW i \in 0..(n - 1), i \in S PROVE i + 1 \in S
  <2>1. i + 1 \in 0..n /\ i + 1 \in 1..n /\ i + 1 # 0 /\ (i + 1) - 1 = i
    BY <1>2
  <2>2. v[i + 1] = v[i] * field.base + field.digits[i + 1]
    BY <1>1, <2>1 DEF Values
  <2>3. v[i] \in Nat /\ field.digits[i + 1] \in Nat
    BY <1>2, <1>4, <2>1
  <2>4. v[i] * field.base \in Nat
    BY <1>2, <2>3
  <2>5. v[i + 1] \in Nat
    BY <2>2, <2>3, <2>4
  <2> QED
    BY <2>1, <2>5
<1> HIDE DEF S, n
<1>5. 0..n \subseteq S
  BY <1>2, <1>3, <1>4, Ascent
<1>6. n \in S
  BY <1>2, <1>5
<1> QED
  BY <1>1, <1>6 DEF S, n

LEMMA DigitsAre ==
    ASSUME NEW size \in Nat, NEW base \in Nat, base >= 1
    PROVE  /\ OctalDigits \in Nat
           /\ Digits(size, base) \in Seq(Nat) /\ Len(Digits(size, base)) = OctalDigits
           /\ \A i \in DOMAIN Digits(size, base) : Digits(size, base)[i] < base
<1>1. OctalDigits \in Nat
  BY TarAssumption
<1>2. ASSUME NEW i \in 1..OctalDigits
      PROVE  /\ (size \div Power(base, OctalDigits - i)) % base \in Nat
             /\ (size \div Power(base, OctalDigits - i)) % base < base
  <2>1. OctalDigits - i \in Nat
    BY <1>1
  <2>2. Power(base, OctalDigits - i) \in Nat /\ Power(base, OctalDigits - i) >= 1
    BY <2>1, PowerPositive
  <2>3. size \div Power(base, OctalDigits - i) \in Nat
    BY <2>2
  <2> QED
    BY <2>3
<1>3. Digits(size, base) \in [1..OctalDigits -> Nat]
  BY <1>2 DEF Digits
<1>4. \A i \in DOMAIN Digits(size, base) : Digits(size, base)[i] < base
  BY <1>2 DEF Digits
<1> QED
  BY <1>1, <1>3, <1>4

LEMMA SizeFieldSpelled ==
    ASSUME NEW size \in Nat
    PROVE  Spelled(SizeField(size))
BY DigitsAre DEF SizeField, Spelled

-----------------------------------------------------------------------------
(* Streams of units                                                        *)

LEMMA ReadableIs ==
    ASSUME NEW s
    PROVE  Readable(s) <=> /\ Plain(s)
                           /\ \A i \in 1..Len(s) : s[i].kind = "header" => Spelled(s[i].header.size)
<1>1. CASE Plain(s)
  <2>1. DOMAIN s = 1..Len(s)
    BY <1>1, PlainIs
  <2> QED
    BY <2>1 DEF Readable, Plain, Spelled
<1>2. CASE ~Plain(s)
  BY <1>2 DEF Readable, Plain
<1> QED
  BY <1>1, <1>2

LEMMA ReadableJoin ==
    ASSUME NEW s, NEW t, Readable(s), Readable(t)
    PROVE  Readable(s \o t)
<1>1. /\ Plain(s) /\ \A i \in 1..Len(s) : s[i].kind = "header" => Spelled(s[i].header.size)
      /\ Plain(t) /\ \A i \in 1..Len(t) : t[i].kind = "header" => Spelled(t[i].header.size)
  BY ReadableIs
<1>2. Len(s) \in Nat /\ Len(t) \in Nat
  BY <1>1, PlainIs
<1>3. /\ Plain(s \o t) /\ Len(s \o t) = Len(s) + Len(t)
      /\ \A i \in 1..Len(s) : (s \o t)[i] = s[i]
      /\ \A i \in 1..Len(t) : (s \o t)[Len(s) + i] = t[i]
  BY <1>1, Join
<1>4. ASSUME NEW i \in 1..Len(s \o t), (s \o t)[i].kind = "header"
      PROVE  Spelled((s \o t)[i].header.size)
  <2>1. CASE i <= Len(s)
    <3>1. i \in 1..Len(s)
      BY <1>2, <1>3, <2>1
    <3>2. (s \o t)[i] = s[i]
      BY <1>3, <3>1
    <3> QED
      BY <1>1, <1>4, <3>1, <3>2
  <2>2. CASE i > Len(s)
    <3>1. i - Len(s) \in 1..Len(t) /\ i = Len(s) + (i - Len(s))
      BY <1>2, <1>3, <2>2
    <3>2. (s \o t)[i] = t[i - Len(s)]
      BY <1>3, <3>1
    <3> QED
      BY <1>1, <1>4, <3>1, <3>2
  <2> QED
    BY <1>2, <1>3, <2>1, <2>2
<1> QED
  BY <1>3, <1>4, ReadableIs

LEMMA ReadablePiece ==
    ASSUME NEW s, Readable(s), NEW m \in Nat, NEW n \in Nat, m <= n, n <= Len(s)
    PROVE  Readable(SubSeq(s, m + 1, n))
<1>1. Plain(s) /\ \A i \in 1..Len(s) : s[i].kind = "header" => Spelled(s[i].header.size)
  BY ReadableIs
<1>2. Len(s) \in Nat
  BY <1>1, PlainIs
<1> DEFINE p == SubSeq(s, m + 1, n)
<1>3. Plain(p) /\ Len(p) = n - m /\ \A i \in 1..(n - m) : p[i] = s[m + i]
  BY <1>1, Piece
<1> HIDE DEF p
<1>4. \A i \in 1..(n - m) : m + i \in 1..Len(s)
  BY <1>2
<1>5. \A i \in 1..Len(p) : p[i].kind = "header" => Spelled(p[i].header.size)
  BY <1>1, <1>3, <1>4
<1> QED
  BY <1>3, <1>5, ReadableIs DEF p

LEMMA ReadableFront ==
    ASSUME NEW s, Readable(s), NEW n \in Nat, n <= Len(s)
    PROVE  /\ Readable(SubSeq(s, 1, n)) /\ Plain(SubSeq(s, 1, n)) /\ Len(SubSeq(s, 1, n)) = n
           /\ \A i \in 1..n : SubSeq(s, 1, n)[i] = s[i]
<1>1. ASSUME NEW m \in Nat, m = 0
      PROVE  /\ Readable(SubSeq(s, m + 1, n)) /\ Plain(SubSeq(s, m + 1, n)) /\ Len(SubSeq(s, m + 1, n)) = n - m
             /\ \A i \in 1..(n - m) : SubSeq(s, m + 1, n)[i] = s[m + i]
  <2>1. m <= n /\ Plain(s)
    BY <1>1, ReadableIs
  <2> QED
    BY <2>1, ReadablePiece, Piece
<1>2. 0 \in Nat /\ 0 + 1 = 1 /\ n - 0 = n /\ \A i \in 1..n : 0 + i = i
  OBVIOUS
<1> QED
  BY <1>1, <1>2

LEMMA ReadableEmpty == Readable(<<>>) /\ Plain(<<>>) /\ Len(<<>>) = 0
<1>1. <<>> \in Seq({}) /\ Len(<<>>) = 0
  OBVIOUS
<1>2. Plain(<<>>)
  BY <1>1, PlainSeq
<1>3. \A i \in 1..Len(<<>>) : FALSE
  BY <1>1
<1> QED
  BY <1>1, <1>2, <1>3, ReadableIs

LEMMA ZerosAre ==
    ASSUME NEW n \in Nat
    PROVE  /\ Readable(Zeros(n)) /\ Plain(Zeros(n)) /\ Len(Zeros(n)) = n
           /\ \A i \in 1..n : Zeros(n)[i] = Zero
<1>1. Zeros(n) = [i \in 1..n |-> Zeros(n)[i]]
  BY DEF Zeros
<1>2. Plain(Zeros(n)) /\ Len(Zeros(n)) = n
  BY <1>1, PlainMap
<1>3. \A i \in 1..n : Zeros(n)[i] = Zero
  BY DEF Zeros
<1>4. \A i \in 1..n : Zeros(n)[i].kind # "header"
  BY <1>3 DEF Zero
<1> QED
  BY <1>2, <1>3, <1>4, ReadableIs

LEMMA BlockIs ==
    ASSUME NEW h
    PROVE  /\ Plain(Block(h)) /\ Len(Block(h)) = TarBlock
           /\ \A i \in 1..TarBlock : Block(h)[i].kind = "header" /\ Block(h)[i].header = h
           /\ Spelled(h.size) => Readable(Block(h))
<1>1. Block(h) = [i \in 1..TarBlock |-> Block(h)[i]]
  BY DEF Block
<1>2. Plain(Block(h)) /\ Len(Block(h)) = TarBlock
  BY <1>1, Block1, PlainMap
<1>3. \A i \in 1..TarBlock : Block(h)[i].kind = "header" /\ Block(h)[i].header = h
  BY DEF Block, HeaderPart
<1> QED
  BY <1>2, <1>3, ReadableIs

LEMMA DataAre ==
    ASSUME NEW name \in Seq(Nat)
    PROVE  /\ Readable(Data(name)) /\ Plain(Data(name)) /\ Len(Data(name)) = Len(name)
           /\ \A i \in 1..Len(name) : Data(name)[i] = Datum(name[i])
<1>0. DOMAIN name = 1..Len(name) /\ Len(name) \in Nat
  OBVIOUS
<1>1. Data(name) = [i \in 1..Len(name) |-> Data(name)[i]]
  BY <1>0 DEF Data
<1>2. Plain(Data(name)) /\ Len(Data(name)) = Len(name)
  BY <1>0, <1>1, PlainMap
<1>3. \A i \in 1..Len(name) : Data(name)[i] = Datum(name[i])
  BY <1>0 DEF Data
<1>4. ASSUME NEW i \in 1..Len(name) PROVE Data(name)[i].kind # "header"
  <2>1. Datum(name[i]).kind = "datum"
    BY DEF Datum
  <2> QED
    BY <1>3, <2>1
<1> QED
  BY <1>2, <1>3, <1>4, ReadableIs

(* What is staged for an entry can be read.                                *)
LEMMA StagedReadable ==
    ASSUME NEW entry, entry.path \in Seq(Nat), Len(entry.content) \in Nat
    PROVE  Readable(StagedHeader(entry))
<1> DEFINE name == entry.path
           size == Len(name) + 1
           type == IF entry.directory THEN "5" ELSE "0"
           own == Block(Header(name, Len(entry.content), type))
<1>1. size \in Nat /\ 1 + Padded(size) \in Nat
  <2>1. size \in Nat
    OBVIOUS
  <2>2. Padded(size) \in 0..(TarBlock - 1)
    BY <2>1, PaddedFits
  <2> QED
    BY <2>1, <2>2, Block1
<1>2. Readable(Block(Header(<<>>, size, "L")))
  <2>1. Header(<<>>, size, "L").size = SizeField(size)
    BY DEF Header
  <2> QED
    BY <1>1, <2>1, SizeFieldSpelled, BlockIs
<1>3. Readable(own)
  <2>1. Header(name, Len(entry.content), type).size = SizeField(Len(entry.content))
    BY DEF Header
  <2> QED
    BY <2>1, SizeFieldSpelled, BlockIs
<1>4. Readable(Data(name)) /\ Readable(Zeros(1 + Padded(size)))
  BY <1>1, DataAre, ZerosAre
<1>5. Readable(Block(Header(<<>>, size, "L")) \o Data(name) \o Zeros(1 + Padded(size)))
  BY <1>2, <1>4, ReadableJoin
<1>6. Readable(<<>> \o own)
  BY <1>3, ReadableEmpty, ReadableJoin
<1>7. Readable((Block(Header(<<>>, size, "L")) \o Data(name) \o Zeros(1 + Padded(size))) \o own)
  BY <1>3, <1>5, ReadableJoin
<1> QED
  BY <1>6, <1>7 DEF StagedHeader

-----------------------------------------------------------------------------
(* The stream read as a whole                                              *)

Solves(f, units, low) == f = [at \in low..Len(units) |-> From(units, f, at)]

Made(units) == CHOOSE f : Solves(f, units, 0)

LEMMA ReferenceIs ==
    ASSUME NEW units
    PROVE  Reference(units) = Under(EmptyRoot, Made(units)[0])
BY DEF Reference, Made, Solves

(* An entry ends behind its header, and not behind the stream.             *)
LEMMA EntryEnds ==
    ASSUME NEW units, Readable(units), NEW at \in Nat, EntryAt(units, at)
    PROVE  /\ SizeAt(units, at) \in Nat /\ Padded(SizeAt(units, at)) \in 0..(TarBlock - 1)
           /\ Behind(units, at) \in (at + 1)..Len(units) /\ at \in 0..(Len(units) - 1)
<1>1. Len(units) \in Nat /\ \A i \in 1..Len(units) : units[i].kind = "header" => Spelled(units[i].header.size)
  BY ReadableIs, PlainIs
<1>2. TarBlock \in Nat /\ TarBlock >= 1
  BY Block1
<1>3. at + TarBlock <= Len(units) /\ units[at + 1].kind = "header" /\ Behind(units, at) <= Len(units)
  BY DEF EntryAt
<1>4. at + 1 \in 1..Len(units)
  BY <1>1, <1>2, <1>3
<1>5. SizeAt(units, at) \in Nat
  BY <1>1, <1>3, <1>4, ParseSizeNat DEF SizeAt, HeaderAt
<1>6. Padded(SizeAt(units, at)) \in 0..(TarBlock - 1)
  BY <1>5, PaddedFits
<1>7. Behind(units, at) = at + TarBlock + SizeAt(units, at) + Padded(SizeAt(units, at))
  BY DEF Behind
<1> QED
  BY <1>1, <1>2, <1>3, <1>5, <1>6, <1>7

(* What an entry makes depends on what is behind it only.                  *)
LEMMA EntrySame ==
    ASSUME NEW units, Readable(units), NEW at \in Nat, NEW f, NEW g, NEW name,
           \A p \in (at + 1)..Len(units) : f[p] = g[p]
    PROVE  Entry(units, f, at, name) = Entry(units, g, at, name)
<1>1. CASE EntryAt(units, at)
  <2>1. f[Behind(units, at)] = g[Behind(units, at)]
    BY <1>1, EntryEnds
  <2> QED
    BY <2>1 DEF Entry
<1>2. CASE ~EntryAt(units, at)
  BY <1>2 DEF Entry, DirectoryEntryAt, FileEntryAt
<1> QED
  BY <1>1, <1>2

LEMMA FromSame ==
    ASSUME NEW units, Readable(units), NEW at \in Nat, NEW f, NEW g,
           \A p \in (at + 1)..Len(units) : f[p] = g[p]
    PROVE  From(units, f, at) = From(units, g, at)
<1>1. Entry(units, f, at, NameOf(HeaderAt(units, at))) = Entry(units, g, at, NameOf(HeaderAt(units, at)))
  BY EntrySame
<1>2. CASE EntryAt(units, at)
  <2>1. Behind(units, at) \in (at + 1)..Len(units) /\ Len(units) \in Nat
    BY <1>2, EntryEnds, ReadableIs, PlainIs
  <2> DEFINE q == Behind(units, at)
             name == TextOf(BodyAt(units, at))
  <2> HIDE DEF q, name
  <2>2. q \in Nat /\ \A p \in (q + 1)..Len(units) : p \in (at + 1)..Len(units)
    BY <2>1 DEF q
  <2>3. Entry(units, f, q, name) = Entry(units, g, q, name)
    BY <2>2, EntrySame
  <2> QED
    BY <1>1, <2>3 DEF From, q, name
<1>3. CASE ~EntryAt(units, at)
  BY <1>3 DEF From, LongNameAt
<1> QED
  BY <1>2, <1>3

LEMMA MadeExists ==
    ASSUME NEW units, Readable(units)
    PROVE  \E f : Solves(f, units, 0)
<1> DEFINE n == Len(units)
           S == {k \in 0..n : \E f : Solves(f, units, n - k)}
<1>0. n \in Nat
  BY ReadableIs, PlainIs
<1>1. 0 \in S
  <2> DEFINE f == [at \in n..n |-> From(units, <<>>, at)]
  <2>1. ASSUME NEW at \in n..n PROVE f[at] = From(units, f, at)
    <3>1. at \in Nat /\ \A p \in (at + 1)..Len(units) : FALSE
      BY <1>0
    <3>2. From(units, f, at) = From(units, <<>>, at)
      <4> HIDE DEF f
      <4> QED
        BY <3>1, FromSame
    <3> QED
      BY <3>2
  <2>2. f = [at \in n..n |-> f[at]]
    OBVIOUS
  <2> HIDE DEF f
  <2>3. Solves(f, units, n - 0)
    BY <1>0, <2>1, <2>2 DEF Solves
  <2> QED
    BY <1>0, <2>3
<1>2. ASSUME NEW k \in 0..(n - 1), k \in S PROVE k + 1 \in S
  <2>1. PICK f : Solves(f, units, n - k)
    BY <1>2
  <2> DEFINE low == n - (k + 1)
             g == [at \in low..n |-> IF at = low THEN From(units, f, at) ELSE f[at]]
  <2>2. low \in Nat /\ low + 1 = n - k /\ low <= n /\ k + 1 \in 0..n
    BY <1>0
  <2>3. ASSUME NEW p \in (low + 1)..n PROVE g[p] = f[p]
    <3> HIDE DEF low, n
    <3>1. p \in low..n /\ p # low
      BY <1>0, <2>2
    <3> QED
      BY <3>1
  <2>4. ASSUME NEW at \in low..n PROVE g[at] = From(units, g, at)
    <3>1. at \in Nat /\ \A p \in (at + 1)..Len(units) : p \in (low + 1)..n
      BY <1>0, <2>2
    <3>2. From(units, g, at) = From(units, f, at)
      <4>1. \A p \in (at + 1)..Len(units) : g[p] = f[p]
        BY <2>3, <3>1
      <4> HIDE DEF g
      <4> QED
        BY <3>1, <4>1, FromSame
    <3>3. CASE at = low
      BY <3>2, <3>3
    <3>4. CASE at # low
      <4>1. at \in (n - k)..n
        <5> HIDE DEF low, n, g
        <5>1. at >= low + 1 /\ at <= n /\ at \in Int /\ k \in Int
          BY <1>0, <2>2, <3>4
        <5> QED
          BY <1>0, <2>2, <5>1
      <4>2. f[at] = From(units, f, at)
        BY <2>1, <4>1 DEF Solves
      <4> QED
        BY <3>2, <3>4, <4>2
    <3> QED
      BY <3>3, <3>4
  <2>5. g = [at \in low..n |-> g[at]]
    OBVIOUS
  <2> HIDE DEF g
  <2>6. Solves(g, units, low)
    BY <2>4, <2>5 DEF Solves
  <2> QED
    BY <2>2, <2>6
<1>3. n \in S
  <2> HIDE DEF S, n
  <2>1. 0..n \subseteq S
    BY <1>0, <1>1, <1>2, Ascent
  <2> QED
    BY <1>0, <2>1
<1>4. n - n = 0
  BY <1>0
<1> QED
  BY <1>3, <1>4

LEMMA MadeIs ==
    ASSUME NEW units, Readable(units), NEW at \in 0..Len(units)
    PROVE  Made(units)[at] = From(units, Made(units), at)
<1>1. Solves(Made(units), units, 0)
  BY MadeExists DEF Made
<1> HIDE DEF Made
<1> QED
  BY <1>1 DEF Solves

(* Laying over is associative.                                             *)
LEMMA OverOver ==
    ASSUME NEW f, NEW g, NEW h
    PROVE  Over(Over(f, g), h) = Over(f, Over(g, h))
BY DEF Over

LEMMA UnderUnder ==
    ASSUME NEW f, NEW g, NEW rest
    PROVE  Under(f, Under(g, rest)) = Under(Over(g, f), rest)
<1>1. CASE rest = Refused
  BY <1>1 DEF Under
<1>2. CASE rest # Refused
  <2>1. Under(g, rest) = Holds(Over(rest[1], g)) /\ Under(g, rest) # Refused
    BY <1>2 DEF Under, Holds, Refused
  <2>2. Under(f, Under(g, rest)) = Holds(Over(Over(rest[1], g), f))
    BY <2>1 DEF Under, Holds
  <2> QED
    BY <1>2, <2>2, OverOver DEF Under
<1> QED
  BY <1>1, <1>2

LEMMA UnderNothing ==
    ASSUME NEW t, t = [p \in DOMAIN t |-> t[p]]
    PROVE  Under(t, Holds(<<>>)) = Holds(t)
<1>1. Holds(<<>>) # Refused /\ Holds(<<>>)[1] = <<>>
  BY DEF Holds, Refused
<1>2. Over(<<>>, t) = t
  <2>1. DOMAIN <<>> = {}
    OBVIOUS
  <2> QED
    BY <2>1 DEF Over
<1> QED
  BY <1>1, <1>2 DEF Under

-----------------------------------------------------------------------------
(* Pieces of the stream                                                    *)

LEMMA PiecesJoin ==
    ASSUME NEW s, Plain(s), NEW a \in Nat, NEW b \in Nat, NEW c \in Nat, a <= b, b <= c, c <= Len(s)
    PROVE  SubSeq(s, a + 1, b) \o SubSeq(s, b + 1, c) = SubSeq(s, a + 1, c)
<1> DEFINE p == SubSeq(s, a + 1, b)
           q == SubSeq(s, b + 1, c)
           r == SubSeq(s, a + 1, c)
<1>0. Len(s) \in Nat /\ b <= Len(s) /\ a <= c
  BY PlainIs
<1>1. Plain(p) /\ Len(p) = b - a /\ \A i \in 1..(b - a) : p[i] = s[a + i]
  BY <1>0, Piece
<1>2. Plain(q) /\ Len(q) = c - b /\ \A i \in 1..(c - b) : q[i] = s[b + i]
  BY <1>0, Piece
<1>3. Plain(r) /\ Len(r) = c - a /\ \A i \in 1..(c - a) : r[i] = s[a + i]
  BY <1>0, Piece
<1> HIDE DEF p, q, r
<1>4. /\ Plain(p \o q) /\ Len(p \o q) = Len(p) + Len(q)
      /\ \A i \in 1..Len(p) : (p \o q)[i] = p[i]
      /\ \A i \in 1..Len(q) : (p \o q)[Len(p) + i] = q[i]
  BY <1>1, <1>2, Join
<1>5. Len(p \o q) = Len(r)
  BY <1>1, <1>2, <1>3, <1>4
<1>6. ASSUME NEW i \in 1..Len(r) PROVE (p \o q)[i] = r[i]
  <2>0. i \in 1..(c - a)
    BY <1>3
  <2>1. CASE i <= b - a
    <3>1. i \in 1..(b - a)
      BY <2>0, <2>1
    <3> QED
      BY <1>1, <1>3, <1>4, <2>0, <3>1
  <2>2. CASE i > b - a
    <3>1. i - (b - a) \in 1..(c - b) /\ i = Len(p) + (i - (b - a)) /\ b + (i - (b - a)) = a + i
      BY <1>1, <2>0, <2>2
    <3>2. (p \o q)[i] = q[i - (b - a)]
      BY <1>2, <1>4, <3>1
    <3>3. q[i - (b - a)] = s[b + (i - (b - a))]
      BY <1>2, <3>1
    <3>4. r[i] = s[a + i]
      BY <1>3, <2>0
    <3> QED
      BY <3>1, <3>2, <3>3, <3>4
  <2>3. i <= b - a \/ i > b - a
    BY <2>0
  <2> QED
    BY <2>1, <2>2, <2>3
<1>7. p \o q = r
  BY <1>3, <1>4, <1>5, <1>6, SamePlain
<1> QED
  BY <1>7 DEF p, q, r

LEMMA PieceOfPiece ==
    ASSUME NEW s, Plain(s), NEW a \in Nat, NEW b \in Nat, a <= b, b <= Len(s),
           NEW m \in Nat, NEW n \in Nat, m <= n, n <= b - a
    PROVE  SubSeq(SubSeq(s, a + 1, b), m + 1, n) = SubSeq(s, a + m + 1, a + n)
<1> DEFINE p == SubSeq(s, a + 1, b)
           q == SubSeq(p, m + 1, n)
           r == SubSeq(s, (a + m) + 1, a + n)
<1>0. Len(s) \in Nat /\ a + m \in Nat /\ a + n \in Nat /\ a + m <= a + n /\ a + n <= Len(s)
  BY PlainIs
<1>1. Plain(p) /\ Len(p) = b - a /\ \A i \in 1..(b - a) : p[i] = s[a + i]
  BY <1>0, Piece
<1>3. Plain(r) /\ Len(r) = (a + n) - (a + m) /\ \A i \in 1..((a + n) - (a + m)) : r[i] = s[(a + m) + i]
  BY <1>0, Piece
<1> HIDE DEF p, r
<1>2. Plain(q) /\ Len(q) = n - m /\ \A i \in 1..(n - m) : q[i] = p[m + i]
  <2>1. Plain(p) /\ n <= Len(p)
    BY <1>1
  <2> HIDE DEF q
  <2>2. /\ Plain(SubSeq(p, m + 1, n)) /\ Len(SubSeq(p, m + 1, n)) = n - m
        /\ \A i \in 1..(n - m) : SubSeq(p, m + 1, n)[i] = p[m + i]
    BY <2>1, Piece
  <2> QED
    BY <2>2 DEF q
<1> HIDE DEF q
<1>4. Len(q) = Len(r) /\ Len(q) = n - m /\ n - m = (a + n) - (a + m)
  BY <1>2, <1>3
<1>5. ASSUME NEW i \in 1..Len(q) PROVE q[i] = r[i]
  <2>1. i \in 1..(n - m) /\ m + i \in 1..(b - a) /\ a + (m + i) = (a + m) + i
    BY <1>4
  <2>2. q[i] = p[m + i] /\ p[m + i] = s[a + (m + i)]
    BY <1>1, <1>2, <2>1
  <2>3. r[i] = s[(a + m) + i]
    BY <1>3, <1>4, <2>1
  <2> QED
    BY <2>1, <2>2, <2>3
<1>6. q = r
  BY <1>2, <1>3, <1>4, <1>5, SamePlain
<1> QED
  BY <1>6 DEF p, q, r

LEMMA EmptyPiece ==
    ASSUME NEW s, Plain(s), NEW a \in Nat, a <= Len(s)
    PROVE  SubSeq(s, a + 1, a) = <<>>
<1>1. Plain(SubSeq(s, a + 1, a)) /\ Len(SubSeq(s, a + 1, a)) = a - a
  BY Piece
<1>2. \A i \in 1..Len(SubSeq(s, a + 1, a)) : FALSE
  BY <1>1
<1> QED
  BY <1>1, <1>2, ReadableEmpty, SamePlain

LEMMA JoinEmpty ==
    ASSUME NEW s, Plain(s)
    PROVE  s \o <<>> = s /\ <<>> \o s = s
<1>1. s \in Seq(Range(s))
  BY DEF Plain
<1> QED
  BY <1>1

LEMMA JoinJoin ==
    ASSUME NEW r, NEW s, NEW t, Plain(r), Plain(s), Plain(t),
           NEW rs, rs = r \o s, NEW st, st = s \o t
    PROVE  rs \o t = r \o st
<1> DEFINE S == Range(r) \cup Range(s) \cup Range(t)
<1>1. ASSUME NEW u, Plain(u), Range(u) \subseteq S PROVE u \in Seq(S)
  <2>1. \A i \in 1..Len(u) : u[i] \in S
    BY <1>1, PlainIs DEF Range
  <2> QED
    BY <1>1, <2>1 DEF Plain
<1>2. Range(r) \subseteq S /\ Range(s) \subseteq S /\ Range(t) \subseteq S
  OBVIOUS
<1>3. r \in Seq(S) /\ s \in Seq(S) /\ t \in Seq(S)
  BY <1>1, <1>2
<1> HIDE DEF S
<1> DEFINE x == rs \o t
           y == r \o st
<1>4. rs \in Seq(S) /\ st \in Seq(S) /\ Len(rs) = Len(r) + Len(s) /\ Len(st) = Len(s) + Len(t)
  BY <1>3
<1>5. /\ Plain(x) /\ Len(x) = Len(rs) + Len(t)
      /\ \A i \in 1..Len(rs) : x[i] = rs[i]
      /\ \A i \in 1..Len(t) : x[Len(rs) + i] = t[i]
  BY <1>4, PlainSeq, Join
<1>6. /\ Plain(y) /\ Len(y) = Len(r) + Len(st)
      /\ \A i \in 1..Len(r) : y[i] = r[i]
      /\ \A i \in 1..Len(st) : y[Len(r) + i] = st[i]
  BY <1>4, PlainSeq, Join
<1>7. /\ \A i \in 1..Len(r) : rs[i] = r[i]
      /\ \A i \in 1..Len(s) : rs[Len(r) + i] = s[i]
      /\ \A i \in 1..Len(s) : st[i] = s[i]
      /\ \A i \in 1..Len(t) : st[Len(s) + i] = t[i]
  BY Join
<1>8. Len(r) \in Nat /\ Len(s) \in Nat /\ Len(t) \in Nat
  BY <1>3
<1> HIDE DEF x, y
<1>9. ASSUME NEW i \in 1..Len(x) PROVE x[i] = y[i]
  <2>1. CASE i <= Len(r)
    <3>1. i \in 1..Len(r) /\ i \in 1..Len(rs)
      BY <1>4, <1>8, <2>1
    <3> QED
      BY <1>5, <1>6, <1>7, <3>1
  <2>2. CASE i > Len(r) /\ i <= Len(r) + Len(s)
    <3>1. i - Len(r) \in 1..Len(s) /\ i - Len(r) \in 1..Len(st) /\ i \in 1..Len(rs)
          /\ i = Len(r) + (i - Len(r))
      BY <1>4, <1>8, <2>2
    <3>2. x[i] = s[i - Len(r)]
      BY <1>5, <1>7, <3>1
    <3>3. y[i] = s[i - Len(r)]
      BY <1>6, <1>7, <3>1
    <3> QED
      BY <3>2, <3>3
  <2>3. CASE i > Len(r) + Len(s)
    <3> DEFINE k == i - (Len(r) + Len(s))
    <3>1. k \in 1..Len(t) /\ i = Len(rs) + k /\ Len(s) + k \in 1..Len(st)
          /\ i = Len(r) + (Len(s) + k)
      BY <1>4, <1>5, <1>8, <2>3
    <3> HIDE DEF k
    <3>2. x[i] = t[k]
      BY <1>5, <3>1
    <3>3. y[i] = t[k]
      BY <1>6, <1>7, <3>1
    <3> QED
      BY <3>2, <3>3
  <2> QED
    BY <1>8, <2>1, <2>2, <2>3
<1>10. Len(x) = Len(y)
  BY <1>4, <1>5, <1>6, <1>8
<1>11. x = y
  BY <1>5, <1>6, <1>9, <1>10, SamePlain
<1> QED
  BY <1>11 DEF x, y

-----------------------------------------------------------------------------
(* What is ahead of the extractor                                          *)

(* From position at on the stream makes, after a long name or without ...  *)
Continued(units, name, at) ==
    IF name = <<>> THEN From(units, Made(units), at) ELSE Entry(units, Made(units), at, name)

(* ... behind one block of zeros and behind two ...                        *)
AfterZero(units, name, at) ==
    IF name = <<>> /\ SubSeq(units, at + 1, Len(units)) = Zeros(TarBlock)
      THEN Holds(<<>>) ELSE Refused

AfterZeros(units, name, at) ==
    IF name = <<>> /\ at = Len(units) THEN Holds(<<>>) ELSE Refused

(* ... with padding to skip ...                                            *)
InPadding(units, name, at, padding) ==
    IF at + padding <= Len(units) THEN Continued(units, name, at + padding) ELSE Refused

(* ... with so much of a file left of which some is written ...            *)
InFile(units, path, written, at, left, padding) ==
    IF at + left + padding <= Len(units)
      THEN Under(FileAt(path, written \o SubSeq(units, at + 1, at + left)),
                 Continued(units, <<>>, at + left + padding))
      ELSE Refused

(* ... and with so much of a long name left of which some is there.        *)
InName(units, taken, at, left, padding) ==
    LET name == TextOf(taken \o SubSeq(units, at + 1, at + left))
    IN  IF at + left + padding <= Len(units) /\ name # <<>>
          THEN Entry(units, Made(units), at + left + padding, name)
          ELSE Refused

(* What is there, with the next units of a stream.                         *)
Onto(part, units, at, to) == part \o SubSeq(units, at + 1, to)

(* Two ways to say what the rest of a stream makes.                        *)
Agree(before, after) == before = after

LEMMA FileMoves ==
    ASSUME NEW units, Readable(units), NEW path, NEW written, Plain(written),
           NEW at \in Nat, NEW left \in Nat, NEW padding \in Nat, NEW k \in 0..left,
           at + k <= Len(units)
    PROVE  Agree(InFile(units, path, written, at, left, padding),
                 InFile(units, path, Onto(written, units, at, at + k), at + k, left - k, padding))
<1>0. Plain(units) /\ Len(units) \in Nat
  BY ReadableIs, PlainIs
<1>1. (at + k) + (left - k) = at + left /\ at + k \in Nat /\ at + left \in Nat
  OBVIOUS
<1>2. CASE at + left + padding <= Len(units)
  <2>1. at + left <= Len(units) /\ at <= at + k /\ at + k <= at + left
    BY <1>0, <1>2
  <2> DEFINE b == at + k
             c == at + left
  <2>a. b \in Nat /\ c \in Nat /\ at <= b /\ b <= c /\ c <= Len(units) /\ b <= Len(units)
    BY <1>0, <1>1, <2>1
  <2>2. SubSeq(units, at + 1, at + k) \o SubSeq(units, (at + k) + 1, at + left) = SubSeq(units, at + 1, at + left)
    <3> HIDE DEF b, c
    <3>1. SubSeq(units, at + 1, b) \o SubSeq(units, b + 1, c) = SubSeq(units, at + 1, c)
      BY <1>0, <2>a, PiecesJoin
    <3> QED
      BY <3>1 DEF b, c
  <2>3. Plain(SubSeq(units, at + 1, at + k)) /\ Plain(SubSeq(units, (at + k) + 1, at + left))
    <3> HIDE DEF b, c
    <3>1. Plain(SubSeq(units, at + 1, b)) /\ Plain(SubSeq(units, b + 1, c))
      BY <1>0, <2>a, Piece
    <3> QED
      BY <3>1 DEF b, c
  <2>4. (written \o SubSeq(units, at + 1, at + k)) \o SubSeq(units, (at + k) + 1, at + left)
          = written \o SubSeq(units, at + 1, at + left)
    <3> DEFINE p == SubSeq(units, at + 1, at + k)
               q == SubSeq(units, (at + k) + 1, at + left)
               r == SubSeq(units, at + 1, at + left)
               wp == written \o p
    <3>1. Plain(p) /\ Plain(q) /\ r = p \o q /\ wp = written \o p
      BY <2>2, <2>3
    <3> HIDE DEF p, q, r, wp
    <3>2. wp \o q = written \o r
      BY SMTT(30), <3>1, JoinJoin
    <3> QED
      BY <3>2 DEF p, q, r, wp
  <2> QED
    BY <1>1, <2>4 DEF InFile, Onto, Agree
<1>3. CASE ~(at + left + padding <= Len(units))
  BY <1>1, <1>3 DEF InFile, Onto, Agree
<1> QED
  BY <1>2, <1>3

LEMMA FileEnds ==
    ASSUME NEW units, Readable(units), NEW path, NEW written, Plain(written), NEW t,
           NEW at \in Nat, NEW padding \in Nat, at <= Len(units)
    PROVE  Under(t, InFile(units, path, written, at, 0, padding))
             = Under(Over(FileAt(path, written), t), InPadding(units, <<>>, at, padding))
<1>0. Plain(units) /\ at + 0 = at
  BY ReadableIs
<1>1. written \o SubSeq(units, at + 1, at + 0) = written
  BY <1>0, EmptyPiece, JoinEmpty
<1>2. CASE at + padding <= Len(units)
  <2>1. InFile(units, path, written, at, 0, padding)
          = Under(FileAt(path, written), Continued(units, <<>>, at + padding))
    BY <1>0, <1>1, <1>2 DEF InFile
  <2> QED
    BY <1>2, <2>1, UnderUnder DEF InPadding
<1>3. CASE ~(at + padding <= Len(units))
  <2>1. InFile(units, path, written, at, 0, padding) = Refused /\ InPadding(units, <<>>, at, padding) = Refused
    BY <1>0, <1>3 DEF InFile, InPadding
  <2> QED
    BY <2>1 DEF Under
<1> QED
  BY <1>2, <1>3

LEMMA NameMoves ==
    ASSUME NEW units, Readable(units), NEW taken, Plain(taken),
           NEW at \in Nat, NEW left \in Nat, NEW padding \in Nat, NEW k \in 0..left,
           at + k <= Len(units)
    PROVE  Agree(InName(units, taken, at, left, padding),
                 InName(units, Onto(taken, units, at, at + k), at + k, left - k, padding))
<1>0. Plain(units) /\ Len(units) \in Nat
  BY ReadableIs, PlainIs
<1>1. (at + k) + (left - k) = at + left /\ at + k \in Nat /\ at + left \in Nat
  OBVIOUS
<1>2. CASE at + left + padding <= Len(units)
  <2>1. at + left <= Len(units) /\ at <= at + k /\ at + k <= at + left
    BY <1>0, <1>2
  <2> DEFINE b == at + k
             c == at + left
  <2>a. b \in Nat /\ c \in Nat /\ at <= b /\ b <= c /\ c <= Len(units) /\ b <= Len(units)
    BY <1>0, <1>1, <2>1
  <2>2. SubSeq(units, at + 1, at + k) \o SubSeq(units, (at + k) + 1, at + left) = SubSeq(units, at + 1, at + left)
    <3> HIDE DEF b, c
    <3>1. SubSeq(units, at + 1, b) \o SubSeq(units, b + 1, c) = SubSeq(units, at + 1, c)
      BY <1>0, <2>a, PiecesJoin
    <3> QED
      BY <3>1 DEF b, c
  <2>3. Plain(SubSeq(units, at + 1, at + k)) /\ Plain(SubSeq(units, (at + k) + 1, at + left))
    <3> HIDE DEF b, c
    <3>1. Plain(SubSeq(units, at + 1, b)) /\ Plain(SubSeq(units, b + 1, c))
      BY <1>0, <2>a, Piece
    <3> QED
      BY <3>1 DEF b, c
  <2>4. (taken \o SubSeq(units, at + 1, at + k)) \o SubSeq(units, (at + k) + 1, at + left)
          = taken \o SubSeq(units, at + 1, at + left)
    <3> DEFINE p == SubSeq(units, at + 1, at + k)
               q == SubSeq(units, (at + k) + 1, at + left)
               r == SubSeq(units, at + 1, at + left)
               wp == taken \o p
    <3>1. Plain(p) /\ Plain(q) /\ r = p \o q /\ wp = taken \o p
      BY <2>2, <2>3
    <3> HIDE DEF p, q, r, wp
    <3>2. wp \o q = taken \o r
      BY SMTT(30), <3>1, JoinJoin
    <3> QED
      BY <3>2 DEF p, q, r, wp
  <2> QED
    BY <1>1, <2>4 DEF InName, Onto, Agree
<1>3. CASE ~(at + left + padding <= Len(units))
  BY <1>1, <1>3 DEF InName, Onto, Agree
<1> QED
  BY <1>2, <1>3

LEMMA NameEnds ==
    ASSUME NEW units, Readable(units), NEW taken, Plain(taken),
           NEW at \in Nat, NEW padding \in Nat, at <= Len(units)
    PROVE  InName(units, taken, at, 0, padding)
             = IF TextOf(taken) = <<>> THEN Refused ELSE InPadding(units, TextOf(taken), at, padding)
<1>0. Plain(units) /\ at + 0 = at
  BY ReadableIs
<1>1. taken \o SubSeq(units, at + 1, at + 0) = taken
  BY <1>0, EmptyPiece, JoinEmpty
<1> QED
  BY <1>0, <1>1 DEF InName, InPadding, Continued

LEMMA PaddingMoves ==
    ASSUME NEW units, Readable(units), NEW name, NEW at \in Nat, NEW padding \in Nat, NEW k \in 0..padding
    PROVE  Agree(InPadding(units, name, at, padding), InPadding(units, name, at + k, padding - k))
<1>1. (at + k) + (padding - k) = at + padding
  OBVIOUS
<1> QED
  BY <1>1 DEF InPadding, Agree

LEMMA PaddingNone ==
    ASSUME NEW units, NEW name, NEW at \in Nat, at <= Len(units)
    PROVE  InPadding(units, name, at, 0) = Continued(units, name, at)
<1>1. at + 0 = at
  OBVIOUS
<1> QED
  BY <1>1 DEF InPadding

(* Zeros are not a header, and a header is not zeros.                      *)
LEMMA NoEntry ==
    ASSUME NEW units, NEW at, NEW made, NEW name, ~EntryAt(units, at)
    PROVE  Entry(units, made, at, name) = Refused
BY DEF Entry, DirectoryEntryAt, FileEntryAt

LEMMA NothingThere ==
    ASSUME NEW units, NEW at, NEW name, ~EntryAt(units, at),
           name = <<>> => SubSeq(units, at + 1, Len(units)) # Zeros(2 * TarBlock)
    PROVE  Continued(units, name, at) = Refused
BY NoEntry DEF Continued, From, LongNameAt

(* Blocks of zeros one after the other.                                    *)
LEMMA ZerosSplit ==
    ASSUME NEW units, Readable(units), NEW at \in Nat, at + TarBlock <= Len(units),
           SubSeq(units, at + 1, at + TarBlock) = Zeros(TarBlock), NEW n \in Nat
    PROVE  SubSeq(units, at + 1, Len(units)) = Zeros(TarBlock + n)
             <=> SubSeq(units, (at + TarBlock) + 1, Len(units)) = Zeros(n)
<1> DEFINE b == at + TarBlock
           all == SubSeq(units, at + 1, Len(units))
           first == SubSeq(units, at + 1, at + TarBlock)
           rest == SubSeq(units, b + 1, Len(units))
<1>0. Plain(units) /\ Len(units) \in Nat /\ TarBlock \in Nat /\ at + TarBlock \in Nat /\ at <= at + TarBlock
      /\ at <= Len(units)
  BY ReadableIs, PlainIs, Block1
<1>1. Plain(all) /\ Len(all) = Len(units) - at /\ \A i \in 1..(Len(units) - at) : all[i] = units[at + i]
  <2> HIDE DEF all
  <2>1. /\ Plain(SubSeq(units, at + 1, Len(units))) /\ Len(SubSeq(units, at + 1, Len(units))) = Len(units) - at
        /\ \A i \in 1..(Len(units) - at) : SubSeq(units, at + 1, Len(units))[i] = units[at + i]
    BY <1>0, Remainder
  <2> QED
    BY <2>1 DEF all
<1>2. Plain(rest) /\ Len(rest) = Len(units) - (at + TarBlock)
      /\ \A i \in 1..(Len(units) - (at + TarBlock)) : rest[i] = units[(at + TarBlock) + i]
  <2>1. b \in Nat /\ b <= Len(units)
    BY <1>0
  <2>2. Plain(rest) /\ Len(rest) = Len(units) - b /\ \A i \in 1..(Len(units) - b) : rest[i] = units[b + i]
    <3> HIDE DEF b
    <3> QED
      BY <1>0, <2>1, Piece
  <2> QED
    BY <2>2
<1>3. \A i \in 1..TarBlock : units[at + i] = Zero
  <2>1. (at + TarBlock) - at = TarBlock /\ at + TarBlock <= Len(units)
    BY <1>0
  <2>2. \A i \in 1..TarBlock : first[i] = units[at + i]
    BY <1>0, <2>1, Piece
  <2>3. \A i \in 1..TarBlock : first[i] = Zero
    BY <1>0, ZerosAre
  <2> QED
    BY <2>2, <2>3
<1> HIDE DEF all, first, rest, b
<1>4. Plain(Zeros(n)) /\ Len(Zeros(n)) = n /\ \A i \in 1..n : Zeros(n)[i] = Zero
  BY ZerosAre
<1>5. TarBlock + n \in Nat
  BY <1>0
<1>6. Plain(Zeros(TarBlock + n)) /\ Len(Zeros(TarBlock + n)) = TarBlock + n
      /\ \A i \in 1..(TarBlock + n) : Zeros(TarBlock + n)[i] = Zero
  BY <1>5, ZerosAre
<1>7. ASSUME all = Zeros(TarBlock + n) PROVE rest = Zeros(n)
  <2>0. Len(all) = TarBlock + n
    BY <1>6, <1>7
  <2>a. Len(units) - at = TarBlock + n /\ Len(rest) = Len(units) - (at + TarBlock)
    BY <1>1, <1>2, <2>0
  <2>1. Len(rest) = n /\ Len(units) - at = TarBlock + n /\ Len(units) - (at + TarBlock) = n
    BY <1>0, <2>a
  <2>2. ASSUME NEW i \in 1..Len(rest) PROVE rest[i] = Zeros(n)[i]
    <3>1. i \in 1..n /\ TarBlock + i \in 1..(TarBlock + n) /\ at + (TarBlock + i) = (at + TarBlock) + i
      BY <1>0, <2>1
    <3>2. all[TarBlock + i] = Zero /\ all[TarBlock + i] = units[at + (TarBlock + i)]
      BY <1>1, <1>6, <1>7, <2>1, <3>1
    <3>3. rest[i] = units[(at + TarBlock) + i]
      BY <1>2, <2>1, <3>1
    <3> QED
      BY <1>4, <3>1, <3>2, <3>3
  <2> QED
    BY <1>2, <1>4, <2>1, <2>2, SamePlain
<1>8. ASSUME rest = Zeros(n) PROVE all = Zeros(TarBlock + n)
  <2>0. Len(rest) = n
    BY <1>4, <1>8
  <2>a. Len(all) = Len(units) - at /\ n = Len(units) - (at + TarBlock)
    BY <1>1, <1>2, <2>0
  <2>1. Len(all) = TarBlock + n /\ Len(units) - at = TarBlock + n /\ Len(units) - (at + TarBlock) = n
    BY <1>0, <2>a
  <2>2. ASSUME NEW i \in 1..Len(all) PROVE all[i] = Zeros(TarBlock + n)[i]
    <3>0. i \in 1..(TarBlock + n) /\ all[i] = units[at + i] /\ Zeros(TarBlock + n)[i] = Zero
      BY <1>1, <1>6, <2>1
    <3>1. CASE i <= TarBlock
      <4>1. i \in 1..TarBlock
        BY <1>0, <3>0, <3>1
      <4> QED
        BY <1>3, <3>0, <4>1
    <3>2. CASE i > TarBlock
      <4>0. i \in Int /\ TarBlock \in Int /\ n \in Int /\ at \in Int /\ i <= TarBlock + n
        BY <1>0, <3>0
      <4>1. i - TarBlock \in 1..n /\ at + i = (at + TarBlock) + (i - TarBlock)
        BY <3>2, <4>0
      <4>2. rest[i - TarBlock] = units[(at + TarBlock) + (i - TarBlock)]
        BY <1>2, <2>1, <4>1
      <4>3. rest[i - TarBlock] = Zero
        BY <1>4, <1>8, <4>1
      <4> QED
        BY <3>0, <4>1, <4>2, <4>3
    <3>3. i <= TarBlock \/ i > TarBlock
      BY <1>0, <3>0
    <3> QED
      BY <3>1, <3>2, <3>3
  <2> QED
    BY <1>1, <1>6, <2>1, <2>2, SamePlain
<1> QED
  BY <1>7, <1>8 DEF all, rest, b

-----------------------------------------------------------------------------
(* What a header block makes                                               *)

(* The first unit of a block tells zeros from a header.                    *)
LEMMA BlockThere ==
    ASSUME NEW units, Readable(units), NEW at \in Nat, at + TarBlock <= Len(units)
    PROVE  /\ Plain(SubSeq(units, at + 1, at + TarBlock))
           /\ Len(SubSeq(units, at + 1, at + TarBlock)) = TarBlock
           /\ SubSeq(units, at + 1, at + TarBlock)[1] = units[at + 1]
           /\ units[at + 1].kind = "header" =>
                /\ SubSeq(units, at + 1, at + TarBlock) # Zeros(TarBlock)
                /\ SubSeq(units, at + 1, Len(units)) # Zeros(2 * TarBlock)
<1> DEFINE b == at + TarBlock
           n == Len(units)
           first == SubSeq(units, at + 1, at + TarBlock)
           all == SubSeq(units, at + 1, Len(units))
<1>0. Plain(units) /\ n \in Nat /\ TarBlock \in Nat /\ TarBlock >= 1 /\ b \in Nat /\ at <= b /\ b <= n /\ at <= n
      /\ b - at = TarBlock /\ n - at >= 1 /\ 2 * TarBlock \in Nat /\ 2 * TarBlock >= 1
  BY ReadableIs, PlainIs, Block1
<1>1. Plain(first) /\ Len(first) = b - at /\ \A i \in 1..(b - at) : first[i] = units[at + i]
  <2> DEFINE p == SubSeq(units, at + 1, b)
  <2>1. Plain(p) /\ Len(p) = b - at /\ \A i \in 1..(b - at) : p[i] = units[at + i]
    <3> HIDE DEF b
    <3> QED
      BY <1>0, Piece
  <2> QED
    BY <2>1
<1>2. \A i \in 1..(n - at) : all[i] = units[at + i]
  BY <1>0, Piece
<1> HIDE DEF b, n, first, all
<1>3. 1 \in 1..(b - at) /\ 1 \in 1..(n - at) /\ 1 \in 1..TarBlock /\ 1 \in 1..(2 * TarBlock)
  BY <1>0
<1>4. Zeros(TarBlock)[1].kind = "zero" /\ Zeros(2 * TarBlock)[1].kind = "zero"
  BY <1>0, <1>3, ZerosAre DEF Zero
<1>5. first[1] = units[at + 1] /\ all[1] = units[at + 1]
  BY <1>1, <1>2, <1>3
<1>6. units[at + 1].kind = "header" => first # Zeros(TarBlock) /\ all # Zeros(2 * TarBlock)
  BY <1>4, <1>5
<1>7. Len(first) = TarBlock
  BY <1>0, <1>1
<1> QED
  BY <1>1, <1>5, <1>6, <1>7 DEF first, all, n

LEMMA ZerosThere ==
    ASSUME NEW units, Readable(units), NEW at \in Nat, at + TarBlock <= Len(units),
           SubSeq(units, at + 1, at + TarBlock) = Zeros(TarBlock)
    PROVE  ~EntryAt(units, at)
<1>1. 1 \in 1..TarBlock /\ TarBlock \in Nat
  BY Block1
<1>2. Zeros(TarBlock)[1] = Zero
  BY <1>1, ZerosAre
<1>3. units[at + 1] = Zero
  BY <1>2, BlockThere
<1> QED
  BY <1>3 DEF EntryAt, Zero

LEMMA ZeroFirst ==
    ASSUME NEW units, Readable(units), NEW name, NEW at \in Nat, at + TarBlock <= Len(units),
           SubSeq(units, at + 1, at + TarBlock) = Zeros(TarBlock)
    PROVE  Continued(units, name, at) = AfterZero(units, name, at + TarBlock)
<1>1. ~EntryAt(units, at)
  BY ZerosThere
<1>2. CASE name # <<>>
  BY <1>1, <1>2, NoEntry DEF Continued, AfterZero
<1>3. CASE name = <<>>
  <2>1. TarBlock \in Nat /\ TarBlock + TarBlock = 2 * TarBlock
    BY Block1
  <2>2. SubSeq(units, at + 1, Len(units)) = Zeros(2 * TarBlock)
          <=> SubSeq(units, (at + TarBlock) + 1, Len(units)) = Zeros(TarBlock)
    <3>1. SubSeq(units, at + 1, Len(units)) = Zeros(TarBlock + TarBlock)
            <=> SubSeq(units, (at + TarBlock) + 1, Len(units)) = Zeros(TarBlock)
      BY <2>1, ZerosSplit
    <3> QED
      BY <2>1, <3>1
  <2>3. ~LongNameAt(units, at)
    BY <1>1 DEF LongNameAt
  <2> QED
    BY <1>1, <1>3, <2>2, <2>3 DEF Continued, AfterZero, From
<1> QED
  BY <1>2, <1>3

LEMMA ZeroSecond ==
    ASSUME NEW units, Readable(units), NEW name, NEW at \in Nat, at + TarBlock <= Len(units),
           SubSeq(units, at + 1, at + TarBlock) = Zeros(TarBlock)
    PROVE  AfterZero(units, name, at) = AfterZeros(units, name, at + TarBlock)
<1> DEFINE b == at + TarBlock
           rest == SubSeq(units, (at + TarBlock) + 1, Len(units))
<1>1. TarBlock \in Nat /\ TarBlock + 0 = TarBlock /\ 0 \in Nat /\ b \in Nat /\ b <= Len(units)
      /\ Plain(units) /\ Len(units) \in Nat
  BY Block1, ReadableIs, PlainIs
<1>2. SubSeq(units, at + 1, Len(units)) = Zeros(TarBlock) <=> rest = Zeros(0)
  <2>1. SubSeq(units, at + 1, Len(units)) = Zeros(TarBlock + 0)
          <=> SubSeq(units, (at + TarBlock) + 1, Len(units)) = Zeros(0)
    <3>1. 0 \in Nat
      OBVIOUS
    <3> QED
      BY <3>1, ZerosSplit
  <2> QED
    BY <1>1, <2>1
<1>3. Plain(rest) /\ Len(rest) = Len(units) - b
  <2> DEFINE p == SubSeq(units, b + 1, Len(units))
  <2>1. Plain(p) /\ Len(p) = Len(units) - b
    <3> HIDE DEF b
    <3> QED
      BY <1>1, Piece
  <2> QED
    BY <2>1
<1>4. Plain(Zeros(0)) /\ Len(Zeros(0)) = 0
  BY <1>1, ZerosAre
<1> HIDE DEF b, rest
<1>5. rest = Zeros(0) <=> b = Len(units)
  <2>1. ASSUME rest = Zeros(0) PROVE b = Len(units)
    BY <1>1, <1>3, <1>4, <2>1
  <2>2. ASSUME b = Len(units) PROVE rest = Zeros(0)
    <3>1. Len(rest) = 0 /\ \A i \in 1..Len(rest) : FALSE
      BY <1>1, <1>3, <2>2
    <3> QED
      BY <1>3, <1>4, <3>1, SamePlain
  <2> QED
    BY <2>1, <2>2
<1> QED
  BY <1>2, <1>5 DEF AfterZero, AfterZeros, b

(* Nothing but zeros may follow the first block of them.                   *)
LEMMA NotZeroSecond ==
    ASSUME NEW units, Readable(units), NEW name, NEW at \in Nat, at <= Len(units),
           at + TarBlock <= Len(units) => SubSeq(units, at + 1, at + TarBlock) # Zeros(TarBlock)
    PROVE  /\ AfterZero(units, name, at) = Refused
           /\ SubSeq(units, at + 1, Len(units)) # Zeros(2 * TarBlock)
<1> DEFINE all == SubSeq(units, at + 1, Len(units))
<1>1. TarBlock \in Nat /\ TarBlock >= 1 /\ 2 * TarBlock \in Nat /\ 2 * TarBlock >= TarBlock
      /\ Plain(units) /\ Len(units) \in Nat
  BY Block1, ReadableIs, PlainIs
<1>2. Plain(all) /\ Len(all) = Len(units) - at /\ \A i \in 1..(Len(units) - at) : all[i] = units[at + i]
  BY <1>1, Piece
<1> HIDE DEF all
<1>3. ASSUME NEW n \in Nat, n >= TarBlock, all = Zeros(n) PROVE FALSE
  <2>1. Len(Zeros(n)) = n /\ \A i \in 1..n : Zeros(n)[i] = Zero
    BY ZerosAre
  <2>2. n = Len(units) - at
    BY <1>2, <1>3, <2>1
  <2>3. at + TarBlock <= Len(units)
    BY <1>1, <1>3, <2>2
  <2> DEFINE b == at + TarBlock
             first == SubSeq(units, at + 1, at + TarBlock)
  <2>4. Plain(first) /\ Len(first) = TarBlock
    BY <2>3, BlockThere
  <2>5. \A i \in 1..TarBlock : first[i] = units[at + i]
    <3> DEFINE p == SubSeq(units, at + 1, b)
    <3>1. b \in Nat /\ at <= b /\ b <= Len(units) /\ b - at = TarBlock
      BY <1>1, <2>3
    <3>2. \A i \in 1..(b - at) : p[i] = units[at + i]
      <4> HIDE DEF b
      <4> QED
        BY <1>1, <3>1, Piece
    <3> QED
      BY <3>1, <3>2
  <2>6. Plain(Zeros(TarBlock)) /\ Len(Zeros(TarBlock)) = TarBlock /\ \A i \in 1..TarBlock : Zeros(TarBlock)[i] = Zero
    BY <1>1, ZerosAre
  <2> HIDE DEF b
  <2>7. ASSUME NEW i \in 1..TarBlock PROVE first[i] = Zero
    <3>1. i \in 1..n /\ i \in 1..(Len(units) - at)
      BY <1>1, <1>3, <2>2
    <3>2. units[at + i] = Zero
      BY <1>2, <1>3, <2>1, <3>1
    <3> QED
      BY <2>5, <3>2
  <2> HIDE DEF first
  <2>8. first = Zeros(TarBlock)
    BY <2>4, <2>6, <2>7, SamePlain
  <2> QED
    BY <2>3, <2>8 DEF first
<1>4. all # Zeros(TarBlock) /\ all # Zeros(2 * TarBlock)
  BY <1>1, <1>3
<1> QED
  BY <1>4 DEF AfterZero, all

(* What a header that is no long name's makes is an entry's.               *)
LEMMA NamedThere ==
    ASSUME NEW units, Readable(units), NEW name, NEW at \in Nat, at + TarBlock <= Len(units),
           units[at + 1].kind = "header",
           name # <<>> \/ HeaderAt(units, at).type # "L"
    PROVE  Continued(units, name, at)
             = Entry(units, Made(units), at, IF name # <<>> THEN name ELSE NameOf(HeaderAt(units, at)))
<1>1. SubSeq(units, at + 1, Len(units)) # Zeros(2 * TarBlock)
  BY BlockThere
<1>2. CASE name # <<>>
  BY <1>2 DEF Continued
<1>3. CASE name = <<>>
  <2>1. ~LongNameAt(units, at)
    BY <1>3 DEF LongNameAt
  <2>2. ~EntryAt(units, at) => Entry(units, Made(units), at, NameOf(HeaderAt(units, at))) = Refused
    BY NoEntry
  <2> QED
    BY <1>1, <1>3, <2>1, <2>2 DEF Continued, From
<1> QED
  BY <1>2, <1>3

LEMMA LongNameThere ==
    ASSUME NEW units, Readable(units), NEW at \in Nat, at + TarBlock <= Len(units),
           units[at + 1].kind = "header",
           SubSeq(units, at + 1, at + TarBlock) = Block(HeaderAt(units, at)),
           SizeValid(HeaderAt(units, at).size),
           HeaderAt(units, at).type = "L", SizeAt(units, at) \in 1..LongNameLimit
    PROVE  Continued(units, <<>>, at)
             = InName(units, <<>>, at + TarBlock, SizeAt(units, at), Padded(SizeAt(units, at)))
<1> DEFINE size == SizeAt(units, at)
           body == BodyAt(units, at)
           piece == SubSeq(units, (at + TarBlock) + 1, at + TarBlock + size)
<1>0. LongNameLimit \in Nat /\ TarBlock \in Nat /\ size \in Nat
  BY TarAssumption
<1>1. SubSeq(units, at + 1, Len(units)) # Zeros(2 * TarBlock)
  BY BlockThere
<1>2. EntryAt(units, at) <=> Behind(units, at) <= Len(units)
  BY DEF EntryAt
<1>3. at + TarBlock + size + Padded(size) = Behind(units, at)
  BY DEF Behind
<1>4. EntryAt(units, at) => <<>> \o piece = body
  <2> SUFFICES ASSUME EntryAt(units, at) PROVE <<>> \o piece = body
    OBVIOUS
  <2> DEFINE b == at + TarBlock
             c == at + TarBlock + size
  <2>1. body = piece
    BY DEF BodyAt
  <2>2. Padded(size) \in 0..(TarBlock - 1)
    BY <1>0, PaddedFits
  <2>3. Plain(units) /\ Len(units) \in Nat
    BY ReadableIs, PlainIs
  <2>4. b \in Nat /\ c \in Nat /\ b <= c /\ c <= Len(units)
    <3> HIDE DEF size
    <3>1. c + Padded(size) = Behind(units, at) /\ c + Padded(size) <= Len(units)
      BY <1>2, <1>3
    <3>2. b \in Nat /\ b + size = c
      BY <1>0
    <3>3. Padded(size) \in Nat
      BY <1>0, <2>2
    <3>4. (b + size) + Padded(size) <= Len(units)
      BY <3>1, <3>2
    <3>5. b + size \in Nat /\ b <= b + size /\ b + size <= Len(units)
      <4> HIDE DEF b
      <4> QED
        BY <1>0, <2>3, <3>2, <3>3, <3>4, LeavesRoom
    <3> QED
      BY <3>2, <3>5
  <2>5. Plain(SubSeq(units, b + 1, c))
    <3> HIDE DEF b, c
    <3> QED
      BY <2>3, <2>4, Piece
  <2> QED
    BY <2>1, <2>5, JoinEmpty
<1>5. CASE EntryAt(units, at)
  <2>1. LongNameAt(units, at) <=> TextOf(body) # <<>>
    BY <1>5 DEF LongNameAt
  <2>2. CASE TextOf(body) # <<>>
    BY <1>1, <1>2, <1>3, <1>4, <1>5, <2>1, <2>2 DEF Continued, From, InName
  <2>3. CASE TextOf(body) = <<>>
    <3>1. Entry(units, Made(units), at, NameOf(HeaderAt(units, at))) = Refused
      BY DEF Entry, DirectoryEntryAt, FileEntryAt, FileTypes
    <3> QED
      BY <1>1, <1>2, <1>3, <1>4, <1>5, <2>1, <2>3, <3>1 DEF Continued, From, InName
  <2> QED
    BY <2>2, <2>3
<1>6. CASE ~EntryAt(units, at)
  <2>1. ~LongNameAt(units, at)
    BY <1>6 DEF LongNameAt
  <2> QED
    BY <1>1, <1>2, <1>3, <1>6, <2>1 DEF Continued, From, InName
<1> QED
  BY <1>5, <1>6

LEMMA ContinuedIs ==
    ASSUME NEW units, Readable(units), NEW at \in 0..Len(units)
    PROVE  Made(units)[at] = Continued(units, <<>>, at)
BY MadeIs DEF Continued

LEMMA PaddedNone == Padded(0) = 0
<1>1. TarBlock \in Nat /\ TarBlock >= 1
  BY Block1
<1>2. 0 % TarBlock = 0 /\ TarBlock % TarBlock = 0 /\ TarBlock - 0 = TarBlock
  BY <1>1
<1> QED
  BY <1>2 DEF Padded

LEMMA DirectoryThere ==
    ASSUME NEW units, Readable(units), NEW name, NEW at \in Nat, at + TarBlock <= Len(units),
           units[at + 1].kind = "header",
           SubSeq(units, at + 1, at + TarBlock) = Block(HeaderAt(units, at)),
           SizeValid(HeaderAt(units, at).size),
           HeaderAt(units, at).type = "5", SizeAt(units, at) = 0,
           NEW stored, name # <<>> => stored = name, name = <<>> => stored = NameOf(HeaderAt(units, at)),
           ~Unsafe(stored)
    PROVE  Continued(units, name, at)
             = Under(Directories(Components(stored)), Continued(units, <<>>, at + TarBlock))
<1>1. Continued(units, name, at) = Entry(units, Made(units), at, stored)
  BY NamedThere
<1>2. Behind(units, at) = at + TarBlock
  BY PaddedNone, Block1 DEF Behind
<1>3. DirectoryEntryAt(units, at, stored)
  BY <1>2 DEF DirectoryEntryAt, EntryAt
<1>4. at + TarBlock \in 0..Len(units)
  BY Block1, ReadableIs, PlainIs
<1>5. Made(units)[at + TarBlock] = Continued(units, <<>>, at + TarBlock)
  BY <1>4, ContinuedIs
<1> QED
  BY <1>1, <1>2, <1>3, <1>5 DEF Entry

LEMMA FileThere ==
    ASSUME NEW units, Readable(units), NEW name, NEW at \in Nat, at + TarBlock <= Len(units),
           units[at + 1].kind = "header",
           SubSeq(units, at + 1, at + TarBlock) = Block(HeaderAt(units, at)),
           SizeValid(HeaderAt(units, at).size),
           HeaderAt(units, at).type \in FileTypes, SizeAt(units, at) \in Nat,
           NEW stored, name # <<>> => stored = name, name = <<>> => stored = NameOf(HeaderAt(units, at)),
           ~Unsafe(stored)
    PROVE  LET path == Components(stored)
           IN  Continued(units, name, at)
                 = Under(Directories(Front(path)),
                         InFile(units, path, <<>>, at + TarBlock, SizeAt(units, at), Padded(SizeAt(units, at))))
<1> DEFINE size == SizeAt(units, at)
           path == Components(stored)
           b == at + TarBlock
           c == at + TarBlock + size
           body == BodyAt(units, at)
           rest == Continued(units, <<>>, Behind(units, at))
<1>a. TarBlock \in Nat /\ size \in Nat
  BY Block1
<1>b. Padded(size) \in 0..(TarBlock - 1)
  <2> HIDE DEF size
  <2> QED
    BY <1>a, PaddedFits
<1>c. b \in Nat /\ c \in Nat /\ b <= c
  BY <1>a
<1>d. Plain(units) /\ Len(units) \in Nat
  BY ReadableIs, PlainIs
<1>0. /\ TarBlock \in Nat /\ b \in Nat /\ c \in Nat /\ b <= c /\ Padded(size) \in 0..(TarBlock - 1)
      /\ Plain(units) /\ Len(units) \in Nat
  BY <1>a, <1>b, <1>c, <1>d
<1>1. HeaderAt(units, at).type # "L" /\ HeaderAt(units, at).type # "5"
  BY DEF FileTypes
<1>2. Continued(units, name, at) = Entry(units, Made(units), at, stored)
  BY <1>1, NamedThere
<1>3. Behind(units, at) = c + Padded(size) /\ Behind(units, at) \in Nat
  BY <1>0 DEF Behind
<1>4. EntryAt(units, at) <=> Behind(units, at) <= Len(units)
  BY DEF EntryAt
<1>5. CASE EntryAt(units, at)
  <2>1. <<>> \o SubSeq(units, b + 1, c) = body
    <3>1. body = SubSeq(units, b + 1, c)
      BY DEF BodyAt
    <3>2. b <= c /\ c <= Len(units)
      <4>1. c + Padded(size) <= Len(units)
        BY <1>3, <1>4, <1>5
      <4> HIDE DEF c, b
      <4> QED
        BY <1>0, <4>1
    <3>3. Plain(SubSeq(units, b + 1, c))
      <4> HIDE DEF b, c
      <4> QED
        BY <1>0, <3>2, Piece
    <3> QED
      BY <3>1, <3>3, JoinEmpty
  <2>2. InFile(units, path, <<>>, b, size, Padded(size)) = Under(FileAt(path, body), rest)
    BY <1>3, <1>4, <1>5, <2>1 DEF InFile
  <2>3. FileEntryAt(units, at, stored) /\ ~DirectoryEntryAt(units, at, stored)
    BY <1>1, <1>5 DEF FileEntryAt, DirectoryEntryAt
  <2>4. Made(units)[Behind(units, at)] = rest
    BY <1>0, <1>3, <1>4, <1>5, ContinuedIs
  <2>5. Entry(units, Made(units), at, stored) = Under(Over(FileAt(path, body), Directories(Front(path))), rest)
    BY <2>3, <2>4 DEF Entry
  <2> QED
    BY <1>2, <2>2, <2>5, UnderUnder
<1>6. CASE ~EntryAt(units, at)
  <2>1. InFile(units, path, <<>>, b, size, Padded(size)) = Refused
    BY <1>3, <1>4, <1>6 DEF InFile
  <2>2. Entry(units, Made(units), at, stored) = Refused
    BY <1>6, NoEntry
  <2> QED
    BY <1>2, <2>1, <2>2 DEF Under
<1> QED
  BY <1>5, <1>6

(* A file of no size is there at once.                                     *)
LEMMA EmptyFile ==
    ASSUME NEW units, Readable(units), NEW path, NEW at \in 0..Len(units), NEW dirs
    PROVE  Under(dirs, InFile(units, path, <<>>, at, 0, Padded(0)))
             = Under(Over(FileAt(path, <<>>), dirs), Continued(units, <<>>, at))
<1>1. at \in Nat /\ at <= Len(units) /\ Plain(<<>>) /\ Padded(0) = 0
  BY ReadableIs, PlainIs, ReadableEmpty, PaddedNone
<1>2. Under(dirs, InFile(units, path, <<>>, at, 0, 0))
        = Under(Over(FileAt(path, <<>>), dirs), InPadding(units, <<>>, at, 0))
  BY <1>1, FileEnds
<1>3. InPadding(units, <<>>, at, 0) = Continued(units, <<>>, at)
  BY <1>1, PaddingNone
<1> QED
  BY <1>1, <1>2, <1>3

(* Headers that handle_header refuses, and blocks that are no header.      *)
LEMMA NotAcceptable ==
    ASSUME NEW units, Readable(units), NEW name, NEW at \in Nat, at + TarBlock <= Len(units),
           SubSeq(units, at + 1, at + TarBlock) # Zeros(TarBlock),
           NEW stored, stored = IF name # <<>> THEN name ELSE NameOf(HeaderAt(units, at)),
           ~ /\ units[at + 1].kind = "header"
             /\ SubSeq(units, at + 1, at + TarBlock) = Block(HeaderAt(units, at))
             /\ SizeValid(HeaderAt(units, at).size)
             /\ \/ /\ HeaderAt(units, at).type = "L"
                   /\ name = <<>> /\ SizeAt(units, at) \in 1..LongNameLimit
                \/ HeaderAt(units, at).type = "5" /\ SizeAt(units, at) = 0 /\ ~Unsafe(stored)
                \/ HeaderAt(units, at).type \in FileTypes /\ ~Unsafe(stored)
    PROVE  Continued(units, name, at) = Refused
<1>0. at <= Len(units)
  BY Block1, ReadableIs, PlainIs
<1>1. SubSeq(units, at + 1, Len(units)) # Zeros(2 * TarBlock)
  BY <1>0, NotZeroSecond
<1>2. CASE ~EntryAt(units, at)
  BY <1>1, <1>2, NothingThere
<1>3. CASE EntryAt(units, at)
  <2>1. units[at + 1].kind = "header" /\ SubSeq(units, at + 1, at + TarBlock) = Block(HeaderAt(units, at))
        /\ SizeValid(HeaderAt(units, at).size)
    BY <1>3 DEF EntryAt
  <2>2. ~DirectoryEntryAt(units, at, stored) /\ ~FileEntryAt(units, at, stored)
    BY <2>1 DEF DirectoryEntryAt, FileEntryAt
  <2>3. Entry(units, Made(units), at, stored) = Refused
    BY <2>2 DEF Entry
  <2>4. CASE name # <<>>
    BY <2>3, <2>4 DEF Continued
  <2>5. CASE name = <<>>
    <3>1. ~LongNameAt(units, at)
      BY <2>1, <2>5 DEF LongNameAt
    <3> QED
      BY <1>1, <1>3, <2>3, <2>5, <3>1 DEF Continued, From
  <2> QED
    BY <2>4, <2>5
<1> QED
  BY <1>2, <1>3

(* The stream ends inside a block.                                         *)
LEMMA TooShort ==
    ASSUME NEW units, Readable(units), NEW name, NEW at \in 0..Len(units), at + TarBlock > Len(units)
    PROVE  Continued(units, name, at) = Refused /\ AfterZero(units, name, at) = Refused
<1>0. TarBlock \in Nat /\ Len(units) \in Nat
  BY Block1, ReadableIs, PlainIs
<1>1. ~(at + TarBlock <= Len(units)) /\ at \in Nat /\ at <= Len(units)
  BY <1>0
<1>2. SubSeq(units, at + 1, Len(units)) # Zeros(2 * TarBlock) /\ AfterZero(units, name, at) = Refused
  BY <1>1, NotZeroSecond
<1>3. ~EntryAt(units, at)
  BY <1>1 DEF EntryAt
<1> QED
  BY <1>2, <1>3, NothingThere

-----------------------------------------------------------------------------
(* The source                                                              *)

Listed(entry) == entry.path \in Seq(Nat) /\ Readable(entry.content)

EntriesListed == Plain(entries) /\ \A i \in 1..Len(entries) : Listed(entries[i])

LEMMA EntryStreamSizeNat ==
    ASSUME NEW name \in Seq(Nat), NEW size \in Nat
    PROVE  EntryStreamSize(name, size) \in Nat
<1>1. TarBlock \in Nat /\ Len(name) \in Nat /\ Len(name) + 1 \in Nat
  BY Block1
<1>2. Padded(size) \in 0..(TarBlock - 1) /\ Padded(Len(name) + 1) \in 0..(TarBlock - 1)
  BY <1>1, PaddedFits
<1> QED
  BY <1>1, <1>2 DEF EntryStreamSize

Totals(total) ==
    total = [i \in 0..Len(entries) |->
              IF i = 0 THEN 0
              ELSE total[i - 1] + EntryStreamSize(entries[i].path, Len(entries[i].content))]

LEMMA TotalsExist ==
    ASSUME Len(entries) \in Nat
    PROVE  \E t : Totals(t)
<1> DEFINE n == Len(entries)
           Size(i) == EntryStreamSize(entries[i].path, Len(entries[i].content))
           S == {k \in 0..n : \E t : t = [i \in 0..k |-> IF i = 0 THEN 0 ELSE t[i - 1] + Size(i)]}
<1> HIDE DEF Size
<1>0. n \in Nat
  OBVIOUS
<1>1. 0 \in S
  <2> DEFINE t == [i \in 0..0 |-> 0]
  <2>1. t = [i \in 0..0 |-> IF i = 0 THEN 0 ELSE t[i - 1] + Size(i)]
    OBVIOUS
  <2> HIDE DEF t
  <2> QED
    BY <1>0, <2>1
<1>2. ASSUME NEW k \in 0..(n - 1), k \in S PROVE k + 1 \in S
  <2>1. PICK t : t = [i \in 0..k |-> IF i = 0 THEN 0 ELSE t[i - 1] + Size(i)]
    BY <1>2
  <2> DEFINE w == [i \in 0..(k + 1) |-> IF i = k + 1 THEN t[k] + Size(i) ELSE t[i]]
  <2>2. ASSUME NEW i \in 0..(k + 1)
        PROVE  w[i] = IF i = 0 THEN 0 ELSE w[i - 1] + Size(i)
    <3>0. k \in Nat
      BY <1>0
    <3>1. CASE i = k + 1
      <4>1. i # 0 /\ i - 1 = k /\ k \in 0..(k + 1) /\ k # k + 1
        BY <3>0, <3>1
      <4>2. w[i - 1] = t[k]
        BY <4>1
      <4>3. w[i] = t[k] + Size(i)
        BY <3>1
      <4> QED
        BY <4>1, <4>2, <4>3
    <3>2. CASE i # k + 1
      <4>1. i \in 0..k
        BY <3>0, <3>2
      <4>2. t[i] = IF i = 0 THEN 0 ELSE t[i - 1] + Size(i)
        BY <2>1, <4>1
      <4>3. w[i] = t[i]
        BY <3>2
      <4>4. i # 0 => w[i - 1] = t[i - 1]
        <5>1. i # 0 => i - 1 \in 0..(k + 1) /\ i - 1 # k + 1
          BY <3>0, <4>1
        <5> QED
          BY <5>1
      <4> QED
        BY <4>2, <4>3, <4>4
    <3> QED
      BY <3>1, <3>2
  <2>3. w = [i \in 0..(k + 1) |-> w[i]]
    OBVIOUS
  <2> HIDE DEF w
  <2>4. w = [i \in 0..(k + 1) |-> IF i = 0 THEN 0 ELSE w[i - 1] + Size(i)]
    BY <2>2, <2>3
  <2>5. k + 1 \in 0..n
    BY <1>0
  <2> QED
    BY <2>4, <2>5
<1>3. n \in S
  <2> HIDE DEF S, n
  <2>1. 0..n \subseteq S
    BY <1>0, <1>1, <1>2, Ascent
  <2> QED
    BY <1>0, <2>1
<1> QED
  BY <1>3 DEF Totals, Size

LEMMA TotalSizeNat ==
    ASSUME EntriesListed
    PROVE  TotalSize \in Nat
<1> DEFINE n == Len(entries)
           t == CHOOSE t : Totals(t)
           S == {i \in 0..n : t[i] \in Nat}
<1>0. n \in Nat
  BY PlainIs DEF EntriesListed
<1>1. Totals(t)
  BY <1>0, TotalsExist
<1>2. TotalSize = t[n] + 2 * TarBlock
  BY DEF TotalSize, Totals
<1> HIDE DEF t
<1>3. 0 \in S
  BY <1>0, <1>1 DEF Totals
<1>4. ASSUME NEW i \in 0..(n - 1), i \in S PROVE i + 1 \in S
  <2>1. i + 1 \in 0..n /\ i + 1 \in 1..n /\ i + 1 # 0 /\ (i + 1) - 1 = i
    BY <1>0
  <2>2. t[i + 1] = t[i] + EntryStreamSize(entries[i + 1].path, Len(entries[i + 1].content))
    BY <1>1, <2>1 DEF Totals
  <2>3. entries[i + 1].path \in Seq(Nat) /\ Len(entries[i + 1].content) \in Nat
    BY <2>1, ReadableIs, PlainIs DEF EntriesListed, Listed
  <2>4. EntryStreamSize(entries[i + 1].path, Len(entries[i + 1].content)) \in Nat
    BY <2>3, EntryStreamSizeNat
  <2> QED
    BY <1>4, <2>1, <2>2, <2>4
<1> HIDE DEF S, n
<1>5. 0..n \subseteq S
  BY <1>0, <1>3, <1>4, Ascent
<1>6. n \in S
  BY <1>0, <1>5
<1> QED
  BY <1>2, <1>6, Block1 DEF S, n

(* What can be read of what is staged, buffered and produced.              *)
SourceTyped ==
    /\ EntriesListed
    /\ Readable(staged) /\ Readable(buffer) /\ Readable(stream)
    /\ entryIndex \in 1..(Len(entries) + 1)
    /\ room \in Nat /\ currentRemaining \in Nat /\ currentPadding \in 0..(TarBlock - 1)
    /\ currentRemaining > 0 =>
         /\ currentFile \in 1..Len(entries)
         /\ currentRemaining <= Len(entries[currentFile].content)

LEMMA ListingListed ==
    ASSUME NEW t, IsFiniteSet(t), \A e \in t : Listed(e), NEW listing \in Listings(t)
    PROVE  /\ Plain(listing) /\ Len(listing) \in Nat
           /\ \A i \in 1..Len(listing) : Listed(listing[i])
<1>1. Cardinality(t) \in Nat
  BY FS_CardinalityType
<1>2. listing \in [1..Cardinality(t) -> t]
  BY DEF Listings
<1>3. listing = [i \in 1..Cardinality(t) |-> listing[i]] /\ \A i \in 1..Cardinality(t) : listing[i] \in t
  BY <1>2
<1>4. Plain(listing) /\ Len(listing) = Cardinality(t)
  BY <1>1, <1>3, PlainMap
<1> QED
  BY <1>1, <1>3, <1>4

LEMMA SourceStarts ==
    ASSUME TarInit
    PROVE  SourceTyped
<1>1. ASSUME NEW t, IsFiniteSet(t), \A e \in t : Listed(e), SourceInit(t), Readable(stream)
      PROVE  SourceTyped
  <2>1. entries \in Listings(t)
    BY <1>1 DEF SourceInit
  <2>2. EntriesListed /\ Len(entries) \in Nat
    BY <1>1, <2>1, ListingListed DEF EntriesListed
  <2>3. 1 \in 1..(Len(entries) + 1) /\ 0 \in 0..(TarBlock - 1)
    BY <2>2, Block1
  <2> QED
    BY <1>1, <2>2, <2>3, ReadableEmpty DEF SourceTyped, SourceInit
<1>2. CASE stage = "archive" /\ stream = <<>> /\ \E source \in Trees : SourceInit(source)
  <2>1. PICK source \in Trees : SourceInit(source)
    BY <1>2
  <2>2. IsFiniteSet(source) /\ \A e \in source : Listed(e)
    BY TreesAssumption DEF Listed
  <2> QED
    BY <1>1, <1>2, <2>1, <2>2, ReadableEmpty
<1>3. CASE stream \in ForeignStreams /\ SourceInit({})
  <2>1. IsFiniteSet({})
    BY FS_EmptySet
  <2> QED
    BY <1>1, <1>3, <2>1, ForeignAssumption
<1> QED
  BY <1>2, <1>3 DEF TarInit

LEMMA SourceStays ==
    ASSUME SourceTyped, UNCHANGED <<entries, staged, buffer, stream, entryIndex, room, currentRemaining,
                                    currentPadding, currentFile>>
    PROVE  SourceTyped'
BY DEF SourceTyped, EntriesListed

LEMMA SourceSteps ==
    ASSUME SourceTyped, SourceStep, UNCHANGED stream
    PROVE  SourceTyped'
<1>0. /\ EntriesListed /\ Len(entries) \in Nat
      /\ Readable(staged) /\ Readable(buffer) /\ Readable(stream)
      /\ entryIndex \in 1..(Len(entries) + 1)
      /\ room \in Nat /\ currentRemaining \in Nat /\ currentPadding \in 0..(TarBlock - 1)
      /\ currentRemaining > 0 =>
         /\ currentFile \in 1..Len(entries)
         /\ currentRemaining <= Len(entries[currentFile].content)
  BY PlainIs DEF SourceTyped, EntriesListed
<1>1. CASE CopyStaged
  <2> DEFINE chunk == Lesser(room, Len(staged))
  <2>1. Len(staged) \in Nat /\ Plain(staged)
    BY <1>0, ReadableIs, PlainIs
  <2>2. chunk \in Nat /\ chunk <= Len(staged) /\ chunk <= room /\ 0 \in Nat
    BY <1>0, <2>1 DEF Lesser
  <2>3. /\ buffer' = buffer \o SubSeq(staged, 1, chunk)
        /\ staged' = SubSeq(staged, chunk + 1, Len(staged))
        /\ room' = room - chunk
        /\ UNCHANGED <<entries, entryIndex, currentRemaining, currentPadding, currentFile, stream>>
    BY <1>1 DEF CopyStaged
  <2> HIDE DEF chunk
  <2>4. Readable(SubSeq(staged, 1, chunk)) /\ Readable(SubSeq(staged, chunk + 1, Len(staged)))
    BY <1>0, <2>1, <2>2, ReadablePiece, ReadableFront
  <2>5. Readable(buffer') /\ Readable(staged') /\ room' \in Nat
    BY <1>0, <2>2, <2>3, <2>4, ReadableJoin
  <2> QED
    BY <1>0, <2>3, <2>5 DEF SourceTyped, EntriesListed
<1>2. CASE CopyFile
  <2> DEFINE content == entries[currentFile].content
             from  == Len(content) - currentRemaining
             chunk == Lesser(room, currentRemaining)
  <2>0. Readable(content) /\ Len(content) \in Nat /\ currentRemaining \in 1..Len(content)
        /\ currentFile \in 1..Len(entries)
    <3>1. currentRemaining > 0
      BY <1>2 DEF CopyFile
    <3>2. Listed(entries[currentFile])
      BY <1>0, <3>1 DEF EntriesListed
    <3>3. Readable(content) /\ Len(content) \in Nat
      BY <3>2, ReadableIs, PlainIs DEF Listed
    <3> HIDE DEF content
    <3>4. currentRemaining <= Len(content)
      BY <1>0, <3>1 DEF content
    <3> QED
      BY <1>0, <3>1, <3>3, <3>4
  <2>1. /\ buffer' = buffer \o SubSeq(content, from + 1, from + chunk)
        /\ room' = room - chunk
        /\ currentRemaining' = currentRemaining - chunk
        /\ \/ chunk < currentRemaining /\ UNCHANGED <<staged, currentFile>>
           \/ ~(chunk < currentRemaining) /\ staged' = Zeros(currentPadding)
        /\ UNCHANGED <<entries, entryIndex, currentPadding, stream>>
    BY <1>2 DEF CopyFile
  <2>2. chunk \in Nat /\ chunk <= room /\ chunk <= currentRemaining
    BY <1>0, <2>0 DEF Lesser
  <2> HIDE DEF chunk, content
  <2>3. from \in Nat /\ from + chunk \in Nat /\ from <= from + chunk /\ from + chunk <= Len(content)
    BY <2>0, <2>2
  <2>4. Readable(SubSeq(content, from + 1, from + chunk))
    <3> DEFINE to == from + chunk
    <3> HIDE DEF from, to
    <3>1. Readable(SubSeq(content, from + 1, to))
      BY <2>0, <2>3, ReadablePiece DEF to
    <3> QED
      BY <3>1 DEF to
  <2>5. Readable(buffer') /\ room' \in Nat /\ currentRemaining' \in Nat
    BY <1>0, <2>0, <2>1, <2>2, <2>4, ReadableJoin
  <2>6. Readable(Zeros(currentPadding))
    BY <1>0, ZerosAre, Block1
  <2>7. Readable(staged')
    BY <1>0, <2>1, <2>6
  <2>8. currentRemaining' > 0 => /\ UNCHANGED currentFile
                                 /\ currentRemaining' <= Len(content)
    BY <2>0, <2>1, <2>2
  <2>9. EntriesListed' /\ entries' = entries
    BY <1>0, <2>1 DEF EntriesListed
  <2>10. currentRemaining' > 0 =>
           /\ currentFile' \in 1..Len(entries')
           /\ currentRemaining' <= Len(entries'[currentFile'].content)
    BY <2>0, <2>8, <2>9 DEF content
  <2> QED
    BY <1>0, <2>1, <2>5, <2>7, <2>9, <2>10 DEF SourceTyped
<1>3. CASE SourceThrows
  <2>1. UNCHANGED <<entries, staged, buffer, stream, entryIndex, room, currentRemaining,
                    currentPadding, currentFile>>
    BY <1>3 DEF SourceThrows
  <2> QED
    BY <2>1, SourceStays
<1>4. CASE NextEntry
  <2> DEFINE entry == entries[entryIndex]
  <2>1. entryIndex \in 1..Len(entries)
    BY <1>0, <1>4 DEF NextEntry
  <2>2. entry.path \in Seq(Nat) /\ Len(entry.content) \in Nat /\ Readable(entry.content)
    BY <1>0, <2>1, ReadableIs, PlainIs DEF EntriesListed, Listed
  <2>3. /\ staged' = StagedHeader(entry)
        /\ \/ /\ entry.content # <<>>
              /\ currentFile' = entryIndex
              /\ currentRemaining' = Len(entry.content)
              /\ currentPadding' = Padded(Len(entry.content))
           \/ UNCHANGED <<currentFile, currentRemaining, currentPadding>>
        /\ entryIndex' = entryIndex + 1
        /\ UNCHANGED <<entries, room, buffer, stream>>
    BY <1>4 DEF NextEntry
  <2>4. Readable(staged')
    BY <2>2, <2>3, StagedReadable
  <2>5. Padded(Len(entry.content)) \in 0..(TarBlock - 1)
    BY <2>2, PaddedFits
  <2>6. EntriesListed' /\ entryIndex' \in 1..(Len(entries') + 1)
    BY <1>0, <2>1, <2>3 DEF EntriesListed
  <2>7. /\ currentRemaining' \in Nat /\ currentPadding' \in 0..(TarBlock - 1)
        /\ currentRemaining' > 0 =>
             /\ currentFile' \in 1..Len(entries)
             /\ currentRemaining' <= Len(entries[currentFile'].content)
    <3>1. CASE UNCHANGED <<currentFile, currentRemaining, currentPadding>>
      BY <1>0, <3>1
    <3>2. CASE /\ currentFile' = entryIndex
               /\ currentRemaining' = Len(entry.content)
               /\ currentPadding' = Padded(Len(entry.content))
      BY <2>1, <2>2, <2>5, <3>2
    <3> QED
      BY <2>3, <3>1, <3>2
  <2> HIDE DEF entry
  <2> QED
    BY <1>0, <2>3, <2>4, <2>6, <2>7 DEF SourceTyped
<1>5. CASE EndMarker
  <2>1. 2 * TarBlock \in Nat
    BY Block1
  <2>2. /\ staged' = Zeros(2 * TarBlock)
        /\ UNCHANGED <<entries, entryIndex, currentFile, currentRemaining, currentPadding, room, buffer, stream>>
    BY <1>5 DEF EndMarker
  <2>3. Readable(staged')
    BY <2>1, <2>2, ZerosAre
  <2> QED
    BY <1>0, <2>2, <2>3 DEF SourceTyped, EntriesListed
<1> QED
  BY <1>1, <1>2, <1>3, <1>4, <1>5 DEF SourceStep

LEMMA SourceGoesOn ==
    ASSUME SourceTyped, [TarNext]_tarVars
    PROVE  SourceTyped'
<1>1. CASE CallForBlock
  <2>1. PICK capacity \in Capacities : room' = Lesser(capacity, BlockWanted)
    BY <1>1 DEF CallForBlock, CallRead
  <2>2. /\ BlockWanted > 0 /\ stream' = stream \o buffer /\ buffer' = <<>>
        /\ UNCHANGED <<entries, staged, entryIndex, currentRemaining, currentPadding, currentFile>>
    BY <1>1 DEF CallForBlock, CallRead
  <2>3. TotalSize \in Nat /\ Len(stream) \in Nat /\ Len(buffer) \in Nat
    BY TotalSizeNat, ReadableIs, PlainIs DEF SourceTyped
  <2>4. BlockWanted \in Nat
    BY <2>2, <2>3 DEF BlockWanted
  <2>5. room' \in Nat
    BY <2>1, <2>4, CapacityAssumption DEF Lesser
  <2>6. Readable(stream') /\ Readable(buffer')
    BY <2>2, ReadableJoin, ReadableEmpty DEF SourceTyped
  <2> QED
    BY <2>2, <2>5, <2>6 DEF SourceTyped, EntriesListed
<1>2. CASE ReadOn
  BY <1>2, SourceSteps DEF ReadOn
<1>3. CASE Probe
  <2>1. /\ room' = 1 /\ stream' = stream \o buffer /\ buffer' = <<>>
        /\ UNCHANGED <<entries, staged, entryIndex, currentRemaining, currentPadding, currentFile>>
    BY <1>3 DEF Probe, CallRead
  <2>2. Readable(stream') /\ Readable(buffer') /\ room' \in Nat
    BY <2>1, ReadableJoin, ReadableEmpty DEF SourceTyped
  <2> QED
    BY <2>1, <2>2 DEF SourceTyped, EntriesListed
<1>4. CASE SourceChanges
  <2>1. UNCHANGED <<entries, staged, buffer, stream, entryIndex, room, currentRemaining,
                    currentPadding, currentFile>>
    BY <1>4 DEF SourceChanges, FileChanges
  <2> QED
    BY <2>1, SourceStays
<1>5. CASE UNCHANGED <<sourceVars, stream>>
  BY <1>5, SourceStays DEF sourceVars
<1>6. Archived \/ ArchivingThrows \/ Feed \/ FeedOn \/ Finish \/ FinishThrows \/ ExtractionThrows
        \/ TarStopped \/ UNCHANGED tarVars => UNCHANGED <<sourceVars, stream>>
  BY DEF Archived, ArchivingThrows, Feed, FeedOn, Finish, FinishThrows, ExtractionThrows,
         TarStopped, tarVars
<1> QED
  BY <1>1, <1>2, <1>3, <1>4, <1>5, <1>6 DEF TarNext

-----------------------------------------------------------------------------
(* The extractor                                                           *)

(* What feed has looked at, and where the block it collects starts.        *)
Position == fed - Len(data)
Start    == Position - Len(pending)

ReaderTyped ==
    /\ Readable(stream)
    /\ fed \in 0..Len(stream)
    /\ Plain(data) /\ Len(data) <= fed /\ data = SubSeq(stream, Position + 1, fed)
    /\ Plain(pending) /\ Len(pending) < TarBlock /\ Len(pending) <= Position
    /\ pending = SubSeq(stream, Start + 1, Position)

ParserTyped ==
    /\ pending # <<>> => state = "header"
    /\ state \in {"header", "file_data", "long_name_data", "padding"}
    /\ dataRemaining \in Nat /\ paddingRemaining \in 0..(TarBlock - 1)
    /\ state \in {"file_data", "long_name_data"} <=> dataRemaining > 0
    /\ state = "padding" => paddingRemaining > 0
    /\ state \in {"file_data", "long_name_data"} => longName = <<>>
    /\ zeroBlocks \in 0..2
    /\ done <=> zeroBlocks = 2
    /\ zeroBlocks > 0 => state = "header"
    /\ Plain(longNameData)
    /\ tree = [p \in DOMAIN tree |-> tree[p]]

StageTyped ==
    /\ stage \in {"archive", "probe", "extract", "returned", "threw"}
    /\ failure \in {"none", "format", "io"}
    /\ stage \in {"archive", "probe"} => ExtractorInit /\ fed = 0
    /\ stage = "returned" => AllFed /\ FinishAccepts

LEMMA Places ==
    ASSUME ReaderTyped
    PROVE  /\ Plain(stream) /\ Len(stream) \in Nat /\ Len(data) \in Nat /\ Len(pending) \in Nat
           /\ fed \in Nat /\ fed <= Len(stream)
           /\ Position \in Nat /\ Start \in Nat /\ Position + Len(data) = fed
           /\ Start + Len(pending) = Position /\ Start <= Position /\ Position <= Len(stream)
<1>1. Plain(stream) /\ Len(stream) \in Nat /\ Len(data) \in Nat /\ Len(pending) \in Nat
  BY ReadableIs, PlainIs DEF ReaderTyped
<1>2. fed \in 0..Len(stream) /\ Len(data) <= fed /\ Len(pending) <= Position
  BY DEF ReaderTyped
<1>3. Position = fed - Len(data) /\ Start = Position - Len(pending)
  BY DEF Position, Start
<1> HIDE DEF Position, Start
<1> QED
  BY <1>1, <1>2, <1>3

(* Units taken from the front of data are the next ones of the stream.     *)
LEMMA Taken ==
    ASSUME ReaderTyped, NEW k \in 0..Len(data)
    PROVE  /\ k \in Nat /\ Position + k \in Nat /\ Position + k <= Len(stream)
           /\ SubSeq(data, 1, k) = SubSeq(stream, Position + 1, Position + k)
           /\ Plain(SubSeq(data, 1, k)) /\ Len(SubSeq(data, 1, k)) = k
           /\ Plain(SubSeq(data, k + 1, Len(data))) /\ Len(SubSeq(data, k + 1, Len(data))) = Len(data) - k
           /\ SubSeq(data, k + 1, Len(data)) = SubSeq(stream, (Position + k) + 1, fed)
<1> DEFINE a == Position
           m == 0
<1>0. /\ Plain(stream) /\ Len(stream) \in Nat /\ Len(data) \in Nat /\ fed \in Nat /\ a \in Nat
      /\ a + Len(data) = fed /\ a <= fed /\ fed <= Len(stream) /\ k \in Nat /\ k <= Len(data)
      /\ fed - a = Len(data) /\ Len(data) <= fed - a /\ k <= fed - a
      /\ a + k \in Nat /\ a + k <= Len(stream)
  <2>1. /\ Plain(stream) /\ Len(stream) \in Nat /\ Len(data) \in Nat /\ fed \in Nat /\ a \in Nat
        /\ a + Len(data) = fed /\ fed <= Len(stream)
    BY Places
  <2> HIDE DEF a
  <2> QED
    BY <2>1
<1>1. Plain(data) /\ data = SubSeq(stream, a + 1, fed)
  BY DEF ReaderTyped
<1> HIDE DEF a
<1>2. SubSeq(data, k + 1, Len(data)) = SubSeq(stream, a + k + 1, a + Len(data))
  BY <1>0, <1>1, PieceOfPiece
<1>3. SubSeq(data, m + 1, k) = SubSeq(stream, a + m + 1, a + k)
  <2> HIDE DEF m
  <2>1. m \in Nat /\ m <= k
    BY <1>0 DEF m
  <2> QED
    BY <1>0, <1>1, <2>1, PieceOfPiece
<1>4. Plain(SubSeq(data, k + 1, Len(data))) /\ Len(SubSeq(data, k + 1, Len(data))) = Len(data) - k
  <2>1. k \in Nat /\ k <= Len(data)
    BY <1>0
  <2> QED
    BY <1>1, <2>1, Remainder
<1>5. Plain(SubSeq(data, m + 1, k)) /\ Len(SubSeq(data, m + 1, k)) = k - m
  <2> HIDE DEF m
  <2>1. m \in Nat /\ m <= k
    BY <1>0 DEF m
  <2> QED
    BY <1>0, <1>1, <2>1, Piece
<1>6. m + 1 = 1 /\ a + m + 1 = a + 1 /\ k - m = k
  BY <1>0
<1> QED
  BY <1>0, <1>2, <1>3, <1>4, <1>5, <1>6 DEF a

LEMMA Consumed ==
    ASSUME ReaderTyped, NEW k \in 0..Len(data), data' = SubSeq(data, k + 1, Len(data)),
           pending = <<>>, UNCHANGED <<stream, fed, pending>>
    PROVE  /\ ReaderTyped' /\ Position' = Position + k /\ Start' = Position + k
           /\ Start = Position
<1>1. /\ Plain(stream) /\ Len(stream) \in Nat /\ Len(data) \in Nat /\ fed \in Nat /\ Position \in Nat
      /\ Position + Len(data) = fed /\ fed <= Len(stream) /\ TarBlock \in Nat /\ TarBlock >= 1
  BY Places, Block1
<1>2. /\ Position + k \in Nat /\ Position + k <= Len(stream)
      /\ Plain(data') /\ Len(data') = Len(data) - k
      /\ data' = SubSeq(stream, (Position + k) + 1, fed)
  BY Taken
<1>3. Position' = Position + k
  <2>1. Position' = fed - (Len(data) - k)
    BY <1>2 DEF Position
  <2>2. fed - (Len(data) - k) = (fed - Len(data)) + k
    BY <1>1
  <2> QED
    BY <2>1, <2>2 DEF Position
<1>4. Start' = Position' /\ Start = Position
  BY <1>1, <1>2, <1>3, ReadableEmpty DEF Start
<1>5. Len(data') <= fed
  BY <1>1, <1>2
<1>6. pending' = SubSeq(stream, Start' + 1, Position')
  BY <1>1, <1>2, <1>3, <1>4, EmptyPiece
<1>7. Len(pending') < TarBlock /\ Len(pending') <= Position' /\ Plain(pending')
  BY <1>1, <1>2, <1>3, ReadableEmpty
<1> QED
  BY <1>2, <1>3, <1>4, <1>5, <1>6, <1>7 DEF ReaderTyped

(* What is collected of a block are the next units from its start on.      *)
LEMMA Gathered ==
    ASSUME ReaderTyped
    PROVE  \E k \in 0..Len(data) :
             /\ Len(Collected) = Len(pending) + k /\ Len(Collected) <= TarBlock
             /\ Plain(Collected)
             /\ Collected = SubSeq(stream, Start + 1, Position + k)
             /\ DataAfterHeader = SubSeq(data, k + 1, Len(data))
             /\ Start + Len(Collected) = Position + k
<1> DEFINE k == IF Len(data) < TarBlock - Len(pending) THEN Len(data) ELSE TarBlock - Len(pending)
           p == SubSeq(data, 1, k)
<1>1. /\ Plain(stream) /\ Len(stream) \in Nat /\ Len(data) \in Nat /\ Len(pending) \in Nat
      /\ Position \in Nat /\ Start \in Nat /\ Start + Len(pending) = Position /\ Start <= Position
      /\ TarBlock \in Nat
  BY Places, Block1
<1>2. Plain(pending) /\ Len(pending) < TarBlock /\ pending = SubSeq(stream, Start + 1, Position)
  BY DEF ReaderTyped
<1>3. k \in 0..Len(data) /\ Len(pending) + k <= TarBlock
  <2> DEFINE l == Len(data)
             n == Len(pending)
  <2>1. l \in Nat /\ n \in Nat /\ n < TarBlock /\ TarBlock \in Nat
        /\ k = IF l < TarBlock - n THEN l ELSE TarBlock - n
    BY <1>1, <1>2
  <2> HIDE DEF k, l, n
  <2>2. k \in 0..l /\ n + k <= TarBlock
    BY <2>1
  <2> QED
    BY <2>2 DEF l, n
<1>4. Collected = pending \o p
  BY DEF Collected
<1> HIDE DEF k
<1>5. /\ Position + k \in Nat /\ Position + k <= Len(stream)
      /\ p = SubSeq(stream, Position + 1, Position + k) /\ Plain(p) /\ Len(p) = k
  BY <1>3, Taken
<1> HIDE DEF p
<1>6. Plain(Collected) /\ Len(Collected) = Len(pending) + k
  BY <1>2, <1>4, <1>5, Join
<1>7. Collected = SubSeq(stream, Start + 1, Position + k)
  <2> DEFINE c == Position + k
  <2>1. c \in Nat /\ Position <= c /\ c <= Len(stream)
    BY <1>1, <1>3, <1>5
  <2>2. p = SubSeq(stream, Position + 1, c)
    BY <1>5
  <2> HIDE DEF c
  <2>3. SubSeq(stream, Start + 1, Position) \o SubSeq(stream, Position + 1, c) = SubSeq(stream, Start + 1, c)
    BY <1>1, <2>1, PiecesJoin
  <2> QED
    BY <1>2, <1>4, <2>2, <2>3 DEF c
<1>8. Len(Collected) - Len(pending) + 1 = k + 1
  BY <1>1, <1>3, <1>6
<1>9. DataAfterHeader = SubSeq(data, k + 1, Len(data))
  BY <1>8 DEF DataAfterHeader
<1>10. Start + Len(Collected) = Position + k
  BY <1>1, <1>3, <1>6
<1> QED
  BY <1>3, <1>6, <1>7, <1>9, <1>10

LEMMA Collecting ==
    ASSUME ReaderTyped, Collect, UNCHANGED <<stream, fed>>
    PROVE  ReaderTyped' /\ Start' = Start
<1>1. PICK k \in 0..Len(data) :
             /\ Len(Collected) = Len(pending) + k /\ Len(Collected) <= TarBlock
             /\ Plain(Collected)
             /\ Collected = SubSeq(stream, Start + 1, Position + k)
             /\ DataAfterHeader = SubSeq(data, k + 1, Len(data))
             /\ Start + Len(Collected) = Position + k
  BY Gathered
<1>2. pending' = Collected /\ data' = DataAfterHeader /\ Len(Collected) < TarBlock
  BY DEF Collect
<1>3. /\ Len(data) \in Nat /\ fed \in Nat /\ Position \in Nat /\ Start \in Nat /\ Position + Len(data) = fed
      /\ Len(pending) \in Nat /\ Start + Len(pending) = Position
  BY Places
<1>4. /\ k \in Nat /\ Plain(data') /\ Len(data') = Len(data) - k
      /\ data' = SubSeq(stream, (Position + k) + 1, fed)
  BY <1>1, <1>2, Taken
<1>5. Position' = Position + k
  <2>1. Position' = fed - (Len(data) - k)
    BY <1>4 DEF Position
  <2>2. fed - (Len(data) - k) = (fed - Len(data)) + k
    BY <1>3
  <2> QED
    BY <2>1, <2>2 DEF Position
<1>6. Start' = Start
  <2>1. Start' = (Position + k) - (Len(pending) + k)
    BY <1>1, <1>2, <1>5 DEF Start
  <2>2. (Position + k) - (Len(pending) + k) = Position - Len(pending)
    BY <1>3, <1>4
  <2> QED
    BY <2>1, <2>2 DEF Start
<1>7. Len(data') <= fed /\ Len(pending') <= Position'
  BY SMTT(30), <1>1, <1>2, <1>3, <1>4, <1>5
<1>8. Readable(stream) /\ fed \in 0..Len(stream)
  BY DEF ReaderTyped
<1>9. Readable(stream') /\ fed' \in 0..Len(stream') /\ Plain(data') /\ Len(data') <= fed'
  BY <1>4, <1>7, <1>8
<1>10. data' = SubSeq(stream', Position' + 1, fed')
  BY <1>4, <1>5
<1>11. Plain(pending') /\ Len(pending') < TarBlock /\ pending' = SubSeq(stream', Start' + 1, Position')
  BY <1>1, <1>2, <1>5, <1>6
<1> QED
  BY <1>6, <1>7, <1>9, <1>10, <1>11 DEF ReaderTyped

(* A block that is complete.                                               *)
LEMMA Complete ==
    ASSUME ReaderTyped, HeaderComplete
    PROVE  /\ Start \in Nat /\ Start + TarBlock <= Len(stream)
           /\ Collected = SubSeq(stream, Start + 1, Start + TarBlock)
           /\ Collected[1] = stream[Start + 1]
           /\ EntryHeader = HeaderAt(stream, Start) /\ EntrySize = SizeAt(stream, Start)
           /\ stream[Start + 1].kind = "header" => Spelled(HeaderAt(stream, Start).size)
<1>1. PICK k \in 0..Len(data) :
             /\ Collected = SubSeq(stream, Start + 1, Position + k)
             /\ Start + Len(Collected) = Position + k
  BY Gathered
<1>2. Len(Collected) = TarBlock
  BY DEF HeaderComplete
<1>3. Position + k = Start + TarBlock /\ Position + k <= Len(stream)
  BY <1>1, <1>2, Taken
<1>4. Start \in Nat /\ Readable(stream) /\ Start + TarBlock <= Len(stream)
  BY <1>3, Places DEF ReaderTyped
<1>5. Collected = SubSeq(stream, Start + 1, Start + TarBlock)
  BY <1>1, <1>3
<1>6. Collected[1] = stream[Start + 1]
  BY <1>4, <1>5, BlockThere
<1>7. EntryHeader = HeaderAt(stream, Start)
  BY <1>6 DEF EntryHeader, HeaderAt
<1>8. EntrySize = SizeAt(stream, Start)
  BY <1>7 DEF EntrySize, SizeAt
<1>9. Start + 1 \in 1..Len(stream)
  BY <1>4, Block1, ReadableIs, PlainIs
<1>10. stream[Start + 1].kind = "header" => Spelled(HeaderAt(stream, Start).size)
  BY <1>4, <1>9, ReadableIs DEF HeaderAt
<1> QED
  BY <1>4, <1>5, <1>6, <1>7, <1>8, <1>10

LEMMA Completed ==
    ASSUME ReaderTyped, HeaderComplete, pending' = <<>>, data' = DataAfterHeader,
           UNCHANGED <<stream, fed>>
    PROVE  /\ ReaderTyped' /\ Position' = Start + TarBlock /\ Start' = Start + TarBlock
           /\ pending' = <<>>
<1>1. PICK k \in 0..Len(data) :
             /\ DataAfterHeader = SubSeq(data, k + 1, Len(data))
             /\ Start + Len(Collected) = Position + k
  BY Gathered
<1>2. Len(Collected) = TarBlock
  BY DEF HeaderComplete
<1>3. Position + k = Start + TarBlock /\ Position + k <= Len(stream) /\ Position + k \in Nat
  BY <1>1, <1>2, Taken
<1>4. /\ Len(data) \in Nat /\ fed \in Nat /\ Position \in Nat /\ Position + Len(data) = fed
      /\ Plain(stream) /\ TarBlock \in Nat /\ TarBlock >= 1
  BY Places, Block1
<1>5. /\ k \in Nat /\ Plain(data') /\ Len(data') = Len(data) - k
      /\ data' = SubSeq(stream, (Position + k) + 1, fed)
  BY <1>1, Taken
<1>6. Position' = Position + k
  <2>1. Position' = fed - (Len(data) - k)
    BY <1>5 DEF Position
  <2>2. fed - (Len(data) - k) = (fed - Len(data)) + k
    BY <1>4, <1>5
  <2> QED
    BY <2>1, <2>2 DEF Position
<1>7. Start' = Position'
  <2>1. Start' = Position' - 0
    BY ReadableEmpty DEF Start
  <2> QED
    BY <1>3, <1>6, <2>1
<1>8. Readable(stream) /\ fed \in 0..Len(stream)
  BY DEF ReaderTyped
<1>9. Readable(stream') /\ fed' \in 0..Len(stream') /\ Plain(data') /\ Len(data') <= fed'
  BY <1>4, <1>5, <1>8
<1>10. data' = SubSeq(stream', Position' + 1, fed')
  BY <1>5, <1>6
<1>11. pending' = SubSeq(stream', Start' + 1, Position')
  BY <1>3, <1>4, <1>6, <1>7, EmptyPiece
<1>12. Plain(pending') /\ Len(pending') < TarBlock /\ Len(pending') <= Position'
  BY <1>3, <1>4, <1>6, ReadableEmpty
<1> QED
  BY <1>3, <1>6, <1>7, <1>9, <1>10, <1>11, <1>12 DEF ReaderTyped

LEMMA Fed ==
    ASSUME ReaderTyped, Feed
    PROVE  ReaderTyped' /\ Position' = Position /\ Start' = Start
<1>1. PICK capacity \in Capacities :
         LET chunk == Lesser(capacity, Len(stream) - fed)
         IN  data' = SubSeq(stream, fed + 1, fed + chunk) /\ fed' = fed + chunk
  BY DEF Feed
<1> DEFINE chunk == Lesser(capacity, Len(stream) - fed)
           to == fed + chunk
<1>2. /\ Plain(stream) /\ Len(stream) \in Nat /\ fed \in Nat /\ Position \in Nat
      /\ Position + Len(data) = fed /\ Start \in Nat /\ Len(pending) \in Nat
  BY Places
<1>3. data = <<>> /\ fed < Len(stream) /\ UNCHANGED <<pending, stream>>
  BY DEF Feed, parserVars
<1>4. Position = fed
  <2>1. Len(data) = 0
    BY <1>3
  <2> QED
    BY <1>2, <2>1
<1>5. chunk \in Nat /\ chunk <= Len(stream) - fed
  BY <1>2, <1>3, CapacityAssumption DEF Lesser
<1> HIDE DEF chunk
<1>6. to \in Nat /\ fed <= to /\ to <= Len(stream)
  BY <1>2, <1>5
<1>7. data' = SubSeq(stream, fed + 1, to) /\ fed' = to
  BY <1>1 DEF chunk
<1> HIDE DEF to
<1>8. Plain(data') /\ Len(data') = to - fed
  BY <1>2, <1>6, <1>7, Piece
<1>9. Position' = fed
  <2>1. Position' = to - (to - fed)
    BY <1>7, <1>8 DEF Position
  <2> QED
    BY <1>2, <1>6, <2>1
<1>10. Position' = Position
  BY <1>4, <1>9
<1>11. Start' = Start
  BY <1>3, <1>10 DEF Start
<1>12. Len(data') <= fed'
  BY <1>2, <1>6, <1>7, <1>8
<1>13. /\ Readable(stream) /\ Plain(pending) /\ Len(pending) < TarBlock /\ Len(pending) <= Position
       /\ pending = SubSeq(stream, Start + 1, Position)
  BY DEF ReaderTyped
<1>14. fed' \in 0..Len(stream) /\ data' = SubSeq(stream, Position' + 1, fed')
  BY <1>2, <1>6, <1>7, <1>9
<1> QED
  BY <1>3, <1>8, <1>10, <1>11, <1>12, <1>13, <1>14 DEF ReaderTyped

-----------------------------------------------------------------------------
(* What is extracted, and what is still to come, make up the whole         *)

(* What the rest of the stream makes, c being what is written of a file.   *)
Ahead(c) ==
    IF state = "file_data" THEN InFile(stream, openFile, c, Position, dataRemaining, paddingRemaining)
    ELSE IF state = "long_name_data"
      THEN InName(stream, longNameData, Position, dataRemaining, paddingRemaining)
    ELSE IF state = "padding" THEN InPadding(stream, longName, Position, paddingRemaining)
    ELSE IF zeroBlocks = 0 THEN Continued(stream, longName, Start)
    ELSE IF zeroBlocks = 1 THEN AfterZero(stream, longName, Start)
    ELSE AfterZeros(stream, longName, Start)

(* A tree with the file that is being written.                             *)
Laid(t, c) == IF state = "file_data" THEN Over(FileAt(openFile, c), t) ELSE t

Described(t, c) ==
    /\ Plain(c)
    /\ ~flushLost => tree = Laid(t, c)
    /\ Reference(stream) = Under(t, Ahead(c))

AsAWhole ==
    /\ \E t, c : Described(t, c)
    /\ failure = "format" => Reference(stream) = Refused

ExtractorInv == ReaderTyped /\ ParserTyped /\ AsAWhole

LEMMA BehindHeader ==
    ASSUME ReaderTyped, ParserTyped, state # "header"
    PROVE  zeroBlocks = 0 /\ pending = <<>> /\ Start = Position
<1>1. zeroBlocks = 0 /\ pending = <<>>
  BY DEF ParserTyped
<1>2. Len(pending) = 0 /\ Position \in Nat
  BY <1>1, Places, ReadableEmpty
<1> QED
  BY <1>1, <1>2 DEF Start

LEMMA OverMap ==
    ASSUME NEW f, NEW g
    PROVE  Over(f, g) = [p \in DOMAIN Over(f, g) |-> Over(f, g)[p]]
BY DEF Over

LEMMA Under1 ==
    ASSUME NEW t
    PROVE  Under(t, Refused) = Refused
BY DEF Under

(* Nothing moves: only failure may change.                                 *)
LEMMA NothingMoves ==
    ASSUME ExtractorInv, UNCHANGED <<parserVars, data, tree, flushLost, stream, fed>>,
           failure' = "format" => failure = "format" \/ Reference(stream) = Refused
    PROVE  ExtractorInv'
<1>1. Position' = Position /\ Start' = Start
  BY DEF Position, Start, parserVars
<1>2. ReaderTyped' /\ ParserTyped'
  BY <1>1 DEF ExtractorInv, ReaderTyped, ParserTyped, parserVars
<1>3. PICK t, c : Described(t, c)
  BY DEF ExtractorInv, AsAWhole
<1>4. Ahead(c)' = Ahead(c) /\ Laid(t, c)' = Laid(t, c)
  BY <1>1 DEF Ahead, Laid, parserVars
<1>5. Described(t, c)'
  BY <1>3, <1>4 DEF Described
<1>6. failure' = "format" => Reference(stream') = Refused
  BY DEF ExtractorInv, AsAWhole
<1> QED
  BY <1>2, <1>5, <1>6 DEF ExtractorInv, AsAWhole

LEMMA CollectKeeps ==
    ASSUME ExtractorInv, Collect, UNCHANGED <<stream, fed>>
    PROVE  ExtractorInv'
<1>1. ReaderTyped' /\ Start' = Start
  BY Collecting DEF ExtractorInv
<1>2. state = "header" /\ UNCHANGED <<state, longName, longNameData, openFile, dataRemaining, paddingRemaining,
                   zeroBlocks, done, tree, flushLost, failure, stream>>
  BY DEF Collect
<1>3. ParserTyped'
  BY <1>2 DEF ExtractorInv, ParserTyped
<1>4. PICK t, c : Described(t, c)
  BY DEF ExtractorInv, AsAWhole
<1>5. Ahead(c)' = Ahead(c) /\ Laid(t, c)' = Laid(t, c)
  BY <1>1, <1>2 DEF Ahead, Laid
<1>6. Described(t, c)'
  BY <1>2, <1>4, <1>5 DEF Described
<1>7. failure' = "format" => Reference(stream') = Refused
  BY <1>2 DEF ExtractorInv, AsAWhole
<1> QED
  BY <1>1, <1>3, <1>6, <1>7 DEF ExtractorInv, AsAWhole

LEMMA ZeroBlockKeeps ==
    ASSUME ExtractorInv, ZeroBlock, UNCHANGED <<stream, fed>>
    PROVE  ExtractorInv'
<1>0. /\ HeaderComplete /\ AllZero /\ ~done /\ state = "header"
      /\ zeroBlocks' = zeroBlocks + 1 /\ done' = (zeroBlocks' >= 2)
      /\ pending' = <<>> /\ data' = DataAfterHeader
      /\ UNCHANGED <<state, longName, longNameData, openFile, dataRemaining, paddingRemaining,
                     tree, flushLost, failure>>
  BY DEF ZeroBlock, HeaderComplete
<1>1. /\ ReaderTyped' /\ Start' = Start + TarBlock
  BY <1>0, Completed DEF ExtractorInv
<1>2. /\ Start \in Nat /\ Start + TarBlock <= Len(stream) /\ Readable(stream)
      /\ SubSeq(stream, Start + 1, Start + TarBlock) = Zeros(TarBlock)
  BY <1>0, Complete DEF ExtractorInv, AllZero, ReaderTyped
<1>3. zeroBlocks \in {0, 1}
  BY <1>0 DEF ExtractorInv, ParserTyped
<1>4. ParserTyped'
  <2>1. done' <=> zeroBlocks' >= 2
    BY <1>0, Zenon
  <2>2. zeroBlocks' \in 0..2 /\ (done' <=> zeroBlocks' = 2)
    BY <1>0, <1>3, <2>1
  <2> QED
    BY <1>0, <2>2, ReadableEmpty DEF ExtractorInv, ParserTyped
<1>5. PICK t, c : Described(t, c)
  BY DEF ExtractorInv, AsAWhole
<1>6. Ahead(c)' = Ahead(c)
  <2>1. CASE zeroBlocks = 0
    <3>1. Ahead(c) = Continued(stream, longName, Start)
      BY <1>0, <2>1 DEF Ahead
    <3>2. Ahead(c)' = AfterZero(stream, longName, Start + TarBlock)
      BY <1>0, <1>1, <2>1 DEF Ahead
    <3> QED
      BY <1>2, <3>1, <3>2, ZeroFirst
  <2>2. CASE zeroBlocks = 1
    <3>1. Ahead(c) = AfterZero(stream, longName, Start)
      BY <1>0, <2>2 DEF Ahead
    <3>2. Ahead(c)' = AfterZeros(stream, longName, Start + TarBlock)
      BY <1>0, <1>1, <2>2 DEF Ahead
    <3> QED
      BY <1>2, <3>1, <3>2, ZeroSecond
  <2> QED
    BY <1>3, <2>1, <2>2
<1>7. Laid(t, c)' = Laid(t, c)
  BY <1>0 DEF Laid
<1>8. Described(t, c)'
  BY <1>0, <1>5, <1>6, <1>7 DEF Described
<1>9. failure' = "format" => Reference(stream') = Refused
  BY <1>0 DEF ExtractorInv, AsAWhole
<1> QED
  BY <1>1, <1>4, <1>8, <1>9 DEF ExtractorInv, AsAWhole

LEMMA LongNameEntryKeeps ==
    ASSUME ExtractorInv, LongNameEntry, UNCHANGED <<stream, fed>>
    PROVE  ExtractorInv'
<1>0. /\ HeaderComplete /\ IsHeader /\ zeroBlocks = 0 /\ EntryHeader.type = "L" /\ LongNameValid
      /\ ~done /\ state = "header"
      /\ longNameData' = <<>> /\ dataRemaining' = EntrySize /\ paddingRemaining' = Padded(EntrySize)
      /\ state' = "long_name_data" /\ pending' = <<>> /\ data' = DataAfterHeader
      /\ UNCHANGED <<longName, openFile, zeroBlocks, done, tree, flushLost, failure>>
  BY DEF LongNameEntry, HeaderComplete
<1>1. /\ ReaderTyped' /\ Position' = Start + TarBlock
  BY <1>0, Completed DEF ExtractorInv
<1>2. /\ Start \in Nat /\ Start + TarBlock <= Len(stream) /\ Readable(stream)
      /\ SubSeq(stream, Start + 1, Start + TarBlock) = Block(HeaderAt(stream, Start))
      /\ stream[Start + 1].kind = "header" /\ SizeValid(HeaderAt(stream, Start).size)
      /\ EntryHeader = HeaderAt(stream, Start) /\ EntrySize = SizeAt(stream, Start)
  BY <1>0, Complete DEF ExtractorInv, IsHeader, EntryHeader, ReaderTyped
<1>3. longName = <<>> /\ EntrySize \in 1..LongNameLimit
  BY <1>0 DEF LongNameValid
<1>4. EntrySize \in Nat /\ EntrySize > 0 /\ Padded(EntrySize) \in 0..(TarBlock - 1)
  BY <1>3, PaddedFits, TarAssumption
<1>5. ParserTyped'
  BY <1>0, <1>3, <1>4, ReadableEmpty DEF ExtractorInv, ParserTyped
<1>6. PICK t, c : Described(t, c)
  BY DEF ExtractorInv, AsAWhole
<1>7. Ahead(c)' = Ahead(c)
  <2>1. Ahead(c) = Continued(stream, <<>>, Start)
    BY <1>0, <1>3 DEF Ahead
  <2>2. Ahead(c)' = InName(stream, <<>>, Start + TarBlock, EntrySize, Padded(EntrySize))
    BY <1>0, <1>1 DEF Ahead
  <2>3. Continued(stream, <<>>, Start)
          = InName(stream, <<>>, Start + TarBlock, SizeAt(stream, Start), Padded(SizeAt(stream, Start)))
    BY <1>0, <1>2, <1>3, LongNameThere
  <2> QED
    BY <1>2, <2>1, <2>2, <2>3
<1>8. Laid(t, c)' = Laid(t, c)
  BY <1>0 DEF Laid
<1>9. Described(t, c)'
  BY <1>0, <1>6, <1>7, <1>8 DEF Described
<1>10. failure' = "format" => Reference(stream') = Refused
  BY <1>0 DEF ExtractorInv, AsAWhole
<1> QED
  BY <1>1, <1>5, <1>9, <1>10 DEF ExtractorInv, AsAWhole

LEMMA DirectoryEntryKeeps ==
    ASSUME ExtractorInv, DirectoryEntry, UNCHANGED <<stream, fed>>
    PROVE  ExtractorInv'
<1>0. /\ HeaderComplete /\ IsHeader /\ zeroBlocks = 0 /\ EntryHeader.type = "5" /\ EntrySize = 0
      /\ ~Unsafe(StoredPath) /\ state = "header"
      /\ tree' = WithDirectories(EntryPath) /\ longName' = <<>>
      /\ pending' = <<>> /\ data' = DataAfterHeader
      /\ UNCHANGED <<state, longNameData, openFile, dataRemaining, paddingRemaining, zeroBlocks,
                     done, flushLost, failure>>
  BY DEF DirectoryEntry, HeaderComplete
<1>1. /\ ReaderTyped' /\ Start' = Start + TarBlock
  BY <1>0, Completed DEF ExtractorInv
<1>2. /\ Start \in Nat /\ Start + TarBlock <= Len(stream) /\ Readable(stream)
      /\ SubSeq(stream, Start + 1, Start + TarBlock) = Block(HeaderAt(stream, Start))
      /\ stream[Start + 1].kind = "header" /\ SizeValid(HeaderAt(stream, Start).size)
      /\ EntryHeader = HeaderAt(stream, Start) /\ EntrySize = SizeAt(stream, Start)
  BY <1>0, Complete DEF ExtractorInv, IsHeader, EntryHeader, ReaderTyped
<1>3. StoredPath = IF longName # <<>> THEN longName ELSE NameOf(HeaderAt(stream, Start))
  BY <1>2 DEF StoredPath
<1>4. tree' = Over(Directories(EntryPath), tree)
  BY <1>0 DEF WithDirectories
<1>5. ParserTyped'
  <2>1. tree' = [p \in DOMAIN tree' |-> tree'[p]]
    BY <1>4, OverMap
  <2> QED
    BY <1>0, <2>1 DEF ExtractorInv, ParserTyped
<1>6. PICK t, c : Described(t, c)
  BY DEF ExtractorInv, AsAWhole
<1>a. PICK u : u = Over(Directories(EntryPath), t)
  OBVIOUS
<1>b. PICK stored : stored = StoredPath
  OBVIOUS
<1>7. Under(t, Ahead(c)) = Under(u, Ahead(c)')
  <2>1. Ahead(c) = Continued(stream, longName, Start)
    BY <1>0 DEF Ahead
  <2>2. Ahead(c)' = Continued(stream, <<>>, Start + TarBlock)
    BY <1>0, <1>1 DEF Ahead
  <2>3. Continued(stream, longName, Start)
          = Under(Directories(Components(stored)), Continued(stream, <<>>, Start + TarBlock))
    <3>1. HeaderAt(stream, Start).type = "5" /\ SizeAt(stream, Start) = 0 /\ ~Unsafe(stored)
          /\ (longName # <<>> => stored = longName)
          /\ (longName = <<>> => stored = NameOf(HeaderAt(stream, Start)))
      BY <1>0, <1>2, <1>3, <1>b
    <3>2. /\ Readable(stream) /\ Start \in Nat /\ Start + TarBlock <= Len(stream)
          /\ stream[Start + 1].kind = "header" /\ SizeValid(HeaderAt(stream, Start).size)
          /\ SubSeq(stream, Start + 1, Start + TarBlock) = Block(HeaderAt(stream, Start))
      BY <1>2
    <3> HIDE DEF Start
    <3> QED
      BY <3>1, <3>2, DirectoryThere
  <2>4. Ahead(c) = Under(Directories(EntryPath), Ahead(c)')
    BY <1>b, <2>1, <2>2, <2>3 DEF EntryPath
  <2> QED
    BY <1>a, <2>4, UnderUnder
<1>8. ~flushLost' => tree' = Laid(u, c)'
  BY <1>0, <1>4, <1>6, <1>a DEF Described, Laid
<1>9. Described(u, c)'
  BY <1>0, <1>6, <1>7, <1>8 DEF Described
<1>10. failure' = "format" => Reference(stream') = Refused
  BY <1>0 DEF ExtractorInv, AsAWhole
<1> QED
  BY <1>1, <1>5, <1>9, <1>10 DEF ExtractorInv, AsAWhole

LEMMA FileEntryKeeps ==
    ASSUME ExtractorInv, FileEntry, UNCHANGED <<stream, fed>>
    PROVE  ExtractorInv'
<1>0. /\ HeaderComplete /\ IsHeader /\ zeroBlocks = 0 /\ EntryHeader.type \in FileTypes
      /\ ~Unsafe(StoredPath) /\ state = "header"
      /\ tree' = Over(FileAt(EntryPath, <<>>), WithDirectories(Front(EntryPath))) /\ longName' = <<>>
      /\ \/ EntrySize = 0 /\ UNCHANGED <<state, openFile, dataRemaining, paddingRemaining>>
         \/ /\ EntrySize # 0
            /\ state' = "file_data" /\ openFile' = EntryPath
            /\ dataRemaining' = EntrySize /\ paddingRemaining' = Padded(EntrySize)
      /\ pending' = <<>> /\ data' = DataAfterHeader
      /\ UNCHANGED <<longNameData, zeroBlocks, done, flushLost, failure>>
  BY DEF FileEntry, HeaderComplete
<1>1. /\ ReaderTyped' /\ Start' = Start + TarBlock /\ Position' = Start + TarBlock
  BY <1>0, Completed DEF ExtractorInv
<1>2. /\ Start \in Nat /\ Start + TarBlock <= Len(stream) /\ Readable(stream)
      /\ SubSeq(stream, Start + 1, Start + TarBlock) = Block(HeaderAt(stream, Start))
      /\ stream[Start + 1].kind = "header" /\ SizeValid(HeaderAt(stream, Start).size)
      /\ EntryHeader = HeaderAt(stream, Start) /\ EntrySize = SizeAt(stream, Start)
      /\ Spelled(HeaderAt(stream, Start).size)
  BY <1>0, Complete DEF ExtractorInv, IsHeader, EntryHeader, ReaderTyped
<1>3. StoredPath = IF longName # <<>> THEN longName ELSE NameOf(HeaderAt(stream, Start))
  BY <1>2 DEF StoredPath
<1>4. EntrySize \in Nat /\ Padded(EntrySize) \in 0..(TarBlock - 1)
  BY <1>2, ParseSizeNat, PaddedFits DEF SizeAt
<1>a. PICK dirs : dirs = Directories(Front(EntryPath))
  OBVIOUS
<1>b. PICK stored : stored = StoredPath
  OBVIOUS
<1>c. PICK path : path = EntryPath
  OBVIOUS
<1>5. tree' = Over(FileAt(EntryPath, <<>>), Over(dirs, tree))
  BY <1>0, <1>a DEF WithDirectories
<1>6. ParserTyped'
  <2>1. tree' = [p \in DOMAIN tree' |-> tree'[p]]
    BY <1>5, OverMap
  <2>2. ~done /\ zeroBlocks = 0
    BY <1>0 DEF HeaderComplete
  <2>3. CASE EntrySize = 0
    BY <1>0, <2>1, <2>2, <2>3 DEF ExtractorInv, ParserTyped
  <2>4. CASE EntrySize # 0
    BY <1>0, <1>4, <2>1, <2>2, <2>4 DEF ExtractorInv, ParserTyped
  <2> QED
    BY <2>3, <2>4
<1>7. PICK t, c : Described(t, c)
  BY DEF ExtractorInv, AsAWhole
<1>d. PICK u : u = Over(dirs, t)
  OBVIOUS
<1> DEFINE rest == InFile(stream, EntryPath, <<>>, Start + TarBlock, EntrySize, Padded(EntrySize))
<1>8. Under(t, Ahead(c)) = Under(u, rest)
  <2>1. Ahead(c) = Continued(stream, longName, Start)
    BY <1>0 DEF Ahead
  <2>2. Continued(stream, longName, Start)
          = Under(Directories(Front(Components(stored))),
                  InFile(stream, Components(stored), <<>>, Start + TarBlock, SizeAt(stream, Start),
                         Padded(SizeAt(stream, Start))))
    <3>1. HeaderAt(stream, Start).type \in FileTypes /\ SizeAt(stream, Start) \in Nat /\ ~Unsafe(stored)
          /\ (longName # <<>> => stored = longName)
          /\ (longName = <<>> => stored = NameOf(HeaderAt(stream, Start)))
      BY <1>0, <1>2, <1>3, <1>4, <1>b
    <3>2. /\ Readable(stream) /\ Start \in Nat /\ Start + TarBlock <= Len(stream)
          /\ stream[Start + 1].kind = "header" /\ SizeValid(HeaderAt(stream, Start).size)
          /\ SubSeq(stream, Start + 1, Start + TarBlock) = Block(HeaderAt(stream, Start))
      BY <1>2
    <3> HIDE DEF Start
    <3> QED
      BY <3>1, <3>2, FileThere
  <2>3. Ahead(c) = Under(dirs, rest)
    BY <1>2, <1>a, <1>b, <2>1, <2>2 DEF EntryPath
  <2> HIDE DEF rest
  <2> QED
    BY <1>d, <2>3, UnderUnder
<1>9. CASE EntrySize = 0
  <2>a. PICK v : v = Over(FileAt(EntryPath, <<>>), u)
    OBVIOUS
  <2>1. Start + TarBlock \in 0..Len(stream)
    BY <1>2, Block1, ReadableIs, PlainIs
  <2>2. Under(u, rest) = Under(v, Continued(stream, <<>>, Start + TarBlock))
    <3>1. Under(u, InFile(stream, EntryPath, <<>>, Start + TarBlock, 0, Padded(0)))
            = Under(Over(FileAt(EntryPath, <<>>), u), Continued(stream, <<>>, Start + TarBlock))
      BY <1>2, <2>1, EmptyFile
    <3> QED
      BY <1>9, <2>a, <3>1
  <2>3. Ahead(c)' = Continued(stream, <<>>, Start + TarBlock)
    BY <1>0, <1>1, <1>9 DEF Ahead
  <2>4. ~flushLost' => tree' = Laid(v, c)'
    BY <1>0, <1>5, <1>7, <1>9, <1>d, <2>a DEF Described, Laid
  <2>5. Described(v, c)'
    BY <1>0, <1>7, <1>8, <2>2, <2>3, <2>4 DEF Described
  <2>6. failure' = "format" => Reference(stream') = Refused
    BY <1>0 DEF ExtractorInv, AsAWhole
  <2> QED
    BY <1>1, <1>6, <2>5, <2>6 DEF ExtractorInv, AsAWhole
<1>10. CASE EntrySize # 0
  <2>1. Ahead(<<>>)' = rest
    BY <1>0, <1>1, <1>10 DEF Ahead
  <2>2. ~flushLost' => tree' = Laid(u, <<>>)'
    <3>1. Laid(u, <<>>)' = Over(FileAt(path, <<>>), u)
      BY <1>0, <1>10, <1>c DEF Laid
    <3>2. ~flushLost => tree = t
      BY <1>0, <1>7 DEF Described, Laid
    <3> QED
      BY <1>0, <1>5, <1>c, <1>d, <3>1, <3>2
  <2> HIDE DEF rest
  <2>3. Described(u, <<>>)'
    BY <1>0, <1>7, <1>8, <2>1, <2>2, ReadableEmpty DEF Described
  <2>4. failure' = "format" => Reference(stream') = Refused
    BY <1>0 DEF ExtractorInv, AsAWhole
  <2> QED
    BY <1>1, <1>6, <2>3, <2>4 DEF ExtractorInv, AsAWhole
<1> QED
  BY <1>9, <1>10

LEMMA HeaderRejectedKeeps ==
    ASSUME ExtractorInv, HeaderRejected, UNCHANGED <<stream, fed>>
    PROVE  ExtractorInv'
<1>0. HeaderComplete /\ ~HeaderAcceptable /\ ~done /\ state = "header"
      /\ UNCHANGED <<parserVars, data, tree, flushLost, stream, fed>>
  BY DEF HeaderRejected, HeaderComplete, Fail
<1>1. /\ Start \in Nat /\ Start + TarBlock <= Len(stream) /\ Readable(stream)
      /\ Collected = SubSeq(stream, Start + 1, Start + TarBlock)
      /\ Collected[1] = stream[Start + 1]
      /\ EntryHeader = HeaderAt(stream, Start) /\ EntrySize = SizeAt(stream, Start)
  BY <1>0, Complete DEF ExtractorInv, ReaderTyped
<1>2. SubSeq(stream, Start + 1, Start + TarBlock) # Zeros(TarBlock) /\ Start <= Len(stream)
  BY SMTT(30), <1>0, <1>1, Places DEF HeaderAcceptable, AllZero, ExtractorInv
<1>3. PICK t, c : Described(t, c)
  BY DEF ExtractorInv, AsAWhole
<1>4. zeroBlocks \in {0, 1}
  BY <1>0 DEF ExtractorInv, ParserTyped
<1>5. Ahead(c) = Refused
  <2>1. CASE zeroBlocks = 0
    <3>1. StoredPath = IF longName # <<>> THEN longName ELSE NameOf(HeaderAt(stream, Start))
      BY <1>1 DEF StoredPath
    <3>2. ~ /\ stream[Start + 1].kind = "header"
            /\ SubSeq(stream, Start + 1, Start + TarBlock) = Block(HeaderAt(stream, Start))
            /\ SizeValid(HeaderAt(stream, Start).size)
            /\ \/ /\ HeaderAt(stream, Start).type = "L"
                  /\ longName = <<>> /\ SizeAt(stream, Start) \in 1..LongNameLimit
               \/ HeaderAt(stream, Start).type = "5" /\ SizeAt(stream, Start) = 0 /\ ~Unsafe(StoredPath)
               \/ HeaderAt(stream, Start).type \in FileTypes /\ ~Unsafe(StoredPath)
      BY <1>0, <1>1, <2>1 DEF HeaderAcceptable, IsHeader, EntryHeader, LongNameValid
    <3>3. Continued(stream, longName, Start) = Refused
      BY <1>1, <1>2, <3>1, <3>2, NotAcceptable
    <3> QED
      BY <1>0, <2>1, <3>3 DEF Ahead
  <2>2. CASE zeroBlocks = 1
    <3>1. AfterZero(stream, longName, Start) = Refused
      BY <1>1, <1>2, NotZeroSecond
    <3> QED
      BY <1>0, <2>2, <3>1 DEF Ahead
  <2> QED
    BY <1>4, <2>1, <2>2
<1>6. Reference(stream) = Refused
  BY <1>3, <1>5, Under1 DEF Described
<1> QED
  BY <1>0, <1>6, NothingMoves

(* What is behind the data of a file or of a long name.                    *)
LEMMA AfterDataIs ==
    ASSUME ParserTyped
    PROVE  /\ AfterData \in {"header", "padding"}
           /\ AfterData = "header" => paddingRemaining = 0
           /\ AfterData = "padding" => paddingRemaining > 0
BY DEF ParserTyped, AfterData

LEMMA ChunkIs ==
    ASSUME ReaderTyped, ParserTyped
    PROVE  Chunk \in 0..Len(data) /\ Chunk \in 0..dataRemaining
<1>1. Len(data) \in Nat /\ dataRemaining \in Nat
  BY Places DEF ParserTyped
<1> QED
  BY <1>1 DEF Chunk

LEMMA WriteFileKeeps ==
    ASSUME ExtractorInv, WriteFile, UNCHANGED <<stream, fed>>
    PROVE  ExtractorInv'
<1>0. /\ state = "file_data" /\ ~done
      /\ dataRemaining' = dataRemaining - Chunk
      /\ data' = SubSeq(data, Chunk + 1, Len(data))
      /\ state' = IF dataRemaining = Chunk THEN AfterData ELSE state
      /\ UNCHANGED <<pending, longName, longNameData, openFile, paddingRemaining, zeroBlocks,
                   done, failure>>
  BY DEF WriteFile, DataAfterChunk
<1>1. \/ tree' = [tree EXCEPT ![openFile] = File(@.content \o SubSeq(data, 1, Chunk))] /\ UNCHANGED flushLost
      \/ flushLost' = TRUE /\ UNCHANGED tree
  BY DEF WriteFile
<1>2. ReaderTyped /\ ParserTyped /\ AsAWhole /\ pending = <<>> /\ zeroBlocks = 0 /\ longName = <<>>
  BY <1>0, BehindHeader DEF ExtractorInv, ParserTyped
<1>3. Chunk \in 0..Len(data) /\ Chunk \in 0..dataRemaining
  BY <1>2, ChunkIs
<1>4. ReaderTyped' /\ Position' = Position + Chunk /\ Start' = Position + Chunk
  BY <1>0, <1>2, <1>3, Consumed
<1>5. /\ Position \in Nat /\ Position + Chunk \in Nat /\ Position + Chunk <= Len(stream) /\ Readable(stream)
      /\ SubSeq(data, 1, Chunk) = SubSeq(stream, Position + 1, Position + Chunk)
      /\ Plain(SubSeq(data, 1, Chunk))
  BY <1>2, <1>3, Taken, Places DEF ReaderTyped
<1>6. /\ dataRemaining \in Nat /\ dataRemaining > 0 /\ paddingRemaining \in Nat
      /\ paddingRemaining \in 0..(TarBlock - 1)
  BY <1>0, <1>2, Block1 DEF ParserTyped
<1>7. tree' = [p \in DOMAIN tree' |-> tree'[p]]
  <2>1. tree = [p \in DOMAIN tree |-> tree[p]]
    BY <1>2 DEF ParserTyped
  <2> QED
    BY <1>1, <2>1
<1>8. ParserTyped'
  <2>1. CASE dataRemaining = Chunk
    BY <1>0, <1>2, <1>6, <1>7, <2>1, AfterDataIs DEF ParserTyped
  <2>2. CASE dataRemaining # Chunk
    BY <1>0, <1>2, <1>3, <1>6, <1>7, <2>2 DEF ParserTyped
  <2> QED
    BY <2>1, <2>2
<1>9. PICK t, c : Described(t, c)
  BY <1>2 DEF AsAWhole
<1>10. PICK d : d = c \o SubSeq(data, 1, Chunk)
  OBVIOUS
<1>11. Plain(c) /\ Plain(d)
  BY <1>5, <1>9, <1>10, Join DEF Described
<1>12. PICK path : path = openFile
  OBVIOUS
<1>13. ~flushLost' => tree' = Over(FileAt(path, d), t)
  <2> SUFFICES ASSUME ~flushLost' PROVE tree' = Over(FileAt(path, d), t)
    OBVIOUS
  <2>1. ~flushLost /\ tree' = [tree EXCEPT ![path] = File(@.content \o SubSeq(data, 1, Chunk))]
    <3>1. CASE flushLost' = TRUE /\ UNCHANGED tree
      BY <3>1, Zenon
    <3>2. CASE tree' = [tree EXCEPT ![openFile] = File(@.content \o SubSeq(data, 1, Chunk))] /\ UNCHANGED flushLost
      <4>1. ~flushLost
        BY <3>2, Zenon
      <4> QED
        BY <1>12, <3>2, <4>1
    <3> QED
      BY <1>1, <3>1, <3>2, Zenon
  <2>2. tree = Over(FileAt(path, c), t)
    BY <1>0, <1>9, <1>12, <2>1 DEF Described, Laid
  <2> DEFINE x == SubSeq(data, 1, Chunk)
             b == Over(FileAt(path, c), t)
             a == Over(FileAt(path, d), t)
  <2>3. b[path] = File(c) /\ path \in DOMAIN b
    BY DEF Over, FileAt
  <2>4. DOMAIN a = DOMAIN b /\ a[path] = File(d) /\ \A p \in DOMAIN b : p # path => a[p] = b[p]
    BY DEF Over, FileAt
  <2>5. a = [p \in DOMAIN a |-> a[p]] /\ b = [p \in DOMAIN b |-> b[p]]
    BY OverMap
  <2> HIDE DEF a, b, x
  <2>6. tree' = [b EXCEPT ![path] = File(@.content \o x)]
    BY <2>1, <2>2 DEF b, x
  <2>7. b[path].content \o x = d
    <3>1. File(c).content = c
      BY DEF File
    <3> QED
      BY <1>10, <2>3, <3>1 DEF x
  <2>8. tree' = [b EXCEPT ![path] = File(d)]
    BY <2>6, <2>7
  <2>9. tree' = a
    BY <2>3, <2>4, <2>5, <2>8
  <2> QED
    BY <2>9 DEF a
<1>14. InFile(stream, path, c, Position, dataRemaining, paddingRemaining)
         = InFile(stream, path, d, Position + Chunk, dataRemaining - Chunk, paddingRemaining)
  <2>1. dataRemaining \in Nat /\ paddingRemaining \in Nat /\ Chunk \in 0..dataRemaining /\ Plain(c)
        /\ Position \in Nat /\ Position + Chunk <= Len(stream) /\ Readable(stream)
    BY <1>3, <1>5, <1>6, <1>11
  <2>2. d = Onto(c, stream, Position, Position + Chunk)
    BY <1>5, <1>10 DEF Onto
  <2>3. Agree(InFile(stream, path, c, Position, dataRemaining, paddingRemaining),
              InFile(stream, path, Onto(c, stream, Position, Position + Chunk), Position + Chunk,
                     dataRemaining - Chunk, paddingRemaining))
    BY <2>1, FileMoves
  <2> QED
    BY <2>2, <2>3 DEF Agree
<1>15. Reference(stream)
         = Under(t, InFile(stream, path, d, Position + Chunk, dataRemaining - Chunk, paddingRemaining))
  BY <1>0, <1>9, <1>12, <1>14 DEF Described, Ahead
<1>16. failure' = "format" => Reference(stream') = Refused
  BY <1>0, <1>2 DEF AsAWhole
<1>17. CASE dataRemaining # Chunk
  <2>1. Ahead(d)' = InFile(stream, path, d, Position + Chunk, dataRemaining - Chunk, paddingRemaining)
    BY <1>0, <1>4, <1>12, <1>17 DEF Ahead
  <2>2. ~flushLost' => tree' = Laid(t, d)'
    BY <1>0, <1>12, <1>13, <1>17 DEF Laid
  <2>3. Described(t, d)'
    BY <1>11, <1>15, <2>1, <2>2 DEF Described
  <2> QED
    BY <1>4, <1>8, <1>16, <2>3 DEF ExtractorInv, AsAWhole
<1>18. CASE dataRemaining = Chunk
  <2>1. PICK u : u = Over(FileAt(path, d), t)
    OBVIOUS
  <2>2. dataRemaining - Chunk = 0
    BY <1>6, <1>18
  <2>3. Reference(stream) = Under(u, InPadding(stream, <<>>, Position + Chunk, paddingRemaining))
    BY <1>5, <1>6, <1>11, <1>15, <2>1, <2>2, FileEnds
  <2>4. Ahead(d)' = InPadding(stream, <<>>, Position + Chunk, paddingRemaining)
    <3>1. CASE AfterData = "header"
      <4>1. paddingRemaining = 0
        BY <1>2, <3>1, AfterDataIs
      <4>2. Ahead(d)' = Continued(stream, <<>>, Position + Chunk)
        BY <1>0, <1>2, <1>4, <1>18, <3>1 DEF Ahead
      <4>3. InPadding(stream, <<>>, Position + Chunk, 0) = Continued(stream, <<>>, Position + Chunk)
        BY <1>5, PaddingNone
      <4> QED
        BY <4>1, <4>2, <4>3
    <3>2. CASE AfterData = "padding"
      BY <1>0, <1>2, <1>4, <1>18, <3>2 DEF Ahead
    <3> QED
      BY <1>2, <3>1, <3>2, AfterDataIs
  <2>5. ~flushLost' => tree' = Laid(u, d)'
    <3>1. state' # "file_data"
      BY <1>0, <1>2, <1>18, AfterDataIs
    <3> QED
      BY <1>13, <2>1, <3>1 DEF Laid
  <2>6. Described(u, d)'
    BY <1>11, <2>3, <2>4, <2>5 DEF Described
  <2> QED
    BY <1>4, <1>8, <1>16, <2>6 DEF ExtractorInv, AsAWhole
<1> QED
  BY <1>17, <1>18

(* Data behind a whole long name: what is then ahead.                      *)
LEMMA TakeNameKeeps ==
    ASSUME ExtractorInv, TakeName, UNCHANGED <<stream, fed>>
    PROVE  ExtractorInv'
<1>0. /\ state = "long_name_data" /\ ~done
      /\ longNameData' = longNameData \o SubSeq(data, 1, Chunk)
      /\ dataRemaining' = dataRemaining - Chunk
      /\ data' = SubSeq(data, Chunk + 1, Len(data))
      /\ \/ /\ dataRemaining = Chunk
            /\ longName' = TextOf(longNameData') /\ longName' # <<>>
            /\ state' = AfterData
         \/ dataRemaining # Chunk /\ UNCHANGED <<longName, state>>
      /\ UNCHANGED <<pending, openFile, paddingRemaining, zeroBlocks, done, tree, flushLost, failure>>
  BY DEF TakeName, DataAfterChunk
<1>2. ReaderTyped /\ ParserTyped /\ AsAWhole /\ pending = <<>> /\ zeroBlocks = 0
  BY <1>0, BehindHeader DEF ExtractorInv
<1>3. Chunk \in 0..Len(data) /\ Chunk \in 0..dataRemaining
  BY <1>2, ChunkIs
<1>4. ReaderTyped' /\ Position' = Position + Chunk /\ Start' = Position + Chunk
  BY <1>0, <1>2, <1>3, Consumed
<1>5. /\ Position \in Nat /\ Position + Chunk \in Nat /\ Position + Chunk <= Len(stream) /\ Readable(stream)
      /\ SubSeq(data, 1, Chunk) = SubSeq(stream, Position + 1, Position + Chunk)
      /\ Plain(SubSeq(data, 1, Chunk)) /\ Plain(longNameData)
  BY <1>2, <1>3, Taken, Places DEF ReaderTyped, ParserTyped
<1>6. /\ dataRemaining \in Nat /\ dataRemaining > 0 /\ paddingRemaining \in Nat
      /\ paddingRemaining \in 0..(TarBlock - 1)
  BY <1>0, <1>2, Block1 DEF ParserTyped
<1>7. Plain(longNameData')
  BY <1>0, <1>5, Join
<1>8. ParserTyped'
  <2>1. CASE dataRemaining = Chunk
    <3>1. dataRemaining' = 0 /\ state' = AfterData
      BY <1>0, <1>6, <2>1
    <3>2. state' \in {"header", "padding"} /\ (state' = "padding" => paddingRemaining > 0)
      BY <1>2, <3>1, AfterDataIs
    <3> QED
      BY <1>0, <1>2, <1>6, <1>7, <3>1, <3>2 DEF ParserTyped
  <2>2. CASE dataRemaining # Chunk
    BY <1>0, <1>2, <1>3, <1>6, <1>7, <2>2 DEF ParserTyped
  <2> QED
    BY <2>1, <2>2
<1>9. PICK t, c : Described(t, c)
  BY <1>2 DEF AsAWhole
<1>10. PICK name : name = longNameData'
  OBVIOUS
<1>14. InName(stream, longNameData, Position, dataRemaining, paddingRemaining)
         = InName(stream, name, Position + Chunk, dataRemaining - Chunk, paddingRemaining)
  <2>1. dataRemaining \in Nat /\ paddingRemaining \in Nat /\ Chunk \in 0..dataRemaining /\ Plain(longNameData)
        /\ Position \in Nat /\ Position + Chunk <= Len(stream) /\ Readable(stream)
    BY <1>3, <1>5, <1>6
  <2>2. name = Onto(longNameData, stream, Position, Position + Chunk)
    BY <1>0, <1>5, <1>10 DEF Onto
  <2>3. Agree(InName(stream, longNameData, Position, dataRemaining, paddingRemaining),
              InName(stream, Onto(longNameData, stream, Position, Position + Chunk), Position + Chunk,
                     dataRemaining - Chunk, paddingRemaining))
    BY <2>1, NameMoves
  <2> QED
    BY <2>2, <2>3 DEF Agree
<1>15. Ahead(c) = InName(stream, name, Position + Chunk, dataRemaining - Chunk, paddingRemaining)
  BY <1>0, <1>14 DEF Ahead
<1>16. Ahead(c)' = Ahead(c)
  <2>1. CASE dataRemaining # Chunk
    BY <1>0, <1>4, <1>10, <1>15, <2>1 DEF Ahead
  <2>2. CASE dataRemaining = Chunk
    <3>1. dataRemaining - Chunk = 0 /\ TextOf(name) # <<>> /\ longName' = TextOf(name) /\ Plain(name)
          /\ state' = AfterData
      BY <1>0, <1>6, <1>7, <1>10, <2>2
    <3>2. InName(stream, name, Position + Chunk, 0, paddingRemaining)
            = IF TextOf(name) = <<>> THEN Refused
              ELSE InPadding(stream, TextOf(name), Position + Chunk, paddingRemaining)
      BY <1>5, <1>6, <3>1, NameEnds
    <3>3. Ahead(c) = InPadding(stream, longName', Position + Chunk, paddingRemaining)
      BY <1>15, <3>1, <3>2
    <3>4. CASE AfterData = "header"
      <4>1. paddingRemaining = 0
        BY <1>2, <3>4, AfterDataIs
      <4>2. Ahead(c)' = Continued(stream, longName', Position + Chunk)
        BY <1>0, <1>2, <1>4, <3>1, <3>4 DEF Ahead
      <4>3. InPadding(stream, TextOf(name), Position + Chunk, 0)
              = Continued(stream, TextOf(name), Position + Chunk)
        BY <1>5, PaddingNone
      <4> QED
        BY <3>1, <3>3, <4>1, <4>2, <4>3
    <3>5. CASE AfterData = "padding"
      BY <1>0, <1>4, <3>1, <3>3, <3>5 DEF Ahead
    <3> QED
      BY <1>2, <3>4, <3>5, AfterDataIs
  <2> QED
    BY <2>1, <2>2
<1>17. Laid(t, c) = t /\ Laid(t, c)' = t
  <2>1. state' # "file_data"
    BY <1>0, <1>2, AfterDataIs
  <2> QED
    BY <1>0, <2>1 DEF Laid
<1>18. Described(t, c)'
  BY <1>0, <1>9, <1>16, <1>17 DEF Described
<1>19. failure' = "format" => Reference(stream') = Refused
  BY <1>0, <1>2 DEF AsAWhole
<1> QED
  BY <1>4, <1>8, <1>18, <1>19 DEF ExtractorInv, AsAWhole

LEMMA NameRejectedKeeps ==
    ASSUME ExtractorInv, NameRejected, UNCHANGED <<stream, fed>>
    PROVE  ExtractorInv'
<1>0. /\ state = "long_name_data" /\ dataRemaining = Chunk
      /\ TextOf(longNameData \o SubSeq(data, 1, Chunk)) = <<>>
      /\ UNCHANGED <<parserVars, data, tree, flushLost, stream, fed>>
  BY DEF NameRejected, Fail
<1>2. ReaderTyped /\ ParserTyped /\ AsAWhole
  BY DEF ExtractorInv
<1>3. Chunk \in 0..Len(data) /\ Chunk \in 0..dataRemaining
  BY <1>2, ChunkIs
<1>5. /\ Position \in Nat /\ Position + Chunk \in Nat /\ Position + Chunk <= Len(stream) /\ Readable(stream)
      /\ SubSeq(data, 1, Chunk) = SubSeq(stream, Position + 1, Position + Chunk)
      /\ Plain(SubSeq(data, 1, Chunk)) /\ Plain(longNameData)
  BY <1>2, <1>3, Taken, Places DEF ReaderTyped, ParserTyped
<1>6. dataRemaining \in Nat /\ paddingRemaining \in Nat /\ dataRemaining - Chunk = 0
  BY <1>0, <1>2, Block1 DEF ParserTyped
<1>7. PICK name : name = longNameData \o SubSeq(data, 1, Chunk)
  OBVIOUS
<1>8. Plain(name) /\ TextOf(name) = <<>>
  BY <1>0, <1>5, <1>7, Join
<1>9. Agree(InName(stream, longNameData, Position, dataRemaining, paddingRemaining),
            InName(stream, Onto(longNameData, stream, Position, Position + Chunk), Position + Chunk,
                   dataRemaining - Chunk, paddingRemaining))
  BY <1>3, <1>5, <1>6, NameMoves
<1>10. name = Onto(longNameData, stream, Position, Position + Chunk)
  BY <1>5, <1>7 DEF Onto
<1>11. InName(stream, name, Position + Chunk, 0, paddingRemaining) = Refused
  BY <1>5, <1>6, <1>8, NameEnds
<1>12. PICK t, c : Described(t, c)
  BY <1>2 DEF AsAWhole
<1>13. Ahead(c) = Refused
  <2>1. InName(stream, longNameData, Position, dataRemaining, paddingRemaining) = Refused
    BY <1>6, <1>9, <1>10, <1>11 DEF Agree
  <2> QED
    BY <1>0, <2>1 DEF Ahead
<1>14. Reference(stream) = Refused
  BY <1>12, <1>13, Under1 DEF Described
<1> QED
  BY <1>0, <1>14, NothingMoves

LEMMA SkipPaddingKeeps ==
    ASSUME ExtractorInv, SkipPadding, UNCHANGED <<stream, fed>>
    PROVE  ExtractorInv'
<1> DEFINE chunk == IF Len(data) < paddingRemaining THEN Len(data) ELSE paddingRemaining
<1>0. /\ state = "padding" /\ ~done
      /\ paddingRemaining' = paddingRemaining - chunk
      /\ data' = SubSeq(data, chunk + 1, Len(data))
      /\ state' = IF chunk = paddingRemaining THEN "header" ELSE state
      /\ UNCHANGED <<pending, longName, longNameData, openFile, dataRemaining, zeroBlocks, done,
                     tree, flushLost, failure>>
  BY DEF SkipPadding
<1>2. ReaderTyped /\ ParserTyped /\ AsAWhole /\ pending = <<>> /\ zeroBlocks = 0
  BY <1>0, BehindHeader DEF ExtractorInv
<1>3. paddingRemaining \in 0..(TarBlock - 1) /\ paddingRemaining \in Nat /\ dataRemaining = 0
      /\ Len(data) \in Nat
  BY <1>0, <1>2, Places, Block1 DEF ParserTyped
<1>4. chunk \in 0..Len(data) /\ chunk \in 0..paddingRemaining
  BY <1>3
<1> HIDE DEF chunk
<1>5. ReaderTyped' /\ Position' = Position + chunk /\ Start' = Position + chunk
  BY <1>0, <1>2, <1>4, Consumed
<1>6. Position \in Nat /\ Position + chunk \in Nat /\ Position + chunk <= Len(stream) /\ Readable(stream)
  BY <1>2, <1>4, Taken, Places DEF ReaderTyped
<1>7. /\ paddingRemaining' \in 0..(TarBlock - 1)
      /\ chunk # paddingRemaining => paddingRemaining' > 0
      /\ chunk = paddingRemaining => paddingRemaining' = 0
  BY <1>0, <1>3, <1>4, Block1
<1>8. ParserTyped'
  <2>1. CASE chunk = paddingRemaining
    BY <1>0, <1>2, <1>3, <1>7, <2>1 DEF ParserTyped
  <2>2. CASE chunk # paddingRemaining
    BY <1>0, <1>2, <1>3, <1>7, <2>2 DEF ParserTyped
  <2> QED
    BY <2>1, <2>2
<1>9. PICK t, c : Described(t, c)
  BY <1>2 DEF AsAWhole
<1>10. Ahead(c) = InPadding(stream, longName, Position + chunk, paddingRemaining - chunk)
  <2>1. Agree(InPadding(stream, longName, Position, paddingRemaining),
              InPadding(stream, longName, Position + chunk, paddingRemaining - chunk))
    BY <1>3, <1>4, <1>6, PaddingMoves
  <2>2. Ahead(c) = InPadding(stream, longName, Position, paddingRemaining)
    BY <1>0 DEF Ahead
  <2> QED
    BY <2>1, <2>2 DEF Agree
<1>11. Ahead(c)' = Ahead(c)
  <2>1. CASE chunk # paddingRemaining
    BY <1>0, <1>5, <1>10, <2>1 DEF Ahead
  <2>2. CASE chunk = paddingRemaining
    <3>1. paddingRemaining - chunk = 0
      BY <1>3, <2>2
    <3>2. Ahead(c)' = Continued(stream, longName, Position + chunk)
      BY <1>0, <1>2, <1>5, <2>2 DEF Ahead
    <3>3. InPadding(stream, longName, Position + chunk, 0) = Continued(stream, longName, Position + chunk)
      BY <1>6, PaddingNone
    <3> QED
      BY <1>10, <3>1, <3>2, <3>3
  <2> QED
    BY <2>1, <2>2
<1>12. Laid(t, c) = t /\ Laid(t, c)' = t
  BY <1>0 DEF Laid
<1>13. Described(t, c)'
  BY <1>0, <1>9, <1>11, <1>12 DEF Described
<1>14. failure' = "format" => Reference(stream') = Refused
  BY <1>0, <1>2 DEF AsAWhole
<1> QED
  BY <1>5, <1>8, <1>13, <1>14 DEF ExtractorInv, AsAWhole

LEMMA PastTheEndKeeps ==
    ASSUME ExtractorInv, PastTheEnd, UNCHANGED <<stream, fed>>
    PROVE  ExtractorInv'
<1>0. data # <<>> /\ done /\ UNCHANGED <<parserVars, data, tree, flushLost, stream, fed>>
  BY DEF PastTheEnd, Feeding, Fail
<1>1. ReaderTyped /\ ParserTyped /\ AsAWhole
  BY DEF ExtractorInv
<1>2. zeroBlocks = 2 /\ state = "header"
  BY <1>0, <1>1 DEF ParserTyped
<1>3. Len(data) > 0
  <2>1. Len(data) = 0 => data = <<>>
    <3>1. Len(data) = 0 => \A i \in 1..Len(data) : FALSE
      OBVIOUS
    <3> QED
      BY <1>1, <3>1, SamePlain, ReadableEmpty DEF ReaderTyped
  <2> QED
    BY <1>0, <1>1, <2>1, Places
<1>4. Start # Len(stream)
  BY <1>1, <1>3, Places
<1>5. PICK t, c : Described(t, c)
  BY <1>1 DEF AsAWhole
<1>6. Ahead(c) = Refused
  BY <1>2, <1>4 DEF Ahead, AfterZeros
<1>7. Reference(stream) = Refused
  BY <1>5, <1>6, Under1 DEF Described
<1> QED
  BY <1>0, <1>7, NothingMoves

(* One turn of the loop of feed.                                           *)
LEMMA FeedStepKeeps ==
    ASSUME ExtractorInv, FeedStep, UNCHANGED <<stream, fed>>
    PROVE  ExtractorInv'
<1>1. CASE MakeThrows \/ WriteThrows
  <2>1. failure' = "io" /\ UNCHANGED <<parserVars, data, tree, flushLost, stream, fed>>
    BY <1>1 DEF MakeThrows, WriteThrows, Fail
  <2> QED
    BY <2>1, NothingMoves
<1> QED
  BY <1>1, CollectKeeps, ZeroBlockKeeps, LongNameEntryKeeps, DirectoryEntryKeeps, FileEntryKeeps,
     HeaderRejectedKeeps, WriteFileKeeps, TakeNameKeeps, NameRejectedKeeps, SkipPaddingKeeps, PastTheEndKeeps
     DEF FeedStep

-----------------------------------------------------------------------------
(* The archive                                                             *)

IsFresh == ExtractorInit /\ fed = 0 /\ Readable(stream)

LEMMA Fresh == IsFresh => ExtractorInv
<1> SUFFICES ASSUME ExtractorInit, fed = 0, Readable(stream) PROVE ExtractorInv
  BY DEF IsFresh
<1>1. /\ state = "header" /\ pending = <<>> /\ longName = <<>> /\ longNameData = <<>>
      /\ dataRemaining = 0 /\ paddingRemaining = 0 /\ zeroBlocks = 0 /\ ~done /\ data = <<>>
      /\ tree = EmptyRoot /\ failure = "none"
  BY DEF ExtractorInit
<1>2. Position = 0 /\ Start = 0
  <2>1. Len(data) = 0 /\ Len(pending) = 0
    BY <1>1, ReadableEmpty
  <2>2. Position = 0
    BY <2>1 DEF Position
  <2> QED
    BY <2>1, <2>2 DEF Start
<1>3. Len(stream) \in Nat /\ Plain(stream) /\ TarBlock \in Nat /\ TarBlock >= 1
  BY ReadableIs, PlainIs, Block1
<1>4. ReaderTyped
  <2>1. PICK at : at = 0
    OBVIOUS
  <2>2. SubSeq(stream, at + 1, at) = <<>>
    BY <1>3, <2>1, EmptyPiece
  <2>3. pending = SubSeq(stream, Start + 1, Position) /\ data = SubSeq(stream, Position + 1, fed)
    BY <1>1, <1>2, <2>1, <2>2
  <2> QED
    BY <1>1, <1>2, <1>3, <2>3, ReadableEmpty DEF ReaderTyped
<1>5. ParserTyped
  <2>1. tree = [p \in DOMAIN tree |-> tree[p]]
    BY <1>1 DEF EmptyRoot
  <2> QED
    BY <1>1, <1>3, <2>1, ReadableEmpty DEF ParserTyped
<1>6. Reference(stream) = Under(EmptyRoot, Continued(stream, <<>>, Start))
  <2>1. 0 \in 0..Len(stream)
    BY <1>3
  <2>2. Made(stream)[0] = Continued(stream, <<>>, 0)
    BY <2>1, ContinuedIs
  <2> QED
    BY <1>2, <2>2, ReferenceIs
<1>7. Ahead(<<>>) = Continued(stream, <<>>, Start) /\ Laid(EmptyRoot, <<>>) = EmptyRoot
  BY <1>1 DEF Ahead, Laid
<1>8. Described(EmptyRoot, <<>>)
  BY <1>1, <1>6, <1>7, ReadableEmpty DEF Described
<1> QED
  BY <1>1, <1>4, <1>5, <1>8 DEF ExtractorInv, AsAWhole

LEMMA FreshNext == IsFresh' => ExtractorInv'
BY Fresh, PTL

LEMMA FeedKeeps ==
    ASSUME ExtractorInv, Feed
    PROVE  ExtractorInv'
<1>1. ReaderTyped' /\ Position' = Position /\ Start' = Start
  BY Fed DEF ExtractorInv
<1>2. UNCHANGED <<parserVars, tree, flushLost, failure, stream>>
  BY DEF Feed
<1>3. ParserTyped'
  BY <1>2 DEF ExtractorInv, ParserTyped, parserVars
<1>4. PICK t, c : Described(t, c)
  BY DEF ExtractorInv, AsAWhole
<1>5. Ahead(c)' = Ahead(c) /\ Laid(t, c)' = Laid(t, c)
  BY <1>1, <1>2 DEF Ahead, Laid, parserVars
<1>6. Described(t, c)'
  BY <1>2, <1>4, <1>5 DEF Described
<1>7. failure' = "format" => Reference(stream') = Refused
  BY <1>2 DEF ExtractorInv, AsAWhole
<1> QED
  BY <1>1, <1>3, <1>6, <1>7 DEF ExtractorInv, AsAWhole

(* What finish refuses would be refused as a whole.                        *)
LEMMA FinishThrowsKeeps ==
    ASSUME ExtractorInv, FinishThrows
    PROVE  ExtractorInv'
<1>0. /\ AllFed /\ ~FinishAccepts
      /\ UNCHANGED <<parserVars, data, tree, flushLost, stream, fed>>
  BY DEF FinishThrows, Fail
<1>1. ReaderTyped /\ ParserTyped /\ AsAWhole
  BY DEF ExtractorInv
<1>2. PICK t, c : Described(t, c)
  BY <1>1 DEF AsAWhole
<1>3. /\ Position = Len(stream) /\ Len(stream) \in Nat /\ Len(pending) \in Nat
      /\ Start \in Nat /\ Start + Len(pending) = Position /\ Readable(stream) /\ Start <= Len(stream)
      /\ Len(pending) < TarBlock /\ TarBlock \in Nat
  <2>1. Len(data) = 0 /\ fed = Len(stream)
    BY <1>0, ReadableEmpty DEF AllFed
  <2>2. /\ Position \in Nat /\ Start \in Nat /\ Len(pending) \in Nat /\ Len(stream) \in Nat
        /\ Start + Len(pending) = Position
    BY <1>1, Places
  <2>3. Position = Len(stream)
    BY <2>1, <2>2 DEF Position
  <2>4. Readable(stream) /\ Len(pending) < TarBlock /\ TarBlock \in Nat
    BY <1>1, Block1 DEF ReaderTyped
  <2> QED
    BY <2>2, <2>3, <2>4
<1>4. dataRemaining \in Nat /\ paddingRemaining \in Nat
  BY <1>1, Block1 DEF ParserTyped
<1>5. Ahead(c) = Refused
  <2>1. CASE state = "file_data"
    <3>1. dataRemaining > 0
      BY <1>1, <2>1 DEF ParserTyped
    <3>2. ~(Position + dataRemaining + paddingRemaining <= Len(stream))
      BY <1>3, <1>4, <3>1
    <3> QED
      BY <2>1, <3>2 DEF Ahead, InFile
  <2>2. CASE state = "long_name_data"
    <3>1. dataRemaining > 0
      BY <1>1, <2>2 DEF ParserTyped
    <3>2. ~(Position + dataRemaining + paddingRemaining <= Len(stream))
      BY <1>3, <1>4, <3>1
    <3> QED
      BY <2>2, <3>2 DEF Ahead, InName
  <2>3. CASE state = "padding"
    <3>1. paddingRemaining > 0
      BY <1>1, <2>3 DEF ParserTyped
    <3>2. ~(Position + paddingRemaining <= Len(stream))
      BY <1>3, <1>4, <3>1
    <3> QED
      BY <2>3, <3>2 DEF Ahead, InPadding
  <2>4. CASE state = "header" /\ zeroBlocks # 2
    <3>1. Start \in 0..Len(stream) /\ Start + TarBlock > Len(stream)
      BY <1>3
    <3>2. Continued(stream, longName, Start) = Refused /\ AfterZero(stream, longName, Start) = Refused
      BY <1>3, <3>1, TooShort
    <3>3. zeroBlocks \in {0, 1}
      BY <1>1, <2>4 DEF ParserTyped
    <3> QED
      BY <2>4, <3>2, <3>3 DEF Ahead
  <2>5. CASE state = "header" /\ zeroBlocks = 2
    <3>1. pending # <<>> \/ longName # <<>>
      BY <1>0, <1>1, <2>5 DEF FinishAccepts, ParserTyped
    <3>2. pending # <<>> => Start # Len(stream)
      <4>1. Len(pending) = 0 => pending = <<>>
        <5>1. Len(pending) = 0 => \A i \in 1..Len(pending) : FALSE
          OBVIOUS
        <5> QED
          BY <1>1, <5>1, SamePlain, ReadableEmpty DEF ReaderTyped
      <4> QED
        BY <1>3, <4>1
    <3> QED
      BY <2>5, <3>1, <3>2 DEF Ahead, AfterZeros
  <2> QED
    BY <1>1, <2>1, <2>2, <2>3, <2>4, <2>5 DEF ParserTyped
<1>6. Reference(stream) = Refused
  BY <1>2, <1>5, Under1 DEF Described
<1> QED
  BY <1>0, <1>6, NothingMoves

TarInv == SourceTyped /\ StageTyped /\ ExtractorInv

LEMMA TarStarts == TarInit => TarInv
<1> SUFFICES ASSUME TarInit PROVE TarInv
  OBVIOUS
<1>1. SourceTyped
  BY SourceStarts
<1>2. ExtractorInit /\ fed = 0 /\ stage \in {"archive", "extract"}
  BY DEF TarInit
<1>3. ExtractorInv
  BY <1>1, <1>2, Fresh DEF SourceTyped, IsFresh
<1>4. StageTyped
  BY <1>2 DEF StageTyped, ExtractorInit
<1> QED
  BY <1>1, <1>3, <1>4 DEF TarInv

LEMMA FailureIs ==
    ASSUME failure \in {"none", "format", "io"}, FeedStep
    PROVE  failure' \in {"none", "format", "io"}
BY DEF FeedStep, Fail, Collect, ZeroBlock, LongNameEntry, DirectoryEntry, FileEntry, HeaderRejected, MakeThrows,
       WriteFile, WriteThrows, TakeName, NameRejected, SkipPadding, PastTheEnd

LEMMA TarKeeps == TarInv /\ [TarNext]_tarVars => TarInv'
<1> SUFFICES ASSUME TarInv, [TarNext]_tarVars PROVE TarInv'
  OBVIOUS
<1>0. SourceTyped /\ StageTyped /\ ExtractorInv
  BY DEF TarInv
<1>1. SourceTyped' /\ Readable(stream)'
  <2>1. SourceTyped'
    BY <1>0, SourceGoesOn
  <2> QED
    BY <2>1 DEF SourceTyped
<1>2. CASE CallForBlock \/ ReadOn \/ Probe \/ SourceChanges
  <2>1. stage \in {"archive", "probe"} /\ stage' \in {"archive", "probe"} /\ UNCHANGED <<extractorVars, fed>>
    BY <1>2 DEF CallForBlock, ReadOn, Probe, SourceChanges
  <2>2. ExtractorInit /\ fed = 0
    BY <1>0, <2>1 DEF StageTyped
  <2>3. ExtractorInit' /\ fed' = 0
    BY <2>1, <2>2 DEF ExtractorInit, extractorVars, parserVars
  <2>4. ExtractorInv'
    BY <1>1, <2>3, FreshNext DEF IsFresh
  <2>5. StageTyped'
    BY <2>1, <2>3 DEF StageTyped, ExtractorInit
  <2> QED
    BY <1>1, <2>4, <2>5 DEF TarInv
<1>3. CASE Archived \/ ArchivingThrows \/ Finish \/ ExtractionThrows \/ TarStopped \/ UNCHANGED tarVars
  <2>1. UNCHANGED <<extractorVars, fed, stream>>
    BY <1>3 DEF Archived, ArchivingThrows, Finish, ExtractionThrows, TarStopped, tarVars
  <2>2. ExtractorInv'
    BY <1>0, <2>1, NothingMoves DEF extractorVars
  <2>3. StageTyped'
    <3>1. CASE Archived
      BY <1>0, <3>1 DEF Archived, StageTyped, extractorVars
    <3>2. CASE ArchivingThrows
      BY <1>0, <3>2 DEF ArchivingThrows, StageTyped, extractorVars
    <3>3. CASE Finish
      <4>1. AllFed' /\ FinishAccepts'
        BY <2>1, <3>3 DEF Finish, AllFed, FinishAccepts, extractorVars, parserVars
      <4>2. stage' = "returned" /\ failure' = failure
        BY <3>3 DEF Finish, extractorVars
      <4> QED
        BY <1>0, <4>1, <4>2 DEF StageTyped
    <3>4. CASE ExtractionThrows
      BY <1>0, <3>4 DEF ExtractionThrows, StageTyped, extractorVars
    <3>5. CASE UNCHANGED tarVars
      BY <1>0, <3>5 DEF tarVars, StageTyped, ExtractorInit, AllFed, FinishAccepts, extractorVars, parserVars
    <3> QED
      BY <1>3, <3>1, <3>2, <3>3, <3>4, <3>5 DEF TarStopped
  <2> QED
    BY <1>1, <2>2, <2>3 DEF TarInv
<1>4. CASE Feed
  <2>1. StageTyped'
    BY <1>0, <1>4 DEF Feed, StageTyped
  <2> QED
    BY <1>0, <1>1, <1>4, <2>1, FeedKeeps DEF TarInv
<1>5. CASE FeedOn
  <2>1. FeedStep /\ stage = "extract" /\ stage' = "extract" /\ UNCHANGED <<stream, fed>>
    BY <1>5 DEF FeedOn
  <2>2. ExtractorInv'
    BY <1>0, <2>1, FeedStepKeeps
  <2>3. failure' \in {"none", "format", "io"}
    BY <1>0, <2>1, FailureIs DEF StageTyped
  <2>4. StageTyped'
    BY <2>1, <2>3 DEF StageTyped
  <2> QED
    BY <1>1, <2>2, <2>4 DEF TarInv
<1>6. CASE FinishThrows
  <2>1. StageTyped'
    BY <1>6 DEF FinishThrows, Fail, StageTyped
  <2> QED
    BY <1>0, <1>1, <1>6, <2>1, FinishThrowsKeeps DEF TarInv
<1> QED
  BY <1>2, <1>3, <1>4, <1>5, <1>6 DEF TarNext

THEOREM TarInvariance == TarSpec => []TarInv
BY TarStarts, TarKeeps, PTL DEF TarSpec

(* The counters of both ends of an archive stay what their unsigned types  *)
(* can hold, and a pending block never outgrows its bound.                 *)
THEOREM TarTyped == TarSpec => []TarTypeOK
<1>1. TarInv => TarTypeOK
  BY DEF TarInv, SourceTyped, StageTyped, ExtractorInv, ReaderTyped, ParserTyped, TarTypeOK
<1> QED
  BY <1>1, TarInvariance, PTL

(* TarExtractor, fed in pieces of any size, accepts exactly the streams    *)
(* that are well formed as a whole, and makes of them the tree they        *)
(* describe.                                                               *)
THEOREM AlwaysExtractsAsAWhole == TarSpec => []ExtractsAsAWhole
<1>1. TarInv => ExtractsAsAWhole
  <2> SUFFICES ASSUME TarInv PROVE ExtractsAsAWhole
    OBVIOUS
  <2>0. SourceTyped /\ StageTyped /\ ReaderTyped /\ ParserTyped /\ AsAWhole
    BY DEF TarInv, ExtractorInv
  <2>1. failure = "format" => Reference(stream) = Refused
    BY <2>0 DEF AsAWhole
  <2>2. ASSUME stage = "returned", ~flushLost PROVE Reference(stream) = Holds(tree)
    <3>1. AllFed /\ FinishAccepts
      BY <2>0, <2>2 DEF StageTyped
    <3>2. zeroBlocks = 2 /\ state = "header" /\ longName = <<>> /\ Start = Len(stream)
      <4>1. Len(data) = 0 /\ Len(pending) = 0 /\ fed = Len(stream)
        BY <3>1, ReadableEmpty DEF AllFed, FinishAccepts
      <4> QED
        BY <2>0, <3>1, <4>1, Places DEF FinishAccepts, ParserTyped
    <3>3. PICK t, c : Described(t, c)
      BY <2>0 DEF AsAWhole
    <3>4. Ahead(c) = Holds(<<>>)
      BY <3>2 DEF Ahead, AfterZeros
    <3>5. tree = t
      BY <2>2, <3>2, <3>3 DEF Described, Laid
    <3>6. Under(tree, Holds(<<>>)) = Holds(tree)
      <4>1. tree = [p \in DOMAIN tree |-> tree[p]]
        BY <2>0 DEF ParserTyped
      <4> QED
        BY <4>1, UnderNothing
    <3> QED
      BY <3>3, <3>4, <3>5, <3>6 DEF Described
  <2> QED
    BY <2>1, <2>2 DEF ExtractsAsAWhole
<1> QED
  BY <1>1, TarInvariance, PTL

-----------------------------------------------------------------------------
(***************************************************************************)
(* Names and sizes come back out of a header                               *)
(***************************************************************************)

(* One time more is at least so much more.                                 *)
LEMMA TimesMore ==
    ASSUME NEW f \in Nat, NEW a \in Nat, NEW b \in Nat, a >= b + 1
    PROVE  f * a >= f * b + f
<1>1. PICK k \in Nat : a = (b + 1) + k
  <2>1. a - (b + 1) \in Nat /\ a = (b + 1) + (a - (b + 1))
    OBVIOUS
  <2> QED
    BY <2>1
<1>2. f * ((b + 1) + k) = (f * b + f) + f * k /\ f * k \in Nat /\ f * b \in Nat
  OBVIOUS
<1> QED
  BY <1>1, <1>2

LEMMA Quotient ==
    ASSUME NEW n \in Nat, NEW d \in Nat, d > 0
    PROVE  n \div d \in Nat /\ n % d \in 0..(d - 1) /\ n = d * (n \div d) + (n % d)
OBVIOUS

LEMMA QuotientIs ==
    ASSUME NEW n \in Nat, NEW d \in Nat, d > 0, NEW q \in Nat, NEW r \in 0..(d - 1), n = d * q + r
    PROVE  n \div d = q
<1> DEFINE p == n \div d
           s == n % d
<1>1. p \in Nat /\ s \in 0..(d - 1) /\ n = d * p + s
  BY Quotient
<1> HIDE DEF p, s
<1>2. d * p \in Nat /\ d * q \in Nat
  BY <1>1
<1>3. ASSUME p >= q + 1 PROVE FALSE
  <2>1. d * p >= d * q + d
    BY <1>1, <1>3, TimesMore
  <2> QED
    BY <1>1, <1>2, <2>1
<1>4. ASSUME q >= p + 1 PROVE FALSE
  <2>1. d * q >= d * p + d
    BY <1>1, <1>4, TimesMore
  <2> QED
    BY <1>1, <1>2, <2>1
<1>5. p = q
  BY <1>1, <1>3, <1>4
<1> QED
  BY <1>5 DEF p

(* To divide by a product is to divide by one factor, then the other.      *)
LEMMA DivideTwice ==
    ASSUME NEW n \in Nat, NEW a \in Nat, a > 0, NEW b \in Nat, b > 0, NEW c, c = b * a
    PROVE  n \div c = (n \div a) \div b
<1> DEFINE p == n \div a
           r == n % a
           q == p \div b
           s == p % b
<1>1. p \in Nat /\ r \in 0..(a - 1) /\ n = a * p + r
  BY Quotient
<1>2. q \in Nat /\ s \in 0..(b - 1) /\ p = b * q + s
  <2> HIDE DEF p
  <2> QED
    BY <1>1, Quotient
<1> HIDE DEF p, q, r, s
<1>3. a * p = (b * a) * q + a * s
  BY <1>1, <1>2
<1>4. b >= s + 1 /\ a * b >= a * s + a /\ a * b = b * a
  <2>1. b >= s + 1 /\ s \in Nat
    BY <1>2
  <2> QED
    BY <2>1, TimesMore
<1>5. c \in Nat /\ c > 0 /\ a * s \in Nat
  <2>1. b * a \in Nat /\ b * a > 0
    OBVIOUS
  <2>2. a * s \in Nat
    BY <1>2
  <2> QED
    BY <2>1, <2>2
<1>6. a * s + r \in 0..(c - 1) /\ c * q \in Nat
  BY <1>1, <1>2, <1>4, <1>5
<1>7. n = c * q + (a * s + r)
  BY <1>1, <1>3, <1>5, <1>6, <1>2
<1>8. n \div c = q
  BY <1>2, <1>5, <1>6, <1>7, QuotientIs
<1> QED
  BY <1>8 DEF p, q

(* parse_size undoes write_size.                                           *)
LEMMA DigitsParsed ==
    ASSUME NEW size \in Nat, NEW base \in Nat, base >= 1, size < Power(base, OctalDigits),
           NEW field, field.base = base, field.digits = Digits(size, base)
    PROVE  ParseSize(field) = size
<1> DEFINE n == OctalDigits
           Shift(i) == Power(base, n - i)
<1>0. n \in Nat /\ Len(field.digits) = n /\ Spelled(field)
  BY DigitsAre DEF Spelled
<1>1. PICK v : Values(v, field) /\ ParseSize(field) = v[n]
  BY <1>0, ParseSizeIs
<1>2. \A i \in 0..n : Shift(i) \in Nat /\ Shift(i) >= 1
  <2> TAKE i \in 0..n
  <2>1. n - i \in Nat
    BY <1>0
  <2> QED
    BY <2>1, PowerPositive
<1> DEFINE S == {i \in 0..n : v[i] = size \div Shift(i)}
<1>3. 0 \in S
  <2>1. v[0] = 0 /\ 0 \in 0..n /\ n - 0 = n
    BY <1>0, <1>1 DEF Values
  <2>2. size \div Power(base, n) = 0
    <3>1. Power(base, n) \in Nat
      BY <1>0, PowerPositive
    <3> DEFINE d == Power(base, n)
    <3> HIDE DEF d
    <3>2. d \in Nat /\ size < d
      BY <3>1 DEF d
    <3>3. d > 0 /\ size \in 0..(d - 1) /\ d * 0 = 0 /\ 0 \in Nat
      BY <3>2
    <3>4. size = d * 0 + size
      BY <3>3
    <3>5. size \div d = 0
      BY <3>2, <3>3, <3>4, QuotientIs
    <3> QED
      BY <3>5 DEF d
  <2> QED
    BY <2>1, <2>2
<1>4. ASSUME NEW i \in 0..(n - 1), i \in S PROVE i + 1 \in S
  <2>1. i + 1 \in 0..n /\ i + 1 \in 1..n /\ i + 1 # 0 /\ (i + 1) - 1 = i /\ i \in 0..n
        /\ n - (i + 1) \in Nat /\ n - i = (n - (i + 1)) + 1
    BY <1>0
  <2> DEFINE low == Shift(i + 1)
             q == size \div low
  <2>2. low \in Nat /\ low >= 1 /\ Shift(i) = base * low
    BY <1>2, <2>1, PowerStep
  <2>3. q \in Nat
    <3> HIDE DEF low
    <3> QED
      BY <2>2, Quotient
  <2>4. field.digits[i + 1] = q % base
    BY <2>1 DEF Digits
  <2>5. size \div Shift(i) = q \div base
    <3> HIDE DEF low, Shift
    <3>1. low > 0 /\ base > 0
      BY <2>2
    <3>2. size \div Shift(i) = (size \div low) \div base
      BY <2>2, <3>1, DivideTwice
    <3> QED
      BY <3>2
  <2>6. v[i + 1] = v[i] * base + field.digits[i + 1]
    BY <1>0, <1>1, <2>1 DEF Values
  <2>7. v[i] = q \div base
    BY <1>4, <2>5
  <2> HIDE DEF q, low, Shift
  <2>8. q \div base \in Nat /\ q % base \in 0..(base - 1) /\ q = base * (q \div base) + (q % base)
    BY <2>3, Quotient
  <2>9. v[i + 1] = q
    BY <2>4, <2>6, <2>7, <2>8
  <2> QED
    BY <2>1, <2>9 DEF q, low
<1>5. n \in S
  <2> HIDE DEF S, Shift
  <2>1. 0..n \subseteq S
    BY <1>0, <1>3, <1>4, Ascent
  <2> QED
    BY <1>0, <2>1
<1>6. Shift(n) = 1
  <2>1. n - n = 0
    BY <1>0
  <2> QED
    BY <2>1, PowerStep
<1>7. size \div 1 = size
  OBVIOUS
<1> QED
  BY <1>1, <1>5, <1>6, <1>7

LEMMA SizeComesBack ==
    ASSUME NEW size \in Nat, size < Power(256, OctalDigits)
    PROVE  ParseSize(SizeField(size)) = size
<1> DEFINE field == SizeField(size)
<1>1. CASE size < Power(8, OctalDigits)
  <2>1. field.base = 8 /\ field.digits = Digits(size, 8)
    BY <1>1 DEF SizeField
  <2> HIDE DEF field
  <2>2. ParseSize(field) = size
    BY <1>1, <2>1, DigitsParsed
  <2> QED
    BY <2>2 DEF field
<1>2. CASE ~(size < Power(8, OctalDigits))
  <2>1. field.base = 256 /\ field.digits = Digits(size, 256)
    BY <1>2 DEF SizeField
  <2> HIDE DEF field
  <2>2. ParseSize(field) = size
    BY <2>1, DigitsParsed
  <2> QED
    BY <2>2 DEF field
<1> QED
  BY <1>1, <1>2

(* The size field of a size that has 64 bits is read back as that size.    *)
LEMMA SizeRead ==
    ASSUME NEW size \in Nat, size < SizeLimit
    PROVE  ParseSize(SizeField(size)) = size /\ SizeValid(SizeField(size))
<1> DEFINE field == SizeField(size)
<1>1. size < Power(256, OctalDigits)
  <2>1. Power(256, OctalDigits) \in Nat /\ SizeLimit \in Nat
    <3>1. OctalDigits \in Nat /\ 256 \in Nat /\ SizeLimit \in Nat
      BY TarAssumption
    <3> QED
      BY <3>1, PowerNat
  <2> QED
    BY <2>1, SizeAssumption
<1>2. ParseSize(field) = size
  BY <1>1, SizeComesBack
<1>3. CASE size < Power(8, OctalDigits)
  <2>1. field.base = 8 /\ field.digits = Digits(size, 8)
    BY <1>3 DEF SizeField
  <2> HIDE DEF field
  <2>2. \A i \in DOMAIN field.digits : field.digits[i] < 8
    BY <2>1, DigitsAre
  <2> QED
    BY <1>2, <2>1, <2>2 DEF SizeValid, field
<1>4. CASE ~(size < Power(8, OctalDigits))
  <2>1. field.base # 8
    BY <1>4 DEF SizeField
  <2> HIDE DEF field
  <2> QED
    BY <1>2, <2>1 DEF SizeValid, field
<1> QED
  BY <1>3, <1>4

(* A set of naturals with a bound has a greatest element.                  *)
LEMMA Greatest ==
    ASSUME NEW n \in Nat, NEW T, T \subseteq 1..n, T # {}
    PROVE  Max(T) \in T
<1> DEFINE D == {n - i : i \in T}
<1>1. D \subseteq Nat /\ D # {}
  <2>1. \A i \in T : n - i \in Nat
    OBVIOUS
  <2> QED
    BY <2>1
<1>2. PICK d \in D : \A e \in D : d <= e
  <2> HIDE DEF D
  <2> QED
    BY <1>1, Least
<1>3. PICK i \in T : d = n - i
  BY <1>2
<1>4. \A j \in T : i >= j
  <2> TAKE j \in T
  <2>1. n - j \in D
    OBVIOUS
  <2>2. n - i <= n - j
    BY <1>2, <1>3, <2>1
  <2>3. i \in Int /\ j \in Int
    OBVIOUS
  <2> HIDE DEF D
  <2> QED
    BY <2>2, <2>3
<1> QED
  BY <1>4 DEF Max

LEMMA SplitAtSlash ==
    ASSUME NEW name \in Seq(Nat), SplitAt(name) # 0
    PROVE  SplitAt(name) \in 1..Len(name) /\ name[SplitAt(name)] = Slash
<1> DEFINE start == FirstOf(name, PrefixField + 1)
           I == {i \in 1..Len(start) : start[i] = Slash}
<1>1. PICK w \in Nat : w = PrefixField + 1
  BY TarAssumption
<1>2. Len(start) \in Nat /\ Len(start) <= Len(name) /\ \A i \in 1..Len(start) : start[i] = name[i]
  <2>1. CASE Len(name) < w
    <3>1. start = SubSeq(name, 1, Len(name))
      BY <1>1, <2>1 DEF FirstOf
    <3> QED
      BY <3>1
  <2>2. CASE ~(Len(name) < w)
    <3>1. start = SubSeq(name, 1, w)
      BY <1>1, <2>2 DEF FirstOf
    <3> HIDE DEF start
    <3>2. Len(start) = w /\ \A i \in 1..w : start[i] = name[i]
      BY <2>2, <3>1
    <3> QED
      BY <2>2, <3>2
  <2> QED
    BY <2>1, <2>2
<1>3. SplitAt(name) = IF I # {} THEN Max(I) ELSE 0
  BY DEF SplitAt, SelectLastInSeq
<1>4. I # {} /\ SplitAt(name) = Max(I)
  BY <1>3
<1>5. Max(I) \in I
  <2>1. I \subseteq 1..Len(start)
    OBVIOUS
  <2> HIDE DEF I, start
  <2> QED
    BY <1>2, <1>4, <2>1, Greatest
<1>6. SplitAt(name) \in 1..Len(start) /\ start[SplitAt(name)] = Slash
  BY <1>4, <1>5
<1> QED
  BY <1>2, <1>6

(* A field that is wide enough holds all of a name.                        *)
LEMMA FirstOfAll ==
    ASSUME NEW name \in Seq(Nat), NEW width \in Nat, Len(name) <= width
    PROVE  FirstOf(name, width) = name
<1>1. SubSeq(name, 1, Len(name)) = name
  OBVIOUS
<1>2. Len(name) < width \/ Len(name) = width
  OBVIOUS
<1> QED
  BY <1>1, <1>2 DEF FirstOf

(* Whether it is split or not, a name that a header can hold comes back.   *)
LEMMA NameComesBack ==
    ASSUME NEW name \in Seq(Nat), ~Unsafe(name), ~NeedsLongName(name), NEW size, NEW type
    PROVE  NameOf(Header(name, size, type)) = name
<1> DEFINE split == IF Len(name) > NameField /\ Splits(name) THEN SplitAt(name) ELSE 0
           h == Header(name, size, type)
           n == Len(name)
<1>0. n \in Nat /\ n >= 1 /\ NameField \in Nat /\ name[1] # Slash
  <2>1. name # <<>> /\ Head(name) # Slash
    BY DEF Unsafe
  <2> QED
    BY <2>1, TarAssumption
<1>1. /\ h.prefix = SubSeq(name, 1, split - 1)
      /\ h.name = FirstOf(SubSeq(name, split + 1, n), NameField)
  BY DEF Header
<1>2. CASE split = 0
  <2>1. n <= NameField
    <3>1. ASSUME n > NameField PROVE FALSE
      <4>1. Splits(name)
        BY <3>1 DEF NeedsLongName
      <4> QED
        BY <1>2, <3>1, <4>1 DEF Splits
    <3> QED
      BY <1>0, <3>1
  <2>2. SubSeq(name, 1, -1) = <<>> /\ SubSeq(name, 1, n) = name
    BY <1>0
  <2>3. h.prefix = <<>> /\ h.name = name
    <3>1. 0 - 1 = -1 /\ 0 + 1 = 1
      OBVIOUS
    <3> HIDE DEF split, h
    <3> QED
      BY <1>0, <1>1, <1>2, <2>1, <2>2, <3>1, FirstOfAll
  <2> QED
    BY <2>3 DEF NameOf
<1>3. CASE split # 0
  <2>1. split = SplitAt(name) /\ Splits(name)
    BY <1>3
  <2>2. split \in 1..n /\ name[split] = Slash /\ n - split <= NameField
    <3>1. SplitAt(name) # 0 /\ n - SplitAt(name) <= NameField
      BY <2>1 DEF Splits
    <3> QED
      BY <2>1, <3>1, SplitAtSlash
  <2> HIDE DEF split, h
  <2>3. split >= 2
    BY <1>0, <2>2
  <2> DEFINE left == SubSeq(name, 1, split - 1)
             right == SubSeq(name, split + 1, n)
  <2>4. left \in Seq(Nat) /\ Len(left) = split - 1 /\ \A i \in 1..(split - 1) : left[i] = name[i]
    BY <2>2
  <2>5. right \in Seq(Nat) /\ Len(right) = n - split /\ \A i \in 1..(n - split) : right[i] = name[split + i]
    BY <2>2
  <2>6. h.prefix = left /\ h.name = right
    <3>1. FirstOf(right, NameField) = right
      <4> HIDE DEF right
      <4> QED
        BY <1>0, <2>2, <2>5, FirstOfAll
    <3> QED
      BY <1>1, <3>1
  <2> HIDE DEF left, right
  <2>7. left # <<>>
    BY <2>3, <2>2, <2>4
  <2> DEFINE before == split - 1
             here == SubSeq(name, before + 1, split)
             most == left \o <<Slash>>
  <2>8. /\ Plain(name) /\ before \in Nat /\ before + 1 = split /\ split \in Nat /\ n <= n
        /\ before <= split /\ split <= n /\ 0 <= before /\ 0 \in Nat /\ before <= n /\ 0 <= split /\ 0 + 1 = 1
    BY <1>0, <2>2, PlainSeq
  <2> HIDE DEF before
  <2>9. here = <<Slash>>
    <3>1. Plain(here) /\ Len(here) = split - before /\ \A i \in 1..(split - before) : here[i] = name[before + i]
      BY <2>8, Piece
    <3>2. split - before = 1 /\ 1 \in 1..1
      BY <2>8
    <3>3. Len(here) = 1 /\ here[1] = Slash
      <4> HIDE DEF here
      <4> QED
        BY <2>2, <2>8, <3>1, <3>2
    <3>4. Plain(<<Slash>>) /\ Len(<<Slash>>) = 1 /\ <<Slash>>[1] = Slash
      <4>1. <<Slash>> \in Seq({Slash}) /\ Len(<<Slash>>) = 1 /\ <<Slash>>[1] = Slash
        OBVIOUS
      <4> QED
        BY <4>1, PlainSeq
    <3>5. \A i \in 1..1 : i = 1
      OBVIOUS
    <3> HIDE DEF here
    <3> QED
      BY <3>1, <3>3, <3>4, <3>5, SamePlain
  <2>10. most = SubSeq(name, 1, split)
    <3>1. SubSeq(name, 0 + 1, before) \o SubSeq(name, before + 1, split) = SubSeq(name, 0 + 1, split)
      BY <2>8, PiecesJoin
    <3>2. left = SubSeq(name, 1, before)
      BY DEF left, before
    <3> QED
      BY <2>8, <2>9, <3>1, <3>2
  <2>11. most \o right = name
    <3>1. SubSeq(name, 0 + 1, split) \o SubSeq(name, split + 1, n) = SubSeq(name, 0 + 1, n)
      <4> DEFINE m == n
      <4>1. m \in Nat /\ m <= Len(name) /\ split <= m
        BY <2>8
      <4> HIDE DEF m
      <4>2. SubSeq(name, 0 + 1, split) \o SubSeq(name, split + 1, m) = SubSeq(name, 0 + 1, m)
        BY <2>8, <4>1, PiecesJoin
      <4> QED
        BY <4>2 DEF m
    <3>2. SubSeq(name, 1, n) = name
      OBVIOUS
    <3> QED
      BY <2>8, <2>10, <3>1, <3>2 DEF right
  <2> QED
    <3>1. NameOf(h) = h.prefix \o <<Slash>> \o h.name
      BY <2>6, <2>7 DEF NameOf
    <3>2. h.prefix \o <<Slash>> \o h.name = most \o right
      BY <2>6
    <3> QED
      BY <2>11, <3>1, <3>2 DEF h
<1> QED
  BY <1>2, <1>3

(* The text of a long name that ends with a NUL.                           *)
LEMMA TextComesBack ==
    ASSUME NEW name \in Seq(Nat), NEW u, Len(u) = Len(name) + 1, Plain(u),
           \A i \in 1..Len(name) : u[i] = Datum(name[i]), u[Len(name) + 1] = Zero
    PROVE  TextOf(u) = name
<1> DEFINE n == Len(name)
           I == {i \in 1..Len(u) : u[i] = Zero}
           text == SubSeq(u, 1, n)
<1>0. n \in Nat /\ DOMAIN name = 1..n
  OBVIOUS
<1>1. \A i \in 1..n : u[i] # Zero /\ u[i].value = name[i]
  <2>1. \A c : Datum(c) # Zero /\ Datum(c).value = c
    <3> TAKE c
    <3>1. Datum(c).kind = "datum" /\ Zero.kind = "zero" /\ "datum" # "zero" /\ Datum(c).value = c
      BY DEF Datum, Zero
    <3> QED
      BY <3>1
  <2> QED
    BY <2>1
<1>2. I = {n + 1}
  <2>1. \A i \in 1..(n + 1) : i \in 1..n \/ i = n + 1
    BY <1>0
  <2> QED
    BY <1>0, <1>1, <2>1
<1>3. SelectInSeq(u, LAMBDA unit : unit = Zero) = n + 1
  <2>1. SelectInSeq(u, LAMBDA unit : unit = Zero) = IF I # {} THEN Min(I) ELSE 0
    BY DEF SelectInSeq
  <2>2. Min({n + 1}) = n + 1
    <3>1. n + 1 \in {n + 1} /\ \A y \in {n + 1} : n + 1 <= y
      BY <1>0
    <3> QED
      BY <3>1 DEF Min
  <2> QED
    BY <1>2, <2>1, <2>2
<1>4. TextOf(u) = [i \in DOMAIN text |-> text[i].value]
  <2>1. n + 1 # 0 /\ (n + 1) - 1 = n
    BY <1>0
  <2> HIDE DEF text, I
  <2>2. SubSeq(u, 1, (n + 1) - 1) = text
    BY <2>1 DEF text
  <2> QED
    BY <1>3, <2>1, <2>2 DEF TextOf
<1>5. DOMAIN text = 1..n /\ \A i \in 1..n : text[i] = u[i]
  <2>1. n <= Len(u) /\ Len(u) \in Nat
    BY <1>0
  <2>2. Plain(SubSeq(u, 0 + 1, n)) /\ Len(SubSeq(u, 0 + 1, n)) = n - 0
        /\ \A i \in 1..(n - 0) : SubSeq(u, 0 + 1, n)[i] = u[0 + i]
    <3> DEFINE m == n
    <3>1. m \in Nat /\ 0 <= m /\ m <= Len(u) /\ 0 \in Nat
      BY <1>0, <2>1
    <3> HIDE DEF m
    <3>2. Plain(SubSeq(u, 0 + 1, m)) /\ Len(SubSeq(u, 0 + 1, m)) = m - 0
          /\ \A i \in 1..(m - 0) : SubSeq(u, 0 + 1, m)[i] = u[0 + i]
      BY <3>1, Piece
    <3> QED
      BY <3>2 DEF m
  <2>3. n - 0 = n /\ \A i \in 1..n : 0 + i = i
    BY <1>0
  <2>4. 0 + 1 = 1
    OBVIOUS
  <2>5. Plain(text) /\ Len(text) = n /\ \A i \in 1..n : text[i] = u[i]
    BY <2>2, <2>3, <2>4
  <2> HIDE DEF text
  <2> QED
    BY <2>5, PlainIs
<1> HIDE DEF text
<1>6. \A i \in 1..n : text[i].value = name[i]
  BY <1>1, <1>5
<1>7. TextOf(u) = [i \in 1..n |-> name[i]]
  BY <1>4, <1>5, <1>6
<1>8. name = [i \in 1..n |-> name[i]]
  <2>1. Plain(name)
    BY PlainSeq
  <2> QED
    BY <2>1, PlainIs
<1> QED
  BY <1>7, <1>8

-----------------------------------------------------------------------------
(* Where parts of a stream lie                                             *)

Lies(s, units, at) ==
    at + Len(s) <= Len(units) /\ \A i \in 1..Len(s) : units[at + i] = s[i]

LEMMA LiesThere ==
    ASSUME NEW units, Plain(units), NEW at \in Nat, NEW s, Plain(s), Lies(s, units, at)
    PROVE  SubSeq(units, at + 1, at + Len(s)) = s
<1> DEFINE to == at + Len(s)
           p == SubSeq(units, at + 1, to)
<1>1. Len(s) \in Nat /\ Len(units) \in Nat
  BY PlainIs
<1>2. to \in Nat /\ at <= to /\ to <= Len(units) /\ to - at = Len(s)
  BY <1>1 DEF Lies
<1> HIDE DEF to
<1>3. Plain(p) /\ Len(p) = to - at /\ \A i \in 1..(to - at) : p[i] = units[at + i]
  BY <1>2, Piece
<1>4. \A i \in 1..Len(p) : p[i] = s[i]
  <2> HIDE DEF p
  <2> QED
    BY <1>2, <1>3 DEF Lies
<1>5. p = s
  <2> HIDE DEF p
  <2> QED
    BY <1>2, <1>3, <1>4, SamePlain
<1> QED
  BY <1>5 DEF to

LEMMA LiesApart ==
    ASSUME NEW units, Plain(units), NEW at \in Nat, NEW s, Plain(s), NEW t, Plain(t),
           NEW st, st = s \o t, Lies(st, units, at)
    PROVE  Lies(s, units, at) /\ Lies(t, units, at + Len(s))
<1>1. Len(s) \in Nat /\ Len(t) \in Nat /\ Len(units) \in Nat
  BY PlainIs
<1>2. /\ Len(st) = Len(s) + Len(t)
      /\ \A i \in 1..Len(s) : st[i] = s[i]
      /\ \A i \in 1..Len(t) : st[Len(s) + i] = t[i]
  BY Join
<1>3. at + Len(st) <= Len(units) /\ \A i \in 1..Len(st) : units[at + i] = st[i]
  BY DEF Lies
<1>4. \A i \in 1..Len(s) : i \in 1..Len(st)
  BY <1>1, <1>2
<1>5. Lies(s, units, at)
  BY <1>1, <1>2, <1>3, <1>4 DEF Lies
<1>6. ASSUME NEW i \in 1..Len(t) PROVE units[(at + Len(s)) + i] = t[i]
  <2>1. Len(s) + i \in 1..Len(st) /\ at + (Len(s) + i) = (at + Len(s)) + i
    BY <1>1, <1>2
  <2>2. units[at + (Len(s) + i)] = st[Len(s) + i]
    BY <1>3, <2>1
  <2> QED
    BY <1>2, <2>1, <2>2
<1>7. (at + Len(s)) + Len(t) <= Len(units)
  BY <1>1, <1>2, <1>3
<1> QED
  BY <1>5, <1>6, <1>7 DEF Lies

LEMMA LiesBefore ==
    ASSUME NEW units, Plain(units), NEW at \in Nat, NEW s, Plain(s), Lies(s, units, at), NEW more, Plain(more),
           NEW longer, longer = units \o more
    PROVE  Lies(s, longer, at)
<1>1. Len(s) \in Nat /\ Len(more) \in Nat /\ Len(units) \in Nat
  BY PlainIs
<1>2. Len(longer) = Len(units) + Len(more) /\ \A i \in 1..Len(units) : longer[i] = units[i]
  BY Join
<1>3. at + Len(s) <= Len(units) /\ \A i \in 1..Len(s) : units[at + i] = s[i]
  BY DEF Lies
<1>4. \A i \in 1..Len(s) : at + i \in 1..Len(units)
  BY <1>1, <1>3
<1>5. at + Len(s) <= Len(longer)
  BY <1>1, <1>2, <1>3
<1> QED
  BY <1>2, <1>3, <1>4, <1>5 DEF Lies

LEMMA LiesBehind ==
    ASSUME NEW units, Plain(units), NEW more, Plain(more), NEW longer, longer = units \o more
    PROVE  Lies(more, longer, Len(units))
<1>1. Len(more) \in Nat /\ Len(units) \in Nat
  BY PlainIs
<1>2. Len(longer) = Len(units) + Len(more) /\ \A i \in 1..Len(more) : longer[Len(units) + i] = more[i]
  BY Join
<1> QED
  BY <1>1, <1>2 DEF Lies

LEMMA BlockLies ==
    ASSUME NEW units, Readable(units), NEW at \in Nat, NEW h, Lies(Block(h), units, at)
    PROVE  /\ at + TarBlock <= Len(units) /\ units[at + 1].kind = "header" /\ HeaderAt(units, at) = h
           /\ SubSeq(units, at + 1, at + TarBlock) = Block(h)
<1>1. /\ Plain(Block(h)) /\ Len(Block(h)) = TarBlock
      /\ \A i \in 1..TarBlock : Block(h)[i].kind = "header" /\ Block(h)[i].header = h
  BY BlockIs
<1>2. Plain(units)
  BY ReadableIs
<1>3. SubSeq(units, at + 1, at + Len(Block(h))) = Block(h)
  BY <1>1, <1>2, LiesThere
<1>4. 1 \in 1..TarBlock
  BY Block1
<1>5. units[at + 1] = Block(h)[1]
  BY <1>1, <1>4 DEF Lies
<1>6. at + TarBlock <= Len(units)
  BY <1>1 DEF Lies
<1> QED
  BY <1>1, <1>3, <1>4, <1>5, <1>6 DEF HeaderAt

-----------------------------------------------------------------------------
(* What an entry of a tree makes of its part of the stream                 *)

Kind(e)      == IF e.directory THEN "5" ELSE "0"
Padding(e)   == Padded(Len(e.content))
Content(e)   == e.content \o Zeros(Padding(e))
OwnHeader(e) == Header(e.path, Len(e.content), Kind(e))
Own(e)       == Block(OwnHeader(e)) \o Content(e)

(* What it lays over the tree.                                             *)
Part(e) ==
    LET path == Components(e.path)
    IN  IF e.directory THEN Directories(path)
        ELSE Over(FileAt(path, e.content), Directories(Front(path)))

Fits(e) ==
    /\ e.path \in Seq(Nat) /\ Len(e.path) < LongNameLimit /\ ~Unsafe(e.path)
    /\ e.directory \in BOOLEAN /\ (e.directory => e.content = <<>>)
    /\ Readable(e.content) /\ Len(e.content) < SizeLimit

LEMMA FitsSizes ==
    ASSUME NEW e, Fits(e)
    PROVE  /\ Len(e.content) \in Nat /\ Plain(e.content) /\ Padding(e) \in 0..(TarBlock - 1) /\ Padding(e) \in Nat
           /\ TarBlock \in Nat /\ TarBlock >= 1
           /\ Plain(Zeros(Padding(e))) /\ Len(Zeros(Padding(e))) = Padding(e)
           /\ Plain(Content(e)) /\ Len(Content(e)) = Len(e.content) + Padding(e)
           /\ Plain(Block(OwnHeader(e))) /\ Len(Block(OwnHeader(e))) = TarBlock
           /\ Plain(Own(e)) /\ Len(Own(e)) = TarBlock + (Len(e.content) + Padding(e))
<1>1. Len(e.content) \in Nat /\ Plain(e.content) /\ TarBlock \in Nat /\ TarBlock >= 1
  BY ReadableIs, PlainIs, Block1 DEF Fits
<1>2. Padding(e) \in 0..(TarBlock - 1)
  BY <1>1, PaddedFits DEF Padding
<1>3. Padding(e) \in Nat
  BY <1>1, <1>2
<1>4. Plain(Zeros(Padding(e))) /\ Len(Zeros(Padding(e))) = Padding(e)
  BY <1>3, ZerosAre
<1>5. Plain(Content(e)) /\ Len(Content(e)) = Len(e.content) + Padding(e)
  BY <1>1, <1>4, Join DEF Content
<1>6. Plain(Block(OwnHeader(e))) /\ Len(Block(OwnHeader(e))) = TarBlock
  BY BlockIs
<1>7. Plain(Own(e)) /\ Len(Own(e)) = TarBlock + (Len(e.content) + Padding(e))
  BY <1>5, <1>6, Join DEF Own
<1> QED
  BY <1>1, <1>2, <1>3, <1>4, <1>5, <1>6, <1>7

LEMMA OwnHeaderIs ==
    ASSUME NEW e, Fits(e)
    PROVE  /\ ParseSize(OwnHeader(e).size) = Len(e.content) /\ OwnHeader(e).type = Kind(e)
           /\ Spelled(OwnHeader(e).size) /\ SizeValid(OwnHeader(e).size)
           /\ ~NeedsLongName(e.path) => NameOf(OwnHeader(e)) = e.path
<1>1. Len(e.content) \in Nat
  BY FitsSizes
<1>2. OwnHeader(e).size = SizeField(Len(e.content)) /\ OwnHeader(e).type = Kind(e)
  BY DEF OwnHeader, Header
<1>3. /\ ParseSize(SizeField(Len(e.content))) = Len(e.content)
      /\ Spelled(SizeField(Len(e.content))) /\ SizeValid(SizeField(Len(e.content)))
  BY <1>1, SizeRead, SizeFieldSpelled DEF Fits
<1>4. ~NeedsLongName(e.path) => NameOf(OwnHeader(e)) = e.path
  BY NameComesBack DEF Fits, OwnHeader
<1> QED
  BY <1>2, <1>3, <1>4

(* With its name known, or in its own header.                              *)
LEMMA OwnMakes ==
    ASSUME NEW units, Readable(units), NEW at \in Nat, NEW e, Fits(e), Lies(Own(e), units, at),
           NEW name \in {<<>>, e.path}, name = <<>> => ~NeedsLongName(e.path)
    PROVE  Continued(units, name, at) = Under(Part(e), Continued(units, <<>>, at + Len(Own(e))))
<1> DEFINE path == Components(e.path)
           b == at + TarBlock
           size == Len(e.content)
           pad == Padding(e)
           h == OwnHeader(e)
<1>0. /\ size \in Nat /\ Plain(e.content) /\ pad \in Nat /\ TarBlock \in Nat /\ b \in Nat /\ Plain(units)
      /\ Plain(Content(e)) /\ Len(Own(e)) = TarBlock + (size + pad) /\ Len(Content(e)) = size + pad
      /\ Len(units) \in Nat
  BY FitsSizes, ReadableIs, PlainIs
<1>1. Lies(Block(h), units, at) /\ Lies(Content(e), units, b)
  <2>1. Plain(Block(h)) /\ Len(Block(h)) = TarBlock /\ Own(e) = Block(h) \o Content(e)
    BY FitsSizes DEF Own
  <2>2. Lies(Block(h), units, at) /\ Lies(Content(e), units, at + Len(Block(h)))
    BY <1>0, <2>1, LiesApart
  <2> QED
    BY <2>1, <2>2
<1>2. /\ at + TarBlock <= Len(units) /\ units[at + 1].kind = "header" /\ HeaderAt(units, at) = h
      /\ SubSeq(units, at + 1, at + TarBlock) = Block(HeaderAt(units, at))
  BY <1>1, BlockLies
<1>3. /\ HeaderAt(units, at).type = Kind(e) /\ SizeAt(units, at) = size
      /\ SizeValid(HeaderAt(units, at).size)
  BY <1>2, OwnHeaderIs DEF SizeAt
<1>4. ~Unsafe(e.path) /\ e.path # <<>>
  BY DEF Fits, Unsafe
<1>5. (name # <<>> => e.path = name) /\ (name = <<>> => e.path = NameOf(HeaderAt(units, at)))
  BY <1>2, OwnHeaderIs
<1>6. CASE e.directory
  <2>1. size = 0 /\ pad = 0
    BY <1>6, ReadableEmpty, PaddedNone DEF Fits, Padding
  <2>2. HeaderAt(units, at).type = "5" /\ SizeAt(units, at) = 0
    BY <1>3, <1>6, <2>1 DEF Kind
  <2>3. Continued(units, name, at) = Under(Directories(path), Continued(units, <<>>, at + TarBlock))
    BY <1>2, <1>3, <1>4, <1>5, <2>2, DirectoryThere
  <2>4. at + Len(Own(e)) = at + TarBlock
    BY <1>0, <2>1
  <2>5. Part(e) = Directories(path)
    BY <1>6 DEF Part
  <2> QED
    BY <2>3, <2>4, <2>5
<1>7. CASE ~e.directory
  <2>1. HeaderAt(units, at).type \in FileTypes /\ SizeAt(units, at) \in Nat
    BY <1>0, <1>3, <1>7 DEF Kind, FileTypes
  <2>2. Continued(units, name, at)
          = Under(Directories(Front(path)), InFile(units, path, <<>>, b, SizeAt(units, at), Padded(SizeAt(units, at))))
    BY <1>2, <1>3, <1>4, <1>5, <2>1, FileThere
  <2>3. Padded(SizeAt(units, at)) = pad
    BY <1>3 DEF Padding
  <2>4. Lies(e.content, units, b)
    <3>1. Content(e) = e.content \o Zeros(pad) /\ Plain(Zeros(pad))
      BY FitsSizes DEF Content
    <3> HIDE DEF b
    <3> QED
      BY <1>0, <1>1, <3>1, LiesApart
  <2>5. SubSeq(units, b + 1, b + size) = e.content
    <3> HIDE DEF b
    <3> QED
      BY <1>0, <2>4, LiesThere
  <2>6. <<>> \o SubSeq(units, b + 1, b + size) = e.content
    BY <1>0, <2>5, JoinEmpty
  <2>7. b + (size + pad) <= Len(units)
    BY <1>0, <1>1 DEF Lies
  <2>8. b + size + pad <= Len(units) /\ b + size + pad = at + Len(Own(e))
    <3>1. at + Len(Own(e)) = b + (size + pad)
      BY <1>0
    <3>2. b + (size + pad) = b + size + pad
      <4> HIDE DEF b, size, pad
      <4> QED
        BY <1>0
    <3> QED
      BY <2>7, <3>1, <3>2
  <2>9. InFile(units, path, <<>>, b, size, pad)
          = Under(FileAt(path, e.content), Continued(units, <<>>, at + Len(Own(e))))
    <3> HIDE DEF path, b, size, pad
    <3> QED
      BY <2>6, <2>8 DEF InFile
  <2>10. Part(e) = Over(FileAt(path, e.content), Directories(Front(path)))
    BY <1>7 DEF Part
  <2> DEFINE rest == Continued(units, <<>>, at + Len(Own(e)))
  <2> HIDE DEF path, b, size, pad, rest
  <2>11. Continued(units, name, at) = Under(Directories(Front(path)), Under(FileAt(path, e.content), rest))
    BY <1>3, <2>2, <2>3, <2>9 DEF rest
  <2>12. Under(Directories(Front(path)), Under(FileAt(path, e.content), rest))
           = Under(Over(FileAt(path, e.content), Directories(Front(path))), rest)
    BY UnderUnder
  <2> QED
    BY <2>10, <2>11, <2>12 DEF rest
<1> QED
  BY <1>6, <1>7 DEF Fits

LEMMA SumOfThree ==
    ASSUME NEW l \in Nat, NEW m \in Nat, NEW n \in Nat
    PROVE  l + (m + n) = (l + m) + n /\ l + (m + n) = l + m + n /\ l + m \in Nat
OBVIOUS

(* The entry that carries a long name.                                     *)
NameSize(e)    == Len(e.path) + 1
NameHeader(e)  == Header(<<>>, NameSize(e), "L")
NamePadding(e) == Padded(NameSize(e))
NameEnd(e)     == Zeros(1 + NamePadding(e))
NameStart(e)   == Block(NameHeader(e)) \o Data(e.path)
LongPart(e)    == NameStart(e) \o NameEnd(e)

(* All that an entry adds to the stream.                                   *)
EntryStream(e) == StagedHeader(e) \o Content(e)

LEMMA LongSizes ==
    ASSUME NEW e, Fits(e)
    PROVE  /\ Len(e.path) \in Nat /\ NameSize(e) \in Nat /\ NamePadding(e) \in Nat
           /\ Plain(Data(e.path)) /\ Len(Data(e.path)) = Len(e.path)
           /\ Plain(Block(NameHeader(e))) /\ Len(Block(NameHeader(e))) = TarBlock
           /\ Plain(NameStart(e)) /\ Len(NameStart(e)) = TarBlock + Len(e.path)
           /\ Plain(NameEnd(e)) /\ Len(NameEnd(e)) = 1 + NamePadding(e)
           /\ Plain(LongPart(e)) /\ Len(LongPart(e)) = (TarBlock + Len(e.path)) + (1 + NamePadding(e))
<1>1. Len(e.path) \in Nat /\ NameSize(e) \in Nat /\ TarBlock \in Nat
  BY Block1 DEF Fits, NameSize
<1>2. NamePadding(e) \in Nat
  <2>1. Padded(NameSize(e)) \in 0..(TarBlock - 1)
    BY <1>1, PaddedFits
  <2> QED
    BY <1>1, <2>1 DEF NamePadding
<1>3. Plain(Data(e.path)) /\ Len(Data(e.path)) = Len(e.path)
  BY DataAre DEF Fits
<1>4. Plain(Block(NameHeader(e))) /\ Len(Block(NameHeader(e))) = TarBlock
  BY BlockIs
<1>5. Plain(NameStart(e)) /\ Len(NameStart(e)) = TarBlock + Len(e.path)
  BY <1>3, <1>4, Join DEF NameStart
<1>6. Plain(NameEnd(e)) /\ Len(NameEnd(e)) = 1 + NamePadding(e)
  <2>1. 1 + NamePadding(e) \in Nat
    BY <1>2
  <2> QED
    BY <2>1, ZerosAre DEF NameEnd
<1>7. Plain(LongPart(e)) /\ Len(LongPart(e)) = (TarBlock + Len(e.path)) + (1 + NamePadding(e))
  BY <1>5, <1>6, Join DEF LongPart
<1> QED
  BY <1>1, <1>2, <1>3, <1>4, <1>5, <1>6, <1>7

LEMMA EntryStreamIs ==
    ASSUME NEW e, Fits(e)
    PROVE  /\ EntryStream(e) = IF NeedsLongName(e.path) THEN LongPart(e) \o Own(e) ELSE Own(e)
           /\ Plain(EntryStream(e)) /\ Len(EntryStream(e)) = EntryStreamSize(e.path, Len(e.content))
           /\ Plain(StagedHeader(e))
<1>1. /\ Plain(LongPart(e)) /\ Plain(Own(e)) /\ Plain(Block(OwnHeader(e))) /\ Plain(Content(e))
      /\ Own(e) = Block(OwnHeader(e)) \o Content(e)
  BY FitsSizes, LongSizes DEF Own
<1>2. StagedHeader(e) = (IF NeedsLongName(e.path) THEN LongPart(e) ELSE <<>>) \o Block(OwnHeader(e))
  BY DEF StagedHeader, LongPart, NameStart, NameEnd, NameHeader, NameSize, NamePadding, OwnHeader, Kind
<1>a. /\ Len(Own(e)) = TarBlock + (Len(e.content) + Padding(e)) /\ Padding(e) \in Nat /\ Len(e.content) \in Nat
      /\ Padding(e) = Padded(Len(e.content)) /\ TarBlock \in Nat
  BY FitsSizes DEF Padding
<1>3. CASE NeedsLongName(e.path)
  <2>1. StagedHeader(e) = LongPart(e) \o Block(OwnHeader(e))
    BY <1>2, <1>3
  <2>2. StagedHeader(e) \o Content(e) = LongPart(e) \o Own(e)
    BY <1>1, <2>1, JoinJoin
  <2>3. Plain(StagedHeader(e)) /\ Plain(LongPart(e) \o Own(e)) /\ Len(LongPart(e) \o Own(e)) = Len(LongPart(e)) + Len(Own(e))
    BY <1>1, <2>1, Join
  <2>4. /\ Len(LongPart(e)) = (TarBlock + Len(e.path)) + (1 + NamePadding(e)) /\ Len(e.path) \in Nat
        /\ NamePadding(e) \in Nat /\ NamePadding(e) = Padded(Len(e.path) + 1)
    BY LongSizes DEF NamePadding, NameSize
  <2>5. EntryStreamSize(e.path, Len(e.content))
          = TarBlock + Len(e.content) + Padding(e) + (TarBlock + Len(e.path) + 1 + NamePadding(e))
    BY <1>3, <1>a, <2>4 DEF EntryStreamSize
  <2>6. Len(LongPart(e)) + Len(Own(e)) = EntryStreamSize(e.path, Len(e.content))
    <3>1. Len(LongPart(e)) + Len(Own(e))
            = ((TarBlock + Len(e.path)) + (1 + NamePadding(e))) + (TarBlock + (Len(e.content) + Padding(e)))
      <4>1. Len(LongPart(e)) = (TarBlock + Len(e.path)) + (1 + NamePadding(e))
        BY <2>4
      <4>2. Len(Own(e)) = TarBlock + (Len(e.content) + Padding(e))
        BY <1>a
      <4> QED
        BY Zenon, <4>1, <4>2
    <3> QED
      <4> DEFINE l == Len(e.path)
                 p == NamePadding(e)
                 c == Len(e.content)
                 q == Padding(e)
      <4>1. l \in Nat /\ p \in Nat /\ c \in Nat /\ q \in Nat /\ TarBlock \in Nat
        BY <1>a, <2>4
      <4> HIDE DEF l, p, c, q
      <4>2. ((TarBlock + l) + (1 + p)) + (TarBlock + (c + q)) = TarBlock + c + q + (TarBlock + l + 1 + p)
        BY <4>1
      <4>3. ((TarBlock + l) + (1 + p)) + (TarBlock + (c + q)) = Len(LongPart(e)) + Len(Own(e))
        BY Zenon, <3>1 DEF l, p, c, q
      <4>4. TarBlock + c + q + (TarBlock + l + 1 + p) = EntryStreamSize(e.path, Len(e.content))
        BY Zenon, <2>5 DEF l, p, c, q
      <4> QED
        BY Zenon, <4>2, <4>3, <4>4
  <2> QED
    BY <1>3, <2>2, <2>3, <2>6 DEF EntryStream
<1>4. CASE ~NeedsLongName(e.path)
  <2>1. StagedHeader(e) = Block(OwnHeader(e))
    BY <1>1, <1>2, <1>4, JoinEmpty
  <2>2. StagedHeader(e) \o Content(e) = Own(e)
    BY <1>1, <2>1
  <2>3. EntryStreamSize(e.path, Len(e.content)) = TarBlock + Len(e.content) + Padding(e) + 0
    BY <1>4, <1>a DEF EntryStreamSize
  <2>4. Len(Own(e)) = EntryStreamSize(e.path, Len(e.content))
    BY <1>a, <2>3
  <2> QED
    BY <1>1, <1>4, <2>1, <2>2, <2>4 DEF EntryStream
<1> QED
  BY <1>3, <1>4

LEMMA LongNameMakes ==
    ASSUME NEW units, Readable(units), NEW at \in Nat, NEW e, Fits(e), Lies(LongPart(e), units, at)
    PROVE  Continued(units, <<>>, at) = Continued(units, e.path, at + Len(LongPart(e)))
<1> DEFINE n == Len(e.path)
           size == NameSize(e)
           pad == NamePadding(e)
           b == at + TarBlock
           h == NameHeader(e)
           piece == SubSeq(units, b + 1, b + size)
<1>0. /\ n \in Nat /\ size \in Nat /\ size = n + 1 /\ pad \in Nat /\ TarBlock \in Nat /\ b \in Nat /\ Plain(units)
      /\ Len(units) \in Nat /\ Len(LongPart(e)) = (TarBlock + n) + (1 + pad) /\ n + 1 <= LongNameLimit
      /\ LongNameLimit \in Nat
  <2>1. n < LongNameLimit /\ LongNameLimit \in Nat
    BY TarAssumption DEF Fits
  <2>2. /\ n \in Nat /\ size \in Nat /\ pad \in Nat /\ TarBlock \in Nat
        /\ Len(LongPart(e)) = (TarBlock + n) + (1 + pad)
    BY LongSizes, Block1
  <2>3. Plain(units) /\ Len(units) \in Nat /\ size = n + 1
    BY ReadableIs, PlainIs DEF NameSize
  <2>4. n + 1 <= LongNameLimit /\ b \in Nat
    BY <2>1, <2>2
  <2> QED
    BY <2>1, <2>2, <2>3, <2>4
<1>1. /\ Lies(Block(h), units, at) /\ Lies(Data(e.path), units, b) /\ Lies(NameEnd(e), units, b + n)
  <2>1. Lies(NameStart(e), units, at) /\ Lies(NameEnd(e), units, at + (TarBlock + n))
    <3>1. Plain(NameStart(e)) /\ Plain(NameEnd(e)) /\ LongPart(e) = NameStart(e) \o NameEnd(e)
          /\ Len(NameStart(e)) = TarBlock + n
      BY LongSizes DEF LongPart
    <3>2. Lies(NameStart(e), units, at) /\ Lies(NameEnd(e), units, at + Len(NameStart(e)))
      BY <1>0, <3>1, LiesApart
    <3> QED
      BY <3>1, <3>2
  <2>2. Lies(Block(h), units, at) /\ Lies(Data(e.path), units, b)
    <3>1. Plain(Block(h)) /\ Plain(Data(e.path)) /\ NameStart(e) = Block(h) \o Data(e.path)
          /\ Len(Block(h)) = TarBlock
      BY LongSizes DEF NameStart
    <3>2. Lies(Block(h), units, at) /\ Lies(Data(e.path), units, at + Len(Block(h)))
      BY <1>0, <2>1, <3>1, LiesApart
    <3> QED
      BY <3>1, <3>2
  <2>3. at + (TarBlock + n) = b + n
    <3> HIDE DEF n
    <3> QED
      BY <1>0, SumOfThree
  <2> QED
    BY <2>1, <2>2, <2>3
<1>2. /\ at + TarBlock <= Len(units) /\ units[at + 1].kind = "header" /\ HeaderAt(units, at) = h
      /\ SubSeq(units, at + 1, at + TarBlock) = Block(HeaderAt(units, at))
  BY <1>1, BlockLies
<1>3. /\ HeaderAt(units, at).type = "L" /\ SizeAt(units, at) = size
      /\ SizeAt(units, at) \in 1..LongNameLimit /\ SizeValid(HeaderAt(units, at).size)
  <2>1. h.type = "L" /\ h.size = SizeField(size)
    BY DEF NameHeader, Header
  <2>2. size < SizeLimit
    <3>1. SizeLimit \in Nat
      BY TarAssumption
    <3> QED
      BY <1>0, <3>1, SizeAssumption
  <2>3. ParseSize(SizeField(size)) = size /\ SizeValid(SizeField(size))
    BY <1>0, <2>2, SizeRead
  <2> HIDE DEF size, h
  <2>4. SizeAt(units, at) = size /\ SizeValid(HeaderAt(units, at).size)
    BY <1>2, <2>1, <2>3 DEF SizeAt
  <2> QED
    BY <1>0, <1>2, <2>1, <2>4
<1>4. Continued(units, <<>>, at) = InName(units, <<>>, b, size, pad)
  <2>1. Continued(units, <<>>, at)
          = InName(units, <<>>, at + TarBlock, SizeAt(units, at), Padded(SizeAt(units, at)))
    BY <1>2, <1>3, LongNameThere
  <2> QED
    BY <1>3, <2>1 DEF NamePadding
<1>5. b + size + pad <= Len(units) /\ b + size + pad = at + Len(LongPart(e)) /\ b + size <= Len(units)
      /\ b <= b + size /\ b + size \in Nat /\ (b + size) - b = size
  <2>1. at + Len(LongPart(e)) <= Len(units)
    BY DEF Lies
  <2>2. at + Len(LongPart(e)) = b + ((n + 1) + pad)
    <3> HIDE DEF n, pad, size
    <3>1. at + Len(LongPart(e)) = at + ((TarBlock + n) + (1 + pad))
      BY <1>0
    <3>2. at + ((TarBlock + n) + (1 + pad)) = (at + TarBlock) + ((n + 1) + pad)
      BY <1>0
    <3> QED
      BY <3>1, <3>2
  <2> HIDE DEF b, pad, n, size
  <2> QED
    BY <1>0, <2>1, <2>2
<1>6. TextOf(piece) = e.path /\ Plain(piece)
  <2> DEFINE c == b + size
  <2>1. c \in Nat /\ b <= c /\ c <= Len(units) /\ c - b = size
    BY <1>5
  <2>2. Plain(piece) /\ Len(piece) = size /\ \A i \in 1..size : piece[i] = units[b + i]
    <3> HIDE DEF c, b
    <3>1. Plain(SubSeq(units, b + 1, c)) /\ Len(SubSeq(units, b + 1, c)) = c - b
          /\ \A i \in 1..(c - b) : SubSeq(units, b + 1, c)[i] = units[b + i]
      BY <1>0, <2>1, Piece
    <3> QED
      BY <2>1, <3>1 DEF c
  <2>3. \A i \in 1..n : units[b + i] = Datum(e.path[i])
    <3>1. Len(Data(e.path)) = n /\ \A i \in 1..n : Data(e.path)[i] = Datum(e.path[i])
      BY DataAre DEF Fits
    <3> HIDE DEF b, n
    <3> QED
      BY <1>1, <3>1 DEF Lies
  <2>4. units[(b + n) + 1] = Zero
    <3>1. 1 + pad \in Nat /\ 1 \in 1..(1 + pad)
      BY <1>0
    <3>2. Len(NameEnd(e)) = 1 + pad /\ NameEnd(e)[1] = Zero
      BY <3>1, ZerosAre DEF NameEnd
    <3> HIDE DEF b, n, pad
    <3> QED
      BY <1>1, <3>1, <3>2 DEF Lies
  <2> HIDE DEF piece, b
  <2>5. \A i \in 1..n : i \in 1..size
    BY <1>0
  <2>6. n + 1 \in 1..size /\ b + (n + 1) = (b + n) + 1 /\ size = n + 1
    BY <1>0
  <2>7. piece[n + 1] = Zero /\ \A i \in 1..n : piece[i] = Datum(e.path[i])
    BY <2>2, <2>3, <2>4, <2>5, <2>6
  <2> QED
    BY <2>2, <2>6, <2>7, TextComesBack DEF Fits
<1>7. e.path # <<>>
  BY DEF Fits, Unsafe
<1>8. <<>> \o piece = piece
  BY <1>6, JoinEmpty
<1> HIDE DEF piece
<1>9. TextOf(<<>> \o SubSeq(units, b + 1, b + size)) = e.path
  BY <1>6, <1>8 DEF piece
<1> HIDE DEF b, size, pad
<1>10. InName(units, <<>>, b, size, pad) = Entry(units, Made(units), b + size + pad, e.path)
  BY <1>5, <1>7, <1>9 DEF InName
<1> QED
  BY <1>4, <1>5, <1>7, <1>10 DEF Continued

LEMMA EntryMakes ==
    ASSUME NEW units, Readable(units), NEW at \in Nat, NEW e, Fits(e), Lies(EntryStream(e), units, at)
    PROVE  Continued(units, <<>>, at) = Under(Part(e), Continued(units, <<>>, at + Len(EntryStream(e))))
<1>0. /\ Plain(units) /\ Plain(Own(e)) /\ Plain(LongPart(e)) /\ Len(LongPart(e)) \in Nat /\ Len(Own(e)) \in Nat
  BY FitsSizes, LongSizes, ReadableIs, PlainIs
<1>1. CASE NeedsLongName(e.path)
  <2> DEFINE b == at + Len(LongPart(e))
  <2>1. EntryStream(e) = LongPart(e) \o Own(e)
    BY <1>1, EntryStreamIs
  <2>a. Lies(EntryStream(e), units, at)
    OBVIOUS
  <2>b. Lies(LongPart(e), units, at) /\ Lies(Own(e), units, at + Len(LongPart(e)))
    BY <1>0, <2>1, <2>a, LiesApart
  <2>2. Lies(LongPart(e), units, at) /\ Lies(Own(e), units, b) /\ b \in Nat
    BY <1>0, <2>b
  <2>3. Continued(units, <<>>, at) = Continued(units, e.path, b)
    BY <2>2, LongNameMakes
  <2>4. e.path # <<>>
    BY DEF Fits, Unsafe
  <2>5. Continued(units, e.path, b) = Under(Part(e), Continued(units, <<>>, b + Len(Own(e))))
    <3> HIDE DEF b
    <3> QED
      BY <2>2, <2>4, OwnMakes
  <2>6. b + Len(Own(e)) = at + Len(EntryStream(e))
    <3>1. Len(EntryStream(e)) = Len(LongPart(e)) + Len(Own(e))
      BY <1>0, <2>1, Join
    <3> QED
      BY <1>0, <3>1
  <2> QED
    BY <2>3, <2>5, <2>6
<1>2. CASE ~NeedsLongName(e.path)
  <2>1. EntryStream(e) = Own(e)
    BY <1>2, EntryStreamIs
  <2> QED
    BY <1>2, <2>1, OwnMakes
<1> QED
  BY <1>1, <1>2

-----------------------------------------------------------------------------
(* Components                                                              *)

NextRead(before, c) ==
    IF c = Slash THEN [parts |-> Kept(before.parts, before.part), part |-> <<>>]
    ELSE [parts |-> before.parts, part |-> Append(before.part, c)]

Reads(r, stored, n) ==
    r = [i \in 0..n |-> IF i = 0 THEN [parts |-> <<>>, part |-> <<>>] ELSE NextRead(r[i - 1], stored[i])]

LEMMA ReadsExist ==
    ASSUME NEW stored, NEW n \in Nat
    PROVE  \E r : Reads(r, stored, n)
<1> DEFINE S == {k \in 0..n : \E r : Reads(r, stored, k)}
<1>1. 0 \in S
  <2> DEFINE r == [i \in 0..0 |-> [parts |-> <<>>, part |-> <<>>]]
  <2>1. r = [i \in 0..0 |-> IF i = 0 THEN [parts |-> <<>>, part |-> <<>>] ELSE NextRead(r[i - 1], stored[i])]
    OBVIOUS
  <2> HIDE DEF r
  <2> QED
    BY <2>1 DEF Reads
<1>2. ASSUME NEW k \in 0..(n - 1), k \in S PROVE k + 1 \in S
  <2>1. PICK r : Reads(r, stored, k)
    BY <1>2
  <2> DEFINE w == [i \in 0..(k + 1) |-> IF i = k + 1 THEN NextRead(r[k], stored[i]) ELSE r[i]]
  <2>2. ASSUME NEW i \in 0..(k + 1)
        PROVE  w[i] = IF i = 0 THEN [parts |-> <<>>, part |-> <<>>] ELSE NextRead(w[i - 1], stored[i])
    <3>0. k \in Nat
      OBVIOUS
    <3>1. CASE i = k + 1
      <4>1. i # 0 /\ i - 1 = k /\ k \in 0..(k + 1) /\ k # k + 1
        BY <3>0, <3>1
      <4>2. w[i - 1] = r[k]
        BY <4>1
      <4>3. w[i] = NextRead(r[k], stored[i])
        BY <3>1
      <4> QED
        BY <4>1, <4>2, <4>3
    <3>2. CASE i # k + 1
      <4>1. i \in 0..k
        BY <3>0, <3>2
      <4>2. r[i] = IF i = 0 THEN [parts |-> <<>>, part |-> <<>>] ELSE NextRead(r[i - 1], stored[i])
        BY <2>1, <4>1 DEF Reads
      <4>3. w[i] = r[i]
        BY <3>2
      <4>4. i # 0 => w[i - 1] = r[i - 1]
        <5>1. i # 0 => i - 1 \in 0..(k + 1) /\ i - 1 # k + 1
          BY <3>0, <4>1
        <5> QED
          BY <5>1
      <4> QED
        BY <4>2, <4>3, <4>4
    <3> QED
      BY <3>1, <3>2
  <2>3. w = [i \in 0..(k + 1) |-> w[i]]
    OBVIOUS
  <2> HIDE DEF w
  <2>4. w = [i \in 0..(k + 1) |-> IF i = 0 THEN [parts |-> <<>>, part |-> <<>>] ELSE NextRead(w[i - 1], stored[i])]
    BY <2>2, <2>3
  <2>5. k + 1 \in 0..n
    OBVIOUS
  <2> QED
    BY <2>4, <2>5 DEF Reads
<1>3. n \in S
  <2> HIDE DEF S
  <2>1. 0..n \subseteq S
    BY <1>1, <1>2, Ascent
  <2> QED
    BY <2>1
<1> QED
  BY <1>3

LEMMA ComponentsAre ==
    ASSUME NEW stored \in Seq(Nat)
    PROVE  Components(stored) \in Seq(Seq(Nat))
<1> DEFINE n == Len(stored)
           r == CHOOSE r : Reads(r, stored, n)
           Parsed(x) == x.parts \in Seq(Seq(Nat)) /\ x.part \in Seq(Nat)
           S == {i \in 0..n : Parsed(r[i])}
<1>0. n \in Nat
  OBVIOUS
<1>1. Reads(r, stored, n)
  BY <1>0, ReadsExist
<1>2. Components(stored) = Kept(r[n].parts, r[n].part)
  BY DEF Components, Reads, NextRead
<1>3. \A parts \in Seq(Seq(Nat)), part \in Seq(Nat) : Kept(parts, part) \in Seq(Seq(Nat))
  BY DEF Kept
<1> HIDE DEF r
<1>4. 0 \in S
  <2>1. r[0] = [parts |-> <<>>, part |-> <<>>]
    BY <1>0, <1>1 DEF Reads
  <2>2. r[0].parts = <<>> /\ r[0].part = <<>> /\ <<>> \in Seq(Nat) /\ <<>> \in Seq(Seq(Nat))
    BY <2>1
  <2>3. Parsed(r[0])
    BY <2>2
  <2>4. 0 \in 0..n
    BY <1>0
  <2> HIDE DEF Parsed
  <2> QED
    BY <2>3, <2>4
<1>5. ASSUME NEW i \in 0..(n - 1), i \in S PROVE i + 1 \in S
  <2>1. i + 1 \in 0..n /\ i + 1 \in 1..n /\ i + 1 # 0 /\ (i + 1) - 1 = i
    BY <1>0
  <2>2. r[i + 1] = NextRead(r[i], stored[i + 1])
    BY <1>1, <2>1 DEF Reads
  <2>3. r[i].parts \in Seq(Seq(Nat)) /\ r[i].part \in Seq(Nat) /\ stored[i + 1] \in Nat
    BY <1>5, <2>1
  <2> DEFINE x == r[i]
             c == stored[i + 1]
             y == NextRead(x, c)
  <2> HIDE DEF x, c
  <2>4. x.parts \in Seq(Seq(Nat)) /\ x.part \in Seq(Nat) /\ c \in Nat
    BY <2>3 DEF x, c
  <2>5. y.parts \in Seq(Seq(Nat)) /\ y.part \in Seq(Nat)
    <3>1. CASE c = Slash
      <4>1. y.parts = Kept(x.parts, x.part) /\ y.part = <<>>
        BY <3>1 DEF NextRead
      <4>2. <<>> \in Seq(Nat)
        OBVIOUS
      <4> QED
        BY <1>3, <2>4, <4>1, <4>2
    <3>2. CASE c # Slash
      <4>1. y.parts = x.parts /\ y.part = Append(x.part, c)
        BY <3>2 DEF NextRead
      <4>2. Append(x.part, c) \in Seq(Nat)
        BY <2>4
      <4> QED
        BY <2>4, <4>1, <4>2
    <3> QED
      BY <3>1, <3>2
  <2>6. Parsed(r[i + 1])
    BY <2>2, <2>5 DEF x, c
  <2> QED
    BY <2>1, <2>6
<1> HIDE DEF S, n
<1>6. n \in S
  <2>1. 0..n \subseteq S
    BY <1>0, <1>4, <1>5, Ascent
  <2> QED
    BY <1>0, <2>1
<1> QED
  BY <1>2, <1>3, <1>6 DEF S

-----------------------------------------------------------------------------
(* The tree that went in                                                   *)

Path(i) == Components(entries[i].path)
Node(e) == IF e.directory THEN Directory ELSE File(e.content)

OfATree ==
    /\ Plain(entries)
    /\ \A i \in 1..Len(entries) :
         /\ Fits(entries[i]) /\ Path(i) # <<>>
         /\ \A above \in Prefixes(Front(Path(i))) \ {<<>>} :
              \E j \in 1..Len(entries) : entries[j].directory /\ Path(j) = above
         /\ \A j \in 1..Len(entries) : Path(j) = Path(i) => entries[j] = entries[i]

LEMMA OriginalIs ==
    ASSUME OfATree
    PROVE  /\ OriginalTree = [p \in DOMAIN OriginalTree |-> OriginalTree[p]]
           /\ DOMAIN OriginalTree = {Path(i) : i \in 1..Len(entries)} \cup {<<>>}
           /\ OriginalTree[<<>>] = Directory
           /\ \A i \in 1..Len(entries) : OriginalTree[Path(i)] = Node(entries[i])
<1> DEFINE P == {Path(i) : i \in 1..Len(entries)}
           Of(p) == CHOOSE i \in 1..Len(entries) : Path(i) = p
           named == [p \in P |-> Node(entries[Of(p)])]
<1>0. DOMAIN entries = 1..Len(entries)
  BY PlainIs DEF OfATree
<1>1. OriginalTree = Over(named, EmptyRoot)
  BY <1>0 DEF OriginalTree, Path, Node
<1>2. DOMAIN named = P /\ \A p \in P : named[p] = Node(entries[Of(p)])
  OBVIOUS
<1>3. \A i \in 1..Len(entries) : Path(i) \in P
  OBVIOUS
<1>4. <<>> \notin P
  BY DEF OfATree
<1>5. ASSUME NEW i \in 1..Len(entries) PROVE Node(entries[Of(Path(i))]) = Node(entries[i])
  <2> DEFINE j == Of(Path(i))
  <2>1. j \in 1..Len(entries) /\ Path(j) = Path(i)
    OBVIOUS
  <2> HIDE DEF j
  <2>2. entries[j] = entries[i]
    BY <2>1 DEF OfATree
  <2> QED
    BY <2>2 DEF j
<1> HIDE DEF Of, named, P
<1>6. /\ DOMAIN Over(named, EmptyRoot) = P \cup {<<>>}
      /\ Over(named, EmptyRoot) = [p \in DOMAIN Over(named, EmptyRoot) |-> Over(named, EmptyRoot)[p]]
      /\ \A p \in P : Over(named, EmptyRoot)[p] = named[p]
      /\ Over(named, EmptyRoot)[<<>>] = Directory
  BY <1>2, <1>4 DEF Over, EmptyRoot
<1>7. \A i \in 1..Len(entries) : OriginalTree[Path(i)] = Node(entries[i])
  BY <1>1, <1>2, <1>3, <1>5, <1>6
<1> QED
  BY <1>1, <1>6, <1>7 DEF P

LEMMA PrefixIs ==
    ASSUME NEW path \in Seq(Seq(Nat)), path # <<>>
    PROVE  /\ path \in Prefixes(path)
           /\ \A p \in Prefixes(path) : p = path \/ p \in Prefixes(Front(path))
<1> DEFINE n == Len(path)
<1>0. n \in Nat /\ n >= 1 /\ Plain(path) /\ SubSeq(path, 1, n) = path /\ n - 1 \in Nat
  BY PlainSeq
<1>1. path \in Prefixes(path)
  <2>1. n \in 0..n
    BY <1>0
  <2> QED
    BY <1>0, <2>1 DEF Prefixes
<1>2. ASSUME NEW p \in Prefixes(path) PROVE p = path \/ p \in Prefixes(Front(path))
  <2>1. PICK l \in 0..n : p = SubSeq(path, 1, l)
    BY DEF Prefixes
  <2>2. CASE l = n
    BY <1>0, <2>1, <2>2
  <2>3. CASE l # n
    <3> DEFINE m == n - 1
               above == SubSeq(path, 1, m)
    <3>0. n \in Nat /\ l \in 0..n /\ m \in Nat /\ m = n - 1
      BY <1>0
    <3> HIDE DEF m, n
    <3>1. l \in 0..m /\ l \in Nat /\ m \in Nat /\ m <= n /\ 0 <= m /\ 0 \in Nat /\ 0 <= l /\ l <= m - 0
          /\ 0 + 1 = 1 /\ 0 + 0 + 1 = 1 /\ 0 + l = l
      BY <3>0, <2>3
    <3>2. Plain(SubSeq(path, 0 + 1, m)) /\ Len(SubSeq(path, 0 + 1, m)) = m - 0
      BY <1>0, <3>1, Piece DEF n
    <3>3. Len(above) = m
      BY <3>1, <3>2
    <3>4. SubSeq(SubSeq(path, 0 + 1, m), 0 + 1, l) = SubSeq(path, 0 + 0 + 1, 0 + l)
      BY <1>0, <3>1, PieceOfPiece DEF n
    <3>5. SubSeq(above, 1, l) = p
      BY <2>1, <3>1, <3>4
    <3>6. Front(path) = above
      BY DEF Front, m, n
    <3> HIDE DEF above
    <3> QED
      BY <3>1, <3>3, <3>5, <3>6 DEF Prefixes
  <2> QED
    BY <2>2, <2>3
<1> QED
  BY <1>1, <1>2

(* What is laid down belongs to the tree.                                  *)
Faithful(f) == \A p \in DOMAIN f : p \in DOMAIN OriginalTree /\ f[p] = OriginalTree[p]

LEMMA AboveIs ==
    ASSUME OfATree, NEW i \in 1..Len(entries), NEW p \in Prefixes(Front(Path(i)))
    PROVE  p \in DOMAIN OriginalTree /\ OriginalTree[p] = Directory
<1>1. CASE p = <<>>
  BY <1>1, OriginalIs
<1>2. CASE p # <<>>
  <2>1. PICK j \in 1..Len(entries) : entries[j].directory /\ Path(j) = p
    BY <1>2 DEF OfATree
  <2>2. Node(entries[j]) = Directory
    BY <2>1 DEF Node
  <2> QED
    BY <2>1, <2>2, OriginalIs
<1> QED
  BY <1>1, <1>2

LEMMA PartIs ==
    ASSUME OfATree, NEW i \in 1..Len(entries)
    PROVE  Faithful(Part(entries[i])) /\ Path(i) \in DOMAIN Part(entries[i])
<1> DEFINE path == Path(i)
           e == entries[i]
<1>1. path \in Seq(Seq(Nat)) /\ path # <<>> /\ e.directory \in BOOLEAN
  BY ComponentsAre DEF OfATree, Fits, Path
<1>2. path \in DOMAIN OriginalTree /\ OriginalTree[path] = Node(e)
  BY OriginalIs
<1>3. \A p \in Prefixes(Front(path)) : p \in DOMAIN OriginalTree /\ OriginalTree[p] = Directory
  BY AboveIs
<1>4. path \in Prefixes(path) /\ \A p \in Prefixes(path) : p = path \/ p \in Prefixes(Front(path))
  BY <1>1, PrefixIs
<1>5. Part(e) = IF e.directory THEN Directories(path)
                ELSE Over(FileAt(path, e.content), Directories(Front(path)))
  BY DEF Part, Path
<1> HIDE DEF path, e
<1>6. CASE e.directory
  <2>1. Node(e) = Directory /\ Part(e) = Directories(path)
    BY <1>5, <1>6 DEF Node
  <2>2. DOMAIN Part(e) = Prefixes(path) /\ \A p \in Prefixes(path) : Part(e)[p] = Directory
    BY <2>1 DEF Directories
  <2> QED
    BY <1>2, <1>3, <1>4, <2>1, <2>2 DEF Faithful, path, e
<1>7. CASE ~e.directory
  <2> DEFINE above == Prefixes(Front(path))
  <2>1. Node(e) = File(e.content) /\ Part(e) = Over(FileAt(path, e.content), Directories(Front(path)))
    BY <1>5, <1>7 DEF Node
  <2>2. /\ DOMAIN FileAt(path, e.content) = {path} /\ FileAt(path, e.content)[path] = File(e.content)
        /\ DOMAIN Directories(Front(path)) = above /\ \A p \in above : Directories(Front(path))[p] = Directory
    BY DEF FileAt, Directories
  <2> HIDE DEF above
  <2>3. /\ DOMAIN Part(e) = {path} \cup above
        /\ Part(e)[path] = File(e.content)
        /\ \A p \in above : p # path => Part(e)[p] = Directory
    BY <2>1, <2>2 DEF Over
  <2>4. Faithful(Part(e)) /\ path \in DOMAIN Part(e)
    BY <1>2, <1>3, <2>1, <2>3 DEF Faithful, above
  <2> QED
    BY <2>4 DEF path, e
<1> QED
  BY <1>1, <1>6, <1>7

-----------------------------------------------------------------------------
(* A whole stream makes the tree                                           *)

(* Where the entries end.                                                  *)
Offset == CHOOSE t : Totals(t)

LEMMA EntriesFit ==
    ASSUME OfATree
    PROVE  EntriesListed /\ Len(entries) \in Nat /\ \A i \in 1..Len(entries) : Fits(entries[i])
<1>1. Plain(entries) /\ \A i \in 1..Len(entries) : Fits(entries[i])
  BY DEF OfATree
<1>2. \A i \in 1..Len(entries) : Listed(entries[i])
  BY <1>1 DEF Fits, Listed
<1> QED
  BY <1>1, <1>2, PlainIs DEF EntriesListed

LEMMA OffsetIs ==
    ASSUME OfATree
    PROVE  /\ Offset[0] = 0 /\ TotalSize = Offset[Len(entries)] + 2 * TarBlock
           /\ \A i \in 0..Len(entries) : Offset[i] \in Nat
           /\ \A i \in 1..Len(entries) : Offset[i] = Offset[i - 1] + Len(EntryStream(entries[i]))
<1> DEFINE n == Len(entries)
           S == {i \in 0..n : Offset[i] \in Nat}
<1>0. n \in Nat /\ EntriesListed /\ \A i \in 1..n : Fits(entries[i])
  BY EntriesFit
<1>1. Totals(Offset)
  BY <1>0, TotalsExist DEF Offset
<1>2. TotalSize = Offset[n] + 2 * TarBlock
  BY DEF TotalSize, Totals, Offset
<1> HIDE DEF n
<1>3. Offset[0] = 0
  <2>1. 0 \in 0..n
    BY <1>0
  <2> QED
    BY <1>1, <2>1 DEF Totals, n
<1>4. ASSUME NEW i \in 1..n
      PROVE  Offset[i] = Offset[i - 1] + Len(EntryStream(entries[i])) /\ Len(EntryStream(entries[i])) \in Nat
  <2>1. i \in 0..n /\ i # 0
    BY <1>0
  <2>2. Offset[i] = Offset[i - 1] + EntryStreamSize(entries[i].path, Len(entries[i].content))
    BY <1>1, <2>1 DEF Totals, n
  <2>3. Plain(EntryStream(entries[i]))
        /\ Len(EntryStream(entries[i])) = EntryStreamSize(entries[i].path, Len(entries[i].content))
    BY <1>0, EntryStreamIs
  <2> QED
    BY <2>2, <2>3, PlainIs
<1>5. 0 \in S
  BY <1>0, <1>3
<1>6. ASSUME NEW i \in 0..(n - 1), i \in S PROVE i + 1 \in S
  <2>1. i + 1 \in 0..n /\ i + 1 \in 1..n /\ (i + 1) - 1 = i
    BY <1>0
  <2>2. Offset[i + 1] = Offset[i] + Len(EntryStream(entries[i + 1])) /\ Len(EntryStream(entries[i + 1])) \in Nat
    BY <1>4, <2>1
  <2>3. Offset[i] \in Nat
    BY <1>6
  <2>4. Offset[i + 1] \in Nat
    BY <2>2, <2>3
  <2> QED
    BY <2>1, <2>4
<1> HIDE DEF S
<1>7. 0..n \subseteq S
  BY <1>0, <1>5, <1>6, Ascent
<1>8. \A i \in 0..n : Offset[i] \in Nat
  BY <1>7 DEF S
<1> QED
  BY <1>2, <1>3, <1>4, <1>8 DEF n

(* A stream of the first n entries, and the whole one.                     *)
Stored(s, n) ==
    /\ n \in 0..Len(entries) /\ Readable(s)
    /\ Len(s) = Offset[n]
    /\ \A i \in 1..n : Lies(EntryStream(entries[i]), s, Offset[i - 1])

Entire(units) == \E s : Stored(s, Len(entries)) /\ units = s \o Zeros(2 * TarBlock)

LEMMA StoredNothing == OfATree => Stored(<<>>, 0)
<1> SUFFICES ASSUME OfATree PROVE Stored(<<>>, 0)
  OBVIOUS
<1>1. Len(entries) \in Nat /\ Offset[0] = 0
  BY EntriesFit, OffsetIs
<1>2. 0 \in 0..Len(entries) /\ 1..0 = {}
  BY <1>1
<1> QED
  BY <1>1, <1>2, ReadableEmpty DEF Stored

LEMMA EntryStreamReadable ==
    ASSUME NEW e, Fits(e)
    PROVE  Readable(EntryStream(e))
<1>1. e.path \in Seq(Nat) /\ Readable(e.content) /\ Len(e.content) \in Nat /\ Padding(e) \in Nat
  BY FitsSizes DEF Fits
<1>2. Readable(StagedHeader(e)) /\ Readable(Zeros(Padding(e)))
  BY <1>1, StagedReadable, ZerosAre
<1> QED
  BY <1>1, <1>2, ReadableJoin DEF EntryStream, Content

LEMMA StoredNext ==
    ASSUME OfATree, NEW s, NEW n \in 1..Len(entries), Stored(s, n - 1)
    PROVE  Stored(s \o EntryStream(entries[n]), n)
<1> DEFINE more == EntryStream(entries[n])
           longer == s \o more
<1>0. Len(entries) \in Nat /\ n \in Nat /\ n - 1 \in Nat /\ n \in 0..Len(entries) /\ 1..n = 1..(n - 1) \cup {n}
  BY EntriesFit
<1>1. Plain(s) /\ Readable(s) /\ Len(s) = Offset[n - 1]
      /\ \A i \in 1..(n - 1) : Lies(EntryStream(entries[i]), s, Offset[i - 1])
  BY ReadableIs DEF Stored
<1>2. Offset[n] = Offset[n - 1] + Len(more) /\ Readable(more) /\ Plain(more)
  BY OffsetIs, EntriesFit, EntryStreamReadable, ReadableIs
<1>3. Readable(longer) /\ Len(longer) = Offset[n]
  <2> HIDE DEF more
  <2>1. Readable(longer)
    BY <1>1, <1>2, ReadableJoin
  <2>2. Len(longer) = Len(s) + Len(more)
    BY <1>1, Join
  <2> QED
    BY <1>1, <1>2, <2>1, <2>2
<1>4. ASSUME NEW i \in 1..(n - 1) PROVE Lies(EntryStream(entries[i]), longer, Offset[i - 1])
  <2>1. i \in 1..Len(entries) /\ i - 1 \in 0..Len(entries)
    BY <1>0
  <2>2. Plain(EntryStream(entries[i])) /\ Offset[i - 1] \in Nat
    BY <2>1, EntriesFit, EntryStreamIs, OffsetIs
  <2>3. Lies(EntryStream(entries[i]), s, Offset[i - 1])
    BY <1>1
  <2> HIDE DEF more
  <2> QED
    BY <1>1, <1>2, <2>2, <2>3, LiesBefore
<1>5. Lies(more, longer, Offset[n - 1])
  <2> HIDE DEF more
  <2>1. Lies(more, longer, Len(s))
    BY <1>1, <1>2, LiesBehind
  <2> QED
    BY <1>1, <2>1
<1> QED
  BY <1>0, <1>3, <1>4, <1>5 DEF Stored

LEMMA Descent ==
    ASSUME NEW n \in Nat, NEW S, n \in S, \A i \in 1..n : i \in S => i - 1 \in S
    PROVE  0 \in S
<1> DEFINE T == {k \in 0..n : n - k \in S}
<1>1. 0 \in T
  OBVIOUS
<1>2. ASSUME NEW k \in 0..(n - 1), k \in T PROVE k + 1 \in T
  <2>1. n - k \in 1..n /\ (n - k) - 1 = n - (k + 1) /\ k + 1 \in 0..n
    OBVIOUS
  <2>2. n - k \in S
    BY <1>2
  <2>3. (n - k) - 1 \in S
    BY <2>1, <2>2
  <2> QED
    BY <2>1, <2>3
<1> HIDE DEF T
<1>3. 0..n \subseteq T
  BY <1>1, <1>2, Ascent
<1>4. n \in 0..n /\ n - n = 0
  OBVIOUS
<1> QED
  BY <1>3, <1>4 DEF T

(* What everything behind the first i entries makes.                       *)
Rest(units, i, f) ==
    /\ Made(units)[Offset[i]] = Holds(f)
    /\ Faithful(f)
    /\ \A j \in (i + 1)..Len(entries) : Path(j) \in DOMAIN f

LEMMA RestGrows ==
    ASSUME OfATree, NEW units, Readable(units), NEW i \in 1..Len(entries), NEW f, Rest(units, i, f),
           Lies(EntryStream(entries[i]), units, Offset[i - 1])
    PROVE  Rest(units, i - 1, Over(f, Part(entries[i])))
<1> DEFINE e == entries[i]
           at == Offset[i - 1]
           size == Len(EntryStream(e))
           to == Offset[i]
           g == Over(f, Part(e))
<1>0. Len(entries) \in Nat /\ Fits(e) /\ Plain(units) /\ Len(units) \in Nat
  BY EntriesFit, ReadableIs, PlainIs
<1>1. i - 1 \in 0..Len(entries) /\ i \in 0..Len(entries) /\ (i - 1) + 1 = i
      /\ i..Len(entries) = {i} \cup (i + 1)..Len(entries)
  BY <1>0
<1>2. at \in Nat /\ to = at + size /\ to \in Nat
  BY <1>1, OffsetIs
<1>3. size \in Nat /\ to <= Len(units)
  <2>1. Plain(EntryStream(e))
    BY <1>0, EntryStreamIs
  <2> QED
    BY <1>2, <2>1, PlainIs DEF Lies
<1>4. at \in 0..Len(units) /\ to \in 0..Len(units)
  <2> HIDE DEF at, to, size
  <2> QED
    BY <1>0, <1>2, <1>3
<1>5. Made(units)[at] = Holds(g)
  <2>1. Continued(units, <<>>, at) = Under(Part(e), Continued(units, <<>>, to))
    <3> HIDE DEF e
    <3>1. Continued(units, <<>>, at) = Under(Part(e), Continued(units, <<>>, at + size))
      BY <1>0, <1>2, EntryMakes DEF e
    <3> QED
      BY <1>2, <3>1
  <2>2. Made(units)[at] = Continued(units, <<>>, at) /\ Made(units)[to] = Continued(units, <<>>, to)
    BY <1>4, ContinuedIs
  <2>3. Made(units)[to] = Holds(f)
    BY DEF Rest
  <2>4. Under(Part(e), Holds(f)) = Holds(g)
    BY DEF Under, Holds, Refused
  <2> QED
    BY <2>1, <2>2, <2>3, <2>4
<1>6. Faithful(Part(e)) /\ Path(i) \in DOMAIN Part(e)
  BY PartIs
<1> HIDE DEF e
<1>7. /\ DOMAIN g = DOMAIN f \cup DOMAIN Part(e)
      /\ \A p \in DOMAIN g : g[p] = IF p \in DOMAIN f THEN f[p] ELSE Part(e)[p]
  BY DEF Over
<1>8. Faithful(g)
  BY <1>6, <1>7 DEF Faithful, Rest
<1>9. \A j \in i..Len(entries) : Path(j) \in DOMAIN g
  BY <1>1, <1>6, <1>7 DEF Rest
<1> HIDE DEF g
<1>10. Rest(units, i - 1, g)
  BY <1>1, <1>5, <1>8, <1>9 DEF Rest
<1> QED
  BY <1>10 DEF g, e

LEMMA EntireMakes ==
    ASSUME OfATree, NEW units, Entire(units)
    PROVE  Reference(units) = Holds(OriginalTree)
<1> DEFINE n == Len(entries)
           end == Zeros(2 * TarBlock)
           S == {i \in 0..n : \E f : Rest(units, i, f)}
<1>0. n \in Nat /\ n \in 0..n /\ 2 * TarBlock \in Nat
  BY EntriesFit, Block1
<1>1. PICK s : Stored(s, n) /\ units = s \o end
  BY DEF Entire
<1>2. Readable(s) /\ Plain(s) /\ Len(s) = Offset[n] /\ Plain(end) /\ Readable(end) /\ Len(end) = 2 * TarBlock
  BY <1>0, <1>1, ZerosAre, ReadableIs DEF Stored
<1> HIDE DEF end
<1>3. Readable(units) /\ Plain(units) /\ Len(units) = Len(s) + Len(end) /\ Len(units) \in Nat
  BY <1>1, <1>2, ReadableJoin, Join, PlainIs
<1>4. ASSUME NEW i \in 1..n PROVE Lies(EntryStream(entries[i]), units, Offset[i - 1])
  <2>1. Plain(EntryStream(entries[i])) /\ i - 1 \in 0..n
    BY <1>0, EntriesFit, EntryStreamIs
  <2>2. Offset[i - 1] \in Nat
    BY <2>1, OffsetIs
  <2>3. Lies(EntryStream(entries[i]), s, Offset[i - 1])
    BY <1>1 DEF Stored
  <2> QED
    BY <1>1, <1>2, <2>1, <2>2, <2>3, LiesBefore
<1>5. n \in S
  <2> DEFINE at == Offset[n]
             f == <<>>
  <2>1. Lies(end, units, at)
    BY <1>1, <1>2, LiesBehind
  <2>2. at \in Nat /\ Len(units) = at + Len(end) /\ at \in 0..Len(units)
    <3>1. at \in Nat
      BY <1>0, OffsetIs
    <3>2. Len(units) = at + Len(end) /\ Len(end) \in Nat
      BY <1>2, <1>3, PlainIs
    <3> HIDE DEF at
    <3> QED
      BY <3>1, <3>2
  <2>3. SubSeq(units, at + 1, Len(units)) = end
    BY <1>2, <1>3, <2>1, <2>2, LiesThere
  <2>4. From(units, Made(units), at) = Holds(f)
    BY <2>3 DEF From, end
  <2>5. Made(units)[at] = Holds(f)
    BY <1>3, <2>2, <2>4, ContinuedIs DEF Continued
  <2>6. (n + 1)..n = {}
    BY <1>0
  <2>7. DOMAIN f = {}
    OBVIOUS
  <2>8. Rest(units, n, f)
    BY <2>5, <2>6, <2>7 DEF Rest, Faithful
  <2> QED
    BY <1>0, <2>8
<1>6. ASSUME NEW i \in 1..n, i \in S PROVE i - 1 \in S
  <2>1. PICK f : Rest(units, i, f)
    BY <1>6
  <2>2. Rest(units, i - 1, Over(f, Part(entries[i])))
    BY <1>3, <1>4, <2>1, RestGrows
  <2>3. i - 1 \in 0..n
    BY <1>0
  <2> QED
    BY <2>2, <2>3
<1>7. 0 \in S
  <2> HIDE DEF S, n
  <2> QED
    BY <1>0, <1>5, <1>6, Descent
<1>8. PICK f : Rest(units, 0, f)
  BY <1>7
<1>9. Reference(units) = Holds(Over(f, EmptyRoot))
  <2>1. Made(units)[0] = Holds(f)
    BY <1>8, OffsetIs DEF Rest
  <2> QED
    BY <2>1, ReferenceIs DEF Under, Holds, Refused
<1>10. Over(f, EmptyRoot) = OriginalTree
  <2> DEFINE g == Over(f, EmptyRoot)
  <2>1. 0 + 1 = 1
    OBVIOUS
  <2>2. Faithful(f) /\ \A j \in 1..n : Path(j) \in DOMAIN f
    BY <1>8, <2>1 DEF Rest
  <2>3. /\ DOMAIN g = DOMAIN f \cup {<<>>} /\ g = [p \in DOMAIN g |-> g[p]]
        /\ \A p \in DOMAIN f : g[p] = f[p]
        /\ <<>> \notin DOMAIN f => g[<<>>] = Directory
    BY DEF Over, EmptyRoot
  <2> HIDE DEF g
  <2>4. /\ OriginalTree = [p \in DOMAIN OriginalTree |-> OriginalTree[p]]
        /\ DOMAIN OriginalTree = {Path(i) : i \in 1..n} \cup {<<>>}
        /\ OriginalTree[<<>>] = Directory
    BY OriginalIs
  <2>5. DOMAIN g = DOMAIN OriginalTree
    BY <2>2, <2>3, <2>4 DEF Faithful
  <2>6. \A p \in DOMAIN g : g[p] = OriginalTree[p]
    BY <2>2, <2>3, <2>4 DEF Faithful
  <2>7. g = OriginalTree
    BY <2>3, <2>4, <2>5, <2>6
  <2> QED
    BY <2>7 DEF g
<1> QED
  BY <1>9, <1>10

-----------------------------------------------------------------------------
(* The same entries, the same offsets                                      *)

LEMMA OffsetStays == entries' = entries => Offset' = Offset /\ TotalSize' = TotalSize
BY DEF Offset, Totals, TotalSize

LEMMA OriginalTreeStays == entries' = entries => OriginalTree' = OriginalTree
BY DEF OriginalTree

LEMMA OfATreeStays == OfATree /\ entries' = entries => OfATree'
BY DEF OfATree, Path

-----------------------------------------------------------------------------
(* The constructor lists all of the tree                                   *)

LEMMA NotBeforeItself ==
    ASSUME NEW s \in Seq(Nat)
    PROVE  ~Before(s, s)
<1> DEFINE n == Len(s)
<1>1. n \in Nat /\ Lesser(n, n) = n /\ DOMAIN s = 1..n
  BY DEF Lesser
<1>2. ASSUME NEW i \in 1..(n + 1), IF i > n THEN n < n ELSE s[i] < s[i] PROVE FALSE
  <2>1. ~(n < n)
    BY <1>1
  <2>2. ~(i > n)
    BY <1>2, <2>1
  <2>3. i \in 1..n /\ s[i] < s[i]
    BY <1>1, <1>2, <2>2
  <2>4. s[i] \in Nat
    BY <2>3
  <2> QED
    BY <2>3, <2>4
<1> QED
  BY <1>1, <1>2 DEF Before

LEMMA AllListed ==
    ASSUME NEW t, IsFiniteSet(t), \A e \in t : e.path \in Seq(Nat), NEW listing \in Listings(t)
    PROVE  \A e \in t : \E i \in 1..Len(listing) : listing[i] = e
<1> DEFINE n == Cardinality(t)
<1>0. n \in Nat
  BY FS_CardinalityType
<1> HIDE DEF n
<1>1. /\ listing \in [1..n -> t]
      /\ \A i \in 1..n : \A j \in 1..(i - 1) : Before(listing[j].path, listing[i].path)
  BY DEF Listings, n
<1>2. Len(listing) = n
  <2>1. listing = [i \in 1..n |-> listing[i]]
    BY <1>1
  <2> QED
    BY <1>0, <2>1, PlainMap
<1>3. ASSUME NEW i \in 1..n, NEW j \in 1..n, listing[i] = listing[j] PROVE i = j
  <2>1. ~Before(listing[i].path, listing[j].path) /\ ~Before(listing[j].path, listing[i].path)
    BY <1>1, <1>3, NotBeforeItself
  <2>2. ~(i < j)
    <3>1. i < j => i \in 1..(j - 1)
      BY <1>0
    <3> QED
      BY <1>1, <2>1, <3>1
  <2>3. ~(j < i)
    <3>1. j < i => j \in 1..(i - 1)
      BY <1>0
    <3> QED
      BY <1>1, <2>1, <3>1
  <2> QED
    BY <1>0, <2>2, <2>3
<1>4. listing \in Injection(1..n, t)
  BY <1>1, <1>3 DEF Injection, IsInjective
<1>5. Cardinality(1..n) = n
  <2>1. Cardinality(1..n) = IF 1 > n THEN 0 ELSE n - 1 + 1
    BY <1>0, FS_Interval
  <2> QED
    BY <1>0, <2>1
<1>6. listing \in Surjection(1..n, t)
  BY <1>4, <1>5, FS_Injection DEF n
<1> QED
  BY <1>2, <1>6 DEF Surjection

LEMMA TreeListed ==
    ASSUME NEW t \in Trees, SourceInit(t)
    PROVE  OfATree
<1> DEFINE n == Len(entries)
<1>1. /\ IsFiniteSet(t)
      /\ \A e \in t :
           /\ Fits(e) /\ Components(e.path) # <<>>
           /\ \A above \in Prefixes(Front(Components(e.path))) \ {<<>>} :
                \E d \in t : d.directory /\ Components(d.path) = above
           /\ \A other \in t : Components(other.path) = Components(e.path) => other = e
  <2>1. /\ IsFiniteSet(t)
        /\ \A e \in t :
             /\ e.path \in Seq(Nat) /\ Len(e.path) < LongNameLimit /\ ~Unsafe(e.path)
             /\ e.directory \in BOOLEAN /\ (e.directory => e.content = <<>>)
             /\ Readable(e.content) /\ Len(e.content) < SizeLimit
             /\ Components(e.path) # <<>>
             /\ \A above \in Prefixes(Front(Components(e.path))) \ {<<>>} :
                  \E d \in t : d.directory /\ Components(d.path) = above
             /\ \A other \in t : Components(other.path) = Components(e.path) => other = e
    BY TreesAssumption, Zenon
  <2>2. \A e \in t : Fits(e)
    BY <2>1, Zenon DEF Fits
  <2> QED
    BY <2>1, <2>2, Zenon
<1>2. entries \in Listings(t)
  BY DEF SourceInit
<1>3. Plain(entries) /\ Len(entries) \in Nat
  BY <1>1, <1>2, ListingListed DEF Fits, Listed
<1>4. \A e \in t : \E i \in 1..n : entries[i] = e
  BY <1>1, <1>2, AllListed DEF Fits
<1>5. \A i \in 1..n : entries[i] \in t
  <2>1. entries \in [1..Cardinality(t) -> t]
    BY <1>2 DEF Listings
  <2>2. DOMAIN entries = 1..n
    BY <1>3, PlainIs
  <2> QED
    BY <2>1, <2>2
<1>6. ASSUME NEW i \in 1..n
      PROVE  /\ Fits(entries[i]) /\ Path(i) # <<>>
             /\ \A j \in 1..n : Path(j) = Path(i) => entries[j] = entries[i]
  BY <1>1, <1>5 DEF Path
<1>7. ASSUME NEW i \in 1..n, NEW above \in Prefixes(Front(Path(i))) \ {<<>>}
      PROVE  \E j \in 1..n : entries[j].directory /\ Path(j) = above
  <2>1. entries[i] \in t /\ above \in Prefixes(Front(Components(entries[i].path))) \ {<<>>}
    BY <1>5 DEF Path
  <2>2. PICK d \in t : d.directory /\ Components(d.path) = above
    BY <1>1, <2>1
  <2>3. PICK j \in 1..n : entries[j] = d
    BY <1>4
  <2> QED
    BY <2>2, <2>3 DEF Path
<1> QED
  BY <1>3, <1>6, <1>7 DEF OfATree

-----------------------------------------------------------------------------
(* What the source has produced and has at hand                            *)

Remains(content, from, padding) == SubSeq(content, from + 1, Len(content)) \o Zeros(padding)

FileLeft(content, left, padding) ==
    IF left > 0 THEN Remains(content, Len(content) - left, padding) ELSE <<>>

ToCome   == staged \o FileLeft(entries[currentFile].content, currentRemaining, currentPadding)
Produced == stream \o buffer
InFlight == Produced \o ToCome

LEMMA RemainsMove ==
    ASSUME NEW content, Plain(content), NEW from \in Nat, NEW to \in Nat, from <= to, to <= Len(content),
           NEW padding \in Nat
    PROVE  /\ Remains(content, from, padding) = SubSeq(content, from + 1, to) \o Remains(content, to, padding)
           /\ Plain(SubSeq(content, from + 1, to)) /\ Len(SubSeq(content, from + 1, to)) = to - from
           /\ Plain(Remains(content, to, padding))
<1> DEFINE a == SubSeq(content, from + 1, to)
           b == SubSeq(content, to + 1, Len(content))
           z == Zeros(padding)
<1>1. Len(content) \in Nat /\ Len(content) <= Len(content)
  BY PlainIs
<1>2. Plain(a) /\ Len(a) = to - from /\ Plain(b) /\ Plain(z)
  BY <1>1, Piece, Remainder, ZerosAre
<1>3. a \o b = SubSeq(content, from + 1, Len(content))
  <2> DEFINE size == Len(content)
  <2>1. size \in Nat /\ to <= size /\ size <= Len(content)
    BY <1>1
  <2> HIDE DEF size
  <2>2. SubSeq(content, from + 1, to) \o SubSeq(content, to + 1, size) = SubSeq(content, from + 1, size)
    BY SMTT(30), <2>1, PiecesJoin
  <2> QED
    BY <2>2 DEF size
<1>4. Remains(content, from, padding) = SubSeq(content, from + 1, Len(content)) \o z /\ Remains(content, to, padding) = b \o z
  BY DEF Remains
<1> HIDE DEF a, b, z
<1>5. (a \o b) \o z = a \o (b \o z) /\ Plain(b \o z)
  BY <1>2, JoinJoin, Join
<1> QED
  BY <1>2, <1>3, <1>4, <1>5, Zenon DEF a

LEMMA RemainsEnd ==
    ASSUME NEW content, Plain(content), NEW padding \in Nat
    PROVE  Remains(content, Len(content), padding) = Zeros(padding)
<1>1. Len(content) \in Nat /\ Len(content) <= Len(content) /\ Plain(Zeros(padding))
  BY PlainIs, ZerosAre
<1>2. SubSeq(content, Len(content) + 1, Len(content)) = <<>>
  BY <1>1, EmptyPiece
<1> QED
  BY <1>1, <1>2, JoinEmpty DEF Remains

LEMMA LeftIs ==
    ASSUME NEW content, Plain(content), NEW left \in Nat, left <= Len(content), NEW padding \in Nat
    PROVE  Plain(FileLeft(content, left, padding))
<1>1. CASE left > 0
  <2> DEFINE size == Len(content)
             from == size - left
  <2>1. size \in Nat /\ size <= size
    BY PlainIs
  <2>2. left <= size
    OBVIOUS
  <2> HIDE DEF size
  <2>3. from \in Nat /\ from <= size /\ from <= from
    BY <2>1, <2>2
  <2> HIDE DEF from
  <2>4. Plain(Remains(content, from, padding))
    BY <2>3, RemainsMove DEF size
  <2>5. FileLeft(content, left, padding) = Remains(content, from, padding)
    BY <1>1 DEF FileLeft, from, size
  <2> QED
    BY <2>4, <2>5
<1>2. CASE ~(left > 0)
  BY <1>2, ReadableEmpty DEF FileLeft
<1> QED
  BY <1>1, <1>2

LEMMA Halves ==
    ASSUME NEW s, Plain(s), NEW n \in Nat, n <= Len(s)
    PROVE  /\ s = SubSeq(s, 1, n) \o SubSeq(s, n + 1, Len(s))
           /\ Plain(SubSeq(s, 1, n)) /\ Len(SubSeq(s, 1, n)) = n /\ Plain(SubSeq(s, n + 1, Len(s)))
<1> DEFINE size == Len(s)
<1>0. size \in Nat /\ size <= Len(s) /\ n <= size /\ 0 \in Nat /\ 0 <= n /\ SubSeq(s, 1, size) = s
  BY PlainIs DEF Plain
<1> HIDE DEF size
<1>1. SubSeq(s, 0 + 1, n) \o SubSeq(s, n + 1, size) = SubSeq(s, 0 + 1, size)
  BY <1>0, PiecesJoin
<1>2. Plain(SubSeq(s, 0 + 1, n)) /\ Len(SubSeq(s, 0 + 1, n)) = n - 0 /\ Plain(SubSeq(s, n + 1, size))
  BY <1>0, Piece
<1>3. 0 + 1 = 1 /\ n - 0 = n
  OBVIOUS
<1> QED
  BY <1>0, <1>1, <1>2, <1>3 DEF size

LEMMA ToComeIs ==
    ASSUME SourceTyped
    PROVE  /\ Plain(ToCome) /\ Plain(Produced) /\ Len(Produced) = Len(stream) + Len(buffer)
           /\ Len(stream) \in Nat /\ Len(buffer) \in Nat /\ Len(InFlight) = Len(Produced) + Len(ToCome)
           /\ Len(ToCome) \in Nat
           /\ Plain(FileLeft(entries[currentFile].content, currentRemaining, currentPadding))
<1> DEFINE left == FileLeft(entries[currentFile].content, currentRemaining, currentPadding)
<1>1. Plain(staged) /\ Plain(stream) /\ Plain(buffer)
  BY ReadableIs DEF SourceTyped
<1>2. Plain(left)
  <2>1. CASE currentRemaining > 0
    <3>1. currentFile \in 1..Len(entries) /\ currentRemaining <= Len(entries[currentFile].content)
          /\ currentRemaining \in Nat /\ currentPadding \in Nat
      BY <2>1, Block1 DEF SourceTyped
    <3>2. Plain(entries[currentFile].content)
      BY <3>1, ReadableIs DEF SourceTyped, EntriesListed, Listed
    <3> QED
      BY <3>1, <3>2, LeftIs
  <2>2. CASE ~(currentRemaining > 0)
    BY <2>2, ReadableEmpty DEF FileLeft
  <2> QED
    BY <2>1, <2>2
<1> HIDE DEF left
<1>3. Plain(ToCome)
  BY <1>1, <1>2, Join DEF ToCome, left
<1>4. Plain(Produced) /\ Len(Produced) = Len(stream) + Len(buffer)
  BY <1>1, Join DEF Produced
<1>5. Len(InFlight) = Len(Produced) + Len(ToCome)
  BY <1>3, <1>4, Join DEF InFlight
<1> QED
  BY <1>1, <1>2, <1>3, <1>4, <1>5, PlainIs DEF left

(* A turn of the loop of read that hands on what is at hand.               *)
LEMMA CopyStagedMoves ==
    ASSUME SourceTyped, CopyStaged, UNCHANGED stream
    PROVE  InFlight' = InFlight /\ Len(buffer') + room' = Len(buffer) + room
<1> DEFINE chunk == Lesser(room, Len(staged))
           a == SubSeq(staged, 1, chunk)
           b == SubSeq(staged, chunk + 1, Len(staged))
           left == FileLeft(entries[currentFile].content, currentRemaining, currentPadding)
<1>0. /\ Plain(staged) /\ Plain(buffer) /\ Plain(stream) /\ Plain(left)
      /\ Len(staged) \in Nat /\ Len(buffer) \in Nat /\ room \in Nat
  BY ReadableIs, PlainIs, ToComeIs DEF SourceTyped
<1>1. /\ buffer' = buffer \o a /\ staged' = b /\ room' = room - chunk
      /\ UNCHANGED <<entries, currentFile, currentRemaining, currentPadding, stream>>
  BY DEF CopyStaged
<1>2. chunk \in Nat /\ chunk <= Len(staged) /\ chunk <= room
  BY <1>0 DEF Lesser
<1>3. ToCome' = b \o left /\ ToCome = staged \o left
  BY <1>1 DEF ToCome
<1> HIDE DEF chunk, left
<1>4. staged = a \o b /\ Plain(a) /\ Len(a) = chunk /\ Plain(b)
  BY <1>0, <1>2, Halves
<1> HIDE DEF a, b
<1>5. ToCome = a \o ToCome' /\ Plain(ToCome')
  <2>1. Plain(ToCome')
    BY <1>0, <1>3, <1>4, Join
  <2>2. staged \o left = a \o ToCome'
    BY SMTT(30), <1>0, <1>3, <1>4, JoinJoin
  <2> QED
    BY <1>3, <2>1, <2>2
<1>6. InFlight' = InFlight
  <2>1. Produced = stream \o buffer /\ Produced' = stream \o buffer'
    BY <1>1 DEF Produced
  <2>2. Plain(Produced) /\ Plain(stream) /\ Plain(buffer) /\ Plain(a)
    BY <1>0, <1>4, ToComeIs
  <2>3. Produced \o a = stream \o buffer'
    BY <1>1, <2>1, <2>2, JoinJoin
  <2>4. Produced' = Produced \o a
    BY <2>1, <2>3
  <2>5. Produced' \o ToCome' = Produced \o ToCome
    BY <1>5, <2>2, <2>4, JoinJoin
  <2> QED
    BY <2>5 DEF InFlight
<1>7. Len(buffer') = Len(buffer) + chunk
  BY <1>0, <1>1, <1>4, Join
<1> QED
  BY <1>0, <1>1, <1>2, <1>6, <1>7

LEMMA CopyFileMoves ==
    ASSUME SourceTyped, CopyFile, UNCHANGED stream
    PROVE  InFlight' = InFlight /\ Len(buffer') + room' = Len(buffer) + room
<1> DEFINE content == entries[currentFile].content
           size == Len(content)
           left == currentRemaining
           padding == currentPadding
           from == size - left
           chunk == Lesser(room, left)
           to == from + chunk
           a == SubSeq(content, from + 1, to)
<1>0. /\ Plain(buffer) /\ Plain(stream) /\ Len(buffer) \in Nat /\ room \in Nat
      /\ left \in Nat /\ left > 0 /\ padding \in Nat /\ staged = <<>>
  BY ReadableIs, PlainIs, Block1 DEF SourceTyped, CopyFile
<1>1. Plain(content) /\ left <= size /\ size \in Nat
  <2>1. currentFile \in 1..Len(entries) /\ left <= size
    BY <1>0 DEF SourceTyped
  <2>2. Plain(content)
    BY <2>1, ReadableIs DEF SourceTyped, EntriesListed, Listed
  <2> QED
    BY <2>1, <2>2, PlainIs
<1>2. /\ buffer' = buffer \o a /\ room' = room - chunk /\ currentRemaining' = left - chunk
      /\ UNCHANGED <<entries, currentPadding, stream>>
      /\ IF chunk < left THEN UNCHANGED <<staged, currentFile>>
         ELSE staged' = Zeros(padding)
  BY DEF CopyFile
<1>3. chunk \in Nat /\ chunk <= left /\ chunk <= room
  BY <1>0 DEF Lesser
<1>4. /\ from \in Nat /\ to \in Nat /\ from <= to /\ to <= size /\ to - from = chunk
      /\ size - (left - chunk) = to /\ left - chunk \in Nat
      /\ ~(chunk < left) => to = size /\ left - chunk = 0
  <2> HIDE DEF size, chunk
  <2> QED
    BY <1>0, <1>1, <1>3
<1>5. ToCome = <<>> \o Remains(content, from, padding)
  BY <1>0 DEF ToCome, FileLeft
<1>6. ToCome' = staged' \o FileLeft(entries'[currentFile'].content, currentRemaining', currentPadding')
  BY DEF ToCome
<1>7. /\ Remains(content, from, padding) = a \o Remains(content, to, padding)
      /\ Plain(a) /\ Len(a) = chunk /\ Plain(Remains(content, to, padding))
      /\ Plain(Remains(content, from, padding)) /\ Plain(Zeros(padding)) /\ Plain(<<>>)
  <2> HIDE DEF content, from, to
  <2>1. /\ Plain(content) /\ padding \in Nat /\ from \in Nat /\ to \in Nat /\ from <= to
        /\ to <= Len(content) /\ from <= Len(content) /\ from <= from
    BY <1>0, <1>1, <1>4
  <2>2. /\ Remains(content, from, padding) = SubSeq(content, from + 1, to) \o Remains(content, to, padding)
        /\ Plain(SubSeq(content, from + 1, to)) /\ Len(SubSeq(content, from + 1, to)) = to - from
        /\ Plain(Remains(content, to, padding)) /\ Plain(Remains(content, from, padding))
    BY <2>1, RemainsMove
  <2> QED
    BY <1>0, <1>4, <2>2, ZerosAre, ReadableEmpty
<1>8. ToCome = Remains(content, from, padding)
  BY <1>5, <1>7, JoinEmpty
<1>9. ToCome' = Remains(content, to, padding)
  <2>1. CASE chunk < left
    <3>1. left - chunk > 0
      BY <1>0, <1>3, <2>1
    <3>2. FileLeft(content, left - chunk, padding) = Remains(content, size - (left - chunk), padding)
      BY <3>1 DEF FileLeft
    <3>3. ToCome' = <<>> \o FileLeft(content, left - chunk, padding)
      BY <1>0, <1>2, <1>6, <2>1
    <3> HIDE DEF content, size, to, left, chunk
    <3>4. ToCome' = <<>> \o Remains(content, to, padding)
      BY <1>4, <3>2, <3>3
    <3> QED
      BY <1>7, <3>4, JoinEmpty
  <2>2. CASE ~(chunk < left)
    <3>1. staged' = Zeros(padding) /\ currentRemaining' = 0 /\ to = size
      BY <1>2, <1>4, <2>2
    <3>2. ToCome' = Zeros(padding) \o <<>>
      BY <1>6, <3>1 DEF FileLeft
    <3>3. ToCome' = Zeros(padding)
      BY <1>7, <3>2, JoinEmpty
    <3> HIDE DEF content, to
    <3>4. Remains(content, size, padding) = Zeros(padding)
      BY <1>0, <1>1, RemainsEnd
    <3> QED
      BY <3>1, <3>3, <3>4
  <2> QED
    BY <2>1, <2>2
<1> HIDE DEF content, a, chunk, from, to
<1>10. ToCome = a \o ToCome' /\ Plain(ToCome')
  BY <1>7, <1>8, <1>9
<1>11. InFlight' = InFlight
  <2>1. Produced = stream \o buffer /\ Produced' = stream \o buffer'
    BY <1>2 DEF Produced
  <2>2. Plain(Produced) /\ Plain(stream) /\ Plain(buffer) /\ Plain(a)
    BY <1>0, <1>7, ToComeIs
  <2>3. Produced \o a = stream \o buffer'
    BY <1>2, <2>1, <2>2, JoinJoin
  <2>4. Produced' = Produced \o a
    BY <2>1, <2>3
  <2>5. Produced' \o ToCome' = Produced \o ToCome
    BY <1>10, <2>2, <2>4, JoinJoin
  <2> QED
    BY <2>5 DEF InFlight
<1>12. Len(buffer') = Len(buffer) + chunk
  BY <1>0, <1>2, <1>7, Join
<1> QED
  BY <1>0, <1>2, <1>3, <1>11, <1>12

(* A turn that takes up an entry, or the zeros behind the last.            *)
LEMMA NextEntryAdds ==
    ASSUME SourceTyped, OfATree, NextEntry, UNCHANGED stream
    PROVE  InFlight' = InFlight \o EntryStream(entries[entryIndex])
<1> DEFINE e == entries[entryIndex]
           size == Len(e.content)
<1>0. /\ Plain(buffer) /\ Plain(stream) /\ Plain(Produced) /\ entryIndex \in 1..Len(entries)
      /\ staged = <<>> /\ currentRemaining = 0
  <2>1. Plain(buffer) /\ Plain(stream) /\ staged = <<>> /\ currentRemaining = 0
    BY ReadableIs DEF SourceTyped, NextEntry
  <2>2. entryIndex \in 1..Len(entries)
    BY EntriesFit DEF SourceTyped, NextEntry
  <2> QED
    BY <2>1, <2>2, Join DEF Produced
<1>1. Fits(e) /\ Plain(e.content) /\ size \in Nat /\ Plain(StagedHeader(e)) /\ Plain(Content(e))
  BY <1>0, EntriesFit, FitsSizes, EntryStreamIs
<1>2. staged' = StagedHeader(e) /\ UNCHANGED <<entries, buffer, stream>>
      /\ IF e.content # <<>> THEN /\ currentFile' = entryIndex
                                  /\ currentRemaining' = size
                                  /\ currentPadding' = Padded(size)
         ELSE UNCHANGED <<currentFile, currentRemaining, currentPadding>>
  BY DEF NextEntry
<1>3. InFlight = Produced
  <2>1. ToCome = <<>> \o <<>>
    BY <1>0 DEF ToCome, FileLeft
  <2>2. <<>> \o <<>> = <<>>
    BY ReadableEmpty, JoinEmpty
  <2> QED
    BY <1>0, <2>1, <2>2, JoinEmpty DEF InFlight
<1>4. FileLeft(entries'[currentFile'].content, currentRemaining', currentPadding') = Content(e)
  <2>1. CASE e.content # <<>>
    <3>1. size > 0
      BY <1>1, <2>1, SamePlain, ReadableEmpty
    <3>2. entries'[currentFile'].content = e.content /\ currentRemaining' = size /\ currentPadding' = Padding(e)
      BY <1>2, <2>1 DEF Padding
    <3>3. SubSeq(e.content, (size - size) + 1, size) = e.content
      <4>1. (size - size) + 1 = 1
        BY <1>1
      <4> QED
        BY <1>1, <4>1 DEF Plain
    <3> HIDE DEF e
    <3> QED
      BY <3>1, <3>2, <3>3 DEF FileLeft, Remains, Content
  <2>2. CASE e.content = <<>>
    <3>1. Padding(e) = 0
      BY <2>2, PaddedNone, ReadableEmpty DEF Padding
    <3>2. Zeros(0) = <<>>
      BY ZerosAre, SamePlain, ReadableEmpty
    <3>3. Content(e) = <<>>
      BY <2>2, <3>1, <3>2, ReadableEmpty, JoinEmpty DEF Content
    <3>4. currentRemaining' = 0
      BY <1>0, <1>2, <2>2
    <3> QED
      BY <3>3, <3>4 DEF FileLeft
  <2> QED
    BY <2>1, <2>2
<1>5. InFlight' = Produced \o (StagedHeader(e) \o Content(e))
  BY <1>2, <1>4 DEF InFlight, Produced, ToCome
<1> QED
  BY <1>3, <1>5 DEF EntryStream

LEMMA EndMarkerAdds ==
    ASSUME SourceTyped, EndMarker, UNCHANGED stream
    PROVE  InFlight' = InFlight \o Zeros(2 * TarBlock)
<1>0. /\ Plain(buffer) /\ Plain(stream) /\ Plain(Produced) /\ staged = <<>> /\ currentRemaining = 0
      /\ Plain(Zeros(2 * TarBlock)) /\ Plain(<<>>)
  <2>1. Plain(buffer) /\ Plain(stream) /\ staged = <<>> /\ currentRemaining = 0 /\ 2 * TarBlock \in Nat
    BY ReadableIs, Block1 DEF SourceTyped, EndMarker
  <2> QED
    BY <2>1, Join, ZerosAre, ReadableEmpty DEF Produced
<1>1. staged' = Zeros(2 * TarBlock)
      /\ UNCHANGED <<entries, currentFile, currentRemaining, currentPadding, buffer, stream>>
  BY DEF EndMarker
<1>2. ToCome = <<>> \o <<>> /\ ToCome' = Zeros(2 * TarBlock) \o <<>>
  BY <1>0, <1>1 DEF ToCome, FileLeft
<1>3. ToCome = <<>> /\ ToCome' = Zeros(2 * TarBlock)
  BY <1>0, <1>2, JoinEmpty
<1>4. InFlight = Produced
  BY <1>0, <1>3, JoinEmpty DEF InFlight
<1> QED
  BY <1>1, <1>3, <1>4 DEF InFlight, Produced

-----------------------------------------------------------------------------
(* The stream is as it was measured                                        *)

OnCourse ==
    IF finished THEN entryIndex = Len(entries) + 1 /\ Entire(InFlight) ELSE Stored(InFlight, entryIndex - 1)

AsMeasured ==
    ~foreign =>
      /\ OfATree
      /\ stage \in {"archive", "probe"} => OnCourse
      /\ stage = "archive" => Len(stream) + Len(buffer) + room <= TotalSize
      /\ stage = "probe" => Len(stream) = TotalSize /\ Len(buffer) + room = 1
      /\ stage \in {"extract", "returned"} \/ failure # "none" => Entire(stream)

LEMMA EntireStays ==
    ASSUME entries' = entries
    PROVE  \A s : Entire(s) => /\ InFlight' = s => Entire(InFlight)'
                               /\ stream' = s => Entire(stream)'
<1>1. TarBlock' = TarBlock /\ Offset' = Offset
  BY OffsetStays
<1> QED
  BY <1>1 DEF Entire, Stored

LEMMA StoredStays ==
    ASSUME entries' = entries
    PROVE  \A s, n : Stored(s, n) /\ InFlight' = s /\ entryIndex' - 1 = n => Stored(InFlight, entryIndex - 1)'
<1>1. Offset' = Offset
  BY OffsetStays
<1> QED
  BY <1>1 DEF Stored

LEMMA CourseStays ==
    ASSUME OnCourse, UNCHANGED <<entries, finished, entryIndex>>, InFlight' = InFlight
    PROVE  OnCourse'
<1>1. CASE finished
  BY <1>1, EntireStays DEF OnCourse
<1>2. CASE ~finished
  BY <1>2, StoredStays DEF OnCourse
<1> QED
  BY <1>1, <1>2

LEMMA CourseGoesOn ==
    ASSUME OfATree, SourceTyped, OnCourse, NextEntry, UNCHANGED stream
    PROVE  OnCourse'
<1>1. InFlight' = InFlight \o EntryStream(entries[entryIndex])
  BY NextEntryAdds
<1>2. entryIndex \in 1..Len(entries) /\ entryIndex' - 1 = entryIndex /\ UNCHANGED <<entries, finished>>
  BY EntriesFit DEF SourceTyped, NextEntry
<1>3. ~finished /\ Stored(InFlight, entryIndex - 1)
  BY <1>2, EntriesFit DEF OnCourse
<1>4. Stored(InFlight \o EntryStream(entries[entryIndex]), entryIndex)
  BY <1>2, <1>3, StoredNext
<1>5. Stored(InFlight, entryIndex - 1)'
  BY <1>1, <1>2, <1>4, StoredStays
<1> QED
  BY <1>2, <1>3, <1>5 DEF OnCourse

LEMMA CourseEnds ==
    ASSUME OfATree, SourceTyped, OnCourse, EndMarker, UNCHANGED stream
    PROVE  OnCourse'
<1>1. InFlight' = InFlight \o Zeros(2 * TarBlock)
  BY EndMarkerAdds
<1>2. /\ entryIndex = Len(entries) + 1 /\ entryIndex - 1 = Len(entries)
      /\ UNCHANGED <<entries, entryIndex>> /\ ~finished /\ finished'
  BY EntriesFit DEF SourceTyped, EndMarker
<1>3. Stored(InFlight, Len(entries))
  BY <1>2 DEF OnCourse
<1>4. Entire(InFlight \o Zeros(2 * TarBlock))
  BY <1>3 DEF Entire
<1>5. Entire(InFlight)'
  BY <1>1, <1>2, <1>4, EntireStays
<1> QED
  BY <1>2, <1>5 DEF OnCourse

LEMMA ReadingOnCourse ==
    ASSUME OfATree, SourceTyped, OnCourse, SourceStep, UNCHANGED stream
    PROVE  OnCourse' /\ Len(buffer') + room' = Len(buffer) + room /\ entries' = entries
<1>1. CASE CopyStaged
  BY <1>1, CopyStagedMoves, CourseStays DEF CopyStaged
<1>2. CASE CopyFile
  BY <1>2, CopyFileMoves, CourseStays DEF CopyFile
<1>3. CASE SourceThrows
  <2>1. UNCHANGED <<entries, entryIndex, staged, currentFile, currentRemaining, currentPadding, finished, room, buffer, stream>>
    BY <1>3 DEF SourceThrows
  <2>2. InFlight' = InFlight
    BY <2>1 DEF InFlight, Produced, ToCome
  <2> QED
    BY <2>1, <2>2, CourseStays
<1>4. CASE NextEntry
  BY <1>4, CourseGoesOn DEF NextEntry
<1>5. CASE EndMarker
  BY <1>5, CourseEnds DEF EndMarker
<1> QED
  BY <1>1, <1>2, <1>3, <1>4, <1>5 DEF SourceStep

LEMMA OffsetGrows ==
    ASSUME OfATree, NEW k \in 0..Len(entries)
    PROVE  Offset[k] <= Offset[Len(entries)]
<1> DEFINE n == Len(entries)
           S == {i \in 0..n : i < k \/ Offset[k] <= Offset[i]}
<1>0. n \in Nat /\ k \in 0..n /\ Offset[k] \in Nat /\ \A i \in 0..n : Offset[i] \in Nat
  BY EntriesFit, OffsetIs
<1>1. ASSUME NEW i \in 1..n PROVE Offset[i - 1] <= Offset[i]
  <2>1. Offset[i] = Offset[i - 1] + Len(EntryStream(entries[i])) /\ Plain(EntryStream(entries[i]))
    BY OffsetIs, EntriesFit, EntryStreamIs
  <2>2. i - 1 \in 0..n
    BY <1>0
  <2>3. Offset[i - 1] \in Nat /\ Len(EntryStream(entries[i])) \in Nat
    BY <1>0, <2>1, <2>2, PlainIs
  <2> QED
    BY <2>1, <2>3
<1> HIDE DEF n
<1>2. 0 \in S
  <2>1. CASE k = 0
    BY <1>0, <2>1
  <2>2. CASE k # 0
    BY <1>0, <2>2
  <2> QED
    BY <2>1, <2>2
<1>3. ASSUME NEW i \in 0..(n - 1), i \in S PROVE i + 1 \in S
  <2>1. i + 1 \in 0..n /\ i + 1 \in 1..n /\ (i + 1) - 1 = i /\ i \in 0..n
    BY <1>0
  <2>2. Offset[i] <= Offset[i + 1] /\ Offset[i] \in Nat /\ Offset[i + 1] \in Nat /\ Offset[k] \in Nat
    BY <1>0, <1>1, <2>1
  <2>3. CASE i < k
    <3>1. i + 1 < k \/ i + 1 = k
      BY <1>0, <2>1, <2>3
    <3> QED
      BY <2>1, <2>2, <3>1
  <2>4. CASE Offset[k] <= Offset[i]
    <3>1. Offset[k] <= Offset[i + 1]
      BY <2>2, <2>4
    <3> QED
      BY <2>1, <3>1
  <2> QED
    BY <1>3, <2>3, <2>4
<1> HIDE DEF S
<1>4. 0..n \subseteq S
  BY <1>0, <1>2, <1>3, Ascent
<1>5. n \in S /\ ~(n < k)
  BY <1>0, <1>4
<1> QED
  BY <1>5 DEF S, n

LEMMA EntireSize ==
    ASSUME OfATree, NEW units, Entire(units)
    PROVE  Len(units) = TotalSize /\ TotalSize \in Nat
<1>1. PICK s : Stored(s, Len(entries)) /\ units = s \o Zeros(2 * TarBlock)
  BY DEF Entire
<1>2. Plain(s) /\ Len(s) = Offset[Len(entries)] /\ 2 * TarBlock \in Nat
  BY <1>1, ReadableIs, Block1 DEF Stored
<1>3. Plain(Zeros(2 * TarBlock)) /\ Len(Zeros(2 * TarBlock)) = 2 * TarBlock
  BY <1>2, ZerosAre
<1>4. Len(units) = Offset[Len(entries)] + 2 * TarBlock
  <2> DEFINE z == Zeros(2 * TarBlock)
  <2> HIDE DEF z
  <2>1. units = s \o z /\ Plain(z) /\ Len(z) = 2 * TarBlock
    BY <1>1, <1>3 DEF z
  <2>2. Len(units) = Len(s) + Len(z)
    BY <1>2, <2>1, Join
  <2> QED
    BY <1>2, <2>1, <2>2
<1> QED
  BY <1>4, OffsetIs, EntriesFit, TotalSizeNat

LEMMA CourseBound ==
    ASSUME OfATree, SourceTyped, OnCourse
    PROVE  Len(stream) + Len(buffer) + Len(ToCome) <= TotalSize
<1>1. /\ Len(InFlight) = (Len(stream) + Len(buffer)) + Len(ToCome) /\ Len(stream) \in Nat /\ Len(buffer) \in Nat
      /\ Len(ToCome) \in Nat
  BY ToComeIs
<1>2. CASE finished
  BY <1>1, <1>2, EntireSize DEF OnCourse
<1>3. CASE ~finished
  <2> DEFINE k == entryIndex - 1
             n == Len(entries)
  <2>1. k \in 0..n /\ Len(InFlight) = Offset[k] /\ n \in Nat /\ n \in 0..n
    BY <1>3, EntriesFit DEF OnCourse, Stored
  <2>2. Offset[k] <= Offset[n] /\ Offset[k] \in Nat /\ Offset[n] \in Nat /\ TotalSize = Offset[n] + 2 * TarBlock
    <3> HIDE DEF k
    <3> QED
      BY <2>1, OffsetGrows, OffsetIs
  <2> HIDE DEF k, n
  <2> QED
    BY <1>1, <2>1, <2>2, Block1
<1> QED
  BY <1>2, <1>3

(* The source delivers neither less nor more than was measured.            *)
LEMMA NeverMismeasured ==
    ASSUME SourceTyped, AsMeasured, ~foreign
    PROVE  ~Mismeasured
<1>1. /\ Len(stream) \in Nat /\ Len(buffer) \in Nat /\ Len(ToCome) \in Nat /\ room \in Nat
      /\ Len(InFlight) = (Len(stream) + Len(buffer)) + Len(ToCome)
  BY ToComeIs DEF SourceTyped
<1>2. ASSUME stage = "archive", room > 0, NothingMore PROVE FALSE
  <2>1. OfATree /\ OnCourse /\ Len(stream) + Len(buffer) + room <= TotalSize
    BY <1>2 DEF AsMeasured
  <2>2. Len(InFlight) = TotalSize /\ TotalSize \in Nat
    BY <1>2, <2>1, EntireSize DEF OnCourse, NothingMore
  <2>3. Len(ToCome) = 0
    <3>1. ToCome = <<>> \o <<>>
      BY <1>2 DEF ToCome, FileLeft, NothingMore
    <3> QED
      BY <3>1, ReadableEmpty, JoinEmpty
  <2> QED
    BY <1>1, <1>2, <2>1, <2>2, <2>3
<1>3. ASSUME stage = "probe", room = 0 PROVE FALSE
  <2>1. OfATree /\ OnCourse /\ Len(stream) = TotalSize /\ Len(buffer) + room = 1
    BY <1>3 DEF AsMeasured
  <2>2. Len(stream) + Len(buffer) + Len(ToCome) <= TotalSize
    BY <2>1, CourseBound
  <2> QED
    BY <1>1, <1>3, <2>1, <2>2
<1> QED
  BY <1>2, <1>3 DEF Mismeasured

LEMMA MeasuredStays ==
    ASSUME AsMeasured, UNCHANGED <<entries, foreign, stream>>,
           ~foreign => /\ stage' \in {"archive", "probe"} => OnCourse'
                       /\ stage' = "archive" =>
                            stage = "archive" /\ Len(buffer') + room' = Len(buffer) + room
                            /\ Len(buffer) \in Nat /\ Len(buffer') \in Nat /\ room \in Nat /\ room' \in Nat
                            /\ Len(stream) \in Nat
                       /\ stage' = "probe" => stage = "probe" /\ Len(buffer') + room' = Len(buffer) + room
                       /\ stage' \in {"extract", "returned"} \/ failure' # "none" =>
                            stage \in {"extract", "returned"} \/ failure # "none" \/ Entire(stream)
    PROVE  AsMeasured'
<1> SUFFICES ASSUME ~foreign PROVE AsMeasured'
  BY DEF AsMeasured
<1>1. OfATree' /\ TotalSize' = TotalSize
  BY OfATreeStays, OffsetStays DEF AsMeasured
<1>2. stage' = "archive" => Len(stream') + Len(buffer') + room' <= TotalSize'
  BY <1>1 DEF AsMeasured
<1>3. stage' = "probe" => Len(stream') = TotalSize' /\ Len(buffer') + room' = 1
  BY <1>1 DEF AsMeasured
<1>4. stage' \in {"extract", "returned"} \/ failure' # "none" => Entire(stream)'
  BY EntireStays DEF AsMeasured
<1> QED
  BY <1>1, <1>2, <1>3, <1>4 DEF AsMeasured

LEMMA MeasuredStarts == TarInit => AsMeasured
<1> SUFFICES ASSUME TarInit, ~foreign PROVE AsMeasured
  BY DEF AsMeasured
<1>1. /\ stage = "archive" /\ stream = <<>> /\ failure = "none" /\ \E source \in Trees : SourceInit(source)
  BY DEF TarInit, ExtractorInit
<1>2. PICK source \in Trees : SourceInit(source)
  BY <1>1
<1>3. OfATree
  BY <1>2, TreeListed
<1>4. buffer = <<>> /\ room = 0 /\ staged = <<>> /\ currentRemaining = 0 /\ entryIndex = 1 /\ finished = FALSE
  BY <1>2 DEF SourceInit
<1>5. InFlight = <<>>
  <2>1. InFlight = (<<>> \o <<>>) \o (<<>> \o <<>>)
    BY <1>1, <1>4 DEF InFlight, Produced, ToCome, FileLeft
  <2> QED
    BY <2>1, ReadableEmpty, JoinEmpty
<1>6. OnCourse
  <2>1. entryIndex - 1 = 0
    BY <1>4
  <2> QED
    BY <1>3, <1>4, <1>5, <2>1, StoredNothing DEF OnCourse
<1>7. Len(stream) + Len(buffer) + room <= TotalSize
  <2>1. TotalSize \in Nat
    BY <1>3, EntriesFit, TotalSizeNat
  <2>2. Len(stream) = 0 /\ Len(buffer) = 0
    BY <1>1, <1>4, ReadableEmpty
  <2> QED
    BY <1>4, <2>1, <2>2
<1> QED
  BY <1>1, <1>3, <1>6, <1>7 DEF AsMeasured

(* A block is handed over and the next is asked for.                       *)
LEMMA CallReadKeeps ==
    ASSUME SourceTyped, OnCourse, stream' = stream \o buffer, NEW capacity, CallRead(capacity)
    PROVE  OnCourse' /\ Len(stream') = Len(stream) + Len(buffer) /\ Len(buffer') = 0
<1>1. /\ buffer' = <<>>
      /\ UNCHANGED <<entries, entryIndex, staged, currentFile, currentRemaining, currentPadding, finished>>
  BY DEF CallRead
<1>2. Plain(stream \o buffer) /\ Len(stream \o buffer) = Len(stream) + Len(buffer)
  BY ToComeIs DEF Produced
<1>3. Produced' = Produced
  <2>1. Produced' = (stream \o buffer) \o <<>>
    BY <1>1 DEF Produced
  <2> QED
    BY <1>2, <2>1, JoinEmpty DEF Produced
<1>4. ToCome' = ToCome
  BY <1>1 DEF ToCome
<1>5. InFlight' = InFlight
  BY <1>3, <1>4 DEF InFlight
<1> QED
  BY <1>1, <1>2, <1>5, CourseStays, ReadableEmpty

LEMMA CallForBlockKeeps ==
    ASSUME SourceTyped, StageTyped, AsMeasured, CallForBlock
    PROVE  AsMeasured'
<1> SUFFICES ASSUME ~foreign PROVE AsMeasured'
  BY DEF CallForBlock, AsMeasured
<1>1. /\ stage = "archive" /\ UNCHANGED <<stage, foreign, entries, extractorVars>> /\ stream' = stream \o buffer
      /\ BlockWanted > 0 /\ failure' = failure
  BY DEF CallForBlock, CallRead, extractorVars
<1>2. PICK capacity \in Capacities : CallRead(Lesser(capacity, BlockWanted))
  BY DEF CallForBlock
<1>3. OfATree /\ OnCourse /\ failure = "none"
  BY <1>1 DEF AsMeasured, StageTyped, ExtractorInit
<1>4. OnCourse' /\ Len(stream') = Len(stream) + Len(buffer) /\ Len(buffer') = 0
  BY <1>1, <1>2, <1>3, CallReadKeeps
<1>5. OfATree' /\ TotalSize' = TotalSize
  BY <1>1, <1>3, OfATreeStays, OffsetStays
<1>6. Len(stream') + Len(buffer') + room' <= TotalSize'
  <2>1. TotalSize \in Nat /\ Len(stream) \in Nat /\ Len(buffer) \in Nat /\ capacity \in Nat
    BY <1>3, EntriesFit, TotalSizeNat, ToComeIs, CapacityAssumption
  <2>2. room' = Lesser(capacity, BlockWanted) /\ BlockWanted = TotalSize - Len(stream) - Len(buffer)
    BY <1>2 DEF CallRead, BlockWanted
  <2>3. BlockWanted \in Nat /\ room' <= BlockWanted /\ room' \in Nat
    BY <1>1, <2>1, <2>2 DEF Lesser
  <2> QED
    BY <1>4, <1>5, <2>1, <2>2, <2>3
<1> QED
  BY <1>1, <1>3, <1>4, <1>5, <1>6 DEF AsMeasured

LEMMA ProbeKeeps ==
    ASSUME SourceTyped, StageTyped, AsMeasured, Probe
    PROVE  AsMeasured'
<1> SUFFICES ASSUME ~foreign PROVE AsMeasured'
  BY DEF Probe, AsMeasured
<1>1. /\ stage = "archive" /\ stage' = "probe" /\ UNCHANGED <<foreign, entries>> /\ stream' = stream \o buffer
      /\ BlockWanted = 0 /\ failure' = failure /\ CallRead(1) /\ room' = 1
  BY DEF Probe, CallRead, extractorVars
<1>2. OfATree /\ OnCourse /\ failure = "none"
  BY <1>1 DEF AsMeasured, StageTyped, ExtractorInit
<1>3. OnCourse' /\ Len(stream') = Len(stream) + Len(buffer) /\ Len(buffer') = 0
  BY <1>1, <1>2, CallReadKeeps
<1>4. OfATree' /\ TotalSize' = TotalSize
  BY <1>1, <1>2, OfATreeStays, OffsetStays
<1>5. Len(stream') = TotalSize' /\ Len(buffer') + room' = 1
  <2>1. TotalSize \in Nat /\ Len(stream) \in Nat /\ Len(buffer) \in Nat
    BY <1>2, EntriesFit, TotalSizeNat, ToComeIs
  <2> QED
    BY <1>1, <1>3, <1>4, <2>1 DEF BlockWanted
<1> QED
  BY <1>1, <1>2, <1>3, <1>4, <1>5 DEF AsMeasured

LEMMA ArchivedKeeps ==
    ASSUME SourceTyped, StageTyped, AsMeasured, Archived
    PROVE  AsMeasured'
<1>1. /\ stage = "probe" /\ stage' = "extract" /\ UNCHANGED <<foreign, entries, stream>>
      /\ room = 1 /\ NothingMore
  BY DEF Archived, sourceVars
<1>2. ASSUME ~foreign PROVE Entire(stream)
  <2>1. OfATree /\ OnCourse /\ Len(buffer) + room = 1
    BY <1>1, <1>2 DEF AsMeasured
  <2>2. Entire(InFlight)
    BY <1>1, <2>1 DEF OnCourse, NothingMore
  <2>3. Plain(buffer) /\ Plain(stream) /\ Len(buffer) \in Nat
    BY ReadableIs, PlainIs DEF SourceTyped
  <2>4. Len(buffer) = 0
    BY <1>1, <2>1, <2>3
  <2>5. buffer = <<>>
    BY <2>3, <2>4, ReadableEmpty, SamePlain
  <2>6. InFlight = (stream \o <<>>) \o (<<>> \o <<>>)
    BY <1>1, <2>5 DEF InFlight, Produced, ToCome, FileLeft, NothingMore
  <2>7. InFlight = stream
    BY <2>3, <2>6, ReadableEmpty, JoinEmpty
  <2> QED
    BY <2>2, <2>7
<1> QED
  BY <1>1, <1>2, MeasuredStays

LEMMA MeasuredKeeps == TarInv /\ AsMeasured /\ [TarNext]_tarVars => AsMeasured'
<1> SUFFICES ASSUME TarInv, AsMeasured, [TarNext]_tarVars PROVE AsMeasured'
  OBVIOUS
<1>0. SourceTyped /\ StageTyped
  BY DEF TarInv
<1>1. CASE CallForBlock
  BY <1>0, <1>1, CallForBlockKeeps
<1>2. CASE ReadOn
  <2>1. SourceStep /\ stage \in {"archive", "probe"} /\ UNCHANGED <<stage, foreign, stream, failure>>
    BY <1>2 DEF ReadOn, extractorVars
  <2>2. SourceTyped'
    BY <1>0, <2>1, SourceSteps
  <2>3. /\ Len(buffer) \in Nat /\ Len(stream) \in Nat /\ room \in Nat /\ Len(buffer') \in Nat /\ room' \in Nat
    BY <1>0, <2>2, ReadableIs, PlainIs DEF SourceTyped
  <2>4. CASE foreign
    BY <2>1, <2>4 DEF AsMeasured
  <2>5. CASE ~foreign
    <3>1. OfATree /\ OnCourse
      BY <2>1, <2>5 DEF AsMeasured
    <3>2. OnCourse' /\ Len(buffer') + room' = Len(buffer) + room /\ entries' = entries
      BY <1>0, <2>1, <3>1, ReadingOnCourse
    <3> QED
      BY <2>1, <2>3, <3>2, MeasuredStays
  <2> QED
    BY <2>4, <2>5
<1>3. CASE Probe
  BY <1>0, <1>3, ProbeKeeps
<1>4. CASE Archived
  BY <1>0, <1>4, ArchivedKeeps
<1>5. CASE ArchivingThrows
  <2>1. stage' = "threw" /\ UNCHANGED <<foreign, entries, stream, failure>>
    BY <1>5 DEF ArchivingThrows, sourceVars, extractorVars
  <2> QED
    BY <2>1, MeasuredStays
<1>6. CASE SourceChanges \/ UNCHANGED tarVars
  <2>1. UNCHANGED <<stage, foreign, entries, stream, failure, buffer, room, entryIndex, staged, currentFile,
                    currentRemaining, currentPadding, finished>>
    BY <1>6 DEF SourceChanges, FileChanges, tarVars, sourceVars, extractorVars
  <2>2. InFlight' = InFlight
    BY <2>1 DEF InFlight, Produced, ToCome
  <2>3. OnCourse => OnCourse'
    BY <2>1, <2>2, CourseStays
  <2>4. Len(buffer) \in Nat /\ Len(stream) \in Nat /\ room \in Nat
    BY <1>0, ReadableIs, PlainIs DEF SourceTyped
  <2> QED
    BY <2>1, <2>3, <2>4, MeasuredStays DEF AsMeasured
<1>7. CASE Feed \/ FeedOn \/ Finish \/ FinishThrows
  <2>1. stage = "extract" /\ stage' \in {"extract", "returned"} /\ UNCHANGED <<foreign, entries, stream>>
    BY <1>7 DEF Feed, FeedOn, Finish, FinishThrows, sourceVars
  <2> QED
    BY <2>1, MeasuredStays
<1>8. CASE ExtractionThrows
  <2>1. stage = "extract" /\ stage' = "threw" /\ UNCHANGED <<foreign, entries, stream>>
    BY <1>8 DEF ExtractionThrows, sourceVars
  <2> QED
    BY <2>1, MeasuredStays
<1> QED
  BY <1>1, <1>2, <1>3, <1>4, <1>5, <1>6, <1>7, <1>8 DEF TarNext, TarStopped

LEMMA TarMeasured == TarSpec => []AsMeasured
BY MeasuredStarts, MeasuredKeeps, TarInvariance, PTL DEF TarSpec

(* Whatever the buffer sizes on either side, and whichever way the names   *)
(* are stored, TarExtractor makes of the stream of TarStreamSource the     *)
(* tree that was listed, unless a buffered write was lost; whatever the    *)
(* files do meanwhile, the stream is as long as it was measured, and never *)
(* refused.                                                                *)
THEOREM AlwaysRestoresTheTree == TarSpec => []RoundTrip
<1>1. TarInv /\ AsMeasured /\ ExtractsAsAWhole => RoundTrip
  <2> SUFFICES ASSUME TarInv, AsMeasured, ExtractsAsAWhole, ~foreign
               PROVE  /\ ~Mismeasured /\ failure # "format"
                      /\ stage = "returned" /\ ~flushLost => tree = OriginalTree
    BY DEF RoundTrip
  <2>1. ~Mismeasured
    BY NeverMismeasured DEF TarInv
  <2>2. OfATree
    BY DEF AsMeasured
  <2>3. failure # "format"
    <3>1. ASSUME failure = "format" PROVE FALSE
      <4>1. Entire(stream)
        BY <3>1 DEF AsMeasured
      <4>2. Reference(stream) = Holds(OriginalTree) /\ Reference(stream) = Refused
        BY <2>2, <3>1, <4>1, EntireMakes DEF ExtractsAsAWhole
      <4> QED
        BY <4>2 DEF Holds, Refused
    <3> QED
      BY <3>1
  <2>4. ASSUME stage = "returned", ~flushLost PROVE tree = OriginalTree
    <3>1. Entire(stream)
      BY <2>4 DEF AsMeasured
    <3>2. Holds(tree) = Holds(OriginalTree)
      BY <2>2, <2>4, <3>1, EntireMakes DEF ExtractsAsAWhole
    <3> QED
      BY <3>2 DEF Holds
  <2> QED
    BY <2>1, <2>3, <2>4
<1> QED
  BY <1>1, TarInvariance, TarMeasured, AlwaysExtractsAsAWhole, PTL

-----------------------------------------------------------------------------
(* A file that changes                                                     *)

(* The i-th entry has content, and not the size it was measured with while *)
(* it is open.                                                             *)
Changed(i) ==
    /\ i \in DOMAIN entries /\ entries[i].content # <<>>
    /\ currentFile = i => disk[i] # Len(entries[i].content)

(* It is still to be opened, or to be read to its end.                     *)
Unfinished(i) ==
    /\ stage \in {"archive", "probe", "threw"}
    /\ entryIndex <= i \/ (currentFile = i /\ currentRemaining > 0)

LEMMA UnfinishedStarts ==
    ASSUME TarInit, NEW i, Changed(i)
    PROVE  Unfinished(i)
<1>1. CASE foreign
  <2>1. entries \in Listings({})
    BY <1>1 DEF TarInit, SourceInit
  <2>2. DOMAIN entries = 1..Cardinality({}) /\ Cardinality({}) = 0
    BY <2>1, FS_EmptySet DEF Listings
  <2> QED
    BY <2>2 DEF Changed
<1>2. CASE ~foreign
  <2>1. PICK source \in Trees : SourceInit(source)
    BY <1>2 DEF TarInit
  <2>2. stage = "archive" /\ entryIndex = 1
    BY <1>2, <2>1 DEF TarInit, SourceInit
  <2>3. i >= 1
    BY <2>1 DEF Changed, SourceInit, Listings
  <2> QED
    BY <2>2, <2>3 DEF Unfinished
<1> QED
  BY <1>1, <1>2

(* One turn of read.                                                       *)
LEMMA UnfinishedRead ==
    ASSUME SourceTyped, NEW i, Changed(i), Unfinished(i), SourceStep, UNCHANGED stage
    PROVE  Unfinished(i)'
<1>0. /\ i \in 1..Len(entries) /\ Len(entries) \in Nat /\ entryIndex \in Nat
      /\ room \in Nat /\ currentRemaining \in Nat
      /\ Len(entries[i].content) \in Nat /\ Len(entries[i].content) > 0
  <2>1. Plain(entries) /\ i \in DOMAIN entries
    BY DEF SourceTyped, EntriesListed, Changed
  <2>2. i \in 1..Len(entries) /\ Len(entries) \in Nat
    BY <2>1, PlainIs
  <2>3. Readable(entries[i].content)
    BY <2>2 DEF SourceTyped, EntriesListed, Listed
  <2>4. Plain(entries[i].content) /\ Len(entries[i].content) \in Nat
    BY <2>3, ReadableIs, PlainIs
  <2>5. Len(entries[i].content) # 0
    BY <2>4, SamePlain, ReadableEmpty DEF Changed
  <2> QED
    BY <2>2, <2>4, <2>5 DEF SourceTyped
<1>1. CASE CopyStaged \/ SourceThrows \/ EndMarker
  <2>1. UNCHANGED <<entryIndex, currentFile, currentRemaining>>
    BY <1>1 DEF CopyStaged, SourceThrows, EndMarker
  <2> QED
    BY <2>1 DEF Unfinished
<1>2. CASE CopyFile
  <2> DEFINE size == Len(entries[currentFile].content)
             chunk == Lesser(room, currentRemaining)
  <2>1. /\ currentRemaining' = currentRemaining - chunk /\ entryIndex' = entryIndex
        /\ \/ chunk < currentRemaining /\ currentFile' = currentFile
           \/ /\ ~(chunk < currentRemaining)
              /\ disk[currentFile] = (size - currentRemaining) + chunk
        /\ currentRemaining > 0
    BY <1>2 DEF CopyFile
  <2>2. CASE currentFile = i
    <3>1. chunk \in Nat /\ chunk <= currentRemaining
      BY <1>0 DEF Lesser
    <3>2. disk[currentFile] # size /\ size \in Nat
      BY <1>0, <2>2 DEF Changed
    <3> HIDE DEF chunk, size
    <3>3. chunk < currentRemaining
      BY <1>0, <2>1, <3>1, <3>2
    <3>4. currentFile' = i /\ currentRemaining' > 0
      BY <1>0, <2>1, <2>2, <3>1, <3>3
    <3> QED
      BY <3>4 DEF Unfinished
  <2>3. CASE currentFile # i
    BY <2>1, <2>3 DEF Unfinished
  <2> QED
    BY <2>2, <2>3
<1>3. CASE NextEntry
  <2>1. entryIndex <= i /\ entryIndex' = entryIndex + 1
    BY <1>0, <1>3 DEF NextEntry, Unfinished
  <2>2. CASE entryIndex = i
    <3>1. currentFile' = i /\ currentRemaining' = Len(entries[i].content)
      BY <1>3, <2>2 DEF NextEntry, Changed
    <3> QED
      BY <1>0, <3>1 DEF Unfinished
  <2>3. CASE entryIndex # i
    BY <1>0, <2>1, <2>3 DEF Unfinished
  <2> QED
    BY <2>2, <2>3
<1> QED
  BY <1>1, <1>2, <1>3 DEF SourceStep

LEMMA UnfinishedKeeps ==
    ASSUME TarInv, NEW i, Changed(i), Unfinished(i), [TarNext]_tarVars
    PROVE  Unfinished(i)'
<1>1. CASE ReadOn
  BY <1>1, UnfinishedRead DEF ReadOn, TarInv
<1>2. CASE CallForBlock \/ Probe \/ SourceChanges \/ TarStopped \/ UNCHANGED tarVars
  <2>1. /\ UNCHANGED <<entryIndex, currentFile, currentRemaining>>
        /\ stage' \in {stage, "probe"}
    BY <1>2 DEF CallForBlock, CallRead, Probe, SourceChanges, FileChanges, TarStopped, tarVars,
                sourceVars
  <2> QED
    BY <2>1 DEF Unfinished
<1>3. CASE ArchivingThrows
  <2>1. UNCHANGED <<entryIndex, currentFile, currentRemaining>> /\ stage' = "threw"
    BY <1>3 DEF ArchivingThrows, sourceVars
  <2> QED
    BY <2>1 DEF Unfinished
<1>4. ~Archived
  <2>1. entryIndex \in Nat /\ Len(entries) \in Nat /\ i \in 1..Len(entries)
    <3>1. Plain(entries) /\ i \in DOMAIN entries
      BY DEF TarInv, SourceTyped, EntriesListed, Changed
    <3>2. i \in 1..Len(entries) /\ Len(entries) \in Nat
      BY <3>1, PlainIs
    <3> QED
      BY <3>2 DEF TarInv, SourceTyped
  <2> QED
    BY <2>1 DEF Archived, NothingMore, Unfinished
<1>5. ~(Feed \/ FeedOn \/ Finish \/ FinishThrows \/ ExtractionThrows)
  BY DEF Feed, FeedOn, Finish, FinishThrows, ExtractionThrows, Unfinished
<1> QED
  BY <1>1, <1>2, <1>3, <1>4, <1>5 DEF TarNext

(* For every tree and all buffer sizes: an archive of a file that is       *)
(* longer, or shorter, all the time it is open than it was measured is     *)
(* never finished.                                                         *)
THEOREM FileChangeNoticed == TarSpec => ChangedFileNoticed
<1> SUFFICES ASSUME NEW i \in EntryNumbers
             PROVE  TarSpec => (([]Longer(i) \/ []Shorter(i)) => [](stage # "returned"))
  BY DEF ChangedFileNoticed
<1>1. Longer(i) \/ Shorter(i) => Changed(i)
  BY DEF Longer, Shorter, Changed
<1>2. TarInit /\ Changed(i) => Unfinished(i)
  BY UnfinishedStarts
<1>3. TarInv /\ Changed(i) /\ Unfinished(i) /\ [TarNext]_tarVars => Unfinished(i)'
  BY UnfinishedKeeps
<1>4. Unfinished(i) => stage # "returned"
  BY DEF Unfinished
<1> QED
  BY <1>1, <1>2, <1>3, <1>4, TarInvariance, PTL DEF TarSpec

=============================================================================
