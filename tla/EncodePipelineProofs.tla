------------------------ MODULE EncodePipelineProofs -------------------------
(***************************************************************************)
(* Proofs about EncodePipeline for every window, number of chunks and      *)
(* number of pieces: its safety properties and that it implements          *)
(* OrderedPipeline.                                                        *)
(***************************************************************************)
EXTENDS EncodePipeline, FiniteSetTheorems, TLAPS

(* What the calling thread holds besides the deque.                        *)
FrontCount == IF front = NoBlock THEN 0 ELSE 1

Open == pc \notin {"unwind", "threw"}

(* drain_front holds a slot exactly while it joins it and sinks its result.*)
FrontOK ==
    /\ front # NoBlock <=> pc \in {"join", "sink"}
    /\ front # NoBlock => front = Len(sunk) + 1
    /\ pc = "sink" => worker[front] = "encoded" /\ front \notin joinable

(* The deque holds the newest blocks, in order, without a gap.             *)
SlotsOK ==
    /\ Len(inFlight) + Len(sunk) + FrontCount <= Len(worker)
    /\ Open => Len(inFlight) + Len(sunk) + FrontCount = Len(worker)
    /\ \A i \in DOMAIN inFlight : inFlight[i] = Len(worker) - Len(inFlight) + i

(* window_ bounds what is held; a full deque is never spawned into; a      *)
(* window of one holds nothing at all.                                     *)
RoomOK ==
    /\ window > 1 => Len(inFlight) + FrontCount <= window
    /\ pc = "spawn" => window > 1 /\ Len(inFlight) < window
    /\ window <= 1 => inFlight = <<>> /\ joinable = {} /\ pc # "join"

(* Every running thread has an owner that will join it.                    *)
ThreadsOK ==
    /\ Encoding \subseteq joinable
    /\ joinable \subseteq Owned

(* How the calling thread's position and what is left to submit agree.     *)
ProgressOK ==
    /\ pc \in {"submit", "spawn"} => piecesLeft > 0
    /\ pc = "sink" /\ window <= 1 => piecesLeft > 0
    /\ pc = "caller" => piecesLeft = 0
    /\ pc \in {"join", "sink"} /\ window > 1 /\ piecesLeft = 0 => chunksLeft = 0
    /\ pc \in {"finish", "returned"} => piecesLeft = 0 /\ chunksLeft = 0
    /\ pc = "returned" => inFlight = <<>>

IndInv ==
    /\ TypeOK
    /\ FrontOK
    /\ SlotsOK
    /\ RoomOK
    /\ ThreadsOK
    /\ ProgressOK
    /\ SunkIsGoodPrefix

-----------------------------------------------------------------------------

(* An empty pipeline satisfies the invariant.                              *)
LEMMA InitIndInv == Init => IndInv
<1> SUFFICES ASSUME Init PROVE IndInv
  OBVIOUS
<1>1. TypeOK
  BY WindowAssumption, ChunkAssumption, PieceAssumption
     DEF Init, TypeOK, NoBlock, CallerPositions, WorkerStates
<1>2. FrontOK /\ SlotsOK /\ RoomOK
  BY DEF Init, FrontOK, SlotsOK, RoomOK, FrontCount, Open, NoBlock
<1>3. ThreadsOK /\ ProgressOK /\ SunkIsGoodPrefix
  BY DEF Init, ThreadsOK, ProgressOK, SunkIsGoodPrefix, Encoding, NoBlock
<1> QED
  BY <1>1, <1>2, <1>3 DEF IndInv

(* Steps that move the calling thread and touch no block, slot or thread.  *)
LEMMA CallerMoves ==
    ASSUME IndInv, UNCHANGED <<window, worker, inFlight, front, joinable, sunk>>,
           TypeOK', ProgressOK', Open <=> Open',
           pc \notin {"join", "sink"}, pc' \notin {"join", "sink"},
           pc' = "spawn" => window > 1 /\ Len(inFlight) < window
    PROVE  IndInv'
<1>1. FrontOK' /\ SlotsOK'
  BY DEF IndInv, FrontOK, SlotsOK, FrontCount
<1>2. RoomOK'
  BY DEF IndInv, RoomOK, FrontCount
<1>3. ThreadsOK' /\ SunkIsGoodPrefix'
  BY DEF IndInv, ThreadsOK, SunkIsGoodPrefix, Encoding, Owned, Slots
<1> QED
  BY <1>1, <1>2, <1>3 DEF IndInv

(* The steps of compress_file and submit that only move on.                *)
LEMMA CallerStep ==
    ASSUME IndInv, SubmitChunk \/ CallFinish \/ RoomLeft \/ FinishReturns
    PROVE  IndInv'
<1>1. TypeOK'
  <2>1. CASE SubmitChunk
    BY <2>1, ChunkAssumption, PieceAssumption DEF IndInv, TypeOK, CallerPositions, SubmitChunk
  <2>2. CASE CallFinish \/ RoomLeft \/ FinishReturns
    BY <2>2 DEF IndInv, TypeOK, CallerPositions, CallFinish, RoomLeft, FinishReturns
  <2> QED
    BY <2>1, <2>2
<1>2. ProgressOK'
  BY ChunkAssumption, PieceAssumption
     DEF IndInv, TypeOK, ProgressOK, SubmitChunk, CallFinish, RoomLeft, FinishReturns,
         NothingInFlight
<1>3. pc' = "spawn" => window > 1 /\ Len(inFlight) < window
  BY DEF IndInv, TypeOK, SubmitChunk, CallFinish, RoomLeft, FinishReturns, WindowFull
<1> QED
  BY <1>1, <1>2, <1>3, CallerMoves
     DEF SubmitChunk, CallFinish, RoomLeft, FinishReturns, Open

(* An exception on the calling thread, at a point where it holds no slot   *)
(* or one whose thread is joined already.                                  *)
LEMMA Throws ==
    ASSUME IndInv, pc' = "unwind", front' = NoBlock,
           joinable' = joinable \ {front},
           front # NoBlock => front \notin Encoding,
           UNCHANGED <<window, chunksLeft, piecesLeft, worker, inFlight, sunk>>
    PROVE  IndInv'
<1>1. TypeOK'
  BY DEF IndInv, TypeOK, CallerPositions, NoBlock
<1>2. FrontOK' /\ SlotsOK'
  BY DEF IndInv, TypeOK, FrontOK, SlotsOK, FrontCount, Open, NoBlock
<1>3. RoomOK'
  BY DEF IndInv, TypeOK, RoomOK, FrontCount, NoBlock
<1>4. ThreadsOK'
  BY DEF IndInv, TypeOK, ThreadsOK, Encoding, Owned, Slots, NoBlock
<1>5. ProgressOK' /\ SunkIsGoodPrefix'
  BY DEF IndInv, TypeOK, ProgressOK, SunkIsGoodPrefix
<1> QED
  BY <1>1, <1>2, <1>3, <1>4, <1>5 DEF IndInv

(* A failing read, thread start or sink.                                   *)
LEMMA CallerThrowsStep ==
    ASSUME IndInv, CallerThrows \/ SpawnThrows \/ SinkThrows
    PROVE  IndInv'
<1>1. front = NoBlock \/ pc = "sink"
  BY DEF IndInv, FrontOK, CallerThrows, SpawnThrows, SinkThrows
<1>2. joinable' = joinable \ {front}
  BY <1>1 DEF IndInv, TypeOK, FrontOK, NoBlock, CallerThrows, SpawnThrows, SinkThrows
<1>3. front # NoBlock => front \notin Encoding
  BY <1>1 DEF IndInv, FrontOK, Encoding
<1>4. front' = NoBlock
  BY <1>1 DEF CallerThrows, SpawnThrows, SinkThrows
<1> QED
  BY <1>2, <1>3, <1>4, Throws DEF CallerThrows, SpawnThrows, SinkThrows

(* encode_block on the calling thread: nothing is ever in flight.          *)
LEMMA EncodeInlineStep ==
    ASSUME IndInv, EncodeInline
    PROVE  IndInv'
<1>0. /\ inFlight = <<>> /\ joinable = {} /\ front = NoBlock /\ Open
      /\ Len(worker) = Len(sunk) /\ piecesLeft > 0
  BY DEF IndInv, TypeOK, FrontOK, SlotsOK, RoomOK, ProgressOK, FrontCount, Open, EncodeInline
<1>1. CASE pc' = "unwind"
  <2>1. front' = NoBlock /\ joinable' = joinable \ {front}
    BY <1>0, <1>1 DEF EncodeInline
  <2> QED
    BY <1>0, <1>1, <2>1, Throws DEF EncodeInline
<1>2. CASE pc' = "sink"
  <2>0. /\ worker' = Append(worker, "encoded") /\ front' = Len(worker) + 1
        /\ UNCHANGED <<window, chunksLeft, piecesLeft, inFlight, joinable, sunk>>
    BY <1>2 DEF EncodeInline, NextBlock
  <2>1. TypeOK'
    BY <1>2, <2>0 DEF IndInv, TypeOK, CallerPositions, WorkerStates
  <2>2. FrontOK' /\ SlotsOK'
    BY <1>0, <1>2, <2>0 DEF IndInv, TypeOK, FrontOK, SlotsOK, FrontCount, Open, NoBlock
  <2>3. RoomOK' /\ ProgressOK'
    BY <1>0, <1>2, <2>0 DEF IndInv, TypeOK, RoomOK, ProgressOK, EncodeInline
  <2>4. ThreadsOK'
    BY <1>0, <2>0 DEF IndInv, TypeOK, ThreadsOK, Encoding
  <2>5. SunkIsGoodPrefix'
    BY <2>0 DEF IndInv, TypeOK, SunkIsGoodPrefix
  <2> QED
    BY <2>1, <2>2, <2>3, <2>4, <2>5 DEF IndInv
<1> QED
  BY <1>1, <1>2 DEF EncodeInline

(* The front slot leaves a deque that is not empty.                        *)
LEMMA TakeSlotStep ==
    ASSUME IndInv, MakeRoom \/ DrainMore
    PROVE  IndInv'
<1>1. /\ TakeSlot /\ front = NoBlock /\ Open /\ inFlight # <<>> /\ window > 1
      /\ piecesLeft = 0 => chunksLeft = 0
  BY DEF IndInv, TypeOK, FrontOK, RoomOK, ProgressOK, Open, MakeRoom, DrainMore, WindowFull,
         NothingInFlight
<1>2. /\ Len(inFlight) \in Nat \ {0} /\ Len(inFlight') = Len(inFlight) - 1
      /\ front' = inFlight[1]
      /\ \A i \in DOMAIN inFlight' : inFlight'[i] = inFlight[i + 1]
  BY <1>1 DEF IndInv, TypeOK, TakeSlot
<1>3. front' = Len(sunk) + 1
  <2>1. inFlight[1] = Len(worker) - Len(inFlight) + 1
    <3>1. 1 \in DOMAIN inFlight
      BY <1>2 DEF IndInv, TypeOK
    <3> QED
      BY <3>1 DEF IndInv, SlotsOK
  <2>2. Len(inFlight) + Len(sunk) = Len(worker)
    BY <1>1 DEF IndInv, TypeOK, SlotsOK, FrontCount
  <2> QED
    BY <1>2, <2>1, <2>2 DEF IndInv, TypeOK
<1>4. TypeOK'
  BY <1>1, <1>3 DEF IndInv, TypeOK, CallerPositions, TakeSlot
<1>5. FrontOK'
  BY <1>1, <1>3 DEF IndInv, TypeOK, TakeSlot, FrontOK, NoBlock
<1>6. SlotsOK'
  <2>1. UNCHANGED <<worker, sunk>> /\ FrontCount = 0 /\ FrontCount' = 1
    BY <1>1, <1>3 DEF IndInv, TypeOK, TakeSlot, FrontCount, NoBlock
  <2>2. Len(inFlight') + Len(sunk') + FrontCount' = Len(worker')
    BY <1>1, <1>2, <2>1 DEF IndInv, TypeOK, SlotsOK
  <2>3. ASSUME NEW i \in DOMAIN inFlight'
        PROVE  inFlight'[i] = Len(worker') - Len(inFlight') + i
    <3>1. i + 1 \in DOMAIN inFlight /\ i \in Nat
      BY <1>1, <1>2 DEF IndInv, TypeOK, TakeSlot
    <3> QED
      BY <1>2, <2>1, <3>1 DEF IndInv, TypeOK, SlotsOK
  <2> QED
    BY <1>4, <2>2, <2>3 DEF SlotsOK, TypeOK
<1>7. RoomOK'
  BY <1>1, <1>2 DEF IndInv, TypeOK, TakeSlot, RoomOK, FrontCount, NoBlock
<1>8. Slots \subseteq Slots' \cup {front'}
  <2> SUFFICES ASSUME NEW i \in DOMAIN inFlight, i # 1
              PROVE  inFlight[i] \in Slots'
    BY <1>2 DEF Slots
  <2> i - 1 \in DOMAIN inFlight' /\ inFlight'[i - 1] = inFlight[i]
    BY <1>1, <1>2 DEF IndInv, TypeOK, TakeSlot
  <2> QED
    BY DEF Slots
<1>9. ThreadsOK'
  BY <1>1, <1>3, <1>8 DEF IndInv, TypeOK, TakeSlot, ThreadsOK, Encoding, Owned, NoBlock
<1>10. ProgressOK' /\ SunkIsGoodPrefix'
  BY <1>1 DEF IndInv, TakeSlot, ProgressOK, SunkIsGoodPrefix
<1> QED
  BY <1>4, <1>5, <1>6, <1>7, <1>9, <1>10 DEF IndInv

(* A new slot and its thread enter a deque that has room.                  *)
LEMMA SpawnStep ==
    ASSUME IndInv, Spawn
    PROVE  IndInv'
<1>1. /\ window > 1 /\ Len(inFlight) < window /\ front = NoBlock /\ front' = NoBlock
      /\ Open /\ Open' /\ piecesLeft > 0 /\ pc' \in {"caller", "submit"}
  BY DEF IndInv, FrontOK, RoomOK, ProgressOK, Open, Spawn, PieceSubmitted
<1>2. /\ Len(inFlight) \in Nat /\ Len(worker) \in Nat
      /\ Len(inFlight') = Len(inFlight) + 1 /\ Len(worker') = Len(worker) + 1
      /\ \A i \in DOMAIN inFlight : inFlight'[i] = inFlight[i]
      /\ inFlight'[Len(inFlight')] = Len(worker')
      /\ DOMAIN inFlight' = DOMAIN inFlight \cup {Len(inFlight')}
      /\ \A b \in DOMAIN worker : worker'[b] = worker[b]
      /\ DOMAIN worker' = DOMAIN worker \cup {Len(worker')}
  BY DEF IndInv, TypeOK, Spawn, NextBlock
<1>3. TypeOK'
  <2>1. worker' \in Seq(WorkerStates) /\ inFlight' \in Seq(Nat \ {0})
    BY DEF IndInv, TypeOK, Spawn, NextBlock, WorkerStates
  <2>2. joinable' \in SUBSET (Nat \ {0})
    <3>1. NextBlock \in Nat \ {0}
      BY <1>2 DEF NextBlock
    <3>2. joinable \in SUBSET (Nat \ {0}) /\ joinable' = joinable \cup {NextBlock}
      BY DEF IndInv, TypeOK, Spawn
    <3> QED
      BY <3>1, <3>2
  <2>3. piecesLeft' \in 0..MaxPieces
    BY <1>1, PieceAssumption DEF IndInv, TypeOK, Spawn, PieceSubmitted
  <2> QED
    BY <1>1, <2>1, <2>2, <2>3 DEF IndInv, TypeOK, Spawn, CallerPositions
<1>4. FrontOK' /\ RoomOK'
  BY <1>1, <1>2 DEF IndInv, TypeOK, Spawn, FrontOK, RoomOK, FrontCount
<1>5. SlotsOK'
  <2>1. Len(inFlight') + Len(sunk') + FrontCount' = Len(worker')
    <3>1. FrontCount = 0 /\ FrontCount' = 0 /\ sunk' = sunk
      BY <1>1 DEF FrontCount, Spawn
    <3>2. Len(inFlight) + Len(sunk) = Len(worker)
      BY <1>1, <3>1 DEF IndInv, TypeOK, SlotsOK
    <3> QED
      BY <1>2, <3>1, <3>2 DEF IndInv, TypeOK
  <2>2. ASSUME NEW i \in DOMAIN inFlight'
        PROVE  inFlight'[i] = Len(worker') - Len(inFlight') + i
    BY <1>2 DEF IndInv, TypeOK, SlotsOK
  <2> QED
    BY <2>1, <2>2, <1>2 DEF IndInv, TypeOK, Spawn, SlotsOK, FrontCount
<1>6. ThreadsOK'
  <2>1. Slots' = Slots \cup {Len(worker')}
    BY <1>2 DEF Slots
  <2>2. Encoding' \subseteq Encoding \cup {Len(worker')}
    BY <1>2 DEF Encoding
  <2> QED
    BY <1>1, <1>2, <2>1, <2>2 DEF IndInv, ThreadsOK, Owned, Spawn, NextBlock
<1>7. ProgressOK'
  BY <1>1 DEF IndInv, TypeOK, ProgressOK, Spawn, PieceSubmitted
<1>8. SunkIsGoodPrefix'
  BY <1>2 DEF IndInv, SunkIsGoodPrefix, Spawn
<1> QED
  BY <1>3, <1>4, <1>5, <1>6, <1>7, <1>8 DEF IndInv

(* join() has returned: the result is good, or it is rethrown.             *)
LEMMA JoinFrontStep ==
    ASSUME IndInv, JoinFront
    PROVE  IndInv'
<1>0. /\ front = Len(sunk) + 1 /\ front # NoBlock /\ Len(sunk) \in Nat
      /\ front \in DOMAIN worker /\ front \notin Encoding /\ window > 1
  BY DEF IndInv, TypeOK, FrontOK, SlotsOK, RoomOK, FrontCount, Open, Encoding, NoBlock,
         JoinFront, ThreadEnded
<1>1. CASE ResultThrew(front)
  BY <1>0, <1>1, Throws DEF JoinFront
<1>2. CASE ~ResultThrew(front)
  <2>0. /\ pc' = "sink" /\ joinable' = joinable \ {front} /\ worker[front] = "encoded"
        /\ UNCHANGED <<window, chunksLeft, piecesLeft, worker, inFlight, front, sunk>>
    BY <1>0, <1>2 DEF IndInv, TypeOK, WorkerStates, JoinFront, ThreadEnded, ResultThrew
  <2>1. TypeOK' /\ FrontOK'
    BY <1>0, <2>0 DEF IndInv, TypeOK, FrontOK, CallerPositions
  <2>2. SlotsOK' /\ RoomOK'
    BY <1>0, <2>0 DEF IndInv, TypeOK, SlotsOK, RoomOK, FrontCount, Open, JoinFront
  <2>3. ThreadsOK'
    BY <1>0, <2>0 DEF IndInv, ThreadsOK, Encoding, Owned, Slots
  <2>4. ProgressOK' /\ SunkIsGoodPrefix'
    BY <1>0, <2>0 DEF IndInv, TypeOK, ProgressOK, SunkIsGoodPrefix, JoinFront
  <2> QED
    BY <2>1, <2>2, <2>3, <2>4 DEF IndInv
<1> QED
  BY <1>1, <1>2

(* The sink takes the block that is next in order.                         *)
LEMMA SinkAcceptsStep ==
    ASSUME IndInv, SinkAccepts
    PROVE  IndInv'
<1>1. /\ front = Len(sunk) + 1 /\ front # NoBlock /\ front' = NoBlock
      /\ worker[front] = "encoded" /\ front \notin joinable /\ Open /\ Open'
      /\ front \in DOMAIN worker
      /\ pc' \in {"caller", "submit", "spawn", "finish"}
      /\ Len(sunk) \in Nat /\ Len(sunk') = Len(sunk) + 1 /\ sunk' = Append(sunk, front)
  BY DEF IndInv, TypeOK, FrontOK, SlotsOK, FrontCount, Open, NoBlock, SinkAccepts, PieceSubmitted
<1>2. TypeOK'
  <2>1. sunk' \in Seq(Nat \ {0})
    BY <1>1 DEF IndInv, TypeOK, NoBlock
  <2>2. piecesLeft' \in 0..MaxPieces
    BY PieceAssumption DEF IndInv, TypeOK, ProgressOK, SinkAccepts, PieceSubmitted
  <2> QED
    BY <1>1, <2>1, <2>2 DEF IndInv, TypeOK, CallerPositions, NoBlock, SinkAccepts
<1>3. FrontOK' /\ SlotsOK'
  BY <1>1 DEF IndInv, TypeOK, FrontOK, SlotsOK, FrontCount, SinkAccepts
<1>4. RoomOK'
  BY <1>1 DEF IndInv, TypeOK, RoomOK, FrontCount, SinkAccepts, PieceSubmitted
<1>5. ThreadsOK'
  BY <1>1 DEF IndInv, ThreadsOK, Encoding, Owned, Slots, SinkAccepts
<1>6. ProgressOK'
  BY <1>1 DEF IndInv, TypeOK, ProgressOK, SinkAccepts, PieceSubmitted
<1>7. SunkIsGoodPrefix'
  BY <1>1 DEF IndInv, TypeOK, SunkIsGoodPrefix, SinkAccepts
<1> QED
  BY <1>2, <1>3, <1>4, <1>5, <1>6, <1>7 DEF IndInv

(* The destructor: it joins every slot, then drops the deque.              *)
LEMMA UnwindStep ==
    ASSUME IndInv, UnwindJoin \/ UnwindDone
    PROVE  IndInv'
<1>0. front = NoBlock /\ front' = NoBlock /\ Len(inFlight') <= Len(inFlight)
  BY DEF IndInv, TypeOK, FrontOK, UnwindJoin, UnwindDone
<1>1. /\ UNCHANGED <<window, chunksLeft, piecesLeft, worker, sunk>>
      /\ pc' \in {"unwind", "threw"} /\ joinable' \subseteq joinable
      /\ inFlight' = inFlight \/ inFlight' = <<>>
  BY DEF UnwindJoin, UnwindDone
<1>2. TypeOK' /\ FrontOK'
  <2>1. inFlight' \in Seq(Nat \ {0})
    <3>1. inFlight \in Seq(Nat \ {0}) /\ <<>> \in Seq(Nat \ {0})
      BY DEF IndInv, TypeOK
    <3> QED
      BY <1>1, <3>1
  <2>2. TypeOK'
    BY <1>0, <1>1, <2>1 DEF IndInv, TypeOK, CallerPositions
  <2>3. FrontOK'
    BY <1>0, <1>1 DEF FrontOK
  <2> QED
    BY <2>2, <2>3
<1>5. SlotsOK' /\ RoomOK'
  <2>1. FrontCount = 0 /\ FrontCount' = 0 /\ ~Open'
    BY <1>0, <1>1 DEF FrontCount, Open
  <2>2. SlotsOK'
    <3>1. /\ Len(inFlight) \in Nat /\ Len(inFlight') \in Nat
          /\ Len(sunk) \in Nat /\ Len(worker) \in Nat
      BY <1>2 DEF IndInv, TypeOK
    <3>2. Len(inFlight') + Len(sunk') + FrontCount' <= Len(worker')
      BY <1>0, <1>1, <2>1, <3>1 DEF IndInv, SlotsOK
    <3>3. \A i \in DOMAIN inFlight' : inFlight'[i] = Len(worker') - Len(inFlight') + i
      <4>1. CASE inFlight' = inFlight
        BY <1>1, <4>1 DEF IndInv, SlotsOK
      <4>2. CASE inFlight' = <<>>
        BY <4>2
      <4> QED
        BY <1>1, <4>1, <4>2
    <3> QED
      BY <2>1, <3>2, <3>3 DEF SlotsOK
  <2>3. RoomOK'
    BY <1>0, <1>1, <2>1 DEF IndInv, TypeOK, RoomOK
  <2> QED
    BY <2>2, <2>3
<1>3. ThreadsOK'
  BY <1>0 DEF IndInv, TypeOK, ThreadsOK, Encoding, Owned, Slots, AllJoined, ThreadEnded, UnwindJoin,
             UnwindDone
<1>4. ProgressOK' /\ SunkIsGoodPrefix'
  BY <1>1 DEF IndInv, ProgressOK, SunkIsGoodPrefix
<1> QED
  BY <1>2, <1>3, <1>4, <1>5 DEF IndInv

(* A worker's end changes nothing but its own result.                      *)
LEMMA WorkerEndsStep ==
    ASSUME IndInv, NEW b \in DOMAIN worker, WorkerEnds(b)
    PROVE  IndInv'
<1>1. /\ UNCHANGED <<window, pc, chunksLeft, piecesLeft, inFlight, front, joinable, sunk>>
      /\ DOMAIN worker' = DOMAIN worker /\ Len(worker') = Len(worker)
      /\ \A c \in DOMAIN worker : c # b => worker'[c] = worker[c]
      /\ worker[b] = "encoding" /\ worker'[b] \in {"encoded", "threw"}
  BY DEF IndInv, TypeOK, WorkerEnds
<1>2. TypeOK'
  BY DEF IndInv, TypeOK, WorkerStates, WorkerEnds
<1>3. FrontOK' /\ SlotsOK' /\ RoomOK'
  <2>1. FrontOK'
    <3>1. pc = "sink" => front # b
      BY <1>1 DEF IndInv, FrontOK
    <3>2. pc = "sink" => front \in DOMAIN worker
      BY DEF IndInv, TypeOK, FrontOK, SlotsOK, FrontCount, Open, NoBlock
    <3> QED
      BY <1>1, <3>1, <3>2 DEF IndInv, FrontOK
  <2>2. SlotsOK'
    BY <1>1 DEF IndInv, SlotsOK, FrontCount, Open
  <2>3. RoomOK'
    BY <1>1 DEF IndInv, RoomOK, FrontCount
  <2> QED
    BY <2>1, <2>2, <2>3
<1>4. ThreadsOK'
  BY <1>1 DEF IndInv, ThreadsOK, Encoding, Owned, Slots
<1>5. ProgressOK' /\ SunkIsGoodPrefix'
  BY <1>1 DEF IndInv, ProgressOK, SunkIsGoodPrefix
<1> QED
  BY <1>2, <1>3, <1>4, <1>5 DEF IndInv

(* A step that changes nothing keeps the invariant.                        *)
LEMMA StutterStep ==
    ASSUME IndInv, UNCHANGED vars
    PROVE  IndInv'
BY DEF IndInv, TypeOK, FrontOK, SlotsOK, RoomOK, ThreadsOK, ProgressOK, SunkIsGoodPrefix,
       FrontCount, Open, Owned, Slots, Encoding, vars

(* The invariant is inductive.                                             *)
LEMMA NextIndInv == IndInv /\ [Next]_vars => IndInv'
<1> SUFFICES ASSUME IndInv, [Next]_vars
            PROVE  IndInv'
  OBVIOUS
<1>1. CASE SubmitChunk \/ CallFinish \/ RoomLeft \/ FinishReturns
  BY <1>1, CallerStep
<1>2. CASE CallerThrows \/ SpawnThrows \/ SinkThrows
  BY <1>2, CallerThrowsStep
<1>3. CASE EncodeInline
  BY <1>3, EncodeInlineStep
<1>4. CASE MakeRoom \/ DrainMore
  BY <1>4, TakeSlotStep
<1>5. CASE Spawn
  BY <1>5, SpawnStep
<1>6. CASE JoinFront
  BY <1>6, JoinFrontStep
<1>7. CASE SinkAccepts
  BY <1>7, SinkAcceptsStep
<1>8. CASE UnwindJoin \/ UnwindDone
  BY <1>8, UnwindStep
<1>9. CASE \E b \in DOMAIN worker : WorkerEnds(b)
  BY <1>9, WorkerEndsStep
<1>10. CASE UNCHANGED vars
  BY <1>10, StutterStep
<1> QED
  BY <1>1, <1>2, <1>3, <1>4, <1>5, <1>6, <1>7, <1>8, <1>9, <1>10 DEF Next, Caller, Stopped

(* In every reachable state the deque holds the newest blocks in order, the *)
(* sink the gap-free run before them, and every joinable thread an owner.  *)
THEOREM Invariance == Spec => []IndInv
<1>1. Init => IndInv
  BY InitIndInv
<1>2. IndInv /\ [Next]_vars => IndInv'
  BY NextIndInv
<1> QED
  BY <1>1, <1>2, PTL DEF Spec

-----------------------------------------------------------------------------
(* The results.  Each states a property the runs check on small constants. *)

(* Every variable keeps its type for every window and stream.              *)
THEOREM TypeCorrect == Spec => []TypeOK
<1>1. IndInv => TypeOK
  BY DEF IndInv
<1> QED
  BY <1>1, Invariance, PTL

(* What has reached the sink is always a gap-free run of good blocks, and  *)
(* a pipeline whose finish() returned lost no block and hid no exception.  *)
THEOREM SinkIsSound == Spec => []SinkSound
<1>1. IndInv => CompleteOnReturn
  <2> SUFFICES ASSUME IndInv, pc = "returned"
              PROVE  /\ chunksLeft = 0 /\ piecesLeft = 0
                     /\ Len(sunk) = Len(worker)
                     /\ \A b \in DOMAIN worker : worker[b] = "encoded"
                     /\ joinable = {}
    BY DEF CompleteOnReturn
  <2>1. front = NoBlock /\ inFlight = <<>> /\ chunksLeft = 0 /\ piecesLeft = 0
    BY DEF IndInv, FrontOK, ProgressOK
  <2>2. Len(sunk) = Len(worker)
    BY <2>1 DEF IndInv, TypeOK, SlotsOK, Open, FrontCount
  <2>3. DOMAIN worker = DOMAIN sunk
    BY <2>2 DEF IndInv, TypeOK
  <2>4. \A b \in DOMAIN worker : worker[b] = "encoded"
    BY <2>3 DEF IndInv, SunkIsGoodPrefix
  <2>5. joinable = {}
    BY <2>1 DEF IndInv, ThreadsOK, Owned, Slots
  <2> QED
    BY <2>1, <2>2, <2>4, <2>5
<1>2. IndInv => SinkSound
  BY <1>1 DEF IndInv, SinkSound
<1> QED
  BY <1>2, Invariance, PTL

(* The blocks being encoded lie in an interval no longer than what the     *)
(* calling thread holds.                                                   *)
LEMMA EncodingInterval ==
    ASSUME IndInv
    PROVE  \E m, n \in Nat : /\ Encoding \subseteq (m + 1)..n
                             /\ n - m <= window
                             /\ m <= n
<1>1. /\ Len(worker) \in Nat /\ Len(inFlight) \in Nat /\ Len(sunk) \in Nat
      /\ window \in Nat \ {0}
  BY WindowAssumption DEF IndInv, TypeOK
<1>2. CASE window <= 1
  <2>1. Encoding = {}
    BY <1>2 DEF IndInv, RoomOK, ThreadsOK
  <2>2. Encoding \subseteq (0 + 1)..0 /\ 0 - 0 <= window /\ 0 <= 0
    BY <1>1, <2>1
  <2> QED
    BY <2>2
<1>3. CASE window > 1
  <2> DEFINE n == Len(worker)
             m == Len(worker) - Len(inFlight) - FrontCount
  <2>1. FrontCount \in Nat /\ m \in Nat /\ n - m <= window /\ m <= n
    BY <1>1, <1>3 DEF IndInv, SlotsOK, RoomOK, FrontCount
  <2>2. ASSUME NEW b \in Encoding
        PROVE  b \in (m + 1)..n
    <3>1. b \in 1..n /\ (b \in Slots \/ (front # NoBlock /\ b = front))
      BY DEF IndInv, TypeOK, ThreadsOK, Encoding, Owned
    <3>2. CASE b \in Slots
      <4>1. PICK i \in DOMAIN inFlight : b = inFlight[i]
        BY <3>2 DEF Slots
      <4>2. b = n - Len(inFlight) + i /\ i \in 1..Len(inFlight)
        BY <4>1 DEF IndInv, TypeOK, SlotsOK
      <4> QED
        BY <1>1, <2>1, <4>2, <3>1
    <3>3. CASE front # NoBlock /\ b = front
      <4>1. FrontCount = 1 /\ b = Len(sunk) + 1 /\ Open
        BY <3>3 DEF IndInv, FrontOK, FrontCount, Open
      <4>2. m = Len(sunk)
        BY <1>1, <4>1 DEF IndInv, SlotsOK
      <4> QED
        BY <1>1, <2>1, <3>1, <4>1, <4>2
    <3> QED
      BY <3>1, <3>2, <3>3
  <2> QED
    BY <1>1, <2>1, <2>2
<1> QED
  BY <1>1, <1>2, <1>3

(* However many chunks and pieces there are, no more than window_ worker   *)
(* threads ever run at once.                                               *)
THEOREM WindowBound == Spec => []WorkersWithinWindow
<1>1. IndInv => WorkersWithinWindow
  <2> SUFFICES ASSUME IndInv
              PROVE  Cardinality(Encoding) <= window
    BY DEF WorkersWithinWindow
  <2>1. PICK m, n \in Nat : Encoding \subseteq (m + 1)..n /\ n - m <= window /\ m <= n
    BY EncodingInterval
  <2>2. IsFiniteSet((m + 1)..n) /\ Cardinality((m + 1)..n) = n - m
    <3>1. m + 1 \in Int /\ n \in Int
      BY <2>1
    <3>2. /\ IsFiniteSet((m + 1)..n)
          /\ Cardinality((m + 1)..n) = IF (m + 1) > n THEN 0 ELSE n - (m + 1) + 1
      BY <3>1, FS_Interval
    <3> QED
      BY <2>1, <3>2
  <2>3. Cardinality(Encoding) <= Cardinality((m + 1)..n) /\ IsFiniteSet(Encoding)
    BY <2>1, <2>2, FS_Subset
  <2>4. Cardinality(Encoding) \in Nat
    BY <2>3, FS_CardinalityType
  <2> QED
    BY <2>1, <2>2, <2>3, <2>4, WindowAssumption DEF IndInv, TypeOK
<1> QED
  BY <1>1, Invariance, PTL

(* No std::thread is ever destroyed while it is joinable.                  *)
THEOREM ThreadsJoined == Spec => NoJoinableDestroyed
<1>1. IndInv /\ [Next]_vars => [\A b \in Owned \ Owned' : b \notin joinable']_vars
  <2> SUFFICES ASSUME IndInv, Next, NEW b \in Owned, b \notin Owned'
              PROVE  b \notin joinable'
    OBVIOUS
  <2>1. joinable' \subseteq Owned'
    BY NextIndInv DEF IndInv, ThreadsOK
  <2> QED
    BY <2>1
<1> QED
  BY <1>1, Invariance, PTL DEF Spec, NoJoinableDestroyed

-----------------------------------------------------------------------------
(* Refinement                                                              *)

(* The pipeline, threads, deque and exceptions included, implements the    *)
(* in-order bounded pipeline its callers rely on.                          *)
THEOREM Refinement == Spec => ImplementsOrderedPipeline
<1>1. Init => Abstract!Init
  BY WindowAssumption DEF Init, Abstract!Init, PipelineStatus
<1>2. IndInv /\ [Next]_vars => [Abstract!Next]_(Abstract!vars)
  <2> SUFFICES ASSUME IndInv, [Next]_vars
              PROVE  [Abstract!Next]_(Abstract!vars)
    OBVIOUS
  <2> USE DEF PipelineStatus, Abstract!vars
  <2>0. /\ Len(worker) \in Nat /\ Len(sunk) \in Nat /\ window \in Nat \ {0}
        /\ Len(inFlight) \in Nat
    BY WindowAssumption DEF IndInv, TypeOK
  <2>1. CASE \/ SubmitChunk \/ CallFinish \/ MakeRoom \/ RoomLeft \/ DrainMore
             \/ UnwindJoin \/ UnwindDone \/ UNCHANGED vars
    BY <2>1 DEF SubmitChunk, CallFinish, MakeRoom, RoomLeft, DrainMore, TakeSlot,
                UnwindJoin, UnwindDone, vars
  <2>2. CASE CallerThrows \/ SpawnThrows \/ SinkThrows
    <3>1. Abstract!Abort
      BY <2>2 DEF CallerThrows, SpawnThrows, SinkThrows, Abstract!Abort
    <3> QED
      BY <3>1 DEF Abstract!Next
  <2>3. CASE EncodeInline
    <3>1. CASE pc' = "unwind"
      <4>1. Abstract!Abort
        BY <2>3, <3>1 DEF EncodeInline, Abstract!Abort
      <4> QED
        BY <4>1 DEF Abstract!Next
    <3>2. CASE pc' = "sink"
      <4>1. Len(worker) = Len(sunk)
        BY <2>0, <2>3 DEF EncodeInline, IndInv, FrontOK, SlotsOK, RoomOK, FrontCount, Open
      <4>2. Len(worker') = Len(worker) + 1
        BY <2>3, <3>2 DEF EncodeInline, IndInv, TypeOK
      <4>3. Abstract!Accept
        BY <2>0, <2>3, <3>2, <4>1, <4>2 DEF EncodeInline, Abstract!Accept
      <4> QED
        BY <4>3 DEF Abstract!Next
    <3> QED
      BY <2>3, <3>1, <3>2 DEF EncodeInline
  <2>4. CASE Spawn
    <3>1. Len(worker) < Len(sunk) + window
      BY <2>0, <2>4 DEF Spawn, IndInv, FrontOK, SlotsOK, RoomOK, FrontCount, Open
    <3>2. Len(worker') = Len(worker) + 1
      BY <2>4 DEF Spawn, IndInv, TypeOK
    <3>3. Abstract!Accept
      BY <2>4, <3>1, <3>2 DEF Spawn, PieceSubmitted, Abstract!Accept
    <3> QED
      BY <3>3 DEF Abstract!Next
  <2>5. CASE JoinFront
    <3>1. CASE ResultThrew(front)
      <4>1. Abstract!Abort
        BY <2>5, <3>1 DEF JoinFront, Abstract!Abort
      <4> QED
        BY <4>1 DEF Abstract!Next
    <3>2. CASE ~ResultThrew(front)
      BY <2>5, <3>2 DEF JoinFront
    <3> QED
      BY <3>1, <3>2
  <2>6. CASE SinkAccepts
    <3>1. Len(sunk) < Len(worker) /\ front = Len(sunk) + 1
      BY <2>0, <2>6 DEF SinkAccepts, IndInv, FrontOK, SlotsOK, FrontCount
    <3>2. pc' \in {"caller", "submit", "spawn", "finish"}
      BY <2>6 DEF SinkAccepts, PieceSubmitted
    <3>3. Abstract!Emit
      BY <2>6, <3>1, <3>2 DEF SinkAccepts, Abstract!Emit
    <3> QED
      BY <3>3 DEF Abstract!Next
  <2>7. CASE FinishReturns
    <3>1. Len(worker) = Len(sunk)
      BY <2>0, <2>7 DEF FinishReturns, NothingInFlight, IndInv, FrontOK, SlotsOK, FrontCount, Open
    <3>2. Abstract!Complete
      BY <2>7, <3>1 DEF FinishReturns, Abstract!Complete
    <3> QED
      BY <3>2 DEF Abstract!Next
  <2>8. CASE \E b \in DOMAIN worker : WorkerEnds(b)
    <3>1. Len(worker') = Len(worker) /\ UNCHANGED <<window, pc, sunk>>
      BY <2>8 DEF WorkerEnds, IndInv, TypeOK
    <3> QED
      BY <3>1
  <2> QED
    BY <2>1, <2>2, <2>3, <2>4, <2>5, <2>6, <2>7, <2>8 DEF Next, Caller, Stopped
<1> QED
  BY <1>1, <1>2, Invariance, PTL DEF Spec, Abstract!Spec, ImplementsOrderedPipeline

=============================================================================
