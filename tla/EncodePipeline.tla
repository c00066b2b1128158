--------------------------- MODULE EncodePipeline ----------------------------
(***************************************************************************)
(* class EncodePipeline of codec.cpp: the calling thread cuts the stream   *)
(* into blocks, starts one worker thread per block, keeps at most window_  *)
(* of them in the deque in_flight_, and hands the results to the sink in   *)
(* submission order.  A window of one encodes on the calling thread.       *)
(*                                                                         *)
(* The calling thread's position is pc; the threads it starts are the      *)
(* entries of "worker".  A block is its index in the stream; what a chunk  *)
(* holds is abstracted to the number of pieces content_boundaries finds in *)
(* it.  Every call that can throw (the caller's own read, encode_block,    *)
(* the std::thread constructor, the sink) may throw at any time, and the   *)
(* exception unwinds through the destructor of the pipeline.               *)
(***************************************************************************)
EXTENDS Naturals, Sequences, FiniteSets

CONSTANTS
    MaxWindow,  \* the largest window pipeline_window may return
    MaxChunks,  \* the most chunks a caller submits
    MaxPieces   \* the most blocks content_boundaries makes of one chunk

ASSUME WindowAssumption == MaxWindow \in Nat \ {0}
ASSUME ChunkAssumption  == MaxChunks \in Nat
ASSUME PieceAssumption  == MaxPieces \in Nat \ {0}

VARIABLES
    window,      \* window_
    pc,          \* where the calling thread is
    chunksLeft,  \* chunks the caller has still to submit
    piecesLeft,  \* pieces of the current chunk still to submit
    worker,      \* worker[b]: how far the encoding of block b has come
    inFlight,    \* in_flight_: the blocks of its slots, front first
    front,       \* the local "front" of drain_front, or NoBlock
    joinable,    \* blocks whose std::thread is started and not yet joined
    sunk         \* the blocks sink_ has accepted, oldest first

vars == <<window, pc, chunksLeft, piecesLeft, worker, inFlight, front, joinable, sunk>>

NoBlock == 0

CallerPositions == {"caller", "submit", "spawn", "join", "sink", "finish", "unwind",
                    "returned", "threw"}
WorkerStates == {"encoding", "encoded", "threw"}

Ended == pc \in {"returned", "threw"}

NextBlock == Len(worker) + 1

Slots == {inFlight[i] : i \in DOMAIN inFlight}

-----------------------------------------------------------------------------

Init ==
    /\ window \in 1..MaxWindow
    /\ chunksLeft \in 0..MaxChunks
    /\ pc = "caller"
    /\ piecesLeft = 0
    /\ worker = <<>>
    /\ inFlight = <<>>
    /\ front = NoBlock
    /\ joinable = {}
    /\ sunk = <<>>

-----------------------------------------------------------------------------
(* Tests the calling thread makes.  A name ending in "Faulty" is a variant  *)
(* of the definition after it with a bug in it, there to show that the     *)
(* properties notice the bug; no specification uses it.                    *)

WindowFullFaulty == Len(inFlight) > window

(* The guard of submit that makes room before a block enters.              *)
WindowFull == Len(inFlight) >= window

(* join() returns once the thread has run its task to the end.             *)
ThreadEnded(b) == worker[b] # "encoding"

ResultThrewFaulty(b) == FALSE

(* result.get() rethrows what the task threw.                              *)
ResultThrew(b) == worker[b] = "threw"

NothingInFlight == inFlight = <<>>

AllJoinedFaulty == inFlight # <<>> => Head(inFlight) \notin joinable

(* No thread of the deque is left joinable.                                *)
AllJoined == Slots \cap joinable = {}

-----------------------------------------------------------------------------
(* The caller: it submits chunks, then calls finish, or throws itself.     *)

SubmitChunk ==
    /\ pc = "caller"
    /\ chunksLeft > 0
    /\ chunksLeft' = chunksLeft - 1
    /\ piecesLeft' \in 1..MaxPieces
    /\ pc' = "submit"
    /\ UNCHANGED <<window, worker, inFlight, front, joinable, sunk>>

CallFinish ==
    /\ pc = "caller"
    /\ chunksLeft = 0
    /\ pc' = "finish"
    /\ UNCHANGED <<window, chunksLeft, piecesLeft, worker, inFlight, front, joinable, sunk>>

CallerThrows ==
    /\ pc = "caller"
    /\ chunksLeft > 0
    /\ pc' = "unwind"
    /\ UNCHANGED <<window, chunksLeft, piecesLeft, worker, inFlight, front, joinable, sunk>>

-----------------------------------------------------------------------------
(* submit                                                                  *)

PieceSubmittedFaulty ==
    /\ piecesLeft' = piecesLeft - 1
    /\ pc' = "submit"

PieceSubmitted ==
    /\ piecesLeft' = piecesLeft - 1
    /\ pc' = IF piecesLeft = 1 THEN "caller" ELSE "submit"

(* window_ <= 1: encode_block runs on the calling thread, then the sink.   *)
EncodeInline ==
    /\ pc = "submit"
    /\ window <= 1
    /\ \/ /\ worker' = Append(worker, "encoded")
          /\ front' = NextBlock
          /\ pc' = "sink"
       \/ /\ pc' = "unwind"
          /\ UNCHANGED <<worker, front>>
    /\ UNCHANGED <<window, chunksLeft, piecesLeft, inFlight, joinable, sunk>>

TakeSlotFaulty ==
    /\ front' = inFlight[Len(inFlight)]
    /\ inFlight' = SubSeq(inFlight, 1, Len(inFlight) - 1)
    /\ pc' = "join"
    /\ UNCHANGED <<window, chunksLeft, piecesLeft, worker, joinable, sunk>>

(* drain_front begins: the front slot is moved out of the deque.           *)
TakeSlot ==
    /\ front' = Head(inFlight)
    /\ inFlight' = Tail(inFlight)
    /\ pc' = "join"
    /\ UNCHANGED <<window, chunksLeft, piecesLeft, worker, joinable, sunk>>

MakeRoom ==
    /\ pc = "submit"
    /\ window > 1
    /\ WindowFull
    /\ TakeSlot

RoomLeft ==
    /\ pc = "submit"
    /\ window > 1
    /\ ~WindowFull
    /\ pc' = "spawn"
    /\ UNCHANGED <<window, chunksLeft, piecesLeft, worker, inFlight, front, joinable, sunk>>

Spawn ==
    /\ pc = "spawn"
    /\ worker' = Append(worker, "encoding")
    /\ inFlight' = Append(inFlight, NextBlock)
    /\ joinable' = joinable \cup {NextBlock}
    /\ PieceSubmitted
    /\ UNCHANGED <<window, chunksLeft, front, sunk>>

(* std::thread throws: the slot just made is popped again.                 *)
SpawnThrows ==
    /\ pc = "spawn"
    /\ pc' = "unwind"
    /\ UNCHANGED <<window, chunksLeft, piecesLeft, worker, inFlight, front, joinable, sunk>>

-----------------------------------------------------------------------------
(* drain_front, called to make room in submit and until empty by finish    *)

JoinFront ==
    /\ pc = "join"
    /\ ThreadEnded(front)
    /\ joinable' = joinable \ {front}
    /\ IF ResultThrew(front)
         THEN pc' = "unwind" /\ front' = NoBlock
         ELSE pc' = "sink" /\ UNCHANGED front
    /\ UNCHANGED <<window, chunksLeft, piecesLeft, worker, inFlight, sunk>>

SinkAccepts ==
    /\ pc = "sink"
    /\ sunk' = Append(sunk, front)
    /\ front' = NoBlock
    /\ IF window <= 1
         THEN PieceSubmitted
         ELSE /\ pc' = IF piecesLeft > 0 THEN "spawn" ELSE "finish"
              /\ UNCHANGED piecesLeft
    /\ UNCHANGED <<window, chunksLeft, worker, inFlight, joinable>>

SinkThrows ==
    /\ pc = "sink"
    /\ front' = NoBlock
    /\ pc' = "unwind"
    /\ UNCHANGED <<window, chunksLeft, piecesLeft, worker, inFlight, joinable, sunk>>

DrainMore ==
    /\ pc = "finish"
    /\ ~NothingInFlight
    /\ TakeSlot

FinishReturns ==
    /\ pc = "finish"
    /\ NothingInFlight
    /\ pc' = "returned"
    /\ UNCHANGED <<window, chunksLeft, piecesLeft, worker, inFlight, front, joinable, sunk>>

-----------------------------------------------------------------------------
(* ~EncodePipeline: joins what is still joinable, then drops the deque     *)

UnwindJoinFaulty ==
    /\ pc = "unwind"
    /\ inFlight # <<>> /\ Head(inFlight) \in joinable
    /\ ThreadEnded(Head(inFlight))
    /\ joinable' = joinable \ {Head(inFlight)}
    /\ UNCHANGED <<window, pc, chunksLeft, piecesLeft, worker, inFlight, front, sunk>>

UnwindJoin ==
    /\ pc = "unwind"
    /\ \E i \in DOMAIN inFlight :
         /\ inFlight[i] \in joinable
         /\ \A j \in 1..(i - 1) : inFlight[j] \notin joinable
         /\ ThreadEnded(inFlight[i])
         /\ joinable' = joinable \ {inFlight[i]}
    /\ UNCHANGED <<window, pc, chunksLeft, piecesLeft, worker, inFlight, front, sunk>>

UnwindDone ==
    /\ pc = "unwind"
    /\ AllJoined
    /\ inFlight' = <<>>
    /\ pc' = "threw"
    /\ UNCHANGED <<window, chunksLeft, piecesLeft, worker, front, joinable, sunk>>

-----------------------------------------------------------------------------
(* A worker thread runs encode_block on its block.                         *)

WorkerEnds(b) ==
    /\ b \in DOMAIN worker
    /\ worker[b] = "encoding"
    /\ \E result \in {"encoded", "threw"} : worker' = [worker EXCEPT ![b] = result]
    /\ UNCHANGED <<window, pc, chunksLeft, piecesLeft, inFlight, front, joinable, sunk>>

Stopped == Ended /\ UNCHANGED vars

Caller ==
    \/ SubmitChunk \/ CallFinish \/ CallerThrows
    \/ EncodeInline \/ MakeRoom \/ RoomLeft \/ Spawn \/ SpawnThrows
    \/ JoinFront \/ SinkAccepts \/ SinkThrows \/ DrainMore \/ FinishReturns
    \/ UnwindJoin \/ UnwindDone

Next == Caller \/ (\E b \in DOMAIN worker : WorkerEnds(b)) \/ Stopped

Spec == Init /\ [][Next]_vars

(* encode_block terminates and the scheduler runs every started thread:    *)
(* each worker, and the caller, is weakly fair.                            *)
FairSpec ==
    /\ Spec
    /\ WF_vars(Caller)
    /\ \A b \in 1..(MaxChunks * MaxPieces) : WF_vars(WorkerEnds(b))

-----------------------------------------------------------------------------
(* Properties                                                              *)

(* Every variable has the type its C++ counterpart gives it.               *)
TypeOK ==
    /\ window \in 1..MaxWindow
    /\ pc \in CallerPositions
    /\ chunksLeft \in 0..MaxChunks
    /\ piecesLeft \in 0..MaxPieces
    /\ worker \in Seq(WorkerStates)
    /\ inFlight \in Seq(Nat \ {0})
    /\ front \in Nat
    /\ joinable \in SUBSET (Nat \ {0})
    /\ sunk \in Seq(Nat \ {0})

Encoding == {b \in DOMAIN worker : worker[b] = "encoding"}

(* "At most `window` at a time" (the comment on the class): no more than   *)
(* window_ worker threads run at once, also while one slot is out of the   *)
(* deque and being joined; the memory budget of pipeline_window counts on  *)
(* it.                                                                     *)
WorkersWithinWindow == Cardinality(Encoding) <= window

(* The sink never sees a block whose encoding threw or one after it: what  *)
(* has been written is always a gap-free run of good blocks.               *)
SunkIsGoodPrefix ==
    \A i \in DOMAIN sunk :
        /\ sunk[i] = i
        /\ i \in DOMAIN worker /\ worker[i] = "encoded"

(* finish() returns only when every chunk was submitted and every block    *)
(* was encoded without an exception and accepted by the sink: no failure   *)
(* of a worker is lost on the way, and no worker is left running.          *)
CompleteOnReturn ==
    pc = "returned" =>
        /\ chunksLeft = 0 /\ piecesLeft = 0
        /\ Len(sunk) = Len(worker)
        /\ \A b \in DOMAIN worker : worker[b] = "encoded"
        /\ joinable = {}

(* Both together: the sink is given good blocks only, and all of them.     *)
SinkSound == SunkIsGoodPrefix /\ CompleteOnReturn

Owned == Slots \cup (IF front = NoBlock THEN {} ELSE {front})

(* Destroying a joinable std::thread ends the process.  Whenever a slot    *)
(* disappears, from the deque, from drain_front or with the pipeline,      *)
(* its thread has been joined.                                             *)
NoJoinableDestroyed == [][\A b \in Owned \ Owned' : b \notin joinable']_vars

PipelineStatus ==
    CASE pc = "returned"            -> "complete"
      [] pc \in {"unwind", "threw"} -> "aborted"
      [] OTHER                      -> "open"

Abstract == INSTANCE OrderedPipeline WITH
    depth <- window, accepted <- Len(worker), emitted <- sunk, status <- PipelineStatus

(* The pipeline implements the abstract one: its held blocks are bounded   *)
(* by window_, and the sink's order is the submission order.               *)
ImplementsOrderedPipeline == Abstract!Spec

(* Whatever fails, the caller gets control back: neither drain_front nor   *)
(* the destructor waits for a thread that was never started.               *)
Termination == <>Ended

=============================================================================
