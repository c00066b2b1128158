--------------------------- MODULE DecompressFile ----------------------------
(***************************************************************************)
(* decompress_file of codec.cpp: header checks, the temporary file or the  *)
(* staging directory, the block loop (blocks are read in order, decoded by *)
(* worker threads, written in order), the checks after the last block, and *)
(* the commit.  The archive is any file: what a block header says is       *)
(* chosen when it is read, and whether a payload decodes to the size and   *)
(* the checksum its header gives is decided by decode_block.               *)
(*                                                                         *)
(* The calling thread's position is pc, the threads it starts are the      *)
(* entries of "worker", and a block is its index in the archive.           *)
(***************************************************************************)
EXTENDS Archive

CONSTANTS
    Headers,         \* file headers an archive may start with
    ArchiveSizes,    \* how much may follow the file header
    MaxWindow        \* the largest window pipeline_window may return

ASSUME WindowAssumption == MaxWindow \in Nat \ {0}
ASSUME ArchiveSizesAssumption == ArchiveSizes \subseteq Nat
ASSUME HeadersAssumption ==
    Headers \subseteq [version : Nat, directory : BOOLEAN, streamLzp : BOOLEAN,
                       segmented : BOOLEAN, blockSize : Nat, originalSize : Nat,
                       codedSize : Nat, streamBits : Nat, blockCount : Nat]

VARIABLES
    header,            \* the file header
    window,            \* pipeline_window(block_size, thread_count)
    pc,                \* where the calling thread is
    remaining,         \* remaining: bytes the blocks still have to restore
    archiveRemaining,  \* archive_remaining: what is left of the archive
    sizes,             \* original_size of every block read so far
    worker,            \* worker[b]: how far the decoding of block b has come
    inFlight,          \* in_flight: the blocks of its slots, front first
    front,             \* the local "front" of drain_front, or NoBlock
    joinable,          \* blocks whose std::thread is started and not yet joined
    delivered,         \* blocks handed to write_decoded, oldest first
    drained,           \* the block loop is over
    temporary,         \* the temporary file or staging directory: "none", "there",
                       \* or "stuck" when its removal has failed
    target             \* what is at output_path: "absent", "old" or "restored"

inputVars  == <<header, window>>
readVars   == <<remaining, archiveRemaining, sizes>>
threadVars == <<worker, inFlight, front, joinable>>
outputVars == <<delivered, temporary, target>>
vars == <<inputVars, pc, readVars, threadVars, drained, outputVars>>

NoBlock == 0

Positions == {"header", "create", "reserve", "loop", "decode", "spawn", "join", "deliver",
              "drain", "check", "restore", "finish", "unwind", "cleanup",
              "returned", "threw"}

Ended == pc \in {"returned", "threw"}

NextBlock == Len(worker) + 1

Slots == {inFlight[i] : i \in DOMAIN inFlight}

(* One block or a window of one: everything on the calling thread.         *)
Sequential == window <= 1 \/ header.blockCount <= 1

BlocksLeft == Len(worker) < header.blockCount

-----------------------------------------------------------------------------
(* Tests of the calling thread; a "Faulty" variant has a bug the           *)
(* properties must notice, and no specification uses it.                   *)

WindowFullFaulty == Len(inFlight) > window

WindowFull == Len(inFlight) >= window

ThreadEnded(b) == worker[b] # "decoding"

ResultThrew(b) == worker[b] = "threw"

AllJoinedFaulty == TRUE

AllJoined == Slots \cap joinable = {}

PayloadFitsFaulty(payload, size) == PayloadSizeValid(payload, size, payload)

PayloadFits(payload, size) ==
    PayloadSizeValid(payload, size, archiveRemaining - BlockHeaderSize)

StreamEndsHereFaulty == archiveRemaining = 0

(* The checks after the last block: nothing missing, nothing trailing.     *)
StreamEndsHere == remaining = 0 /\ archiveRemaining = 0

-----------------------------------------------------------------------------

Init ==
    /\ header \in Headers
    /\ window \in 1..MaxWindow
    /\ pc = "header"
    /\ remaining = header.codedSize
    /\ archiveRemaining \in ArchiveSizes
    /\ sizes = <<>>
    /\ worker = <<>>
    /\ inFlight = <<>>
    /\ front = NoBlock
    /\ joinable = {}
    /\ delivered = <<>>
    /\ drained = FALSE
    /\ temporary = "none"
    /\ target \in {"absent", "old"}

CheckHeader ==
    /\ pc = "header"
    /\ pc' = IF HeaderAccepted(header) THEN "create" ELSE "threw"
    /\ UNCHANGED <<inputVars, readVars, threadVars, drained, outputVars>>

(* A directory archive wants a free output path.                           *)
TargetInWay == header.directory /\ target # "absent"

CreateOutput ==
    /\ pc = "create"
    /\ ~TargetInWay
    /\ temporary' = "there"
    /\ pc' = IF header.streamLzp THEN "reserve" ELSE "loop"
    /\ UNCHANGED <<inputVars, readVars, threadVars, drained, delivered, target>>

CreateThrows ==
    /\ pc = "create"
    /\ pc' = "threw"
    /\ UNCHANGED <<inputVars, readVars, threadVars, drained, outputVars>>

Reserve ==
    /\ pc = "reserve"
    /\ pc' = "loop"
    /\ UNCHANGED <<inputVars, readVars, threadVars, drained, outputVars>>

(* remove or remove_all of what is there; nobody looks at the error, and   *)
(* what has been committed is not removed.                                 *)
RemoveTemporary == temporary' \in (IF temporary = "none" THEN {"none"} ELSE {"none", "stuck"})

(* stream_buffer.reserve throws before the try block that removes the      *)
(* staging directory; the destructor of TemporaryFile still runs.          *)
ReserveThrows ==
    /\ pc = "reserve"
    /\ IF header.directory THEN UNCHANGED temporary ELSE RemoveTemporary
    /\ pc' = "threw"
    /\ UNCHANGED <<inputVars, readVars, threadVars, drained, delivered, target>>

-----------------------------------------------------------------------------
(* read_block                                                              *)

ReadBlock ==
    /\ pc = "loop"
    /\ BlocksLeft
    /\ Sequential \/ ~WindowFull
    /\ archiveRemaining >= BlockHeaderSize
    /\ \E size \in 1..MaxBlockSize : \E payload \in 1..size :
         /\ OriginalSizeValid(header, size, remaining)
         /\ PayloadFits(payload, size)
         /\ archiveRemaining' = archiveRemaining - BlockHeaderSize - payload
         /\ remaining' = remaining - size
         /\ sizes' = Append(sizes, size)
    /\ pc' = IF Sequential THEN "decode" ELSE "spawn"
    /\ UNCHANGED <<inputVars, threadVars, drained, outputVars>>

(* A header or a payload that is malformed, cut short or unreadable.       *)
ReadThrows ==
    /\ pc = "loop"
    /\ BlocksLeft
    /\ Sequential \/ ~WindowFull
    /\ pc' = "unwind"
    /\ UNCHANGED <<inputVars, readVars, threadVars, drained, outputVars>>

-----------------------------------------------------------------------------
(* The block loop                                                          *)

DecodeInline ==
    /\ pc = "decode"
    /\ \/ /\ worker' = Append(worker, "decoded")
          /\ front' = NextBlock
          /\ pc' = "deliver"
       \/ /\ pc' = "unwind"
          /\ UNCHANGED <<worker, front>>
    /\ UNCHANGED <<inputVars, readVars, inFlight, joinable, drained, outputVars>>

TakeSlotFaulty ==
    /\ front' = inFlight[Len(inFlight)]
    /\ inFlight' = SubSeq(inFlight, 1, Len(inFlight) - 1)
    /\ pc' = "join"
    /\ UNCHANGED <<inputVars, readVars, worker, joinable, drained, outputVars>>

TakeSlot ==
    /\ front' = Head(inFlight)
    /\ inFlight' = Tail(inFlight)
    /\ pc' = "join"
    /\ UNCHANGED <<inputVars, readVars, worker, joinable, drained, outputVars>>

MakeRoom ==
    /\ pc = "loop"
    /\ BlocksLeft
    /\ ~Sequential
    /\ WindowFull
    /\ TakeSlot

Spawn ==
    /\ pc = "spawn"
    /\ worker' = Append(worker, "decoding")
    /\ inFlight' = Append(inFlight, NextBlock)
    /\ joinable' = joinable \cup {NextBlock}
    /\ pc' = "loop"
    /\ UNCHANGED <<inputVars, readVars, front, drained, outputVars>>

SpawnThrows ==
    /\ pc = "spawn"
    /\ pc' = "unwind"
    /\ UNCHANGED <<inputVars, readVars, threadVars, drained, outputVars>>

LoopEnds ==
    /\ pc = "loop"
    /\ ~BlocksLeft
    /\ pc' = "drain"
    /\ UNCHANGED <<inputVars, readVars, threadVars, drained, outputVars>>

JoinFront ==
    /\ pc = "join"
    /\ ThreadEnded(front)
    /\ joinable' = joinable \ {front}
    /\ IF ResultThrew(front)
         THEN pc' = "unwind" /\ front' = NoBlock
         ELSE pc' = "deliver" /\ UNCHANGED front
    /\ UNCHANGED <<inputVars, readVars, worker, inFlight, drained, outputVars>>

(* write_decoded: into the stream buffer, the extractor or the file.       *)
Deliver ==
    /\ pc = "deliver"
    /\ delivered' = Append(delivered, front)
    /\ front' = NoBlock
    /\ pc' = IF BlocksLeft THEN "loop" ELSE "drain"
    /\ UNCHANGED <<inputVars, readVars, worker, inFlight, joinable, drained, temporary, target>>

DeliverThrows ==
    /\ pc = "deliver"
    /\ front' = NoBlock
    /\ pc' = "unwind"
    /\ UNCHANGED <<inputVars, readVars, worker, inFlight, joinable, drained, outputVars>>

DrainMore ==
    /\ pc = "drain"
    /\ inFlight # <<>>
    /\ TakeSlot

Drained ==
    /\ pc = "drain"
    /\ inFlight = <<>>
    /\ drained' = TRUE
    /\ pc' = "check"
    /\ UNCHANGED <<inputVars, readVars, threadVars, outputVars>>

UnwindJoinFaulty ==
    /\ pc = "unwind"
    /\ inFlight # <<>> /\ Head(inFlight) \in joinable
    /\ ThreadEnded(Head(inFlight))
    /\ joinable' = joinable \ {Head(inFlight)}
    /\ UNCHANGED <<inputVars, pc, readVars, worker, inFlight, front, drained, outputVars>>

(* catch (...) around the loop: every worker is joined before the deque    *)
(* goes, then the exception travels on to the outer catch.                 *)
UnwindJoin ==
    /\ pc = "unwind"
    /\ \E i \in DOMAIN inFlight :
         /\ inFlight[i] \in joinable
         /\ \A j \in 1..(i - 1) : inFlight[j] \notin joinable
         /\ ThreadEnded(inFlight[i])
         /\ joinable' = joinable \ {inFlight[i]}
    /\ UNCHANGED <<inputVars, pc, readVars, worker, inFlight, front, drained, outputVars>>

UnwindDone ==
    /\ pc = "unwind"
    /\ AllJoined
    /\ inFlight' = <<>>
    /\ pc' = "cleanup"
    /\ UNCHANGED <<inputVars, readVars, worker, front, joinable, drained, outputVars>>

-----------------------------------------------------------------------------
(* After the last block                                                    *)

CheckEnd ==
    /\ pc = "check"
    /\ pc' = IF ~StreamEndsHere THEN "cleanup"
             ELSE IF header.streamLzp THEN "restore" ELSE "finish"
    /\ UNCHANGED <<inputVars, readVars, threadVars, drained, outputVars>>

(* lzp_decode over the whole stream, its checksum, and the write or feed.  *)
Restore ==
    /\ pc = "restore"
    /\ pc' \in {"finish", "cleanup"}
    /\ UNCHANGED <<inputVars, readVars, threadVars, drained, outputVars>>

(* extractor->finish() and rename, or close and commit_output.             *)
Commit ==
    /\ pc = "finish"
    /\ target' = "restored"
    /\ temporary' = "none"
    /\ pc' = "returned"
    /\ UNCHANGED <<inputVars, readVars, threadVars, drained, delivered>>

(* commit_output may fail before it renames anything, with the old file    *)
(* left under its backup name, or after the new file is in place.          *)
CommitThrows ==
    /\ pc = "finish"
    /\ \/ UNCHANGED <<temporary, target>>
       \/ /\ ~header.directory /\ target = "old"
          /\ \/ target' = "absent" /\ UNCHANGED temporary
             \/ target' = "restored" /\ temporary' = "none"
    /\ pc' = "cleanup"
    /\ UNCHANGED <<inputVars, readVars, threadVars, drained, delivered>>

CleanupFaulty ==
    /\ pc = "cleanup"
    /\ IF header.directory THEN UNCHANGED temporary ELSE RemoveTemporary
    /\ pc' = "threw"
    /\ UNCHANGED <<inputVars, readVars, threadVars, drained, delivered, target>>

(* remove_staging, or the destructor of TemporaryFile.                     *)
Cleanup ==
    /\ pc = "cleanup"
    /\ RemoveTemporary
    /\ pc' = "threw"
    /\ UNCHANGED <<inputVars, readVars, threadVars, drained, delivered, target>>

-----------------------------------------------------------------------------

(* A worker thread runs decode_block on its block.                         *)
WorkerEnds(b) ==
    /\ b \in DOMAIN worker
    /\ worker[b] = "decoding"
    /\ \E result \in {"decoded", "threw"} : worker' = [worker EXCEPT ![b] = result]
    /\ UNCHANGED <<inputVars, pc, readVars, inFlight, front, joinable, drained, outputVars>>

Stopped == Ended /\ UNCHANGED vars

Caller ==
    \/ CheckHeader \/ CreateOutput \/ CreateThrows \/ Reserve \/ ReserveThrows
    \/ ReadBlock \/ ReadThrows \/ DecodeInline \/ MakeRoom \/ Spawn \/ SpawnThrows \/ LoopEnds
    \/ JoinFront \/ Deliver \/ DeliverThrows \/ DrainMore \/ Drained
    \/ UnwindJoin \/ UnwindDone
    \/ CheckEnd \/ Restore \/ Commit \/ CommitThrows \/ Cleanup

Next == Caller \/ (\E b \in DOMAIN worker : WorkerEnds(b)) \/ Stopped

Spec == Init /\ [][Next]_vars

(* decode_block terminates and the scheduler runs every started thread.    *)
FairSpec ==
    /\ Spec
    /\ WF_vars(Caller)
    /\ \A b \in 1..MaxBlockCount : WF_vars(WorkerEnds(b))

-----------------------------------------------------------------------------
(* Properties                                                              *)

(* Every variable keeps its type.  remaining and archive_remaining are     *)
(* unsigned in the code: below zero they would wrap.                       *)
TypeOK ==
    /\ header \in Headers
    /\ window \in 1..MaxWindow
    /\ pc \in Positions
    /\ remaining \in 0..header.codedSize
    /\ archiveRemaining \in Nat
    /\ sizes \in Seq(1..MaxBlockSize)
    /\ worker \in Seq({"decoding", "decoded", "threw"})
    /\ inFlight \in Seq(Nat \ {0})
    /\ front \in Nat
    /\ joinable \in SUBSET (Nat \ {0})
    /\ delivered \in Seq(Nat \ {0})
    /\ drained \in BOOLEAN
    /\ temporary \in {"none", "there", "stuck"}
    /\ target \in {"absent", "old", "restored"}

(* The reader never runs ahead of the writer by more than the window, so   *)
(* memory stays bounded however many blocks the archive announces.         *)
HeldWithinWindow == Len(sizes) <= Len(delivered) + window

Restored == Total(sizes)

(* What stands at the output path after a success came from an archive     *)
(* whose blocks were all decoded and written in order, that restored       *)
(* exactly the size the header declared and that had nothing after it: it  *)
(* is "renamed only after the whole operation succeeds" (README).          *)
RestoredExactly ==
    target = "restored" =>
        /\ delivered = [b \in 1..header.blockCount |-> b]
        /\ \A b \in DOMAIN worker : worker[b] = "decoded"
        /\ Len(sizes) = header.blockCount
        /\ Restored = header.codedSize
        /\ archiveRemaining = 0
        /\ joinable = {}

(* Whatever fails and wherever: before the call throws, every worker has   *)
(* been joined and the removal of the temporary file or staging directory  *)
(* has been tried, of a complete output never.  It may stay only because   *)
(* the removal failed too, or because the stream buffer of a directory     *)
(* archive could not be allocated.                                         *)
CleanupTried ==
    [][pc' = "threw" /\ pc # "threw" =>
         /\ joinable' = {}
         /\ temporary' = "there" => pc = "reserve" /\ header.directory
         /\ temporary' = "stuck" => target' # "restored"]_vars

Owned == Slots \cup (IF front = NoBlock THEN {} ELSE {front})

(* Destroying a joinable std::thread ends the process: no slot disappears  *)
(* before its thread is joined.                                            *)
NoJoinableDestroyed == [][\A b \in Owned \ Owned' : b \notin joinable']_vars

PipelineStatus ==
    CASE drained                                         -> "complete"
      [] ~drained /\ pc \in {"unwind", "cleanup", "threw"} -> "aborted"
      [] OTHER                                           -> "open"

Abstract == INSTANCE OrderedPipeline WITH
    depth <- window, accepted <- Len(worker), emitted <- delivered, status <- PipelineStatus

(* The block loop implements the abstract pipeline: bounded by the window, *)
(* written in archive order whatever order the workers end in.             *)
ImplementsOrderedPipeline == Abstract!Spec

(* Whatever the archive holds and whatever fails, the call ends.           *)
Termination == <>Ended

=============================================================================
