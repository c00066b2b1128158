---------------------------- MODULE CompressFile -----------------------------
(***************************************************************************)
(* compress_file of codec.cpp: the source is measured, then either         *)
(* buffered whole (for the stream-wide LZP pass) or read chunk by chunk,   *)
(* coded through an EncodePipeline, and written behind a file header whose *)
(* flags and block count are corrected at the end.  Other programs may     *)
(* change the source meanwhile.  A directory is read through a             *)
(* TarStreamSource, which listed and measured it when it was made: it      *)
(* produces exactly what it has measured or throws (TarArchive.RoundTrip), *)
(* and which changes make it throw is the business of that module.         *)
(*                                                                         *)
(* The pipeline is used through what OrderedPipeline promises: it accepts  *)
(* pieces while fewer than "window" are held, and hands them to the sink   *)
(* in order during submit_chunk and finish.  A block is a record of its    *)
(* size and its payload's size; content is not modelled.                   *)
(***************************************************************************)
EXTENDS Archive

CONSTANTS
    BlockSize,        \* the resolved block size
    FileSizes,        \* sizes the source may have, and be changed to
    MaxWindow,        \* the largest window pipeline_window may return
    DecisiveDivisor   \* a shrink by more than this share is decisive: 10

ASSUME CompressAssumption ==
    /\ BlockSizeValid(BlockSize)
    /\ FileSizes \subseteq Nat
    /\ MaxWindow \in Nat \ {0}
    /\ DecisiveDivisor \in Nat \ {0}

VARIABLES
    pc,         \* where the calling thread is
    fileSize,   \* the size of the source at this moment, as a listing finds it
    directory,  \* the source is a directory, read as a tar stream
    inputSize,  \* input_size: what the source measured at the start
    window,     \* pipeline_window(block_size, thread_count)
    taken,      \* how much of the source has been read
    buffered,   \* buffered
    collapsed,  \* size of the LZP stream, 0 when lzp_encode found none
    round,      \* the stream encode_buffered works on: "pass" or "plain"
    position,   \* how much of the coded stream has been cut into chunks
    chunk,      \* what submit_chunk has still to submit of its chunk
    accepted,   \* sizes of the blocks the pipeline has accepted
    encoded,    \* blocks sunk into the vector of encode_buffered
    withPass,   \* the finished vector of the LZP round
    streamLzp,  \* stream_lzp
    header,     \* the file header in the temporary file, or NoHeader
    written,    \* blocks written to the temporary file
    outputBad,  \* a write to the temporary file has failed
    temporary,  \* the temporary file exists
    target      \* what is at output_path: "old" or "archive"

sourceVars == <<directory, inputSize, window>>
choiceVars == <<buffered, collapsed, round, withPass, streamLzp>>
pipeVars   == <<position, chunk, accepted, encoded>>
fileVars   == <<header, written, outputBad, temporary, target>>
vars == <<pc, fileSize, sourceVars, taken, choiceVars, pipeVars, fileVars>>

Positions == {"measure", "open", "fill", "probe", "choose", "count", "create", "header",
              "copy", "read", "cut", "finish", "check", "patch", "close", "commit",
              "returned", "threw"}

NoHeader == [version |-> 0]

Ended == pc \in {"returned", "threw"}

-----------------------------------------------------------------------------

(* The stream the pipeline works on.                                       *)
StreamSize == IF buffered /\ round = "pass" THEN collapsed ELSE inputSize

(* The stream the archive holds.                                           *)
CodedSize == IF streamLzp THEN collapsed ELSE inputSize

Announced == ExpectedBlockCount(CodedSize, BlockSize)

(* encoded_archive_size                                                    *)
EncodedSize(blocks) == Total([i \in DOMAIN blocks |-> BlockHeaderSize + blocks[i].payload])

StreamHeaderSize == 1

Decisive(size) == size < inputSize - inputSize \div DecisiveDivisor

PassWorthIt == EncodedSize(withPass) + StreamHeaderSize < EncodedSize(encoded)

(* The sink: a vector in encode_buffered, the temporary file otherwise.    *)
Sunk == IF buffered THEN encoded ELSE written

NextSizeFaulty == BlockSize

NextSize == IF StreamSize - position < BlockSize THEN StreamSize - position ELSE BlockSize

(* read() delivers all that was asked for.                                 *)
SourceHolds(size) == directory \/ fileSize >= size

(* peek() or the probing read finds nothing after what was taken.          *)
SourceExhausted == directory \/ fileSize <= taken

(* stats.block_count, a counter as wide as the field of the header.        *)
Counted == Len(written) % (MaxBlockCount + 1)

-----------------------------------------------------------------------------

Init ==
    /\ pc = "measure"
    /\ fileSize \in FileSizes
    /\ directory \in BOOLEAN
    /\ inputSize = 0
    /\ window \in 1..MaxWindow
    /\ taken = 0
    /\ buffered = FALSE
    /\ collapsed = 0
    /\ round = "plain"
    /\ position = 0
    /\ chunk = 0
    /\ accepted = <<>>
    /\ encoded = <<>>
    /\ withPass = <<>>
    /\ streamLzp = FALSE
    /\ header = NoHeader
    /\ written = <<>>
    /\ outputBad = FALSE
    /\ temporary = FALSE
    /\ target = "old"

(* Another program makes the source longer or shorter.                     *)
SourceChanges ==
    /\ ~Ended /\ pc # "measure"
    /\ fileSize' \in FileSizes
    /\ UNCHANGED <<pc, sourceVars, taken, choiceVars, pipeVars, fileVars>>

(* Any call of compress_file may fail before the output is replaced; the   *)
(* destructor of TemporaryFile then tries to remove what there is.         *)
Throws ==
    /\ ~Ended
    /\ pc' = "threw"
    /\ temporary' \in {temporary, FALSE}
    /\ UNCHANGED <<fileSize, sourceVars, taken, choiceVars, pipeVars,
                   header, written, outputBad, target>>

Measure ==
    /\ pc = "measure"
    /\ inputSize' = fileSize
    /\ pc' = "open"
    /\ UNCHANGED <<fileSize, directory, window, taken, choiceVars, pipeVars, fileVars>>

(* Multi-block inputs up to the limit are buffered.                        *)
Open ==
    /\ pc = "open"
    /\ buffered' = (inputSize > BlockSize /\ inputSize <= StreamLzpLimit)
    /\ pc' = IF buffered' THEN "fill" ELSE "count"
    /\ UNCHANGED <<fileSize, sourceVars, taken, collapsed, round, withPass, streamLzp,
                   pipeVars, fileVars>>

Fill ==
    /\ pc = "fill"
    /\ SourceHolds(inputSize)
    /\ taken' = inputSize
    /\ pc' = "probe"
    /\ UNCHANGED <<fileSize, sourceVars, choiceVars, pipeVars, fileVars>>

ProbeFaulty ==
    /\ pc = "probe"
    /\ pc' = "choose"
    /\ UNCHANGED <<fileSize, sourceVars, taken, choiceVars, pipeVars, fileVars>>

Probe ==
    /\ pc = "probe"
    /\ SourceExhausted
    /\ pc' = "choose"
    /\ UNCHANGED <<fileSize, sourceVars, taken, choiceVars, pipeVars, fileVars>>

(* lzp_encode: no stream, or one shorter than the input.  A decisive       *)
(* shrink codes the stream only, a marginal one codes both.                *)
Choose ==
    /\ pc = "choose"
    /\ collapsed' \in 0..(inputSize - 1)
    /\ round' = IF collapsed' = 0 THEN "plain" ELSE "pass"
    /\ streamLzp' = (collapsed' # 0 /\ Decisive(collapsed'))
    /\ pc' = "read"
    /\ UNCHANGED <<fileSize, sourceVars, taken, buffered, withPass, pipeVars, fileVars>>

-----------------------------------------------------------------------------
(* Cutting and coding the stream, through the pipeline                     *)

(* A chunk of the buffer, or of the source (read_block).                   *)
TakeChunk ==
    /\ pc = "read"
    /\ position < StreamSize
    /\ buffered \/ SourceHolds(taken + NextSize)
    /\ taken' = IF buffered THEN taken ELSE taken + NextSize
    /\ chunk' = NextSize
    /\ position' = position + NextSize
    /\ pc' = "cut"
    /\ UNCHANGED <<fileSize, sourceVars, choiceVars, accepted, encoded, fileVars>>

(* submit: one piece between two content boundaries of the chunk.          *)
SubmitPiece ==
    /\ pc = "cut"
    /\ Len(accepted) < Len(Sunk) + window
    /\ \E piece \in 1..chunk :
         /\ accepted' = Append(accepted, piece)
         /\ chunk' = chunk - piece
         /\ pc' = IF piece = chunk THEN "read" ELSE "cut"
    /\ UNCHANGED <<fileSize, sourceVars, taken, choiceVars, position, encoded, fileVars>>

(* encode_block falls back to raw, so a payload never exceeds its block.   *)
NextEncoded == {[size |-> accepted[Len(Sunk) + 1], payload |-> payload] :
                  payload \in 1..accepted[Len(Sunk) + 1]}

SinkToVector ==
    /\ pc \in {"cut", "finish"}
    /\ buffered
    /\ Len(encoded) < Len(accepted)
    /\ \E block \in NextEncoded : encoded' = Append(encoded, block)
    /\ UNCHANGED <<pc, fileSize, sourceVars, taken, choiceVars, position, chunk, accepted,
                   fileVars>>

WriteBlockFaulty(block) ==
    /\ ~outputBad
    /\ written' = Append(written, block)
    /\ outputBad' \in BOOLEAN
    /\ UNCHANGED <<header, temporary, target>>

(* write_encoded_block: refuses a bad stream and a count that would not    *)
(* fit; the stream may also turn bad unnoticed.                            *)
WriteBlock(block) ==
    /\ ~outputBad
    /\ Counted # MaxBlockCount
    /\ written' = Append(written, block)
    /\ outputBad' \in BOOLEAN
    /\ UNCHANGED <<header, temporary, target>>

SinkToFileFaulty ==
    /\ pc = "finish"
    /\ ~buffered
    /\ Len(written) < Len(accepted)
    /\ \E block \in NextEncoded : WriteBlock(block)
    /\ UNCHANGED <<pc, fileSize, sourceVars, taken, choiceVars, pipeVars>>

SinkToFile ==
    /\ pc \in {"cut", "finish"}
    /\ ~buffered
    /\ Len(written) < Len(accepted)
    /\ \E block \in NextEncoded : WriteBlock(block)
    /\ UNCHANGED <<pc, fileSize, sourceVars, taken, choiceVars, pipeVars>>

StreamRead ==
    /\ pc = "read"
    /\ position = StreamSize
    /\ pc' = "finish"
    /\ UNCHANGED <<fileSize, sourceVars, taken, choiceVars, pipeVars, fileVars>>

(* finish() has returned: a streamed archive is checked next.              *)
StreamFinished ==
    /\ pc = "finish"
    /\ ~buffered
    /\ Len(written) = Len(accepted)
    /\ pc' = "check"
    /\ UNCHANGED <<fileSize, sourceVars, taken, choiceVars, pipeVars, fileVars>>

(* A marginal LZP stream is coded; now the plain input, for comparison.    *)
PassFinished ==
    /\ pc = "finish"
    /\ buffered /\ round = "pass" /\ ~streamLzp
    /\ Len(encoded) = Len(accepted)
    /\ withPass' = encoded
    /\ round' = "plain"
    /\ position' = 0
    /\ accepted' = <<>>
    /\ encoded' = <<>>
    /\ pc' = "read"
    /\ UNCHANGED <<fileSize, sourceVars, taken, buffered, collapsed, streamLzp, chunk, fileVars>>

PlainFinishedFaulty ==
    /\ pc = "finish"
    /\ buffered /\ (round = "plain" \/ streamLzp)
    /\ Len(encoded) = Len(accepted)
    /\ IF withPass # <<>> /\ PassWorthIt
         THEN streamLzp' = TRUE /\ UNCHANGED encoded
         ELSE UNCHANGED <<streamLzp, encoded>>
    /\ pc' = "count"
    /\ UNCHANGED <<fileSize, sourceVars, taken, buffered, collapsed, round, withPass,
                   position, chunk, accepted, fileVars>>

(* The only candidate, or the smaller of the two.                          *)
PlainFinished ==
    /\ pc = "finish"
    /\ buffered /\ (round = "plain" \/ streamLzp)
    /\ Len(encoded) = Len(accepted)
    /\ IF withPass # <<>> /\ PassWorthIt
         THEN streamLzp' = TRUE /\ encoded' = withPass
         ELSE UNCHANGED <<streamLzp, encoded>>
    /\ pc' = "count"
    /\ UNCHANGED <<fileSize, sourceVars, taken, buffered, collapsed, round, withPass,
                   position, chunk, accepted, fileVars>>

-----------------------------------------------------------------------------
(* Writing the archive                                                     *)

Count ==
    /\ pc = "count"
    /\ BlockCountFits(CodedSize, BlockSize)
    /\ pc' = "create"
    /\ UNCHANGED <<fileSize, sourceVars, taken, choiceVars, pipeVars, fileVars>>

Create ==
    /\ pc = "create"
    /\ temporary' = TRUE
    /\ pc' = "header"
    /\ UNCHANGED <<fileSize, sourceVars, taken, choiceVars, pipeVars, header, written,
                   outputBad, target>>

(* write_file_header and the stream header; errors are not looked at yet.  *)
WriteHeader ==
    /\ pc = "header"
    /\ header' = [version |-> ArchiveVersion, directory |-> directory,
                  streamLzp |-> streamLzp, segmented |-> FALSE,
                  blockSize |-> BlockSize, originalSize |-> inputSize,
                  codedSize |-> CodedSize, streamBits |-> 20,
                  blockCount |-> Announced]
    /\ outputBad' \in BOOLEAN
    /\ pc' = IF buffered THEN "copy" ELSE "read"
    /\ UNCHANGED <<fileSize, sourceVars, taken, choiceVars, pipeVars, written, temporary,
                   target>>

CopyBlock ==
    /\ pc = "copy"
    /\ Len(written) < Len(encoded)
    /\ WriteBlock(encoded[Len(written) + 1])
    /\ UNCHANGED <<pc, fileSize, sourceVars, taken, choiceVars, pipeVars>>

Copied ==
    /\ pc = "copy"
    /\ Len(written) = Len(encoded)
    /\ pc' = "patch"
    /\ UNCHANGED <<fileSize, sourceVars, taken, choiceVars, pipeVars, fileVars>>

(* A streamed source must end where it was measured to end.                *)
CheckSource ==
    /\ pc = "check"
    /\ taken = inputSize
    /\ SourceExhausted
    /\ pc' = "patch"
    /\ UNCHANGED <<fileSize, sourceVars, taken, choiceVars, pipeVars, fileVars>>

(* Chunks cut at content boundaries left more blocks than announced.       *)
PatchHeader ==
    /\ pc = "patch"
    /\ IF Counted # Announced
         THEN /\ header' = [header EXCEPT !.segmented = TRUE, !.blockCount = Counted]
              /\ outputBad' \in {outputBad, TRUE}
         ELSE UNCHANGED <<header, outputBad>>
    /\ pc' = "close"
    /\ UNCHANGED <<fileSize, sourceVars, taken, choiceVars, pipeVars, written, temporary,
                   target>>

CloseFaulty ==
    /\ pc = "close"
    /\ pc' = "commit"
    /\ UNCHANGED <<fileSize, sourceVars, taken, choiceVars, pipeVars, fileVars>>

Close ==
    /\ pc = "close"
    /\ ~outputBad
    /\ pc' = "commit"
    /\ UNCHANGED <<fileSize, sourceVars, taken, choiceVars, pipeVars, fileVars>>

Commit ==
    /\ pc = "commit"
    /\ target' = "archive"
    /\ temporary' = FALSE
    /\ pc' = "returned"
    /\ UNCHANGED <<fileSize, sourceVars, taken, choiceVars, pipeVars, header, written, outputBad>>

(* commit_output fails after it has moved the old file away, or with the   *)
(* new one in place.                                                       *)
CommitThrows ==
    /\ pc = "commit"
    /\ \/ target' = "absent" /\ temporary' \in BOOLEAN
       \/ target' = "archive" /\ temporary' = FALSE
    /\ pc' = "threw"
    /\ UNCHANGED <<fileSize, sourceVars, taken, choiceVars, pipeVars, header, written, outputBad>>

Stopped == Ended /\ UNCHANGED vars

Work ==
    \/ Measure \/ Open \/ Fill \/ Probe \/ Choose \/ TakeChunk \/ SubmitPiece \/ SinkToVector
    \/ SinkToFile \/ StreamRead \/ StreamFinished \/ PassFinished \/ PlainFinished
    \/ Count \/ Create \/ WriteHeader \/ CopyBlock \/ Copied \/ CheckSource
    \/ PatchHeader \/ Close \/ Commit

Next == Work \/ Throws \/ CommitThrows \/ SourceChanges \/ Stopped

Spec == Init /\ [][Next]_vars

(* The calling thread keeps running; nothing obliges a call to fail.       *)
FairSpec == Spec /\ WF_vars(Work)

-----------------------------------------------------------------------------
(* Properties                                                              *)

(* Every variable keeps its type; position, chunk and taken are unsigned in *)
(* the code and never pass the sizes they are compared with.               *)
TypeOK ==
    /\ pc \in Positions
    /\ fileSize \in FileSizes
    /\ directory \in BOOLEAN
    /\ inputSize \in FileSizes \cup {0}
    /\ window \in 1..MaxWindow
    /\ taken \in 0..inputSize
    /\ buffered \in BOOLEAN /\ streamLzp \in BOOLEAN
    /\ collapsed \in 0..inputSize
    /\ round \in {"pass", "plain"}
    /\ position \in 0..inputSize
    /\ chunk \in 0..BlockSize
    /\ accepted \in Seq(1..BlockSize)
    /\ \A blocks \in {encoded, withPass, written} :
         blocks \in Seq([size : 1..BlockSize, payload : 1..BlockSize])
    /\ outputBad \in BOOLEAN /\ temporary \in BOOLEAN
    /\ target \in {"old", "absent", "archive"}

SizeOfFirst(k) == Total([i \in 1..k |-> written[i].size])

(* Whatever was buffered, collapsed, cut or compared on the way, and       *)
(* whether or not the header had to be corrected, a replaced output is an  *)
(* archive of the whole source as measured, and one decompress_file        *)
(* accepts block by block and to the last byte.                            *)
Decodable ==
    target = "archive" =>
        /\ taken = inputSize /\ header.originalSize = inputSize
        /\ HeaderAccepted(header)
        /\ Len(written) = header.blockCount
        /\ SizeOfFirst(Len(written)) = header.codedSize
        /\ \A k \in DOMAIN written :
             LET left == header.codedSize - SizeOfFirst(k - 1)
                 archiveLeft == EncodedSize(SubSeq(written, k, Len(written))) - BlockHeaderSize
             IN  /\ OriginalSizeValid(header, written[k].size, left)
                 /\ PayloadSizeValid(written[k].payload, written[k].size, archiveLeft)

(* The output is replaced only by an archive all of whose bytes, also the  *)
(* corrected header, were written without an error.                        *)
NoBadOutputCommitted == [][target' = "archive" /\ target = "old" => ~outputBad]_vars

(* A source file that is longer, or shorter, than it was measured from the *)
(* moment it is opened on is noticed, in a buffered as in a streamed       *)
(* compression.  (For a directory see ChangedFileNoticed of TarArchive.)   *)
SourceChangeNoticed ==
    \/ [](~directory /\ (pc \notin {"measure", "open"} => fileSize > inputSize))
    \/ [](~directory /\ (pc \notin {"measure", "open"} => fileSize < inputSize))
    => [](pc # "returned")

(* A source left alone, with nothing failing, is compressed: no check      *)
(* rejects it and the pipeline never blocks the reader for good.           *)
ReturnsWhenUndisturbed ==
    [](/\ pc # "threw" /\ ~outputBad
       /\ pc # "measure" => fileSize = inputSize
       /\ Len(written) < MaxBlockCount)
    => <>(pc = "returned")

=============================================================================
