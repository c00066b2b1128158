# mzip: a TLA+ model of the compressor

mzip compresses a file or a directory into one archive and restores it. This
directory models its control: the thread pipelines, the reading of changing
sources, the replacement of outputs, the tar stream of directories, the choice
of a block's coding, and the coding itself: LZP, filters, the suffix sort, run
coding, the range coder and the context mixer. Some results are proved for
every value of the constants, the others are checked on small instances.

Line numbers refer to `src/src/codec.cpp`, `archive.cpp` and `transforms.cpp`
(`transforms.hpp` for five constants);
`PROJECT.json` maps each definition to its lines.

## The system

| Component | State | Operations | Hard part | What makes it correct |
|---|---|---|---|---|
| `EncodePipeline` (codec) | window, deque of futures and threads, sink | `submit_chunk`, `finish`, destructor, one thread per block | workers end in any order; read, thread start, worker and sink may throw | blocks reach the sink in order and complete; at most `window` run; every thread is joined; control comes back |
| `decompress_file` (codec) | header, bytes remaining, deque, output or extractor, staging path | header checks, block loop, drain, end checks, stream-wide LZP, commit, clean-up | the reader runs ahead of the writer; two nested handlers unwind | only an exact restoration is committed; after a failure threads are joined and removal is tried |
| `compress_file` (codec) | source measure, buffer, chosen stream, header, blocks | measuring, buffered rounds, streaming, patching, commit | the source changes; writes fail late; the header is written before the blocks are known | what is committed decodes, and is of the source as measured |
| Output replacement (codec) | names beside the output, handles, backup | `unique_sibling_path`, `TemporaryFile`, `commit_output` | kills and failures between two calls, leftovers, other runs | the output is old or new, never partial, never lost |
| Container format (codec) | none | header and block header checks | the encoder's promises and the decoder's checks are written apart | `CompressFile` and `DecompressFile` share `Archive` |
| Tar stream source (archive) | sorted entries, staged bytes, open file | constructor, `read` | cut at any byte; sizes are measured long before they are used | as long as measured; a file of some content that changed its size is noticed |
| Tar extractor (archive) | automaton, pending header, long name, open file, tree on disk | `feed`, `finish` | fed in pieces of any size | same result as for the whole stream; the tree that went in |
| Block codec (codec) | best candidate and what the header will say of it | `encode_block`, `decode_block` | seven candidates, each with shortcuts | the header describes the winner; the smallest wins |
| LZP (transforms) | a table on each side | `lzp_encode`, `lzp_decode` | both tables in lockstep; overlapping matches | round trip; the decoder stays in its block |
| Range coder (transforms) | low, range, cache and its run of held-back bytes; code | `encode_bit`, `finish`, `decode_bit` | a carry may reach bytes produced long ago; the flush | output equals exact arithmetic; registers keep their widths; round trip |
| Run coding (transforms) | contexts of a `RunSymbolModel`, run digits | `rc_encode`, `rc_decode` | both sides choose the contexts by what was coded before; run lengths an input chooses | same context for every bit; runs stay within the block; round trip |
| Block sort, move-to-front (transforms) | one array for all levels of the sort | `SuffixSorter`, `bwt_*`, `mtf_*` | a level's text lies where another one's slots are | suffixes in order; round trip |
| Context mixer (transforms) | tables of counters, histories, mixer weights, refinements; low, high, code | `cm_encode`, `cm_decode` | the encoder learns while it reads, the decoder after the bit | equal estimates on both sides; the code stays in the interval; round trip |
| x86 filter, record filter (transforms) | none | in-place passes, the plan's bytes | a pass reads what it has rewritten | round trip; the decoder accepts the plan |
| Content boundaries, Adler-32 | none | pure functions | - | not modelled, see the end |
| Command line | none | argument parsing | - | not modelled |

Interactions. `compress_file` reads a file or a `TarStreamSource` chunk by
chunk and submits the chunks to an `EncodePipeline`, which cuts them at content
boundaries, runs `encode_block` on threads and calls back its sink, which
appends to a vector or to the temporary file. `decompress_file` runs
`decode_block` the same way with its own deque, and delivers to the output
stream, to a `TarExtractor`, or to a buffer that `lzp_decode` expands at the
end. Both end in the replacement of the output. Threads share nothing except
the futures; all shared state with the outside is the file system.

## The modules

| Module | Code | Composes |
|---|---|---|
| `OrderedPipeline` | what callers rely on: blocks accepted while fewer than `depth` are held, emitted in order, then complete or aborted | - |
| `EncodePipeline` | class `EncodePipeline`, codec 754-856 | refines `OrderedPipeline` |
| `EncodePipelineProofs` | - | proofs about `EncodePipeline` |
| `Archive` | header fields and their checks | - |
| `DecompressFile` | `decompress_file`, codec 1147-1469 | `Archive`; refines `OrderedPipeline` |
| `DecompressFileProofs` | - | proofs about `DecompressFile` and `TarArchive`, which share no name |
| `CompressFile` | `compress_file`, codec 897-1144 | `Archive` |
| `CompressFileProofs` | - | proofs about `CompressFile` |
| `OutputCommit` | codec 119-246 | - |
| `OutputCommitProofs` | - | proofs about `OutputCommit` |
| `TarFormat` | names, sizes, headers, archive 20-149, 341-373 | - |
| `TarStreamSource` | archive 214-337 | `TarFormat` |
| `TarExtractor` | archive 339-546 | `TarFormat` |
| `TarArchive` | the two, with the block loops between them | both |
| `BlockCodec` | codec 498-730 | - |
| `Lzp` | transforms 1956-2025, 2240-2418 | - |
| `BlockCodecProofs` | - | proofs about `BlockCodec` and `Lzp`, which share no name |
| `RangeCoder` | `RangeEncoder`, `RangeDecoder`, transforms 60-186 | - |
| `RangeCoderProofs` | - | proofs about `RangeCoder` |
| `BlockSort` | `bwt_*`, `mtf_*` as functions, transforms 558-727 | - |
| `SuffixSort` | class `SuffixSorter`, transforms 278-553 | `BlockSort` |
| `TransformedBlock` | a block in mode `transformed`: `RunSymbolModel`, `rc_*`, transforms 188-276, 732-964; codec 672-686 | `SuffixSort` |
| `TransformedBlockProofs` | - | proofs about `TransformedBlock` |
| `MixedModel` | class `MixedModel`, transforms 1280-1850 | `BlockSort` |
| `Filters` | transforms 2420-2512, 2700-2940 | `BlockSort` |
| `MixedBlock` | a block in mode `mixed`: `cm_*`, transforms 2029-2177; codec 566-622, 688-724 | `MixedModel`, `Filters` |
| `MixedBlockProofs` | - | proofs about `MixedBlock` |
| `MC...` | instances for TLC | the module named |

A definition whose name ends in `Faulty` (or `Unmarked`) is the definition
after it with a plausible bug; no specification uses it. It shows that a
property notices the bug.

### How state and actions correspond

* `EncodePipeline`, `DecompressFile`: `pc` is the position of the calling
  thread, named after the statement it is about to run; `worker` has one entry
  per thread ever started; `inFlight` is the deque, holding block numbers in
  place of futures; `joinable` are the threads `std::thread::joinable` is true
  of. `drain_front` is split where another thread can be seen: taking the slot,
  join and `get`, the sink. An exception is a step to `unwind`, from where the
  destructor (or the inner handler) joins. `encode_block` and `decode_block`
  are one step of a worker, which ends well or throws.
* `DecompressFile` reads an arbitrary archive: any header of a set and block
  sizes chosen as they are read. Sizes are counted, content is not: a block is
  either decoded or rejected. The removal of the temporary file or staging
  directory may fail, and its error is dropped (130-132, 1281-1282): `temporary` is
  then `"stuck"`, and `"there"` where no removal was tried.
* `CompressFile` uses the pipeline through `OrderedPipeline`'s promise. It
  counts sizes: a block is its size and its payload's. `SourceChanges` lets
  another program resize the source at any time. A directory is read through a
  `TarStreamSource`, which lists and measures its entries once (archive 222-251):
  for `compress_file` it is a stream of the length it announced, or a call that
  throws, whatever the tree has become. The block count is as wide as the
  header's field and wraps (`Counted`) if `WriteBlock` lets it.
* `OutputCommit`: directory entries map names to files, files to content.
  Each file-system call is a step (`StatusFree` looks, `Place` renames), and each
  may fail; `Killed` stops a run between any two. `rename` replaces atomically, as POSIX says.
* `TarArchive`: characters, contents and blocks are small; a header is a
  record repeated over its block, so a header cut in two is recognised as such.
  `CallForBlock` stands for the read of `compress_file`, `Feed` for the delivery
  of `decompress_file`, each with any capacity of a set. The stream passes the
  codec unchanged. `FileChanges` makes any file, also one that was empty, longer or
  shorter than measured, or as long again. `CopyFile` reads a chunk and looks for
  more behind the last one in one step, and the stream's read-ahead is left out;
  `ChangedFileNoticed` speaks of files that are longer (or shorter) all the time
  they are open, for which neither matters. A header is recognised by what
  `handle_header` uses of it: checksum and magic, which the code does not look at
  either, are no part of it, and a block of anything else is one whose size or type
  the code refuses. `parse_size` refuses digits that are not octal and sizes
  from `SizeLimit` on (2^64).
* `BlockCodec`: a payload is a record of how it was made, so that decoding is
  the question whether the header undoes exactly that.
* `Lzp`: one step per token, on both sides; lengths in digits, the table and
  its hash are as in the code over smaller bytes. `Hash` is a constant: any
  function of the context serves in place of the multiplicative one.
* `RangeCoder`: a byte has `Base` values and the 32-bit registers `Full`; shifts
  are products and remainders. `low` keeps its carry, as the 64-bit `low_`
  does. One step is the part of `encode_bit` before its loop, one turn of the
  loop, or one shift of `finish`; likewise in the decoder, which then reads the
  encoder's output or a foreign payload. `exact` is a history variable, `low_`
  without ever dropping a digit. A bit's probability is chosen by the bit
  before it, the smallest adaptive context both sides must agree on.

* `SuffixSort`: a step is one of the three stages of `run`, on the innermost
  call. All levels work in the array `sa`, and a level below the first reads
  its text from it, as in the code. Loops over the array are folds.
* `TransformedBlock`: a step is a stage of the sort, one run encoded, or one
  symbol decoded. The range coder is a channel of pairs of a context and a bit:
  a decoder that asks with the context the bit was coded with gets it, one that
  asks with another may get anything. So a difference between `encode_symbol`
  and `decode_symbol`, or between the states that `advance` leaves, is a wrong
  bit. In a foreign payload every bit is free.
* `MixedModel`: every cell of every table has a name, the table and its
  indices; `Look` gives the cells of a decision. The encoder's
  `predict_and_update` reads and moves cell after cell, the decoder's `Predict`
  reads all and `Update` moves them later, through the names kept in `slots`.
  What a cell becomes and how cells make an estimate are the constants `Adapt`,
  `Domain` and `Blend`: the two sides agree whatever they are, if they agree on
  the cells. The instance lets every value read reach the estimate, so that a
  difference in any cell shows.
* `MixedBlock`: a step is one decision, one byte shifted out or in, or one of
  the passes before and after. `Top` and `ByteValues` give the registers their
  width, `One` is the precision of the estimates.

## What is checked

| Run | Instance | Shows |
|---|---|---|
| `encode_pipeline` | windows to 3, 3 chunks of 1 or 2 pieces | `SinkSound`, `WorkersWithinWindow`, `NoJoinableDestroyed`, that `OrderedPipeline` is implemented, and that every call ends |
| `decompress_file` | streams of 4 units, blocks of 1 or 2, every version and flag, archives too short to too long, windows to 3 | `RestoredExactly`, `HeldWithinWindow`, `CleanupTried`, the refinement, and that every call ends |
| `compress_file` | sources of 0 to 5 units around a buffering limit of 4, blocks of up to 2, at most 4 blocks | `Decodable`, `NoBadOutputCommitted`, `SourceChangeNoticed`, and that an undisturbed call returns |
| `output_commit` | two runs in sequence, the first possibly killed, two sibling names, stale siblings | `TargetAlwaysWhole`, `OutputSurvives`, `OutcomeIsHonest`, `StaleSiblingsKept` |
| `output_commit_concurrent` | the same two runs at once | a violation, see below |
| `tar_archive` | five trees with every way of storing a name, 21 foreign streams, capacities 1, 2, 3 and 5 against blocks of 2 | `RoundTrip`, `ExtractsAsAWhole`, `ChangedFileNoticed` |
| `tar_lost_writes` | the same | a violation, see below |
| `block_codec` | blocks of up to 4 units, every outcome of every candidate | `DecodesToTheBlock`, `SmallestKept` |
| `lzp` | every block of 12 bytes over two values, blocks with all four, arbitrary and malformed streams; contexts of 2 in 3 slots; two rules | `RoundTrip`, `DecoderInBounds` |
| `range_coder` | every sequence of up to 11 bits while the payload is at most 8 bytes, and foreign payloads of up to 7 bytes; bytes of 2 bits, registers of 3 bytes, probabilities in eighths | `RegistersFit`, `CarryStops`, `CarryExact`, `RoundTrip` |
| `transformed_block` | bytes of 3 bits: every block of up to 6 bytes over three values and of 8 bytes over two, and three longer ones whose sort recurses, both thresholds for runs; foreign payloads for blocks of 0, 1, 3 and 4 bytes, with any bits, symbol counts and indices | `SuffixesSorted`, `RunsBounded`, `RoundTrip` |
| `mixed_block` | every block of up to 3 bytes over three values and five longer ones, through no filter, the x86 filter and three record plans; bytes of 3 bits, registers of 3 bytes; foreign payloads with any index | `CodeInside`, `RoundTrip` |

Why the bounds are enough. A window of 3 is the first with a slot that is
neither first nor last, and six blocks fill it, drain it and refill it. Window
1 is the code's own special case. Four units in blocks of 2 give a short last
block, segments, and announced counts above and below the true one. Two sibling
names let a run meet a taken name and run out of them (10000 in the code). The
tar capacities reach every cut of a block of 2, and names of up to nine
characters against fields of 3 and 4 reach each way of storing them. Twelve
bytes over two values hold a match that relies on what an earlier match marked, and 3
slots for 16 contexts make them collide. Payload sizes 1 to 5 against blocks of
up to 4 are smaller, equal, larger than each other and than the block.
Eleven bits with eighths reach a carry through two held-back bytes. A register
of three bytes takes four shifts to flush, as one of four takes five.
The blocks of `transformed_block` have LMS substrings that are equal, so that
the sort recurses into its own array, and runs with digits of both kinds. The
longer blocks of `mixed_block` hold branches with operands that fit and do not,
records with a short last unit and a cut last record, runs past the exact
buckets, and symbols that come back while they are recent. Its plans have units
of one byte and of two, and masks of one byte and of two.

Constants that are bounds: `MaxWindow`, `MaxChunks`, `MaxPieces` (the pipeline),
`Headers`, `ArchiveSizes`, `MaxBlockCount` (2^32-1 in the format),
`FileSizes`, `Procs`, `Attempts`, `Trees`, `Capacities`, `MaxBlock`, `Inputs`,
`ForeignStreams`, `MaxBits`, `MaxOutput`, `ForeignPayloads`, `ForeignSizes`,
`Blocks`, `Plans`. The others are the code's parameters, scaled down.

### Fairness

`EncodePipeline` and `DecompressFile` assume weak fairness of the calling
thread and of each worker: the system schedules runnable threads, and
`encode_block` and `decode_block` are loops over their input, which end. Joins
are guards, so a thread that waits for one is not enabled and no fairness hides
a deadlock. `CompressFile` assumes weak fairness of its own steps, not of
`SourceChanges` nor of failing calls. The other modules state safety only.

### Disagreements with the documents

* `output_commit_concurrent`. `unique_sibling_path` (154-168) tests that a name
  is free; the file is created by a later `ofstream` that truncates. Two runs
  with one output path can share a temporary file, and the first to end renames
  it while the other still writes to it. README.md:87-88: the output "is written
  to a temporary file and renamed only after the whole operation succeeds".
* `tar_lost_writes`. `feed` closes an extracted file without testing the stream
  (archive 519). A buffered write that fails there is lost, the next `open`
  clears the failure and `finish` tests the automaton only. ALGORITHM.md:304-306:
  the tree "is renamed into place only when the whole archive checks out".
  `decompress_file` does test a single file after closing it.

## What is proved

`EncodePipelineProofs` proves, for every window, every number of chunks and
every number of pieces per chunk:

| Theorem | Says |
|---|---|
| `Invariance` | the inductive invariant `IndInv` |
| `TypeCorrect` | `TypeOK` |
| `SinkIsSound` | `SinkSound`: the sink holds a gap-free run of good blocks, all of them once `finish` returns |
| `WindowBound` | `WorkersWithinWindow` |
| `ThreadsJoined` | `NoJoinableDestroyed` |
| `Refinement` | `EncodePipeline` implements `OrderedPipeline` |

Assumptions: `MaxWindow` and `MaxPieces` are positive (`pipeline_window` clamps
to at least 1, `content_boundaries` returns at least one piece), `MaxChunks` is
a natural number.

The argument. `SinkSound` is not inductive: nothing in it says which block is
drained next. `IndInv` adds

* `SlotsOK`: the deque holds the newest blocks without a gap, and deque, front
  and sink together are all blocks, until an exception;
* `FrontOK`: the slot that was taken out is the successor of the last block
  sunk, and is joined before it is sunk;
* `RoomOK`: deque and front never exceed the window, and a thread is started
  only into a deque that has room;
* `ThreadsOK`: each running thread is joinable and has an owner;
* `ProgressOK`: what is left to submit agrees with the position of the caller.

Each action preserves them by a lemma of its own. `WindowBound` follows because
the running threads lie in an interval of blocks no longer than the window.
`Refinement` shows that each step is a step of `OrderedPipeline` or a stutter.

`RangeCoderProofs` proves, for every width of byte and register, every precision
of the probabilities and every payload:

| Theorem | Says |
|---|---|
| `CoderInvariance` | the inductive invariant `CoderInv` |
| `RegistersAlwaysFit` | `RegistersFit`: no register overflows, no subtraction wraps, no interval vanishes |
| `CarryAlwaysStops` | `CarryStops`: the byte in `cache_` can always take the carry |
| `CarryAlwaysExact` | `CarryExact`: output, bytes held back and `low_` are together exactly the lower end of the interval |
| `AlwaysRoundTrips` | `RoundTrip`: the decoder reads every bit that was encoded and is never out of bytes |

Assumptions: a byte has at least two values, `range_top` is at least the
precision of the probabilities (2^24 and 2^12), the adaptation divides by at
least two, foreign payloads consist of bytes, and a register with its carry is
as many bytes as `finish` shifts (`FlushAssumption`: 2^24 is 256^3, and there are
five shifts; with fewer, the last bytes of `low_` would not be written).

The argument. Neither property is inductive, because both are about `low` and
the danger is `low + range`: the whole interval may still move up. `CoderInv`
adds `IntervalOK`: the interval ends at most at twice the register's range, and
beyond the register only while the cache is not all ones. Encoding a bit
shrinks the interval inside itself. A shift multiplies it by a byte; if it then
reaches beyond the register, the digit that moved into the cache is not all
ones, or it was held back, in which case the interval already reached beyond
the register and the old cache could take a carry. `Digits`, `ShareInside` and
`FractionSmaller` are the arithmetic underneath.

`RoundTrip` compares a decoder with an encoder that has ended, so its invariant
`TraceInv` keeps the encoder's past: `Trace(h, k, s)` says that `h` is a sequence
of `k` steps, each of which codes the next bit of `s` or shifts, from the first
`Milestone` (bits coded, interval, probabilities, shifts so far). While encoding,
the last milestone is the encoder's state (`EncodeTrace`). In `finish`,
`FlushSum` says that output, bytes held back and `low_` spell the interval's
lower end and the shifts done, so that after `FlushCount` shifts `low_` is used up
(`OutputSpells`). From the last milestone downwards the bytes of the payload
that a step has seen spell a number inside its interval (`AlwaysInside`), since
each interval contains the next. So the decoder, which is always at a milestone
(`At`), takes the branch the encoder took, shifts when it shifted, and asks for
no byte beyond the last.

`CarryExact` is inductive together with `CoderInv`. It speaks of the number that a
sequence of bytes spells, `Value`, which is defined by a recursive function.
Induction is replaced by the least counterexample: `Least` (every set of naturals
has a least element, from the library's well-founded order of the naturals) shows
that every sequence has exactly one table of partial values (`ValuesExist`,
`ValuesUnique`) and that `Value` is its last entry. From that follow `ValueAppend`
(one byte more) and `ValueCarried` (one is added to a byte, and the all-ones bytes
behind it become zero, which adds one to the number whatever their count).
`ShiftedValue` is then what `shift_low` does to the number, in both of its branches,
and needs `CarryStops`: without it the carry would be lost in the cache.

`MixedBlockProofs` proves, for every width of byte and register, every precision,
every block and payload, and whatever the model estimates:

| Theorem | Says |
|---|---|
| `CoderInvariance` | the inductive invariant `CoderInv` |
| `CodeAlwaysInside` | `CodeInside`: the interval of the coder is never empty and stays in the registers, and the decoder's code never leaves it |

Assumptions: a byte has at least two values, an estimate has a precision of at
least two, and plans and foreign payloads consist of bytes.

The argument. A decision is coded only when the highest bytes of the two ends
differ, so the ends do (`SettledApart`), and an estimate below `One` cuts the
interval into two that are not empty (`MidInside`). A shift multiplies what is
below the highest byte, which is the same for both ends and so for the code
between them (`QuotientGrows`), and fills with zeros below and ones above
(`ShiftKeepsOrder`). `CoderInv` adds the types of registers and payload, that
both sides start with the whole register, and that the plan put before the
payload consists of bytes. The estimates are clamped by `blend`; nothing else
of the model is used.

`TransformedBlockProofs` proves, for every width of byte, every block, and every
payload and header:

| Theorem | Says |
|---|---|
| `DecodeInvariance` | the inductive invariant `DecodeInv` |
| `RunsAlwaysBounded` | `RunsBounded`: the run that `rc_decode` reads never passes the block, so neither its length nor the weight of its digits overflows |

The argument. A digit adds at least the weight of its place to the length of the
run and doubles the weight, so the weight is at most one more than the length
(`DigitKeeps`); the length is compared with what is left of the block before it
is kept. A digit may come when a run of another value has to be flushed first
(`FlushedLength`), which uses up the bytes that run had reserved. `DecodeInv`
adds the types of output and run, and that both are empty until the header is
checked. Nothing is assumed of the bits of the payload.

`DecompressFileProofs` proves, for every window, every file header, every sequence
of block sizes and every length of the archive:

| Theorem | Says |
|---|---|
| `Invariance` | the inductive invariant `IndInv` |
| `TypeCorrect` | `TypeOK` |
| `WindowBound` | `HeldWithinWindow`: the reader is never more than the window ahead of the writer |
| `RestoresExactly` | `RestoredExactly`: a replaced output came from all announced blocks, in order, of exactly the announced size, with nothing after them |
| `CleansUp` | `CleanupTried`: a call that fails has joined its threads and then tried to remove what it made, except where the stream buffer of a directory archive could not be allocated (1296, before the `try`); what could not be removed does not go with a replaced output |
| `ThreadsJoined` | `NoJoinableDestroyed` |
| `Refinement` | the block loop implements `OrderedPipeline`, with threads and without |

Assumptions: `WindowAssumption`, and `HeadersAssumption`: header fields are natural
numbers, which is what the fields of the file header are read into.

The argument. The slots are those of `EncodePipeline` (`FrontOK`, `SlotsOK`,
`RoomOK`, `ThreadsOK`, `DeliveredOK`), but the loop has two forms: without threads
there is no deque, and a block is decoded where it is read. `SumOK` says that
what is left and what the blocks read restore make the whole, so the loop that
stops at the announced count with nothing left has restored all of it; `EndOK` ties
`drained` and the ends of stream and archive to the positions after the loop.
`SumOK` needs sums over sequences of any length. These are not proved by
induction, which would take an operator as parameter: a set of naturals that
is not empty has a least element (`Least`, from `NatLessThanWellFounded` and
`WFMin`), and the least place where a claim about partial sums fails is
contradicted by the place before it. `TotalAppend` is the fact the steps need.

`CompressFileProofs` proves, for every block size, window, size of the source
and limit of the format:

| Theorem | Says |
|---|---|
| `Invariance` | the inductive invariant `IndInv` |
| `TypeCorrect` | `TypeOK` |
| `AlwaysDecodable` | `Decodable`: a replaced output holds the source as measured, and every check of `decompress_file` on header and blocks passes |
| `NoBadOutput` | `NoBadOutputCommitted` |
| `ChangeNoticed` | `SourceChangeNoticed`: a source file that stays longer, or shorter, than measured never leads to a return |

Assumptions: `FormatAssumption` and `CompressAssumption`: limits are positive or
natural, the block size is a valid one, sizes are natural numbers.

The argument. The header is written before the chunks are cut, with the count of
whole chunks. It is corrected only if the number of blocks written differs, so the
proof must show that equal counts mean that no chunk was cut: otherwise an
archive without the `segmented` flag would hold a short block in its middle, and
the decoder would refuse it. `CutOK` carries this through the loop. Between two
chunks the position is a multiple of the block size (or the end), each chunk has
given at least one piece, and as long as there are no more pieces than chunks each
piece is its whole chunk. At the end this is `Cut`, a property of the finished
sequence of blocks, which `SinkOK` carries to the vectors of the two buffered
rounds, `ChoiceOK` to the round that is put aside, and the copy to the file.
`HeaderOK` says which stream flag, coded size and count belong to; `Good` derives
the decoder's checks from them. The bound of `payload` by what is left of the
archive needs only that a sum is no smaller than its first term. `NeedNext` is the
arithmetic of the block count. The sums are those of `DecompressFileProofs`, over
again because the two modules declare the same variables.

`OutputCommitProofs` proves, for any number of runs, of names tried and of files:

| Theorem | Says |
|---|---|
| `TypeCorrect` | `TypeOK`, also when runs overlap |
| `CommitInvariance` | the inductive invariant `TypeInv /\ CommitInv` |
| `TargetIsAlwaysWhole` | `TargetAlwaysWhole` |
| `OutputAlwaysSurvives` | `OutputSurvives`: an output is never lost |
| `OutcomeIsAlwaysHonest` | `OutcomeIsHonest` |
| `StaleSiblingsAlwaysKept` | `StaleSiblingsKept` |

Assumptions: `NamesAssumption` and `AttemptsAssumption`, and for all but the first
theorem `~Concurrent`: runs follow each other, any of them may fail at any call
or be killed at any step. With overlapping runs `TargetAlwaysWhole` is false; the
run `output_commit_concurrent` shows it.

The argument. `CommitInv` says that no file stands under two names (`Apart`), that
the files of earlier runs are untouched, and, for each position of a run, what it
counts on about its own names and its file (`Private`): the temporary name was
free when it was opened and holds this run's file until the replacement, the
backup name was free when the old output was moved there, and holds it until it is
removed or moved back. A step changes only the run's own file and names
(`OnlyOwnFile`), so the `Private` of all other runs, which have not begun or have
ended, stays true.

`BlockCodecProofs` proves about `BlockCodec`, for blocks of every size and whatever
sizes and parameters the transforms return:

| Theorem | Says |
|---|---|
| `Invariance` | the inductive invariant `IndInv` |
| `AlwaysDecodesToTheBlock` | `DecodesToTheBlock`: the header names the winner's chain and parameters, and `decode_block` undoes it in reverse |
| `AlwaysSmallestKept` | `SmallestKept` |

The argument. The variables the header is made from are overwritten by several
candidates, so `BestOK` says that flags, index and intermediate size always
belong to the best payload so far, and that the kind of its coder agrees with
`contextMixed`; `OnTheBlock` that the run coder's candidates are offered the sorted
block itself. `ChainUndone` compares the order of the flags in `decode_block`
with the five chains `try_mixed` is called with.

It proves about `Lzp`, for blocks and foreign streams of every length, over bytes
of every width, every hash, every size of context and table, and any rules:

| Theorem | Says |
|---|---|
| `LzpTyped` | `TypeInv`: both tables only hold positions their side has been at |
| `DecoderAlwaysInBounds` | `DecoderInBounds`, of any stream |
| `AlwaysRoundTrips` | `RoundTrip`: the encoder's streams are never refused and decode to the block; one that is kept is shorter than the block |

Assumptions: a hash is a slot of the table, the shortest matches are not empty,
blocks and streams are bytes, and `DigitsAssumption`: the length of any part of a
block is spelled with at most `MaxDigits` digits (six digits of seven bits, for blocks
of less than 2^32 bytes).

The argument. `Honest` says that there is a history of milestones (how much the
encoder has seen, its table, the length of its output), each of which follows
from the one before by a literal or a match and the bytes that stand for it
(`Trace`), and that the decoder is always at one of them with the same bytes
and the same table. `LiteralAhead`, `MarkerAhead` and `MatchAhead` show that of
the bytes ahead the decoder can only read the token that was written, and that
reading it leads to the next milestone: the digits spell the length
(`LengthCoded`), the prediction is the encoder's because the tables and the bytes
before it are (`SlotSame`), the copy is the match even where the source runs into
what is written (`CopiedIs`), and marking decoded bytes is marking the block's
(`MarkedSame`). What the recursive functions compute is proved from the
recursion equation by a least counterexample (`Least`), since functions so
defined are choices until one is shown to exist.

`DecompressFileProofs` proves about `TarArchive` as well, for every tree, every
foreign stream, every capacity and block size:

| Theorem | Says |
|---|---|
| `TarTyped` | `TarTypeOK` |
| `AlwaysExtractsAsAWhole` | `ExtractsAsAWhole`: what `feed` extracts of a stream in pieces is what it would extract of the whole stream at once, files, contents and failure |
| `AlwaysRestoresTheTree` | `RoundTrip`: the tree that was listed comes out, its stream is as long as measured, and it is never refused |
| `FileChangeNoticed` | `ChangedFileNoticed`: while a file of some content is longer, or shorter, than measured whenever it is open, no archive is finished |

Assumptions: `TreesAssumption`, `ForeignAssumption`, `CapacityAssumption` and
`SizeAssumption`: a tree has a directory above every entry and no two entries of one
path; contents are shorter than `SizeLimit`, which the size field of a header holds in
base 256 (2^64 in eleven digits), and paths are shorter than the longest
name the extractor takes; foreign streams consist of units; buffers are not empty.

The argument for `ExtractsAsAWhole`. The invariant says that what has been extracted,
and what the rest of the stream gives when it is read from the extractor's present
position (`Ahead`), make what the whole stream gives from its beginning (`AsAWhole`). The
position is inside a header, a long name, a content or its padding. A turn of the loop
that completes nothing moves the position only; one that completes a field takes the step
the reference takes there, and the refusals of both come at the same place. What the
reference, a recursive function from the end of the stream to its front, gives at a
position is proved from its recursion equation, as for `Lzp`.

The argument for `RoundTrip` has three parts. First, headers give back what was put in
them: a size from its digits (`SizeComesBack`: octal, or base 256 where those run out), a
name whole, split at a slash or behind its terminator in a long-name entry
(`NameComesBack`, `TextComesBack`); so the reference, at the stream of an entry, makes its
directory or file and goes on behind it (`EntryMakes`). Second, going from the last entry
to the first, what a whole stream makes is `OriginalTree` (`EntireMakes`): a part lies
under the parts behind it and none disagrees with the tree, since a directory made for a
path above an entry is one of its own (`PartIs`); that the constructor lists every entry
is counted (`AllListed`: no entry comes before itself, so a listing repeats none). Third,
`AsMeasured` is the invariant of the source: what it has handed over, buffered, staged
and has left of the open file is exactly the streams of the entries it has taken up
(`OnCourse`), and what is handed over and asked for stays within `TotalSize`. So the
stream is whole when the probe finds nothing more, and the two checks of `compress_file`
for a stream that is shorter or longer than measured never fire: a changed file is
noticed by `read` itself.

`FileChangeNoticed` says when. Until its content is used up a file of some content is
ahead of `entryIndex`, or open with something left to read (`Unfinished`); only
`CopyFile` ends that, when the file is exactly as long as measured, and no archive is
finished before every entry is used up. What the code does not notice is left out of
the property on purpose: a file measured empty is never opened (archive 314) and is
stored empty, and entries added to the tree after it was listed are not stored.

Only model-checked: all liveness (termination needs fairness and enabledness);
and `SuffixesSorted` and the `RoundTrip` of `MixedBlock` and `TransformedBlock`, which relate
what two loops over all of the input compute. The composition of the modules is not proved: that `CompressFile` may use the
pipeline through what `OrderedPipeline` promises rests on `Refinement` and on
reading.

## Plan

1. Done: pipeline and its proofs, decompression, compression, output
   replacement, tar, block codec, LZP, range coder and its proofs, block sort,
   run coding and the proof of its decoder's bounds, context mixer and its
   coder's proof, filters.
   The safety properties of the pipeline, of decompression, compression, output
   replacement, block codec, LZP and range coder are proved, and that a directory comes back
   out of its tar stream.
2. Proofs: what the decoders share with their encoders, as invariants that relate
   the two sides step by step, as is done for `RangeCoder` and `Lzp` (`RoundTrip` of `MixedBlock`
   and `TransformedBlock`: first that the decisions decoded are those coded, then
   that the sort and the filters are undone).
3. The decoder of version 2 beside the current one, and content boundaries.

## Not modelled, and why

The arithmetic of the context mixer (`counter_update`, `Mixer`, `Apm`, the tables
of logarithms) is left to constants: both sides call the same functions, and what
they compute decides how small a payload is, not whether it decodes, as long
as `blend` clamps. That their fixed-point products fit their types is not shown.
`cm_decode_v2` reads archives of an older version with a model for which the
repository has no encoder, so nothing can be compared with it. Which record
length and units to filter, and where to cut content, are estimates over bytes:
the models take any plan and any sizes. LZP inside a mixed block is the subject
of `Lzp` and `BlockCodec`; `MixedBlock` leaves it out. Adler-32 is the same function
of the same bytes on both sides, so it accepts what decodes to itself; what it
notices of damaged payloads is not shown. The command line calls the two functions
that are modelled.
Windows path rules and the Windows rename are left out: the model's file system
is POSIX's. Stored names above 65536 bytes, which the extractor refuses, do not
occur in the trees. The 64-bit register that `lzp_decode` collects a length in is
not given its width: six digits of seven bits are 42, and `LengthRead` refuses more
(transforms 2369-2383). What appears at a directory's output path between the test
and the rename is left to the file system.
