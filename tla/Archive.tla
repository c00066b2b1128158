------------------------------- MODULE Archive -------------------------------
(***************************************************************************)
(* The parts of the container format of codec.cpp that the encoder writes  *)
(* and the decoder checks: what a file header promises about the blocks    *)
(* after it, and which block headers are accepted where.                   *)
(*                                                                         *)
(* A file header is a record with the fields                               *)
(*   version, directory, streamLzp, segmented, blockSize, originalSize,    *)
(*   codedSize (the stream header's size, or originalSize without one),    *)
(*   streamBits and blockCount.                                            *)
(* Sizes are counted in units; a block header takes BlockHeaderSize units. *)
(***************************************************************************)
EXTENDS Naturals, Sequences

CONSTANTS
    MinBlockSize,      \* minimum_block_size
    MaxBlockSize,      \* maximum_block_size
    StreamLzpLimit,    \* stream_lzp_limit
    BlockHeaderSize,   \* block_header_size
    MaxBlockCount      \* the largest count the header's field can hold

ASSUME FormatAssumption ==
    /\ MinBlockSize \in Nat \ {0}
    /\ MaxBlockSize \in Nat /\ MinBlockSize <= MaxBlockSize
    /\ StreamLzpLimit \in Nat
    /\ BlockHeaderSize \in Nat \ {0}
    /\ MaxBlockCount \in Nat \ {0}

ArchiveVersion == 3
OldestReadableVersion == 1

StreamHashBits == 20..26

(* The sum of a sequence of sizes.                                         *)
Total(s) ==
    LET total[n \in 0..Len(s)] == IF n = 0 THEN 0 ELSE total[n - 1] + s[n]
    IN  total[Len(s)]

(* expected_block_count, and whether it fits the header's field.           *)
ExpectedBlockCount(size, blockSize) ==
    IF size = 0 THEN 0 ELSE (size - 1) \div blockSize + 1

BlockCountFits(size, blockSize) == ExpectedBlockCount(size, blockSize) <= MaxBlockCount

(* validate_block_size                                                     *)
BlockSizeValid(blockSize) == blockSize \in MinBlockSize..MaxBlockSize

(* The flags a version of the format knows.                                *)
FlagsKnown(h) ==
    /\ h.segmented => h.version >= 3
    /\ h.streamLzp => h.version >= 2

StreamHeaderValid(h) ==
    /\ h.codedSize > 0
    /\ h.codedSize < h.originalSize
    /\ h.originalSize <= StreamLzpLimit
    /\ h.streamBits \in StreamHashBits

(* Blocks that end early add to the count, but every block restores at     *)
(* least one byte.                                                         *)
BlockCountValid(h) ==
    LET calculated == ExpectedBlockCount(h.codedSize, h.blockSize)
    IN  IF h.segmented
          THEN h.blockCount \in calculated..h.codedSize
          ELSE h.blockCount = calculated

(* The header checks of decompress_file.                                   *)
HeaderAccepted(h) ==
    /\ h.version \in OldestReadableVersion..ArchiveVersion
    /\ FlagsKnown(h)
    /\ BlockSizeValid(h.blockSize)
    /\ h.streamLzp => StreamHeaderValid(h)
    /\ BlockCountFits(h.codedSize, h.blockSize)
    /\ BlockCountValid(h)

(* The size a block must have, or may have at most: a full block, or what  *)
(* is left of the stream.                                                  *)
ExpectedSize(h, remaining) == IF remaining < h.blockSize THEN remaining ELSE h.blockSize

OriginalSizeValid(h, size, remaining) ==
    /\ size # 0
    /\ size <= ExpectedSize(h, remaining)
    /\ ~h.segmented => size = ExpectedSize(h, remaining)

PayloadSizeValid(payload, size, archiveRemaining) ==
    /\ payload # 0
    /\ payload <= size
    /\ payload <= archiveRemaining

=============================================================================
