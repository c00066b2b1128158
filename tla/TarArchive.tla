----------------------------- MODULE TarArchive ------------------------------
(***************************************************************************)
(* A directory archive from end to end: compress_file reads the tree       *)
(* through TarStreamSource in blocks, decompress_file feeds the stream it  *)
(* has restored to TarExtractor in blocks cut elsewhere.  What is between  *)
(* (coding, the file) restores the stream exactly and is left out.  An     *)
(* archive may also come from elsewhere and hold any stream.               *)
(***************************************************************************)
EXTENDS TarStreamSource, TarExtractor

CONSTANTS
    ForeignStreams,  \* streams that did not come from TarStreamSource
    Capacities       \* buffer sizes of read and of feed

ASSUME ForeignAssumption == \A units \in ForeignStreams : Readable(units)

ASSUME CapacityAssumption == Capacities \subseteq Nat \ {0}

VARIABLES
    stage,    \* "archive", "probe", "extract", "returned", "threw"
    foreign,  \* the stream came from elsewhere
    stream,   \* the stream: produced so far, then as decoded
    fed       \* how much of it feed has been given

tarVars == <<sourceVars, extractorVars, stage, foreign, stream, fed>>

TarEnded == stage \in {"returned", "threw"}

TarInit ==
    /\ ExtractorInit
    /\ fed = 0
    /\ \/ /\ foreign = FALSE /\ stage = "archive" /\ stream = <<>>
          /\ \E source \in Trees : SourceInit(source)
       \/ /\ foreign = TRUE /\ stage = "extract" /\ stream \in ForeignStreams
          /\ SourceInit({})

-----------------------------------------------------------------------------
(* compress_file                                                           *)

BlockWanted == TotalSize - Len(stream) - Len(buffer)

CallForBlock ==
    /\ stage = "archive"
    /\ room = 0
    /\ BlockWanted > 0
    /\ \E capacity \in Capacities : CallRead(Lesser(capacity, BlockWanted))
    /\ stream' = stream \o buffer
    /\ UNCHANGED <<extractorVars, stage, foreign, fed>>

ReadOn ==
    /\ stage \in {"archive", "probe"}
    /\ SourceStep
    /\ UNCHANGED <<extractorVars, stage, foreign, stream, fed>>

(* After the last block one more unit is asked for.                        *)
Probe ==
    /\ stage = "archive"
    /\ room = 0
    /\ BlockWanted = 0
    /\ stream' = stream \o buffer
    /\ CallRead(1)
    /\ stage' = "probe"
    /\ UNCHANGED <<extractorVars, foreign, fed>>

Archived ==
    /\ stage = "probe"
    /\ room = 1 /\ NothingMore
    /\ stage' = "extract"
    /\ UNCHANGED <<sourceVars, extractorVars, foreign, stream, fed>>

(* The stream is shorter or longer than it was measured, or read threw.    *)
Mismeasured ==
    \/ stage = "archive" /\ room > 0 /\ NothingMore
    \/ stage = "probe" /\ room = 0

ArchivingThrows ==
    /\ Mismeasured \/ (stage \in {"archive", "probe"} /\ sourceFailed)
    /\ stage' = "threw"
    /\ UNCHANGED <<sourceVars, extractorVars, foreign, stream, fed>>

SourceChanges ==
    /\ stage \in {"archive", "probe"}
    /\ FileChanges
    /\ UNCHANGED <<extractorVars, stage, foreign, stream, fed>>

-----------------------------------------------------------------------------
(* decompress_file                                                         *)

Feed ==
    /\ stage = "extract"
    /\ data = <<>> /\ fed < Len(stream)
    /\ \E capacity \in Capacities :
         LET chunk == Lesser(capacity, Len(stream) - fed)
         IN  /\ data' = SubSeq(stream, fed + 1, fed + chunk)
             /\ fed' = fed + chunk
    /\ UNCHANGED <<sourceVars, parserVars, tree, flushLost, failure, stage, foreign, stream>>

FeedOn ==
    /\ stage = "extract"
    /\ FeedStep
    /\ UNCHANGED <<sourceVars, stage, foreign, stream, fed>>

AllFed == data = <<>> /\ fed = Len(stream) /\ failure = "none"

FinishFaulty ==
    /\ stage = "extract"
    /\ AllFed /\ done
    /\ stage' = "returned"
    /\ UNCHANGED <<sourceVars, extractorVars, foreign, stream, fed>>

Finish ==
    /\ stage = "extract"
    /\ AllFed /\ FinishAccepts
    /\ stage' = "returned"
    /\ UNCHANGED <<sourceVars, extractorVars, foreign, stream, fed>>

FinishThrows ==
    /\ stage = "extract"
    /\ AllFed /\ ~FinishAccepts
    /\ Fail("format")
    /\ UNCHANGED <<sourceVars, stage, foreign, stream, fed>>

ExtractionThrows ==
    /\ stage = "extract"
    /\ failure # "none"
    /\ stage' = "threw"
    /\ UNCHANGED <<sourceVars, extractorVars, foreign, stream, fed>>

TarStopped == TarEnded /\ UNCHANGED tarVars

TarNext ==
    \/ CallForBlock \/ ReadOn \/ Probe \/ Archived \/ ArchivingThrows \/ SourceChanges
    \/ Feed \/ FeedOn \/ Finish \/ FinishThrows \/ ExtractionThrows
    \/ TarStopped

TarSpec == TarInit /\ [][TarNext]_tarVars

-----------------------------------------------------------------------------
(* Properties                                                              *)

(* The counters of both ends stay what their unsigned C++ types can hold,  *)
(* and a staged or pending block never outgrows its bound.                 *)
TarTypeOK ==
    /\ stage \in {"archive", "probe", "extract", "returned", "threw"}
    /\ entryIndex \in 1..(Len(entries) + 1)
    /\ room \in Nat /\ currentRemaining \in Nat
    /\ currentPadding \in 0..(TarBlock - 1)
    /\ Len(pending) < TarBlock
    /\ dataRemaining \in Nat
    /\ paddingRemaining \in 0..(TarBlock - 1)
    /\ state \in {"header", "file_data", "long_name_data", "padding"}
    /\ state \in {"file_data", "long_name_data"} <=> dataRemaining > 0
    /\ zeroBlocks \in 0..2
    /\ failure \in {"none", "format", "io"}

(* What the archived directory looks like below its own name.              *)
OriginalTree ==
    Over([path \in {Components(entries[i].path) : i \in DOMAIN entries} |->
            LET i == CHOOSE i \in DOMAIN entries : Components(entries[i].path) = path
            IN  IF entries[i].directory THEN Directory ELSE File(entries[i].content)],
         EmptyRoot)

(* Whatever the buffer sizes on either side, whichever way the names are   *)
(* stored and whatever happens to the files meanwhile: the stream is       *)
(* exactly as long as it was measured or reading it throws, its extraction *)
(* is never refused, and what comes out is the tree that was listed, with  *)
(* the sizes it was measured with, unless a buffered write was lost.       *)
RoundTrip ==
    ~foreign =>
      /\ ~Mismeasured
      /\ failure # "format"
      /\ stage = "returned" /\ ~flushLost => tree = OriginalTree

(* The same, of every archive that was decompressed: "the tree is          *)
(* extracted into a temporary sibling directory that is renamed into place *)
(* only when the whole archive checks out" (ALGORITHM.md).                 *)
ExtractedWhole == stage = "returned" /\ ~foreign => tree = OriginalTree

EntryNumbers == UNION {1..Cardinality(source) : source \in Trees}

(* A file that was not empty, and is longer while it is open.              *)
Longer(i) ==
    /\ i \in DOMAIN entries /\ entries[i].content # <<>>
    /\ currentFile = i => disk[i] > Len(entries[i].content)

Shorter(i) ==
    /\ i \in DOMAIN entries /\ entries[i].content # <<>>
    /\ currentFile = i => disk[i] < Len(entries[i].content)

(* A file measured with some content that is longer, or shorter, than that *)
(* all the time it is open is noticed: no archive is finished.  (A file    *)
(* measured empty is never opened: it is stored empty, whatever it holds   *)
(* by then, just as files added after the listing are left out.)           *)
ChangedFileNoticed ==
    \A i \in EntryNumbers : ([]Longer(i) \/ []Shorter(i)) => [](stage # "returned")

(* A stream read as a whole: entries, each behind its long name if it has  *)
(* one, then two blocks of zeros and nothing more.  A result is empty, or  *)
(* holds what the entries from a position on lay over the tree.            *)
Refused == <<>>
Holds(part) == <<part>>

HeaderAt(units, at) == units[at + 1].header
SizeAt(units, at)   == ParseSize(HeaderAt(units, at).size)
BodyAt(units, at)   == SubSeq(units, at + TarBlock + 1, at + TarBlock + SizeAt(units, at))
Behind(units, at)   == at + TarBlock + SizeAt(units, at) + Padded(SizeAt(units, at))

EntryAt(units, at) ==
    /\ at + TarBlock <= Len(units)
    /\ units[at + 1].kind = "header"
    /\ SubSeq(units, at + 1, at + TarBlock) = Block(HeaderAt(units, at))
    /\ SizeValid(HeaderAt(units, at).size)
    /\ Behind(units, at) <= Len(units)

LongNameAt(units, at) ==
    /\ EntryAt(units, at) /\ HeaderAt(units, at).type = "L"
    /\ SizeAt(units, at) \in 1..LongNameLimit
    /\ TextOf(BodyAt(units, at)) # <<>>

DirectoryEntryAt(units, at, name) ==
    /\ EntryAt(units, at) /\ HeaderAt(units, at).type = "5"
    /\ SizeAt(units, at) = 0
    /\ ~Unsafe(name)

FileEntryAt(units, at, name) ==
    /\ EntryAt(units, at) /\ HeaderAt(units, at).type \in FileTypes
    /\ ~Unsafe(name)

Under(part, rest) == IF rest = Refused THEN Refused ELSE Holds(Over(rest[1], part))

(* What a named entry and all behind it make; made[p] is what everything   *)
(* from p on does.                                                         *)
Entry(units, made, at, name) ==
    LET path == Components(name)
        rest == made[Behind(units, at)]
    IN  IF DirectoryEntryAt(units, at, name) THEN Under(Directories(path), rest)
        ELSE IF FileEntryAt(units, at, name)
          THEN Under(Over(FileAt(path, BodyAt(units, at)), Directories(Front(path))), rest)
        ELSE Refused

From(units, made, at) ==
    IF SubSeq(units, at + 1, Len(units)) = Zeros(2 * TarBlock) THEN Holds(<<>>)
    ELSE IF LongNameAt(units, at)
      THEN Entry(units, made, Behind(units, at), TextOf(BodyAt(units, at)))
    ELSE IF EntryAt(units, at) THEN Entry(units, made, at, NameOf(HeaderAt(units, at)))
    ELSE Refused

Reference(units) ==
    LET made[at \in 0..Len(units)] == From(units, made, at)
    IN  Under(EmptyRoot, made[0])

(* The extractor, fed in pieces, accepts exactly the streams that are      *)
(* well formed as a whole, and makes of them the tree they describe.       *)
ExtractsAsAWhole ==
    /\ stage = "returned" /\ ~flushLost => Reference(stream) = Holds(tree)
    /\ failure = "format" => Reference(stream) = Refused

=============================================================================
