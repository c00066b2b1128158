---------------------------- MODULE TarExtractor -----------------------------
(***************************************************************************)
(* class TarExtractor of archive.cpp: the decoded stream arrives in pieces *)
(* of any size, and directories and files are made as soon as their header *)
(* is complete.  One action is one turn of the loop of feed; a turn that   *)
(* completes a header block also runs handle_header.                       *)
(***************************************************************************)
EXTENDS TarFormat, Functions

VARIABLES
    state,             \* state_
    pending,           \* pending_
    longName,          \* long_name_
    longNameData,      \* long_name_data_
    openFile,          \* the path current_file_ writes to
    dataRemaining,     \* data_remaining_
    paddingRemaining,  \* padding_remaining_
    zeroBlocks,        \* zero_blocks_
    done,              \* done_
    data,              \* what feed has not yet looked at
    tree,              \* what is under root_: a record for each path
    flushLost,         \* current_file_.close() has failed to write its buffer
    failure            \* "none", or what was thrown: "format" or "io"

parserVars == <<state, pending, longName, longNameData, openFile, dataRemaining,
                paddingRemaining, zeroBlocks, done>>
extractorVars == <<parserVars, data, tree, flushLost, failure>>

Directory     == [directory |-> TRUE, content |-> <<>>]
File(content) == [directory |-> FALSE, content |-> content]

(* A tree, or part of one, laid over another.                              *)
Over(part, rest) ==
    [p \in DOMAIN part \cup DOMAIN rest |-> IF p \in DOMAIN part THEN part[p] ELSE rest[p]]

EmptyRoot == [p \in {<<>>} |-> Directory]

FileAt(path, content) == [p \in {path} |-> File(content)]

Directories(path) == [p \in Prefixes(path) |-> Directory]

ExtractorInit ==
    /\ state = "header"
    /\ pending = <<>>
    /\ longName = <<>>
    /\ longNameData = <<>>
    /\ openFile = <<>>
    /\ dataRemaining = 0
    /\ paddingRemaining = 0
    /\ zeroBlocks = 0
    /\ done = FALSE
    /\ data = <<>>
    /\ tree = EmptyRoot
    /\ flushLost = FALSE
    /\ failure = "none"

Feeding == data # <<>> /\ failure = "none"

Fail(kind) ==
    /\ failure' = kind
    /\ UNCHANGED <<parserVars, data, tree, flushLost>>

(* create_directories for a path, as far as no file is in the way.         *)
DirectoriesFit(path) == \A p \in Prefixes(path) : p \in DOMAIN tree => tree[p].directory

WithDirectories(path) == Over(Directories(path), tree)

(* The text of a long name ends at its first NUL.                          *)
TextOf(units) ==
    LET nul == SelectInSeq(units, LAMBDA unit : unit = Zero)
        text == IF nul = 0 THEN units ELSE SubSeq(units, 1, nul - 1)
    IN  [i \in DOMAIN text |-> text[i].value]

-----------------------------------------------------------------------------
(* State::header                                                           *)

Collected ==
    pending \o SubSeq(data, 1, IF Len(data) < TarBlock - Len(pending)
                                 THEN Len(data) ELSE TarBlock - Len(pending))

DataAfterHeader == SubSeq(data, Len(Collected) - Len(pending) + 1, Len(data))

Collect ==
    /\ Feeding /\ ~done
    /\ state = "header"
    /\ Len(Collected) < TarBlock
    /\ pending' = Collected
    /\ data' = DataAfterHeader
    /\ UNCHANGED <<state, longName, longNameData, openFile, dataRemaining, paddingRemaining,
                   zeroBlocks, done, tree, flushLost, failure>>

HeaderComplete ==
    /\ Feeding /\ ~done
    /\ state = "header"
    /\ Len(Collected) = TarBlock

AllZero == Collected = Zeros(TarBlock)

EntryHeader == Collected[1].header

(* A block that reads as a header, with a size that parse_size accepts.    *)
(* (Neither checksum nor magic is looked at: any block that is not zero is *)
(* read as a header, and what it then says is for the stream to choose.)   *)
IsHeader ==
    /\ Collected[1].kind = "header"
    /\ Collected = Block(EntryHeader)
    /\ SizeValid(EntryHeader.size)

FileTypes == {"0", "nul"}
EntrySize == ParseSize(EntryHeader.size)

StoredPath == IF longName # <<>> THEN longName ELSE NameOf(EntryHeader)
EntryPath == Components(StoredPath)

ZeroBlock ==
    /\ HeaderComplete
    /\ AllZero
    /\ zeroBlocks' = zeroBlocks + 1
    /\ done' = (zeroBlocks' >= 2)
    /\ pending' = <<>>
    /\ data' = DataAfterHeader
    /\ UNCHANGED <<state, longName, longNameData, openFile, dataRemaining, paddingRemaining,
                   tree, flushLost, failure>>

LongNameValid == longName = <<>> /\ EntrySize \in 1..LongNameLimit

LongNameEntry ==
    /\ HeaderComplete
    /\ IsHeader /\ zeroBlocks = 0
    /\ EntryHeader.type = "L"
    /\ LongNameValid
    /\ longNameData' = <<>>
    /\ dataRemaining' = EntrySize
    /\ paddingRemaining' = Padded(EntrySize)
    /\ state' = "long_name_data"
    /\ pending' = <<>>
    /\ data' = DataAfterHeader
    /\ UNCHANGED <<longName, openFile, zeroBlocks, done, tree, flushLost, failure>>

DirectoryEntry ==
    /\ HeaderComplete
    /\ IsHeader /\ zeroBlocks = 0
    /\ EntryHeader.type = "5"
    /\ EntrySize = 0
    /\ ~Unsafe(StoredPath)
    /\ DirectoriesFit(EntryPath)
    /\ tree' = WithDirectories(EntryPath)
    /\ longName' = <<>>
    /\ pending' = <<>>
    /\ data' = DataAfterHeader
    /\ UNCHANGED <<state, longNameData, openFile, dataRemaining, paddingRemaining, zeroBlocks,
                   done, flushLost, failure>>

(* Opening the file also clears what an earlier close has reported.        *)
FileEntry ==
    /\ HeaderComplete
    /\ IsHeader /\ zeroBlocks = 0
    /\ EntryHeader.type \in FileTypes
    /\ ~Unsafe(StoredPath)
    /\ EntryPath # <<>>
    /\ DirectoriesFit(Front(EntryPath))
    /\ EntryPath \in DOMAIN tree => ~tree[EntryPath].directory
    /\ tree' = Over(FileAt(EntryPath, <<>>), WithDirectories(Front(EntryPath)))
    /\ longName' = <<>>
    /\ IF EntrySize = 0
         THEN UNCHANGED <<state, openFile, dataRemaining, paddingRemaining>>
         ELSE /\ state' = "file_data"
              /\ openFile' = EntryPath
              /\ dataRemaining' = EntrySize
              /\ paddingRemaining' = Padded(EntrySize)
    /\ pending' = <<>>
    /\ data' = DataAfterHeader
    /\ UNCHANGED <<longNameData, zeroBlocks, done, flushLost, failure>>

HeaderAcceptable ==
    \/ AllZero
    \/ /\ IsHeader /\ zeroBlocks = 0
       /\ \/ EntryHeader.type = "L" /\ LongNameValid
          \/ EntryHeader.type = "5" /\ EntrySize = 0 /\ ~Unsafe(StoredPath)
          \/ EntryHeader.type \in FileTypes /\ ~Unsafe(StoredPath)

HeaderRejected == HeaderComplete /\ ~HeaderAcceptable /\ Fail("format")

(* A directory or a file that cannot be made.                              *)
MakeThrows ==
    /\ HeaderComplete
    /\ HeaderAcceptable
    /\ IsHeader
    /\ EntryHeader.type # "L"
    /\ Fail("io")

-----------------------------------------------------------------------------
(* State::file_data, State::long_name_data and State::padding              *)

Chunk == IF Len(data) < dataRemaining THEN Len(data) ELSE dataRemaining

DataAfterChunk == SubSeq(data, Chunk + 1, Len(data))

AfterData == IF paddingRemaining = 0 THEN "header" ELSE "padding"

(* A write either fails at once or stays in the buffer of the stream; the  *)
(* close after the last one may then fail, and nobody looks.               *)
WriteFile ==
    /\ Feeding /\ ~done
    /\ state = "file_data"
    /\ \/ /\ tree' = [tree EXCEPT ![openFile] = File(@.content \o SubSeq(data, 1, Chunk))]
          /\ UNCHANGED flushLost
       \/ /\ dataRemaining = Chunk
          /\ flushLost' = TRUE
          /\ UNCHANGED tree
    /\ dataRemaining' = dataRemaining - Chunk
    /\ data' = DataAfterChunk
    /\ state' = IF dataRemaining = Chunk THEN AfterData ELSE state
    /\ UNCHANGED <<pending, longName, longNameData, openFile, paddingRemaining, zeroBlocks,
                   done, failure>>

WriteThrows == Feeding /\ ~done /\ state = "file_data" /\ Fail("io")

TakeName ==
    /\ Feeding /\ ~done
    /\ state = "long_name_data"
    /\ longNameData' = longNameData \o SubSeq(data, 1, Chunk)
    /\ dataRemaining' = dataRemaining - Chunk
    /\ data' = DataAfterChunk
    /\ IF dataRemaining = Chunk
         THEN /\ longName' = TextOf(longNameData')
              /\ longName' # <<>>
              /\ state' = AfterData
         ELSE UNCHANGED <<longName, state>>
    /\ UNCHANGED <<pending, openFile, paddingRemaining, zeroBlocks, done, tree, flushLost,
                   failure>>

NameRejected ==
    /\ Feeding /\ ~done
    /\ state = "long_name_data"
    /\ dataRemaining = Chunk
    /\ TextOf(longNameData \o SubSeq(data, 1, Chunk)) = <<>>
    /\ Fail("format")

SkipPaddingFaulty ==
    /\ Feeding /\ ~done
    /\ state = "padding"
    /\ paddingRemaining' = paddingRemaining - Len(data)
    /\ data' = <<>>
    /\ state' = IF paddingRemaining' = 0 THEN "header" ELSE state
    /\ UNCHANGED <<pending, longName, longNameData, openFile, dataRemaining, zeroBlocks, done,
                   tree, flushLost, failure>>

SkipPadding ==
    /\ Feeding /\ ~done
    /\ state = "padding"
    /\ LET chunk == IF Len(data) < paddingRemaining THEN Len(data) ELSE paddingRemaining
       IN  /\ paddingRemaining' = paddingRemaining - chunk
           /\ data' = SubSeq(data, chunk + 1, Len(data))
           /\ state' = IF chunk = paddingRemaining THEN "header" ELSE state
    /\ UNCHANGED <<pending, longName, longNameData, openFile, dataRemaining, zeroBlocks, done,
                   tree, flushLost, failure>>

PastTheEnd == Feeding /\ done /\ Fail("format")

FeedStep ==
    \/ Collect \/ ZeroBlock \/ LongNameEntry \/ DirectoryEntry \/ FileEntry
    \/ HeaderRejected \/ MakeThrows \/ WriteFile \/ WriteThrows
    \/ TakeName \/ NameRejected \/ SkipPadding \/ PastTheEnd

(* What finish() asks for.                                                 *)
FinishAccepts == done /\ state = "header" /\ pending = <<>> /\ longName = <<>>

=============================================================================
