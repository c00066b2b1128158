--------------------------- MODULE TarStreamSource ----------------------------
(***************************************************************************)
(* class TarStreamSource of archive.cpp: a directory tree read as a tar    *)
(* stream made on the fly.  The constructor lists, measures and sorts the  *)
(* entries; each call of read copies staged headers and padding and the    *)
(* content of the files into the caller's buffer until the buffer is full  *)
(* or the stream ends.  One action is one turn of the loop of read.        *)
(***************************************************************************)
EXTENDS TarFormat, FiniteSets

CONSTANT Trees   \* directory trees: sets of [path, directory, content]

(* A tree has a directory for every path above one of its entries.  The    *)
(* writer sets no limit to a path, the extractor does; paths that an       *)
(* operating system opens stay far below it, and sizes have 64 bits.       *)
ASSUME TreesAssumption ==
    \A t \in Trees :
      /\ IsFiniteSet(t)
      /\ \A e \in t :
           /\ e.path \in Seq(Nat) /\ Len(e.path) < LongNameLimit /\ ~Unsafe(e.path)
           /\ e.directory \in BOOLEAN /\ (e.directory => e.content = <<>>)
           /\ Readable(e.content) /\ Len(e.content) < SizeLimit
           /\ Components(e.path) # <<>>
           /\ \A above \in Prefixes(Front(Components(e.path))) \ {<<>>} :
                \E d \in t : d.directory /\ Components(d.path) = above
           /\ \A other \in t : Components(other.path) = Components(e.path) => other = e

VARIABLES
    entries,           \* entries_
    disk,              \* how many units each file holds at this moment
    entryIndex,        \* entry_index_
    staged,            \* what is left of staged_
    currentFile,       \* the entry current_file_ reads, or 0
    currentRemaining,  \* current_remaining_
    currentPadding,    \* current_padding_
    finished,          \* finished_
    room,              \* what is left of the buffer of this call of read
    buffer,            \* what this call of read has produced
    sourceFailed       \* read has thrown

sourceVars == <<entries, disk, entryIndex, staged, currentFile, currentRemaining,
                currentPadding, finished, room, buffer, sourceFailed>>

Lesser(a, b) == IF a < b THEN a ELSE b

Before(left, right) ==
    LET common == Lesser(Len(left), Len(right))
    IN  \E i \in 1..(common + 1) :
          /\ \A j \in 1..(i - 1) : left[j] = right[j]
          /\ IF i > common THEN Len(left) < Len(right) ELSE left[i] < right[i]

(* The entries in the order of their stored paths.                         *)
Listings(tree) ==
    {listing \in [1..Cardinality(tree) -> tree] :
       \A i \in DOMAIN listing : \A j \in 1..(i - 1) :
         Before(listing[j].path, listing[i].path)}

(* total_size_                                                             *)
TotalSize ==
    LET total[i \in 0..Len(entries)] ==
          IF i = 0 THEN 0
          ELSE total[i - 1] + EntryStreamSize(entries[i].path, Len(entries[i].content))
    IN  total[Len(entries)] + 2 * TarBlock

SourceInit(tree) ==
    /\ entries \in Listings(tree)
    /\ disk = [i \in DOMAIN entries |-> Len(entries[i].content)]
    /\ entryIndex = 1
    /\ staged = <<>>
    /\ currentFile = 0
    /\ currentRemaining = 0
    /\ currentPadding = 0
    /\ finished = FALSE
    /\ room = 0
    /\ buffer = <<>>
    /\ sourceFailed = FALSE

(* read(out, capacity) is called.                                          *)
CallRead(capacity) ==
    /\ room' = capacity
    /\ buffer' = <<>>
    /\ UNCHANGED <<entries, disk, entryIndex, staged, currentFile, currentRemaining,
                   currentPadding, finished, sourceFailed>>

(* The loop goes on while there is room and something to produce.          *)
Reading == room > 0 /\ ~sourceFailed

NothingMore ==
    staged = <<>> /\ currentRemaining = 0 /\ entryIndex > Len(entries) /\ finished

CopyStaged ==
    /\ Reading
    /\ staged # <<>>
    /\ LET chunk == Lesser(room, Len(staged))
       IN  /\ buffer' = buffer \o SubSeq(staged, 1, chunk)
           /\ staged' = SubSeq(staged, chunk + 1, Len(staged))
           /\ room' = room - chunk
    /\ UNCHANGED <<entries, disk, entryIndex, currentFile, currentRemaining, currentPadding,
                   finished, sourceFailed>>

CopyFileFaulty ==
    /\ Reading
    /\ staged = <<>> /\ currentRemaining > 0
    /\ LET entry == entries[currentFile]
           from  == Len(entry.content) - currentRemaining
           chunk == Lesser(room, currentRemaining)
       IN  /\ disk[currentFile] >= from + chunk
           /\ buffer' = buffer \o SubSeq(entry.content, from + 1, from + chunk)
           /\ room' = room - chunk
           /\ currentRemaining' = currentRemaining - chunk
           /\ IF chunk < currentRemaining
                THEN UNCHANGED <<staged, currentFile>>
                ELSE /\ currentFile' = 0
                     /\ staged' = Zeros(currentPadding)
    /\ UNCHANGED <<entries, disk, entryIndex, currentPadding, finished, sourceFailed>>

(* From the open file; at its end it must have nothing more to give.       *)
CopyFile ==
    /\ Reading
    /\ staged = <<>> /\ currentRemaining > 0
    /\ LET entry == entries[currentFile]
           from  == Len(entry.content) - currentRemaining
           chunk == Lesser(room, currentRemaining)
       IN  /\ disk[currentFile] >= from + chunk
           /\ buffer' = buffer \o SubSeq(entry.content, from + 1, from + chunk)
           /\ room' = room - chunk
           /\ currentRemaining' = currentRemaining - chunk
           /\ IF chunk < currentRemaining
                THEN UNCHANGED <<staged, currentFile>>
                ELSE /\ disk[currentFile] = from + chunk
                     /\ currentFile' = 0
                     /\ staged' = Zeros(currentPadding)
    /\ UNCHANGED <<entries, disk, entryIndex, currentPadding, finished, sourceFailed>>

(* The file ends early, goes on too long or cannot be opened or read.      *)
SourceThrows ==
    /\ Reading
    /\ staged = <<>>
    /\ \/ currentRemaining > 0
       \/ entryIndex <= Len(entries) /\ entries[entryIndex].content # <<>>
    /\ sourceFailed' = TRUE
    /\ UNCHANGED <<entries, disk, entryIndex, staged, currentFile, currentRemaining,
                   currentPadding, finished, room, buffer>>

(* stage_entry_header                                                      *)
StagedHeader(entry) ==
    LET name == entry.path
        size == Len(name) + 1
        longName == Block(Header(<<>>, size, "L")) \o Data(name) \o Zeros(1 + Padded(size))
    IN  (IF NeedsLongName(name) THEN longName ELSE <<>>)
        \o Block(Header(name, Len(entry.content), IF entry.directory THEN "5" ELSE "0"))

NextEntry ==
    /\ Reading
    /\ staged = <<>> /\ currentRemaining = 0
    /\ entryIndex <= Len(entries)
    /\ LET entry == entries[entryIndex]
       IN  /\ staged' = StagedHeader(entry)
           /\ IF entry.content # <<>>
                THEN /\ currentFile' = entryIndex
                     /\ currentRemaining' = Len(entry.content)
                     /\ currentPadding' = Padded(Len(entry.content))
                ELSE UNCHANGED <<currentFile, currentRemaining, currentPadding>>
    /\ entryIndex' = entryIndex + 1
    /\ UNCHANGED <<entries, disk, finished, room, buffer, sourceFailed>>

EndMarker ==
    /\ Reading
    /\ staged = <<>> /\ currentRemaining = 0
    /\ entryIndex > Len(entries)
    /\ ~finished
    /\ staged' = Zeros(2 * TarBlock)
    /\ finished' = TRUE
    /\ UNCHANGED <<entries, disk, entryIndex, currentFile, currentRemaining, currentPadding,
                   room, buffer, sourceFailed>>

(* Another program makes a file, one that was empty too, a unit longer or  *)
(* shorter than it was measured, or gives it that size again.  What it     *)
(* adds to the directory or takes from it is not looked for: the entries   *)
(* are listed once.                                                        *)
FileChanges ==
    /\ \E i \in DOMAIN entries, change \in {-1, 0, 1} :
         /\ ~entries[i].directory
         /\ Len(entries[i].content) + change >= 0
         /\ disk' = [disk EXCEPT ![i] = Len(entries[i].content) + change]
    /\ UNCHANGED <<entries, entryIndex, staged, currentFile, currentRemaining,
                   currentPadding, finished, room, buffer, sourceFailed>>

SourceStep == CopyStaged \/ CopyFile \/ SourceThrows \/ NextEntry \/ EndMarker

=============================================================================
