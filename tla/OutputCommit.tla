---------------------------- MODULE OutputCommit -----------------------------
(***************************************************************************)
(* How a file output of compress_file or decompress_file comes to stand at *)
(* its path: unique_sibling_path, TemporaryFile and commit_output of       *)
(* codec.cpp on a POSIX file system.  Every file-system call may fail and  *)
(* a process may be killed between any two calls; a later process finds    *)
(* what it left.                                                           *)
(*                                                                         *)
(* "dir" maps paths to files and "content" files to what is in them; an    *)
(* open stream keeps writing to its file wherever the file is renamed to.  *)
(* Each process creates at most one file, which bears its name.            *)
(***************************************************************************)
EXTENDS Naturals, FiniteSets

CONSTANTS
    Procs,       \* runs of mzip with the same output path
    Attempts,    \* unique_path_attempts
    Concurrent,  \* whether a run may start before the one before it has ended
    None

ASSUME AttemptsAssumption == Attempts \in Nat \ {0}
ASSUME ConcurrentAssumption == Concurrent \in BOOLEAN

VARIABLES
    dir,         \* the directory of the output: a file for each path, or None
    content,     \* what is in each file
    irregular,   \* the output path holds something that is not a regular file
    pc,          \* where each process is
    index,       \* the index unique_sibling_path tries next
    temporary,   \* path of the TemporaryFile
    backup,      \* backup_path
    handle,      \* the file the output stream writes to
    committed    \* committed_

fsVars   == <<dir, content, irregular>>
vars     == <<dir, content, irregular, pc, index, temporary, backup, handle, committed>>

Target == <<"target", 0>>
TempPaths == {<<"tmp", i>> : i \in 0..(Attempts - 1)}
BackupPaths == {<<"backup", i>> : i \in 0..(Attempts - 1)}
Paths == {Target} \cup TempPaths \cup BackupPaths

(* Files there were before the first process: the old output, and what a   *)
(* killed run or the user left under the first sibling names.              *)
OldFile == <<"file", "old">>
StaleTemp == <<"file", "tmp">>
StaleBackup == <<"file", "backup">>
File(p) == <<"file", p>>
Files == {OldFile, StaleTemp, StaleBackup} \cup {File(p) : p \in Procs}

ASSUME NamesAssumption == None \notin Paths \cup Files /\ Procs \cap {"old", "tmp", "backup"} = {}

Old      == [state |-> "old", by |-> None]
Stale    == [state |-> "stale", by |-> None]
Empty    == [state |-> "empty", by |-> None]
Mixed    == [state |-> "mixed", by |-> None]
Part(p)  == [state |-> "part", by |-> p]
Whole(p) == [state |-> "whole", by |-> p]

Positions == {"idle", "probe", "open", "write", "close", "status", "place", "probeBackup",
              "save", "replace", "restore", "unlink", "cleanup", "returned", "threw", "killed"}

Ended(p) == pc[p] \in {"returned", "threw", "killed"}

Goto(p, position) == pc' = [pc EXCEPT ![p] = position]

-----------------------------------------------------------------------------

Init ==
    /\ dir \in [Paths -> Files \cup {None}]
    /\ dir[Target] \in {None, OldFile}
    /\ dir[<<"tmp", 0>>] \in {None, StaleTemp}
    /\ dir[<<"backup", 0>>] \in {None, StaleBackup}
    /\ \A path \in Paths \ {Target, <<"tmp", 0>>, <<"backup", 0>>} : dir[path] = None
    /\ content = [file \in Files |->
                    IF file = OldFile THEN Old
                    ELSE IF file \in {StaleTemp, StaleBackup} THEN Stale ELSE Empty]
    /\ irregular \in BOOLEAN
    /\ irregular => dir[Target] = OldFile
    /\ pc = [p \in Procs |-> "idle"]
    /\ index = [p \in Procs |-> 0]
    /\ temporary = [p \in Procs |-> None]
    /\ backup = [p \in Procs |-> None]
    /\ handle = [p \in Procs |-> None]
    /\ committed = [p \in Procs |-> FALSE]

(* std::filesystem::exists                                                 *)
Exists(path) == dir[path] # None

(* std::filesystem::rename: whatever is at the new path is replaced.       *)
Renamed(from, to) == [dir EXCEPT ![to] = dir[from], ![from] = None]

Start(p) ==
    /\ pc[p] = "idle"
    /\ Concurrent \/ \A q \in Procs : pc[q] = "idle" \/ Ended(q)
    /\ Goto(p, "probe")
    /\ UNCHANGED <<fsVars, index, temporary, backup, handle, committed>>

ProbeFreeFaulty(p) ==
    /\ pc[p] = "probe"
    /\ index[p] < Attempts
    /\ temporary' = [temporary EXCEPT ![p] = <<"tmp", index[p]>>]
    /\ index' = [index EXCEPT ![p] = 0]
    /\ Goto(p, "open")
    /\ UNCHANGED <<fsVars, backup, handle, committed>>

WrongSuffixFaulty(p) ==
    /\ pc[p] = "probe"
    /\ index[p] < Attempts
    /\ ~Exists(<<"backup", index[p]>>)
    /\ temporary' = [temporary EXCEPT ![p] = <<"backup", index[p]>>]
    /\ index' = [index EXCEPT ![p] = 0]
    /\ Goto(p, "open")
    /\ UNCHANGED <<fsVars, backup, handle, committed>>

(* unique_sibling_path: the first free name, as far as one can tell.       *)
ProbeFree(p) ==
    /\ pc[p] = "probe"
    /\ index[p] < Attempts
    /\ ~Exists(<<"tmp", index[p]>>)
    /\ temporary' = [temporary EXCEPT ![p] = <<"tmp", index[p]>>]
    /\ index' = [index EXCEPT ![p] = 0]
    /\ Goto(p, "open")
    /\ UNCHANGED <<fsVars, backup, handle, committed>>

ProbeTaken(p) ==
    /\ pc[p] = "probe"
    /\ index[p] < Attempts
    /\ Exists(<<"tmp", index[p]>>)
    /\ index' = [index EXCEPT ![p] = @ + 1]
    /\ UNCHANGED <<fsVars, pc, temporary, backup, handle, committed>>

(* exists() fails, or every name is taken: there is no TemporaryFile yet.  *)
ProbeThrows(p) ==
    /\ pc[p] = "probe"
    /\ Goto(p, "threw")
    /\ UNCHANGED <<fsVars, index, temporary, backup, handle, committed>>

(* An ofstream with trunc: it creates the file or empties the one there.   *)
Open(p) ==
    /\ pc[p] = "open"
    /\ LET path == temporary[p]
           file == IF Exists(path) THEN dir[path] ELSE File(p)
       IN  /\ dir' = [dir EXCEPT ![path] = file]
           /\ content' = [content EXCEPT ![file] = Empty]
           /\ handle' = [handle EXCEPT ![p] = file]
    /\ Goto(p, "write")
    /\ UNCHANGED <<irregular, index, temporary, backup, committed>>

(* Bytes land in the file of the stream; on top of another process's bytes *)
(* or behind a truncation they make something that is neither's output.    *)
WriteSome(p) ==
    /\ pc[p] = "write"
    /\ content' = [content EXCEPT ![handle[p]] = IF @ = Empty THEN Part(p) ELSE Mixed]
    /\ Goto(p, "close")
    /\ UNCHANGED <<dir, irregular, index, temporary, backup, handle, committed>>

CloseStreamFaulty(p) ==
    /\ pc[p] = "close"
    /\ Goto(p, "status")
    /\ UNCHANGED <<fsVars, index, temporary, backup, handle, committed>>

CloseStream(p) ==
    /\ pc[p] = "close"
    /\ content' = [content EXCEPT ![handle[p]] = IF @ = Part(p) THEN Whole(p) ELSE Mixed]
    /\ Goto(p, "status")
    /\ UNCHANGED <<dir, irregular, index, temporary, backup, handle, committed>>

(* commit_output onto a path that is free when symlink_status looks.       *)
StatusFree(p) ==
    /\ pc[p] = "status"
    /\ ~Exists(Target)
    /\ Goto(p, "place")
    /\ UNCHANGED <<fsVars, index, temporary, backup, handle, committed>>

Place(p) ==
    /\ pc[p] = "place"
    /\ Exists(temporary[p])
    /\ dir' = Renamed(temporary[p], Target)
    /\ committed' = [committed EXCEPT ![p] = TRUE]
    /\ Goto(p, "returned")
    /\ UNCHANGED <<content, irregular, index, temporary, backup, handle>>

StatusTaken(p) ==
    /\ pc[p] = "status"
    /\ Exists(Target)
    /\ ~irregular
    /\ Goto(p, "probeBackup")
    /\ UNCHANGED <<fsVars, index, temporary, backup, handle, committed>>

BackupFree(p) ==
    /\ pc[p] = "probeBackup"
    /\ index[p] < Attempts
    /\ ~Exists(<<"backup", index[p]>>)
    /\ backup' = [backup EXCEPT ![p] = <<"backup", index[p]>>]
    /\ Goto(p, "save")
    /\ UNCHANGED <<fsVars, index, temporary, handle, committed>>

BackupTaken(p) ==
    /\ pc[p] = "probeBackup"
    /\ index[p] < Attempts
    /\ Exists(<<"backup", index[p]>>)
    /\ index' = [index EXCEPT ![p] = @ + 1]
    /\ UNCHANGED <<fsVars, pc, temporary, backup, handle, committed>>

SaveFaulty(p) ==
    /\ pc[p] = "save"
    /\ Exists(Target)
    /\ dir' = [dir EXCEPT ![Target] = None]
    /\ Goto(p, "replace")
    /\ UNCHANGED <<content, irregular, index, temporary, backup, handle, committed>>

(* The old output moves aside.                                             *)
Save(p) ==
    /\ pc[p] = "save"
    /\ Exists(Target)
    /\ dir' = Renamed(Target, backup[p])
    /\ Goto(p, "replace")
    /\ UNCHANGED <<content, irregular, index, temporary, backup, handle, committed>>

Replace(p) ==
    /\ pc[p] = "replace"
    /\ Exists(temporary[p])
    /\ dir' = Renamed(temporary[p], Target)
    /\ committed' = [committed EXCEPT ![p] = TRUE]
    /\ Goto(p, "unlink")
    /\ UNCHANGED <<content, irregular, index, temporary, backup, handle>>

ReplaceThrows(p) ==
    /\ pc[p] = "replace"
    /\ Goto(p, "restore")
    /\ UNCHANGED <<fsVars, index, temporary, backup, handle, committed>>

(* The old output goes back; if that fails too it stays at the backup.     *)
Restore(p) ==
    /\ pc[p] = "restore"
    /\ \/ Exists(backup[p]) /\ dir' = Renamed(backup[p], Target)
       \/ UNCHANGED dir
    /\ Goto(p, "cleanup")
    /\ UNCHANGED <<content, irregular, index, temporary, backup, handle, committed>>

UnlinkFaulty(p) ==
    /\ pc[p] = "unlink"
    /\ \/ dir' = [dir EXCEPT ![backup[p]] = None]
       \/ UNCHANGED dir
    /\ Goto(p, "returned")
    /\ UNCHANGED <<content, irregular, index, temporary, backup, handle, committed>>

(* Removing the backup: a failure is reported, though the output is there. *)
Unlink(p) ==
    /\ pc[p] = "unlink"
    /\ \/ dir' = [dir EXCEPT ![backup[p]] = None] /\ Goto(p, "returned")
       \/ UNCHANGED dir /\ Goto(p, "cleanup")
    /\ UNCHANGED <<content, irregular, index, temporary, backup, handle, committed>>

(* A write, close, status, probe or first rename fails, or the coding      *)
(* itself did: the exception unwinds through ~TemporaryFile.               *)
Throws(p) ==
    /\ pc[p] \in {"open", "write", "close", "status", "place", "probeBackup", "save"}
    /\ Goto(p, "cleanup")
    /\ UNCHANGED <<fsVars, index, temporary, backup, handle, committed>>

(* ~TemporaryFile: remove() may fail, and its error is not looked at.      *)
Cleanup(p) ==
    /\ pc[p] = "cleanup"
    /\ \/ ~committed[p] /\ dir' = [dir EXCEPT ![temporary[p]] = None]
       \/ UNCHANGED dir
    /\ Goto(p, "threw")
    /\ UNCHANGED <<content, irregular, index, temporary, backup, handle, committed>>

Killed(p) ==
    /\ pc[p] # "idle" /\ ~Ended(p)
    /\ Goto(p, "killed")
    /\ UNCHANGED <<fsVars, index, temporary, backup, handle, committed>>

Step(p) ==
    \/ Start(p) \/ ProbeFree(p) \/ ProbeTaken(p) \/ ProbeThrows(p)
    \/ Open(p) \/ WriteSome(p) \/ CloseStream(p)
    \/ StatusFree(p) \/ Place(p) \/ StatusTaken(p) \/ BackupFree(p) \/ BackupTaken(p)
    \/ Save(p) \/ Replace(p) \/ ReplaceThrows(p) \/ Restore(p) \/ Unlink(p)
    \/ Throws(p) \/ Cleanup(p)

Stopped == (\A p \in Procs : Ended(p)) /\ UNCHANGED vars

Next == (\E p \in Procs : Step(p) \/ Killed(p)) \/ Stopped

Spec == Init /\ [][Next]_vars

-----------------------------------------------------------------------------
(* Properties                                                              *)

(* Every directory entry is a file or none, and each run's temporary and   *)
(* backup name is one unique_sibling_path can return.                      *)
TypeOK ==
    /\ dir \in [Paths -> Files \cup {None}]
    /\ content \in [Files -> {Old, Stale, Empty, Mixed} \cup {Part(p) : p \in Procs}
                              \cup {Whole(p) : p \in Procs}]
    /\ irregular \in BOOLEAN
    /\ pc \in [Procs -> Positions]
    /\ index \in [Procs -> 0..Attempts]
    /\ temporary \in [Procs -> TempPaths \cup {None}]
    /\ backup \in [Procs -> BackupPaths \cup {None}]
    /\ handle \in [Procs -> Files \cup {None}]
    /\ committed \in [Procs -> BOOLEAN]

IsOutput(path) ==
    /\ Exists(path)
    /\ content[dir[path]] \in {Old} \cup {Whole(p) : p \in Procs}

(* What stands at the output path is the old output or a complete new one, *)
(* whenever anyone looks and whenever the process dies: the temporary file *)
(* is "renamed only after the whole operation succeeds" (README).          *)
TargetAlwaysWhole == Exists(Target) => IsOutput(Target)

(* Between taking the old output away and putting the new one in place,    *)
(* and after any failure or kill in between, one of the two is still       *)
(* there, at the output path or at its backup.                             *)
OutputSurvives ==
    [][(\E path \in {Target} \cup BackupPaths : IsOutput(path)) =>
       (\E path \in {Target} \cup BackupPaths : IsOutput(path))']_vars

(* A call that returns has its own, complete output at the path and has    *)
(* left no file of its own beside it; one that fails although its output   *)
(* is in place has left the backup it could not remove.                    *)
OutcomeIsHonest ==
    [][\A p \in Procs :
         /\ pc'[p] = "returned" /\ pc[p] # "returned" =>
              /\ dir'[Target] # None /\ content'[dir'[Target]] = Whole(p)
              /\ dir'[temporary[p]] = None
              /\ backup[p] # None => dir'[backup[p]] = None
         /\ pc'[p] = "threw" /\ pc[p] # "threw" /\ committed[p] =>
              dir'[backup[p]] # None]_vars

(* Files that were there under the sibling names, the only copy of an old  *)
(* output among them perhaps, are neither removed, replaced nor written.   *)
StaleSiblingsKept ==
    [][\A path \in Paths : dir[path] \in {StaleTemp, StaleBackup} =>
         dir'[path] = dir[path] /\ content'[dir[path]] = Stale]_vars

=============================================================================
