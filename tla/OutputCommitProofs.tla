-------------------------- MODULE OutputCommitProofs --------------------------
(***************************************************************************)
(* For any number of runs one after the other, any number of names to try  *)
(* and any failures and kills: what stands at the output path is whole, an *)
(* output is never lost, and nothing that was there before is touched.     *)
(***************************************************************************)
EXTENDS OutputCommit, TLAPS

Writing == {"write", "close"}
Closed  == {"status", "place", "probeBackup", "save", "replace", "restore"}

(* The names a run goes on to use are names of the directory.              *)
NamesKnown ==
    \A p \in Procs :
      /\ pc[p] \in {"open", "unlink", "cleanup"} \cup Writing \cup Closed => temporary[p] \in TempPaths
      /\ pc[p] \in Writing => handle[p] \in Files
      /\ pc[p] \in {"save", "replace", "restore", "unlink"} => backup[p] \in BackupPaths

TypeInv == TypeOK /\ NamesKnown

Active(p) == pc[p] # "idle" /\ ~Ended(p)

OneAtATime == \A p, q \in Procs : Active(p) /\ Active(q) => p = q

(* No run's stream is open on a file that was there before.                *)
Untouched == content[OldFile] = Old /\ content[StaleTemp] = Stale /\ content[StaleBackup] = Stale

(* No file stands under two names.                                         *)
Apart == \A a, b \in Paths : Exists(a) /\ dir[a] = dir[b] => a = b

(* What a run counts on at each point, about its own file and names.       *)
Private(p) ==
    /\ pc[p] \in {"idle", "probe", "open"} => \A path \in Paths : dir[path] # File(p)
    /\ pc[p] \in {"idle", "probe", "open", "status", "place", "probeBackup"} \cup Writing =>
         backup[p] = None /\ ~committed[p]
    /\ pc[p] = "open" => ~Exists(temporary[p])
    /\ pc[p] \in Writing => handle[p] = File(p)
    /\ pc[p] \in Writing \cup Closed => dir[temporary[p]] = File(p) /\ ~committed[p]
    /\ pc[p] = "write" => content[File(p)] = Empty
    /\ pc[p] = "close" => content[File(p)] = Part(p)
    /\ pc[p] \in Closed \cup {"unlink"} => content[File(p)] = Whole(p)
    /\ pc[p] = "save" => ~Exists(backup[p])
    /\ pc[p] = "place" => ~Exists(Target)
    /\ pc[p] \in {"replace", "restore"} => ~Exists(Target) /\ IsOutput(backup[p])
    /\ pc[p] = "unlink" =>
         dir[Target] = File(p) /\ ~Exists(temporary[p]) /\ IsOutput(backup[p]) /\ committed[p]
    /\ pc[p] = "cleanup" =>
         IF committed[p] THEN backup[p] \in BackupPaths /\ Exists(backup[p])
                         ELSE dir[temporary[p]] \in {None, File(p)}

(* The invariant of runs in sequence.                                      *)
CommitInv ==
    /\ OneAtATime
    /\ Untouched
    /\ Apart
    /\ TargetAlwaysWhole
    /\ \A p \in Procs : Private(p)

-----------------------------------------------------------------------------
(* Names and files                                                         *)

(* The output, temporary and backup names are apart.                       *)
LEMMA NamesDiffer ==
    /\ Target \in Paths /\ Target \notin TempPaths /\ Target \notin BackupPaths
    /\ TempPaths \subseteq Paths /\ BackupPaths \subseteq Paths
    /\ TempPaths \cap BackupPaths = {}
    /\ None \notin Paths /\ None \notin Files
  BY NamesAssumption DEF Paths, Target, TempPaths, BackupPaths

(* Every run has a file of its own.                                        *)
LEMMA FilesDiffer ==
    /\ OldFile \in Files /\ StaleTemp \in Files /\ StaleBackup \in Files
    /\ OldFile # StaleTemp /\ OldFile # StaleBackup /\ StaleTemp # StaleBackup
    /\ \A p \in Procs : /\ File(p) \in Files /\ File(p) # None
                        /\ File(p) \notin {OldFile, StaleTemp, StaleBackup}
    /\ \A p, q \in Procs : File(p) = File(q) => p = q
<1>1. OldFile # StaleTemp /\ OldFile # StaleBackup /\ StaleTemp # StaleBackup
  BY DEF OldFile, StaleTemp, StaleBackup
<1>2. ASSUME NEW p \in Procs
      PROVE  File(p) \notin {OldFile, StaleTemp, StaleBackup}
  BY NamesAssumption DEF OldFile, StaleTemp, StaleBackup, File
<1>3. ASSUME NEW p \in Procs, NEW q \in Procs, File(p) = File(q)
      PROVE  p = q
  BY <1>3 DEF File
<1> QED
  BY <1>1, <1>2, <1>3, NamesAssumption DEF Files

(* A whole archive is neither the old one nor an empty file.               *)
LEMMA ContentsDiffer ==
    /\ Old # Stale /\ Old # Empty /\ Stale # Empty
    /\ \A p \in Procs : Whole(p) \notin {Old, Stale, Empty} /\ Part(p) # Empty
  BY DEF Old, Stale, Empty, Whole, Part

-----------------------------------------------------------------------------
(* Types, whether or not runs overlap                                      *)

(* At the start every variable has its type.                               *)
LEMMA InitType == Init => TypeInv
<1> SUFFICES ASSUME Init PROVE TypeInv
  OBVIOUS
<1>1. TypeOK
  BY FilesDiffer, NamesDiffer, AttemptsAssumption DEF Init, TypeOK, Positions
<1>2. NamesKnown
  BY DEF Init, NamesKnown, Writing, Closed
<1> QED
  BY <1>1, <1>2 DEF TypeInv

(* What is renamed has a name, so the directory keeps its type.            *)
LEMMA RenamedType ==
    ASSUME dir \in [Paths -> Files \cup {None}], NEW from \in Paths, NEW to \in Paths, from # to
    PROVE  /\ Renamed(from, to) \in [Paths -> Files \cup {None}]
           /\ Renamed(from, to)[to] = dir[from] /\ Renamed(from, to)[from] = None
           /\ \A path \in Paths \ {from, to} : Renamed(from, to)[path] = dir[path]
  BY DEF Renamed

Contents == {Old, Stale, Empty, Mixed} \cup {Part(p) : p \in Procs} \cup {Whole(p) : p \in Procs}

(* A step leaves a directory of names.                                     *)
LEMMA DirType ==
    ASSUME TypeInv, NEW p \in Procs, Step(p)
    PROVE  dir' \in [Paths -> Files \cup {None}]
<1> USE DEF TypeInv, TypeOK
<1>1. CASE dir' = dir
  BY <1>1
<1>2. CASE Open(p)
  <2>1. temporary[p] \in Paths
    BY <1>2, NamesDiffer DEF Open, NamesKnown
  <2> QED
    BY <1>2, <2>1, FilesDiffer DEF Open, Exists
<1>3. CASE Place(p) \/ Replace(p)
  <2>1. temporary[p] \in TempPaths /\ dir' = Renamed(temporary[p], Target)
    BY <1>3 DEF Place, Replace, NamesKnown, Closed
  <2> QED
    BY <2>1, NamesDiffer, RenamedType
<1>4. CASE Save(p)
  <2>1. backup[p] \in BackupPaths /\ dir' = Renamed(Target, backup[p])
    BY <1>4 DEF Save, NamesKnown
  <2> QED
    BY <2>1, NamesDiffer, RenamedType
<1>5. CASE Restore(p)
  <2>1. backup[p] \in BackupPaths /\ dir' \in {Renamed(backup[p], Target), dir}
    BY <1>5 DEF Restore, NamesKnown
  <2> QED
    BY <2>1, NamesDiffer, RenamedType
<1>6. CASE Unlink(p) \/ Cleanup(p)
  BY <1>6, NamesDiffer DEF Unlink, Cleanup
<1> QED
  BY <1>1, <1>2, <1>3, <1>4, <1>5, <1>6
  DEF Step, Start, ProbeFree, ProbeTaken, ProbeThrows, WriteSome, CloseStream, StatusFree, StatusTaken,
      BackupFree, BackupTaken, ReplaceThrows, Throws, fsVars

(* A step leaves files with contents.                                      *)
LEMMA ContentType ==
    ASSUME TypeInv, NEW p \in Procs, Step(p)
    PROVE  content' \in [Files -> Contents]
<1>0. content \in [Files -> Contents]
  BY DEF TypeInv, TypeOK, Contents
<1>1. CASE content' = content
  BY <1>0, <1>1
<1>2. CASE Open(p)
  <2>1. PICK file : content' = [content EXCEPT ![file] = Empty]
    BY <1>2 DEF Open
  <2> QED
    BY <1>0, <2>1 DEF Contents
<1>3. CASE WriteSome(p) \/ CloseStream(p)
  <2>1. PICK c \in {Part(p), Whole(p), Mixed} : content' = [content EXCEPT ![handle[p]] = c]
    BY <1>3 DEF WriteSome, CloseStream
  <2>2. c \in Contents
    BY DEF Contents
  <2> QED
    BY <1>0, <2>1, <2>2
<1> QED
  BY <1>1, <1>2, <1>3
  DEF Step, Start, ProbeFree, ProbeTaken, ProbeThrows, StatusFree, Place, StatusTaken,
      BackupFree, BackupTaken, Save, Replace, ReplaceThrows, Restore, Unlink, Throws, Cleanup, fsVars

(* The position, the index and the names of a run that makes a step, and   *)
(* of all others.                                                          *)
LEMMA OwnStep ==
    ASSUME TypeInv, NEW p \in Procs, Step(p) \/ Killed(p)
    PROVE  /\ \E position \in Positions \ {"idle"} : pc' = [pc EXCEPT ![p] = position]
           /\ \E i \in 0..Attempts : index' = [index EXCEPT ![p] = i]
           /\ \E path \in TempPaths \cup {None} : temporary' = [temporary EXCEPT ![p] = path]
           /\ \E path \in BackupPaths \cup {None} : backup' = [backup EXCEPT ![p] = path]
           /\ \E file \in Files \cup {None} : handle' = [handle EXCEPT ![p] = file]
           /\ \E c \in BOOLEAN : committed' = [committed EXCEPT ![p] = c]
           /\ irregular' = irregular
<1>t. /\ pc \in [Procs -> Positions] /\ index \in [Procs -> 0..Attempts]
      /\ temporary \in [Procs -> TempPaths \cup {None}] /\ backup \in [Procs -> BackupPaths \cup {None}]
      /\ handle \in [Procs -> Files \cup {None}] /\ committed \in [Procs -> BOOLEAN]
      /\ dir \in [Paths -> Files \cup {None}]
  BY DEF TypeInv, TypeOK
<1>1. \E position \in Positions \ {"idle"} : pc' = [pc EXCEPT ![p] = position]
  BY <1>t DEF Step, Start, ProbeFree, ProbeTaken, ProbeThrows, Open, WriteSome, CloseStream,
         StatusFree, Place, StatusTaken, BackupFree, BackupTaken, Save, Replace, ReplaceThrows, Restore,
         Unlink, Throws, Cleanup, Killed, Goto, Positions
<1>2. \E i \in 0..Attempts : index' = [index EXCEPT ![p] = i]
  <2>1. index' = index \/ index' = [index EXCEPT ![p] = 0]
        \/ (index[p] < Attempts /\ index' = [index EXCEPT ![p] = @ + 1])
    BY DEF Step, Start, ProbeFree, ProbeTaken, ProbeThrows, Open, WriteSome, CloseStream,
         StatusFree, Place, StatusTaken, BackupFree, BackupTaken, Save, Replace, ReplaceThrows, Restore,
         Unlink, Throws, Cleanup, Killed
  <2>2. Attempts \in Nat
    BY AttemptsAssumption
  <2> QED
    BY <1>t, <2>1, <2>2
<1>3. \E path \in TempPaths \cup {None} : temporary' = [temporary EXCEPT ![p] = path]
  <2>1. temporary' = temporary \/ (ProbeFree(p) /\ temporary' = [temporary EXCEPT ![p] = <<"tmp", index[p]>>])
    BY DEF Step, Start, ProbeFree, ProbeTaken, ProbeThrows, Open, WriteSome, CloseStream,
         StatusFree, Place, StatusTaken, BackupFree, BackupTaken, Save, Replace, ReplaceThrows, Restore,
         Unlink, Throws, Cleanup, Killed
  <2>2. ProbeFree(p) => <<"tmp", index[p]>> \in TempPaths
    BY <1>t, AttemptsAssumption DEF ProbeFree, TempPaths
  <2> QED
    BY <1>t, <2>1, <2>2
<1>4. \E path \in BackupPaths \cup {None} : backup' = [backup EXCEPT ![p] = path]
  <2>1. backup' = backup \/ (BackupFree(p) /\ backup' = [backup EXCEPT ![p] = <<"backup", index[p]>>])
    BY DEF Step, Start, ProbeFree, ProbeTaken, ProbeThrows, Open, WriteSome, CloseStream,
         StatusFree, Place, StatusTaken, BackupFree, BackupTaken, Save, Replace, ReplaceThrows, Restore,
         Unlink, Throws, Cleanup, Killed
  <2>2. BackupFree(p) => <<"backup", index[p]>> \in BackupPaths
    BY <1>t, AttemptsAssumption DEF BackupFree, BackupPaths
  <2> QED
    BY <1>t, <2>1, <2>2
<1>5. \E file \in Files \cup {None} : handle' = [handle EXCEPT ![p] = file]
  <2>1. CASE Open(p)
    <3>1. temporary[p] \in Paths
      BY <2>1, NamesDiffer DEF Open, TypeInv, NamesKnown
    <3>2. (IF Exists(temporary[p]) THEN dir[temporary[p]] ELSE File(p)) \in Files \cup {None}
      BY <1>t, <3>1, FilesDiffer
    <3> QED
      BY <2>1, <3>2 DEF Open
  <2>2. CASE handle' = handle
    BY <1>t, <2>2
  <2> QED
    BY <2>1, <2>2 DEF Step, Start, ProbeFree, ProbeTaken, ProbeThrows, WriteSome, CloseStream,
         StatusFree, Place, StatusTaken, BackupFree, BackupTaken, Save, Replace, ReplaceThrows, Restore,
         Unlink, Throws, Cleanup, Killed
<1>6. \E c \in BOOLEAN : committed' = [committed EXCEPT ![p] = c]
  <2>1. committed' = committed \/ committed' = [committed EXCEPT ![p] = TRUE]
    BY DEF Step, Start, ProbeFree, ProbeTaken, ProbeThrows, Open, WriteSome, CloseStream,
         StatusFree, Place, StatusTaken, BackupFree, BackupTaken, Save, Replace, ReplaceThrows, Restore,
         Unlink, Throws, Cleanup, Killed
  <2> QED
    BY <1>t, <2>1
<1>7. irregular' = irregular
  BY DEF Step, Start, ProbeFree, ProbeTaken, ProbeThrows, Open, WriteSome, CloseStream,
         StatusFree, Place, StatusTaken, BackupFree, BackupTaken, Save, Replace, ReplaceThrows, Restore,
         Unlink, Throws, Cleanup, Killed, fsVars
<1> QED
  BY <1>1, <1>2, <1>3, <1>4, <1>5, <1>6, <1>7

(* The names that a run has chosen when it needs them.                     *)
LEMMA NamesStep ==
    ASSUME TypeInv, NEW p \in Procs, Step(p) \/ Killed(p)
    PROVE  NamesKnown'
<1>t. /\ pc \in [Procs -> Positions] /\ index \in [Procs -> 0..Attempts]
      /\ temporary \in [Procs -> TempPaths \cup {None}] /\ backup \in [Procs -> BackupPaths \cup {None}]
      /\ handle \in [Procs -> Files \cup {None}] /\ dir \in [Paths -> Files \cup {None}]
  BY DEF TypeInv, TypeOK
<1>k. /\ pc[p] \in {"open", "unlink", "cleanup"} \cup Writing \cup Closed => temporary[p] \in TempPaths
      /\ pc[p] \in Writing => handle[p] \in Files
      /\ pc[p] \in {"save", "replace", "restore", "unlink"} => backup[p] \in BackupPaths
  BY DEF TypeInv, NamesKnown
<1>1. ASSUME NEW q \in Procs, q # p
      PROVE  pc'[q] = pc[q] /\ temporary'[q] = temporary[q] /\ handle'[q] = handle[q] /\ backup'[q] = backup[q]
  BY <1>t, <1>1, OwnStep
<1>2. /\ pc'[p] \in {"open", "unlink", "cleanup"} \cup Writing \cup Closed => temporary'[p] \in TempPaths
      /\ pc'[p] \in Writing => handle'[p] \in Files
      /\ pc'[p] \in {"save", "replace", "restore", "unlink"} => backup'[p] \in BackupPaths
  <2>1. CASE Start(p) \/ ProbeTaken(p) \/ ProbeThrows(p) \/ Cleanup(p) \/ Killed(p) \/ BackupTaken(p)
    BY <1>t, <1>k, <2>1 DEF Start, ProbeTaken, ProbeThrows, Cleanup, Killed, BackupTaken, Goto,
         Writing, Closed, Ended
  <2>2. CASE ProbeFree(p)
    <3>1. <<"tmp", index[p]>> \in TempPaths
      BY <1>t, <2>2, AttemptsAssumption DEF ProbeFree, TempPaths
    <3> QED
      BY <1>t, <2>2, <3>1 DEF ProbeFree, Goto, Writing, Closed
  <2>3. CASE Open(p)
    <3>1. temporary[p] \in Paths
      BY <1>k, <2>3, NamesDiffer DEF Open
    <3>2. (IF Exists(temporary[p]) THEN dir[temporary[p]] ELSE File(p)) \in Files
      BY <1>t, <3>1, FilesDiffer DEF Exists
    <3> QED
      BY <1>t, <1>k, <2>3, <3>2 DEF Open, Goto, Writing, Closed
  <2>4. CASE WriteSome(p) \/ CloseStream(p) \/ StatusFree(p) \/ Place(p) \/ StatusTaken(p)
    BY <1>t, <1>k, <2>4 DEF WriteSome, CloseStream, StatusFree, Place, StatusTaken, Goto, Writing, Closed
  <2>5. CASE BackupFree(p)
    <3>1. <<"backup", index[p]>> \in BackupPaths
      BY <1>t, <2>5, AttemptsAssumption DEF BackupFree, BackupPaths
    <3> QED
      BY <1>t, <1>k, <2>5, <3>1 DEF BackupFree, Goto, Writing, Closed
  <2>6. CASE Save(p) \/ Replace(p) \/ ReplaceThrows(p) \/ Restore(p)
    BY <1>t, <1>k, <2>6 DEF Save, Replace, ReplaceThrows, Restore, Goto, Writing, Closed
  <2>7. CASE Unlink(p) \/ Throws(p)
    BY <1>t, <1>k, <2>7 DEF Unlink, Throws, Goto, Writing, Closed
  <2> QED
    BY <2>1, <2>2, <2>3, <2>4, <2>5, <2>6, <2>7 DEF Step
<1> QED
  BY <1>k, <1>1, <1>2 DEF TypeInv, NamesKnown

(* Every step keeps the types and the names a run knows.                   *)
LEMMA TypeStep == TypeInv /\ [Next]_vars => TypeInv'
<1> SUFFICES ASSUME TypeInv, [Next]_vars PROVE TypeInv'
  OBVIOUS
<1>1. ASSUME NEW p \in Procs, Step(p) \/ Killed(p)
      PROVE  TypeInv'
  <2>1. dir' \in [Paths -> Files \cup {None}] /\ content' \in [Files -> Contents]
    BY <1>1, DirType, ContentType DEF Killed, fsVars, TypeInv, TypeOK, Contents
  <2>2. /\ irregular' \in BOOLEAN
        /\ pc' \in [Procs -> Positions] /\ index' \in [Procs -> 0..Attempts]
        /\ temporary' \in [Procs -> TempPaths \cup {None}]
        /\ backup' \in [Procs -> BackupPaths \cup {None}]
        /\ handle' \in [Procs -> Files \cup {None}]
        /\ committed' \in [Procs -> BOOLEAN]
    BY <1>1, OwnStep DEF TypeInv, TypeOK
  <2> QED
    BY <1>1, <2>1, <2>2, NamesStep DEF TypeInv, TypeOK, Contents
<1>2. CASE UNCHANGED vars
  BY <1>2 DEF vars, TypeInv, TypeOK, NamesKnown
<1> QED
  BY <1>1, <1>2 DEF Next, Stopped

(* Every entry, name and position keeps its type, also when runs overlap.  *)
THEOREM TypeCorrect == Spec => []TypeOK
<1>1. TypeInv => TypeOK
  BY DEF TypeInv
<1> QED
  BY <1>1, InitType, TypeStep, PTL DEF Spec

(* So they hold in every reachable state.                                  *)
LEMMA TypeInvariance == Spec => []TypeInv
  BY InitType, TypeStep, PTL DEF Spec

-----------------------------------------------------------------------------
(* Runs one after the other                                                *)

(* At the start no run has touched anything.                               *)
LEMMA InitCommit == Init => CommitInv
<1> SUFFICES ASSUME Init PROVE CommitInv
  OBVIOUS
<1>d. /\ dir \in [Paths -> Files \cup {None}]
      /\ \A path \in Paths : Exists(path) =>
           \/ path = Target /\ dir[path] = OldFile
           \/ path = <<"tmp", 0>> /\ dir[path] = StaleTemp
           \/ path = <<"backup", 0>> /\ dir[path] = StaleBackup
  BY NamesDiffer DEF Init, Exists
<1>1. OneAtATime
  BY DEF Init, OneAtATime, Active
<1>2. Untouched
  BY FilesDiffer DEF Init, Untouched
<1>3. Apart
  BY <1>d, FilesDiffer DEF Apart, Exists
<1>4. TargetAlwaysWhole
  BY <1>2, NamesDiffer, FilesDiffer DEF Init, TargetAlwaysWhole, IsOutput, Untouched, Exists
<1>5. ASSUME NEW p \in Procs
      PROVE  Private(p)
  <2>1. \A path \in Paths : dir[path] # File(p)
    BY <1>d, FilesDiffer DEF Exists
  <2>2. pc[p] = "idle" /\ backup[p] = None /\ ~committed[p]
    BY DEF Init
  <2> QED
    BY <2>1, <2>2 DEF Private, Writing, Closed
<1> QED
  BY <1>1, <1>2, <1>3, <1>4, <1>5 DEF CommitInv

(* While a run makes a step, every other has not begun or has ended.       *)
LEMMA OthersRest ==
    ASSUME TypeInv, OneAtATime, ~Concurrent, NEW p \in Procs, Step(p) \/ Killed(p),
           NEW q \in Procs, q # p
    PROVE  /\ pc[q] \in {"idle", "returned", "threw", "killed"}
           /\ pc'[q] = pc[q] /\ backup'[q] = backup[q] /\ committed'[q] = committed[q]
<1>0. pc'[q] = pc[q] /\ backup'[q] = backup[q] /\ committed'[q] = committed[q]
  BY OwnStep DEF TypeInv, TypeOK
<1>1. CASE Start(p)
  BY <1>0, <1>1 DEF Start, Ended
<1>2. CASE pc[p] # "idle" /\ ~Ended(p)
  BY <1>0, <1>2 DEF OneAtATime, Active, Ended
<1>3. Start(p) \/ (pc[p] # "idle" /\ ~Ended(p))
  BY DEF Step, ProbeFree, ProbeTaken, ProbeThrows, Open, WriteSome, CloseStream,
         StatusFree, Place, StatusTaken, BackupFree, BackupTaken, Save, Replace, ReplaceThrows, Restore,
         Unlink, Throws, Cleanup, Killed, Ended
<1> QED
  BY <1>1, <1>2, <1>3

(* A step of the only active run leaves it the only one.                   *)
LEMMA OneStep ==
    ASSUME TypeInv, OneAtATime, ~Concurrent, NEW p \in Procs, Step(p) \/ Killed(p)
    PROVE  OneAtATime'
  BY OthersRest DEF OneAtATime, Active, Ended

(* A step changes no file but the run's own, and puts no other file where  *)
(* there was none.                                                         *)
LEMMA OnlyOwnFile ==
    ASSUME TypeInv, NEW p \in Procs, Private(p), Step(p) \/ Killed(p)
    PROVE  /\ \A path \in Paths : \/ dir'[path] \in {None, File(p)}
                                  \/ \E a \in Paths : dir'[path] = dir[a]
           /\ \A file \in Files \ {File(p)} : content'[file] = content[file]
<1>t. dir \in [Paths -> Files \cup {None}] /\ content \in [Files -> Contents] /\ handle \in [Procs -> Files \cup {None}]
  BY DEF TypeInv, TypeOK, Contents
<1>1. CASE Open(p)
  <2>1. temporary[p] \in Paths /\ ~Exists(temporary[p])
    BY <1>1, NamesDiffer DEF Open, TypeInv, NamesKnown, Private
  <2>2. dir' = [dir EXCEPT ![temporary[p]] = File(p)] /\ content' = [content EXCEPT ![File(p)] = Empty]
    BY <1>1, <2>1 DEF Open
  <2> QED
    BY <1>t, <2>1, <2>2
<1>2. CASE WriteSome(p) \/ CloseStream(p)
  <2>1. handle[p] = File(p) /\ UNCHANGED dir
    BY <1>2 DEF WriteSome, CloseStream, Private, Writing
  <2>2. \E c : content' = [content EXCEPT ![File(p)] = c]
    BY <1>2, <2>1 DEF WriteSome, CloseStream
  <2> QED
    BY <1>t, <2>1, <2>2
<1>3. CASE Place(p) \/ Save(p) \/ Replace(p) \/ Restore(p)
  <2>1. UNCHANGED content
    BY <1>3 DEF Place, Save, Replace, Restore
  <2>2. \/ UNCHANGED dir
        \/ \E from, to \in Paths : from # to /\ dir' = Renamed(from, to)
    <3>1. Place(p) \/ Replace(p) => temporary[p] \in Paths /\ temporary[p] # Target
      BY NamesDiffer DEF Place, Replace, TypeInv, NamesKnown, Closed
    <3>2. Save(p) \/ Restore(p) => backup[p] \in Paths /\ backup[p] # Target
      BY NamesDiffer DEF Save, Restore, TypeInv, NamesKnown, Closed
    <3> QED
      BY <1>3, <3>1, <3>2, NamesDiffer DEF Place, Save, Replace, Restore
  <2> QED
    BY <1>t, <2>1, <2>2, RenamedType
<1>4. CASE Unlink(p) \/ Cleanup(p)
  <2>1. UNCHANGED content /\ \A path \in Paths : dir'[path] \in {None, dir[path]}
    BY <1>t, <1>4 DEF Unlink, Cleanup
  <2> QED
    BY <2>1
<1>5. CASE UNCHANGED <<dir, content>>
  BY <1>5
<1> QED
  BY <1>1, <1>2, <1>3, <1>4, <1>5
  DEF Step, Start, ProbeFree, ProbeTaken, ProbeThrows, StatusFree, StatusTaken,
      BackupFree, BackupTaken, ReplaceThrows, Throws, Killed, fsVars

(* A step of one run leaves the files of the others alone.                 *)
LEMMA OthersKept ==
    ASSUME TypeInv, CommitInv, ~Concurrent, NEW p \in Procs, Step(p) \/ Killed(p),
           NEW q \in Procs, q # p
    PROVE  Private(q)'
<1>1. /\ pc[q] \in {"idle", "returned", "threw", "killed"}
      /\ pc'[q] = pc[q] /\ backup'[q] = backup[q] /\ committed'[q] = committed[q]
  BY OthersRest DEF CommitInv
<1>2. pc[q] = "idle" => \A path \in Paths : dir'[path] # File(q)
  <2>1. pc[q] = "idle" => \A path \in Paths : dir[path] # File(q)
    BY DEF CommitInv, Private
  <2>2. File(q) # None /\ File(q) # File(p)
    BY FilesDiffer
  <2>3. Private(p)
    BY DEF CommitInv
  <2> QED
    BY <2>1, <2>2, <2>3, OnlyOwnFile
<1>3. pc[q] = "idle" => backup[q] = None /\ ~committed[q]
  BY DEF CommitInv, Private
<1> QED
  BY <1>1, <1>2, <1>3 DEF Private, Writing, Closed

-----------------------------------------------------------------------------
(* What each step does for the run that makes it                           *)

OwnKept(p) == Apart' /\ TargetAlwaysWhole' /\ Private(p)'

(* A rename gives no file a second name.                                   *)
LEMMA RenameKeepsApart ==
    ASSUME dir \in [Paths -> Files \cup {None}], Apart,
           NEW from \in Paths, NEW to \in Paths, from # to, dir' = Renamed(from, to)
    PROVE  Apart'
  BY RenamedType DEF Apart, Exists

(* Steps that look at the directory only.                                  *)
LEMMA LookingKeeps ==
    ASSUME TypeInv, CommitInv, NEW p \in Procs,
           \/ Start(p) \/ ProbeFree(p) \/ ProbeTaken(p) \/ ProbeThrows(p) \/ StatusFree(p) \/ StatusTaken(p)
           \/ BackupFree(p) \/ BackupTaken(p) \/ ReplaceThrows(p) \/ Throws(p) \/ Killed(p)
    PROVE  OwnKept(p)
<1>t. /\ pc \in [Procs -> Positions] /\ temporary \in [Procs -> TempPaths \cup {None}]
      /\ backup \in [Procs -> BackupPaths \cup {None}] /\ dir \in [Paths -> Files \cup {None}]
      /\ index \in [Procs -> 0..Attempts]
  BY DEF TypeInv, TypeOK
<1>i. Apart /\ TargetAlwaysWhole /\ Private(p)
  BY DEF CommitInv
<1>1. UNCHANGED <<dir, content, handle, committed>>
  BY DEF Start, ProbeFree, ProbeTaken, ProbeThrows, StatusFree, StatusTaken, BackupFree, BackupTaken,
         ReplaceThrows, Throws, Killed, fsVars
<1>2. Apart' /\ TargetAlwaysWhole'
  BY <1>i, <1>1 DEF Apart, TargetAlwaysWhole, IsOutput, Exists
<1>3. Private(p)'
  <2>1. CASE Start(p) \/ ProbeTaken(p) \/ ProbeThrows(p) \/ Killed(p) \/ BackupTaken(p)
    BY <1>t, <1>i, <1>1, <2>1 DEF Start, ProbeTaken, ProbeThrows, Killed, BackupTaken, Goto, Private,
       Writing, Closed, Exists, Ended
  <2>2. CASE ProbeFree(p)
    BY <1>t, <1>i, <1>1, <2>2 DEF ProbeFree, Goto, Private, Writing, Closed, Exists
  <2>3. CASE StatusFree(p) \/ StatusTaken(p)
    BY <1>t, <1>i, <1>1, <2>3 DEF StatusFree, StatusTaken, Goto, Private, Writing, Closed, Exists
  <2>4. CASE BackupFree(p)
    BY <1>t, <1>i, <1>1, <2>4 DEF BackupFree, Goto, Private, Writing, Closed, Exists
  <2>5. CASE ReplaceThrows(p)
    BY <1>t, <1>i, <1>1, <2>5 DEF ReplaceThrows, Goto, Private, Writing, Closed, Exists, IsOutput
  <2>6. CASE Throws(p)
    BY <1>t, <1>i, <1>1, <2>6 DEF Throws, Goto, Private, Writing, Closed, Exists
  <2> QED
    BY <2>1, <2>2, <2>3, <2>4, <2>5, <2>6
<1> QED
  BY <1>2, <1>3 DEF OwnKept

(* Opening the temporary file under a free name.                           *)
LEMMA OpenKeeps ==
    ASSUME TypeInv, CommitInv, NEW p \in Procs, Open(p)
    PROVE  OwnKept(p)
<1>t. /\ pc \in [Procs -> Positions] /\ dir \in [Paths -> Files \cup {None}]
      /\ handle \in [Procs -> Files \cup {None}] /\ content \in [Files -> Contents]
  BY DEF TypeInv, TypeOK, Contents
<1>1. temporary[p] \in TempPaths /\ ~Exists(temporary[p]) /\ \A path \in Paths : dir[path] # File(p)
  BY DEF Open, TypeInv, NamesKnown, CommitInv, Private
<1>2. /\ dir' = [dir EXCEPT ![temporary[p]] = File(p)] /\ content' = [content EXCEPT ![File(p)] = Empty]
      /\ handle'[p] = File(p) /\ pc'[p] = "write"
      /\ UNCHANGED <<temporary, backup, committed>>
  BY <1>t, <1>1 DEF Open, Goto
<1>3. Apart'
  BY <1>t, <1>1, <1>2, FilesDiffer, NamesDiffer DEF CommitInv, Apart, Exists
<1>4. TargetAlwaysWhole'
  BY <1>t, <1>1, <1>2, NamesDiffer DEF CommitInv, TargetAlwaysWhole, IsOutput, Exists
<1>5. Private(p)'
  <2>1. dir'[temporary'[p]] = File(p) /\ content'[File(p)] = Empty
    BY <1>t, <1>1, <1>2, NamesDiffer, FilesDiffer
  <2>2. backup[p] = None /\ ~committed[p]
    BY DEF Open, CommitInv, Private
  <2> QED
    BY <1>2, <2>1, <2>2 DEF Private, Writing, Closed
<1> QED
  BY <1>3, <1>4, <1>5 DEF OwnKept

(* The run's own file is not at the output path while it is written.       *)
LEMMA WritingKeeps ==
    ASSUME TypeInv, CommitInv, NEW p \in Procs, WriteSome(p) \/ CloseStream(p)
    PROVE  OwnKept(p)
<1>t. /\ pc \in [Procs -> Positions] /\ dir \in [Paths -> Files \cup {None}]
      /\ content \in [Files -> Contents]
  BY DEF TypeInv, TypeOK, Contents
<1>1. /\ pc[p] \in Writing /\ temporary[p] \in TempPaths /\ handle[p] = File(p)
      /\ dir[temporary[p]] = File(p) /\ backup[p] = None /\ ~committed[p]
  BY DEF WriteSome, CloseStream, TypeInv, NamesKnown, CommitInv, Private, Writing
<1>2. UNCHANGED <<dir, temporary, backup, handle, committed>>
  BY DEF WriteSome, CloseStream
<1>3. \/ pc'[p] = "close" /\ content' = [content EXCEPT ![File(p)] = Part(p)]
      \/ pc'[p] = "status" /\ content' = [content EXCEPT ![File(p)] = Whole(p)]
  <2>1. CASE WriteSome(p)
    BY <1>t, <1>1, <2>1, FilesDiffer DEF WriteSome, Goto, CommitInv, Private
  <2>2. CASE CloseStream(p)
    BY <1>t, <1>1, <2>2, FilesDiffer DEF CloseStream, Goto, CommitInv, Private
  <2> QED
    BY <2>1, <2>2
<1>4. Apart'
  BY <1>2 DEF CommitInv, Apart, Exists
<1>5. TargetAlwaysWhole'
  <2>1. dir[Target] # File(p)
    BY <1>1, FilesDiffer, NamesDiffer DEF CommitInv, Apart, Exists
  <2> QED
    BY <1>t, <1>2, <1>3, <2>1, NamesDiffer DEF CommitInv, TargetAlwaysWhole, IsOutput, Exists
<1>6. Private(p)'
  BY <1>t, <1>1, <1>2, <1>3, FilesDiffer DEF Private, Writing, Closed
<1> QED
  BY <1>4, <1>5, <1>6 DEF OwnKept

(* The temporary file, complete, moves to the free output path.            *)
LEMMA ReplaceKeeps ==
    ASSUME TypeInv, CommitInv, NEW p \in Procs, Place(p) \/ Replace(p)
    PROVE  OwnKept(p) /\ dir'[Target] = File(p) /\ content'[File(p)] = Whole(p) /\ ~Exists(temporary[p])'
<1>t. /\ pc \in [Procs -> Positions] /\ dir \in [Paths -> Files \cup {None}]
      /\ content \in [Files -> Contents] /\ committed \in [Procs -> BOOLEAN]
  BY DEF TypeInv, TypeOK, Contents
<1>1. /\ pc[p] \in Closed /\ temporary[p] \in TempPaths
      /\ dir[temporary[p]] = File(p) /\ content[File(p)] = Whole(p)
  BY DEF Place, Replace, TypeInv, NamesKnown, CommitInv, Private, Closed
<1>2. dir' = Renamed(temporary[p], Target) /\ committed'[p] = TRUE
      /\ UNCHANGED <<content, temporary, backup, handle>>
  BY <1>t DEF Place, Replace
<1>3. Apart'
  BY <1>t, <1>1, <1>2, NamesDiffer, RenameKeepsApart DEF CommitInv
<1>4. dir'[Target] = File(p) /\ dir'[temporary[p]] = None
      /\ \A path \in Paths \ {Target, temporary[p]} : dir'[path] = dir[path]
  BY <1>t, <1>1, <1>2, NamesDiffer, RenamedType
<1>5. TargetAlwaysWhole'
  BY <1>1, <1>2, <1>4 DEF TargetAlwaysWhole, IsOutput
<1>6. Private(p)'
  <2>1. CASE Place(p)
    BY <1>t, <2>1 DEF Place, Goto, Private, Writing, Closed
  <2>2. CASE Replace(p)
    <3>1. pc'[p] = "unlink" /\ backup[p] \in BackupPaths /\ IsOutput(backup[p])
      BY <1>t, <2>2 DEF Replace, Goto, TypeInv, NamesKnown, CommitInv, Private
    <3>2. IsOutput(backup[p])'
      BY <1>1, <1>2, <1>4, <3>1, NamesDiffer DEF IsOutput, Exists
    <3> QED
      BY <1>1, <1>2, <1>4, <3>1, <3>2 DEF Private, Writing, Closed, Exists
  <2> QED
    BY <2>1, <2>2
<1> QED
  BY <1>1, <1>2, <1>3, <1>4, <1>5, <1>6 DEF OwnKept, Exists

(* The old output moves to a free backup path.                             *)
LEMMA SaveKeeps ==
    ASSUME TypeInv, CommitInv, NEW p \in Procs, Save(p)
    PROVE  OwnKept(p) /\ IsOutput(backup[p])'
<1>t. /\ pc \in [Procs -> Positions] /\ dir \in [Paths -> Files \cup {None}]
  BY DEF TypeInv, TypeOK
<1>1. /\ backup[p] \in BackupPaths /\ temporary[p] \in TempPaths /\ IsOutput(Target)
      /\ dir[temporary[p]] = File(p) /\ content[File(p)] = Whole(p) /\ ~committed[p]
  BY DEF Save, TypeInv, NamesKnown, CommitInv, Private, Closed, TargetAlwaysWhole
<1>2. /\ dir' = Renamed(Target, backup[p]) /\ pc'[p] = "replace"
      /\ UNCHANGED <<content, temporary, backup, handle, committed>>
  BY <1>t DEF Save, Goto
<1>3. Apart'
  BY <1>t, <1>1, <1>2, NamesDiffer, RenameKeepsApart DEF CommitInv
<1>4. dir'[backup[p]] = dir[Target] /\ dir'[Target] = None /\ dir'[temporary[p]] = dir[temporary[p]]
  BY <1>t, <1>1, <1>2, NamesDiffer, RenamedType
<1>5. TargetAlwaysWhole' /\ IsOutput(backup[p])'
  BY <1>1, <1>2, <1>4 DEF TargetAlwaysWhole, IsOutput, Exists
<1>6. Private(p)'
  BY <1>1, <1>2, <1>4, <1>5 DEF Private, Writing, Closed, Exists
<1> QED
  BY <1>3, <1>5, <1>6 DEF OwnKept

(* The old output moves back, or stays at its backup.                      *)
LEMMA RestoreKeeps ==
    ASSUME TypeInv, CommitInv, NEW p \in Procs, Restore(p)
    PROVE  OwnKept(p) /\ (IsOutput(Target)' \/ IsOutput(backup[p])')
<1>t. /\ pc \in [Procs -> Positions] /\ dir \in [Paths -> Files \cup {None}]
  BY DEF TypeInv, TypeOK
<1>1. /\ backup[p] \in BackupPaths /\ temporary[p] \in TempPaths /\ IsOutput(backup[p])
      /\ ~Exists(Target) /\ dir[temporary[p]] = File(p) /\ ~committed[p]
  BY DEF Restore, TypeInv, NamesKnown, CommitInv, Private, Closed
<1>2. /\ dir' \in {Renamed(backup[p], Target), dir} /\ pc'[p] = "cleanup"
      /\ UNCHANGED <<content, temporary, backup, handle, committed>>
  BY <1>t DEF Restore, Goto
<1>3. CASE dir' = dir
  <2>1. Apart' /\ TargetAlwaysWhole' /\ IsOutput(backup[p])'
    BY <1>1, <1>2, <1>3 DEF CommitInv, Apart, TargetAlwaysWhole, IsOutput, Exists
  <2>2. Private(p)'
    BY <1>1, <1>2, <1>3 DEF Private, Writing, Closed
  <2> QED
    BY <2>1, <2>2 DEF OwnKept
<1>4. CASE dir' = Renamed(backup[p], Target)
  <2>1. Apart'
    BY <1>t, <1>1, <1>4, NamesDiffer, RenameKeepsApart DEF CommitInv
  <2>2. dir'[Target] = dir[backup[p]] /\ dir'[temporary[p]] = dir[temporary[p]]
    BY <1>t, <1>1, <1>4, NamesDiffer, RenamedType
  <2>3. TargetAlwaysWhole' /\ IsOutput(Target)'
    BY <1>1, <1>2, <2>2 DEF TargetAlwaysWhole, IsOutput, Exists
  <2>4. Private(p)'
    BY <1>1, <1>2, <2>2 DEF Private, Writing, Closed
  <2> QED
    BY <2>1, <2>3, <2>4 DEF OwnKept
<1> QED
  BY <1>2, <1>3, <1>4

(* Only the run's own temporary file and its backup are removed.           *)
LEMMA RemoveKeeps ==
    ASSUME TypeInv, CommitInv, NEW p \in Procs, Unlink(p) \/ Cleanup(p)
    PROVE  OwnKept(p)
<1>t. /\ pc \in [Procs -> Positions] /\ dir \in [Paths -> Files \cup {None}]
  BY DEF TypeInv, TypeOK
<1>1. /\ pc[p] = "unlink" => backup[p] \in BackupPaths
      /\ temporary[p] \in TempPaths
  BY DEF Unlink, Cleanup, TypeInv, NamesKnown
<1>2. UNCHANGED <<content, temporary, backup, handle, committed>>
  BY DEF Unlink, Cleanup
<1>3. /\ \A path \in Paths : dir'[path] \in {None, dir[path]}
      /\ dir'[Target] = dir[Target]
  BY <1>t, <1>1, NamesDiffer DEF Unlink, Cleanup
<1>4. Apart' /\ TargetAlwaysWhole'
  BY <1>2, <1>3 DEF CommitInv, Apart, TargetAlwaysWhole, IsOutput, Exists
<1>5. Private(p)'
  <2>1. CASE pc'[p] \in {"returned", "threw"}
    BY <2>1 DEF Private, Writing, Closed
  <2>2. CASE Unlink(p) /\ UNCHANGED dir /\ pc'[p] = "cleanup"
    BY <1>1, <1>2, <2>2 DEF Unlink, CommitInv, Private, Writing, Closed, IsOutput, Exists
  <2> QED
    BY <1>t, <2>1, <2>2 DEF Unlink, Cleanup, Goto
<1> QED
  BY <1>4, <1>5 DEF OwnKept

(* Any step of a run, or its end by a kill.                                *)
LEMMA OwnStepKeeps ==
    ASSUME TypeInv, CommitInv, NEW p \in Procs, Step(p) \/ Killed(p)
    PROVE  OwnKept(p)
  BY LookingKeeps, OpenKeeps, WritingKeeps, ReplaceKeeps, SaveKeeps, RestoreKeeps, RemoveKeeps DEF Step

(* Every step keeps the invariant while runs do not overlap.               *)
LEMMA CommitStep == ~Concurrent /\ TypeInv /\ CommitInv /\ [Next]_vars => CommitInv'
<1> SUFFICES ASSUME ~Concurrent, TypeInv, CommitInv, [Next]_vars PROVE CommitInv'
  OBVIOUS
<1>1. ASSUME NEW p \in Procs, Step(p) \/ Killed(p)
      PROVE  CommitInv'
  <2>1. Apart' /\ TargetAlwaysWhole' /\ Private(p)'
    BY <1>1, OwnStepKeeps DEF OwnKept
  <2>2. \A q \in Procs : q # p => Private(q)'
    BY <1>1, OthersKept
  <2>3. OneAtATime'
    BY <1>1, OneStep DEF CommitInv
  <2>4. Untouched'
    BY <1>1, OnlyOwnFile, FilesDiffer DEF CommitInv, Untouched
  <2> QED
    BY <2>1, <2>2, <2>3, <2>4 DEF CommitInv
<1>2. CASE UNCHANGED vars
  BY <1>2 DEF vars, CommitInv, OneAtATime, Active, Ended, Untouched, Apart, Exists,
              TargetAlwaysWhole, IsOutput, Private
<1> QED
  BY <1>1, <1>2 DEF Next, Stopped

-----------------------------------------------------------------------------
(* The theorems                                                            *)

(* The invariant of runs in sequence.                                      *)
THEOREM CommitInvariance == ASSUME ~Concurrent PROVE Spec => [](TypeInv /\ CommitInv)
<1>1. Init => TypeInv /\ CommitInv
  BY InitType, InitCommit
<1>2. TypeInv /\ CommitInv /\ [Next]_vars => (TypeInv /\ CommitInv)'
  BY TypeStep, CommitStep
<1> QED
  BY <1>1, <1>2, PTL DEF Spec

(* commit_output: whenever anyone looks, the output path holds the old     *)
(* output or a complete new one, for any number of runs in sequence.       *)
THEOREM TargetIsAlwaysWhole == ASSUME ~Concurrent PROVE Spec => []TargetAlwaysWhole
<1>1. CommitInv => TargetAlwaysWhole
  BY DEF CommitInv
<1> QED
  BY <1>1, CommitInvariance, PTL

Guarded == {Target} \cup BackupPaths

(* A name that holds the output loses it only to another such name.        *)
LEMMA SurvivesStep ==
    ASSUME TypeInv, CommitInv, NEW p \in Procs, Step(p) \/ Killed(p),
           NEW path \in Guarded, IsOutput(path)
    PROVE  \E other \in Guarded : IsOutput(other)'
<1>t. path \in Paths /\ path \notin TempPaths /\ dir[path] \in Files /\ Target \in Guarded
  BY NamesDiffer DEF Guarded, TypeInv, TypeOK, IsOutput, Exists
<1>1. CASE Open(p) \/ WriteSome(p) \/ CloseStream(p)
  <2>1. dir[path] # File(p) /\ dir'[path] = dir[path]
    <3>1. CASE Open(p)
      BY <1>t, <3>1 DEF Open, TypeInv, TypeOK, NamesKnown, CommitInv, Private
    <3>2. CASE WriteSome(p) \/ CloseStream(p)
      <4>1. temporary[p] \in TempPaths /\ dir[temporary[p]] = File(p) /\ UNCHANGED dir
        BY <3>2 DEF WriteSome, CloseStream, TypeInv, NamesKnown, CommitInv, Private, Writing
      <4> QED
        BY <1>t, <4>1, NamesDiffer DEF CommitInv, Apart, Exists, IsOutput
    <3> QED
      BY <1>1, <3>1, <3>2
  <2>2. content'[dir[path]] = content[dir[path]]
    BY <1>t, <1>1, <2>1, OnlyOwnFile DEF CommitInv, Step
  <2> QED
    BY <2>1, <2>2 DEF IsOutput, Exists
<1>2. CASE Place(p) \/ Replace(p) \/ Unlink(p)
  <2>1. dir'[Target] = File(p) /\ content'[File(p)] = Whole(p)
    <3>1. CASE Place(p) \/ Replace(p)
      BY <3>1, ReplaceKeeps
    <3>2. CASE Unlink(p)
      <4>1. backup[p] \in BackupPaths /\ dir[Target] = File(p) /\ content[File(p)] = Whole(p)
        BY <3>2 DEF Unlink, TypeInv, NamesKnown, CommitInv, Private
      <4> QED
        BY <3>2, <4>1, NamesDiffer DEF Unlink, TypeInv, TypeOK
    <3> QED
      BY <1>2, <3>1, <3>2
  <2> QED
    BY <1>t, <2>1, FilesDiffer DEF IsOutput, Exists
<1>3. CASE Save(p) \/ Restore(p)
  <2>1. backup[p] \in Guarded
    BY <1>3 DEF Save, Restore, TypeInv, NamesKnown, Guarded
  <2> QED
    BY <1>t, <1>3, <2>1, SaveKeeps, RestoreKeeps DEF Save, Restore, IsOutput, Exists
<1>4. CASE Cleanup(p)
  <2>1. temporary[p] \in TempPaths
    BY <1>4 DEF Cleanup, TypeInv, NamesKnown
  <2>2. dir'[path] = dir[path] /\ UNCHANGED content
    BY <1>t, <1>4, <2>1 DEF Cleanup, TypeInv, TypeOK
  <2> QED
    BY <2>2 DEF IsOutput, Exists
<1>5. CASE UNCHANGED <<dir, content>>
  BY <1>5 DEF IsOutput, Exists
<1> QED
  BY <1>1, <1>2, <1>3, <1>4, <1>5
  DEF Step, Start, ProbeFree, ProbeTaken, ProbeThrows, StatusFree, StatusTaken, BackupFree, BackupTaken,
      ReplaceThrows, Throws, Killed, fsVars

(* commit_output: once there was an output, one is always there, at the    *)
(* output path or at a backup, whatever fails and wherever a run is killed.*)
THEOREM OutputAlwaysSurvives == ASSUME ~Concurrent PROVE Spec => OutputSurvives
<1>1. TypeInv /\ CommitInv /\ [Next]_vars =>
        [(\E path \in {Target} \cup BackupPaths : IsOutput(path)) =>
         (\E path \in {Target} \cup BackupPaths : IsOutput(path))']_vars
  <2> SUFFICES ASSUME TypeInv, CommitInv, Next, NEW path \in Guarded, IsOutput(path)
               PROVE  \E other \in Guarded : IsOutput(other)'
    BY DEF Guarded
  <2>1. CASE Stopped
    BY <2>1 DEF Stopped, vars, IsOutput, Exists
  <2> QED
    BY <2>1, SurvivesStep DEF Next
<1> QED
  BY <1>1, CommitInvariance, PTL DEF Spec, OutputSurvives

(* What a run reports is what it has left in the directory.                *)
LEMMA HonestStep ==
    ASSUME TypeInv, CommitInv, NEW q \in Procs, Step(q) \/ Killed(q), NEW p \in Procs
    PROVE  /\ pc'[p] = "returned" /\ pc[p] # "returned" =>
                /\ dir'[Target] # None /\ content'[dir'[Target]] = Whole(p)
                /\ dir'[temporary[p]] = None
                /\ backup[p] # None => dir'[backup[p]] = None
           /\ pc'[p] = "threw" /\ pc[p] # "threw" /\ committed[p] => dir'[backup[p]] # None
<1>t. /\ pc \in [Procs -> Positions] /\ dir \in [Paths -> Files \cup {None}]
      /\ temporary \in [Procs -> TempPaths \cup {None}]
  BY DEF TypeInv, TypeOK
<1>1. CASE p # q
  BY <1>1, <1>t, OwnStep
<1>2. ASSUME p = q, pc'[p] = "returned", pc[p] # "returned"
      PROVE  /\ dir'[Target] # None /\ content'[dir'[Target]] = Whole(p)
             /\ dir'[temporary[p]] = None
             /\ backup[p] # None => dir'[backup[p]] = None
  <2>1. CASE Place(p)
    <3>1. dir'[Target] = File(p) /\ content'[File(p)] = Whole(p) /\ dir'[temporary[p]] = None
      BY <2>1, ReplaceKeeps DEF Place, Exists
    <3>2. backup[p] = None
      BY <2>1 DEF Place, CommitInv, Private
    <3> QED
      BY <3>1, <3>2, FilesDiffer
  <2>2. CASE Unlink(p)
    <3>1. /\ backup[p] \in BackupPaths /\ temporary[p] \in TempPaths
          /\ dir[Target] = File(p) /\ content[File(p)] = Whole(p) /\ dir[temporary[p]] = None
      BY <2>2 DEF Unlink, TypeInv, NamesKnown, CommitInv, Private, Exists
    <3>2. dir' = [dir EXCEPT ![backup[p]] = None] /\ UNCHANGED content
      BY <1>2, <1>t, <2>2 DEF Unlink, Goto
    <3> QED
      BY <1>t, <3>1, <3>2, NamesDiffer, FilesDiffer
  <2> QED
    BY <1>2, <1>t, <2>1, <2>2
    DEF Step, Start, ProbeFree, ProbeTaken, ProbeThrows, Open, WriteSome, CloseStream, StatusFree,
        StatusTaken, BackupFree, BackupTaken, Save, Replace, ReplaceThrows, Restore, Throws, Cleanup,
        Killed, Goto
<1>3. ASSUME p = q, pc'[p] = "threw", pc[p] # "threw", committed[p]
      PROVE  dir'[backup[p]] # None
  <2>1. CASE ProbeThrows(p)
    BY <1>3, <2>1 DEF ProbeThrows, CommitInv, Private
  <2>2. CASE Cleanup(p)
    BY <1>3, <2>2 DEF Cleanup, CommitInv, Private, Exists
  <2> QED
    BY <1>3, <1>t, <2>1, <2>2
    DEF Step, Start, ProbeFree, ProbeTaken, Open, WriteSome, CloseStream, StatusFree, Place, StatusTaken,
        BackupFree, BackupTaken, Save, Replace, ReplaceThrows, Restore, Unlink, Throws, Killed, Goto
<1> QED
  BY <1>1, <1>2, <1>3

(* commit_output: a call that returns has its own complete output in place *)
(* and has removed all it made; a call that fails with its output in place *)
(* has left the backup it could not remove.                                *)
THEOREM OutcomeIsAlwaysHonest == ASSUME ~Concurrent PROVE Spec => OutcomeIsHonest
<1>1. TypeInv /\ CommitInv /\ [Next]_vars =>
        [\A p \in Procs :
           /\ pc'[p] = "returned" /\ pc[p] # "returned" =>
                /\ dir'[Target] # None /\ content'[dir'[Target]] = Whole(p)
                /\ dir'[temporary[p]] = None
                /\ backup[p] # None => dir'[backup[p]] = None
           /\ pc'[p] = "threw" /\ pc[p] # "threw" /\ committed[p] =>
                dir'[backup[p]] # None]_vars
  <2> SUFFICES ASSUME TypeInv, CommitInv, Next, NEW p \in Procs, ~UNCHANGED vars
               PROVE  /\ pc'[p] = "returned" /\ pc[p] # "returned" =>
                           /\ dir'[Target] # None /\ content'[dir'[Target]] = Whole(p)
                           /\ dir'[temporary[p]] = None
                           /\ backup[p] # None => dir'[backup[p]] = None
                      /\ pc'[p] = "threw" /\ pc[p] # "threw" /\ committed[p] =>
                           dir'[backup[p]] # None
    OBVIOUS
  <2>1. PICK q \in Procs : Step(q) \/ Killed(q)
    BY DEF Next, Stopped
  <2> QED
    BY <2>1, HonestStep
<1> QED
  BY <1>1, CommitInvariance, PTL DEF Spec, OutcomeIsHonest

(* No step touches what an earlier run left behind.                        *)
LEMMA StaleStep ==
    ASSUME TypeInv, CommitInv, NEW p \in Procs, Step(p) \/ Killed(p),
           NEW path \in Paths, dir[path] \in {StaleTemp, StaleBackup}
    PROVE  dir'[path] = dir[path] /\ content'[dir[path]] = Stale
<1>t. dir \in [Paths -> Files \cup {None}]
  BY DEF TypeInv, TypeOK
<1>1. content'[dir[path]] = Stale
  BY FilesDiffer, OnlyOwnFile DEF CommitInv, Untouched
<1>2. /\ dir[path] \notin {None, File(p)} /\ ~IsOutput(path) /\ path # Target
  <2>1. dir[path] \notin {None, File(p)}
    BY FilesDiffer, NamesDiffer
  <2>2. ~IsOutput(path)
    BY ContentsDiffer DEF CommitInv, Untouched, IsOutput
  <2> QED
    BY <2>1, <2>2 DEF CommitInv, TargetAlwaysWhole, Exists
<1>3. dir'[path] = dir[path]
  <2>1. CASE Open(p)
    <3>1. temporary[p] # path
      BY <1>2, <2>1 DEF Open, CommitInv, Private, Exists
    <3> QED
      BY <1>t, <2>1, <3>1 DEF Open
  <2>2. CASE Place(p) \/ Replace(p)
    <3>1. temporary[p] \in TempPaths /\ temporary[p] # path /\ dir' = Renamed(temporary[p], Target)
      BY <1>2, <2>2 DEF Place, Replace, TypeInv, NamesKnown, CommitInv, Private, Closed
    <3> QED
      BY <1>t, <1>2, <3>1, NamesDiffer, RenamedType
  <2>3. CASE Save(p)
    <3>1. backup[p] \in BackupPaths /\ backup[p] # path /\ dir' = Renamed(Target, backup[p])
      BY <1>2, <2>3 DEF Save, TypeInv, NamesKnown, CommitInv, Private, Exists
    <3> QED
      BY <1>t, <1>2, <3>1, NamesDiffer, RenamedType
  <2>4. CASE Restore(p)
    <3>1. backup[p] \in BackupPaths /\ backup[p] # path /\ dir' \in {Renamed(backup[p], Target), dir}
      BY <1>2, <2>4 DEF Restore, TypeInv, NamesKnown, CommitInv, Private
    <3> QED
      BY <1>t, <1>2, <3>1, NamesDiffer, RenamedType
  <2>5. CASE Unlink(p)
    <3>1. backup[p] # path
      BY <1>2, <2>5 DEF Unlink, CommitInv, Private
    <3> QED
      BY <1>t, <2>5, <3>1 DEF Unlink
  <2>6. CASE Cleanup(p)
    <3>1. ~committed[p] => temporary[p] # path
      BY <1>2, <2>6 DEF Cleanup, CommitInv, Private
    <3> QED
      BY <1>t, <2>6, <3>1 DEF Cleanup
  <2>7. CASE UNCHANGED dir
    BY <2>7
  <2> QED
    BY <2>1, <2>2, <2>3, <2>4, <2>5, <2>6, <2>7
    DEF Step, Start, ProbeFree, ProbeTaken, ProbeThrows, WriteSome, CloseStream, StatusFree, StatusTaken,
        BackupFree, BackupTaken, ReplaceThrows, Throws, Killed, fsVars
<1> QED
  BY <1>1, <1>3

(* unique_sibling_path: files that were there under the sibling names are  *)
(* neither removed, replaced nor written to.                               *)
THEOREM StaleSiblingsAlwaysKept == ASSUME ~Concurrent PROVE Spec => StaleSiblingsKept
<1>1. TypeInv /\ CommitInv /\ [Next]_vars =>
        [\A path \in Paths : dir[path] \in {StaleTemp, StaleBackup} =>
           dir'[path] = dir[path] /\ content'[dir[path]] = Stale]_vars
  <2> SUFFICES ASSUME TypeInv, CommitInv, Next, ~UNCHANGED vars,
                      NEW path \in Paths, dir[path] \in {StaleTemp, StaleBackup}
               PROVE  dir'[path] = dir[path] /\ content'[dir[path]] = Stale
    OBVIOUS
  <2>1. PICK p \in Procs : Step(p) \/ Killed(p)
    BY DEF Next, Stopped
  <2> QED
    BY <2>1, StaleStep
<1> QED
  BY <1>1, CommitInvariance, PTL DEF Spec, StaleSiblingsKept

=============================================================================
