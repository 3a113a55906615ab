--------------------------- MODULE JsonFileProofs ---------------------------
(***************************************************************************)
(* Proofs about JsonFile for any savers and contents.  That the last save  *)
(* is on the disk follows from what each stage of a save has achieved, and *)
(* from there being only one, as long as no two have overlapped.           *)
(***************************************************************************)
EXTENDS JsonFile, TLAPS

Busy(t) == step[t] # "idle"

\* While no saves have overlapped there is at most one.
OneSaver ==
  ~overlapped => \A t, u \in Savers : Busy(t) /\ Busy(u) => t = u

\* After the copy the backup holds what was saved last.
BackupTaken ==
  ~overlapped => \A t \in Savers :
    step[t] \notin {"idle", "backUp"} => disk["bak"] = saved

\* After the write the temporary file holds what is to be saved, and only a
\* saver that writes has a file open.
TemporaryReady ==
  ~overlapped => \A t \in Savers :
    /\ step[t] = "write" => fd[t] = "tmp" /\ disk["tmp"] = "empty"
    /\ step[t] # "write" => fd[t] = Nothing
    /\ step[t] \in {"rename", "remove", "renameAgain"} => disk["tmp"] = want[t]
    /\ Busy(t) => want[t] \in Contents

\* The second rename finds no old file.
OldRemoved ==
  ~overlapped => \A t \in Savers : step[t] = "renameAgain" => disk["path"] = Nothing

IInv ==
  /\ FileTypeOK
  /\ Durable
  /\ OneSaver
  /\ BackupTaken
  /\ TemporaryReady
  /\ OldRemoved

-----------------------------------------------------------------------------
\* At the start nothing is saved, and nothing is there.
LEMMA InitIInv == FileInit => IInv
  BY FileAssumption
  DEF FileInit, IInv, FileTypeOK, Durable, OneSaver, BackupTaken, TemporaryReady, OldRemoved,
      Busy, Names, Damage

\* Every step of a save, every failure and every crash keeps the invariant.
LEMMA NextIInv == IInv /\ [FileNext]_fileVars => IInv'
  <1> SUFFICES ASSUME IInv, [FileNext]_fileVars
               PROVE  IInv'
    OBVIOUS
  <1> USE FileAssumption
      DEF IInv, FileTypeOK, Durable, OneSaver, BackupTaken, TemporaryReady, OldRemoved,
          Busy, Names, Damage, Advance, Return, Renamed
  <1>1. CASE UNCHANGED fileVars
    BY <1>1 DEF fileVars
  <1>2. ASSUME NEW t \in Savers, NEW c \in Contents, StartSave(t, c)
        PROVE  IInv'
    BY <1>2 DEF StartSave
  <1>3. ASSUME NEW t \in Savers, BackUp(t)
        PROVE  IInv'
    BY <1>3 DEF BackUp
  <1>4. ASSUME NEW t \in Savers, BackUpErr(t)
        PROVE  IInv'
    BY <1>4 DEF BackUpErr
  <1>5. ASSUME NEW t \in Savers, Create(t)
        PROVE  IInv'
    BY <1>5 DEF Create
  <1>6. ASSUME NEW t \in Savers, CreateErr(t)
        PROVE  IInv'
    BY <1>6 DEF CreateErr
  <1>7. ASSUME NEW t \in Savers, Write(t)
        PROVE  IInv'
    BY <1>7 DEF Write
  <1>8. ASSUME NEW t \in Savers, WriteErr(t)
        PROVE  IInv'
    BY <1>8 DEF WriteErr
  <1>9. ASSUME NEW t \in Savers, Rename(t)
        PROVE  IInv'
    BY <1>9 DEF Rename
  <1>10. ASSUME NEW t \in Savers, RenameErr(t)
        PROVE  IInv'
    BY <1>10 DEF RenameErr
  <1>11. ASSUME NEW t \in Savers, Remove(t)
        PROVE  IInv'
    BY <1>11 DEF Remove
  <1>12. ASSUME NEW t \in Savers, GiveUp(t)
        PROVE  IInv'
    BY <1>12 DEF GiveUp
  <1>13. CASE Crash
    BY <1>13 DEF Crash
  <1> QED
    BY <1>1, <1>2, <1>3, <1>4, <1>5, <1>6, <1>7, <1>8, <1>9, <1>10, <1>11,
       <1>12, <1>13
    DEF FileNext, Step

-----------------------------------------------------------------------------
\* The inductive invariant holds in every reachable state.
THEOREM Invariance == FileSpec => []IInv
  BY InitIInv, NextIInv, PTL DEF FileSpec

\* Every variable keeps its type: the names hold contents, damage or nothing.
THEOREM TypeCorrect == FileSpec => []FileTypeOK
  <1>1. IInv => FileTypeOK
    BY DEF IInv
  <1> QED
    BY <1>1, Invariance, PTL

\* However saves fail and the program stops, what was saved last is complete
\* in the file or, when there is none, in the backup, while no saves overlap.
THEOREM LastSaveIsKept == FileSpec => []Durable
  <1>1. IInv => Durable
    BY DEF IInv
  <1> QED
    BY <1>1, Invariance, PTL

\* Loading then finds the last save, or nothing while the backup has it.
THEOREM LoadIsRight == FileSpec => []LoadFindsSave
  <1>1. IInv => LoadFindsSave
    BY FileAssumption
    DEF IInv, FileTypeOK, Durable, LoadFindsSave, Loaded, Names, Damage
  <1> QED
    BY <1>1, Invariance, PTL
=============================================================================
