------------------------------ MODULE JsonFile ------------------------------
(***************************************************************************)
(* How the backend keeps a JSON file: a copy of the old file, a temporary  *)
(* file, and a rename, with a removal in between when the rename fails.    *)
(*   src-tauri/src/infrastructure/file_store.rs                            *)
(*                                                                         *)
(* The tree of sessions is saved by the main thread alone, the table of    *)
(* SFTP tasks by the main thread and by every transfer.  All savers of a   *)
(* file use the same three names.  Any step may fail, and the program may  *)
(* stop between two of them.                                               *)
(***************************************************************************)
CONSTANTS
  Savers,     \* threads that save this file
  Contents,   \* what they save; each is written with one call
  Nothing     \* no file, or nothing

Names == {"path", "bak", "tmp"}
Damage == {"empty", "torn"}

ASSUME FileAssumption ==
  /\ Nothing \notin Contents \cup Names \cup Damage
  /\ Contents \cap Damage = {}

VARIABLES
  disk,       \* what each of the three names holds
  fd,         \* the name that the file a saver writes has now, or Nothing
  step,       \* where each saver is
  want,       \* what it saves
  saved,      \* history: what the last rename that succeeded was to save
  overlapped  \* history: two saves have overlapped

fileVars == <<disk, fd, step, want, saved, overlapped>>

-----------------------------------------------------------------------------
Advance(t, from, to) ==
  /\ step[t] = from
  /\ step' = [step EXCEPT ![t] = to]

\* The save returns.
Return(t, from) ==
  /\ Advance(t, from, "idle")
  /\ want' = [want EXCEPT ![t] = Nothing]

\* What the open files are called when the names have changed: name n is
\* given to the file that was called m, or to none.
Renamed(n, m) ==
  [t \in Savers |-> IF m # Nothing /\ fd[t] = m THEN n
                    ELSE IF fd[t] = n THEN Nothing ELSE fd[t]]

FileInit ==
  /\ disk = [n \in Names |-> Nothing]
  /\ fd = [t \in Savers |-> Nothing]
  /\ step = [t \in Savers |-> "idle"]
  /\ want = [t \in Savers |-> Nothing]
  /\ saved = Nothing /\ overlapped = FALSE

-----------------------------------------------------------------------------
(***************************************************************************)
(* write_atomic_with_backup                                                *)
(***************************************************************************)
StartSave(t, c) ==
  /\ Advance(t, "idle", "backUp")
  /\ want' = [want EXCEPT ![t] = c]
  /\ overlapped' = (overlapped \/ \E u \in Savers : step[u] # "idle")
  /\ UNCHANGED <<disk, fd, saved>>

\* Seeded fault: the copy is made the first time only.
BackUpOnce(t) ==
  /\ Advance(t, "backUp", "create")
  /\ disk' = IF disk["path"] = Nothing \/ disk["bak"] # Nothing THEN disk
             ELSE [disk EXCEPT !["bak"] = disk["path"]]
  /\ UNCHANGED <<fd, want, saved, overlapped>>

\* The file, if there is one, is copied ...
BackUp(t) ==
  /\ Advance(t, "backUp", "create")
  /\ disk' = IF disk["path"] = Nothing THEN disk
             ELSE [disk EXCEPT !["bak"] = disk["path"]]
  /\ UNCHANGED <<fd, want, saved, overlapped>>

\* ... or that fails, perhaps half-way.
BackUpErr(t) ==
  /\ Return(t, "backUp")
  /\ disk["path"] # Nothing
  /\ disk' \in {disk, [disk EXCEPT !["bak"] = "torn"]}
  /\ UNCHANGED <<fd, saved, overlapped>>

\* Seeded fault: a temporary file that is left over is used as it is.
CreateReusing(t) ==
  /\ Advance(t, "create", IF disk["tmp"] = Nothing THEN "write" ELSE "rename")
  /\ disk' = IF disk["tmp"] = Nothing THEN [disk EXCEPT !["tmp"] = "empty"] ELSE disk
  /\ fd' = IF disk["tmp"] = Nothing THEN [fd EXCEPT ![t] = "tmp"] ELSE fd
  /\ UNCHANGED <<want, saved, overlapped>>

\* File::create, which empties the temporary file if there is one.
Create(t) ==
  /\ Advance(t, "create", "write")
  /\ disk' = [disk EXCEPT !["tmp"] = "empty"]
  /\ fd' = [fd EXCEPT ![t] = "tmp"]
  /\ UNCHANGED <<want, saved, overlapped>>

CreateErr(t) ==
  /\ Return(t, "create")
  /\ UNCHANGED <<disk, fd, saved, overlapped>>

\* write_all and sync_all, to the file that was opened, whatever it is called
\* now.  Over what another saver has written the end of the longer text stays.
Write(t) ==
  /\ Advance(t, "write", "rename")
  /\ \/ fd[t] = Nothing /\ UNCHANGED disk
     \/ fd[t] # Nothing /\ disk' = [disk EXCEPT ![fd[t]] = want[t]]
     \/ /\ fd[t] # Nothing /\ disk[fd[t]] # "empty"
        /\ disk' = [disk EXCEPT ![fd[t]] = "torn"]
  /\ fd' = [fd EXCEPT ![t] = Nothing]
  /\ UNCHANGED <<want, saved, overlapped>>

WriteErr(t) ==
  /\ Return(t, "write")
  /\ disk' \in {disk, IF fd[t] = Nothing THEN disk ELSE [disk EXCEPT ![fd[t]] = "torn"]}
  /\ fd' = [fd EXCEPT ![t] = Nothing]
  /\ UNCHANGED <<saved, overlapped>>

(***************************************************************************)
(* replace_with_temp_file                                                  *)
(***************************************************************************)

\* The first or the second rename succeeds.
Rename(t) ==
  /\ Return(t, step[t])
  /\ step[t] \in {"rename", "renameAgain"}
  /\ disk["tmp"] # Nothing
  /\ disk' = [disk EXCEPT !["path"] = disk["tmp"], !["tmp"] = Nothing]
  /\ fd' = Renamed("path", "tmp")
  /\ saved' = want[t]
  /\ UNCHANGED overlapped

\* The first fails: if there is an old file it is to be removed.
RenameErr(t) ==
  /\ Advance(t, "rename", "remove")
  /\ disk["path"] # Nothing
  /\ UNCHANGED <<disk, fd, want, saved, overlapped>>

Remove(t) ==
  /\ Advance(t, "remove", "renameAgain")
  /\ disk["path"] # Nothing
  /\ disk' = [disk EXCEPT !["path"] = Nothing]
  /\ fd' = Renamed("path", Nothing)
  /\ UNCHANGED <<want, saved, overlapped>>

\* No old file, or no way to remove it, or a second failure: the temporary
\* file is removed and the error returned.
GiveUp(t) ==
  /\ Return(t, step[t])
  /\ \/ step[t] = "rename" /\ disk["path"] = Nothing
     \/ step[t] \in {"remove", "renameAgain"}
  /\ disk' = [disk EXCEPT !["tmp"] = Nothing]
  /\ fd' = Renamed("tmp", Nothing)
  /\ UNCHANGED <<saved, overlapped>>

-----------------------------------------------------------------------------
\* The program stops; a copy or a write that is under way stays half done.
Crash ==
  /\ disk' \in {disk} \cup
       {[disk EXCEPT !["bak"] = "torn"] : t \in {u \in Savers : step[u] = "backUp" /\ disk["path"] # Nothing}}
       \cup {[disk EXCEPT ![fd[t]] = "torn"] : t \in {u \in Savers : fd[u] # Nothing}}
  /\ fd' = [t \in Savers |-> Nothing]
  /\ step' = [t \in Savers |-> "idle"]
  /\ want' = [t \in Savers |-> Nothing]
  /\ UNCHANGED <<saved, overlapped>>

-----------------------------------------------------------------------------
Step(t) ==
  \/ BackUp(t) \/ BackUpErr(t) \/ Create(t) \/ CreateErr(t) \/ Write(t) \/ WriteErr(t)
  \/ Rename(t) \/ RenameErr(t) \/ Remove(t) \/ GiveUp(t)

FileNext ==
  \/ \E t \in Savers : Step(t) \/ \E c \in Contents : StartSave(t, c)
  \/ Crash

FileSpec == FileInit /\ [][FileNext]_fileVars

-----------------------------------------------------------------------------
(***************************************************************************)
(* load_json_with_backup, which load_session_tree and load_sftp_tasks call *)
(* only when the file exists: its content, that of the backup when the     *)
(* file cannot be parsed, Nothing when there is no file, or an error.      *)
(***************************************************************************)
Loaded ==
  IF disk["path"] \in Contents \cup {Nothing} THEN disk["path"]
  ELSE IF disk["bak"] \in Contents THEN disk["bak"]
  ELSE "error"

FileTypeOK ==
  /\ disk \in [Names -> Contents \cup Damage \cup {Nothing}]
  /\ fd \in [Savers -> Names \cup {Nothing}]
  /\ step \in [Savers -> {"idle", "backUp", "create", "write", "rename", "remove", "renameAgain"}]
  /\ want \in [Savers -> Contents \cup {Nothing}]
  /\ saved \in Contents \cup {Nothing}
  /\ overlapped \in BOOLEAN

(***************************************************************************)
(* As long as no two saves overlap, what was saved last is on the disk,    *)
(* complete, through any errors and crashes: in the file, or in the backup *)
(* when there is no file.  An error or a crash never leaves a damaged file *)
(* and never the content of a save that has failed.                        *)
(***************************************************************************)
Durable ==
  ~overlapped => IF disk["path"] = Nothing THEN disk["bak"] = saved
                                        ELSE disk["path"] = saved

(***************************************************************************)
(* What a load at the next start finds, then: the last save, or nothing    *)
(* although the backup has it, because the backup is only looked at when   *)
(* there is a file.  That takes a rename that failed with the old file in  *)
(* its way, and then a second failure or a crash.                          *)
(***************************************************************************)
LoadFindsSave ==
  ~overlapped => Loaded = saved \/ (Loaded = Nothing /\ disk["bak"] = saved)
=============================================================================
