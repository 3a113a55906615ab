---------------------------- MODULE RemoteEditor ----------------------------
(***************************************************************************)
(* The remote files open in the editor of a session. A content is the      *)
(* number of the edit that made it, 0 before any edit. The window edits    *)
(* the active file only, but reading and saving go on in the background,   *)
(* and their answers find a file by its id, which a file that was closed   *)
(* and opened again has too.                                               *)
(***************************************************************************)
EXTENDS Integers

CONSTANTS
    Files,       \* the remote files of a session
    NoFile,      \* no file is active
    MaxEdits     \* edits in a behaviour

VARIABLES
    files,       \* sessionEditorState.files: of each file, its state or Closed
    activeFile,  \* activeFileIdBySession[session]
    reads,       \* files whose content was asked for
    uploads,     \* runningOperationKeys: NoUpload, OtherUpload, or the content that
                 \* the save of the path has handed over
    edits,       \* how many edits there were
    lastContent, \* history: the content last read from the backend or accepted by it
    overtaken    \* history: files changed while a save of them was under way

editorVars == <<files, activeFile, reads, uploads, edits, lastContent, overtaken>>

NoUpload == -1
OtherUpload == -2
Saving(f) == uploads[f] >= 0
Overtake(f) == overtaken' = IF Saving(f) THEN overtaken \cup {f} ELSE overtaken

Closed == [open |-> FALSE, content |-> 0, dirty |-> FALSE, saving |-> FALSE, error |-> FALSE]
Patch(f, changed) == files' = IF files[f].open THEN [files EXCEPT ![f] = changed] ELSE files

RemoteEditorInit ==
    /\ files = [f \in Files |-> Closed] /\ activeFile = NoFile /\ reads = {}
    /\ uploads = [f \in Files |-> NoUpload] /\ edits = 0
    /\ lastContent = [f \in Files |-> 0] /\ overtaken = {}

\* openRemoteFileInSessionEditor
OpenFile(f) ==
    /\ f \notin reads /\ reads' = reads \cup {f}
    /\ UNCHANGED <<files, activeFile, uploads, edits, lastContent, overtaken>>

\* openSessionEditorFile: an open file takes over the content, edited or not,
\* and keeps its dirty, saving and error marks
FileRead(f) ==
    /\ f \in reads /\ reads' = reads \ {f}
    /\ \E content \in 0..edits :
         /\ files' = [files EXCEPT ![f] = [@ EXCEPT !.open = TRUE, !.content = content]]
         /\ lastContent' = [lastContent EXCEPT ![f] = content]
    /\ activeFile' = f /\ Overtake(f)
    /\ UNCHANGED <<uploads, edits>>

ReadFailed(f) ==
    /\ f \in reads /\ reads' = reads \ {f}
    /\ UNCHANGED <<files, activeFile, uploads, edits, lastContent, overtaken>>

ActivateFile(f) ==
    /\ files[f].open /\ activeFile' = f
    /\ UNCHANGED <<files, reads, uploads, edits, lastContent, overtaken>>

\* updateSessionEditorFileContent
Edit ==
    /\ activeFile # NoFile /\ edits < MaxEdits /\ edits' = edits + 1
    /\ Patch(activeFile, [files[activeFile] EXCEPT !.content = edits', !.dirty = TRUE, !.error = FALSE])
    /\ Overtake(activeFile)
    /\ UNCHANGED <<activeFile, reads, uploads, lastContent>>

\* saveActiveFile: the content is taken and handed over now. While another
\* upload to the path runs nothing is handed over, and the file says "Saved".
Save ==
    /\ activeFile # NoFile /\ files[activeFile].dirty /\ ~files[activeFile].saving
    /\ IF uploads[activeFile] = NoUpload
       THEN /\ Patch(activeFile, [files[activeFile] EXCEPT !.saving = TRUE, !.error = FALSE])
            /\ uploads' = [uploads EXCEPT ![activeFile] = files[activeFile].content]
            /\ overtaken' = overtaken \ {activeFile}
       ELSE /\ Patch(activeFile, [files[activeFile] EXCEPT !.dirty = FALSE, !.saving = FALSE,
                                                       !.error = FALSE])
            /\ overtaken' = overtaken \cup {activeFile}
            /\ UNCHANGED uploads
    /\ UNCHANGED <<activeFile, reads, edits, lastContent>>

\* requireActiveSession finds no connected session
SaveWithoutSession ==
    /\ activeFile # NoFile /\ files[activeFile].dirty /\ ~files[activeFile].saving
    /\ Patch(activeFile, [files[activeFile] EXCEPT !.saving = FALSE, !.error = TRUE])
    /\ UNCHANGED <<activeFile, reads, uploads, edits, lastContent, overtaken>>

\* The command has returned: the backend has the content and starts the upload.
SaveAccepted(f) ==
    /\ Saving(f) /\ uploads' = [uploads EXCEPT ![f] = NoUpload]
    /\ lastContent' = [lastContent EXCEPT ![f] = uploads[f]]
    /\ Patch(f, [files[f] EXCEPT !.dirty = FALSE, !.saving = FALSE, !.error = FALSE])
    /\ UNCHANGED <<activeFile, reads, edits, overtaken>>

\* Seeded fault: a save that failed leaves the file unmarked.
SaveRefusedUnmarked(f) ==
    /\ Saving(f) /\ uploads' = [uploads EXCEPT ![f] = NoUpload]
    /\ Patch(f, [files[f] EXCEPT !.dirty = FALSE, !.saving = FALSE, !.error = TRUE])
    /\ UNCHANGED <<activeFile, reads, edits, lastContent, overtaken>>

\* The command has failed: the mark stays.
SaveRefused(f) ==
    /\ Saving(f) /\ uploads' = [uploads EXCEPT ![f] = NoUpload]
    /\ Patch(f, [files[f] EXCEPT !.saving = FALSE, !.error = TRUE])
    /\ UNCHANGED <<activeFile, reads, edits, lastContent, overtaken>>

\* An upload from the file list to the same path, on this host or another one,
\* starts or ends.
UploadElsewhere(f) ==
    /\ ~Saving(f)
    /\ uploads' = [uploads EXCEPT ![f] = IF @ = NoUpload THEN OtherUpload ELSE NoUpload]
    /\ UNCHANGED <<files, activeFile, reads, edits, lastContent, overtaken>>

\* closeSessionEditorFile: of a file with unsaved changes after a question
CloseFile(f) ==
    /\ files[f].open /\ files' = [files EXCEPT ![f] = Closed]
    /\ IF activeFile # f THEN UNCHANGED activeFile
       ELSE activeFile' \in
              LET left == {g \in Files : files'[g].open} IN IF left = {} THEN {NoFile} ELSE left
    /\ overtaken' = overtaken \ {f}
    /\ UNCHANGED <<reads, uploads, edits, lastContent>>

\* clearSessionEditorState, when the session's tab is closed: without a question
CloseAllFiles ==
    /\ activeFile # NoFile
    /\ files' = [f \in Files |-> Closed] /\ activeFile' = NoFile /\ overtaken' = {}
    /\ UNCHANGED <<reads, uploads, edits, lastContent>>

RemoteEditorNext ==
    \/ Edit \/ Save \/ SaveWithoutSession \/ CloseAllFiles
    \/ \E f \in Files : \/ OpenFile(f) \/ FileRead(f) \/ ReadFailed(f) \/ ActivateFile(f)
                        \/ SaveAccepted(f) \/ SaveRefused(f) \/ UploadElsewhere(f) \/ CloseFile(f)

RemoteEditorSpec == RemoteEditorInit /\ [][RemoteEditorNext]_editorVars

---------------------------------------------------------------------------
\* "Saved" means saved: the file that is edited is open, and an open file
\* without marks has the content that was last read from the backend or
\* accepted by it, however reads, saves, edits, closing and opening again
\* overtake each other, unless it was edited or read again while it was being
\* saved, whose answer takes the mark away all the same, or another upload to
\* its path was running when it was to be saved.
SavedMeansHandedOver ==
    /\ activeFile # NoFile => files[activeFile].open
    /\ \A f \in Files : files[f].open /\ ~files[f].dirty /\ f \notin overtaken =>
                          files[f].content = lastContent[f]
=============================================================================
