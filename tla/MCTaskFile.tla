----------------------------- MODULE MCTaskFile -----------------------------
(***************************************************************************)
(* The file of the transfers' rows at two levels: the table and its saves  *)
(* as one step each, with all the threads that persist it, and one save    *)
(* step by step, with another that overlaps it.  They share no state; a    *)
(* behaviour chooses its level at the start.                               *)
(*                                                                         *)
(* Rows: two tasks, a table of one row and a retention of nought ticks: a  *)
(* row can be crowded out, can expire and can be exactly as old as         *)
(* allowed.  Done stands for both outcomes a transfer reports.             *)
(* File: two threads and three contents: enough for the file, its backup   *)
(* and the temporary file to differ.                                       *)
(***************************************************************************)
EXTENDS SftpTaskTable, JsonFile

VARIABLE level  \* "rows" or "file"

TaskFileInit == Init /\ FileInit /\ level \in {"rows", "file"}

TaskFileNext ==
  /\ UNCHANGED level
  /\ \/ level = "rows" /\ Next /\ UNCHANGED fileVars
     \/ level = "file" /\ FileNext /\ UNCHANGED vars

TaskFileSpec == TaskFileInit /\ [][TaskFileNext]_<<level, vars, fileVars>>
=============================================================================
