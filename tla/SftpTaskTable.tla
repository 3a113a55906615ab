---------------------------- MODULE SftpTaskTable ----------------------------
(***************************************************************************)
(* The table of SFTP task rows and its file.                               *)
(*   src-tauri/src/services/sftp_service/tasks.rs                          *)
(*   src-tauri/src/services/task_service.rs                                *)
(*                                                                         *)
(* Every transition of a row is followed by a persist in three more steps: *)
(* a pruned snapshot, the replacement of the table by it, and a save.  The *)
(* mutex of the table is free between them, so the main thread and the     *)
(* transfers overtake each other.  What a save does to the disk is that of *)
(* JsonFile, reduced to the table that the next start would load.          *)
(***************************************************************************)
EXTENDS Integers, FiniteSets

CONSTANTS
  Tasks,      \* task ids, numbers in the order of the strings
  Main,       \* the main thread; the thread of a transfer has its task's name
  MaxRows,    \* MAX_PERSISTED_SFTP_TASKS
  Retention,  \* COMPLETED_SFTP_TASK_RETENTION_MS, in ticks
  Reports,    \* what transfers report: running, done or failed
  MaxNow,     \* bound: ticks of the clock
  None

Threads == Tasks \cup {Main}
Outcome == {"done", "failed", "cancelled"}
Row     == [status : Outcome \cup {"running"}, at : 0 .. MaxNow]
Table   == [Tasks -> Row \cup {None}]
Empty   == [t \in Tasks |-> None]

ASSUME ConstantsAssumption ==
  /\ Tasks \subseteq Int /\ IsFiniteSet(Tasks)
  /\ Main \notin Tasks
  /\ Reports \subseteq {"running", "done", "failed"}
  /\ MaxRows \in Nat /\ Retention \in Nat /\ MaxNow \in Nat
  /\ None \notin Tasks \cup Row

VARIABLES
  mem,       \* BackendState::sftp_tasks
  file,      \* the table the next start would load
  now,       \* current_time_ms
  pc,        \* what has become of each transfer
  stage,     \* where each thread is in persist_sftp_tasks
  snap,      \* the snapshot a thread persists
  starting,  \* the transfer the main thread registers, or None
  crowd,     \* history: threads whose persist has met another
  dirty      \* history: the last persist was in a crowd, or was not saved

vars == <<mem, file, now, pc, stage, snap, starting, crowd, dirty>>

-----------------------------------------------------------------------------
Listed(table) == {t \in Tasks : table[t] # None}

Expired(row) == row.status # "running" /\ now - row.at > Retention

\* sort_sftp_tasks: the newest first, and of two as new the greater id.
Ahead(table, u, t) ==
  table[u].at > table[t].at \/ (table[u].at = table[t].at /\ u > t)

\* Seeded fault: a row that is exactly as old as allowed is dropped.
PrunedEarly(table) ==
  LET kept == {t \in Listed(table) :
                 table[t].status = "running" \/ now - table[t].at < Retention}
  IN [t \in Tasks |->
        IF t \in kept /\ Cardinality({u \in kept : Ahead(table, u, t)}) < MaxRows
        THEN table[t] ELSE None]

\* prune_sftp_tasks
Pruned(table) ==
  LET kept == {t \in Listed(table) : ~Expired(table[t])}
  IN [t \in Tasks |->
        IF t \in kept /\ Cardinality({u \in kept : Ahead(table, u, t)}) < MaxRows
        THEN table[t] ELSE None]

Init ==
  /\ mem = Empty /\ file = Empty /\ now = 0
  /\ pc = [t \in Tasks |-> "new"]
  /\ stage = [th \in Threads |-> "idle"]
  /\ snap = [th \in Threads |-> Empty]
  /\ starting = None
  /\ crowd = {} /\ dirty = FALSE

-----------------------------------------------------------------------------
(***************************************************************************)
(* Transitions of rows: apply_sftp_task_transition up to the persist.      *)
(***************************************************************************)
Goto(th, from, to) ==
  /\ stage[th] = from
  /\ stage' = [stage EXCEPT ![th] = to]

Busy == {th \in Threads : stage[th] # "idle"}

\* A persist begins.
Begin(th) ==
  /\ Goto(th, "idle", "snapshot")
  /\ crowd' = IF Busy = {} THEN crowd ELSE Busy \cup {th}
  /\ UNCHANGED <<file, now, snap, dirty>>

\* A row is created or changed, and gets the time of now.
Apply(t, s) == mem' = [mem EXCEPT ![t] = [status |-> s, at |-> now]]

\* register_sftp_task, for a command that starts a transfer.
Register(t) ==
  /\ Begin(Main)
  /\ pc[t] = "new"
  /\ Apply(t, "running")
  /\ pc' = [pc EXCEPT ![t] = "registering"]
  /\ starting' = t

\* emit_sftp_progress, emit_sftp_completed, emit_sftp_failed
Report(t, s) ==
  /\ Begin(t)
  /\ pc[t] = "running"
  /\ Apply(t, s)
  /\ pc' = [pc EXCEPT ![t] = IF s = "running" THEN @ ELSE "ended"]
  /\ UNCHANGED starting

\* cancel_sftp_task, and cancel_background_task for a transfer.
Cancel(t) ==
  /\ Begin(Main)
  /\ pc[t] # "new"
  /\ Apply(t, "cancelled")
  /\ UNCHANGED <<pc, starting>>

\* list_sftp_tasks and list_background_tasks persist as well.
List ==
  /\ Begin(Main)
  /\ UNCHANGED <<mem, pc, starting>>

-----------------------------------------------------------------------------
(***************************************************************************)
(* persist_sftp_tasks                                                      *)
(***************************************************************************)
Snapshot(th) ==
  /\ Goto(th, "snapshot", "replace")
  /\ snap' = [snap EXCEPT ![th] = Pruned(mem)]
  /\ UNCHANGED <<mem, file, now, pc, starting, crowd, dirty>>

\* Seeded fault: the table is not emptied before it is filled.
ReplaceMerging(th) ==
  /\ Goto(th, "replace", "save")
  /\ mem' = [t \in Tasks |-> IF snap[th][t] = None THEN mem[t] ELSE snap[th][t]]
  /\ UNCHANGED <<file, now, pc, snap, starting, crowd, dirty>>

Replace(th) ==
  /\ Goto(th, "replace", "save")
  /\ mem' = snap[th]
  /\ UNCHANGED <<file, now, pc, snap, starting, crowd, dirty>>

\* When persists overlap, or after a crash in the middle of one: what was on
\* the disk, what was being saved, or nothing that can be parsed.
Saving == {th \in Threads : stage[th] = "save"}
Unsure == {file, Empty} \cup {snap[th] : th \in Saving}

\* The save returns.  Without an error, a command that starts a transfer
\* spawns its thread.
SaveReturns(th, ok) ==
  /\ Goto(th, "save", "idle")
  /\ snap' = [snap EXCEPT ![th] = Empty]
  /\ pc' = IF th = Main /\ starting # None
           THEN [pc EXCEPT ![starting] = IF ok THEN "running" ELSE "ended"]
           ELSE pc
  /\ starting' = IF th = Main THEN None ELSE starting
  /\ crowd' = crowd \ {th}
  /\ dirty' = (~ok \/ th \in crowd)
  /\ UNCHANGED <<mem, now>>

\* Seeded fault: an error of the save goes unnoticed.
SaveIgnored(th) ==
  /\ SaveReturns(th, TRUE)
  /\ UNCHANGED file

Save(th) ==
  /\ SaveReturns(th, TRUE)
  /\ file' \in IF th \in crowd THEN Unsure ELSE {snap[th]}

\* A save that fails may have removed the file (LoadFindsSave of JsonFile).
SaveErr(th) ==
  /\ SaveReturns(th, FALSE)
  /\ file' \in IF th \in crowd THEN Unsure ELSE {file, Empty}

-----------------------------------------------------------------------------
Tick ==
  /\ now < MaxNow
  /\ now' = now + 1
  /\ UNCHANGED <<mem, file, pc, stage, snap, starting, crowd, dirty>>

\* The program stops and starts again: BackendState::with_paths loads the
\* table, an empty one if that fails.  Transfers under way are gone.
Restart ==
  /\ mem' \in IF Busy = {} THEN {file} ELSE Unsure
  /\ file' = mem'
  /\ pc' = [t \in Tasks |-> IF pc[t] = "new" THEN "new" ELSE "ended"]
  /\ stage' = [th \in Threads |-> "idle"]
  /\ snap' = [th \in Threads |-> Empty]
  /\ starting' = None
  /\ crowd' = {} /\ dirty' = FALSE
  /\ UNCHANGED now

-----------------------------------------------------------------------------
Next ==
  \/ \E t \in Tasks :
       Register(t) \/ Cancel(t) \/ \E s \in Reports : Report(t, s)
  \/ List
  \/ \E th \in Threads : Snapshot(th) \/ Replace(th) \/ Save(th) \/ SaveErr(th)
  \/ Tick \/ Restart

Spec == Init /\ [][Next]_vars

-----------------------------------------------------------------------------
TypeOK ==
  /\ mem \in Table
  /\ file \in Table
  /\ now \in 0 .. MaxNow
  /\ pc \in [Tasks -> {"new", "registering", "running", "ended"}]
  /\ stage \in [Threads -> {"idle", "snapshot", "replace", "save"}]
  /\ snap \in [Threads -> Table]
  /\ starting \in Tasks \cup {None}
  /\ \A t \in Tasks : pc[t] = "registering" <=> starting = t
  /\ starting # None => Main \in Busy
  /\ crowd \subseteq Busy
  /\ dirty \in BOOLEAN

(***************************************************************************)
(* However the persists overlap, the table holds at most MaxRows rows and  *)
(* one more for each thread that is still before its replacement.          *)
(***************************************************************************)
Early == {th \in Busy : stage[th] # "save"}

TableBounded == Cardinality(Listed(mem)) <= MaxRows + Cardinality(Early)

(***************************************************************************)
(* Whatever overlaps, failures and restarts came before: after one persist *)
(* that met no other and was saved, the disk has exactly the table of the  *)
(* memory, until the next transition.                                      *)
(***************************************************************************)
LoneSaveAgrees ==
  Busy = {} /\ ~dirty => file = mem

(***************************************************************************)
(* A persist that met no other drops a row only if the row has an outcome  *)
(* older than the retention or MaxRows others are at least as new; and it  *)
(* alters none.                                                            *)
(***************************************************************************)
AtLeastAsNew(t) == {u \in Listed(mem) \ {t} : mem[u].at >= mem[t].at}

RowsLeaveForAReason ==
  [][\A th \in Threads, t \in Listed(mem) :
       stage[th] = "replace" /\ stage'[th] = "save" /\ th \notin crowd =>
         \/ mem'[t] = mem[t]
         \/ /\ mem'[t] = None
            /\ \/ mem[t].status # "running" /\ now > mem[t].at + Retention
               \/ Cardinality(AtLeastAsNew(t)) >= MaxRows]_vars

(***************************************************************************)
(* What the design says of a task: while the program runs, a task that is  *)
(* done is never running again.  It does not hold: a snapshot taken before *)
(* the transition can replace the table after it.                          *)
(***************************************************************************)
DoneIsFinal ==
  [][\/ Restart
     \/ \A t \in Listed(mem) : mem[t].status = "done" =>
          mem'[t] = None \/ mem'[t].status # "running"]_vars
=============================================================================
