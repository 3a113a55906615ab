----------------------------- MODULE TaskList -----------------------------
(***************************************************************************)
(* The task list of the window: rows made by the window's own operations,  *)
(* by the events of the backend's transfers and by the snapshot of the     *)
(* backend's rows that is asked for when the window is mounted.            *)
(*                                                                         *)
(* The order of the rows and the index taskIndexById are abstracted: a row *)
(* is found by its id. A transfer's command returns as soon as its thread  *)
(* is started, so that its events and the answer come in any order.        *)
(***************************************************************************)
EXTENDS Integers, Sequences

CONSTANTS
    Tasks,       \* the ids of transfers
    MaxEvents    \* progress events of a transfer

VARIABLES
    rows,        \* taskItems: of each id, its row or NoRow
    listening,   \* the kinds of events whose listener is registered
    restore,     \* the snapshot: "asked", the backend's answer, or "done"
    events,      \* events on their way to the window, in order
    threads,     \* of each id, the transfer in the backend
    emitted,     \* progress events of each transfer
    missed,      \* history: transfers whose outcome was emitted unheard
    answers,     \* commands that were answered or are unanswered
    cancels      \* cancel commands whose answers are awaited

taskVars == <<rows, listening, restore, events, threads, emitted, missed, answers, cancels>>
backendVars == <<threads, emitted, missed>>

NoRow == [status |-> "none"]
\* A task as the list offers it: retry is TRUE when it has a retryContext,
\* restored when the last thing that set its status was the snapshot.
Row(status, retry, restored) == [status |-> status, retry |-> retry, restored |-> restored]
Settled == {"done", "cancelled"}
Kinds == {"progress", "completed", "failed"}

\* The rows that list_background_tasks returns of the backend's table; a row
\* that was running when the program stopped still says so ("stopped").
SnapshotStatus(t) == CASE threads[t] \in {"running", "stopped"} -> "running"
                       [] threads[t] = "cancelled" -> "cancelled"
                       [] OTHER -> threads[t]
Snapshot == [t \in Tasks |-> SnapshotStatus(t)]

\* upsertTask: changes the row of the id, or makes one without a retryContext
Upsert(t, status, restored) ==
    [rows EXCEPT ![t] = Row(status, @ # NoRow /\ @.retry, restored)]
\* patchTask: changes the row of the id if there is one
Patch(t, status) ==
    [rows EXCEPT ![t] = IF @ = NoRow THEN NoRow ELSE Row(status, @.retry, FALSE)]

TaskListInit ==
    /\ rows = [t \in Tasks |-> NoRow]
    /\ listening = {} /\ restore = <<"asked">> /\ events = <<>>
    \* rows of an earlier run of the program, and transfers that a reload of
    \* the window has left running
    /\ threads \in [Tasks -> {"none", "running", "stopped", "done", "failed"}]
    /\ emitted = [t \in Tasks |-> 0] /\ missed = {}
    /\ answers = [t \in Tasks |-> "none"] /\ cancels = {}

---------------------------------------------------------------------------
(* Mounting *)

\* The backend answers list_background_tasks.
ListTasks ==
    /\ restore = <<"asked">>
    /\ restore' = <<"answered", Snapshot>>
    /\ UNCHANGED <<rows, listening, events, answers, cancels, backendVars>>

\* restoreBackgroundTasks: every row of the answer is upserted.
RestoreBackgroundTasks ==
    /\ restore[1] = "answered"
    /\ rows' = [t \in Tasks |->
                  IF restore[2][t] = "none" THEN rows[t] ELSE Upsert(t, restore[2][t], TRUE)[t]]
    /\ restore' = <<"done">>
    /\ UNCHANGED <<listening, events, answers, cancels, backendVars>>

\* registerSftpProgressEvents asks for its three listeners at once; each is there
\* when its own call is answered, in any order.
Listen(kind) ==
    /\ kind \notin listening /\ listening' = listening \cup {kind}
    /\ UNCHANGED <<rows, restore, events, answers, cancels, backendVars>>

---------------------------------------------------------------------------
(* Operations of the user *)

\* runSftpOperationTask with an upload or a download: asked for in the SFTP
\* panel, or by retryTask, whose button a failed or cancelled row has if it has
\* a retryContext; a retry is a task with an id of its own.
StartTransfer(t) ==
    /\ threads[t] = "none" /\ answers[t] = "none"
    /\ rows' = [rows EXCEPT ![t] = Row("running", TRUE, FALSE)]
    /\ answers' = [answers EXCEPT ![t] = "unanswered"]
    /\ UNCHANGED <<listening, restore, events, cancels, backendVars>>

\* The command's answer: the row is done although the transfer has begun only
\* now, or failed when the backend has not registered it.
TransferAnswered(t) ==
    /\ answers[t] \in {"started", "refused"}
    /\ rows' = Patch(t, IF answers[t] = "started" THEN "done" ELSE "failed")
    /\ answers' = [answers EXCEPT ![t] = "over"]
    /\ UNCHANGED <<listening, restore, events, cancels, backendVars>>

\* cancelTask, offered for a running row; its answer sets the row whatever has
\* become of it.
CancelTask(t) ==
    /\ rows[t].status = "running"
    /\ cancels' = cancels \cup {<<t, "unanswered">>}
    /\ UNCHANGED <<rows, listening, restore, events, answers, backendVars>>

CancelAnswered(t) ==
    /\ <<t, "cancelled">> \in cancels
    /\ rows' = Patch(t, "cancelled")
    /\ cancels' = cancels \ {<<t, "cancelled">>}
    /\ UNCHANGED <<listening, restore, events, answers, backendVars>>

\* The command failed: the row keeps its status.
CancelRefused(t) ==
    /\ <<t, "unanswered">> \in cancels
    /\ cancels' = cancels \ {<<t, "unanswered">>}
    /\ UNCHANGED <<rows, listening, restore, events, answers, backendVars>>

ClearSettledTasks ==
    /\ \E t \in Tasks : rows[t].status \in Settled
    /\ rows' = [t \in Tasks |-> IF rows[t].status \in Settled THEN NoRow ELSE rows[t]]
    /\ UNCHANGED <<listening, restore, events, answers, cancels, backendVars>>

---------------------------------------------------------------------------
(* Events of the backend *)

HandleSftpProgress(t) == rows' = Upsert(t, "running", FALSE)
HandleSftpCompleted(t) == rows' = Upsert(t, "done", FALSE)

\* Seeded fault: the outcome of the row is the default of upsertSftpTask.
HandleSftpFailedKeepsDefault(t) == rows' = Upsert(t, "running", FALSE)

HandleSftpFailed(t) == rows' = Upsert(t, "failed", FALSE)

HandleEvent ==
    /\ events # <<>>
    /\ LET t == Head(events).task
       IN CASE Head(events).kind = "progress" -> HandleSftpProgress(t)
            [] Head(events).kind = "completed" -> HandleSftpCompleted(t)
            [] OTHER -> HandleSftpFailed(t)
    /\ events' = Tail(events)
    /\ UNCHANGED <<listening, restore, answers, cancels, backendVars>>

\* An event emitted before its listener is registered is lost.
Emit(t, kind) ==
    events' = IF kind \in listening THEN Append(events, [task |-> t, kind |-> kind]) ELSE events

---------------------------------------------------------------------------
(* The backend, as far as the window sees it *)

Begin(t) ==
    /\ answers[t] = "unanswered"
    /\ \/ threads' = [threads EXCEPT ![t] = "running"] /\ answers' = [answers EXCEPT ![t] = "started"]
       \/ threads' = threads /\ answers' = [answers EXCEPT ![t] = "refused"]
    /\ UNCHANGED <<rows, listening, restore, events, emitted, missed, cancels>>

Progress(t) ==
    /\ threads[t] \in {"running", "cancelled"} /\ emitted[t] < MaxEvents
    /\ threads' = [threads EXCEPT ![t] = "running"]
    /\ emitted' = [emitted EXCEPT ![t] = @ + 1] /\ Emit(t, "progress")
    /\ UNCHANGED <<rows, listening, restore, missed, answers, cancels>>

End(t) ==
    /\ threads[t] \in {"running", "cancelled"}
    /\ \E outcome \in {"completed", "failed"} :
         /\ threads' = [threads EXCEPT ![t] = IF outcome = "failed" THEN "failed" ELSE "done"]
         /\ Emit(t, outcome)
         /\ missed' = missed \cup (IF outcome \in listening THEN {} ELSE {t})
    /\ UNCHANGED <<rows, listening, restore, emitted, answers, cancels>>

\* cancel_background_task: the row of the backend is cancelled, the thread ends
\* at its next check or, if its flag was taken away, like any other.
Cancel(t) ==
    /\ <<t, "unanswered">> \in cancels
    /\ cancels' = (cancels \ {<<t, "unanswered">>}) \cup {<<t, "cancelled">>}
    /\ threads' = [threads EXCEPT ![t] = IF @ = "running" THEN "cancelled" ELSE @]
    /\ UNCHANGED <<rows, listening, restore, events, emitted, missed, answers>>

TaskListNext ==
    \/ ListTasks \/ RestoreBackgroundTasks \/ (\E kind \in Kinds : Listen(kind))
    \/ ClearSettledTasks \/ HandleEvent
    \/ \E t \in Tasks :
         \/ StartTransfer(t) \/ TransferAnswered(t)
         \/ CancelTask(t) \/ CancelAnswered(t) \/ CancelRefused(t)
         \/ Begin(t) \/ Progress(t) \/ End(t) \/ Cancel(t)

TaskListSpec == TaskListInit /\ [][TaskListNext]_taskVars

---------------------------------------------------------------------------
\* No transfer is over, and everything the backend has said has been handled.
Quiet == /\ listening = Kinds /\ events = <<>> /\ cancels = {} /\ restore = <<"done">>
         /\ \A t \in Tasks : threads[t] \notin {"running", "cancelled"}
                              /\ answers[t] \in {"none", "over"}

\* No row is left running: once every transfer is over and every event, answer
\* and cancellation was handled, in whatever order, a row that still says
\* "running" got that status from the snapshot (of a transfer that a crash has
\* stopped, or that ended before the window listened), or from the progress
\* event of a transfer that ended, after a reload of the window, when only the
\* listener for progress was there: its outcome was emitted unheard. It never
\* stays running otherwise.
NoRowIsLeftRunning ==
    Quiet => \A t \in Tasks :
                rows[t].status = "running" => rows[t].restored \/ t \in missed
===========================================================================
