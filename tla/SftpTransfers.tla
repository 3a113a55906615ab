---------------------------- MODULE SftpTransfers ----------------------------
(***************************************************************************)
(* SFTP transfers: the commands of the main thread that start and cancel   *)
(* them, one thread per transfer, the permits that bound them, the         *)
(* cancellation flags and the events sent to the window.                   *)
(*   src-tauri/src/commands/sftp.rs                                        *)
(*   src-tauri/src/services/sftp_service.rs                                *)
(*   src-tauri/src/services/sftp_service/transfer.rs                       *)
(*                                                                         *)
(* The session cache appears as a transfer sees it: which connections are  *)
(* cached and who owns the mutex (SftpSessionCache has the rest).  No step *)
(* here depends on the table of task rows, which SftpTaskTable models: an  *)
(* emission is in the stage "emit" while it updates and saves its row.     *)
(***************************************************************************)
EXTENDS Naturals, Sequences, FiniteSets

CONSTANTS
  Tasks,        \* transfers: a task id, its thread and its request
  Conns,        \* SftpConnectionKey values
  ConnOf,       \* the connection of a transfer
  MaxTotal,     \* MAX_ACTIVE_SFTP_TRANSFERS
  MaxPerConn,   \* MAX_ACTIVE_SFTP_TRANSFERS_PER_CONNECTION
  MaxChunks,    \* bound: chunks a transfer moves
  None

ASSUME ConstantsAssumption ==
  /\ IsFiniteSet(Tasks)
  /\ ConnOf \in [Tasks -> Conns]
  /\ MaxTotal \in Nat /\ MaxPerConn \in Nat /\ MaxChunks \in Nat
  /\ None \notin Tasks \cup {"progress", "completed", "failed"}

VARIABLES
  pc,        \* where each transfer is
  kind,      \* the event it is emitting, or the last it emitted
  permits,   \* transfers whose SftpTransferPermit is alive
  total,     \* SftpTransferCounters::total
  byConn,    \* SftpTransferCounters::by_connection, 0 where it has no entry
  cached,    \* connections with a cached session
  cacheLock, \* the transfer that owns the mutex of the session cache, or None
  flags,     \* BackendState::cancelled_tasks
  sent       \* the events sent to the window, per transfer

permitVars == <<permits, total, byConn>>
cacheVars  == <<cached, cacheLock>>
vars == <<pc, kind, permits, total, byConn, cached, cacheLock, flags, sent>>

-----------------------------------------------------------------------------
Stage == {"new", "starting", "spawned", "enter", "connect", "body", "check",
          "io", "emit", "insert", "dropFailed", "unwind", "ended"}
Event == {"progress", "completed", "failed"}
Outcome == {"completed", "failed"}

Goto(t, from, to) ==
  /\ pc[t] = from
  /\ pc' = [pc EXCEPT ![t] = to]

\* The call of emit_sftp_progress, emit_sftp_completed or emit_sftp_failed.
Emit(t, from, k) ==
  /\ Goto(t, from, "emit")
  /\ kind' = [kind EXCEPT ![t] = k]

Init ==
  /\ pc = [t \in Tasks |-> "new"]
  /\ kind = [t \in Tasks |-> None]
  /\ permits = {} /\ total = 0 /\ byConn = [c \in Conns |-> 0]
  /\ cached = {} /\ cacheLock = None
  /\ flags = {}
  /\ sent = [t \in Tasks |-> <<>>]

-----------------------------------------------------------------------------
(***************************************************************************)
(* Commands, one at a time on the main thread.  A start is in progress     *)
(* while its first row is saved.                                           *)
(***************************************************************************)
MainReady == \A t \in Tasks : pc[t] # "starting"

\* sftp_upload, sftp_upload_directory, sftp_download: clear_cancelled_task,
\* then register_sftp_task.  Task ids are fresh.
Start(t) ==
  /\ MainReady
  /\ Goto(t, "new", "starting")
  /\ flags' = flags \ {t}
  /\ UNCHANGED <<kind, permitVars, cacheVars, sent>>

\* The row is saved and the thread spawned, or the command returns the error.
Spawn(t) ==
  /\ \/ Goto(t, "starting", "spawned")
     \/ Goto(t, "starting", "ended")
  /\ UNCHANGED <<kind, permitVars, cacheVars, flags, sent>>

\* cancel_sftp_task and, for a transfer, cancel_background_task.
Cancel(t) ==
  /\ MainReady /\ pc[t] # "new"
  /\ flags' = flags \cup {t}
  /\ UNCHANGED <<pc, kind, permitVars, cacheVars, sent>>

-----------------------------------------------------------------------------
(***************************************************************************)
(* Permits.                                                                *)
(***************************************************************************)
Count(set, c) == Cardinality({t \in set : ConnOf[t] = c})

\* Seeded fault: one transfer too many passes the limit of its connection.
AcquireOneTooMany(t) ==
  /\ Goto(t, "spawned", "enter")
  /\ total < MaxTotal
  /\ byConn[ConnOf[t]] <= MaxPerConn
  /\ permits' = permits \cup {t}
  /\ total' = total + 1
  /\ byConn' = [byConn EXCEPT ![ConnOf[t]] = @ + 1]
  /\ UNCHANGED <<kind, cacheVars, flags, sent>>

\* SftpTransferPermit::acquire
AcquirePermit(t) ==
  /\ Goto(t, "spawned", "enter")
  /\ total < MaxTotal
  /\ byConn[ConnOf[t]] < MaxPerConn
  /\ permits' = permits \cup {t}
  /\ total' = total + 1
  /\ byConn' = [byConn EXCEPT ![ConnOf[t]] = @ + 1]
  /\ UNCHANGED <<kind, cacheVars, flags, sent>>

\* A limit is reached: the error returns, and there is no permit to drop.
Refuse(t) ==
  /\ Emit(t, "spawned", "failed")
  /\ total >= MaxTotal \/ byConn[ConnOf[t]] >= MaxPerConn
  /\ UNCHANGED <<permitVars, cacheVars, flags, sent>>

\* The request is invalid: an upload without data, a path, a local directory.
Invalid(t) ==
  /\ Emit(t, "spawned", "failed")
  /\ UNCHANGED <<permitVars, cacheVars, flags, sent>>

Saturating(n) == IF n = 0 THEN 0 ELSE n - 1

\* Seeded fault: the entry of the connection is left as it was.
DropTotalOnly(t) ==
  /\ permits' = permits \ {t}
  /\ total' = Saturating(total)
  /\ UNCHANGED byConn

\* SftpTransferPermit::drop
DropPermit(t) ==
  /\ permits' = permits \ {t}
  /\ total' = Saturating(total)
  /\ byConn' = [byConn EXCEPT ![ConnOf[t]] = Saturating(@)]

\* Seeded fault: the thread reports a failure whatever the service returned.
UnwindAlwaysFailing(t) ==
  /\ Emit(t, "unwind", "failed")
  /\ DropPermit(t)
  /\ UNCHANGED <<cacheVars, flags, sent>>

\* The service returns and drops the permit.  If it returns an error the
\* thread then calls emit_sftp_failed.
Unwind(t) ==
  /\ \/ kind[t] = "completed" /\ Goto(t, "unwind", "ended") /\ UNCHANGED kind
     \/ kind[t] # "completed" /\ Emit(t, "unwind", "failed")
  /\ DropPermit(t)
  /\ UNCHANGED <<cacheVars, flags, sent>>

-----------------------------------------------------------------------------
(***************************************************************************)
(* with_sftp, as a transfer goes through it.                               *)
(***************************************************************************)

\* The connection is cached: the mutex of the cache stays locked ...
EnterCached(t) ==
  /\ Goto(t, "enter", "body")
  /\ cacheLock = None /\ ConnOf[t] \in cached
  /\ cacheLock' = t
  /\ UNCHANGED <<kind, permitVars, cached, flags, sent>>

\* Seeded fault: the guard of the lookup lives on after a miss, too.
EnterFreshGuarded(t) ==
  /\ Goto(t, "enter", "connect")
  /\ cacheLock = None /\ ConnOf[t] \notin cached
  /\ cacheLock' = t
  /\ UNCHANGED <<kind, permitVars, cached, flags, sent>>

\* ... or it is not, and a session is opened.
EnterFresh(t) ==
  /\ Goto(t, "enter", "connect")
  /\ cacheLock = None /\ ConnOf[t] \notin cached
  /\ UNCHANGED <<kind, permitVars, cacheVars, flags, sent>>

Connect(t) ==
  /\ \/ Goto(t, "connect", "body")
     \/ Goto(t, "connect", "unwind")
  /\ UNCHANGED <<kind, permitVars, cacheVars, flags, sent>>

\* Seeded fault: the closure itself reports the failure.
BodyErrReporting(t) ==
  /\ pc[t] \in {"body", "io"} \/ (pc[t] = "check" /\ t \in flags)
  /\ Emit(t, pc[t], "failed")
  /\ UNCHANGED <<permitVars, cacheVars, flags, sent>>

(***************************************************************************)
(* The closure returns an error: a file does not open, a chunk does not    *)
(* move, or ensure_task_not_cancelled finds the flag.  with_sftp is to     *)
(* remove a cached session that failed; a new one is just dropped.         *)
(***************************************************************************)
BodyErr(t) ==
  /\ pc[t] \in {"body", "io"} \/ (pc[t] = "check" /\ t \in flags)
  /\ pc' = [pc EXCEPT ![t] = IF cacheLock = t THEN "dropFailed" ELSE "unwind"]
  /\ UNCHANGED <<kind, permitVars, cacheVars, flags, sent>>

\* The mutex of the cache is locked to insert the new session or to remove
\* the failed one, in the second case by the thread that already owns it.
Settle(t) ==
  /\ pc[t] \in {"insert", "dropFailed"}
  /\ cacheLock = None
  /\ cached' = IF pc[t] = "insert" THEN cached \cup {ConnOf[t]}
                                   ELSE cached \ {ConnOf[t]}
  /\ pc' = [pc EXCEPT ![t] = "unwind"]
  /\ UNCHANGED <<kind, permitVars, cacheLock, flags, sent>>

\* A session is evicted: idle for too long, or its terminal was closed.
EvictSession(c) ==
  /\ c \in cached /\ cacheLock = None
  /\ cached' = cached \ {c}
  /\ UNCHANGED <<pc, kind, permitVars, cacheLock, flags, sent>>

-----------------------------------------------------------------------------
(***************************************************************************)
(* The transfer itself, the closure given to with_sftp.                    *)
(***************************************************************************)

\* Both ends are open: the first progress event, of no bytes.
Begin(t) ==
  /\ Emit(t, "body", "progress")
  /\ UNCHANGED <<permitVars, cacheVars, flags, sent>>

\* The remote file exists and the conflict strategy is to skip it.
Skip(t) ==
  /\ Emit(t, "body", "completed")
  /\ UNCHANGED <<permitVars, cacheVars, flags, sent>>

\* ensure_task_not_cancelled lets the next chunk through.
Check(t) ==
  /\ Goto(t, "check", "io")
  /\ t \notin flags
  /\ UNCHANGED <<kind, permitVars, cacheVars, flags, sent>>

\* One chunk is read and written.
Chunk(t) ==
  /\ Emit(t, "io", "progress")
  /\ Len(sent[t]) <= MaxChunks
  /\ UNCHANGED <<permitVars, cacheVars, flags, sent>>

\* Nothing is left: a file says so when it is read, after the check; data in
\* memory and a directory are at their end without one more check.
Exhausted(t) ==
  /\ \/ Emit(t, "io", "completed")
     \/ Emit(t, "check", "completed")
  /\ UNCHANGED <<permitVars, cacheVars, flags, sent>>

(***************************************************************************)
(* The end of an emission: progress and failure take the cancellation flag *)
(* away, completion does not, and the event goes to the window.  After     *)
(* completion the closure has returned Ok.                                 *)
(***************************************************************************)
Notify(t) ==
  /\ pc[t] = "emit"
  /\ sent' = [sent EXCEPT ![t] = Append(@, kind[t])]
  /\ \/ /\ kind[t] = "progress"
        /\ pc' = [pc EXCEPT ![t] = "check"]
        /\ flags' = flags \ {t}
        /\ UNCHANGED cacheLock
     \/ /\ kind[t] = "completed"
        /\ pc' = [pc EXCEPT ![t] = IF cacheLock = t THEN "unwind" ELSE "insert"]
        /\ cacheLock' = IF cacheLock = t THEN None ELSE cacheLock
        /\ UNCHANGED flags
     \/ /\ kind[t] = "failed"
        /\ pc' = [pc EXCEPT ![t] = "ended"]
        /\ flags' = flags \ {t}
        /\ UNCHANGED cacheLock
  /\ UNCHANGED <<kind, permitVars, cached>>

-----------------------------------------------------------------------------
Transfer(t) ==
  \/ AcquirePermit(t) \/ Refuse(t) \/ Invalid(t) \/ Unwind(t)
  \/ EnterCached(t) \/ EnterFresh(t) \/ Connect(t) \/ BodyErr(t) \/ Settle(t)
  \/ Begin(t) \/ Skip(t) \/ Check(t) \/ Chunk(t) \/ Exhausted(t) \/ Notify(t)

Next ==
  \/ \E t \in Tasks : Start(t) \/ Spawn(t) \/ Cancel(t) \/ Transfer(t)
  \/ \E c \in Conns : EvictSession(c)

Spec == Init /\ [][Next]_vars

(***************************************************************************)
(* A thread that can go on does, and gets the mutex of the cache if it is  *)
(* free again and again.  No command and no eviction is forced.            *)
(***************************************************************************)
FairSpec ==
  Spec /\ \A t \in Tasks : WF_vars(Spawn(t)) /\ SF_vars(Transfer(t))

-----------------------------------------------------------------------------
TypeOK ==
  /\ pc \in [Tasks -> Stage]
  /\ kind \in [Tasks -> Event \cup {None}]
  /\ permits \in SUBSET Tasks
  /\ total \in Nat
  /\ byConn \in [Conns -> Nat]
  /\ cached \in SUBSET Conns
  /\ cacheLock \in Tasks \cup {None}
  /\ flags \in SUBSET Tasks
  /\ sent \in [Tasks -> Seq(Event)]

(***************************************************************************)
(* The counters say what is out.  Through every refusal, error, cancelled  *)
(* or blocked transfer, total and by_connection are the numbers of permits *)
(* alive: no slot leaks and no limit is passed.                            *)
(***************************************************************************)
PermitAccounting ==
  /\ total = Cardinality(permits) /\ total <= MaxTotal
  /\ \A c \in Conns : byConn[c] = Count(permits, c) /\ byConn[c] <= MaxPerConn

(***************************************************************************)
(* A transfer reports one outcome, and nothing after it: the window is     *)
(* never told that a transfer both completed and failed, nor of progress   *)
(* of one that has ended.                                                  *)
(***************************************************************************)
OneOutcomeAndLast ==
  \A t \in Tasks : \A i \in 1..Len(sent[t]) :
    sent[t][i] \in Outcome => i = Len(sent[t])

(***************************************************************************)
(* When the window hears of a failure the slot of the transfer is free     *)
(* again: a retry is never refused because of the attempt it repeats.      *)
(***************************************************************************)
FailureFreesSlot ==
  \A t \in permits : \A i \in 1..Len(sent[t]) : sent[t][i] # "failed"

\* A transfer that waits for the mutex it owns.
SelfBlocked(t) == pc[t] = "dropFailed" /\ cacheLock = t

(***************************************************************************)
(* Every transfer whose thread was spawned ends (an id runs once, so that  *)
(* again and again there is none left), unless one has failed on a cached  *)
(* session and blocked itself, and with it the cache.                      *)
(***************************************************************************)
TransfersEnd ==
  []<>(\/ \A t \in Tasks : pc[t] \in {"new", "starting", "ended"}
       \/ \E u \in Tasks : SelfBlocked(u))

(***************************************************************************)
(* The counters implement the pool of permits.                             *)
(***************************************************************************)
Pool == INSTANCE PermitPool WITH holders <- permits
PoolSpec == Pool!Spec

(***************************************************************************)
(* docs/design.md:416: cancellation works through the set of cancelled     *)
(* tasks, checked before each chunk is written.  So a flag the user has    *)
(* set stays set until the transfer has ended.                             *)
(***************************************************************************)
CancellationIsKept ==
  [][\A t \in Tasks : (t \in flags /\ t \notin flags') => pc'[t] = "ended"]_vars
=============================================================================
