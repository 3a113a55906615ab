-------------------------- MODULE TerminalSessions --------------------------
(***************************************************************************)
(* SSH terminals in the backend: one actor thread per session that owns    *)
(* its channel, and the threads that call it: the main thread, which runs  *)
(* the commands of the window one at a time, and per session the output    *)
(* reader and the keepalive thread.                                        *)
(*   src-tauri/src/services/terminal_service.rs                            *)
(*   src-tauri/src/commands/terminal.rs                                    *)
(*                                                                         *)
(* Output is followed in chunks: where each chunk is on its way from the   *)
(* server to the window.  The markers in disconnected_terminal_sessions    *)
(* are left out (they are set when a close is announced, pruned by age,    *)
(* and read by nothing), and so are the events that carry an error text.   *)
(***************************************************************************)
EXTENDS Naturals, Sequences

CONSTANTS
  Sessions,   \* session ids; an id is used once
  Main,       \* the main thread
  Chunks,     \* the chunks of output a server may send in a session
  Commands,   \* which of the commands "write", "resize", "poll" the window uses
  PaneSize,   \* the size of the user's pane, which resize asks for
  None

Helpers == {"reader", "keeper"} \X Sessions
Callers == Helpers \cup {Main}

ASSUME ConstantsAssumption ==
  /\ None \notin Sessions \cup Callers /\ Main \notin Helpers
  /\ None \notin {"ok", "closed", "err", "Connected", "Disconnected"}
  /\ Commands \subseteq {"write", "resize", "poll"}

VARIABLES
  terminals,    \* BackendState::terminals: the status of a session, or None
  runtimes,     \* BackendState::terminal_runtimes: the registered handles
  registryLock, \* the thread that keeps the mutex of terminal_runtimes, or None
  terminalsLock,\* the thread that keeps the mutex of terminals, or None
  sftp,         \* the mutex of the cached SFTP sessions, which a close waits for
  actor,        \* the actor thread: not spawned, its TerminalRuntimeState, or gone
  queue,        \* the callers whose commands are in the actor's channel
  reply,        \* per caller, the result of its command, or None
  channel,      \* the SSH channel, as the server and the network leave it
  size,         \* the size of the remote PTY
  output,       \* where each chunk of output is
  told,         \* the sessions the window was told are closed
  pc,           \* where each caller is
  cmd           \* the command the main thread runs

lockVars     == <<terminalsLock, sftp>>
registryVars == <<terminals, runtimes, registryLock, lockVars>>
actorVars    == <<actor, queue, channel, size>>
vars == <<registryVars, actorVars, reply, output, told, pc, cmd>>

-----------------------------------------------------------------------------
Op(c) == IF c = Main THEN cmd.op
         ELSE IF c[1] = "reader" THEN "read" ELSE "keepalive"

Of(c) == IF c = Main THEN cmd.session ELSE c[2]

Reader(s) == <<"reader", s>>
Keeper(s) == <<"keeper", s>>

\* Where a chunk is while a caller has it, in a result or in its hands.
Hand(c) == IF c = Main THEN "main" ELSE "reader"

Goto(c, from, to) ==
  /\ pc[c] = from
  /\ pc' = [pc EXCEPT ![c] = to]

\* The chunks of session s that were at one place move to another.
Move(s, from, to) ==
  output' = [output EXCEPT ![s] =
               [n \in Chunks |-> IF @[n] = from THEN to ELSE @[n]]]

TellClosed(s) == told' = told \cup {s}

\* Where a thread goes when its work is done: its loop, or its end.
Home(c) == IF c = Main THEN "idle" ELSE "ended"

Init ==
  /\ terminals = [s \in Sessions |-> None]
  /\ runtimes = {} /\ registryLock = None
  /\ terminalsLock = None /\ sftp = "free"
  /\ actor = [s \in Sessions |-> "none"]
  /\ queue = [s \in Sessions |-> <<>>]
  /\ reply = [c \in Callers |-> None]
  /\ channel = [s \in Sessions |-> "open"]
  /\ size = [s \in Sessions |-> "80x24"]
  /\ output = [s \in Sessions |-> [n \in Chunks |-> "server"]]
  /\ told = {}
  /\ pc = [c \in Callers |-> IF c = Main THEN "idle" ELSE "off"]
  /\ cmd = [op |-> None, session |-> None]

-----------------------------------------------------------------------------
(***************************************************************************)
(* The server and the network.                                             *)
(***************************************************************************)
Running(s) == actor[s] \in {"ready", "closed"}

Produce(s, n) ==
  /\ Running(s) /\ channel[s] = "open"
  /\ output[s][n] = "server"
  /\ output' = [output EXCEPT ![s][n] = "channel"]
  /\ UNCHANGED <<registryVars, actorVars, reply, told, pc, cmd>>

\* The remote shell exits, or the connection breaks.
ChannelEnds(s) ==
  /\ Running(s) /\ channel[s] = "open"
  /\ \E end \in {"eof", "broken"} : channel' = [channel EXCEPT ![s] = end]
  /\ UNCHANGED <<registryVars, actor, queue, size, reply, output, told, pc, cmd>>

-----------------------------------------------------------------------------
(***************************************************************************)
(* The operations on files, which keep the mutex of the cached sessions    *)
(* while they run. One that found a cached session and failed waits for    *)
(* the mutex it keeps itself: then nobody gets it any more.                *)
(***************************************************************************)
SftpTurns(from, to) ==
  /\ sftp = from /\ sftp' = to
  /\ UNCHANGED <<terminals, runtimes, registryLock, terminalsLock, actorVars, reply, output,
                 told, pc, cmd>>

SftpTakes   == SftpTurns("free", "busy")
SftpReturns == SftpTurns("busy", "free")
SftpSticks  == SftpTurns("busy", "stuck")

-----------------------------------------------------------------------------
(***************************************************************************)
(* connect_ssh: create_terminal_session spawns the actor and the keepalive *)
(* thread and enters the session in one map, then in the other; only then  *)
(* does start_output_reader spawn the reader.                              *)
(***************************************************************************)
Connect(s) ==
  /\ actor[s] = "none" /\ pc[Main] = "idle"
  /\ pc' = [pc EXCEPT ![Main] = "enter", ![Keeper(s)] = "lookup"]
  /\ cmd' = [op |-> "connect", session |-> s]
  /\ actor' = [actor EXCEPT ![s] = "ready"]
  /\ UNCHANGED <<registryVars, queue, channel, size, reply, output, told>>

Enter ==
  /\ Goto(Main, "enter", "register")
  /\ terminalsLock = None
  /\ terminals' = [terminals EXCEPT ![cmd.session] = "Connected"]
  /\ UNCHANGED <<runtimes, registryLock, lockVars, actorVars, reply, output, told, cmd>>

Register ==
  /\ pc[Main] = "register"
  /\ registryLock = None
  /\ runtimes' = runtimes \cup {cmd.session}
  /\ pc' = [pc EXCEPT ![Main] = "idle", ![Reader(cmd.session)] = "lookup"]
  /\ UNCHANGED <<terminals, registryLock, lockVars, actorVars, reply, output, told, cmd>>

-----------------------------------------------------------------------------
(***************************************************************************)
(* A call of an actor: clone the handle from the registry, send the        *)
(* command, wait for the result.                                           *)
(***************************************************************************)

\* A command of the window for an id it once got: send_input, resize_pty,
\* poll_events, which first looks whether the session is listed.
Invoke(op, s) ==
  /\ Goto(Main, "idle", IF op = "poll" THEN "check" ELSE "lookup")
  /\ actor[s] # "none"
  /\ cmd' = [op |-> op, session |-> s]
  /\ UNCHANGED <<registryVars, actorVars, reply, output, told>>

EnsureExists ==
  /\ Goto(Main, "check", IF terminals[cmd.session] # None THEN "lookup" ELSE "idle")
  /\ terminalsLock = None
  /\ UNCHANGED <<registryVars, actorVars, reply, output, told, cmd>>

Found(c) ==
  /\ Goto(c, "lookup", "send")
  /\ registryLock = None /\ Of(c) \in runtimes
  /\ UNCHANGED <<registryVars, actorVars, reply, output, told, cmd>>

\* Seeded fault: a helper whose session is gone tries again.
NotFoundRetrying(c) ==
  /\ Goto(c, "lookup", IF c = Main THEN Home(c) ELSE "lookup")
  /\ registryLock = None /\ Of(c) \notin runtimes
  /\ UNCHANGED <<registryVars, actorVars, reply, output, told, cmd>>

\* The session is not registered: the command fails, the reader cleans up,
\* the keepalive thread ends.
NotFound(c) ==
  /\ Goto(c, "lookup", IF Op(c) = "read" THEN "remove" ELSE Home(c))
  /\ registryLock = None /\ Of(c) \notin runtimes
  /\ UNCHANGED <<registryVars, actorVars, reply, output, told, cmd>>

\* mpsc::Sender::send, which fails when the actor has dropped the receiver.
Send(c) ==
  /\ Goto(c, "send", "wait")
  /\ \/ /\ Running(Of(c))
        /\ queue' = [queue EXCEPT ![Of(c)] = Append(@, c)]
        /\ UNCHANGED reply
     \/ /\ ~Running(Of(c))
        /\ reply' = [reply EXCEPT ![c] = "err"]
        /\ UNCHANGED queue
  /\ UNCHANGED <<registryVars, actor, channel, size, output, told, cmd>>

-----------------------------------------------------------------------------
(***************************************************************************)
(* terminal_runtime_loop.                                                  *)
(***************************************************************************)

\* The caller whose command the actor takes from its channel next.
NextCaller(s) == Head(queue[s])
Wants(s, op) == queue[s] # <<>> /\ pc[NextCaller(s)] = "wait" /\ Op(NextCaller(s)) = op

Answer(s, result) ==
  /\ reply' = [reply EXCEPT ![NextCaller(s)] = result]
  /\ queue' = [queue EXCEPT ![s] = Tail(@)]

\* allows_io
AllowsIo(s) == actor[s] = "ready"

\* Read: what the channel has, and whether it is at its end.
HandleRead(s) ==
  /\ Wants(s, "read") \/ Wants(s, "poll")
  /\ AllowsIo(s) /\ channel[s] # "broken"
  /\ Move(s, "channel", Hand(NextCaller(s)))
  /\ \/ channel[s] = "open" /\ Answer(s, "ok") /\ UNCHANGED actor
     \/ channel[s] = "eof" /\ Answer(s, "closed") /\ actor' = [actor EXCEPT ![s] = "closed"]
  /\ UNCHANGED <<registryVars, channel, size, told, pc, cmd>>

(***************************************************************************)
(* Write: the output that is pending is read first and returned with the   *)
(* result.  While the channel takes no input it is read again, and that    *)
(* output is discarded; an error discards what was read.                   *)
(***************************************************************************)
HandleWrite(s) ==
  /\ Wants(s, "write")
  /\ AllowsIo(s) /\ channel[s] = "open"
  /\ \/ /\ Answer(s, "ok")
        /\ \E kept \in SUBSET {n \in Chunks : output[s][n] = "channel"} :
             output' = [output EXCEPT ![s] =
               [n \in Chunks |-> IF @[n] # "channel" THEN @[n]
                                 ELSE IF n \in kept THEN Hand(NextCaller(s)) ELSE "lost"]]
     \/ /\ Answer(s, "err")
        /\ Move(s, "channel", "lost")
  /\ UNCHANGED <<registryVars, actor, channel, size, told, pc, cmd>>

\* Resize: the size the user's pane has.
HandleResize(s) ==
  /\ Wants(s, "resize")
  /\ AllowsIo(s) /\ channel[s] = "open"
  /\ \/ Answer(s, "ok") /\ size' = [size EXCEPT ![s] = PaneSize]
     \/ Answer(s, "err") /\ UNCHANGED size
  /\ UNCHANGED <<registryVars, actor, channel, output, told, pc, cmd>>

\* Keepalive: a request for a PTY of 80 columns and 24 rows.
HandleKeepalive(s) ==
  /\ Wants(s, "keepalive")
  /\ AllowsIo(s) /\ channel[s] = "open"
  /\ \/ Answer(s, "ok") /\ size' = [size EXCEPT ![s] = "80x24"]
     \/ Answer(s, "err") /\ UNCHANGED size
  /\ UNCHANGED <<registryVars, actor, channel, output, told, pc, cmd>>

(***************************************************************************)
(* A command that meets a channel that is gone, or an actor that is no     *)
(* longer Ready.  What was read before the error is discarded.             *)
(***************************************************************************)
HandleUnready(s) ==
  /\ queue[s] # <<>> /\ pc[NextCaller(s)] = "wait"
  /\ \/ ~AllowsIo(s)
     \/ channel[s] = "broken"
     \/ channel[s] = "eof" /\ Op(NextCaller(s)) \notin {"read", "poll"}
  /\ Answer(s, "err")
  /\ IF AllowsIo(s) /\ Op(NextCaller(s)) \in {"read", "poll", "write"}
       THEN Move(s, "channel", "lost") ELSE UNCHANGED output
  /\ UNCHANGED <<registryVars, actor, channel, size, told, pc, cmd>>

\* Seeded fault: the callers of the dropped commands are not woken.
HandleCloseForgetting(s) ==
  /\ queue[s] # <<>> /\ pc[NextCaller(s)] = "closing"
  /\ actor' = [actor EXCEPT ![s] = "stopped"]
  /\ channel' = [channel EXCEPT ![s] = "closed"]
  /\ reply' = [reply EXCEPT ![NextCaller(s)] = "ok"]
  /\ queue' = [queue EXCEPT ![s] = <<>>]
  /\ UNCHANGED <<registryVars, size, output, told, pc, cmd>>

\* Close: the actor answers and stops; the commands still in its channel are
\* dropped, and their callers see their result channel close.
HandleClose(s) ==
  /\ queue[s] # <<>> /\ pc[NextCaller(s)] = "closing"
  /\ actor' = [actor EXCEPT ![s] = "stopped"]
  /\ channel' = [channel EXCEPT ![s] = "closed"]
  /\ reply' = [c \in Callers |->
       IF c = NextCaller(s) THEN "ok"
       ELSE IF \E i \in 1..Len(queue[s]) : queue[s][i] = c THEN "err"
       ELSE reply[c]]
  /\ queue' = [queue EXCEPT ![s] = <<>>]
  /\ UNCHANGED <<registryVars, size, output, told, pc, cmd>>

-----------------------------------------------------------------------------
(***************************************************************************)
(* What the callers do with a result.                                      *)
(***************************************************************************)
Result(c, r) == pc[c] = "wait" /\ reply[c] = r

Take(c, to) ==
  /\ pc' = [pc EXCEPT ![c] = to]
  /\ reply' = [reply EXCEPT ![c] = None]

\* send_input keeps the output it got for poll_events.
Written ==
  /\ Op(Main) = "write" /\ Result(Main, "ok")
  /\ Take(Main, "idle")
  /\ Move(cmd.session, Hand(Main), "buffer")
  /\ UNCHANGED <<registryVars, actorVars, told, cmd>>

\* poll_events returns what it read and what was kept, and does not look at
\* whether the channel is at its end.
Polled ==
  /\ Op(Main) = "poll" /\ (Result(Main, "ok") \/ Result(Main, "closed"))
  /\ Take(Main, "idle")
  /\ output' = [output EXCEPT ![cmd.session] =
       [n \in Chunks |-> IF @[n] \in {Hand(Main), "buffer"} THEN "window" ELSE @[n]]]
  /\ UNCHANGED <<registryVars, actorVars, told, cmd>>

\* Every other end of a command of the window changes nothing.
Returned ==
  /\ Result(Main, "err") \/ (Op(Main) = "resize" /\ Result(Main, "ok"))
  /\ Take(Main, "idle")
  /\ UNCHANGED <<registryVars, actorVars, output, told, cmd>>

\* output_reader_loop: the output goes to the window; after the end of the
\* file, or an error, the session is cleaned up.
ReaderResult(s) ==
  LET c == Reader(s) IN
  /\ \/ Result(c, "ok") /\ Take(c, "lookup") /\ UNCHANGED told
     \/ Result(c, "closed") /\ Take(c, "remove") /\ TellClosed(s)
     \/ Result(c, "err") /\ Take(c, "remove") /\ UNCHANGED told
  /\ Move(s, Hand(c), "window")
  /\ UNCHANGED <<registryVars, actorVars, cmd>>

\* start_keepalive: sleep again, or report the error and close.
KeeperResult(s) ==
  LET c == Keeper(s) IN
  /\ \/ Result(c, "ok") /\ Take(c, "lookup")
     \/ Result(c, "err") /\ Take(c, "remove")
  /\ UNCHANGED <<registryVars, actorVars, output, told, cmd>>

-----------------------------------------------------------------------------
(***************************************************************************)
(* disconnect, on the main thread, and close_terminal_session, on a reader *)
(* or keepalive thread.  Both remove the handle in the scrutinee of an     *)
(* if let, so the mutex of the registry stays locked while they wait for   *)
(* the actor to close the channel.                                         *)
(***************************************************************************)
Disconnect(s) ==
  /\ Goto(Main, "idle", "remove")
  /\ actor[s] # "none"
  /\ cmd' = [op |-> "disconnect", session |-> s]
  /\ UNCHANGED <<registryVars, actorVars, reply, output, told>>

\* Seeded fault: the handle is cloned, not removed.
RemoveKeepingHandle(c) ==
  /\ Goto(c, "remove", "closing")
  /\ registryLock = None /\ Of(c) \in runtimes /\ Running(Of(c))
  /\ registryLock' = c
  /\ queue' = [queue EXCEPT ![Of(c)] = Append(@, c)]
  /\ UNCHANGED <<terminals, runtimes, lockVars, actor, channel, size, reply, output, told, cmd>>

\* The handle is removed and the actor told to close.
Remove(c) ==
  /\ Goto(c, "remove", "closing")
  /\ registryLock = None /\ Of(c) \in runtimes
  /\ runtimes' = runtimes \ {Of(c)}
  /\ registryLock' = c
  /\ queue' = [queue EXCEPT ![Of(c)] = Append(@, c)]
  /\ UNCHANGED <<terminals, lockVars, actor, channel, size, reply, output, told, cmd>>

\* Another thread has removed it.
AlreadyRemoved(c) ==
  /\ Goto(c, "remove", "missing")
  /\ registryLock = None /\ Of(c) \notin runtimes
  /\ UNCHANGED <<registryVars, actorVars, reply, output, told, cmd>>

\* Seeded fault: the guard is leaked.
ClosedKeepingLock(c) ==
  /\ pc[c] = "closing" /\ reply[c] # None
  /\ Take(c, "removed")
  /\ UNCHANGED <<registryVars, actorVars, output, told, cmd>>

\* The channel is closed, and the guard goes at the end of the if let.
Closed(c) ==
  /\ pc[c] = "closing" /\ reply[c] # None
  /\ Take(c, "removed")
  /\ registryLock' = None
  /\ UNCHANGED <<terminals, runtimes, lockVars, actorVars, output, told, cmd>>

\* disconnect forgets the session.
Forget ==
  /\ pc[Main] \in {"removed", "missing"}
  /\ terminalsLock = None
  /\ pc' = [pc EXCEPT ![Main] = "announce"]
  /\ terminals' = [terminals EXCEPT ![cmd.session] = None]
  /\ UNCHANGED <<runtimes, registryLock, lockVars, actorVars, reply, output, told, cmd>>

\* close_terminal_session keeps the mutex of terminals while it waits for that
\* of the cached SFTP sessions: whoever needs terminals waits behind it.
LockTerminals(c) ==
  /\ c # Main /\ pc[c] \in {"removed", "missing"}
  /\ terminalsLock = None /\ terminalsLock' = c
  /\ UNCHANGED <<terminals, runtimes, registryLock, sftp, actorVars, reply, output, told, pc, cmd>>

\* Seeded fault: the status is left as it is.
SetDisconnectedSkipped(c) ==
  /\ c # Main /\ pc[c] \in {"removed", "missing"} /\ terminalsLock = c
  /\ terminals[Of(c)] # None => sftp = "free"
  /\ pc' = [pc EXCEPT ![c] = IF pc[c] = "removed" THEN "announce" ELSE "ended"]
  /\ terminalsLock' = None
  /\ UNCHANGED <<terminals, runtimes, registryLock, sftp, actorVars, reply, output, told, cmd>>

\* It evicts the cached SFTP sessions of one that is listed and keeps it as
\* Disconnected; the close is announced if this thread has changed something.
SetDisconnected(c) ==
  /\ c # Main /\ pc[c] \in {"removed", "missing"} /\ terminalsLock = c
  /\ terminals[Of(c)] # None => sftp = "free"
  /\ LET changed == terminals[Of(c)] = "Connected" IN
     /\ terminals' = IF changed THEN [terminals EXCEPT ![Of(c)] = "Disconnected"]
                                ELSE terminals
     /\ pc' = [pc EXCEPT ![c] = IF changed \/ pc[c] = "removed" THEN "announce" ELSE "ended"]
  /\ terminalsLock' = None
  /\ UNCHANGED <<runtimes, registryLock, sftp, actorVars, reply, output, told, cmd>>

\* Seeded fault: only close_terminal_session tells the window.
AnnounceUnlessMain(c) ==
  /\ Goto(c, "announce", Home(c))
  /\ IF c = Main THEN Move(Of(c), "buffer", "lost") /\ UNCHANGED told
                 ELSE TellClosed(Of(c)) /\ UNCHANGED output
  /\ UNCHANGED <<registryVars, actorVars, reply, cmd>>

\* mark_terminal_disconnected and emit_terminal_closed; disconnect also drops
\* the output kept for poll_events.
Announce(c) ==
  /\ Goto(c, "announce", Home(c))
  /\ TellClosed(Of(c))
  /\ IF c = Main THEN Move(Of(c), "buffer", "lost") ELSE UNCHANGED output
  /\ UNCHANGED <<registryVars, actorVars, reply, cmd>>

-----------------------------------------------------------------------------
Handle(s) ==
  HandleRead(s) \/ HandleWrite(s) \/ HandleResize(s) \/ HandleKeepalive(s)
    \/ HandleUnready(s) \/ HandleClose(s)

Step(c) ==
  \/ Found(c) \/ NotFound(c) \/ Send(c)
  \/ Remove(c) \/ AlreadyRemoved(c) \/ Closed(c)
  \/ LockTerminals(c) \/ SetDisconnected(c) \/ Announce(c)

MainStep ==
  \/ Enter \/ Register \/ EnsureExists \/ Written \/ Polled \/ Returned \/ Forget
  \/ Step(Main)
ReaderStep(s) == ReaderResult(s) \/ Step(Reader(s))
KeeperStep(s) == KeeperResult(s) \/ Step(Keeper(s))

Command(s) ==
  \/ Connect(s) \/ Disconnect(s)
  \/ \E op \in Commands : Invoke(op, s)

Next ==
  \/ MainStep
  \/ SftpTakes \/ SftpReturns \/ SftpSticks
  \/ \E s \in Sessions :
       \/ Command(s) \/ Handle(s) \/ ReaderStep(s) \/ KeeperStep(s)
       \/ \E n \in Chunks : Produce(s, n)
       \/ ChannelEnds(s)

Spec == Init /\ [][Next]_vars

(***************************************************************************)
(* Threads that can go on do, and get a mutex that is free again and       *)
(* again; an actor works off its channel; an operation on files ends or    *)
(* blocks itself. No command and nothing the server does is forced.        *)
(***************************************************************************)
FairSpec ==
  /\ Spec /\ SF_vars(MainStep) /\ WF_vars(SftpReturns \/ SftpSticks)
  /\ \A s \in Sessions : WF_vars(Handle(s)) /\ SF_vars(ReaderStep(s)) /\ SF_vars(KeeperStep(s))

-----------------------------------------------------------------------------
Status == {"Connected", "Disconnected"}
Place == {"server", "channel", "main", "reader", "buffer", "window", "lost"}

TypeOK ==
  /\ terminals \in [Sessions -> Status \cup {None}]
  /\ runtimes \in SUBSET Sessions
  /\ registryLock \in Callers \cup {None} /\ terminalsLock \in Callers \cup {None}
  /\ sftp \in {"free", "busy", "stuck"}
  /\ actor \in [Sessions -> {"none", "ready", "closed", "stopped"}]
  /\ queue \in [Sessions -> Seq(Callers)]
  /\ reply \in [Callers -> {"ok", "closed", "err", None}]
  /\ channel \in [Sessions -> {"open", "eof", "broken", "closed"}]
  /\ size \in [Sessions -> {"80x24", PaneSize}]
  /\ output \in [Sessions -> [Chunks -> Place]]
  /\ told \in SUBSET Sessions
  /\ pc \in [Callers -> {"off", "idle", "enter", "register", "check", "lookup", "send",
                         "wait", "remove", "closing", "removed", "missing", "announce", "ended"}]
  /\ cmd \in [op : {None, "connect", "disconnect", "write", "resize", "poll"},
             session : Sessions \cup {None}]

\* A thread on its way through disconnect or close_terminal_session for s.
Closing(c, s) ==
  Of(c) = s /\ pc[c] \in {"remove", "closing", "removed", "missing", "announce"}

\* connect_ssh is between the start of the actor and its entry in the registry.
Opening(s) == pc[Main] \in {"enter", "register"} /\ cmd.session = s

(***************************************************************************)
(* A handle in the registry always leads to an actor that still runs and   *)
(* that no one has told to close: whoever closes a session, and there can  *)
(* be three that try, has taken the handle out first.                      *)
(***************************************************************************)
RegisteredActorRuns ==
  \A s \in runtimes :
    /\ Running(s)
    /\ \A c \in Callers : pc[c] = "closing" => Of(c) # s

(***************************************************************************)
(* No call waits for an answer that nobody will give: its command is in    *)
(* the channel of a running actor, or it was answered, also when the actor *)
(* stopped with the command still in its channel.                          *)
(***************************************************************************)
NoCallIsForgotten ==
  \A c \in Callers : pc[c] \in {"wait", "closing"} /\ reply[c] = None =>
    /\ Running(Of(c))
    /\ \E i \in 1..Len(queue[Of(c)]) : queue[Of(c)][i] = c

(***************************************************************************)
(* There are no ghost sessions: one that is listed as Connected is in the  *)
(* registry, unless it is about to be put there or some thread is closing  *)
(* it; one in the registry is listed as Connected.                         *)
(***************************************************************************)
ConnectedIsRegistered ==
  \A s \in Sessions :
    /\ terminals[s] = "Connected" /\ s \notin runtimes =>
         \/ Opening(s)
         \/ \E c \in Callers : Closing(c, s)
    /\ s \in runtimes => terminals[s] = "Connected"

(***************************************************************************)
(* No session goes silently: when one that was connected is in neither     *)
(* map's care any more and no thread is still closing it, the window has   *)
(* been told that it closed.  With three threads that can close it, and    *)
(* each announcing only what it has changed, someone always does.          *)
(***************************************************************************)
GoneIsAnnounced ==
  \A s \in Sessions :
    \/ actor[s] = "none" \/ s \in runtimes \/ s \in told
    \/ Opening(s)
    \/ \E c \in Callers : Closing(c, s)

\* An operation on files has blocked itself, and a close that waits for it keeps
\* terminals, and so every thread that needs terminals, waiting for ever.
CloseIsStuck ==
  sftp = "stuck" /\ \E c \in Callers : terminalsLock = c /\ terminals[Of(c)] # None

(***************************************************************************)
(* The main thread, and the window with it, never hangs in a terminal      *)
(* command, whatever the session's other threads, the server and slow      *)
(* operations on files do; all that stops it is a close that waits for a   *)
(* mutex which an operation on files has lost for ever.                    *)
(***************************************************************************)
CommandsReturn == pc[Main] # "idle" ~> (pc[Main] = "idle" \/ CloseIsStuck)

(***************************************************************************)
(* A session whose shell exits or whose connection breaks is taken from    *)
(* the registry and announced as closed without the user's help, also when *)
(* a poll_events was the one to read the end of the file. But for a stuck  *)
(* close, no lock that another thread's close keeps prevents it.           *)
(***************************************************************************)
DeadSessionIsClosed ==
  \A s \in Sessions : channel[s] \in {"eof", "broken"} ~>
    \/ s \notin runtimes /\ s \in told /\ actor[s] = "stopped"
    \/ CloseIsStuck

(***************************************************************************)
(* No thread outlives its session: after the handle is gone the reader and *)
(* the keepalive thread end, but for those a stuck close keeps.            *)
(***************************************************************************)
HelpersEnd ==
  \A s \in Sessions : actor[s] = "stopped" ~>
    \/ pc[Reader(s)] = "ended" /\ pc[Keeper(s)] = "ended"
    \/ CloseIsStuck

(***************************************************************************)
(* terminal_service.rs:361: the keepalive thread "sends SSH ignore         *)
(* messages periodically".  So a keepalive leaves the terminal as it was:  *)
(* the size the user's pane asked for stays the size of the remote PTY.    *)
(***************************************************************************)
KeepaliveKeepsSize ==
  [][\A s \in Sessions : size[s] = PaneSize => size'[s] = PaneSize]_vars

(***************************************************************************)
(* docs/design.md:385: output goes from the channel through the background *)
(* thread and an event to the window.  So a chunk that a command took from *)
(* the channel still gets to the window while the session is registered.   *)
(***************************************************************************)
OutputReachesWindow ==
  \A s \in Sessions, n \in Chunks :
    output[s][n] \in {"main", "buffer"} ~> (output[s][n] = "window" \/ s \notin runtimes)
=============================================================================
