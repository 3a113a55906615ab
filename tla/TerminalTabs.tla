--------------------------- MODULE TerminalTabs ---------------------------
(***************************************************************************)
(* The terminal tabs of the window and what they know of the backend.      *)
(*                                                                         *)
(* The window has one thread. An async function runs to its next await; a  *)
(* reply or an event of the backend starts the next piece. Tabs are        *)
(* objects: code that waits keeps the object, the store finds tabs by id,  *)
(* and the id of the first tab of a host is used again after it was        *)
(* closed. The order of the tabs on the screen is left out: where the code *)
(* takes the first tab, the model takes any.                               *)
(***************************************************************************)
EXTENDS Integers, Sequences, FiniteSets

CONSTANTS
    Hosts,         \* the hosts of the session tree
    MaxTabs,       \* tab objects made in a behaviour
    MaxConnects,   \* calls of connect_ssh; the n-th opens backend session n
    MaxInputs,     \* pieces of input
    NoTab          \* the empty activeTerminalId

ASSUME TabsAssumption ==
    /\ MaxTabs \in Nat /\ MaxConnects \in Nat /\ MaxInputs \in Nat
    /\ Hosts /= {}
    /\ NoTab \notin Hosts \X (0..MaxTabs)

Tabs == 1..MaxTabs
Backends == 1..MaxConnects
Inputs == 1..MaxInputs
Ids == Hosts \X (0..MaxTabs)    \* k = 0: term-<host>, else term-<host>-<time>
Main(h) == <<h, 0>>

VARIABLES
    tabs,      \* the tab objects, also those no longer in terminalState.tabs
    made,      \* how many there are
    open,      \* the objects in terminalState.tabs
    active,    \* activeTerminalId
    host,      \* status and backendSessionId of each host in sessionState
    calls,     \* the calls of connect_ssh, by the session they open
    live,      \* the sessions that run in the backend
    closing,   \* sessions whose disconnect_session is on its way
    events,    \* events on their way to the window
    sends,     \* the inputs and how far they got
    chain,     \* the last send of each tab id
    queue,     \* input kept until the tab is connected again
    flush,     \* what each reconnect has still to send of the queue
    written    \* what the backend wrote to each session

vars == <<tabs, made, open, active, host, calls, live, closing, events, sends,
          chain, queue, flush, written>>
inputVars == <<sends, chain, queue, flush, written>>
backendVars == <<live, closing, events>>

TabStatus == {"connecting", "connected", "disconnecting", "disconnected", "failed"}
Tab == [id : Ids, backend : 0..MaxConnects, status : TabStatus]
HostStatus == {"idle", "connecting", "connected", "failed"}
Call == [op : {"connect", "more", "reconnect"}, id : Ids,
         state : {"unused", "asked", "opened", "refused", "done"}]
Send == [state : {"unused", "queued", "flushing", "waiting", "writing", "done"},
         tab : 0..MaxTabs,          \* the object it was typed into
         snap : 0..MaxConnects,     \* backend in a copy of the tab, 0: no copy
         after : 0..MaxInputs,      \* the send it waits for
         via : 0..MaxTabs,          \* latestTab
         to : 0..MaxConnects]       \* the session it is written to

\* A tab of the code before anything happened to it
Blank == [id |-> CHOOSE i \in Ids : TRUE, backend |-> 0, status |-> "failed"]
NoCall == [op |-> "connect", id |-> CHOOSE i \in Ids : TRUE, state |-> "unused"]
NoSend == [state |-> "unused", tab |-> 0, snap |-> 0, after |-> 0, via |-> 0, to |-> 0]

TypeOK ==
    /\ tabs \in [Tabs -> Tab] /\ made \in 0..MaxTabs
    /\ open \subseteq 1..made /\ active \in Ids \cup {NoTab}
    /\ host \in [Hosts -> [status : HostStatus, backend : 0..MaxConnects]]
    /\ calls \in [Backends -> Call]
    /\ live \subseteq Backends /\ closing \subseteq Backends
    /\ events \subseteq [kind : {"closed", "error"}, backend : Backends]
    /\ sends \in [Inputs -> Send] /\ chain \in [Ids -> 0..MaxInputs]
    /\ queue \in [Ids -> Seq(Inputs)] /\ flush \in [Backends -> Seq(Inputs)]
    /\ written \in [Backends -> Seq(Inputs)]

Init ==
    /\ tabs = [o \in Tabs |-> Blank] /\ made = 0 /\ open = {} /\ active = NoTab
    /\ host = [h \in Hosts |-> [status |-> "idle", backend |-> 0]]
    /\ calls = [c \in Backends |-> NoCall]
    /\ live = {} /\ closing = {} /\ events = {}
    /\ sends = [n \in Inputs |-> NoSend] /\ chain = [i \in Ids |-> 0]
    /\ queue = [i \in Ids |-> <<>>] /\ flush = [c \in Backends |-> <<>>]
    /\ written = [c \in Backends |-> <<>>]

---------------------------------------------------------------------------
\* The stores

\* terminalState.tabs.find: the open tabs with an id, at most one
WithId(i) == {o \in open : tabs[o].id = i}
WithBackend(c) == {o \in open : tabs[o].backend = c}

\* patchTerminal changes the open tab with this id, if there is one
PatchStatus(i, s) ==
    tabs' = [o \in Tabs |-> IF o \in WithId(i) THEN [tabs[o] EXCEPT !.status = s] ELSE tabs[o]]
Connected(i, c) ==
    tabs' = [o \in Tabs |-> IF o \in WithId(i)
                THEN [tabs[o] EXCEPT !.backend = c, !.status = "connected"] ELSE tabs[o]]
PatchHost(h, s, c) == host' = [host EXCEPT ![h] = [status |-> s, backend |-> c]]

\* Seeded fault: a tab is added even if one with this id is open
OpenTerminalTwice(i, c) ==
    /\ made' = made + 1
    /\ tabs' = [tabs EXCEPT ![made + 1] = [id |-> i, backend |-> c, status |-> "connected"]]
    /\ open' = open \cup {made + 1} /\ active' = i

\* openTerminal with a session: fills in the open tab with this id or adds one
OpenTerminal(i, c) ==
    /\ IF WithId(i) /= {}
       THEN Connected(i, c) /\ UNCHANGED <<made, open>>
       ELSE /\ made' = made + 1
            /\ tabs' = [tabs EXCEPT ![made + 1] =
                            [id |-> i, backend |-> c, status |-> "connected"]]
            /\ open' = open \cup {made + 1}
    /\ active' = i

---------------------------------------------------------------------------
\* Connecting. A call takes the next number.

Ask(c, op, i) ==
    /\ calls[c].state = "unused"
    /\ \A d \in 1..(c - 1) : calls[d].state /= "unused"
    /\ calls' = [calls EXCEPT ![c] = [op |-> op, id |-> i, state |-> "asked"]]

Pending(op) == {c \in Backends : calls[c].op = op /\ calls[c].state \in {"asked", "opened"}}

\* connectSession up to its await; a slot of MaxTabs is kept for its tab
ConnectSession(h, c) ==
    /\ made + Cardinality(Pending("connect")) < MaxTabs
    /\ Ask(c, "connect", Main(h))
    /\ host' = [host EXCEPT ![h].status = "connecting"]
    /\ UNCHANGED <<tabs, made, open, active, backendVars, inputVars>>

\* openAdditionalTerminal up to its await: the tab exists before the session
OpenAdditional(h, c) ==
    /\ made + Cardinality(Pending("connect")) < MaxTabs
    /\ LET i == <<h, made + 1>> IN
        /\ Ask(c, "more", i)
        /\ tabs' = [tabs EXCEPT ![made + 1] =
                        [id |-> i, backend |-> 0, status |-> "connecting"]]
        /\ active' = i
    /\ made' = made + 1 /\ open' = open \cup {made + 1}
    /\ UNCHANGED <<host, backendVars, inputVars>>

\* reconnectTerminalTab up to its await; any status, the menu offers it always
Reconnect(o, c) ==
    /\ o \in open
    /\ Ask(c, "reconnect", tabs[o].id)
    /\ PatchStatus(tabs[o].id, "connecting")
    /\ PatchHost(tabs[o].id[1], "connecting", 0)
    /\ UNCHANGED <<made, open, active, backendVars, inputVars>>

Answered(c, op, reply) ==
    /\ calls[c].op = op /\ calls[c].state = reply
    /\ calls' = [calls EXCEPT ![c].state = "done"]

ConnectDone(c) ==
    /\ Answered(c, "connect", "opened")
    /\ PatchHost(calls[c].id[1], "connected", c)
    /\ OpenTerminal(calls[c].id, c)
    /\ UNCHANGED <<backendVars, inputVars>>

ConnectFailed(c) ==
    /\ Answered(c, "connect", "refused")
    /\ host' = [host EXCEPT ![calls[c].id[1]].status = "failed"]
    /\ UNCHANGED <<tabs, made, open, active, backendVars, inputVars>>

MoreDone(c) ==
    /\ Answered(c, "more", "opened")
    /\ Connected(calls[c].id, c)
    /\ UNCHANGED <<made, open, active, host, backendVars, inputVars>>

MoreFailed(c) ==
    /\ Answered(c, "more", "refused")
    /\ PatchStatus(calls[c].id, "failed")
    /\ UNCHANGED <<made, open, active, host, backendVars, inputVars>>

\* The queue is taken as a whole and sent one by one (FlushNext)
ReconnectDone(c) ==
    LET i == calls[c].id IN
    /\ Answered(c, "reconnect", "opened")
    /\ PatchHost(i[1], "connected", c)
    /\ Connected(i, c)
    /\ flush' = [flush EXCEPT ![c] = queue[i]]
    /\ queue' = [queue EXCEPT ![i] = <<>>]
    /\ sends' = [n \in Inputs |-> IF sends[n].state = "queued" /\ tabs[sends[n].tab].id = i
                    THEN [sends[n] EXCEPT !.state = "flushing", !.snap = c] ELSE sends[n]]
    /\ UNCHANGED <<made, open, active, backendVars, chain, written>>

\* Seeded fault: a refused reconnect tells the host and forgets the tab
ReconnectFailedSilently(c) ==
    /\ Answered(c, "reconnect", "refused")
    /\ PatchHost(calls[c].id[1], "failed", 0)
    /\ UNCHANGED <<tabs, made, open, active, backendVars, inputVars>>

ReconnectFailed(c) ==
    /\ Answered(c, "reconnect", "refused")
    /\ PatchStatus(calls[c].id, "failed")
    /\ PatchHost(calls[c].id[1], "failed", 0)
    /\ UNCHANGED <<made, open, active, backendVars, inputVars>>

\* Once settled, a send is forgotten, and its chain if it was the last of it
Done(n) == [NoSend EXCEPT !.state = "done", !.snap = sends[n].snap]
Unchained(n) == [i \in Ids |-> IF chain[i] = n THEN 0 ELSE chain[i]]

---------------------------------------------------------------------------
\* Closing: one tab, the others, all, or those of a host in one loop without
\* a reply in it. The queue, the chain and the buffer of the id are dropped.
CloseTabs(S) ==
    LET ids == {tabs[o].id : o \in S} IN
    /\ S \subseteq open /\ S /= {}
    /\ tabs' = [o \in Tabs |-> IF o \in S THEN [tabs[o] EXCEPT !.status = "disconnecting"]
                                          ELSE tabs[o]]
    /\ open' = open \ S
    /\ active' \in IF active \notin ids THEN {active}
                   ELSE IF open = S THEN {NoTab} ELSE {tabs[o].id : o \in open \ S}
    /\ closing' = closing \cup ({tabs[o].backend : o \in S} \ {0})
    /\ queue' = [i \in Ids |-> IF i \in ids THEN <<>> ELSE queue[i]]
    /\ chain' = [i \in Ids |-> IF i \in ids THEN 0 ELSE chain[i]]
    /\ sends' = [n \in Inputs |-> IF sends[n].state = "queued" /\ sends[n].tab \in S
                    THEN Done(n) ELSE sends[n]]
    /\ UNCHANGED <<made, host, calls, live, events, flush, written>>

---------------------------------------------------------------------------
\* Input

NextInput(n) == sends[n].state = "unused" /\ \A k \in 1..(n - 1) : sends[k].state /= "unused"

\* Seeded fault: a send does not wait for the one before
Unordered(n, o, snap) ==
    /\ sends' = [sends EXCEPT ![n] =
            [NoSend EXCEPT !.state = "waiting", !.tab = o, !.snap = snap]]
    /\ chain' = [chain EXCEPT ![tabs[o].id] = n]

\* enqueueTerminalSend: wait for the last send of the same id
Chained(n, o, snap) ==
    /\ sends' = [sends EXCEPT ![n] =
            [NoSend EXCEPT !.state = "waiting", !.tab = o, !.snap = snap,
                           !.after = chain[tabs[o].id]]]
    /\ chain' = [chain EXCEPT ![tabs[o].id] = n]

\* Keys typed into a connected terminal, or a command sent or broadcast to it
Type(n, o) ==
    /\ NextInput(n) /\ o \in open /\ tabs[o].status = "connected"
    /\ Chained(n, o, 0)
    /\ UNCHANGED <<tabs, made, open, active, host, calls, backendVars, queue, flush, written>>

\* sendInputToActiveTerminal while the tab is not connected
Enqueue(n, o) ==
    /\ NextInput(n) /\ o \in open /\ tabs[o].id = active /\ tabs[o].status /= "connected"
    /\ queue' = [queue EXCEPT ![active] = Append(@, n)]
    /\ sends' = [sends EXCEPT ![n] = [NoSend EXCEPT !.state = "queued", !.tab = o]]
    /\ UNCHANGED <<tabs, made, open, active, host, calls, backendVars, chain, flush, written>>

\* flushTerminalInputQueue: the next one, after the one before has settled
FlushNext(c) ==
    /\ flush[c] /= <<>>
    /\ LET n == Head(flush[c]) IN
        \/ /\ sends[n].state = "flushing"
           /\ Chained(n, sends[n].tab, c)
           /\ UNCHANGED flush
        \/ /\ sends[n].state = "done"
           /\ flush' = [flush EXCEPT ![c] = Tail(@)]
           /\ UNCHANGED <<sends, chain>>
    /\ UNCHANGED <<tabs, made, open, active, host, calls, backendVars, queue, written>>

Settled(n) == n \in {0} \cup {k \in Inputs : sends[k].state = "done"}

\* sendTerminalDataNow: the backend of the tab that was kept is that of the copy
\* made by a flush, else whatever the object holds now
Kept(n) == IF sends[n].snap /= 0 THEN sends[n].snap ELSE tabs[sends[n].tab].backend

\* Seeded fault: the session of the tab that has the id now is not compared
MatchesAnyTab(n) == WithId(tabs[sends[n].tab].id)

Matches(n) == {o \in WithId(tabs[sends[n].tab].id) : tabs[o].backend = Kept(n)}

SendNow(n) ==
    /\ sends[n].state = "waiting" /\ Settled(sends[n].after)
    /\ \E o \in Matches(n) :
        sends' = [sends EXCEPT ![n].state = "writing", ![n].via = o, ![n].to = tabs[o].backend]
    /\ UNCHANGED <<tabs, made, open, active, host, calls, backendVars, chain, queue, flush, written>>

\* The tab is gone or has another session: the input is dropped
SendDropped(n) ==
    /\ sends[n].state = "waiting" /\ Settled(sends[n].after) /\ Matches(n) = {}
    /\ sends' = [sends EXCEPT ![n] = Done(n)] /\ chain' = Unchained(n)
    /\ UNCHANGED <<tabs, made, open, active, host, calls, backendVars, queue, flush, written>>

Wrote(n) ==
    /\ sends[n].state = "writing" /\ sends[n].to \in live
    /\ written' = [written EXCEPT ![sends[n].to] = Append(@, n)]
    /\ sends' = [sends EXCEPT ![n] = Done(n)] /\ chain' = Unchained(n)
    /\ UNCHANGED <<tabs, made, open, active, host, calls, backendVars, queue, flush>>

\* The write fails. latestTab is an object too: the comparison after the await
\* is with the session it holds then. A failure in a flush ends the flush.
WriteFailed(n) ==
    LET i == tabs[sends[n].tab].id
        matters == \E o \in WithId(i) : tabs[o].backend = tabs[sends[n].via].backend
        flushes == {c \in Backends : flush[c] /= <<>> /\ Head(flush[c]) = n}
    IN
    /\ sends[n].state = "writing"
    /\ IF matters
       THEN /\ PatchStatus(i, "failed")
            /\ flush' = [c \in Backends |-> IF c \in flushes THEN <<>> ELSE flush[c]]
            /\ sends' = [k \in Inputs |->
                    IF k = n \/ \E c \in flushes : sends[k].state = "flushing" /\ sends[k].snap = c
                    THEN Done(k) ELSE sends[k]]
            /\ IF flushes /= {} THEN PatchHost(i[1], "failed", 0) ELSE UNCHANGED host
       ELSE /\ sends' = [sends EXCEPT ![n] = Done(n)]
            /\ UNCHANGED <<tabs, host, flush>>
    /\ chain' = Unchained(n)
    /\ UNCHANGED <<made, open, active, calls, backendVars, queue, written>>

---------------------------------------------------------------------------
\* The backend

BackendOpens(c) ==
    /\ calls[c].state = "asked"
    /\ calls' = [calls EXCEPT ![c].state = "opened"]
    /\ live' = live \cup {c}
    /\ UNCHANGED <<tabs, made, open, active, host, closing, events, inputVars>>

BackendRefuses(c) ==
    /\ calls[c].state = "asked"
    /\ calls' = [calls EXCEPT ![c].state = "refused"]
    /\ UNCHANGED <<tabs, made, open, active, host, backendVars, inputVars>>

Event(kind, c) == [kind |-> kind, backend |-> c]

\* The connection ends, or fails: the reply of connect_ssh may still be on its way
BackendEnds(c) ==
    /\ c \in live /\ live' = live \ {c}
    /\ \/ events' = events \cup {Event("closed", c)}
       \/ events' = events \cup {Event("error", c), Event("closed", c)}
    /\ UNCHANGED <<tabs, made, open, active, host, calls, closing, inputVars>>

BackendCloses(c) ==
    /\ c \in closing /\ closing' = closing \ {c}
    /\ live' = live \ {c}
    /\ events' = IF c \in live THEN events \cup {Event("closed", c)} ELSE events
    /\ UNCHANGED <<tabs, made, open, active, host, calls, inputVars>>

CloseFailed(c) ==
    /\ c \in closing /\ closing' = closing \ {c}
    /\ UNCHANGED <<tabs, made, open, active, host, calls, live, events, inputVars>>

---------------------------------------------------------------------------
\* Events of the backend. Those of one session arrive in order.

TerminalClosed(c) ==
    /\ Event("closed", c) \in events /\ Event("error", c) \notin events
    /\ events' = events \ {Event("closed", c)}
    /\ IF WithBackend(c) = {}
       THEN UNCHANGED <<tabs, host, active>>
       ELSE \E o \in WithBackend(c) :
            LET rest == {p \in open \ {o} : tabs[p].status = "connected"} IN
            /\ PatchStatus(tabs[o].id, "disconnected")
            /\ PatchHost(tabs[o].id[1], "idle", 0)
            /\ active' \in IF active /= tabs[o].id THEN {active}
                           ELSE IF rest = {} THEN {NoTab} ELSE {tabs[p].id : p \in rest}
    /\ UNCHANGED <<made, open, calls, live, closing, inputVars>>

TerminalError(c) ==
    /\ Event("error", c) \in events
    /\ events' = events \ {Event("error", c)}
    /\ IF WithBackend(c) = {}
       THEN UNCHANGED <<tabs, host>>
       ELSE \E o \in WithBackend(c) :
            /\ PatchStatus(tabs[o].id, "failed")
            /\ PatchHost(tabs[o].id[1], "failed", 0)
    /\ UNCHANGED <<made, open, active, calls, live, closing, inputVars>>

\* A click on a tab
Activate(o) ==
    /\ o \in open /\ active' = tabs[o].id /\ active' /= active
    /\ UNCHANGED <<tabs, made, open, host, calls, backendVars, inputVars>>

---------------------------------------------------------------------------
Replies(c) ==
    \/ ConnectDone(c) \/ ConnectFailed(c) \/ MoreDone(c) \/ MoreFailed(c)
    \/ ReconnectDone(c) \/ ReconnectFailed(c)

\* What the widgets offer
OfHost(h) == {o \in open : tabs[o].id[1] = h}

\* The bar of a host's terminals: its button, and a tab and its menu, which
\* offers Reconnect whatever the status. Closing asks nothing here.
TabBar ==
    \E h \in Hosts :
        \/ \E c \in Backends : OpenAdditional(h, c)
        \/ \E o \in OfHost(h) :
            \/ Activate(o)
            \/ \E c \in Backends : Reconnect(o, c)
            \/ \E S \in {{o}, OfHost(h) \ {o}, OfHost(h)} : CloseTabs(S)

\* The bar of hosts: show one, close one, the others, those to the right, all
SessionBar ==
    \/ \E h \in Hosts, o \in open : o \in OfHost(h) /\ Activate(o)
    \/ \E G \in SUBSET Hosts : CloseTabs(UNION {OfHost(h) : h \in G})

\* A pane: typing while it is connected, its button when it failed or ended
TypingPane ==
    \E o \in open :
        \/ \E n \in Inputs : Type(n, o)
        \/ tabs[o].status \in {"failed", "disconnected"} /\ \E c \in Backends : Reconnect(o, c)

\* session.reconnect: a terminal of the host that failed or ended before any
\* other; terminal.reconnectActive: the one that is shown, whatever its status
Reconnectable(h) ==
    LET ended == {o \in OfHost(h) : tabs[o].status \in {"failed", "disconnected"}}
    IN  IF ended /= {} THEN ended ELSE OfHost(h)
ReconnectCommand ==
    \E c \in Backends :
        \/ \E h \in Hosts : \E o \in Reconnectable(h) : Reconnect(o, c)
        \/ \E o \in open : tabs[o].id = active /\ Reconnect(o, c)

User ==
    \/ \E h \in Hosts, c \in Backends : ConnectSession(h, c)
    \/ TabBar \/ SessionBar \/ TypingPane \/ ReconnectCommand
    \/ \E n \in Inputs, o \in open : Enqueue(n, o)

Next ==
    \/ User
    \/ \E c \in Backends :
        \/ Replies(c) \/ FlushNext(c)
        \/ BackendOpens(c) \/ BackendRefuses(c) \/ BackendEnds(c)
        \/ BackendCloses(c) \/ CloseFailed(c)
        \/ TerminalClosed(c) \/ TerminalError(c)
    \/ \E n \in Inputs : SendNow(n) \/ SendDropped(n) \/ Wrote(n) \/ WriteFailed(n)

\* The window runs the reply of a call once there is one. The backend owes none:
\* SSH_CONNECT_TIMEOUT bounds the name resolution and the TCP connection, while
\* the handshake and the authentication may wait for a silent server for ever.
Fairness == \A c \in Backends : WF_vars(Replies(c))

Spec == Init /\ [][Next]_vars /\ Fairness

---------------------------------------------------------------------------
\* Properties

\* Two open tabs never share an id (openTerminal, patchTerminal and the event
\* handlers find tabs by id) nor a backend session: output of a session goes
\* to one tab, and closing a tab does not end the session of another.
TabsAreDistinct ==
    \A o, p \in open : o /= p =>
        /\ tabs[o].id /= tabs[p].id
        /\ tabs[o].backend = 0 \/ tabs[o].backend /= tabs[p].backend

\* Nothing is written twice, and what a session got came in the order in which
\* it was typed or, for queued input, queued: chains, flushes and reconnects
\* may drop input but neither repeat nor reorder it among its kind.
InputOnceInOrder ==
    /\ \A c, d \in Backends : \A i \in DOMAIN written[c], j \in DOMAIN written[d] :
        written[c][i] = written[d][j] => c = d /\ i = j
    /\ \A c \in Backends : \A i, j \in DOMAIN written[c] :
        (i < j /\ sends[written[c][i]].snap = sends[written[c][j]].snap)
            => written[c][i] < written[c][j]

\* Input goes to the tab it was typed into: the write starts while that object
\* is open and holds the session. A tab closed meanwhile, even if the host was
\* opened again under the same id, gets nothing (sendTerminalInput.ts:36-39).
WritesStayInTab ==
    [][\A n \in Inputs : (sends[n].state = "waiting" /\ sends'[n].state = "writing")
        => sends[n].tab \in open /\ tabs[sends[n].tab].backend = sends'[n].to]_vars

\* No tab and no host is left showing "connecting": it stops, unless a call made
\* for it stays unanswered, whatever was closed or connected again meanwhile.
Unanswered(c) == calls[c].state = "asked"
ConnectingEnds ==
    /\ \A o \in Tabs : (o \in open /\ tabs[o].status = "connecting")
        ~> \/ ~(o \in open /\ tabs[o].status = "connecting")
           \/ \E c \in Backends : Unanswered(c) /\ calls[c].id = tabs[o].id
    /\ \A h \in Hosts : (host[h].status = "connecting")
        ~> \/ host[h].status /= "connecting"
           \/ \E c \in Backends :
                Unanswered(c) /\ calls[c].op /= "more" /\ calls[c].id[1] = h
===========================================================================
