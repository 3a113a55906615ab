--------------------------- MODULE TerminalPane ---------------------------
(***************************************************************************)
(* The way of a terminal's output to the screen: the event of the backend, *)
(* the batch that the next animation frame empties, the line buffer of the *)
(* tab, capped, and the one pane of the workbench, which writes to xterm   *)
(* what its tab's buffer has beyond the number of lines it has rendered.   *)
(*                                                                         *)
(* Vue runs the pane's watchers before the next event is handled, so a     *)
(* handler and the rendering it causes are one step. A line is the number  *)
(* of the output event it came with, or Notice, a line of the window's own.*)
(* The events are those the window handles: output that arrives before the *)
(* answer of the connect call has given the tab its backend session finds  *)
(* no tab, and handleTerminalOutput drops it.                              *)
(***************************************************************************)
EXTENDS Integers, Sequences

CONSTANTS
    PaneTabs,          \* ids of terminal tabs, term-<host>
    NoPane,            \* no terminal is shown
    MaxBufferedLines,  \* maxBufferedLines, 2000 in the code
    MaxOutputs,        \* output events of a tab
    MaxOpens           \* times a tab is opened

VARIABLES
    tabs,       \* the open tabs and the others
    opens,      \* times each tab was opened: its host was connected
    since,      \* history: the outputs of the tab when its buffer was last made
    outputs,    \* output events of each tab that the window has handled
    pending,    \* pendingLines of the batcher
    frame,      \* scheduledHandle: a flush is scheduled
    buffers,    \* the line buffers
    trimmed,    \* history: tabs whose buffer has dropped lines
    pane        \* the mounted pane: its tab, renderedLineCount, and the lines
                \* written to xterm since it was made or cleared

paneVars == <<tabs, opens, since, outputs, pending, frame, buffers, trimmed, pane>>

Notice == 0
NoLines == [tab |-> NoPane, count |-> 0, written |-> <<>>]

TrimLines(lines) ==
    IF Len(lines) <= MaxBufferedLines THEN lines
    ELSE SubSeq(lines, Len(lines) - MaxBufferedLines + 1, Len(lines))

\* renderNewLines
RenderNewLines(p, lines) ==
    [p EXCEPT !.count = Len(lines),
              !.written = @ \o SubSeq(lines, p.count + 1, Len(lines))]

\* Seeded fault: the count of rendered lines survives a change of the tab.
PaneKeepsCount(t, lines) ==
    IF t = pane.tab THEN RenderNewLines(pane, lines)
    ELSE RenderNewLines([pane EXCEPT !.tab = t, !.written = <<>>], lines)

\* The pane for tab t: its watcher of the lines; a change of the tab resets the
\* viewport (xterm.clear) and renders everything, as a pane just mounted does.
Pane(t, lines) ==
    IF t = pane.tab THEN RenderNewLines(pane, lines)
    ELSE RenderNewLines([NoLines EXCEPT !.tab = t], lines)

Show(t) == pane' = IF t = NoPane THEN NoLines ELSE Pane(t, buffers'[t])

\* appendTerminalLines to each tab: only open tabs have a buffer
AppendLines(lines) ==
    /\ buffers' = [t \in PaneTabs |->
                     IF tabs[t] = "open" THEN TrimLines(buffers[t] \o lines[t]) ELSE buffers[t]]
    /\ trimmed' = trimmed \cup
          {t \in PaneTabs : tabs[t] = "open" /\ Len(buffers[t] \o lines[t]) > MaxBufferedLines}
    /\ Show(pane.tab)

TerminalPaneInit ==
    /\ tabs = [t \in PaneTabs |-> "closed"]
    /\ opens = [t \in PaneTabs |-> 0] /\ since = [t \in PaneTabs |-> 0]
    /\ outputs = [t \in PaneTabs |-> 0]
    /\ pending = [t \in PaneTabs |-> <<>>] /\ frame = FALSE
    /\ buffers = [t \in PaneTabs |-> <<>>] /\ trimmed = {} /\ pane = NoLines

\* openTerminal, when a host has been connected: its tab gets a new buffer with
\* the line "Connecting to ..." and is shown at once. The tab may be open, from
\* an earlier connect of the same host: its pane, if it is the one shown, keeps
\* its screen and its count of rendered lines, which is then too large once.
OpenTab(t) ==
    /\ opens[t] < MaxOpens /\ opens' = [opens EXCEPT ![t] = @ + 1]
    /\ tabs' = [tabs EXCEPT ![t] = "open"]
    /\ buffers' = [buffers EXCEPT ![t] = TrimLines(<<Notice>>)]
    /\ since' = [since EXCEPT ![t] = outputs[t]]
    /\ trimmed' = trimmed \ {t}
    /\ Show(t)
    /\ UNCHANGED <<outputs, pending, frame>>

\* closeTerminal: the buffer goes; lines in the batch stay until the flush.
CloseTab(t) ==
    /\ tabs[t] = "open" /\ tabs' = [tabs EXCEPT ![t] = "closed"]
    /\ buffers' = [buffers EXCEPT ![t] = <<>>]
    /\ IF pane.tab # t THEN Show(pane.tab)
       ELSE \E u \in {v \in PaneTabs : tabs'[v] = "open"} \cup {NoPane} :
              /\ u = NoPane => \A v \in PaneTabs : tabs'[v] # "open"
              /\ Show(u)
    /\ UNCHANGED <<opens, since, outputs, pending, frame, trimmed>>

\* The user or a command switches to another tab.
SwitchTab(t) ==
    /\ tabs[t] = "open" /\ t # pane.tab
    /\ UNCHANGED <<tabs, opens, since, outputs, pending, frame, buffers, trimmed>>
    /\ Show(t)

\* Opening the first editor file of a session, or closing the last, moves the
\* pane to the other branch of SessionPane: a new instance.
Remount ==
    /\ pane.tab # NoPane
    /\ pane' = RenderNewLines([NoLines EXCEPT !.tab = pane.tab], buffers[pane.tab])
    /\ UNCHANGED <<tabs, opens, since, outputs, pending, frame, buffers, trimmed>>

\* handleTerminalOutput: only for a tab that is open, and never rendered at once.
HandleTerminalOutput(t) ==
    /\ tabs[t] = "open" /\ outputs[t] < MaxOutputs
    /\ outputs' = [outputs EXCEPT ![t] = @ + 1]
    /\ pending' = [pending EXCEPT ![t] = Append(@, outputs'[t])]
    /\ frame' = TRUE
    /\ UNCHANGED <<tabs, opens, since, buffers, trimmed, pane>>

\* Lines of the window's own, such as handleTerminalError's, pass the batch.
AppendNotice(t) ==
    /\ tabs[t] = "open"
    /\ AppendLines([u \in PaneTabs |-> IF u = t THEN <<Notice>> ELSE <<>>])
    /\ UNCHANGED <<tabs, opens, since, outputs, pending, frame>>

\* flush, in the next animation frame
FlushOutput ==
    /\ frame /\ frame' = FALSE
    /\ AppendLines(pending)
    /\ pending' = [t \in PaneTabs |-> <<>>]
    /\ UNCHANGED <<tabs, opens, since, outputs>>

TerminalPaneNext ==
    \/ \E t \in PaneTabs : \/ OpenTab(t) \/ CloseTab(t) \/ SwitchTab(t)
                           \/ HandleTerminalOutput(t) \/ AppendNotice(t)
    \/ Remount \/ FlushOutput

TerminalPaneSpec == TerminalPaneInit /\ [][TerminalPaneNext]_paneVars

---------------------------------------------------------------------------
\* The lines after line m up to line n are there, in this order, with notices
\* anywhere between them; lines up to m may precede them, in their order.
CountFrom(lines, m, n) ==
    /\ \A i \in 1..Len(lines) : lines[i] = Notice \/ lines[i] \in 1..n
    /\ \A line \in (m + 1)..n : \E i \in 1..Len(lines) : lines[i] = line
    /\ \A i, j \in 1..Len(lines) :
         i < j /\ lines[i] # Notice /\ lines[j] # Notice => lines[i] < lines[j]

\* The output events of the shown tab reach the screen once and in order: what
\* was written to xterm, followed by what waits in the batch, has them in their
\* order, with the window's own lines between them, through batches, switches of
\* tabs, remounts, error lines, trimming, tabs closed and opened again and hosts
\* connected again under an open tab. All since the session was connected are
\* there, and older ones may precede them: what the screen had and what the batch
\* had left. Only of a tab whose buffer has been trimmed some may be missing;
\* OutputReachesScreen shows how many.
OutputShownOnceInOrder ==
    LET t == pane.tab IN
    t # NoPane => CountFrom(pane.written \o pending[t],
                            IF t \in trimmed THEN outputs[t] ELSE since[t], outputs[t])

\* docs/design.md:385 says of a terminal's output that every chunk the backend
\* reads goes over the event to the frontend, where xterm.js renders it: with
\* the batch empty, the newest chunk is on the screen. A full buffer does not
\* get longer: the pane finds nothing beyond the lines it has rendered, and
\* shows no more output.
OutputReachesScreen ==
    LET t == pane.tab IN
    t # NoPane /\ pending[t] = <<>> /\ outputs[t] > since[t] =>
        \E i \in 1..Len(pane.written) : pane.written[i] = outputs[t]
===========================================================================
