------------------------ MODULE TerminalTabsProofs ------------------------
(***************************************************************************)
(* Tabs are told apart, and input stays in the tab it was typed into, for  *)
(* any hosts and any numbers of tabs, calls and inputs.                    *)
(*                                                                         *)
(* The id of a host's first tab is used again after a close, so an id says *)
(* which tab is open, not which object it is. What carries the argument is *)
(* the backend session: each is answered to one call, and the call hands   *)
(* it to one object.                                                       *)
(***************************************************************************)
EXTENDS TerminalTabs, FiniteSetTheorems, TLAPS

\* Room is kept for the tabs of connections under way.
Slots == made + Cardinality(Pending("connect")) <= MaxTabs

\* connectSession asks for the first terminal of a host.
FirstIds ==
    \A c \in Pending("connect") : calls[c].id[2] = 0

\* A further terminal has an id of its own; a first one has a session.
IdsOfObjects ==
    \A o \in 1..made :
        /\ tabs[o].id[2] \in {0, o}
        /\ tabs[o].id[2] = 0 => tabs[o].backend /= 0

\* A session in a tab was answered, and is in one object.
SessionsOfObjects ==
    /\ \A o \in 1..made : tabs[o].backend /= 0 => calls[tabs[o].backend].state = "done"
    /\ \A o, p \in 1..made : tabs[o].backend = tabs[p].backend /\ tabs[o].backend /= 0 => o = p

\* The store finds one tab by id.
OpenIds == \A o, p \in open : tabs[o].id = tabs[p].id => o = p

\* Input on its way was typed into an object, which is open while it is queued.
InputsHaveTab ==
    \A n \in Inputs :
        /\ sends[n].state \in {"queued", "flushing", "waiting", "writing"} => sends[n].tab \in 1..made
        /\ sends[n].state = "queued" => sends[n].tab \in open

\* The session a flush has kept is one that only the tab of the input had.
CopiesOfTab ==
    \A n \in Inputs :
        sends[n].state \in {"flushing", "waiting"} /\ sends[n].snap /= 0 =>
            /\ calls[sends[n].snap].state = "done"
            /\ \A o \in 1..made : tabs[o].backend = sends[n].snap => o = sends[n].tab

Holds(q, n) == \E i \in 1..Len(q) : q[i] = n

\* A queue has input that waits in tabs with its id.
QueuesOfIds ==
    \A i \in Ids, n \in Inputs : Holds(queue[i], n) =>
        sends[n].state = "queued" /\ tabs[sends[n].tab].id = i

\* What a reconnect has taken of a queue is no longer queued, and keeps the
\* session of that reconnect.
FlushesOfCalls ==
    \A c \in Backends, n \in Inputs : Holds(flush[c], n) =>
        /\ sends[n].state \notin {"unused", "queued"}
        /\ sends[n].state = "flushing" => sends[n].snap = c

Objects == IdsOfObjects /\ SessionsOfObjects /\ OpenIds
Traffic == InputsHaveTab /\ CopiesOfTab /\ QueuesOfIds /\ FlushesOfCalls
IInv == TypeOK /\ Slots /\ FirstIds /\ Objects /\ Traffic

\* What every step leaves: the objects and their ids, the calls that were
\* answered, and who has a session that was answered.
Stays ==
    /\ 1..made \subseteq 1..made'
    /\ \A o \in 1..made : tabs'[o].id = tabs[o].id
    /\ \A c \in Backends : calls[c].state = "done" => calls'[c].state = "done"
    /\ \A o \in 1..made', c \in Backends :
         tabs'[o].backend = c /\ calls[c].state = "done" => o \in 1..made /\ tabs[o].backend = c

---------------------------------------------------------------------------
\* What the widgets offer, one action each
LEMMA NextCases ==
    ASSUME Next
    PROVE  \/ \E h \in Hosts, c \in Backends : ConnectSession(h, c) \/ OpenAdditional(h, c)
           \/ \E o \in open, c \in Backends : Reconnect(o, c)
           \/ \E S \in SUBSET open : CloseTabs(S)
           \/ \E o \in open : Activate(o)
           \/ \E n \in Inputs, o \in open : Type(n, o) \/ Enqueue(n, o)
           \/ \E c \in Backends :
                \/ ConnectDone(c) \/ ConnectFailed(c) \/ MoreDone(c) \/ MoreFailed(c)
                \/ ReconnectDone(c) \/ ReconnectFailed(c) \/ FlushNext(c)
                \/ BackendOpens(c) \/ BackendRefuses(c) \/ BackendEnds(c)
                \/ BackendCloses(c) \/ CloseFailed(c) \/ TerminalClosed(c) \/ TerminalError(c)
           \/ \E n \in Inputs : SendNow(n) \/ SendDropped(n) \/ Wrote(n) \/ WriteFailed(n)
    <1>1. ASSUME TabBar
          PROVE  \/ \E h \in Hosts, c \in Backends : OpenAdditional(h, c)
                 \/ \E o \in open, c \in Backends : Reconnect(o, c)
                 \/ \E S \in SUBSET open : CloseTabs(S)
                 \/ \E o \in open : Activate(o)
        BY <1>1 DEF TabBar, OfHost
    <1>2. ASSUME SessionBar
          PROVE  (\E o \in open : Activate(o)) \/ \E S \in SUBSET open : CloseTabs(S)
        BY <1>2 DEF SessionBar, OfHost
    <1>3. ASSUME ReconnectCommand
          PROVE  \E o \in open, c \in Backends : Reconnect(o, c)
        BY <1>3 DEF ReconnectCommand, Reconnectable, OfHost
    <1>4. ASSUME TypingPane
          PROVE  \/ \E n \in Inputs, o \in open : Type(n, o)
                 \/ \E o \in open, c \in Backends : Reconnect(o, c)
        BY <1>4 DEF TypingPane
    <1> QED BY <1>1, <1>2, <1>3, <1>4 DEF Next, User, Replies

\* A tab's parts
LEMMA TabParts ==
    ASSUME TypeOK
    PROVE  /\ made \in Nat /\ MaxTabs \in Nat /\ made <= MaxTabs
           /\ \A o \in Tabs : tabs[o].id \in Ids /\ tabs[o].backend \in 0..MaxConnects
           /\ open \subseteq Tabs /\ \A o \in 1..made : o \in Tabs
    BY TabsAssumption DEF TypeOK, Tabs, Tab

\* Calls under way are finitely many.
LEMMA PendingFinite ==
    ASSUME NEW op
    PROVE  IsFiniteSet(Pending(op)) /\ Cardinality(Pending(op)) \in Nat
    <1>1. IsFiniteSet(Backends)
        BY TabsAssumption, FS_Interval DEF Backends
    <1>2. Pending(op) \subseteq Backends
        BY DEF Pending
    <1> QED BY <1>1, <1>2, FS_Subset, FS_CardinalityType
---------------------------------------------------------------------------
\* Types

\* The numbers of the module
LEMMA SendTypes ==
    /\ NoSend \in Send /\ 0 \in 0..MaxInputs /\ Inputs \subseteq 0..MaxInputs
    /\ 0 \in 0..MaxConnects /\ Backends \subseteq 0..MaxConnects
    /\ 0 \in 0..MaxTabs /\ Tabs \subseteq 0..MaxTabs
    BY TabsAssumption DEF NoSend, Send, Inputs, Backends, Tabs

\* What the actions do to tabs, input and hosts leaves their types.
LEMMA StatusType ==
    ASSUME TypeOK, NEW i, NEW st \in TabStatus, PatchStatus(i, st)
    PROVE  tabs' \in [Tabs -> Tab]
    BY DEF TypeOK, PatchStatus, Tab

LEMMA ConnectedType ==
    ASSUME TypeOK, NEW i, NEW c \in Backends, Connected(i, c)
    PROVE  tabs' \in [Tabs -> Tab]
    <1>1. \A o \in Tabs : [tabs[o] EXCEPT !.backend = c, !.status = "connected"] \in Tab
        BY SendTypes DEF TypeOK, Tab, TabStatus
    <1> QED BY <1>1 DEF TypeOK, Connected

LEMMA HostType ==
    ASSUME TypeOK, NEW h, NEW st \in HostStatus, NEW c \in 0..MaxConnects, PatchHost(h, st, c)
    PROVE  host' \in [Hosts -> [status : HostStatus, backend : 0..MaxConnects]]
    BY DEF TypeOK, PatchHost

LEMMA DoneType ==
    ASSUME TypeOK, NEW n \in Inputs
    PROVE  Done(n) \in Send /\ Unchained(n) \in [Ids -> 0..MaxInputs]
    BY SendTypes DEF TypeOK, Done, Unchained, Send, NoSend

LEMMA ChainedType ==
    ASSUME TypeOK, NEW n \in Inputs, NEW o \in Tabs, NEW snap \in 0..MaxConnects, Chained(n, o, snap)
    PROVE  sends' \in [Inputs -> Send] /\ chain' \in [Ids -> 0..MaxInputs]
    <1>1. tabs[o].id \in Ids /\ chain[tabs[o].id] \in 0..MaxInputs
        BY DEF TypeOK, Tab
    <1> QED BY <1>1, SendTypes DEF TypeOK, Chained, Send, NoSend

LEMMA AskType ==
    ASSUME TypeOK, NEW c, NEW op \in {"connect", "more", "reconnect"}, NEW i \in Ids, Ask(c, op, i)
    PROVE  calls' \in [Backends -> Call]
    BY DEF TypeOK, Ask, Call

LEMMA AnswerType ==
    ASSUME TypeOK, NEW c, NEW op, NEW reply, Answered(c, op, reply)
    PROVE  calls' \in [Backends -> Call]
    BY DEF TypeOK, Answered, Call

\* A tab is added to the objects and to the open ones.
LEMMA NewTabType ==
    ASSUME TypeOK, NEW t \in Tab, made + 1 <= MaxTabs
    PROVE  /\ [tabs EXCEPT ![made + 1] = t] \in [Tabs -> Tab]
           /\ made + 1 \in 0..MaxTabs /\ open \cup {made + 1} \subseteq 1..(made + 1)
    <1>1. made \in Nat /\ MaxTabs \in Nat
        BY TabParts
    <1>2. made + 1 \in Tabs /\ made + 1 \in 0..MaxTabs
        BY <1>1 DEF Tabs
    <1>3. [tabs EXCEPT ![made + 1] = t] \in [Tabs -> Tab]
        BY <1>2 DEF TypeOK
    <1>4. 1..made \subseteq 1..(made + 1) /\ made + 1 \in 1..(made + 1)
        BY <1>1
    <1> QED BY <1>2, <1>3, <1>4 DEF TypeOK

\* Steps that begin a call
LEMMA AskStepType ==
    ASSUME TypeOK, NEW c \in Backends,
           \/ \E h \in Hosts : ConnectSession(h, c) \/ OpenAdditional(h, c)
           \/ \E o \in open : Reconnect(o, c)
    PROVE  TypeOK'
    <1>1. \A h \in Hosts : Main(h) \in Ids /\ (made + 1 <= MaxTabs => <<h, made + 1>> \in Ids)
        BY TabParts DEF Main, Ids
    <1>2. ASSUME NEW h \in Hosts, ConnectSession(h, c)
          PROVE  TypeOK'
        <2>1. calls' \in [Backends -> Call]
            BY <1>1, <1>2, AskType DEF ConnectSession
        <2>2. host' \in [Hosts -> [status : HostStatus, backend : 0..MaxConnects]]
            BY <1>2 DEF ConnectSession, TypeOK, HostStatus
        <2> QED BY <1>2, <2>1, <2>2 DEF ConnectSession, TypeOK, backendVars, inputVars
    <1>3. ASSUME NEW h \in Hosts, OpenAdditional(h, c)
          PROVE  TypeOK'
        <2>1. made + 1 \in Nat /\ made + 1 <= MaxTabs
            BY <1>3, TabParts, PendingFinite DEF OpenAdditional
        <2>2. calls' \in [Backends -> Call] /\ active' \in Ids
            BY <1>1, <1>3, <2>1, AskType DEF OpenAdditional
        <2>3. [id |-> <<h, made + 1>>, backend |-> 0, status |-> "connecting"] \in Tab
            BY <1>1, <2>1, SendTypes DEF Tab, TabStatus
        <2>4. tabs' \in [Tabs -> Tab] /\ made' \in 0..MaxTabs /\ open' \subseteq 1..made'
            BY <1>3, <2>1, <2>3, NewTabType DEF OpenAdditional
        <2> QED BY <1>3, <2>2, <2>4 DEF OpenAdditional, TypeOK, backendVars, inputVars
    <1>4. ASSUME NEW o \in open, Reconnect(o, c)
          PROVE  TypeOK'
        <2>1. tabs[o].id \in Ids
            BY TabParts
        <2>2. calls' \in [Backends -> Call]
            BY <1>4, <2>1, AskType DEF Reconnect
        <2>3. tabs' \in [Tabs -> Tab] /\ host' \in [Hosts -> [status : HostStatus, backend : 0..MaxConnects]]
            BY <1>4, StatusType, HostType, SendTypes DEF Reconnect, TabStatus, HostStatus
        <2> QED BY <1>4, <2>2, <2>3 DEF Reconnect, TypeOK, backendVars, inputVars
    <1> QED BY <1>2, <1>3, <1>4

\* A tab for the session of a first terminal
LEMMA OpenTerminalType ==
    ASSUME TypeOK, Slots, NEW c \in Backends, ConnectDone(c)
    PROVE  /\ tabs' \in [Tabs -> Tab] /\ made' \in 0..MaxTabs
           /\ open' \subseteq 1..made' /\ active' \in Ids
    <1>1. calls[c].id \in Ids /\ c \in Pending("connect")
        BY DEF ConnectDone, Answered, Pending, TypeOK, Call
    <1>2. Cardinality(Pending("connect")) \in Nat \ {0}
        BY <1>1, PendingFinite, FS_EmptySet
    <1>3. made + 1 \in Nat /\ made + 1 <= MaxTabs
        BY <1>2, TabParts DEF Slots
    <1>4. CASE WithId(calls[c].id) /= {}
        BY <1>1, <1>4, ConnectedType DEF ConnectDone, OpenTerminal, TypeOK
    <1>5. CASE WithId(calls[c].id) = {}
        <2>1. [id |-> calls[c].id, backend |-> c, status |-> "connected"] \in Tab
            BY <1>1, SendTypes DEF Tab, TabStatus
        <2> QED BY <1>1, <1>3, <1>5, <2>1, NewTabType DEF ConnectDone, OpenTerminal
    <1> QED BY <1>4, <1>5

\* Steps that take a reply
LEMMA ReplyStepType ==
    ASSUME TypeOK, Slots, NEW c \in Backends, Replies(c)
    PROVE  TypeOK'
    <1>1. calls' \in [Backends -> Call]
        BY AnswerType DEF Replies, ConnectDone, ConnectFailed, MoreDone, MoreFailed,
                          ReconnectDone, ReconnectFailed
    <1>2. CASE ConnectDone(c)
        <2>1. host' \in [Hosts -> [status : HostStatus, backend : 0..MaxConnects]]
            BY <1>2, HostType, SendTypes DEF ConnectDone, HostStatus
        <2> QED BY <1>1, <1>2, <2>1, OpenTerminalType DEF ConnectDone, TypeOK, backendVars, inputVars
    <1>3. CASE ConnectFailed(c)
        BY <1>1, <1>3 DEF ConnectFailed, TypeOK, HostStatus, backendVars, inputVars
    <1>4. CASE MoreDone(c)
        BY <1>1, <1>4, ConnectedType DEF MoreDone, TypeOK, backendVars, inputVars
    <1>5. CASE MoreFailed(c)
        <2>1. tabs' \in [Tabs -> Tab]
            BY <1>5, StatusType DEF MoreFailed, TabStatus
        <2> QED BY <1>1, <1>5, <2>1 DEF MoreFailed, TypeOK, backendVars, inputVars
    <1>6. CASE ReconnectDone(c)
        <2>1. /\ tabs' \in [Tabs -> Tab]
              /\ host' \in [Hosts -> [status : HostStatus, backend : 0..MaxConnects]]
            BY <1>6, ConnectedType, HostType, SendTypes DEF ReconnectDone, HostStatus
        <2>2. calls[c].id \in Ids /\ <<>> \in Seq(Inputs)
            BY DEF TypeOK, Call
        <2>3. flush' \in [Backends -> Seq(Inputs)] /\ queue' \in [Ids -> Seq(Inputs)]
            BY <1>6, <2>2 DEF ReconnectDone, TypeOK
        <2>4. \A n \in Inputs : [sends[n] EXCEPT !.state = "flushing", !.snap = c] \in Send
            BY SendTypes DEF TypeOK, Send
        <2>5. sends' \in [Inputs -> Send]
            BY <1>6, <2>4 DEF ReconnectDone, TypeOK
        <2> QED BY <1>1, <1>6, <2>1, <2>3, <2>5 DEF ReconnectDone, TypeOK, backendVars
    <1>7. CASE ReconnectFailed(c)
        <2>1. /\ tabs' \in [Tabs -> Tab]
              /\ host' \in [Hosts -> [status : HostStatus, backend : 0..MaxConnects]]
            BY <1>7, StatusType, HostType, SendTypes DEF ReconnectFailed, TabStatus, HostStatus
        <2> QED BY <1>1, <1>7, <2>1 DEF ReconnectFailed, TypeOK, backendVars, inputVars
    <1> QED BY <1>2, <1>3, <1>4, <1>5, <1>6, <1>7 DEF Replies

\* Steps of the input
LEMMA InputStepType ==
    ASSUME TypeOK, InputsHaveTab,
           \/ \E n \in Inputs, o \in open : Type(n, o) \/ Enqueue(n, o)
           \/ \E c \in Backends : FlushNext(c)
           \/ \E n \in Inputs : SendNow(n) \/ SendDropped(n) \/ Wrote(n) \/ WriteFailed(n)
    PROVE  TypeOK'
    <1>1. ASSUME NEW n \in Inputs, NEW o \in open, Type(n, o)
          PROVE  TypeOK'
        BY <1>1, ChainedType, SendTypes, TabParts DEF Type, TypeOK, backendVars
    <1>2. ASSUME NEW n \in Inputs, NEW o \in open, Enqueue(n, o)
          PROVE  TypeOK'
        <2>1. o \in Tabs /\ active \in Ids /\ queue[active] \in Seq(Inputs)
            BY <1>2, TabParts DEF Enqueue, TypeOK
        <2>2. Append(queue[active], n) \in Seq(Inputs)
            BY <2>1
        <2>3. queue' \in [Ids -> Seq(Inputs)] /\ sends' \in [Inputs -> Send]
            BY <1>2, <2>1, <2>2, SendTypes DEF Enqueue, TypeOK, Send, NoSend
        <2> QED BY <1>2, <2>3 DEF Enqueue, TypeOK, backendVars
    <1>3. ASSUME NEW c \in Backends, FlushNext(c)
          PROVE  TypeOK'
        <2>1. flush[c] \in Seq(Inputs) /\ flush[c] /= <<>>
            BY <1>3 DEF FlushNext, TypeOK
        <2>2. Head(flush[c]) \in Inputs /\ Tail(flush[c]) \in Seq(Inputs)
            BY <2>1
        <2>3. CASE sends[Head(flush[c])].state = "flushing"
                   /\ Chained(Head(flush[c]), sends[Head(flush[c])].tab, c) /\ UNCHANGED flush
            <3>1. sends[Head(flush[c])].tab \in Tabs
                BY <2>2, <2>3, TabParts DEF InputsHaveTab
            <3>2. sends' \in [Inputs -> Send] /\ chain' \in [Ids -> 0..MaxInputs]
                BY <2>2, <2>3, <3>1, ChainedType, SendTypes
            <3> QED BY <1>3, <2>3, <3>2 DEF FlushNext, TypeOK, backendVars
        <2>4. CASE flush' = [flush EXCEPT ![c] = Tail(@)] /\ UNCHANGED <<sends, chain>>
            BY <1>3, <2>2, <2>4 DEF FlushNext, TypeOK, backendVars
        <2> QED BY <1>3, <2>3, <2>4 DEF FlushNext
    <1>4. ASSUME NEW n \in Inputs, SendNow(n)
          PROVE  TypeOK'
        <2>1. PICK o \in Matches(n) :
                sends' = [sends EXCEPT ![n].state = "writing", ![n].via = o, ![n].to = tabs[o].backend]
            BY <1>4 DEF SendNow
        <2>2. o \in 0..MaxTabs /\ tabs[o].backend \in 0..MaxConnects
            BY <2>1, TabParts, SendTypes DEF Matches, WithId
        <2>3. sends' \in [Inputs -> Send]
            <3>1. sends[n] \in Send
                BY DEF TypeOK
            <3>2. [sends[n] EXCEPT !.state = "writing", !.via = o, !.to = tabs[o].backend] \in Send
                BY <2>2, <3>1 DEF Send
            <3> QED BY <2>1, <3>2 DEF TypeOK
        <2> QED BY <1>4, <2>3 DEF SendNow, TypeOK, backendVars
    <1>5. ASSUME NEW n \in Inputs, SendDropped(n)
          PROVE  TypeOK'
        BY <1>5, DoneType DEF SendDropped, TypeOK, backendVars
    <1>6. ASSUME NEW n \in Inputs, Wrote(n)
          PROVE  TypeOK'
        <2>1. written' \in [Backends -> Seq(Inputs)]
            <3>1. \A c \in Backends : Append(written[c], n) \in Seq(Inputs)
                BY DEF TypeOK
            <3> QED BY <1>6, <3>1 DEF Wrote, TypeOK
        <2> QED BY <1>6, <2>1, DoneType DEF Wrote, TypeOK, backendVars
    <1>7. ASSUME NEW n \in Inputs, WriteFailed(n)
          PROVE  TypeOK'
        <2>1. tabs' \in [Tabs -> Tab] /\ host' \in [Hosts -> [status : HostStatus, backend : 0..MaxConnects]]
            BY <1>7, StatusType, HostType, SendTypes DEF WriteFailed, TabStatus, HostStatus, TypeOK
        <2>2. flush' \in [Backends -> Seq(Inputs)]
            <3>1. <<>> \in Seq(Inputs)
                OBVIOUS
            <3> QED BY <1>7, <3>1 DEF WriteFailed, TypeOK
        <2>3. sends' \in [Inputs -> Send] /\ chain' \in [Ids -> 0..MaxInputs]
            <3>1. /\ \A k \in Inputs : Done(k) \in Send /\ sends[k] \in Send
                  /\ Unchained(n) \in [Ids -> 0..MaxInputs]
                BY DoneType DEF TypeOK
            <3>2. /\ sends' = [k \in Inputs |-> sends'[k]]
                  /\ \A k \in Inputs : sends'[k] \in {Done(k), sends[k]}
                <4>1. CASE sends' = [sends EXCEPT ![n] = Done(n)]
                    BY <4>1 DEF TypeOK
                <4>2. CASE sends' /= [sends EXCEPT ![n] = Done(n)]
                    BY <1>7, <4>2, Zenon DEF WriteFailed
                <4> QED BY <4>1, <4>2
            <3> QED BY <1>7, <3>1, <3>2 DEF WriteFailed
        <2> QED BY <1>7, <2>1, <2>2, <2>3 DEF WriteFailed, TypeOK, backendVars
    <1> QED BY <1>1, <1>2, <1>3, <1>4, <1>5, <1>6, <1>7

\* Closing tabs, and what the backend does
LEMMA OtherStepType ==
    ASSUME TypeOK,
           \/ \E S \in SUBSET open : CloseTabs(S)
           \/ \E o \in open : Activate(o)
           \/ \E c \in Backends :
                \/ BackendOpens(c) \/ BackendRefuses(c) \/ BackendEnds(c)
                \/ BackendCloses(c) \/ CloseFailed(c) \/ TerminalClosed(c) \/ TerminalError(c)
           \/ UNCHANGED vars
    PROVE  TypeOK'
    <1>1. ASSUME NEW S \in SUBSET open, CloseTabs(S)
          PROVE  TypeOK'
        <2>1. tabs' \in [Tabs -> Tab] /\ open' \subseteq 1..made
            BY <1>1 DEF CloseTabs, TypeOK, Tab, TabStatus
        <2>2. active' \in Ids \cup {NoTab}
            BY <1>1, TabParts DEF CloseTabs, TypeOK
        <2>3. closing' \subseteq Backends
            <3>1. \A o \in S : tabs[o].backend \in {0} \cup Backends
                BY TabParts DEF Backends
            <3> QED BY <1>1, <3>1 DEF CloseTabs, TypeOK
        <2>4. queue' \in [Ids -> Seq(Inputs)] /\ chain' \in [Ids -> 0..MaxInputs]
            <3>1. <<>> \in Seq(Inputs)
                OBVIOUS
            <3> QED BY <1>1, <3>1, SendTypes DEF CloseTabs, TypeOK
        <2>5. sends' \in [Inputs -> Send]
            BY <1>1, DoneType DEF CloseTabs, TypeOK
        <2> QED BY <1>1, <2>1, <2>2, <2>3, <2>4, <2>5 DEF CloseTabs, TypeOK
    <1>2. ASSUME NEW o \in open, Activate(o)
          PROVE  TypeOK'
        BY <1>2, TabParts DEF Activate, TypeOK, backendVars, inputVars
    <1>3. ASSUME NEW c \in Backends, BackendOpens(c) \/ BackendRefuses(c)
          PROVE  TypeOK'
        <2>1. calls' \in [Backends -> Call]
            <3>1. calls[c] \in Call
                BY DEF TypeOK
            <3>2. \A st \in {"opened", "refused"} : [calls[c] EXCEPT !.state = st] \in Call
                BY <3>1 DEF Call
            <3>3. \E st \in {"opened", "refused"} : calls' = [calls EXCEPT ![c].state = st]
                BY <1>3 DEF BackendOpens, BackendRefuses
            <3> QED BY <3>2, <3>3 DEF TypeOK
        <2> QED BY <1>3, <2>1 DEF BackendOpens, BackendRefuses, TypeOK, backendVars, inputVars
    <1>4. ASSUME NEW c \in Backends, BackendEnds(c) \/ BackendCloses(c) \/ CloseFailed(c)
          PROVE  TypeOK'
        <2>1. \A kind \in {"closed", "error"} :
                Event(kind, c) \in [kind : {"closed", "error"}, backend : Backends]
            BY DEF Event
        <2>2. events' \subseteq [kind : {"closed", "error"}, backend : Backends]
            BY <1>4, <2>1 DEF BackendEnds, BackendCloses, CloseFailed, TypeOK
        <2> QED BY <1>4, <2>2 DEF BackendEnds, BackendCloses, CloseFailed, TypeOK, inputVars
    <1>5. ASSUME NEW c \in Backends, TerminalClosed(c)
          PROVE  TypeOK'
        <2>1. CASE WithBackend(c) = {}
            BY <1>5, <2>1 DEF TerminalClosed, TypeOK, inputVars
        <2>2. CASE WithBackend(c) /= {}
            <3>1. tabs' \in [Tabs -> Tab] /\ host' \in [Hosts -> [status : HostStatus, backend : 0..MaxConnects]]
                BY <1>5, <2>2, StatusType, HostType, SendTypes DEF TerminalClosed, TabStatus, HostStatus
            <3>2. active' \in Ids \cup {NoTab}
                BY <1>5, <2>2, TabParts DEF TerminalClosed, TypeOK
            <3> QED BY <1>5, <3>1, <3>2 DEF TerminalClosed, TypeOK, inputVars
        <2> QED BY <2>1, <2>2
    <1>6. ASSUME NEW c \in Backends, TerminalError(c)
          PROVE  TypeOK'
        <2>1. tabs' \in [Tabs -> Tab] /\ host' \in [Hosts -> [status : HostStatus, backend : 0..MaxConnects]]
            BY <1>6, StatusType, HostType, SendTypes DEF TerminalError, TabStatus, HostStatus, TypeOK
        <2> QED BY <1>6, <2>1 DEF TerminalError, TypeOK, inputVars
    <1>7. CASE UNCHANGED vars
        BY <1>7 DEF vars, TypeOK
    <1> QED BY <1>1, <1>2, <1>3, <1>4, <1>5, <1>6, <1>7

---------------------------------------------------------------------------
\* Room for tabs
LEMMA SlotsKept ==
    ASSUME TypeOK, Slots, FirstIds, made' = made,
           Pending("connect")' \subseteq Pending("connect"),
           \A c \in Backends : calls'[c].id = calls[c].id \/ c \notin Pending("connect")
    PROVE  Slots' /\ FirstIds'
    <1>1. Cardinality(Pending("connect")') <= Cardinality(Pending("connect"))
        BY PendingFinite, FS_Subset
    <1>2. Cardinality(Pending("connect")') \in Nat /\ Cardinality(Pending("connect")) \in Nat
        BY PendingFinite, FS_Subset, FS_CardinalityType
    <1>3. Slots'
        BY <1>1, <1>2, TabParts DEF Slots
    <1>4. FirstIds'
        BY DEF FirstIds, Pending
    <1> QED BY <1>3, <1>4

LEMMA SlotsStep ==
    ASSUME TypeOK, Slots, FirstIds, [Next]_vars
    PROVE  Slots' /\ FirstIds'
    <1>1. \A c \in Backends : calls[c] \in Call
        BY DEF TypeOK
    <1>2. ASSUME UNCHANGED <<made, calls>>
          PROVE  Slots' /\ FirstIds'
        BY <1>2 DEF Slots, FirstIds, Pending
    <1>3. ASSUME NEW h \in Hosts, NEW c \in Backends, ConnectSession(h, c)
          PROVE  Slots' /\ FirstIds'
        <2>1. /\ made' = made /\ made + Cardinality(Pending("connect")) < MaxTabs
              /\ calls' = [calls EXCEPT ![c] = [op |-> "connect", id |-> Main(h), state |-> "asked"]]
              /\ calls[c].state = "unused"
            BY <1>3 DEF ConnectSession, Ask
        <2>2. Pending("connect")' = Pending("connect") \cup {c} /\ c \notin Pending("connect")
            BY <1>1, <2>1 DEF Pending, TypeOK
        <2>3. Cardinality(Pending("connect")') = Cardinality(Pending("connect")) + 1
            BY <2>2, PendingFinite, FS_AddElement
        <2>4. Slots'
            BY <2>1, <2>3, PendingFinite, TabParts DEF Slots
        <2>5. FirstIds'
            BY <2>1, <2>2 DEF FirstIds, Main, TypeOK, Pending
        <2> QED BY <2>4, <2>5
    <1>4. ASSUME NEW h \in Hosts, NEW c \in Backends, OpenAdditional(h, c)
          PROVE  Slots' /\ FirstIds'
        <2>1. /\ made' = made + 1 /\ made + Cardinality(Pending("connect")) < MaxTabs
              /\ calls' = [calls EXCEPT ![c] =
                              [op |-> "more", id |-> <<h, made + 1>>, state |-> "asked"]]
              /\ calls[c].state = "unused"
            BY <1>4 DEF OpenAdditional, Ask
        <2>2. Pending("connect")' = Pending("connect") /\ c \notin Pending("connect")
            BY <1>1, <2>1 DEF Pending, TypeOK
        <2>3. Slots'
            BY <2>1, <2>2, PendingFinite, TabParts DEF Slots
        <2>4. FirstIds'
            BY <2>1, <2>2 DEF FirstIds, TypeOK, Pending
        <2> QED BY <2>3, <2>4
    <1>5. ASSUME NEW o \in open, NEW c \in Backends, Reconnect(o, c)
          PROVE  Slots' /\ FirstIds'
        <2>1. /\ made' = made /\ calls[c].state = "unused"
              /\ calls' = [calls EXCEPT ![c] =
                              [op |-> "reconnect", id |-> tabs[o].id, state |-> "asked"]]
            BY <1>5 DEF Reconnect, Ask
        <2> QED BY <1>1, <2>1, SlotsKept DEF Pending, TypeOK
    <1>6. ASSUME NEW c \in Backends, NEW op, NEW reply, Answered(c, op, reply), made' = made
          PROVE  Slots' /\ FirstIds'
        BY <1>1, <1>6, SlotsKept DEF Answered, Pending, TypeOK
    <1>7. ASSUME NEW c \in Backends, ConnectDone(c)
          PROVE  Slots' /\ FirstIds'
        <2>1. /\ made' \in {made, made + 1} /\ calls[c].op = "connect" /\ calls[c].state = "opened"
              /\ calls' = [calls EXCEPT ![c].state = "done"]
            BY <1>7 DEF ConnectDone, OpenTerminal, Answered
        <2>2. Pending("connect")' = Pending("connect") \ {c} /\ c \in Pending("connect")
            BY <1>1, <2>1 DEF Pending, TypeOK
        <2>3. Cardinality(Pending("connect")') = Cardinality(Pending("connect")) - 1
            BY <2>2, PendingFinite, FS_RemoveElement
        <2>4. Slots'
            BY <2>1, <2>3, PendingFinite, TabParts DEF Slots
        <2>5. FirstIds'
            BY <2>1, <2>2 DEF FirstIds, TypeOK, Pending
        <2> QED BY <2>4, <2>5
    <1>8. ASSUME NEW c \in Backends, BackendOpens(c) \/ BackendRefuses(c)
          PROVE  Slots' /\ FirstIds'
        <2>1. PICK st \in {"opened", "refused"} :
                /\ made' = made /\ calls[c].state = "asked"
                /\ calls' = [calls EXCEPT ![c].state = st]
            BY <1>8 DEF BackendOpens, BackendRefuses
        <2> QED BY <1>1, <2>1, SlotsKept DEF Pending, TypeOK
    <1>9. CASE UNCHANGED vars
        BY <1>2, <1>9 DEF vars
    <1>10. ASSUME \/ \E S \in SUBSET open : CloseTabs(S)
                  \/ \E o \in open : Activate(o)
                  \/ \E n \in Inputs, o \in open : Type(n, o) \/ Enqueue(n, o)
                  \/ \E c \in Backends : FlushNext(c) \/ BackendEnds(c) \/ BackendCloses(c)
                        \/ CloseFailed(c) \/ TerminalClosed(c) \/ TerminalError(c)
                  \/ \E n \in Inputs : SendNow(n) \/ SendDropped(n) \/ Wrote(n) \/ WriteFailed(n)
           PROVE  UNCHANGED <<made, calls>>
        BY <1>10 DEF CloseTabs, Activate, Type, Enqueue, FlushNext, BackendEnds, BackendCloses,
                     CloseFailed, TerminalClosed, TerminalError, SendNow, SendDropped, Wrote,
                     WriteFailed
    <1>11. ASSUME NEW c \in Backends,
                  \/ ConnectFailed(c) \/ MoreDone(c) \/ MoreFailed(c)
                  \/ ReconnectDone(c) \/ ReconnectFailed(c)
           PROVE  Slots' /\ FirstIds'
        BY <1>6, <1>11 DEF ConnectFailed, MoreDone, MoreFailed, ReconnectDone, ReconnectFailed
    <1> QED BY <1>2, <1>3, <1>4, <1>5, <1>7, <1>8, <1>9, <1>10, <1>11, NextCases

---------------------------------------------------------------------------
\* The objects

\* Objects that keep their ids and sessions, and calls that stay answered
LEMMA ObjectsKept ==
    ASSUME TypeOK, Objects, made' = made, open' \subseteq open,
           \A o \in 1..made : tabs'[o].id = tabs[o].id /\ tabs'[o].backend = tabs[o].backend,
           \A c \in Backends : calls[c].state = "done" => calls'[c].state = "done"
    PROVE  Objects' /\ Stays
    <1>1. IdsOfObjects'
        BY DEF Objects, IdsOfObjects
    <1>2. \A o \in 1..made : tabs[o].backend /= 0 => tabs[o].backend \in Backends
        BY TabParts DEF Backends
    <1>3. SessionsOfObjects'
        BY <1>2 DEF Objects, SessionsOfObjects
    <1>4. OpenIds'
        BY DEF Objects, OpenIds, TypeOK
    <1>5. Stays
        BY DEF Stays
    <1> QED BY <1>1, <1>3, <1>4, <1>5 DEF Objects

\* A status is set.
LEMMA StatusObjects ==
    ASSUME TypeOK, NEW i, NEW st, PatchStatus(i, st)
    PROVE  \A o \in 1..made : tabs'[o].id = tabs[o].id /\ tabs'[o].backend = tabs[o].backend
    BY TabParts DEF PatchStatus, TypeOK, Tab

\* A session that was opened is given to the tab with an id.
LEMMA ConnectedObjects ==
    ASSUME TypeOK, Objects, NEW c \in Backends, NEW i, calls[c].state = "opened",
           calls' = [calls EXCEPT ![c].state = "done"],
           made' = made, open' = open, Connected(i, c)
    PROVE  Objects' /\ Stays
    <1>1. \A o \in 1..made :
            /\ tabs'[o].id = tabs[o].id
            /\ tabs'[o].backend = IF o \in WithId(i) THEN c ELSE tabs[o].backend
        BY TabParts DEF Connected, TypeOK, Tab
    <1>2. \A d \in Backends : calls'[d].state = IF d = c THEN "done" ELSE calls[d].state
        BY DEF TypeOK, Call
    <1>3. c /= 0 /\ \A o \in 1..made : tabs[o].backend /= c
        BY DEF Objects, SessionsOfObjects, Backends
    <1>4. \A o, p \in WithId(i) : o = p
        BY DEF Objects, OpenIds, WithId
    <1>5. \A o \in 1..made : tabs[o].backend /= 0 => tabs[o].backend \in Backends
        BY TabParts DEF Backends
    <1>6. IdsOfObjects'
        BY <1>1, <1>3 DEF Objects, IdsOfObjects
    <1>7. SessionsOfObjects'
        BY <1>1, <1>2, <1>3, <1>4, <1>5 DEF Objects, SessionsOfObjects
    <1>8. OpenIds'
        BY <1>1 DEF Objects, OpenIds, TypeOK
    <1>9. Stays
        BY <1>1, <1>2 DEF Stays
    <1> QED BY <1>6, <1>7, <1>8, <1>9 DEF Objects

\* A tab is added: its id is new among the open ones, and so is its session.
LEMMA NewObject ==
    ASSUME TypeOK, Objects, NEW t \in Tab, made + 1 <= MaxTabs,
           made' = made + 1, open' = open \cup {made + 1},
           tabs' = [tabs EXCEPT ![made + 1] = t],
           t.id[2] \in {0, made + 1}, t.id[2] = 0 => t.backend /= 0,
           \A o \in open : tabs[o].id /= t.id,
           t.backend /= 0 => /\ calls[t.backend].state /= "done"
                             /\ calls'[t.backend].state = "done",
           \A c \in Backends : calls[c].state = "done" => calls'[c].state = "done"
    PROVE  Objects' /\ Stays
    <1>1. /\ made \in Nat /\ made + 1 \in Tabs
          /\ \A o \in 1..(made + 1) : o \in 1..made \/ o = made + 1
          /\ \A o \in 1..made : o \in 1..(made + 1) /\ o /= made + 1
        BY TabParts DEF Tabs
    <1>2. /\ tabs'[made + 1] = t
          /\ \A o \in 1..made : tabs'[o] = tabs[o]
        BY <1>1, TabParts DEF TypeOK
    <1>3. /\ \A o \in 1..made : tabs[o].backend /= 0 => tabs[o].backend \in Backends
          /\ t.backend /= 0 => t.backend \in Backends
        BY TabParts DEF Backends, Tab
    <1>4. IdsOfObjects'
        BY <1>1, <1>2 DEF Objects, IdsOfObjects
    <1>5. SessionsOfObjects'
        BY <1>1, <1>2, <1>3 DEF Objects, SessionsOfObjects
    <1>6. open \subseteq 1..made
        BY DEF TypeOK
    <1>7. OpenIds'
        BY <1>1, <1>2, <1>6 DEF Objects, OpenIds
    <1>8. \A c \in Backends : c /= 0
        BY DEF Backends
    <1>9. Stays
        BY <1>1, <1>2, <1>8 DEF Stays
    <1> QED BY <1>4, <1>5, <1>7, <1>9 DEF Objects

\* The reply of connectSession
LEMMA ConnectDoneObjects ==
    ASSUME TypeOK, Slots, FirstIds, Objects, NEW c \in Backends, ConnectDone(c)
    PROVE  Objects' /\ Stays
    <1>1. /\ calls[c].op = "connect" /\ calls[c].state = "opened"
          /\ calls' = [calls EXCEPT ![c].state = "done"]
        BY DEF ConnectDone, Answered
    <1>2. c \in Pending("connect") /\ calls[c].id \in Ids /\ calls[c].id[2] = 0
        BY <1>1 DEF Pending, FirstIds, TypeOK, Call
    <1>3. CASE WithId(calls[c].id) /= {}
        BY <1>1, <1>3, ConnectedObjects DEF ConnectDone, OpenTerminal
    <1>4. CASE WithId(calls[c].id) = {}
        <2> DEFINE t == [id |-> calls[c].id, backend |-> c, status |-> "connected"]
        <2>1. made' = made + 1 /\ tabs' = [tabs EXCEPT ![made + 1] = t] /\ open' = open \cup {made + 1}
            BY <1>4 DEF ConnectDone, OpenTerminal
        <2>2. t \in Tab
            BY <1>2, SendTypes DEF Tab, TabStatus
        <2>3. made + 1 <= MaxTabs
            BY <1>2, PendingFinite, FS_EmptySet, TabParts DEF Slots
        <2>4. \A o \in open : tabs[o].id /= t.id
            BY <1>4 DEF WithId
        <2>5. t.backend = c /\ t.id[2] = 0 /\ c /= 0
            BY <1>2 DEF Backends
        <2>6. \A d \in Backends : calls'[d].state = IF d = c THEN "done" ELSE calls[d].state
            BY <1>1 DEF TypeOK, Call
        <2> HIDE DEF t
        <2> QED BY <1>1, <2>1, <2>2, <2>3, <2>4, <2>5, <2>6, NewObject
    <1> QED BY <1>3, <1>4

\* openAdditionalTerminal
LEMMA OpenAdditionalObjects ==
    ASSUME TypeOK, Objects, NEW h \in Hosts, NEW c \in Backends, OpenAdditional(h, c)
    PROVE  Objects' /\ Stays
    <1> DEFINE t == [id |-> <<h, made + 1>>, backend |-> 0, status |-> "connecting"]
    <1>1. made \in Nat /\ MaxTabs \in Nat /\ made + 1 <= MaxTabs
        BY TabParts, PendingFinite DEF OpenAdditional
    <1>2. t \in Tab
        BY <1>1, SendTypes DEF Tab, TabStatus, Ids
    <1>3. /\ made' = made + 1 /\ open' = open \cup {made + 1}
          /\ tabs' = [tabs EXCEPT ![made + 1] = t]
          /\ calls[c].state = "unused"
          /\ calls' = [calls EXCEPT ![c] = [op |-> "more", id |-> <<h, made + 1>>, state |-> "asked"]]
        BY DEF OpenAdditional, Ask
    <1>4. t.id[2] = made + 1 /\ t.backend = 0 /\ made + 1 /= 0
        BY <1>1
    <1>5. \A o \in open : tabs[o].id /= t.id
        BY <1>1, <1>4 DEF Objects, IdsOfObjects, TypeOK
    <1>6. \A d \in Backends : calls[d].state = "done" => calls'[d].state = "done"
        BY <1>3 DEF TypeOK
    <1> HIDE DEF t
    <1> QED BY <1>1, <1>2, <1>3, <1>4, <1>5, <1>6, NewObject

\* Every step keeps what the tabs are.
LEMMA ObjectsStep ==
    ASSUME TypeOK, Slots, FirstIds, Objects, [Next]_vars
    PROVE  Objects' /\ Stays
    <1>1. ASSUME UNCHANGED <<tabs, made, open>>, \A c \in Backends :
                    calls[c].state = "done" => calls'[c].state = "done"
          PROVE  Objects' /\ Stays
        BY <1>1, ObjectsKept
    <1>2. ASSUME NEW i, NEW st, PatchStatus(i, st), UNCHANGED <<made, open>>,
                 \A c \in Backends : calls[c].state = "done" => calls'[c].state = "done"
          PROVE  Objects' /\ Stays
        BY <1>2, StatusObjects, ObjectsKept
    <1>3. ASSUME NEW c \in Backends, NEW op, NEW i, Ask(c, op, i)
          PROVE  \A d \in Backends : calls[d].state = "done" => calls'[d].state = "done"
        BY <1>3 DEF Ask, TypeOK
    <1>4. ASSUME NEW c \in Backends, NEW op, NEW reply, Answered(c, op, reply)
          PROVE  /\ calls[c].state = reply /\ calls' = [calls EXCEPT ![c].state = "done"]
                 /\ \A d \in Backends : calls[d].state = "done" => calls'[d].state = "done"
        BY <1>4 DEF Answered, TypeOK, Call
    <1>5. ASSUME NEW h \in Hosts, NEW c \in Backends, ConnectSession(h, c)
          PROVE  Objects' /\ Stays
        BY <1>1, <1>3, <1>5 DEF ConnectSession
    <1>6. ASSUME NEW o \in open, NEW c \in Backends, Reconnect(o, c)
          PROVE  Objects' /\ Stays
        BY <1>2, <1>3, <1>6 DEF Reconnect
    <1>7. ASSUME NEW S \in SUBSET open, CloseTabs(S)
          PROVE  Objects' /\ Stays
        <2>1. \A o \in 1..made : tabs'[o].id = tabs[o].id /\ tabs'[o].backend = tabs[o].backend
            BY <1>7, TabParts DEF CloseTabs, TypeOK, Tab
        <2> QED BY <1>7, <2>1, ObjectsKept DEF CloseTabs
    <1>8. ASSUME NEW c \in Backends, ConnectFailed(c)
          PROVE  Objects' /\ Stays
        BY <1>1, <1>4, <1>8 DEF ConnectFailed
    <1>9. ASSUME NEW c \in Backends, MoreFailed(c) \/ ReconnectFailed(c)
          PROVE  Objects' /\ Stays
        BY <1>2, <1>4, <1>9 DEF MoreFailed, ReconnectFailed
    <1>10. ASSUME NEW c \in Backends, MoreDone(c) \/ ReconnectDone(c)
           PROVE  Objects' /\ Stays
        BY <1>4, <1>10, ConnectedObjects DEF MoreDone, ReconnectDone
    <1>11. ASSUME NEW c \in Backends, BackendOpens(c) \/ BackendRefuses(c)
           PROVE  Objects' /\ Stays
        <2>1. \A d \in Backends : calls[d].state = "done" => calls'[d].state = "done"
            BY <1>11 DEF BackendOpens, BackendRefuses, TypeOK, Call
        <2> QED BY <1>1, <1>11, <2>1 DEF BackendOpens, BackendRefuses
    <1>12. ASSUME NEW c \in Backends, TerminalClosed(c) \/ TerminalError(c)
           PROVE  Objects' /\ Stays
        <2>1. UNCHANGED <<made, open, calls>>
            BY <1>12 DEF TerminalClosed, TerminalError
        <2>2. UNCHANGED tabs \/ \E i, st : PatchStatus(i, st)
            BY <1>12 DEF TerminalClosed, TerminalError
        <2> QED BY <1>1, <1>2, <2>1, <2>2
    <1>13. ASSUME NEW n \in Inputs, WriteFailed(n)
           PROVE  Objects' /\ Stays
        <2>1. UNCHANGED <<made, open, calls>>
            BY <1>13 DEF WriteFailed
        <2>2. UNCHANGED tabs \/ \E i, st : PatchStatus(i, st)
            BY <1>13 DEF WriteFailed
        <2> QED BY <1>1, <1>2, <2>1, <2>2
    <1>14. ASSUME \/ \E o \in open : Activate(o)
                  \/ \E n \in Inputs, o \in open : Type(n, o) \/ Enqueue(n, o)
                  \/ \E c \in Backends : FlushNext(c) \/ BackendEnds(c) \/ BackendCloses(c)
                        \/ CloseFailed(c)
                  \/ \E n \in Inputs : SendNow(n) \/ SendDropped(n) \/ Wrote(n)
                  \/ UNCHANGED vars
           PROVE  Objects' /\ Stays
        <2>1. UNCHANGED <<tabs, made, open, calls>>
            BY <1>14 DEF Activate, Type, Enqueue, FlushNext, BackendEnds, BackendCloses,
                         CloseFailed, SendNow, SendDropped, Wrote, vars
        <2> QED BY <1>1, <2>1
    <1> QED BY <1>5, <1>6, <1>7, <1>8, <1>9, <1>10, <1>11, <1>12, <1>13, <1>14, NextCases,
               ConnectDoneObjects, OpenAdditionalObjects

---------------------------------------------------------------------------
\* The input

\* What a sequence holds after the queue's operations
LEMMA HoldsAppend ==
    ASSUME NEW q \in Seq(Inputs), NEW n \in Inputs, NEW m \in Inputs, Holds(Append(q, n), m)
    PROVE  m = n \/ Holds(q, m)
    <1>1. PICK i \in 1..(Len(q) + 1) : Append(q, n)[i] = m
        BY DEF Holds
    <1>2. i \in 1..Len(q) \/ i = Len(q) + 1
        OBVIOUS
    <1> QED BY <1>1, <1>2 DEF Holds

LEMMA HoldsTail ==
    ASSUME NEW q \in Seq(Inputs), q /= <<>>, NEW m \in Inputs, Holds(Tail(q), m)
    PROVE  Holds(q, m)
    <1>1. PICK i \in 1..(Len(q) - 1) : q[i + 1] = m
        BY DEF Holds
    <1>2. i + 1 \in 1..Len(q)
        OBVIOUS
    <1> QED BY <1>1, <1>2 DEF Holds

LEMMA HoldsHead ==
    ASSUME NEW q \in Seq(Inputs), q /= <<>>
    PROVE  Holds(q, Head(q)) /\ Head(q) \in Inputs
    BY DEF Holds

LEMMA HoldsEmpty ==
    ASSUME NEW m
    PROVE  ~Holds(<<>>, m)
    BY DEF Holds

\* Input that stays where it was, moves on or is done with
LEMMA TrafficKept ==
    ASSUME TypeOK, Traffic, Stays,
           \A n \in Inputs :
             \/ sends'[n] = sends[n] /\ (sends[n].state = "queued" => sends[n].tab \in open')
             \/ sends'[n].state = "done" /\ sends[n].state /= "unused"
             \/ /\ sends[n].state = "waiting" /\ sends'[n].state = "writing"
                /\ sends'[n].tab = sends[n].tab,
           \A i \in Ids, n \in Inputs : Holds(queue'[i], n) =>
             Holds(queue[i], n) /\ sends'[n] = sends[n],
           \A c \in Backends, n \in Inputs : Holds(flush'[c], n) => Holds(flush[c], n)
    PROVE  Traffic'
    <1>1. InputsHaveTab'
        BY DEF Traffic, InputsHaveTab, Stays
    <1>2. \A n \in Inputs : sends[n].snap /= 0 => sends[n].snap \in Backends
        BY TabsAssumption DEF TypeOK, Send, Backends
    <1>3. CopiesOfTab'
        BY <1>2 DEF Traffic, CopiesOfTab, Stays
    <1>4. QueuesOfIds'
        BY DEF Traffic, QueuesOfIds, InputsHaveTab, Stays
    <1>5. FlushesOfCalls'
        BY DEF Traffic, FlushesOfCalls
    <1> QED BY <1>1, <1>3, <1>4, <1>5 DEF Traffic

\* A piece of input is sent after others, from a tab.
LEMMA ChainedTraffic ==
    ASSUME TypeOK, Traffic, Stays, NEW n \in Inputs, NEW o \in 1..made, NEW snap \in 0..MaxConnects,
           Chained(n, o, snap), UNCHANGED <<open, queue, flush>>,
           sends[n].state \in {"unused", "flushing"},
           snap /= 0 => /\ calls[snap].state = "done"
                        /\ \A p \in 1..made : tabs[p].backend = snap => p = o,
           sends[n].state = "unused" => snap = 0,
           snap = 0 => sends[n].state = "unused"
    PROVE  Traffic'
    <1>1. /\ sends'[n].state = "waiting" /\ sends'[n].tab = o /\ sends'[n].snap = snap
          /\ \A m \in Inputs : m /= n => sends'[m] = sends[m]
        BY DEF Chained, TypeOK, NoSend
    <1>2. snap /= 0 => snap \in Backends
        BY DEF Backends
    <1>3. \A m \in Inputs : sends[m].snap /= 0 => sends[m].snap \in Backends
        BY TabsAssumption DEF TypeOK, Send, Backends
    <1>4. InputsHaveTab'
        BY <1>1 DEF Traffic, InputsHaveTab, Stays
    <1>5. CopiesOfTab'
        BY <1>1, <1>2, <1>3 DEF Traffic, CopiesOfTab, Stays
    <1>6. QueuesOfIds'
        BY <1>1 DEF Traffic, QueuesOfIds, InputsHaveTab, Stays
    <1>7. FlushesOfCalls'
        BY <1>1 DEF Traffic, FlushesOfCalls
    <1> QED BY <1>4, <1>5, <1>6, <1>7 DEF Traffic

\* Input is kept until its tab is connected again.
LEMMA EnqueueTraffic ==
    ASSUME TypeOK, Traffic, Stays, NEW n \in Inputs, NEW o \in open, Enqueue(n, o)
    PROVE  Traffic'
    <1>1. /\ sends'[n].state = "queued" /\ sends'[n].tab = o /\ sends'[n].snap = 0
          /\ \A m \in Inputs : m /= n => sends'[m] = sends[m]
          /\ sends[n].state = "unused"
          /\ open' = open /\ flush' = flush /\ tabs' = tabs
        BY DEF Enqueue, NextInput, TypeOK, NoSend
    <1>2. active \in Ids /\ tabs[o].id = active /\ o \in 1..made
        BY TabParts DEF Enqueue, TypeOK
    <1>3. \A i \in Ids, m \in Inputs : Holds(queue'[i], m) =>
            Holds(queue[i], m) \/ (m = n /\ i = active)
        <2>1. queue[active] \in Seq(Inputs) /\ queue' = [queue EXCEPT ![active] = Append(@, n)]
            BY <1>2 DEF Enqueue, TypeOK
        <2>2. \A i \in Ids : queue'[i] = IF i = active THEN Append(queue[active], n) ELSE queue[i]
            BY <1>2, <2>1 DEF TypeOK
        <2> SUFFICES ASSUME NEW i \in Ids, NEW m \in Inputs, Holds(queue'[i], m)
                     PROVE  Holds(queue[i], m) \/ (m = n /\ i = active)
            OBVIOUS
        <2>3. CASE i = active
            <3>1. Holds(Append(queue[active], n), m)
                BY <2>2, <2>3
            <3> QED BY <2>1, <2>3, <3>1, HoldsAppend
        <2>4. CASE i /= active
            BY <2>2, <2>4
        <2> QED BY <2>3, <2>4
    <1>4. \A m \in Inputs : sends[m].snap /= 0 => sends[m].snap \in Backends
        BY TabsAssumption DEF TypeOK, Send, Backends
    <1>5. InputsHaveTab'
        BY <1>1, <1>2 DEF Traffic, InputsHaveTab, Stays
    <1>6. CopiesOfTab'
        BY <1>1, <1>4 DEF Traffic, CopiesOfTab, Stays
    <1>7. QueuesOfIds'
        BY <1>1, <1>2, <1>3 DEF Traffic, QueuesOfIds
    <1>8. FlushesOfCalls'
        BY <1>1 DEF Traffic, FlushesOfCalls
    <1> QED BY <1>5, <1>6, <1>7, <1>8 DEF Traffic

\* A reconnect takes the queue of its id: the input was typed into the tab
\* that is given the session, because that tab is the one open with the id.
LEMMA ReconnectDoneTraffic ==
    ASSUME TypeOK, Objects, Traffic, Stays, NEW c \in Backends, ReconnectDone(c)
    PROVE  Traffic'
    <1> DEFINE i == calls[c].id
               Taken(n) == sends[n].state = "queued" /\ tabs[sends[n].tab].id = i
    <1>1. i \in Ids /\ c /= 0 /\ calls[c].state = "opened"
        <2>1. calls[c] \in Call
            BY DEF TypeOK
        <2>2. calls[c].id \in Ids
            BY <2>1 DEF Call
        <2>3. c /= 0
            BY DEF Backends
        <2>4. calls[c].state = "opened"
            BY DEF ReconnectDone, Answered
        <2> QED BY <2>2, <2>3, <2>4
    <1>2. /\ open' = open /\ made' = made
          /\ flush' = [flush EXCEPT ![c] = queue[i]] /\ queue' = [queue EXCEPT ![i] = <<>>]
          /\ \A n \in Inputs : sends'[n] =
               IF Taken(n) THEN [sends[n] EXCEPT !.state = "flushing", !.snap = c] ELSE sends[n]
        BY DEF ReconnectDone
    <1>3. \A n \in Inputs :
            /\ Taken(n) => /\ sends'[n].state = "flushing" /\ sends'[n].snap = c
                           /\ sends'[n].tab = sends[n].tab
            /\ ~Taken(n) => sends'[n] = sends[n]
        BY <1>2 DEF TypeOK, Send
    <1>4. calls'[c].state = "done"
        BY DEF ReconnectDone, Answered, TypeOK, Call
    <1>5. \A o \in 1..made : /\ tabs'[o].id = tabs[o].id
                             /\ tabs'[o].backend = IF o \in WithId(i) THEN c ELSE tabs[o].backend
        BY TabParts DEF ReconnectDone, Connected, TypeOK, Tab
    <1>6. \A n \in Inputs, o \in 1..made : Taken(n) /\ tabs'[o].backend = c => o = sends[n].tab
        <2> SUFFICES ASSUME NEW n \in Inputs, NEW o \in 1..made, Taken(n), tabs'[o].backend = c
                     PROVE  o = sends[n].tab
            OBVIOUS
        <2>1. sends[n].tab \in WithId(i)
            BY DEF Traffic, InputsHaveTab, WithId
        <2>2. o \in WithId(i)
            BY <1>1, <1>5 DEF Objects, SessionsOfObjects
        <2> QED BY <2>1, <2>2 DEF Objects, OpenIds, WithId
    <1>7. \A n \in Inputs : sends[n].snap /= 0 => sends[n].snap \in Backends
        BY TabsAssumption DEF TypeOK, Send, Backends
    <1>8. /\ \A j \in Ids, n \in Inputs : Holds(queue'[j], n) => Holds(queue[j], n) /\ j /= i
          /\ \A d \in Backends, n \in Inputs : Holds(flush'[d], n) =>
               Holds(flush[d], n) \/ (d = c /\ Holds(queue[i], n))
        <2>1. \A j \in Ids : queue'[j] = IF j = i THEN <<>> ELSE queue[j]
            BY <1>2 DEF TypeOK
        <2>2. \A d \in Backends : flush'[d] = IF d = c THEN queue[i] ELSE flush[d]
            BY <1>2 DEF TypeOK
        <2>3. ASSUME NEW j \in Ids, NEW n \in Inputs, Holds(queue'[j], n)
              PROVE  Holds(queue[j], n) /\ j /= i
            <3>1. j /= i
                BY <2>1, <2>3, HoldsEmpty
            <3> QED BY <2>1, <2>3, <3>1
        <2>4. ASSUME NEW d \in Backends, NEW n \in Inputs, Holds(flush'[d], n)
              PROVE  Holds(flush[d], n) \/ (d = c /\ Holds(queue[i], n))
            BY <2>2, <2>4
        <2> QED BY <2>3, <2>4
    <1> HIDE DEF i, Taken
    <1>9. InputsHaveTab'
        BY <1>2, <1>3 DEF Traffic, InputsHaveTab, Taken
    <1>10. CopiesOfTab'
        <2>1. ASSUME NEW n \in Inputs, Taken(n)
              PROVE  /\ calls'[sends'[n].snap].state = "done"
                     /\ \A o \in 1..made : tabs'[o].backend = sends'[n].snap => o = sends'[n].tab
            BY <1>3, <1>4, <1>6, <2>1
        <2>2. ASSUME NEW n \in Inputs, ~Taken(n), sends[n].snap /= 0,
                     sends[n].state \in {"flushing", "waiting"}
              PROVE  /\ calls'[sends[n].snap].state = "done"
                     /\ \A o \in 1..made : tabs'[o].backend = sends[n].snap => o = sends[n].tab
            BY <1>2, <1>7, <2>2 DEF Traffic, CopiesOfTab, Stays
        <2> SUFFICES ASSUME NEW n \in Inputs, sends'[n].state \in {"flushing", "waiting"},
                            sends'[n].snap /= 0
                     PROVE  /\ calls'[sends'[n].snap].state = "done"
                            /\ \A o \in 1..made : tabs'[o].backend = sends'[n].snap => o = sends'[n].tab
            BY <1>2 DEF CopiesOfTab
        <2>3. CASE Taken(n)
            BY <2>1, <2>3
        <2>4. CASE ~Taken(n)
            <3>1. sends'[n] = sends[n]
                BY <1>3, <2>4
            <3> QED BY <2>2, <2>4, <3>1
        <2> QED BY <2>3, <2>4
    <1>11. QueuesOfIds'
        BY <1>3, <1>5, <1>8 DEF Traffic, QueuesOfIds, InputsHaveTab, Taken
    <1>12. FlushesOfCalls'
        <2>1. \A n \in Inputs : Holds(queue[i], n) => Taken(n)
            BY <1>1 DEF Traffic, QueuesOfIds, Taken
        <2> QED BY <1>3, <1>8, <2>1 DEF Traffic, FlushesOfCalls, Taken
    <1> QED BY <1>9, <1>10, <1>11, <1>12 DEF Traffic

\* A flush sends the next piece of what it took.
LEMMA FlushTraffic ==
    ASSUME TypeOK, Traffic, Stays, NEW c \in Backends, FlushNext(c)
    PROVE  Traffic'
    <1> DEFINE n == Head(flush[c])
    <1>1. flush[c] \in Seq(Inputs) /\ flush[c] /= <<>>
        BY DEF FlushNext, TypeOK
    <1>2. n \in Inputs /\ Holds(flush[c], n)
        BY <1>1, HoldsHead
    <1>3. CASE sends[n].state = "flushing" /\ Chained(n, sends[n].tab, c) /\ UNCHANGED flush
        <2>1. sends[n].tab \in 1..made /\ sends[n].snap = c
            BY <1>2, <1>3 DEF Traffic, InputsHaveTab, FlushesOfCalls
        <2>2. c /= 0 /\ c \in 0..MaxConnects
            BY SendTypes DEF Backends
        <2>3. calls[c].state = "done" /\ \A p \in 1..made : tabs[p].backend = c => p = sends[n].tab
            BY <1>2, <1>3, <2>1, <2>2 DEF Traffic, CopiesOfTab
        <2>4. UNCHANGED <<open, queue>>
            BY DEF FlushNext
        <2> HIDE DEF n
        <2> QED BY <1>2, <1>3, <2>1, <2>2, <2>3, <2>4, ChainedTraffic
    <1>4. CASE flush' = [flush EXCEPT ![c] = Tail(@)] /\ UNCHANGED <<sends, chain>>
        <2>1. \A d \in Backends, m \in Inputs : Holds(flush'[d], m) => Holds(flush[d], m)
            <3>1. \A d \in Backends : flush'[d] = IF d = c THEN Tail(flush[c]) ELSE flush[d]
                BY <1>4 DEF TypeOK
            <3> QED BY <1>1, <3>1, HoldsTail
        <2>2. \A m \in Inputs : sends[m].state = "queued" => sends[m].tab \in open'
            BY DEF FlushNext, Traffic, InputsHaveTab
        <2> QED BY <1>4, <2>1, <2>2, TrafficKept DEF FlushNext
    <1> QED BY <1>3, <1>4 DEF FlushNext

\* The tabs are closed: their queues go with them.
LEMMA CloseTraffic ==
    ASSUME TypeOK, Objects, Traffic, Stays, NEW S \in SUBSET open, CloseTabs(S)
    PROVE  Traffic'
    <1> DEFINE ids == {tabs[o].id : o \in S}
    <1>1. /\ open' = open \ S /\ flush' = flush
          /\ \A i \in Ids : queue'[i] = IF i \in ids THEN <<>> ELSE queue[i]
          /\ \A n \in Inputs : sends'[n] =
               IF sends[n].state = "queued" /\ sends[n].tab \in S THEN Done(n) ELSE sends[n]
        BY DEF CloseTabs
    <1>2. \A n \in Inputs : Done(n).state = "done"
        BY DEF Done, NoSend
    <1>3. \A n \in Inputs :
            \/ sends'[n] = sends[n] /\ (sends[n].state = "queued" => sends[n].tab \in open')
            \/ sends'[n].state = "done" /\ sends[n].state /= "unused"
        BY <1>1, <1>2 DEF Traffic, InputsHaveTab
    <1>4. \A i \in Ids, n \in Inputs : Holds(queue'[i], n) =>
            Holds(queue[i], n) /\ sends'[n] = sends[n]
        <2> SUFFICES ASSUME NEW i \in Ids, NEW n \in Inputs, Holds(queue'[i], n)
                     PROVE  Holds(queue[i], n) /\ sends'[n] = sends[n]
            OBVIOUS
        <2>1. i \notin ids /\ Holds(queue[i], n)
            BY <1>1, HoldsEmpty
        <2>2. tabs[sends[n].tab].id = i
            BY <2>1 DEF Traffic, QueuesOfIds
        <2>3. sends[n].tab \notin S
            BY <2>1, <2>2
        <2> QED BY <1>1, <2>1, <2>3
    <1> QED BY <1>1, <1>3, <1>4, TrafficKept

\* Input is handed to the backend, dropped, written or fails.
LEMMA SendTraffic ==
    ASSUME TypeOK, Traffic, Stays, NEW n \in Inputs,
           SendNow(n) \/ SendDropped(n) \/ Wrote(n) \/ WriteFailed(n)
    PROVE  Traffic'
    <1>1. /\ open' = open /\ queue' = queue
          /\ \A c \in Backends : flush'[c] = flush[c] \/ flush'[c] = <<>>
        BY DEF SendNow, SendDropped, Wrote, WriteFailed
    <1>2. \A m \in Inputs : Done(m).state = "done"
        BY DEF Done, NoSend
    <1>3. \A m \in Inputs :
            \/ sends'[m] = sends[m]
            \/ sends'[m].state = "done" /\ sends[m].state \in {"waiting", "writing", "flushing"}
            \/ /\ sends[m].state = "waiting" /\ sends'[m].state = "writing"
               /\ sends'[m].tab = sends[m].tab
        <2>1. CASE SendNow(n)
            <3>1. PICK o : sends' = [sends EXCEPT ![n].state = "writing", ![n].via = o,
                                                  ![n].to = tabs[o].backend]
                BY <2>1 DEF SendNow
            <3>2. sends[n].state = "waiting" /\ sends[n] \in Send
                BY <2>1 DEF SendNow, TypeOK
            <3>3. sends'[n].state = "writing" /\ sends'[n].tab = sends[n].tab
                BY <3>1, <3>2 DEF TypeOK, Send
            <3>4. \A m \in Inputs : m /= n => sends'[m] = sends[m]
                BY <3>1 DEF TypeOK
            <3> QED BY <3>2, <3>3, <3>4
        <2>2. CASE SendDropped(n) \/ Wrote(n)
            BY <1>2, <2>2 DEF SendDropped, Wrote, TypeOK
        <2>3. CASE WriteFailed(n)
            <3>1. sends[n].state = "writing"
                BY <2>3 DEF WriteFailed
            <3>2. CASE sends' = [sends EXCEPT ![n] = Done(n)]
                BY <1>2, <3>1, <3>2 DEF TypeOK
            <3>3. CASE sends' /= [sends EXCEPT ![n] = Done(n)]
                <4>1. \A m \in Inputs : \/ sends'[m] = sends[m]
                                        \/ sends'[m] = Done(m) /\ (m = n \/ sends[m].state = "flushing")
                    BY <2>3, <3>3, Zenon DEF WriteFailed
                <4> QED BY <1>2, <3>1, <4>1
            <3> QED BY <3>2, <3>3
        <2> QED BY <2>1, <2>2, <2>3
    <1>4. \A i \in Ids, m \in Inputs : Holds(queue'[i], m) =>
            Holds(queue[i], m) /\ sends'[m] = sends[m]
        BY <1>1, <1>3 DEF Traffic, QueuesOfIds
    <1>5. \A c \in Backends, m \in Inputs : Holds(flush'[c], m) => Holds(flush[c], m)
        BY <1>1, HoldsEmpty
    <1>6. \A m \in Inputs : sends[m].state = "queued" => sends[m].tab \in open'
        BY <1>1 DEF Traffic, InputsHaveTab
    <1> QED BY <1>3, <1>4, <1>5, <1>6, TrafficKept

\* Every step keeps what is known of the input.
LEMMA TrafficStep ==
    ASSUME TypeOK, Objects, Traffic, Stays, [Next]_vars
    PROVE  Traffic'
    <1>1. ASSUME UNCHANGED <<sends, queue, flush>>, open \subseteq open'
          PROVE  Traffic'
        BY <1>1, TrafficKept DEF Traffic, InputsHaveTab
    <1>2. ASSUME NEW n \in Inputs, NEW o \in open, Type(n, o)
          PROVE  Traffic'
        <2>1. o \in 1..made /\ 0 \in 0..MaxConnects
            BY SendTypes DEF TypeOK
        <2>2. /\ sends[n].state = "unused" /\ Chained(n, o, 0)
              /\ UNCHANGED <<open, queue, flush>>
            BY <1>2 DEF Type, NextInput
        <2> QED BY <2>1, <2>2, ChainedTraffic
    <1>3. ASSUME \/ \E h \in Hosts, c \in Backends : ConnectSession(h, c) \/ OpenAdditional(h, c)
                 \/ \E o \in open, c \in Backends : Reconnect(o, c)
                 \/ \E o \in open : Activate(o)
                 \/ \E c \in Backends :
                      \/ ConnectDone(c) \/ ConnectFailed(c) \/ MoreDone(c) \/ MoreFailed(c)
                      \/ ReconnectFailed(c)
                      \/ BackendOpens(c) \/ BackendRefuses(c) \/ BackendEnds(c)
                      \/ BackendCloses(c) \/ CloseFailed(c) \/ TerminalClosed(c) \/ TerminalError(c)
                 \/ UNCHANGED vars
          PROVE  UNCHANGED <<sends, queue, flush>> /\ open \subseteq open'
        BY <1>3 DEF ConnectSession, OpenAdditional, Reconnect, Activate, ConnectDone, OpenTerminal,
                    ConnectFailed, MoreDone, MoreFailed, ReconnectFailed, BackendOpens,
                    BackendRefuses, BackendEnds, BackendCloses, CloseFailed, TerminalClosed,
                    TerminalError, vars, inputVars
    <1> QED BY <1>1, <1>2, <1>3, NextCases, EnqueueTraffic, ReconnectDoneTraffic, FlushTraffic,
               CloseTraffic, SendTraffic

---------------------------------------------------------------------------
\* The invariant

LEMMA InitInv == Init => IInv
    <1> SUFFICES ASSUME Init PROVE IInv
        OBVIOUS
    <1>1. Pending("connect") = {} /\ Cardinality(Pending("connect")) = 0
        BY FS_EmptySet DEF Init, Pending, NoCall
    <1>2. TypeOK
        <2>1. (CHOOSE i \in Ids : TRUE) \in Ids
            <3>1. \E i \in Ids : TRUE
                <4>1. PICK h \in Hosts : TRUE
                    BY TabsAssumption
                <4>2. <<h, 0>> \in Ids
                    BY SendTypes DEF Ids
                <4> QED BY <4>2
            <3> QED BY <3>1
        <2>2. Blank \in Tab /\ NoCall \in Call
            BY <2>1, SendTypes DEF Blank, NoCall, Tab, Call, TabStatus
        <2>3. <<>> \in Seq(Inputs)
            OBVIOUS
        <2>4. 0 \in 0..MaxTabs /\ 0 \in 0..MaxConnects /\ 0 \in 0..MaxInputs /\ NoSend \in Send
            BY SendTypes
        <2> QED BY <2>2, <2>3, <2>4 DEF Init, TypeOK, HostStatus
    <1>3. made = 0 /\ open = {} /\ 1..made = {}
        BY DEF Init
    <1>4. Slots /\ FirstIds
        BY <1>1, <1>3, TabsAssumption DEF Slots, FirstIds
    <1>5. Objects
        BY <1>3 DEF Objects, IdsOfObjects, SessionsOfObjects, OpenIds
    <1>6. \A n \in Inputs : sends[n].state = "unused"
        BY DEF Init, NoSend
    <1>7. Traffic
        BY <1>6, HoldsEmpty DEF Init, Traffic, InputsHaveTab, CopiesOfTab, QueuesOfIds, FlushesOfCalls
    <1> QED BY <1>2, <1>4, <1>5, <1>7 DEF IInv

LEMMA StepInv == IInv /\ [Next]_vars => IInv'
    <1> SUFFICES ASSUME IInv, [Next]_vars PROVE IInv'
        OBVIOUS
    <1>1. TypeOK /\ Slots /\ FirstIds /\ Objects /\ Traffic /\ InputsHaveTab
        BY DEF IInv, Traffic
    <1>2. TypeOK'
        <2>1. CASE \E c \in Backends :
                    \/ ConnectDone(c) \/ ConnectFailed(c) \/ MoreDone(c) \/ MoreFailed(c)
                    \/ ReconnectDone(c) \/ ReconnectFailed(c)
            BY <1>1, <2>1, ReplyStepType DEF Replies
        <2> QED BY <1>1, <2>1, NextCases, AskStepType, InputStepType, OtherStepType
    <1>3. Slots' /\ FirstIds'
        BY <1>1, SlotsStep
    <1>4. Objects' /\ Stays
        BY <1>1, ObjectsStep
    <1>5. Traffic'
        BY <1>1, <1>4, TrafficStep
    <1> QED BY <1>2, <1>3, <1>4, <1>5 DEF IInv

\* Only SendNow hands input to the backend.
LEMMA OnlySendNow ==
    ASSUME IInv, [Next]_vars, NEW n \in Inputs,
           sends[n].state = "waiting", sends'[n].state = "writing"
    PROVE  SendNow(n)
    <1>1. sends' /= sends
        OBVIOUS
    <1>2. \A m \in Inputs : Done(m).state = "done"
        BY DEF Done, NoSend
    <1>3. ASSUME NEW S \in SUBSET open, CloseTabs(S)
          PROVE  FALSE
        BY <1>2, <1>3 DEF CloseTabs
    <1>4. ASSUME NEW c \in Backends, ReconnectDone(c)
          PROVE  FALSE
        <2>1. sends'[n] = sends[n]
            BY <1>4 DEF ReconnectDone
        <2> QED BY <2>1
    <1>5. ASSUME NEW m \in Inputs, NEW o, NEW snap, Chained(m, o, snap)
          PROVE  FALSE
        BY <1>5 DEF Chained, IInv, TypeOK, NoSend
    <1>6. ASSUME NEW m \in Inputs, NEW o \in open, Enqueue(m, o)
          PROVE  FALSE
        BY <1>6 DEF Enqueue, IInv, TypeOK, NoSend
    <1>7. ASSUME NEW m \in Inputs, SendDropped(m) \/ Wrote(m)
          PROVE  FALSE
        BY <1>2, <1>7 DEF SendDropped, Wrote, IInv, TypeOK
    <1>8. ASSUME NEW m \in Inputs, WriteFailed(m)
          PROVE  FALSE
        <2>1. CASE sends' = [sends EXCEPT ![m] = Done(m)]
            BY <1>2, <2>1 DEF IInv, TypeOK
        <2>2. CASE sends' /= [sends EXCEPT ![m] = Done(m)]
            <3>1. sends'[n] = sends[n] \/ sends'[n] = Done(n)
                BY <1>8, <2>2, Zenon DEF WriteFailed
            <3> QED BY <1>2, <3>1
        <2> QED BY <2>1, <2>2
    <1>9. ASSUME NEW m \in Inputs, SendNow(m)
          PROVE  m = n
        BY <1>9 DEF SendNow, IInv, TypeOK
    <1>10. ASSUME NEW c \in Backends, FlushNext(c)
           PROVE  FALSE
        <2>1. Head(flush[c]) \in Inputs
            BY <1>10, HoldsHead DEF FlushNext, IInv, TypeOK
        <2> QED BY <1>1, <1>5, <1>10, <2>1 DEF FlushNext
    <1>11. ASSUME \/ \E h \in Hosts, c \in Backends : ConnectSession(h, c) \/ OpenAdditional(h, c)
                  \/ \E o \in open, c \in Backends : Reconnect(o, c)
                  \/ \E o \in open : Activate(o)
                  \/ \E c \in Backends :
                      \/ ConnectDone(c) \/ ConnectFailed(c) \/ MoreDone(c) \/ MoreFailed(c)
                      \/ ReconnectFailed(c)
                      \/ BackendOpens(c) \/ BackendRefuses(c) \/ BackendEnds(c)
                      \/ BackendCloses(c) \/ CloseFailed(c) \/ TerminalClosed(c) \/ TerminalError(c)
                  \/ UNCHANGED vars
           PROVE  sends' = sends
        BY <1>11 DEF ConnectSession, OpenAdditional, Reconnect, Activate, ConnectDone,
                     ConnectFailed, MoreDone, MoreFailed, ReconnectFailed, BackendOpens,
                     BackendRefuses, BackendEnds, BackendCloses, CloseFailed, TerminalClosed,
                     TerminalError, vars, inputVars
    <1>12. ASSUME NEW m \in Inputs, NEW o \in open, Type(m, o)
           PROVE  FALSE
        BY <1>5, <1>12 DEF Type
    <1> QED BY <1>1, <1>3, <1>4, <1>6, <1>7, <1>8, <1>9, <1>10, <1>11, <1>12, NextCases

\* A write that starts goes to the tab of the input.
LEMMA SendNowInTab ==
    ASSUME IInv, NEW n \in Inputs, SendNow(n)
    PROVE  sends[n].tab \in open /\ tabs[sends[n].tab].backend = sends'[n].to
    <1> DEFINE t == sends[n].tab
    <1>1. PICK o \in Matches(n) :
            sends' = [sends EXCEPT ![n].state = "writing", ![n].via = o, ![n].to = tabs[o].backend]
        BY DEF SendNow
    <1>2. /\ o \in open /\ o \in 1..made /\ t \in 1..made /\ tabs[o].id = tabs[t].id
          /\ tabs[o].backend = IF sends[n].snap /= 0 THEN sends[n].snap ELSE tabs[t].backend
          /\ sends[n].state = "waiting"
        BY <1>1 DEF SendNow, Matches, WithId, Kept, IInv, TypeOK, Traffic, InputsHaveTab
    <1>3. o = t
        <2>1. CASE sends[n].snap /= 0
            BY <1>2, <2>1 DEF IInv, Traffic, CopiesOfTab
        <2>2. CASE sends[n].snap = 0 /\ tabs[o].backend /= 0
            BY <1>2, <2>2 DEF IInv, Objects, SessionsOfObjects
        <2>3. CASE sends[n].snap = 0 /\ tabs[o].backend = 0
            BY <1>2, <2>3 DEF IInv, Objects, IdsOfObjects
        <2> QED BY <2>1, <2>2, <2>3
    <1>4. sends'[n].to = tabs[o].backend
        BY <1>1 DEF IInv, TypeOK, Send
    <1> QED BY <1>2, <1>3, <1>4

---------------------------------------------------------------------------
\* The order of the input. Typed input is ordered by the chain of its id,
\* queued input by the flush that sends it. Neither is by number: keys typed
\* after a reconnect are chained between the pieces of a flush.

\* Sent, but not settled
Underway(n) == sends[n].state \in {"waiting", "writing"}

\* A set that has, with each input under way, the one it waits for; and what
\* is in every such set with m is sent before m.
Upstream(S) ==
    \A n \in S : Underway(n) /\ sends[n].after \in Inputs /\ Underway(sends[n].after) =>
                    sends[n].after \in S
Before(n, m) == \A S \in SUBSET Inputs : m \in S /\ Upstream(S) => n \in S

\* Typed, not flushed, into a tab that is still open
Typed(n) == Underway(n) /\ sends[n].snap = 0 /\ sends[n].tab \in open
ChainOf(n) == chain[tabs[sends[n].tab].id]
Rising(q) == \A i, j \in 1..Len(q) : i < j => q[i] < q[j]

\* Inputs are numbered as they are made, in queues too.
InputsInOrder ==
    /\ \A n, m \in Inputs : n < m /\ sends[m].state /= "unused" => sends[n].state /= "unused"
    /\ \A i \in Ids : Rising(queue[i])
    /\ \A c \in Backends : Rising(flush[c])

\* A flush has one piece under way, its first; what it is done with came before.
FlushesInOrder ==
    /\ \A n \in Inputs : sends[n].snap /= 0 =>
         calls[sends[n].snap].state = "done" /\ sends[n].state \notin {"unused", "queued"}
    /\ \A n \in Inputs : Underway(n) /\ sends[n].snap /= 0 =>
         flush[sends[n].snap] /= <<>> /\ Head(flush[sends[n].snap]) = n
    /\ \A c \in Backends, n, m \in Inputs :
         sends[n].state = "done" /\ sends[n].snap = c /\ Holds(flush[c], m) => n <= m

\* A write waits for nothing, and goes to a session of its tab.
WritesAreFirst ==
    \A n \in Inputs : sends[n].state = "writing" =>
        /\ Settled(sends[n].after)
        /\ sends[n].to \in Backends =>
             /\ calls[sends[n].to].state = "done"
             /\ \A o \in 1..made : tabs[o].backend = sends[n].to => o = sends[n].tab

\* The chain of an open tab ends with an input that all others come before.
ChainsInOrder ==
    /\ \A n \in Inputs : Typed(n) =>
         ChainOf(n) \in Inputs /\ Underway(ChainOf(n)) /\ Before(n, ChainOf(n))
    /\ \A n, m \in Inputs :
         Typed(n) /\ Typed(m) /\ sends[n].tab = sends[m].tab /\ n < m => Before(n, m)

\* What was typed and will go to session c
Bound(n, c) ==
    /\ sends[n].snap = 0
    /\ \/ sends[n].state = "waiting" /\ sends[n].tab \in open /\ tabs[sends[n].tab].backend = c
       \/ sends[n].state = "writing" /\ sends[n].to = c
WritesTo(n, c) == sends[n].state = "writing" /\ sends[n].snap = 0 /\ sends[n].to = c

\* What a session got is settled and before all that it will get; one piece
\* that was typed is being written to a session at a time.
WrittenInOrder ==
    /\ \A c \in Backends, n \in Inputs : Holds(written[c], n) =>
         sends[n].state = "done" /\ calls[c].state = "done"
    /\ \A c \in Backends, n, m \in Inputs :
         Holds(written[c], n) /\ sends[n].snap = 0 /\ Bound(m, c) => n < m
    /\ \A c \in Backends, n, m \in Inputs : WritesTo(n, c) /\ WritesTo(m, c) => n = m
    /\ InputOnceInOrder

OrderInv == InputsInOrder /\ FlushesInOrder /\ WritesAreFirst /\ ChainsInOrder /\ WrittenInOrder

\* What the queue's operations do to rising sequences
LEMMA RisingParts ==
    ASSUME NEW q \in Seq(Inputs), Rising(q)
    PROVE  /\ \A n \in Inputs : (\A m \in Inputs : Holds(q, m) => m < n) => Rising(Append(q, n))
           /\ q /= <<>> => Rising(Tail(q)) /\ \A m \in Inputs : Holds(q, m) => Head(q) <= m
           /\ Rising(<<>>)
    <1>1. \A i \in 1..Len(q) : q[i] \in Inputs /\ q[i] \in Nat /\ Holds(q, q[i])
        <2>1. \A i \in 1..Len(q) : q[i] \in Inputs
            OBVIOUS
        <2>2. \A i \in 1..Len(q) : Holds(q, q[i])
            BY DEF Holds
        <2>3. Inputs \subseteq Nat
            BY DEF Inputs
        <2> QED BY <2>1, <2>2, <2>3
    <1>2. ASSUME NEW n \in Inputs, \A m \in Inputs : Holds(q, m) => m < n
          PROVE  Rising(Append(q, n))
        <2>1. \A i \in 1..Len(q) : Append(q, n)[i] = q[i] /\ q[i] < n
            BY <1>1, <1>2
        <2>2. Append(q, n)[Len(q) + 1] = n /\ Len(Append(q, n)) = Len(q) + 1
            OBVIOUS
        <2>3. \A i, j \in 1..(Len(q) + 1) : i < j => i \in 1..Len(q) /\ (j \in 1..Len(q) \/ j = Len(q) + 1)
            OBVIOUS
        <2> QED BY <2>1, <2>2, <2>3 DEF Rising
    <1>3. ASSUME q /= <<>>
          PROVE  Rising(Tail(q)) /\ \A m \in Inputs : Holds(q, m) => Head(q) <= m
        <2>1. Len(q) >= 1 /\ Len(Tail(q)) = Len(q) - 1 /\ Head(q) = q[1]
              /\ \A i \in 1..(Len(q) - 1) : Tail(q)[i] = q[i + 1]
            BY <1>3
        <2>2. \A i, j \in 1..(Len(q) - 1) : i < j => i + 1 \in 1..Len(q) /\ j + 1 \in 1..Len(q) /\ i + 1 < j + 1
            OBVIOUS
        <2>3. Rising(Tail(q))
            BY <2>1, <2>2 DEF Rising
        <2>4. \A i \in 1..Len(q) : i = 1 \/ 1 < i
            OBVIOUS
        <2>5. 1 \in 1..Len(q)
            BY <2>1
        <2>6. \A i \in 1..Len(q) : q[1] <= q[i]
            BY <1>1, <2>4, <2>5 DEF Rising
        <2> QED BY <2>1, <2>3, <2>6 DEF Holds
    <1>4. Rising(<<>>)
        BY DEF Rising
    <1> QED BY <1>2, <1>3, <1>4

\* Done leaves of a send its end and its session.
LEMMA DoneParts ==
    ASSUME NEW n \in Inputs
    PROVE  Done(n).state = "done" /\ Done(n).snap = sends[n].snap
    BY DEF Done, NoSend

\* A tab that is not open is not opened again.
LEMMA NothingReopens ==
    ASSUME TypeOK, [Next]_vars
    PROVE  \A o \in 1..made : o \in open' => o \in open
    <1>1. \A o \in 1..made : o /= made + 1
        BY TabParts
    <1>2. ASSUME NEW S \in SUBSET open, CloseTabs(S)
          PROVE  open' \subseteq open
        BY <1>2 DEF CloseTabs
    <1>3. open' \subseteq open \cup {made + 1}
        BY <1>2, NextCases DEF ConnectSession, OpenAdditional, Reconnect, Activate, Type, Enqueue,
              ConnectDone, OpenTerminal, ConnectFailed, MoreDone, MoreFailed, ReconnectDone,
              ReconnectFailed, FlushNext, BackendOpens, BackendRefuses, BackendEnds, BackendCloses,
              CloseFailed, TerminalClosed, TerminalError, SendNow, SendDropped, Wrote, WriteFailed,
              vars
    <1> QED BY <1>1, <1>3

\* What the steps do to the input
LEMMA InputCases ==
    ASSUME [Next]_vars
    PROVE  \/ UNCHANGED <<sends, chain, queue, flush, written>> /\ open \subseteq open'
           \/ \E n \in Inputs, o \in open : Type(n, o) \/ Enqueue(n, o)
           \/ \E c \in Backends : ReconnectDone(c) \/ FlushNext(c)
           \/ \E S \in SUBSET open : CloseTabs(S)
           \/ \E n \in Inputs : SendNow(n) \/ SendDropped(n) \/ Wrote(n) \/ WriteFailed(n)
    <1>1. ASSUME \/ \E h \in Hosts, c \in Backends : ConnectSession(h, c) \/ OpenAdditional(h, c)
                 \/ \E o \in open, c \in Backends : Reconnect(o, c)
                 \/ \E o \in open : Activate(o)
                 \/ \E c \in Backends :
                      \/ ConnectDone(c) \/ ConnectFailed(c) \/ MoreDone(c) \/ MoreFailed(c)
                      \/ ReconnectFailed(c)
                      \/ BackendOpens(c) \/ BackendRefuses(c) \/ BackendEnds(c)
                      \/ BackendCloses(c) \/ CloseFailed(c) \/ TerminalClosed(c) \/ TerminalError(c)
                 \/ UNCHANGED vars
          PROVE  UNCHANGED <<sends, chain, queue, flush, written>> /\ open \subseteq open'
        BY <1>1 DEF ConnectSession, OpenAdditional, Reconnect, Activate, ConnectDone, OpenTerminal,
                    ConnectFailed, MoreDone, MoreFailed, ReconnectFailed, BackendOpens,
                    BackendRefuses, BackendEnds, BackendCloses, CloseFailed, TerminalClosed,
                    TerminalError, vars, inputVars
    <1> QED BY <1>1, NextCases

\* What each step does, input by input
\*
\* enqueueTerminalSend: the input waits behind the last of its id.
LEMMA TypeDoes ==
    ASSUME TypeOK, NEW n \in Inputs, NEW o, NEW snap, Chained(n, o, snap)
    PROVE  /\ sends'[n].state = "waiting" /\ sends'[n].tab = o /\ sends'[n].snap = snap
           /\ sends'[n].after = chain[tabs[o].id]
           /\ \A m \in Inputs : m /= n => sends'[m] = sends[m]
           /\ \A i \in Ids : chain'[i] = IF i = tabs[o].id THEN n ELSE chain[i]
    BY DEF Chained, TypeOK, NoSend

\* Input is queued until its tab is connected.
LEMMA EnqueueDoes ==
    ASSUME TypeOK, NEW n \in Inputs, NEW o \in open, Enqueue(n, o)
    PROVE  /\ sends[n].state = "unused" /\ sends'[n].state = "queued" /\ sends'[n].snap = 0
           /\ \A m \in Inputs : m /= n => sends'[m] = sends[m]
           /\ active \in Ids /\ \A i \in Ids : queue'[i] =
                IF i = active THEN Append(queue[i], n) ELSE queue[i]
           /\ UNCHANGED <<tabs, made, open, calls, chain, flush, written>>
    BY TabParts DEF Enqueue, NextInput, TypeOK, NoSend

\* A reconnect takes the queue of its id.
LEMMA ReconnectDoneDoes ==
    ASSUME TypeOK, NEW c \in Backends, ReconnectDone(c)
    PROVE  /\ calls[c].state = "opened" /\ calls[c].id \in Ids
           /\ \A d \in Backends : flush'[d] = IF d = c THEN queue[calls[c].id] ELSE flush[d]
           /\ \A i \in Ids : queue'[i] = IF i = calls[c].id THEN <<>> ELSE queue[i]
           /\ \A n \in Inputs :
                \/ sends'[n] = sends[n]
                \/ sends[n].state = "queued" /\ sends'[n].state = "flushing" /\ sends'[n].snap = c
           /\ UNCHANGED <<made, open, chain, written>>
    <1>1. calls[c].state = "opened" /\ calls[c].id \in Ids
        BY DEF ReconnectDone, Answered, TypeOK, Call
    <1>2. /\ flush' = [flush EXCEPT ![c] = queue[calls[c].id]]
          /\ queue' = [queue EXCEPT ![calls[c].id] = <<>>]
          /\ UNCHANGED <<made, open, chain, written>>
        BY DEF ReconnectDone
    <1>3. ASSUME NEW n \in Inputs
          PROVE  \/ sends'[n] = sends[n]
                 \/ sends[n].state = "queued" /\ sends'[n].state = "flushing" /\ sends'[n].snap = c
        <2>1. \/ sends'[n] = sends[n]
              \/ /\ sends[n].state = "queued"
                 /\ sends'[n] = [sends[n] EXCEPT !.state = "flushing", !.snap = c]
            BY DEF ReconnectDone
        <2>2. sends[n] \in Send
            BY DEF TypeOK
        <2>3. LET s == [sends[n] EXCEPT !.state = "flushing", !.snap = c]
              IN  s.state = "flushing" /\ s.snap = c
            BY <2>2 DEF Send
        <2> QED BY <2>1, <2>3
    <1> QED BY <1>1, <1>2, <1>3 DEF TypeOK

\* Closing drops the queues and chains of the tabs that are closed.
LEMMA CloseDoes ==
    ASSUME TypeOK, NEW S \in SUBSET open, CloseTabs(S)
    PROVE  /\ \A n \in Inputs :
                \/ sends'[n] = sends[n]
                \/ sends[n].state = "queued" /\ sends'[n].state = "done" /\ sends'[n].snap = sends[n].snap
           /\ \A i \in Ids : queue'[i] \in {queue[i], <<>>}
           /\ \A i \in Ids : chain'[i] = chain[i] \/ \E o \in S : tabs[o].id = i
           /\ open' = open \ S /\ UNCHANGED <<made, calls, flush, written>>
    BY DoneParts DEF CloseTabs

\* A write begins.
LEMMA SendNowDoes ==
    ASSUME TypeOK, NEW n \in Inputs, SendNow(n)
    PROVE  /\ sends[n].state = "waiting" /\ Settled(sends[n].after)
           /\ sends'[n].state = "writing" /\ sends'[n].tab = sends[n].tab
           /\ sends'[n].snap = sends[n].snap /\ sends'[n].after = sends[n].after
           /\ \A m \in Inputs : m /= n => sends'[m] = sends[m]
           /\ UNCHANGED <<tabs, made, open, calls, chain, queue, flush, written>>
    <1>1. PICK o : sends' = [sends EXCEPT ![n].state = "writing", ![n].via = o, ![n].to = tabs[o].backend]
        BY DEF SendNow
    <1>2. sends[n] \in Send
        BY DEF TypeOK
    <1>3. sends'[n] = [sends[n] EXCEPT !.state = "writing", !.via = o, !.to = tabs[o].backend]
        BY <1>1 DEF TypeOK
    <1>4. /\ sends'[n].state = "writing" /\ sends'[n].tab = sends[n].tab
          /\ sends'[n].snap = sends[n].snap /\ sends'[n].after = sends[n].after
        BY <1>2, <1>3 DEF Send
    <1>5. \A m \in Inputs : m /= n => sends'[m] = sends[m]
        BY <1>1 DEF TypeOK
    <1> QED BY <1>4, <1>5 DEF SendNow

\* A send settles: it is written, dropped or fails, and a failure may take
\* along what its flush has not sent yet.
LEMMA SettleDoes ==
    ASSUME TypeOK, NEW n \in Inputs, SendDropped(n) \/ Wrote(n) \/ WriteFailed(n)
    PROVE  /\ Underway(n) /\ (Wrote(n) \/ WriteFailed(n) => sends[n].state = "writing")
           /\ SendDropped(n) => Settled(sends[n].after)
           /\ sends'[n] = Done(n)
           /\ \A m \in Inputs : m /= n =>
                \/ sends'[m] = sends[m]
                \/ /\ sends[m].state = "flushing" /\ sends'[m] = Done(m)
                   /\ sends[m].snap \in Backends /\ flush'[sends[m].snap] = <<>>
           /\ \A i \in Ids : chain'[i] = IF chain[i] = n THEN 0 ELSE chain[i]
           /\ \A c \in Backends :
                flush'[c] = flush[c] \/ (flush'[c] = <<>> /\ flush[c] /= <<>> /\ Head(flush[c]) = n)
           /\ \A c \in Backends : written'[c] =
                IF Wrote(n) /\ c = sends[n].to THEN Append(written[c], n) ELSE written[c]
           /\ UNCHANGED <<made, open, calls, queue>>
    <1>1. CASE SendDropped(n)
        <2>1. ~Wrote(n) /\ ~WriteFailed(n)
            BY <1>1 DEF SendDropped, Wrote, WriteFailed
        <2> QED BY <1>1, <2>1 DEF SendDropped, Underway, Unchained, TypeOK
    <1>2. CASE Wrote(n)
        <2>1. ~SendDropped(n)
            BY <1>2 DEF SendDropped, Wrote
        <2> QED BY <1>2, <2>1 DEF Wrote, Underway, Unchained, TypeOK
    <1>3. CASE WriteFailed(n) /\ ~Wrote(n)
        <2>1. /\ sends[n].state = "writing" /\ chain' = Unchained(n)
              /\ UNCHANGED <<made, open, calls, queue, written>>
            BY <1>3 DEF WriteFailed
        <2>2. ~SendDropped(n)
            BY <2>1 DEF SendDropped
        <2> DEFINE flushes == {c \in Backends : flush[c] /= <<>> /\ Head(flush[c]) = n}
        <2>3. CASE /\ flush' = [c \in Backends |-> IF c \in flushes THEN <<>> ELSE flush[c]]
                   /\ sends' = [k \in Inputs |->
                        IF k = n \/ \E c \in flushes : sends[k].state = "flushing" /\ sends[k].snap = c
                        THEN Done(k) ELSE sends[k]]
            <3>1. sends'[n] = Done(n)
                BY <2>3
            <3>2. \A m \in Inputs : m /= n =>
                    \/ sends'[m] = sends[m]
                    \/ /\ sends[m].state = "flushing" /\ sends'[m] = Done(m)
                       /\ sends[m].snap \in Backends /\ flush'[sends[m].snap] = <<>>
                BY <2>3
            <3>3. \A c \in Backends :
                    flush'[c] = flush[c] \/ (flush'[c] = <<>> /\ flush[c] /= <<>> /\ Head(flush[c]) = n)
                BY <2>3
            <3> QED BY <1>3, <2>1, <2>2, <3>1, <3>2, <3>3 DEF Underway, Unchained
        <2>4. CASE sends' = [sends EXCEPT ![n] = Done(n)] /\ flush' = flush
            BY <1>3, <2>1, <2>2, <2>4 DEF Underway, Unchained, TypeOK
        <2> QED BY <1>3, <2>3, <2>4 DEF WriteFailed
    <1> QED BY <1>1, <1>2, <1>3

\* Inputs keep their numbers and queues their order.
LEMMA InputsInOrderStep ==
    ASSUME IInv, InputsInOrder, [Next]_vars
    PROVE  InputsInOrder'
    <1>1. TypeOK /\ Traffic
        BY DEF IInv
    <1>2. /\ \A i \in Ids : queue[i] \in Seq(Inputs) /\ Rising(queue[i])
          /\ \A c \in Backends : flush[c] \in Seq(Inputs) /\ Rising(flush[c])
        BY <1>1 DEF TypeOK, InputsInOrder
    <1>3. Rising(<<>>)
        <2>1. <<>> \in Seq(Inputs) /\ Rising(<<>>)
            BY DEF Rising
        <2> QED BY <2>1
    <1>4. ASSUME \A n \in Inputs : sends[n].state /= "unused" => sends'[n].state /= "unused",
                 \A n \in Inputs : sends[n].state = "unused" /\ sends'[n].state /= "unused" => NextInput(n)
          PROVE  \A n, m \in Inputs : n < m /\ sends'[m].state /= "unused" => sends'[n].state /= "unused"
        <2> SUFFICES ASSUME NEW n \in Inputs, NEW m \in Inputs, n < m, sends'[m].state /= "unused"
                     PROVE  sends'[n].state /= "unused"
            OBVIOUS
        <2>1. CASE sends[m].state /= "unused"
            BY <1>4, <2>1 DEF InputsInOrder
        <2>2. CASE sends[m].state = "unused"
            <3>1. n \in 1..(m - 1)
                BY DEF Inputs
            <3> QED BY <1>4, <2>2, <3>1 DEF NextInput
        <2> QED BY <2>1, <2>2
    <1>5. ASSUME UNCHANGED <<sends, queue, flush>>
          PROVE  InputsInOrder'
        BY <1>5 DEF InputsInOrder, Rising
    <1>6. ASSUME NEW n \in Inputs, NEW o \in open, Type(n, o)
          PROVE  InputsInOrder'
        <2>1. NextInput(n) /\ Chained(n, o, 0) /\ UNCHANGED <<queue, flush>>
            BY <1>6 DEF Type
        <2>2. sends'[n].state = "waiting" /\ \A m \in Inputs : m /= n => sends'[m] = sends[m]
            BY <1>1, <2>1, TypeDoes
        <2> QED BY <1>2, <1>4, <2>1, <2>2 DEF InputsInOrder, Rising
    <1>7. ASSUME NEW n \in Inputs, NEW o \in open, Enqueue(n, o)
          PROVE  InputsInOrder'
        <2>1. NextInput(n) /\ UNCHANGED flush
            BY <1>7 DEF Enqueue
        <2>2. /\ sends[n].state = "unused" /\ sends'[n].state = "queued"
              /\ \A m \in Inputs : m /= n => sends'[m] = sends[m]
              /\ active \in Ids
              /\ \A i \in Ids : queue'[i] = IF i = active THEN Append(queue[i], n) ELSE queue[i]
            BY <1>1, <1>7, EnqueueDoes
        <2>3. \A m \in Inputs : Holds(queue[active], m) => m < n
            <3> SUFFICES ASSUME NEW m \in Inputs, Holds(queue[active], m)
                         PROVE  m < n
                OBVIOUS
            <3>1. sends[m].state = "queued"
                BY <1>1, <2>2 DEF Traffic, QueuesOfIds
            <3>2. m /= n /\ ~(n < m)
                BY <2>2, <3>1 DEF InputsInOrder
            <3> QED BY <3>2 DEF Inputs
        <2>4. Rising(Append(queue[active], n))
            BY <1>2, <2>2, <2>3, RisingParts
        <2>5. \A i \in Ids : Rising(queue'[i])
            BY <1>2, <2>2, <2>4
        <2>6. \A k, m \in Inputs : k < m /\ sends'[m].state /= "unused" => sends'[k].state /= "unused"
            BY <1>4, <2>1, <2>2
        <2> QED BY <1>2, <2>1, <2>5, <2>6 DEF InputsInOrder, Rising
    <1>8. ASSUME \A n \in Inputs : sends'[n] = sends[n] \/
                    (sends[n].state /= "unused" /\ sends'[n].state /= "unused"),
                 \A i \in Ids : Rising(queue'[i]), \A c \in Backends : Rising(flush'[c])
          PROVE  InputsInOrder'
        <2>1. \A k, m \in Inputs : k < m /\ sends'[m].state /= "unused" => sends'[k].state /= "unused"
            BY <1>4, <1>8
        <2> QED BY <1>8, <2>1 DEF InputsInOrder, Rising
    <1>9. ASSUME NEW c \in Backends, ReconnectDone(c)
          PROVE  InputsInOrder'
        <2>1. \A n \in Inputs : sends'[n] = sends[n] \/
                    (sends[n].state /= "unused" /\ sends'[n].state /= "unused")
            BY <1>1, <1>9, ReconnectDoneDoes
        <2>2. /\ calls[c].id \in Ids
              /\ \A d \in Backends : flush'[d] = IF d = c THEN queue[calls[c].id] ELSE flush[d]
              /\ \A i \in Ids : queue'[i] = IF i = calls[c].id THEN <<>> ELSE queue[i]
            BY <1>1, <1>9, ReconnectDoneDoes
        <2>3. (\A i \in Ids : Rising(queue'[i])) /\ \A d \in Backends : Rising(flush'[d])
            BY <1>2, <1>3, <2>2
        <2> QED BY <1>8, <2>1, <2>3
    <1>10. ASSUME NEW c \in Backends, FlushNext(c)
           PROVE  InputsInOrder'
        <2> DEFINE n == Head(flush[c])
        <2>1. flush[c] \in Seq(Inputs) /\ flush[c] /= <<>> /\ n \in Inputs /\ queue' = queue
            BY <1>2, <1>10, HoldsHead DEF FlushNext
        <2>2. CASE sends[n].state = "flushing" /\ Chained(n, sends[n].tab, c) /\ UNCHANGED flush
            <3> HIDE DEF n
            <3>1. sends'[n].state = "waiting" /\ \A m \in Inputs : m /= n => sends'[m] = sends[m]
                BY <1>1, <2>1, <2>2, TypeDoes
            <3> QED BY <1>2, <1>8, <2>1, <2>2, <3>1
        <2>3. CASE flush' = [flush EXCEPT ![c] = Tail(@)] /\ UNCHANGED <<sends, chain>>
            <3>1. \A d \in Backends : flush'[d] = IF d = c THEN Tail(flush[c]) ELSE flush[d]
                BY <1>1, <2>3 DEF TypeOK
            <3>2. Rising(Tail(flush[c]))
                BY <1>2, <2>1, RisingParts
            <3> QED BY <1>2, <1>8, <2>1, <2>3, <3>1, <3>2
        <2> QED BY <1>10, <2>2, <2>3 DEF FlushNext
    <1>11. ASSUME NEW S \in SUBSET open, CloseTabs(S)
           PROVE  InputsInOrder'
        <2>1. \A n \in Inputs : sends'[n] = sends[n] \/
                    (sends[n].state /= "unused" /\ sends'[n].state /= "unused")
            BY <1>1, <1>11, CloseDoes
        <2>2. flush' = flush /\ \A i \in Ids : queue'[i] \in {queue[i], <<>>}
            BY <1>1, <1>11, CloseDoes
        <2> QED BY <1>2, <1>3, <1>8, <2>1, <2>2
    <1>12. ASSUME NEW n \in Inputs, SendNow(n)
           PROVE  InputsInOrder'
        <2>1. /\ sends[n].state = "waiting" /\ sends'[n].state = "writing"
              /\ \A m \in Inputs : m /= n => sends'[m] = sends[m]
              /\ UNCHANGED <<queue, flush>>
            BY <1>1, <1>12, SendNowDoes
        <2> QED BY <1>2, <1>8, <2>1
    <1>13. ASSUME NEW n \in Inputs, SendDropped(n) \/ Wrote(n) \/ WriteFailed(n)
           PROVE  InputsInOrder'
        <2>1. /\ Underway(n) /\ sends'[n] = Done(n)
              /\ \A m \in Inputs : m /= n =>
                   \/ sends'[m] = sends[m]
                   \/ sends[m].state = "flushing" /\ sends'[m] = Done(m)
              /\ queue' = queue /\ \A c \in Backends : flush'[c] = flush[c] \/ flush'[c] = <<>>
            BY <1>1, <1>13, SettleDoes
        <2>2. \A m \in Inputs : sends'[m] = sends[m] \/
                    (sends[m].state /= "unused" /\ sends'[m].state /= "unused")
            BY <2>1, DoneParts DEF Underway
        <2> QED BY <1>2, <1>3, <1>8, <2>1, <2>2
    <1> QED BY <1>5, <1>6, <1>7, <1>9, <1>10, <1>11, <1>12, <1>13, InputCases

\* A step that starts no flushed piece and ends those under way at the head
\* of their flush keeps the order of flushes.
LEMMA FlushesKept ==
    ASSUME IInv, InputsInOrder, FlushesInOrder, Stays,
           \A n \in Inputs :
             \/ sends'[n] = sends[n]
             \/ sends'[n].snap = 0
             \/ /\ sends'[n].snap = sends[n].snap /\ Underway(n)
                /\ sends'[n].state \in {"waiting", "writing", "done"}
             \/ /\ sends'[n].snap = sends[n].snap /\ sends'[n].state = "done"
                /\ sends[n].snap \in Backends /\ flush'[sends[n].snap] = <<>>,
           \A c \in Backends :
             \/ flush'[c] = flush[c]
             \/ flush'[c] = <<>> /\ \A n \in Inputs : sends[n].snap = c => ~Underway(n)'
    PROVE  FlushesInOrder'
    <1>1. TypeOK /\ \A n \in Inputs : sends[n].snap /= 0 => sends[n].snap \in Backends
        BY TabsAssumption DEF IInv, TypeOK, Send, Backends
    <1>2. \A c \in Backends : c /= 0
        BY DEF Backends
    <1>3. \A n \in Inputs : sends'[n].snap /= 0 =>
             sends'[n].snap = sends[n].snap
        OBVIOUS
    <1>4. \A n \in Inputs : sends'[n].snap /= 0 =>
             calls'[sends'[n].snap].state = "done" /\ sends'[n].state \notin {"unused", "queued"}
        BY <1>1 DEF FlushesInOrder, Stays
    <1>5. ASSUME NEW n \in Inputs, Underway(n)', sends'[n].snap /= 0
          PROVE  flush'[sends'[n].snap] /= <<>> /\ Head(flush'[sends'[n].snap]) = n
        <2>1. Underway(n) /\ sends'[n].snap = sends[n].snap
            BY <1>5 DEF Underway
        <2>2. flush[sends[n].snap] /= <<>> /\ Head(flush[sends[n].snap]) = n
            BY <1>5, <2>1 DEF FlushesInOrder
        <2>3. sends[n].snap \in Backends
            BY <1>1, <1>5, <2>1
        <2> QED BY <1>5, <2>1, <2>2, <2>3
    <1>6. ASSUME NEW c \in Backends, NEW n \in Inputs, NEW m \in Inputs,
                 sends'[n].state = "done", sends'[n].snap = c, Holds(flush'[c], m)
          PROVE  n <= m
        <2>1. flush'[c] = flush[c] /\ sends[n].snap = c
            BY <1>2, <1>3, <1>6, HoldsEmpty
        <2>2. CASE sends[n].state = "done"
            BY <1>6, <2>1, <2>2 DEF FlushesInOrder
        <2>3. CASE Underway(n)
            <3>1. flush[c] /= <<>> /\ Head(flush[c]) = n
                BY <1>2, <2>1, <2>3 DEF FlushesInOrder
            <3>2. flush[c] \in Seq(Inputs) /\ Rising(flush[c])
                BY <1>1 DEF TypeOK, InputsInOrder
            <3> QED BY <1>6, <2>1, <3>1, <3>2, RisingParts
        <2>4. CASE sends[n].state /= "done" /\ ~Underway(n)
            <3>1. flush'[c] = <<>>
                BY <1>2, <1>6, <2>1, <2>4
            <3> QED BY <1>6, <3>1, HoldsEmpty
        <2> QED BY <2>2, <2>3, <2>4
    <1> QED BY <1>4, <1>5, <1>6 DEF FlushesInOrder

\* Every step keeps the order of flushes.
LEMMA FlushesInOrderStep ==
    ASSUME IInv, InputsInOrder, FlushesInOrder, Stays, [Next]_vars
    PROVE  FlushesInOrder'
    <1>1. TypeOK /\ Traffic /\ \A n \in Inputs : sends[n].snap /= 0 => sends[n].snap \in Backends
        <2>1. TypeOK /\ Traffic
            BY DEF IInv
        <2>2. \A n \in Inputs : sends[n].snap /= 0 => sends[n].snap \in Backends
            BY <2>1, TabsAssumption DEF TypeOK, Send, Backends
        <2> QED BY <2>1, <2>2
    <1>2. \A c \in Backends : c /= 0 /\ flush[c] \in Seq(Inputs)
        <2>1. \A c \in Backends : c /= 0
            BY DEF Backends
        <2>2. \A c \in Backends : flush[c] \in Seq(Inputs)
            BY <1>1 DEF TypeOK
        <2> QED BY <2>1, <2>2
    <1>3. ASSUME \A n \in Inputs : sends'[n] = sends[n] \/ sends'[n].snap = 0, flush' = flush
          PROVE  FlushesInOrder'
        BY <1>3, FlushesKept
    <1>4. ASSUME NEW n \in Inputs, NEW o \in open, Type(n, o)
          PROVE  FlushesInOrder'
        <2>1. Chained(n, o, 0) /\ flush' = flush
            BY <1>4 DEF Type
        <2>2. sends'[n].snap = 0 /\ \A m \in Inputs : m /= n => sends'[m] = sends[m]
            BY <1>1, <2>1, TypeDoes
        <2> QED BY <1>3, <2>1, <2>2
    <1>5. ASSUME NEW n \in Inputs, NEW o \in open, Enqueue(n, o)
          PROVE  FlushesInOrder'
        <2>1. sends'[n].snap = 0 /\ flush' = flush /\ \A m \in Inputs : m /= n => sends'[m] = sends[m]
            BY <1>1, <1>5, EnqueueDoes
        <2> QED BY <1>3, <2>1
    <1>6. ASSUME NEW c \in Backends, ReconnectDone(c)
          PROVE  FlushesInOrder'
        <2>1. /\ calls[c].state = "opened"
              /\ \A d \in Backends : d /= c => flush'[d] = flush[d]
              /\ \A n \in Inputs :
                   \/ sends'[n] = sends[n]
                   \/ sends'[n].state = "flushing" /\ sends'[n].snap = c
            BY <1>1, <1>6, ReconnectDoneDoes
        <2>2. \A n \in Inputs : sends[n].snap /= c
            BY <1>2, <2>1 DEF FlushesInOrder
        <2>3. calls'[c].state = "done"
            BY <1>1, <1>6 DEF ReconnectDone, Answered, TypeOK, Call
        <2>4. \A n \in Inputs : sends'[n].snap /= 0 =>
                calls'[sends'[n].snap].state = "done" /\ sends'[n].state \notin {"unused", "queued"}
            BY <1>1, <2>1, <2>3 DEF FlushesInOrder, Stays
        <2>5. \A n \in Inputs : sends'[n].state \in {"waiting", "writing", "done"} =>
                sends'[n] = sends[n] /\ (sends[n].snap /= 0 => flush'[sends[n].snap] = flush[sends[n].snap])
            BY <1>1, <2>1, <2>2
        <2> QED BY <1>2, <2>4, <2>5 DEF FlushesInOrder, Underway
    <1>7. ASSUME NEW c \in Backends, FlushNext(c)
          PROVE  FlushesInOrder'
        <2> DEFINE n == Head(flush[c])
        <2>1. flush[c] /= <<>> /\ n \in Inputs /\ Holds(flush[c], n)
            BY <1>2, <1>7, HoldsHead DEF FlushNext
        <2>2. CASE sends[n].state = "flushing" /\ Chained(n, sends[n].tab, c) /\ UNCHANGED flush
            <3>1. sends[n].snap = c
                BY <2>1, <2>2, <1>1 DEF Traffic, FlushesOfCalls
            <3>2. flush[c] /= <<>> /\ Head(flush[c]) = n
                BY <2>1
            <3> HIDE DEF n
            <3>3. /\ sends'[n].state = "waiting" /\ sends'[n].snap = c
                  /\ \A m \in Inputs : m /= n => sends'[m] = sends[m]
                BY <1>1, <2>1, <2>2, TypeDoes
            <3>4. \A m \in Inputs : sends'[m].snap = sends[m].snap
                BY <3>1, <3>3
            <3>5. \A m \in Inputs : sends'[m].snap /= 0 =>
                    calls'[sends'[m].snap].state = "done" /\ sends'[m].state \notin {"unused", "queued"}
                BY <1>1, <3>3, <3>4 DEF FlushesInOrder, Stays
            <3>6. \A m \in Inputs : Underway(m)' /\ sends'[m].snap /= 0 =>
                    flush'[sends'[m].snap] /= <<>> /\ Head(flush'[sends'[m].snap]) = m
                BY <2>2, <3>2, <3>3, <3>4 DEF FlushesInOrder, Underway
            <3>7. \A d \in Backends, k, m \in Inputs :
                    sends'[k].state = "done" /\ sends'[k].snap = d /\ Holds(flush'[d], m) => k <= m
                BY <2>2, <3>3 DEF FlushesInOrder
            <3> QED BY <3>5, <3>6, <3>7 DEF FlushesInOrder
        <2>3. CASE sends[n].state = "done" /\ flush' = [flush EXCEPT ![c] = Tail(@)]
                   /\ UNCHANGED <<sends, chain>>
            <3>1. \A d \in Backends : flush'[d] = IF d = c THEN Tail(flush[c]) ELSE flush[d]
                BY <1>1, <2>3 DEF TypeOK
            <3>2. \A m \in Inputs : Underway(m) => sends[m].snap /= c
                BY <1>2, <2>3 DEF FlushesInOrder, Underway
            <3> HIDE DEF n
            <3>3. \A m \in Inputs : sends'[m].snap /= 0 =>
                    calls'[sends'[m].snap].state = "done" /\ sends'[m].state \notin {"unused", "queued"}
                BY <1>1, <2>3 DEF FlushesInOrder, Stays
            <3>4. \A m \in Inputs : Underway(m)' /\ sends'[m].snap /= 0 =>
                    flush'[sends'[m].snap] /= <<>> /\ Head(flush'[sends'[m].snap]) = m
                BY <1>1, <2>3, <3>1, <3>2 DEF FlushesInOrder, Underway
            <3>5. \A d \in Backends, m \in Inputs : Holds(flush'[d], m) => Holds(flush[d], m)
                BY <1>2, <2>1, <3>1, HoldsTail
            <3>6. \A d \in Backends, k, m \in Inputs :
                    sends'[k].state = "done" /\ sends'[k].snap = d /\ Holds(flush'[d], m) => k <= m
                BY <2>3, <3>5 DEF FlushesInOrder
            <3> QED BY <3>3, <3>4, <3>6 DEF FlushesInOrder
        <2> QED BY <1>7, <2>2, <2>3 DEF FlushNext
    <1>8. ASSUME NEW S \in SUBSET open, CloseTabs(S)
          PROVE  FlushesInOrder'
        <2>1. /\ flush' = flush
              /\ \A n \in Inputs :
                   sends'[n] = sends[n] \/ (sends[n].state = "queued" /\ sends'[n].snap = sends[n].snap)
            BY <1>1, <1>8, CloseDoes
        <2>2. \A n \in Inputs : sends[n].state = "queued" => sends[n].snap = 0
            BY DEF FlushesInOrder
        <2> QED BY <1>3, <2>1, <2>2
    <1>9. ASSUME NEW n \in Inputs, SendNow(n)
          PROVE  FlushesInOrder'
        <2>1. /\ sends[n].state = "waiting" /\ sends'[n].state = "writing"
              /\ sends'[n].snap = sends[n].snap
              /\ \A m \in Inputs : m /= n => sends'[m] = sends[m]
              /\ flush' = flush
            BY <1>1, <1>9, SendNowDoes
        <2> QED BY <2>1, FlushesKept DEF Underway
    <1>10. ASSUME NEW n \in Inputs, SendDropped(n) \/ Wrote(n) \/ WriteFailed(n)
           PROVE  FlushesInOrder'
        <2>1. /\ Underway(n) /\ sends'[n] = Done(n)
              /\ \A m \in Inputs : m /= n =>
                   \/ sends'[m] = sends[m]
                   \/ /\ sends[m].state = "flushing" /\ sends'[m] = Done(m)
                      /\ sends[m].snap \in Backends /\ flush'[sends[m].snap] = <<>>
              /\ \A c \in Backends :
                   flush'[c] = flush[c] \/ (flush'[c] = <<>> /\ flush[c] /= <<>> /\ Head(flush[c]) = n)
            BY <1>1, <1>10, SettleDoes
        <2>2. \A m \in Inputs : Done(m).state = "done" /\ Done(m).snap = sends[m].snap
            BY DoneParts
        <2>3. \A m \in Inputs : Underway(m)' => m /= n /\ Underway(m)
            BY <2>1, <2>2 DEF Underway
        <2>4. \A c \in Backends : Head(flush[c]) = n =>
                \A m \in Inputs : sends[m].snap = c => ~Underway(m)'
            BY <1>2, <2>3 DEF FlushesInOrder
        <2>5. \A c \in Backends :
                \/ flush'[c] = flush[c]
                \/ flush'[c] = <<>> /\ \A m \in Inputs : sends[m].snap = c => ~Underway(m)'
            BY <2>1, <2>4
        <2>6. \A m \in Inputs :
                \/ sends'[m] = sends[m]
                \/ /\ sends'[m].snap = sends[m].snap /\ Underway(m)
                   /\ sends'[m].state \in {"waiting", "writing", "done"}
                \/ /\ sends'[m].snap = sends[m].snap /\ sends'[m].state = "done"
                   /\ sends[m].snap \in Backends /\ flush'[sends[m].snap] = <<>>
            BY <2>1, <2>2
        <2> QED BY <2>5, <2>6, FlushesKept
    <1> QED BY <1>3, <1>4, <1>5, <1>6, <1>7, <1>8, <1>9, <1>10, InputCases

\* Input that is done with stays so, and only SendNow begins to write.
LEMMA OthersKeep ==
    ASSUME IInv, [Next]_vars
    PROVE  /\ \A n \in Inputs : sends[n].state = "done" => sends'[n] = sends[n]
           /\ \A n \in Inputs : sends'[n].state = "writing" => sends'[n] = sends[n] \/ SendNow(n)
    <1>1. TypeOK
        BY DEF IInv
    <1>2. \A m \in Inputs : Done(m).state = "done"
        BY DoneParts
    <1>3. ASSUME NEW n \in Inputs, NEW o \in open, Type(n, o) \/ Enqueue(n, o)
          PROVE  /\ sends[n].state = "unused" /\ sends'[n].state \in {"waiting", "queued"}
                 /\ \A m \in Inputs : m /= n => sends'[m] = sends[m]
        <2>1. CASE Type(n, o)
            BY <1>1, <2>1, TypeDoes DEF Type, NextInput
        <2>2. CASE Enqueue(n, o)
            BY <1>1, <2>2, EnqueueDoes
        <2> QED BY <1>3, <2>1, <2>2
    <1>4. ASSUME NEW c \in Backends, ReconnectDone(c)
          PROVE  \A n \in Inputs : sends'[n] = sends[n] \/
                    (sends[n].state = "queued" /\ sends'[n].state = "flushing")
        BY <1>1, <1>4, ReconnectDoneDoes
    <1>5. ASSUME NEW c \in Backends, FlushNext(c)
          PROVE  \A n \in Inputs : sends'[n] = sends[n] \/
                    (sends[n].state = "flushing" /\ sends'[n].state = "waiting")
        <2> DEFINE n == Head(flush[c])
        <2>1. n \in Inputs
            BY <1>1, <1>5, HoldsHead DEF FlushNext, TypeOK
        <2>2. \/ sends[n].state = "flushing" /\ Chained(n, sends[n].tab, c)
              \/ sends' = sends
            BY <1>5 DEF FlushNext
        <2> HIDE DEF n
        <2> QED BY <1>1, <2>1, <2>2, TypeDoes
    <1>6. ASSUME NEW S \in SUBSET open, CloseTabs(S)
          PROVE  \A n \in Inputs : sends'[n] = sends[n] \/
                    (sends[n].state = "queued" /\ sends'[n].state = "done")
        BY <1>1, <1>6, CloseDoes
    <1>7. ASSUME NEW n \in Inputs, SendNow(n)
          PROVE  sends[n].state = "waiting" /\ \A m \in Inputs : m /= n => sends'[m] = sends[m]
        BY <1>1, <1>7, SendNowDoes
    <1>8. ASSUME NEW n \in Inputs, SendDropped(n) \/ Wrote(n) \/ WriteFailed(n)
          PROVE  \A m \in Inputs : sends'[m] = sends[m] \/
                    (sends[m].state /= "done" /\ sends'[m].state = "done")
        <2>1. /\ Underway(n) /\ sends'[n] = Done(n)
              /\ \A m \in Inputs : m /= n =>
                   sends'[m] = sends[m] \/ (sends[m].state = "flushing" /\ sends'[m] = Done(m))
            BY <1>1, <1>8, SettleDoes
        <2> QED BY <1>2, <2>1 DEF Underway
    <1> QED BY <1>3, <1>4, <1>5, <1>6, <1>7, <1>8, InputCases

\* What is being written was first in its chain.
LEMMA WritesAreFirstStep ==
    ASSUME IInv, WritesAreFirst, Stays, [Next]_vars
    PROVE  WritesAreFirst'
    <1>1. \A n : Settled(n) => Settled(n)'
        BY OthersKeep DEF Settled
    <1>2. ASSUME NEW n \in Inputs, sends'[n].state = "writing", sends'[n] = sends[n]
          PROVE  /\ Settled(sends[n].after)'
                 /\ sends'[n].to \in Backends =>
                      /\ calls'[sends'[n].to].state = "done"
                      /\ \A o \in 1..made' : tabs'[o].backend = sends'[n].to => o = sends'[n].tab
        <2>1. Settled(sends[n].after)
            BY <1>2 DEF WritesAreFirst
        <2>2. Settled(sends[n].after)'
            BY <1>1, <1>2, <2>1 DEF Settled
        <2> QED BY <1>2, <2>2 DEF WritesAreFirst, Stays
    <1>3. ASSUME NEW n \in Inputs, SendNow(n)
          PROVE  /\ Settled(sends[n].after)'
                 /\ sends'[n].to \in Backends =>
                      /\ calls'[sends'[n].to].state = "done"
                      /\ \A o \in 1..made' : tabs'[o].backend = sends'[n].to => o = sends'[n].tab
        <2>1. /\ sends[n].tab \in open /\ tabs[sends[n].tab].backend = sends'[n].to
            BY <1>3, SendNowInTab
        <2>2. /\ Settled(sends[n].after) /\ sends'[n].after = sends[n].after
              /\ sends'[n].tab = sends[n].tab /\ UNCHANGED <<tabs, made, calls>>
            BY <1>3, SendNowDoes DEF IInv
        <2>3. Settled(sends[n].after)'
            BY <1>1, <2>2 DEF Settled
        <2>4. sends[n].tab \in 1..made /\ 0 \notin Backends
            <3>1. sends[n].tab \in 1..made
                BY <2>1 DEF IInv, TypeOK
            <3>2. 0 \notin Backends
                BY DEF Backends
            <3> QED BY <3>1, <3>2
        <2>5. sends'[n].to \in Backends =>
                /\ calls[sends'[n].to].state = "done"
                /\ \A o \in 1..made : tabs[o].backend = sends'[n].to => o = sends[n].tab
            BY <2>1, <2>4 DEF IInv, Objects, SessionsOfObjects
        <2> QED BY <2>2, <2>3, <2>5
    <1> QED BY <1>2, <1>3, OthersKeep DEF WritesAreFirst

\* Nobody is before the input that waits for nothing, but itself.
LEMMA FirstIsFirst ==
    ASSUME NEW n \in Inputs, NEW m \in Inputs, Settled(sends[m].after), Before(n, m)
    PROVE  n = m
    <1>1. sends[m].after \in Inputs => ~Underway(sends[m].after)
        BY DEF Settled, Underway, Inputs
    <1>2. Upstream({m})
        BY <1>1 DEF Upstream
    <1> QED BY <1>2 DEF Before

\* Tabs that are open and were, with what was typed into them
LEMMA TypedParts ==
    ASSUME IInv, Stays, \A o \in 1..made : o \in open' => o \in open,
           NEW n \in Inputs, Underway(n), sends'[n].tab = sends[n].tab, sends'[n].snap = sends[n].snap
    PROVE  /\ sends[n].tab \in 1..made /\ tabs[sends[n].tab].id \in Ids
           /\ Typed(n)' => Typed(n) /\ tabs'[sends[n].tab].id = tabs[sends[n].tab].id
    <1>1. sends[n].tab \in 1..made
        BY DEF IInv, Traffic, InputsHaveTab, Underway
    <1>2. tabs[sends[n].tab].id \in Ids
        BY <1>1, TabParts DEF IInv
    <1> QED BY <1>1, <1>2 DEF Typed, Stays

\* Inputs under way stay or settle; those that settle were first, and leave
\* their chain if they were its last.
LEMMA ChainsKept ==
    ASSUME IInv, ChainsInOrder, Stays, \A o \in 1..made : o \in open' => o \in open,
           \A n \in Inputs : Underway(n)' =>
             /\ Underway(n) /\ sends'[n].tab = sends[n].tab
             /\ sends'[n].snap = sends[n].snap /\ sends'[n].after = sends[n].after,
           \A n \in Inputs : Underway(n) /\ ~Underway(n)' => Settled(sends[n].after),
           \A o \in open', k \in Inputs :
             o \in 1..made /\ chain[tabs[o].id] = k /\ Underway(k)' => chain'[tabs[o].id] = k
    PROVE  ChainsInOrder'
    <1>1. ASSUME NEW n \in Inputs, NEW m \in Inputs, Underway(n)', Before(n, m)
          PROVE  Before(n, m)'
        <2> SUFFICES ASSUME NEW T \in SUBSET Inputs, m \in T, Upstream(T)'
                     PROVE  n \in T
            BY DEF Before
        <2> DEFINE S == T \cup {k \in Inputs : Underway(k) /\ ~Underway(k)'}
        <2>1. Upstream(S)
            <3> SUFFICES ASSUME NEW k \in S, Underway(k), sends[k].after \in Inputs,
                                Underway(sends[k].after)
                         PROVE  sends[k].after \in S
                BY DEF Upstream
            <3>1. PICK a \in Inputs : a = sends[k].after
                OBVIOUS
            <3>2. Underway(a) /\ ~Settled(a)
                BY <3>1 DEF Settled, Underway, Inputs
            <3>3. k \in Inputs /\ k \in T /\ Underway(k)'
                BY <3>1, <3>2
            <3>4. sends'[k].after = a
                BY <3>1, <3>3
            <3>5. CASE Underway(a)'
                BY <3>1, <3>3, <3>4, <3>5 DEF Upstream
            <3>6. CASE ~Underway(a)'
                BY <3>1, <3>2, <3>6
            <3> QED BY <3>5, <3>6
        <2>2. n \in S
            <3>1. m \in S /\ S \in SUBSET Inputs
                OBVIOUS
            <3> HIDE DEF S
            <3> QED BY <1>1, <2>1, <3>1 DEF Before
        <2> QED BY <1>1, <2>2
    <1>2. ASSUME NEW n \in Inputs, Typed(n)'
          PROVE  \E k \in Inputs : /\ chain'[tabs'[sends'[n].tab].id] = k
                                   /\ Underway(k)' /\ Before(n, k)'
        <2> DEFINE o == sends[n].tab
        <2>1. Underway(n)' /\ Underway(n) /\ sends'[n].tab = o
            BY <1>2 DEF Typed
        <2>2. o \in 1..made /\ Typed(n) /\ tabs'[o].id = tabs[o].id /\ o \in open'
            BY <1>2, <2>1, TypedParts DEF Typed
        <2>3. PICK k \in Inputs : k = chain[tabs[o].id] /\ Underway(k) /\ Before(n, k)
            BY <2>2 DEF ChainsInOrder, ChainOf
        <2>4. Underway(k)'
            <3>1. CASE Settled(sends[k].after)
                <4>1. n = k
                    BY <2>3, <3>1, FirstIsFirst
                <4> QED BY <2>1, <4>1
            <3>2. CASE ~Settled(sends[k].after)
                BY <2>3, <3>2
            <3> QED BY <3>1, <3>2
        <2>5. chain'[tabs[o].id] = k
            BY <2>2, <2>3, <2>4
        <2>6. Before(n, k)'
            BY <1>1, <2>1, <2>3
        <2> QED BY <2>1, <2>2, <2>4, <2>5, <2>6
    <1>3. ASSUME NEW n \in Inputs, NEW m \in Inputs, Typed(n)', Typed(m)',
                 sends'[n].tab = sends'[m].tab, n < m
          PROVE  Before(n, m)'
        <2>1. Underway(n)' /\ Underway(n) /\ Underway(m)' /\ Underway(m)
            BY <1>3 DEF Typed
        <2>2. Typed(n) /\ Typed(m) /\ sends[n].tab = sends[m].tab
            BY <1>3, <2>1, TypedParts
        <2>3. Before(n, m)
            BY <1>3, <2>2 DEF ChainsInOrder
        <2> QED BY <1>1, <2>1, <2>3
    <1>4. \A n \in Inputs : Typed(n)' =>
            ChainOf(n)' \in Inputs /\ Underway(ChainOf(n))' /\ Before(n, ChainOf(n))'
        <2> SUFFICES ASSUME NEW n \in Inputs, Typed(n)'
                     PROVE  ChainOf(n)' \in Inputs /\ Underway(ChainOf(n))' /\ Before(n, ChainOf(n))'
            OBVIOUS
        <2>1. PICK k \in Inputs : /\ chain'[tabs'[sends'[n].tab].id] = k
                                 /\ Underway(k)' /\ Before(n, k)'
            BY <1>2
        <2> QED BY <2>1 DEF ChainOf, Underway, Before
    <1> QED BY <1>3, <1>4 DEF ChainsInOrder

\* A piece of input is chained behind the last of its id.
LEMMA ChainsExtended ==
    ASSUME IInv, InputsInOrder, ChainsInOrder, Stays, NEW n \in Inputs, NEW o \in 1..made, NEW snap,
           Chained(n, o, snap), UNCHANGED <<tabs, open>>, ~Underway(n),
           snap = 0 => sends[n].state = "unused"
    PROVE  ChainsInOrder'
    <1> DEFINE i == tabs[o].id
    <1>1. TypeOK
        BY DEF IInv
    <1>2. /\ sends'[n].state = "waiting" /\ sends'[n].tab = o /\ sends'[n].snap = snap
          /\ sends'[n].after = chain[i]
          /\ \A m \in Inputs : m /= n => sends'[m] = sends[m]
          /\ \A j \in Ids : chain'[j] = IF j = i THEN n ELSE chain[j]
        BY <1>1, TypeDoes
    <1>3. i \in Ids
        BY <1>1, TabParts
    <1>4. tabs'[o].id = i
        OBVIOUS
    <1> HIDE DEF i
    <1>5. ASSUME NEW T \in SUBSET Inputs, Upstream(T)'
          PROVE  Upstream(T)
        <2> SUFFICES ASSUME NEW k \in T, Underway(k), sends[k].after \in Inputs,
                            Underway(sends[k].after)
                     PROVE  sends[k].after \in T
            BY DEF Upstream
        <2>1. PICK a \in Inputs : a = sends[k].after
            OBVIOUS
        <2>2. Underway(a) /\ a /= n /\ k /= n
            BY <2>1
        <2>3. Underway(k)' /\ Underway(a)' /\ sends'[k].after = a
            BY <1>2, <2>1, <2>2 DEF Underway
        <2> QED BY <1>5, <2>1, <2>3 DEF Upstream
    <1>6. ASSUME NEW k \in Inputs, NEW m \in Inputs, Before(k, m)
          PROVE  Before(k, m)'
        BY <1>5, <1>6 DEF Before
    <1>7. ASSUME NEW k \in Inputs, NEW m \in Inputs, m = chain[i], Underway(m), Before(k, m)
          PROVE  Before(k, n)'
        <2> SUFFICES ASSUME NEW T \in SUBSET Inputs, n \in T, Upstream(T)'
                     PROVE  k \in T
            BY DEF Before
        <2>1. Underway(n)' /\ sends'[n].after = m
            BY <1>2, <1>7 DEF Underway
        <2>2. Underway(m)'
            BY <1>2, <1>7 DEF Underway
        <2>3. m \in T
            BY <2>1, <2>2 DEF Upstream
        <2> QED BY <1>5, <1>7, <2>3 DEF Before
    <1>8. ASSUME NEW k \in Inputs, k /= n, Typed(k)'
          PROVE  Typed(k) /\ sends'[k] = sends[k] /\ tabs[sends[k].tab].id \in Ids
        <2>1. sends'[k] = sends[k] /\ Typed(k)
            BY <1>2, <1>8 DEF Typed, Underway
        <2>2. sends[k].tab \in open
            BY <2>1 DEF Typed
        <2> QED BY <1>1, <2>1, <2>2, TabParts
    <1>9. ASSUME NEW k \in Inputs, Typed(k)'
          PROVE  \E m \in Inputs : /\ chain'[tabs[sends'[k].tab].id] = m
                                   /\ Underway(m)' /\ Before(k, m)'
        <2>1. CASE k = n
            <3>1. chain'[tabs[sends'[k].tab].id] = n
                BY <1>2, <1>3, <2>1 DEF i
            <3>2. Underway(n)' /\ Before(n, n)'
                BY <1>2 DEF Underway, Before
            <3> QED BY <2>1, <3>1, <3>2
        <2>2. CASE k /= n
            <3>1. Typed(k) /\ sends'[k] = sends[k] /\ tabs[sends[k].tab].id \in Ids
                BY <1>8, <1>9, <2>2
            <3>2. PICK m \in Inputs : m = chain[tabs[sends[k].tab].id] /\ Underway(m) /\ Before(k, m)
                BY <3>1 DEF ChainsInOrder, ChainOf
            <3>3. CASE tabs[sends[k].tab].id = i
                <4>1. Before(k, n)'
                    BY <1>7, <3>2, <3>3
                <4>2. chain'[tabs[sends'[k].tab].id] = n
                    BY <1>2, <1>3, <3>1, <3>3
                <4>3. Underway(n)'
                    BY <1>2 DEF Underway
                <4> QED BY <4>1, <4>2, <4>3
            <3>4. CASE tabs[sends[k].tab].id /= i
                <4>1. chain'[tabs[sends'[k].tab].id] = m
                    BY <1>2, <3>1, <3>2, <3>4
                <4>2. Underway(m)'
                    BY <1>2, <3>2 DEF Underway
                <4> QED BY <1>6, <3>2, <4>1, <4>2
            <3> QED BY <3>3, <3>4
        <2> QED BY <2>1, <2>2
    <1>10. ASSUME NEW k \in Inputs, NEW m \in Inputs, Typed(k)', Typed(m)',
                  sends'[k].tab = sends'[m].tab, k < m
           PROVE  Before(k, m)'
        <2>1. CASE k /= n /\ m /= n
            <3>1. Typed(k) /\ Typed(m) /\ sends[k].tab = sends[m].tab
                BY <1>8, <1>10, <2>1
            <3>2. Before(k, m)
                BY <1>10, <3>1 DEF ChainsInOrder
            <3> QED BY <1>6, <3>2
        <2>2. CASE m = n
            <3>1. k /= n
                BY <1>10, <2>2 DEF Inputs
            <3>2. Typed(k) /\ sends[k].tab = o
                BY <1>2, <1>8, <1>10, <2>2, <3>1
            <3>3. PICK j \in Inputs : j = chain[i] /\ Underway(j) /\ Before(k, j)
                BY <3>2 DEF ChainsInOrder, ChainOf, i
            <3> QED BY <1>7, <2>2, <3>3
        <2>3. CASE k = n /\ m /= n
            <3>1. sends[n].state = "unused" /\ Typed(m)
                BY <1>2, <1>8, <1>10, <2>3 DEF Typed
            <3>2. sends[m].state /= "unused"
                BY <3>1 DEF Typed, Underway
            <3> QED BY <1>10, <2>3, <3>1, <3>2 DEF InputsInOrder
        <2> QED BY <2>1, <2>2, <2>3
    <1>11. \A k \in Inputs : Typed(k)' =>
             ChainOf(k)' \in Inputs /\ Underway(ChainOf(k))' /\ Before(k, ChainOf(k))'
        <2> SUFFICES ASSUME NEW k \in Inputs, Typed(k)'
                     PROVE  ChainOf(k)' \in Inputs /\ Underway(ChainOf(k))' /\ Before(k, ChainOf(k))'
            OBVIOUS
        <2>1. PICK m \in Inputs : /\ chain'[tabs[sends'[k].tab].id] = m
                                 /\ Underway(m)' /\ Before(k, m)'
            BY <1>9
        <2>2. tabs' = tabs
            OBVIOUS
        <2> QED BY <2>1, <2>2 DEF ChainOf, Underway, Before
    <1> QED BY <1>10, <1>11 DEF ChainsInOrder

\* Every step keeps the chains.
LEMMA ChainsInOrderStep ==
    ASSUME IInv, InputsInOrder, WritesAreFirst, ChainsInOrder, Stays, [Next]_vars
    PROVE  ChainsInOrder'
    <1>1. TypeOK /\ Traffic /\ Objects
        BY DEF IInv
    <1>2. \A o \in 1..made : o \in open' => o \in open
        BY <1>1, NothingReopens
    <1>3. \A o \in open : o \in 1..made /\ tabs[o].id \in Ids
        <2>1. open \subseteq 1..made
            BY <1>1 DEF TypeOK
        <2> QED BY <1>1, <2>1, TabParts
    <1>4. ASSUME \A n \in Inputs : sends'[n] = sends[n] \/ (~Underway(n) /\ ~Underway(n)'),
                 chain' = chain
          PROVE  ChainsInOrder'
        BY <1>2, <1>4, ChainsKept DEF Underway
    <1>5. ASSUME NEW n \in Inputs, NEW o \in open, Type(n, o)
          PROVE  ChainsInOrder'
        <2>1. /\ Chained(n, o, 0) /\ UNCHANGED <<tabs, open>> /\ sends[n].state = "unused"
            BY <1>5 DEF Type, NextInput
        <2>2. ~Underway(n)
            BY <2>1 DEF Underway
        <2> QED BY <1>3, <2>1, <2>2, ChainsExtended
    <1>6. ASSUME NEW n \in Inputs, NEW o \in open, Enqueue(n, o)
          PROVE  ChainsInOrder'
        <2>1. /\ sends[n].state = "unused" /\ sends'[n].state = "queued" /\ chain' = chain
              /\ \A m \in Inputs : m /= n => sends'[m] = sends[m]
            BY <1>1, <1>6, EnqueueDoes
        <2> QED BY <1>4, <2>1 DEF Underway
    <1>7. ASSUME NEW c \in Backends, ReconnectDone(c)
          PROVE  ChainsInOrder'
        <2>1. /\ chain' = chain
              /\ \A n \in Inputs :
                   sends'[n] = sends[n] \/ (sends[n].state = "queued" /\ sends'[n].state = "flushing")
            BY <1>1, <1>7, ReconnectDoneDoes
        <2> QED BY <1>4, <2>1 DEF Underway
    <1>8. ASSUME NEW c \in Backends, FlushNext(c)
          PROVE  ChainsInOrder'
        <2> DEFINE n == Head(flush[c])
        <2>1. n \in Inputs /\ UNCHANGED <<tabs, open>>
            BY <1>1, <1>8, HoldsHead DEF FlushNext, TypeOK
        <2>2. CASE sends[n].state = "flushing" /\ Chained(n, sends[n].tab, c)
            <3>1. c /= 0 /\ ~Underway(n) /\ sends[n].tab \in 1..made
                <4>1. c /= 0
                    BY DEF Backends
                <4>2. sends[n].tab \in 1..made
                    BY <1>1, <2>1, <2>2 DEF Traffic, InputsHaveTab
                <4> QED BY <2>2, <4>1, <4>2 DEF Underway
            <3> HIDE DEF n
            <3> QED BY <2>1, <2>2, <3>1, ChainsExtended
        <2>3. CASE UNCHANGED <<sends, chain>>
            BY <1>4, <2>3
        <2> QED BY <1>8, <2>2, <2>3 DEF FlushNext
    <1>9. ASSUME NEW S \in SUBSET open, CloseTabs(S)
          PROVE  ChainsInOrder'
        <2>1. /\ open' = open \ S
              /\ \A i \in Ids : chain'[i] = chain[i] \/ \E o \in S : tabs[o].id = i
              /\ \A n \in Inputs :
                   sends'[n] = sends[n] \/ (sends[n].state = "queued" /\ sends'[n].state = "done")
            BY <1>1, <1>9, CloseDoes
        <2>2. \A o \in open' : chain'[tabs[o].id] = chain[tabs[o].id]
            BY <1>1, <1>3, <2>1 DEF Objects, OpenIds
        <2>3. \A n \in Inputs : sends'[n] = sends[n] \/ (~Underway(n) /\ ~Underway(n)')
            BY <2>1 DEF Underway
        <2> QED BY <1>2, <2>2, <2>3, ChainsKept DEF Underway
    <1>10. ASSUME NEW n \in Inputs, SendNow(n)
           PROVE  ChainsInOrder'
        <2>1. /\ sends[n].state = "waiting" /\ sends'[n].state = "writing"
              /\ sends'[n].tab = sends[n].tab
              /\ sends'[n].snap = sends[n].snap /\ sends'[n].after = sends[n].after
              /\ \A m \in Inputs : m /= n => sends'[m] = sends[m]
              /\ chain' = chain
            BY <1>1, <1>10, SendNowDoes
        <2>2. \A m \in Inputs :
                /\ Underway(m)' => /\ Underway(m) /\ sends'[m].tab = sends[m].tab
                                   /\ sends'[m].snap = sends[m].snap /\ sends'[m].after = sends[m].after
                /\ Underway(m) => Underway(m)'
            BY <2>1 DEF Underway
        <2> QED BY <1>2, <2>1, <2>2, ChainsKept
    <1>11. ASSUME NEW n \in Inputs, SendDropped(n) \/ Wrote(n) \/ WriteFailed(n)
           PROVE  ChainsInOrder'
        <2>1. /\ Underway(n) /\ (Wrote(n) \/ WriteFailed(n) => sends[n].state = "writing")
              /\ SendDropped(n) => Settled(sends[n].after)
              /\ sends'[n] = Done(n)
              /\ \A m \in Inputs : m /= n =>
                   sends'[m] = sends[m] \/ (sends[m].state = "flushing" /\ sends'[m] = Done(m))
              /\ \A i \in Ids : chain'[i] = IF chain[i] = n THEN 0 ELSE chain[i]
            BY <1>1, <1>11, SettleDoes
        <2>2. Settled(sends[n].after)
            BY <1>11, <2>1 DEF WritesAreFirst
        <2>3. \A m \in Inputs : Done(m).state = "done"
            BY DoneParts
        <2>4. \A m \in Inputs :
                /\ Underway(m)' => /\ Underway(m) /\ sends'[m].tab = sends[m].tab
                                   /\ sends'[m].snap = sends[m].snap /\ sends'[m].after = sends[m].after
                /\ Underway(m) /\ ~Underway(m)' => m = n
            BY <2>1, <2>3 DEF Underway
        <2>5. ~Underway(n)'
            BY <2>1, <2>3 DEF Underway
        <2>6. \A o \in open', k \in Inputs :
                o \in 1..made /\ chain[tabs[o].id] = k /\ Underway(k)' => chain'[tabs[o].id] = k
            BY <1>2, <1>3, <2>1, <2>5
        <2>7. \A m \in Inputs : Underway(m) /\ ~Underway(m)' => Settled(sends[m].after)
            BY <2>2, <2>4
        <2> QED BY <1>2, <2>4, <2>6, <2>7, ChainsKept
    <1> QED BY <1>4, <1>5, <1>6, <1>7, <1>8, <1>9, <1>10, <1>11, InputCases

\* Nothing new is written, and what will be written to a session that was
\* answered was to be written there before.
LEMMA WrittenKept ==
    ASSUME IInv, WrittenInOrder, Stays, written' = written,
           \A n \in Inputs : sends[n].state = "done" => sends'[n] = sends[n],
           \A c \in Backends, n \in Inputs :
             calls[c].state = "done" /\ Bound(n, c)' =>
               Bound(n, c) \/ \A m \in Inputs : sends[m].state = "done" => m < n,
           \A c \in Backends, n, m \in Inputs : WritesTo(n, c)' /\ WritesTo(m, c)' => n = m
    PROVE  WrittenInOrder'
    <1>1. \A c \in Backends : written[c] \in Seq(Inputs)
        BY DEF IInv, TypeOK
    <1>2. \A c \in Backends, n \in Inputs : Holds(written'[c], n) =>
            /\ sends'[n] = sends[n] /\ sends[n].state = "done" /\ Holds(written[c], n)
            /\ calls[c].state = "done" /\ calls'[c].state = "done"
        BY DEF WrittenInOrder, Stays
    <1>3. \A c \in Backends, n, m \in Inputs :
            Holds(written'[c], n) /\ sends'[n].snap = 0 /\ Bound(m, c)' => n < m
        BY <1>2 DEF WrittenInOrder
    <1>4. \A c \in Backends : \A i \in 1..Len(written[c]) :
            written[c][i] \in Inputs /\ Holds(written[c], written[c][i])
        <2>1. \A c \in Backends : \A i \in 1..Len(written[c]) : written[c][i] \in Inputs
            BY <1>1
        <2> QED BY <2>1 DEF Holds
    <1>5. \A c \in Backends : DOMAIN written[c] = 1..Len(written[c])
        BY <1>1
    <1>6. \A c \in Backends : \A i \in DOMAIN written[c] :
            sends'[written[c][i]] = sends[written[c][i]]
        BY <1>2, <1>4, <1>5
    <1>7. InputOnceInOrder'
        BY <1>6 DEF WrittenInOrder, InputOnceInOrder
    <1> QED BY <1>2, <1>3, <1>7 DEF WrittenInOrder

\* A typed input that will be written to a session is in an open tab that has
\* it, or is being written, and what has not changed is bound as before.
LEMMA BoundKept ==
    ASSUME IInv, Stays, \A o \in 1..made : o \in open' => o \in open,
           NEW n \in Inputs, sends'[n] = sends[n], NEW c \in Backends, calls[c].state = "done",
           Bound(n, c)'
    PROVE  Bound(n, c)
    <1>1. CASE sends[n].state = "waiting" /\ sends[n].tab \in open' /\ tabs'[sends[n].tab].backend = c
        <2>1. sends[n].tab \in 1..made
            BY <1>1 DEF IInv, Traffic, InputsHaveTab
        <2>2. sends[n].tab \in 1..made'
            BY <2>1 DEF Stays
        <2>3. tabs[sends[n].tab].backend = c
            BY <1>1, <2>2 DEF Stays
        <2> QED BY <1>1, <2>1, <2>3 DEF Bound
    <1>2. CASE sends[n].state = "writing" /\ sends[n].to = c
        BY <1>2 DEF Bound
    <1> QED BY <1>1, <1>2 DEF Bound

\* Of what was typed into a tab, the first under way is first by number.
LEMMA FirstOfTab ==
    ASSUME ChainsInOrder, NEW n \in Inputs, NEW m \in Inputs, Typed(n), Typed(m),
           sends[n].tab = sends[m].tab, Settled(sends[n].after)
    PROVE  n <= m
    <1>1. CASE m < n
        <2>1. Before(m, n)
            BY <1>1 DEF ChainsInOrder
        <2>2. m = n
            BY <2>1, FirstIsFirst
        <2> QED BY <1>1, <2>2 DEF Inputs
    <1> QED BY <1>1 DEF Inputs

\* A write begins.
LEMMA SendNowWritten ==
    ASSUME IInv, WritesAreFirst, ChainsInOrder, WrittenInOrder, Stays, NEW n \in Inputs, SendNow(n)
    PROVE  WrittenInOrder'
    <1>1. TypeOK
        BY DEF IInv
    <1>2. /\ sends[n].state = "waiting" /\ Settled(sends[n].after)
          /\ sends'[n].state = "writing" /\ sends'[n].tab = sends[n].tab
          /\ sends'[n].snap = sends[n].snap
          /\ \A m \in Inputs : m /= n => sends'[m] = sends[m]
          /\ UNCHANGED <<tabs, made, open, calls, written>>
        BY <1>1, SendNowDoes
    <1>3. sends[n].tab \in open /\ tabs[sends[n].tab].backend = sends'[n].to
        BY SendNowInTab
    <1>4. ASSUME NEW c \in Backends, NEW m \in Inputs, calls[c].state = "done", Bound(m, c)'
          PROVE  Bound(m, c)
        <2>1. CASE m = n
            BY <1>2, <1>3, <1>4, <2>1 DEF Bound
        <2>2. CASE m /= n
            BY <1>2, <1>4, <2>2, BoundKept
        <2> QED BY <2>1, <2>2
    <1>5. ASSUME NEW c \in Backends, NEW m \in Inputs, m /= n, WritesTo(n, c)', WritesTo(m, c)'
          PROVE  FALSE
        <2>1. sends'[m] = sends[m] /\ WritesTo(m, c) /\ sends'[n].to = c /\ sends[n].snap = 0
            BY <1>2, <1>5 DEF WritesTo
        <2>2. Settled(sends[m].after) /\ sends[n].tab = sends[m].tab
            <3>1. sends[n].tab \in 1..made
                BY <1>1, <1>3 DEF TypeOK
            <3> QED BY <1>3, <2>1, <3>1 DEF WritesTo, WritesAreFirst
        <2>3. Typed(n) /\ Typed(m)
            BY <1>2, <1>3, <2>1, <2>2 DEF Typed, Underway, WritesTo
        <2>4. n <= m /\ m <= n
            BY <1>2, <2>2, <2>3, FirstOfTab
        <2> QED BY <1>5, <2>4 DEF Inputs
    <1>6. \A c \in Backends, k, m \in Inputs : WritesTo(k, c)' /\ WritesTo(m, c)' => k = m
        <2>1. \A c \in Backends, m \in Inputs : m /= n /\ WritesTo(m, c)' => WritesTo(m, c)
            BY <1>2 DEF WritesTo
        <2> QED BY <1>5, <2>1 DEF WrittenInOrder
    <1>7. \A m \in Inputs : sends[m].state = "done" => sends'[m] = sends[m]
        BY <1>2
    <1> QED BY <1>2, <1>4, <1>6, <1>7, WrittenKept

\* What a write adds comes after what the session got of the same kind.
LEMMA WroteLast ==
    ASSUME IInv, FlushesInOrder, WrittenInOrder, NEW n \in Inputs, sends[n].state = "writing",
           NEW c \in Backends, sends[n].to = c, NEW k \in Inputs, Holds(written[c], k),
           sends[k].snap = sends[n].snap
    PROVE  k < n
    <1>1. sends[k].state = "done"
        BY DEF WrittenInOrder
    <1>2. k /= n
        BY <1>1
    <1>3. CASE sends[n].snap = 0
        <2>1. Bound(n, c)
            BY <1>3 DEF Bound
        <2> QED BY <1>3, <2>1 DEF WrittenInOrder
    <1>4. CASE sends[n].snap /= 0
        <2>1. sends[n].snap \in Backends
            BY <1>4, TabsAssumption DEF IInv, TypeOK, Send, Backends
        <2>2. PICK d \in Backends : d = sends[n].snap
            BY <2>1
        <2>3. flush[d] /= <<>> /\ Head(flush[d]) = n
            BY <1>4, <2>2 DEF FlushesInOrder, Underway
        <2>4. flush[d] \in Seq(Inputs)
            BY DEF IInv, TypeOK
        <2>5. Holds(flush[d], n)
            BY <2>3, <2>4, HoldsHead
        <2>6. k <= n
            BY <1>1, <2>2, <2>5 DEF FlushesInOrder
        <2> QED BY <1>2, <2>6 DEF Inputs
    <1> QED BY <1>3, <1>4

\* A write ends: what was written is the last of its session.
LEMMA WroteWritten ==
    ASSUME IInv, FlushesInOrder, WritesAreFirst, ChainsInOrder, WrittenInOrder, Stays,
           NEW n \in Inputs, Wrote(n)
    PROVE  WrittenInOrder'
    <1>1. TypeOK
        BY DEF IInv
    <1>2. /\ sends[n].state = "writing" /\ sends'[n] = Done(n)
          /\ \A m \in Inputs : m /= n =>
               sends'[m] = sends[m] \/ (sends[m].state = "flushing" /\ sends'[m] = Done(m))
          /\ \A c \in Backends : written'[c] =
               IF c = sends[n].to THEN Append(written[c], n) ELSE written[c]
          /\ UNCHANGED <<made, open, calls>>
        BY <1>1, SettleDoes
    <1>3. PICK b \in Backends : b = sends[n].to
        BY <1>1 DEF Wrote, TypeOK
    <1>4. tabs' = tabs
        BY DEF Wrote
    <1>5. \A m \in Inputs : Done(m).state = "done" /\ Done(m).snap = sends[m].snap
        BY DoneParts
    <1>6. \A c \in Backends : written[c] \in Seq(Inputs) /\ written'[c] \in Seq(Inputs)
        <2>1. \A c \in Backends : written[c] \in Seq(Inputs)
            BY <1>1 DEF TypeOK
        <2>2. \A c \in Backends : Append(written[c], n) \in Seq(Inputs)
            BY <2>1
        <2> QED BY <1>2, <2>1, <2>2
    <1>7. \A c \in Backends, k \in Inputs :
            Holds(written'[c], k) => Holds(written[c], k) \/ (k = n /\ c = b)
        <2> SUFFICES ASSUME NEW c \in Backends, NEW k \in Inputs, Holds(written'[c], k),
                            ~(k = n /\ c = b)
                     PROVE  Holds(written[c], k)
            OBVIOUS
        <2>1. CASE c = b
            <3>1. Holds(Append(written[c], n), k)
                BY <1>2, <1>3, <2>1
            <3> QED BY <1>6, <2>1, <3>1, HoldsAppend
        <2>2. CASE c /= b
            BY <1>2, <1>3, <2>2
        <2> QED BY <2>1, <2>2
    <1>8. \A c \in Backends, k \in Inputs : Holds(written[c], k) =>
            k /= n /\ sends[k].state = "done" /\ sends'[k] = sends[k] /\ calls[c].state = "done"
        BY <1>2 DEF WrittenInOrder
    <1>9. \A c \in Backends, m \in Inputs : Bound(m, c)' => m /= n /\ Bound(m, c)
        BY <1>2, <1>4, <1>5 DEF Bound
    <1>10. \A c \in Backends, k \in Inputs : Holds(written'[c], k) =>
             sends'[k].state = "done" /\ calls'[c].state = "done"
        BY <1>2, <1>3, <1>5, <1>7, <1>8 DEF WritesAreFirst
    <1>11. ASSUME NEW m \in Inputs, m /= n, sends[n].snap = 0, Bound(m, b)
           PROVE  n < m
        <2>1. CASE sends[m].state = "writing"
            <3>1. WritesTo(m, b) /\ WritesTo(n, b)
                BY <1>2, <1>3, <1>11, <2>1 DEF Bound, WritesTo
            <3> QED BY <1>11, <3>1 DEF WrittenInOrder
        <2>2. CASE sends[m].state /= "writing"
            <3>1. /\ sends[m].state = "waiting" /\ sends[m].snap = 0
                  /\ sends[m].tab \in open /\ tabs[sends[m].tab].backend = b
                BY <1>11, <2>2 DEF Bound
            <3>2. Settled(sends[n].after) /\ sends[m].tab = sends[n].tab
                <4>1. sends[m].tab \in 1..made
                    BY <1>1, <3>1 DEF TypeOK
                <4> QED BY <1>2, <1>3, <3>1, <4>1 DEF WritesAreFirst
            <3>3. Typed(n) /\ Typed(m)
                BY <1>2, <1>11, <3>1, <3>2 DEF Typed, Underway
            <3>4. n <= m
                BY <3>2, <3>3, FirstOfTab
            <3> QED BY <1>11, <3>4 DEF Inputs
        <2> QED BY <2>1, <2>2
    <1>12. ASSUME NEW c \in Backends, NEW k \in Inputs, NEW m \in Inputs,
                  Holds(written'[c], k), sends'[k].snap = 0, Bound(m, c)'
           PROVE  k < m
        <2>1. m /= n /\ Bound(m, c)
            BY <1>9, <1>12
        <2>2. CASE Holds(written[c], k)
            <3>1. sends[k].snap = 0
                BY <1>8, <1>12, <2>2
            <3> QED BY <2>1, <2>2, <3>1 DEF WrittenInOrder
        <2>3. CASE k = n /\ c = b
            <3>1. sends[n].snap = 0
                BY <1>2, <1>5, <1>12, <2>3
            <3> QED BY <1>11, <2>1, <2>3, <3>1
        <2> QED BY <1>7, <1>12, <2>2, <2>3
    <1>13. \A c \in Backends, k, m \in Inputs : WritesTo(k, c)' /\ WritesTo(m, c)' => k = m
        <2>1. \A c \in Backends, m \in Inputs : WritesTo(m, c)' => WritesTo(m, c)
            BY <1>2, <1>5 DEF WritesTo
        <2> QED BY <2>1 DEF WrittenInOrder
    <1>14. InputOnceInOrder'
        <2>1. \A c \in Backends :
                /\ DOMAIN written[c] = 1..Len(written[c]) /\ DOMAIN written'[c] = 1..Len(written'[c])
                /\ c /= b => written'[c] = written[c]
            BY <1>2, <1>3, <1>6
        <2>2. /\ Len(written[b]) \in Nat /\ Len(written'[b]) = Len(written[b]) + 1
              /\ written'[b][Len(written[b]) + 1] = n
              /\ \A i \in 1..Len(written[b]) : written'[b][i] = written[b][i]
            <3>1. written'[b] = Append(written[b], n)
                BY <1>2, <1>3
            <3> QED BY <1>6, <3>1
        <2>3. \A c \in Backends : \A i \in 1..Len(written'[c]) :
                \/ i \in 1..Len(written[c]) /\ written'[c][i] = written[c][i]
                \/ c = b /\ i = Len(written[b]) + 1 /\ written'[c][i] = n
            BY <2>1, <2>2
        <2>4. \A c \in Backends : \A i \in 1..Len(written[c]) :
                written[c][i] \in Inputs /\ Holds(written[c], written[c][i])
            <3>1. \A c \in Backends : \A i \in 1..Len(written[c]) : written[c][i] \in Inputs
                BY <1>6
            <3> QED BY <3>1 DEF Holds
        <2>5. ASSUME NEW c \in Backends, NEW d \in Backends,
                     NEW i \in DOMAIN written'[c], NEW j \in DOMAIN written'[d],
                     written'[c][i] = written'[d][j]
              PROVE  c = d /\ i = j
            <3>1. i \in 1..Len(written'[c]) /\ j \in 1..Len(written'[d])
                BY <2>1
            <3>2. CASE i \in 1..Len(written[c]) /\ j \in 1..Len(written[d])
                          /\ written'[c][i] = written[c][i] /\ written'[d][j] = written[d][j]
                <4>1. i \in DOMAIN written[c] /\ j \in DOMAIN written[d]
                    BY <2>1, <3>2
                <4>2. written[c][i] = written[d][j]
                    BY <2>5, <3>2
                <4> QED BY <4>1, <4>2 DEF WrittenInOrder, InputOnceInOrder
            <3>3. CASE c = b /\ i = Len(written[b]) + 1 /\ written'[c][i] = n
                <4>1. ~(j \in 1..Len(written[d]) /\ written'[d][j] = written[d][j])
                    BY <1>8, <2>4, <2>5, <3>3
                <4> QED BY <2>3, <3>1, <3>3, <4>1
            <3>4. CASE d = b /\ j = Len(written[b]) + 1 /\ written'[d][j] = n
                <4>1. ~(i \in 1..Len(written[c]) /\ written'[c][i] = written[c][i])
                    BY <1>8, <2>4, <2>5, <3>4
                <4> QED BY <2>3, <3>1, <3>4, <4>1
            <3> QED BY <2>3, <3>1, <3>2, <3>3, <3>4
        <2>6. ASSUME NEW c \in Backends, NEW i \in DOMAIN written'[c], NEW j \in DOMAIN written'[c],
                     i < j, sends'[written'[c][i]].snap = sends'[written'[c][j]].snap
              PROVE  written'[c][i] < written'[c][j]
            <3>1. i \in 1..Len(written'[c]) /\ j \in 1..Len(written'[c])
                BY <2>1
            <3>2. i \in 1..Len(written[c]) /\ written'[c][i] = written[c][i]
                BY <2>2, <2>3, <2>6, <3>1
            <3>3. written[c][i] \in Inputs /\ Holds(written[c], written[c][i])
                BY <2>4, <3>2
            <3>4. sends'[written[c][i]] = sends[written[c][i]]
                BY <1>8, <3>3
            <3>5. CASE j \in 1..Len(written[c]) /\ written'[c][j] = written[c][j]
                <4>1. sends'[written[c][j]] = sends[written[c][j]]
                    BY <1>8, <2>4, <3>5
                <4>2. sends[written[c][i]].snap = sends[written[c][j]].snap
                    BY <2>6, <3>2, <3>4, <3>5, <4>1
                <4> QED BY <2>1, <2>6, <3>2, <3>5, <4>2 DEF WrittenInOrder, InputOnceInOrder
            <3>6. CASE c = b /\ written'[c][j] = n
                <4>1. sends[written[c][i]].snap = sends[n].snap
                    BY <1>2, <1>5, <2>6, <3>2, <3>4, <3>6
                <4> QED BY <1>2, <1>3, <3>2, <3>3, <3>6, <4>1, WroteLast
            <3> QED BY <2>3, <3>1, <3>5, <3>6
        <2> QED BY <2>5, <2>6 DEF InputOnceInOrder
    <1> QED BY <1>10, <1>12, <1>13, <1>14 DEF WrittenInOrder

\* Every step keeps what was written, and the order it was written in.
LEMMA WrittenInOrderStep ==
    ASSUME IInv, InputsInOrder, FlushesInOrder, WritesAreFirst, ChainsInOrder, WrittenInOrder,
           Stays, [Next]_vars
    PROVE  WrittenInOrder'
    <1>1. TypeOK /\ \A o \in 1..made : o \in open' => o \in open
        BY NothingReopens DEF IInv
    <1>2. ASSUME written' = written,
                 \A n \in Inputs : Underway(n)' =>
                   sends'[n] = sends[n] \/ sends'[n].snap /= 0 \/
                   (sends'[n].state = "waiting" /\ NextInput(n))
          PROVE  WrittenInOrder'
        <2>1. \A n \in Inputs : sends[n].state = "done" => sends'[n] = sends[n]
            BY OthersKeep
        <2>2. \A n \in Inputs : NextInput(n) => \A m \in Inputs : sends[m].state = "done" => m < n
            <3> SUFFICES ASSUME NEW n \in Inputs, NextInput(n), NEW m \in Inputs, sends[m].state = "done"
                         PROVE  m < n
                OBVIOUS
            <3>1. m /= n /\ ~(n < m)
                BY DEF NextInput, InputsInOrder
            <3> QED BY <3>1 DEF Inputs
        <2>3. ASSUME NEW c \in Backends, NEW n \in Inputs, calls[c].state = "done", Bound(n, c)'
              PROVE  Bound(n, c) \/ \A m \in Inputs : sends[m].state = "done" => m < n
            <3>1. Underway(n)' /\ sends'[n].snap = 0
                BY <2>3 DEF Bound, Underway
            <3>2. CASE sends'[n] = sends[n]
                BY <1>1, <2>3, <3>2, BoundKept
            <3>3. CASE NextInput(n)
                BY <2>2, <3>3
            <3> QED BY <1>2, <3>1, <3>2, <3>3
        <2>4. \A c \in Backends, n \in Inputs : WritesTo(n, c)' => WritesTo(n, c)
            BY <1>2 DEF WritesTo, Underway
        <2>5. \A c \in Backends, n, m \in Inputs : WritesTo(n, c)' /\ WritesTo(m, c)' => n = m
            BY <2>4 DEF WrittenInOrder
        <2> QED BY <1>2, <2>1, <2>3, <2>5, WrittenKept
    <1>3. ASSUME NEW n \in Inputs, NEW o \in open, Type(n, o)
          PROVE  WrittenInOrder'
        <2>1. NextInput(n) /\ Chained(n, o, 0) /\ written' = written
            BY <1>3 DEF Type
        <2>2. sends'[n].state = "waiting" /\ \A m \in Inputs : m /= n => sends'[m] = sends[m]
            BY <1>1, <2>1, TypeDoes
        <2> QED BY <1>2, <2>1, <2>2
    <1>4. ASSUME NEW n \in Inputs, NEW o \in open, Enqueue(n, o)
          PROVE  WrittenInOrder'
        <2>1. /\ sends'[n].state = "queued" /\ written' = written
              /\ \A m \in Inputs : m /= n => sends'[m] = sends[m]
            BY <1>1, <1>4, EnqueueDoes
        <2> QED BY <1>2, <2>1 DEF Underway
    <1>5. ASSUME NEW c \in Backends, ReconnectDone(c)
          PROVE  WrittenInOrder'
        <2>1. /\ written' = written
              /\ \A n \in Inputs : sends'[n] = sends[n] \/ sends'[n].state = "flushing"
            BY <1>1, <1>5, ReconnectDoneDoes
        <2> QED BY <1>2, <2>1 DEF Underway
    <1>6. ASSUME NEW c \in Backends, FlushNext(c)
          PROVE  WrittenInOrder'
        <2> DEFINE n == Head(flush[c])
        <2>1. n \in Inputs /\ written' = written
            BY <1>1, <1>6, HoldsHead DEF FlushNext, TypeOK
        <2>2. (sends[n].state = "flushing" /\ Chained(n, sends[n].tab, c)) \/ sends' = sends
            BY <1>6 DEF FlushNext
        <2>3. c /= 0
            BY DEF Backends
        <2> HIDE DEF n
        <2>4. \A m \in Inputs : sends'[m] = sends[m] \/ sends'[m].snap /= 0
            BY <1>1, <2>1, <2>2, <2>3, TypeDoes
        <2> QED BY <1>2, <2>1, <2>4
    <1>7. ASSUME NEW S \in SUBSET open, CloseTabs(S)
          PROVE  WrittenInOrder'
        <2>1. /\ written' = written
              /\ \A n \in Inputs : sends'[n] = sends[n] \/ sends'[n].state = "done"
            BY <1>1, <1>7, CloseDoes
        <2> QED BY <1>2, <2>1 DEF Underway
    <1>8. ASSUME NEW n \in Inputs, SendDropped(n) \/ WriteFailed(n), ~Wrote(n)
          PROVE  WrittenInOrder'
        <2>1. /\ sends'[n] = Done(n)
              /\ \A m \in Inputs : m /= n => sends'[m] = sends[m] \/ sends'[m] = Done(m)
            BY <1>1, <1>8, SettleDoes
        <2>2. written' = written
            BY <1>8 DEF SendDropped, WriteFailed
        <2>3. \A m \in Inputs : Done(m).state = "done"
            BY DoneParts
        <2> QED BY <1>2, <2>1, <2>2, <2>3 DEF Underway
    <1>9. ASSUME UNCHANGED <<sends, written>>
          PROVE  WrittenInOrder'
        BY <1>2, <1>9
    <1> QED BY <1>3, <1>4, <1>5, <1>6, <1>7, <1>8, <1>9, InputCases, SendNowWritten, WroteWritten

\* There is no input at the start.
LEMMA OrderStart == Init => OrderInv
    <1> SUFFICES ASSUME Init PROVE OrderInv
        OBVIOUS
    <1>1. /\ \A n \in Inputs : sends[n].state = "unused" /\ sends[n].snap = 0
          /\ \A i \in Ids : queue[i] = <<>>
          /\ \A c \in Backends : flush[c] = <<>> /\ written[c] = <<>>
        BY DEF Init, NoSend
    <1>2. Rising(<<>>) /\ DOMAIN <<>> = {} /\ \A n : ~Holds(<<>>, n)
        BY HoldsEmpty DEF Rising
    <1>3. InputsInOrder
        BY <1>1, <1>2 DEF InputsInOrder
    <1>4. FlushesInOrder
        BY <1>1, <1>2 DEF FlushesInOrder, Underway
    <1>5. WritesAreFirst /\ ChainsInOrder
        BY <1>1 DEF WritesAreFirst, ChainsInOrder, Typed, Underway
    <1>6. InputOnceInOrder
        BY <1>1, <1>2 DEF InputOnceInOrder
    <1>7. WrittenInOrder
        BY <1>1, <1>2, <1>6 DEF WrittenInOrder, WritesTo
    <1> QED BY <1>3, <1>4, <1>5, <1>7 DEF OrderInv

\* The invariant of the tabs is needed in every part.
LEMMA OrderStep == IInv /\ OrderInv /\ [Next]_vars => OrderInv'
    <1> SUFFICES ASSUME IInv, OrderInv, [Next]_vars PROVE OrderInv'
        OBVIOUS
    <1>1. Stays
        BY ObjectsStep DEF IInv
    <1> QED BY <1>1, InputsInOrderStep, FlushesInOrderStep, WritesAreFirstStep, ChainsInOrderStep,
               WrittenInOrderStep DEF OrderInv

---------------------------------------------------------------------------
\* The inductive invariant, for any hosts, tabs, calls and inputs
THEOREM Invariance == Spec => []IInv
    <1> QED BY InitInv, StepInv, PTL DEF Spec

\* Every variable keeps its type.
THEOREM TypeCorrect == Spec => []TypeOK
    <1>1. IInv => TypeOK
        BY DEF IInv
    <1> QED BY <1>1, Invariance, PTL

\* Two open tabs share neither an id nor a session, whatever was closed,
\* opened again and answered late: the id of a first terminal comes back only
\* when no open tab has it, and each session goes to one object.
THEOREM TabsStayDistinct == Spec => []TabsAreDistinct
    <1>1. IInv => TabsAreDistinct
        BY DEF IInv, TypeOK, Objects, SessionsOfObjects, OpenIds, TabsAreDistinct
    <1> QED BY <1>1, Invariance, PTL

\* Input goes to the tab it was typed into, or nowhere: two checks by id and
\* session (sendTerminalInput.ts:36) are enough to tell objects apart.
THEOREM InputStaysInTab == Spec => WritesStayInTab
    <1>1. IInv /\ [Next]_vars =>
            [\A n \in Inputs : (sends[n].state = "waiting" /\ sends'[n].state = "writing")
              => sends[n].tab \in open /\ tabs[sends[n].tab].backend = sends'[n].to]_vars
        BY OnlySendNow, SendNowInTab
    <1> QED BY <1>1, Invariance, PTL DEF Spec, WritesStayInTab

\* Nothing is written twice, and each session gets what was typed, and what was
\* queued, in order: whatever is closed, reconnected or refused meanwhile, the
\* chain of an open tab and the flush of a reconnect each have one way through.
THEOREM InputStaysInOrder == Spec => []InputOnceInOrder
    <1>1. Init => OrderInv
        BY OrderStart
    <1>2. IInv /\ OrderInv /\ [Next]_vars => OrderInv'
        BY OrderStep
    <1>3. OrderInv => InputOnceInOrder
        BY DEF OrderInv, WrittenInOrder
    <1> QED BY <1>1, <1>2, <1>3, Invariance, PTL DEF Spec
===========================================================================
