----------------------- MODULE TerminalSessionsProofs -----------------------
(***************************************************************************)
(* Proofs about TerminalSessions for any number of sessions: three threads *)
(* may close a session while others are under way, and sessions meet at    *)
(* the registry.                                                           *)
(***************************************************************************)
EXTENDS TerminalSessions, TLAPS

\* What a channel of commands holds, and that it holds nothing twice.
Holds(q, c) == \E i \in 1..Len(q) : q[i] = c
Distinct(q) == \A i, j \in 1..Len(q) : q[i] = q[j] => i = j

\* A command of the window is about a session that was opened.
MainBusy ==
  pc[Main] # "idle" => cmd.session \in Sessions /\ actor[cmd.session] # "none"

\* A session that was not opened has no helpers and no handle.
Unborn ==
  \A s \in Sessions : actor[s] = "none" =>
    pc[Reader(s)] = "off" /\ pc[Keeper(s)] = "off"

\* Between the two critical sections of connect_ssh the keepalive thread may
\* have missed the handle, and nobody else knows of the session.
BeforeRegister ==
  pc[Main] \in {"enter", "register"} =>
    /\ Running(cmd.session) /\ cmd.session \notin runtimes
    /\ pc[Main] = "register" => terminals[cmd.session] = "Connected"
    /\ pc[Reader(cmd.session)] = "off" /\ pc[Keeper(cmd.session)] \in {"lookup", "ended"}

\* Only a caller that waits can have an answer.
RepliesAwaited ==
  \A c \in Callers : reply[c] # None => pc[c] \in {"wait", "closing"}

\* A channel holds the commands of callers that wait for this session.
QueuedWait ==
  \A s \in Sessions :
    /\ Distinct(queue[s])
    /\ \A c \in Callers : Holds(queue[s], c) =>
         Of(c) = s /\ pc[c] \in {"wait", "closing"} /\ reply[c] = None

\* Whoever waits without an answer has its command in the channel of an actor
\* that runs.
WaitersQueued ==
  \A c \in Callers : pc[c] \in {"wait", "closing"} /\ reply[c] = None =>
    Running(Of(c)) /\ Holds(queue[Of(c)], c)

\* The handle is out of the registry before a session is closed, and stays out.
ClosedIsGone ==
  \A c \in Callers : pc[c] \in {"closing", "removed", "missing", "announce"} =>
    Of(c) \notin runtimes

\* A handle leads to an actor that runs, of a session listed as Connected.
RegisteredRuns ==
  \A s \in runtimes : Running(s) /\ terminals[s] = "Connected"

\* A Connected session without a handle is being opened or closed.
UnregisteredIsClosing ==
  \A s \in Sessions : terminals[s] = "Connected" /\ s \notin runtimes =>
    \/ Opening(s)
    \/ \E c \in Callers : Closing(c, s)

\* What is announced is no longer Connected.
AnnouncedIsOff ==
  \A c \in Callers : pc[c] = "announce" => terminals[Of(c)] # "Connected"

\* The thread that took the handle is the one that tells the window.
TakerTells ==
  \A s \in Sessions :
    \/ actor[s] = "none" \/ s \in runtimes \/ s \in told
    \/ Opening(s)
    \/ \E c \in Callers : Of(c) = s /\ pc[c] \in {"closing", "removed", "announce"}

Threads ==
  /\ MainBusy /\ Unborn /\ BeforeRegister
  /\ RepliesAwaited /\ QueuedWait /\ WaitersQueued
  /\ ClosedIsGone /\ RegisteredRuns /\ UnregisteredIsClosing
  /\ AnnouncedIsOff /\ TakerTells

IInv == TypeOK /\ Threads

-----------------------------------------------------------------------------
(***************************************************************************)
(* Channels of commands and callers.                                       *)
(***************************************************************************)

\* Sending a command adds its caller, which was not there.
LEMMA Appended ==
  ASSUME NEW S, NEW q \in Seq(S), NEW c \in S
  PROVE  /\ Append(q, c) \in Seq(S)
         /\ \A d : Holds(Append(q, c), d) <=> Holds(q, d) \/ d = c
         /\ Distinct(q) /\ ~Holds(q, c) => Distinct(Append(q, c))
  <1>1. /\ Append(q, c) \in Seq(S) /\ Len(Append(q, c)) = Len(q) + 1 /\ Len(q) \in Nat
        /\ \A i \in 1..Len(q) : Append(q, c)[i] = q[i]
        /\ Append(q, c)[Len(q) + 1] = c
    OBVIOUS
  <1> QED BY <1>1 DEF Holds, Distinct

\* Taking the next one leaves the others.
LEMMA Taken ==
  ASSUME NEW S, NEW q \in Seq(S), q # <<>>, Distinct(q)
  PROVE  /\ Head(q) \in S /\ Holds(q, Head(q))
         /\ Tail(q) \in Seq(S) /\ Distinct(Tail(q))
         /\ \A d : Holds(Tail(q), d) <=> Holds(q, d) /\ d # Head(q)
  <1>1. /\ Len(q) \in Nat /\ Len(q) >= 1 /\ Head(q) = q[1] /\ Head(q) \in S
        /\ Tail(q) \in Seq(S) /\ Len(Tail(q)) = Len(q) - 1
        /\ \A i \in 1..Len(Tail(q)) : Tail(q)[i] = q[i + 1]
    OBVIOUS
  <1>2. Holds(q, Head(q))
    BY <1>1 DEF Holds
  <1>3. Distinct(Tail(q))
    BY <1>1 DEF Distinct
  <1>4. ASSUME NEW d, Holds(Tail(q), d) PROVE Holds(q, d) /\ d # Head(q)
    BY <1>1, <1>4 DEF Holds, Distinct
  <1>5. ASSUME NEW d, Holds(q, d), d # Head(q) PROVE Holds(Tail(q), d)
    <2>1. PICK i \in 1..Len(q) : q[i] = d
      BY <1>5 DEF Holds
    <2>2. i # 1 /\ i - 1 \in 1..Len(Tail(q)) /\ Tail(q)[i - 1] = d
      BY <2>1, <1>1, <1>5
    <2> QED BY <2>2 DEF Holds
  <1> QED BY <1>1, <1>2, <1>3, <1>4, <1>5

\* Nothing is in an empty channel.
LEMMA EmptyHolds ==
  /\ Distinct(<<>>)
  /\ \A c : ~Holds(<<>>, c)
  BY DEF Distinct, Holds

\* Who the callers are.
LEMMA CallerParts ==
  /\ Main \in Callers
  /\ \A s \in Sessions :
       /\ Reader(s) \in Callers /\ Reader(s) # Main /\ Of(Reader(s)) = s
       /\ Keeper(s) \in Callers /\ Keeper(s) # Main /\ Of(Keeper(s)) = s
       /\ Op(Reader(s)) = "read" /\ Op(Keeper(s)) = "keepalive"
  /\ \A s, t \in Sessions :
       Reader(s) # Keeper(t) /\ (Reader(s) = Reader(t) => s = t)
                             /\ (Keeper(s) = Keeper(t) => s = t)
  /\ \A c \in Callers \ {Main} :
       /\ Of(c) \in Sessions /\ Of(c) = c[2]
       /\ c = Reader(Of(c)) \/ c = Keeper(Of(c))
  BY ConstantsAssumption DEF Callers, Helpers, Reader, Keeper, Of, Op

LEMMA NoneDiffers ==
  /\ None \notin Sessions /\ None \notin Callers
  /\ None # "ok" /\ None # "closed" /\ None # "err"
  /\ None # "Connected" /\ None # "Disconnected"
  BY ConstantsAssumption


-----------------------------------------------------------------------------
(***************************************************************************)
(* Types                                                                   *)
(***************************************************************************)

\* A chunk of output that moves is somewhere else then.
LEMMA Moved ==
  ASSUME TypeOK, NEW s \in Sessions, NEW from, NEW to \in Place, Move(s, from, to)
  PROVE  output' \in [Sessions -> [Chunks -> Place]]
  BY DEF TypeOK, Move

\* The channel and the answer when the actor takes the next command
LEMMA AnsweredType ==
  ASSUME TypeOK, NEW s \in Sessions, Wants(s, "read") \/ queue[s] # <<>>,
         NEW r \in {"ok", "closed", "err"}, Answer(s, r)
  PROVE  /\ queue' \in [Sessions -> Seq(Callers)]
         /\ reply' \in [Callers -> {"ok", "closed", "err", None}]
  <1>1. queue[s] \in Seq(Callers) /\ queue[s] # <<>>
    BY DEF TypeOK, Wants
  <1>2. Tail(queue[s]) \in Seq(Callers)
    BY <1>1
  <1> QED BY <1>2 DEF TypeOK, Answer

LEMMA TypeStep ==
  ASSUME TypeOK, MainBusy, [Next]_vars
  PROVE  TypeOK'
  <1> USE DEF TypeOK
  <1>c. Main \in Callers /\ \A s \in Sessions : Reader(s) \in Callers /\ Keeper(s) \in Callers
    BY CallerParts
  <1>1. ASSUME NEW s \in Sessions, Connect(s)
        PROVE  TypeOK'
    BY <1>1, <1>c DEF Connect, Status, registryVars, lockVars
  <1>2. CASE Register
    BY <1>2, <1>c DEF Register, MainBusy, actorVars, lockVars
  <1>17. CASE Enter \/ EnsureExists
    BY <1>17, <1>c DEF Enter, EnsureExists, Goto, Status, registryVars, lockVars, actorVars
  <1>18. CASE SftpTakes \/ SftpReturns \/ SftpSticks
    BY <1>18 DEF SftpTakes, SftpReturns, SftpSticks, SftpTurns, actorVars, lockVars
  <1>3. ASSUME NEW c \in Callers, Step(c)
        PROVE  TypeOK'
    <2>1. CASE Found(c)
      BY <2>1 DEF Found, Goto, registryVars, lockVars, actorVars
    <2>2. CASE NotFound(c)
      BY <2>2 DEF NotFound, Goto, Home, registryVars, lockVars, actorVars
    <2>3. CASE Send(c)
      <3>1. Of(c) \in Sessions
        BY <2>3, CallerParts DEF Send, Goto, MainBusy, Of
      <3>2. queue' \in [Sessions -> Seq(Callers)]
        <4>1. Append(queue[Of(c)], c) \in Seq(Callers)
          BY <3>1
        <4> QED BY <2>3, <4>1 DEF Send
      <3> QED BY <2>3, <3>2 DEF Send, Goto, registryVars, lockVars
    <2>4. CASE Remove(c)
      BY <2>4 DEF Remove, Goto, lockVars
    <2>5. CASE AlreadyRemoved(c)
      BY <2>5 DEF AlreadyRemoved, Goto, registryVars, lockVars, actorVars
    <2>6. CASE Closed(c)
      BY <2>6 DEF Closed, Take, actorVars, lockVars
    <2>7. CASE SetDisconnected(c)
      BY <2>7 DEF SetDisconnected, actorVars, Status, lockVars
    <2>8. CASE Announce(c)
      <3>1. Of(c) \in Sessions
        BY <2>8, CallerParts DEF Announce, Goto, MainBusy, Of
      <3>2. output' \in [Sessions -> [Chunks -> Place]]
        BY <2>8, <3>1, Moved DEF Announce, Place
      <3> QED BY <2>8, <3>1, <3>2 DEF Announce, Goto, Home, TellClosed, registryVars, lockVars, actorVars
    <2>9. CASE LockTerminals(c)
      BY <2>9 DEF LockTerminals, actorVars, lockVars
    <2> QED BY <1>3, <2>1, <2>2, <2>3, <2>4, <2>5, <2>6, <2>7, <2>8, <2>9 DEF Step
  <1>4. ASSUME NEW s \in Sessions, Handle(s)
        PROVE  TypeOK'
    <2>1. CASE HandleRead(s)
      <3>1. output' \in [Sessions -> [Chunks -> Place]]
        BY <2>1, Moved DEF HandleRead, Hand, Place
      <3> QED BY <2>1, <3>1, AnsweredType DEF HandleRead, Wants, registryVars, lockVars
    <2>2. CASE HandleWrite(s)
      <3>1. output' \in [Sessions -> [Chunks -> Place]]
        <4>1. CASE Move(s, "channel", "lost")
          BY <4>1, Moved DEF Place
        <4>2. ASSUME NEW kept,
                     output' = [output EXCEPT ![s] =
                       [n \in Chunks |-> IF @[n] # "channel" THEN @[n]
                                         ELSE IF n \in kept THEN Hand(NextCaller(s)) ELSE "lost"]]
              PROVE  output' \in [Sessions -> [Chunks -> Place]]
          BY <4>2 DEF Hand, Place
        <4> QED BY <2>2, <4>1, <4>2 DEF HandleWrite
      <3> QED BY <2>2, <3>1, AnsweredType DEF HandleWrite, Wants, registryVars, lockVars
    <2>3. CASE HandleResize(s)
      BY <2>3, AnsweredType DEF HandleResize, Wants, registryVars, lockVars
    <2>4. CASE HandleKeepalive(s)
      BY <2>4, AnsweredType DEF HandleKeepalive, Wants, registryVars, lockVars
    <2>5. CASE HandleUnready(s)
      <3>1. output' \in [Sessions -> [Chunks -> Place]]
        BY <2>5, Moved DEF HandleUnready, Place
      <3> QED BY <2>5, <3>1, AnsweredType DEF HandleUnready, registryVars, lockVars
    <2>6. CASE HandleClose(s)
      BY <2>6 DEF HandleClose, registryVars, lockVars
    <2> QED BY <1>4, <2>1, <2>2, <2>3, <2>4, <2>5, <2>6 DEF Handle
  <1>5. CASE Written \/ Polled \/ Returned
    <2>1. cmd.session \in Sessions
      BY <1>5 DEF Written, Polled, Returned, Result, MainBusy
    <2>2. output' \in [Sessions -> [Chunks -> Place]]
      <3>1. CASE Written
        BY <3>1, <2>1, Moved DEF Written, Place
      <3>2. CASE Polled
        BY <3>2 DEF Polled, Place
      <3>3. CASE Returned
        BY <3>3 DEF Returned
      <3> QED BY <1>5, <3>1, <3>2, <3>3
    <2> QED BY <1>5, <2>2, <1>c DEF Written, Polled, Returned, Take, registryVars, lockVars, actorVars
  <1>6. ASSUME NEW s \in Sessions, ReaderResult(s)
        PROVE  TypeOK'
    <2>1. output' \in [Sessions -> [Chunks -> Place]]
      BY <1>6, Moved DEF ReaderResult, Place
    <2> QED BY <1>6, <2>1, <1>c DEF ReaderResult, Take, TellClosed, registryVars, lockVars, actorVars
  <1>7. ASSUME NEW s \in Sessions, KeeperResult(s)
        PROVE  TypeOK'
    BY <1>7, <1>c DEF KeeperResult, Take, registryVars, lockVars, actorVars
  <1>8. ASSUME NEW s \in Sessions, Disconnect(s)
        PROVE  TypeOK'
    BY <1>8, <1>c DEF Disconnect, Goto, registryVars, lockVars, actorVars
  <1>9. ASSUME NEW s \in Sessions, NEW op \in Commands, Invoke(op, s)
        PROVE  TypeOK'
    <2>1. op \in {"write", "resize", "poll"}
      BY ConstantsAssumption
    <2> QED BY <1>9, <1>c, <2>1 DEF Invoke, Goto, registryVars, lockVars, actorVars
  <1>10. CASE Forget
    BY <1>10, <1>c DEF Forget, actorVars, lockVars
  <1>11. ASSUME NEW s \in Sessions, NEW n \in Chunks, Produce(s, n)
         PROVE  TypeOK'
    BY <1>11 DEF Produce, Place, registryVars, lockVars, actorVars
  <1>12. ASSUME NEW s \in Sessions, ChannelEnds(s)
         PROVE  TypeOK'
    BY <1>12 DEF ChannelEnds, registryVars, lockVars
  <1>13. CASE UNCHANGED vars
    BY <1>13 DEF vars, registryVars, lockVars, actorVars
  <1>14. ASSUME NEW s \in Sessions, Command(s)
         PROVE  TypeOK'
    BY <1>14, <1>1, <1>8, <1>9 DEF Command
  <1>15. ASSUME NEW s \in Sessions, ReaderStep(s) \/ KeeperStep(s)
         PROVE  TypeOK'
    BY <1>15, <1>c, <1>3, <1>6, <1>7 DEF ReaderStep, KeeperStep
  <1>16. CASE MainStep
    BY <1>16, <1>c, <1>2, <1>3, <1>5, <1>10, <1>17 DEF MainStep
  <1> HIDE DEF TypeOK
  <1> QED BY <1>4, <1>11, <1>12, <1>13, <1>14, <1>15, <1>16, <1>18 DEF Next

-----------------------------------------------------------------------------
(***************************************************************************)
(* The steps of the actors.                                                *)
(***************************************************************************)

\* Who takes a command next, and what the others see of it.
LEMMA NextTaken ==
  ASSUME IInv, NEW s \in Sessions, queue[s] # <<>>
  PROVE  /\ NextCaller(s) \in Callers /\ Of(NextCaller(s)) = s
         /\ Holds(queue[s], NextCaller(s))
         /\ Distinct(Tail(queue[s]))
         /\ \A d : Holds(Tail(queue[s]), d) <=> Holds(queue[s], d) /\ d # NextCaller(s)
  <1>1. queue[s] \in Seq(Callers) /\ Distinct(queue[s])
    BY DEF IInv, TypeOK, Threads, QueuedWait
  <1> QED BY <1>1, Taken DEF NextCaller, IInv, Threads, QueuedWait

\* An answered command of a session whose actor goes on
LEMMA AnswerStep ==
  ASSUME IInv, NEW s \in Sessions, queue[s] # <<>>,
         NEW r \in {"ok", "closed", "err"}, Answer(s, r),
         \/ actor' = actor
         \/ actor[s] = "ready" /\ actor' = [actor EXCEPT ![s] = "closed"],
         UNCHANGED <<registryVars, told, pc, cmd>>
  PROVE  Threads'
  <1> DEFINE c == NextCaller(s)
  <1>1. /\ c \in Callers /\ Of(c) = s /\ Holds(queue[s], c)
        /\ Distinct(Tail(queue[s]))
        /\ \A d : Holds(Tail(queue[s]), d) <=> Holds(queue[s], d) /\ d # c
    BY NextTaken
  <1> HIDE DEF c
  <1>2. /\ queue' = [queue EXCEPT ![s] = Tail(queue[s])] /\ reply' = [reply EXCEPT ![c] = r]
        /\ r # None
    BY NoneDiffers DEF Answer, c
  <1>3. /\ queue'[s] = Tail(queue[s]) /\ \A t \in Sessions \ {s} : queue'[t] = queue[t]
        /\ reply'[c] = r /\ \A d \in Callers \ {c} : reply'[d] = reply[d]
    BY <1>1, <1>2 DEF IInv, TypeOK
  <1>4. /\ \A t \in Sessions : Running(t)' = Running(t) /\ (actor'[t] = "none" <=> actor[t] = "none")
        /\ terminals' = terminals /\ runtimes' = runtimes /\ registryLock' = registryLock
        /\ told' = told /\ pc' = pc /\ cmd' = cmd
    BY DEF IInv, TypeOK, Running, registryVars
  <1>5. /\ \A d : Of(d)' = Of(d)
        /\ \A d, t : Closing(d, t)' = Closing(d, t)
    BY <1>4 DEF Of, Closing
  <1>6. pc[c] \in {"wait", "closing"}
    BY <1>1 DEF IInv, Threads, QueuedWait
  <1> USE DEF IInv, Threads
  <1>7. RepliesAwaited'
    BY <1>3, <1>4, <1>6 DEF RepliesAwaited
  <1>8. QueuedWait'
    BY <1>1, <1>3, <1>4, <1>5 DEF QueuedWait
  <1>9. WaitersQueued'
    <2> SUFFICES ASSUME NEW d \in Callers, pc[d] \in {"wait", "closing"}, reply'[d] = None
                 PROVE  Running(Of(d)) /\ Holds(queue'[Of(d)], d) /\ Of(d) \in Sessions
      BY <1>4, <1>5 DEF WaitersQueued
    <2>1. d # c /\ reply[d] = None
      BY <1>2, <1>3
    <2>2. Running(Of(d)) /\ Holds(queue[Of(d)], d)
      BY <2>1 DEF WaitersQueued
    <2>3. Of(d) \in Sessions
      BY CallerParts DEF MainBusy, Of
    <2> QED BY <2>1, <2>2, <2>3, <1>1, <1>3
  <1>10. MainBusy' /\ Unborn' /\ BeforeRegister'
    BY <1>4 DEF MainBusy, Unborn, BeforeRegister
  <1>11. ClosedIsGone' /\ RegisteredRuns' /\ AnnouncedIsOff'
    BY <1>4, <1>5 DEF ClosedIsGone, RegisteredRuns, AnnouncedIsOff, TypeOK
  <1>12. UnregisteredIsClosing' /\ TakerTells'
    BY <1>4, <1>5 DEF Opening, UnregisteredIsClosing, TakerTells
  <1> QED BY <1>7, <1>8, <1>9, <1>10, <1>11, <1>12
\* The actor closes its channel: every command still there gets an error.
LEMMA CloseStep ==
  ASSUME IInv, NEW s \in Sessions, HandleClose(s)
  PROVE  Threads'
  <1> DEFINE c == NextCaller(s)
  <1>1. c \in Callers /\ Of(c) = s /\ pc[c] = "closing" /\ Holds(queue[s], c)
    BY NextTaken DEF HandleClose
  <1> HIDE DEF c
  <1>2. /\ \A d \in Callers : Holds(queue[s], d) => reply'[d] # None
        /\ \A d \in Callers : ~Holds(queue[s], d) => reply'[d] = reply[d]
    BY <1>1, NoneDiffers DEF HandleClose, Holds, c
  <1>3. /\ queue'[s] = <<>> /\ \A t \in Sessions \ {s} : queue'[t] = queue[t]
        /\ actor'[s] = "stopped" /\ \A t \in Sessions \ {s} : actor'[t] = actor[t]
        /\ terminals' = terminals /\ runtimes' = runtimes /\ registryLock' = registryLock
        /\ told' = told /\ pc' = pc /\ cmd' = cmd
    BY DEF HandleClose, IInv, TypeOK, registryVars
  <1>4. /\ \A d : Of(d)' = Of(d)
        /\ \A d, t : Closing(d, t)' = Closing(d, t)
        /\ \A t \in Sessions \ {s} : Running(t)' = Running(t)
    BY <1>3 DEF Of, Closing, Running
  <1> USE DEF IInv, Threads
  <1>5. s \notin runtimes
    BY <1>1 DEF ClosedIsGone
  <1>6. pc[Main] \in {"enter", "register"} => cmd.session # s
    BY <1>1, CallerParts DEF BeforeRegister
  <1>7. actor[s] # "none"
    <2>1. CASE c = Main
      BY <1>1, <2>1 DEF MainBusy, Of
    <2>2. CASE c # Main
      BY <1>1, <2>2, CallerParts DEF Unborn
    <2> QED BY <2>1, <2>2
  <1>8. MainBusy' /\ Unborn'
    BY <1>3, <1>7 DEF MainBusy, Unborn
  <1>9. BeforeRegister'
    BY <1>3, <1>4, <1>6 DEF BeforeRegister, MainBusy
  <1>10. RepliesAwaited'
    BY <1>2, <1>3 DEF RepliesAwaited, QueuedWait
  <1>11. QueuedWait'
    <2>1. ASSUME NEW t \in Sessions \ {s}, NEW d \in Callers, Holds(queue[t], d)
          PROVE  reply'[d] = None
      BY <2>1, <1>2 DEF QueuedWait
    <2> QED BY <2>1, <1>3, <1>4, EmptyHolds DEF QueuedWait
  <1>12. WaitersQueued'
    <2> SUFFICES ASSUME NEW d \in Callers, pc[d] \in {"wait", "closing"}, reply'[d] = None
                 PROVE  Running(Of(d))' /\ Holds(queue'[Of(d)], d)
      BY <1>3, <1>4 DEF WaitersQueued
    <2>1. ~Holds(queue[s], d) /\ reply[d] = None
      BY <1>2
    <2>2. Running(Of(d)) /\ Holds(queue[Of(d)], d) /\ Of(d) \in Sessions
      BY <2>1, CallerParts DEF WaitersQueued, MainBusy, Of
    <2> QED BY <2>1, <2>2, <1>3, <1>4
  <1>13. ClosedIsGone' /\ RegisteredRuns' /\ AnnouncedIsOff'
    BY <1>3, <1>4, <1>5 DEF ClosedIsGone, RegisteredRuns, AnnouncedIsOff, TypeOK
  <1>14. UnregisteredIsClosing' /\ TakerTells'
    BY <1>3, <1>4, <1>7 DEF Opening, UnregisteredIsClosing, TakerTells
  <1> QED BY <1>8, <1>9, <1>10, <1>11, <1>12, <1>13, <1>14

\* Everything an actor does
LEMMA HandleStep ==
  ASSUME IInv, NEW s \in Sessions, Handle(s)
  PROVE  Threads'
  <1>1. CASE HandleRead(s)
    BY <1>1, AnswerStep DEF HandleRead, Wants, AllowsIo, registryVars
  <1>2. CASE HandleWrite(s)
    BY <1>2, AnswerStep DEF HandleWrite, Wants, registryVars
  <1>3. CASE HandleResize(s)
    BY <1>3, AnswerStep DEF HandleResize, Wants, registryVars
  <1>4. CASE HandleKeepalive(s)
    BY <1>4, AnswerStep DEF HandleKeepalive, Wants, registryVars
  <1>5. CASE HandleUnready(s)
    BY <1>5, AnswerStep DEF HandleUnready, registryVars
  <1>6. CASE HandleClose(s)
    BY <1>6, CloseStep
  <1> QED BY <1>1, <1>2, <1>3, <1>4, <1>5, <1>6 DEF Handle

-----------------------------------------------------------------------------
(***************************************************************************)
(* The steps of the callers.                                               *)
(***************************************************************************)

\* A caller takes its answer and goes back, on, or to the close of its session.
LEMMA TakeStep ==
  ASSUME IInv, NEW c \in Callers, pc[c] = "wait", reply[c] # None,
         NEW to \in {"idle", "lookup", "remove"}, to = "idle" <=> c = Main, Take(c, to),
         told' = told \/ \E s : told' = told \cup {s},
         UNCHANGED <<registryVars, actorVars, cmd>>
  PROVE  Threads'
  <1>1. /\ pc'[c] = to /\ \A d \in Callers \ {c} : pc'[d] = pc[d]
        /\ reply'[c] = None /\ \A d \in Callers \ {c} : reply'[d] = reply[d]
        /\ terminals' = terminals /\ runtimes' = runtimes /\ registryLock' = registryLock
        /\ actor' = actor /\ queue' = queue /\ cmd' = cmd /\ told \subseteq told'
    BY DEF Take, IInv, TypeOK, registryVars, actorVars
  <1>2. /\ \A d : Of(d)' = Of(d)
        /\ \A t : Running(t)' = Running(t)
    BY <1>1 DEF Of, Running
  <1> USE DEF IInv, Threads
  <1>3. \A s \in Sessions : ~Holds(queue[s], c)
    BY DEF QueuedWait
  <1>4. MainBusy' /\ Unborn'
    BY <1>1, CallerParts DEF MainBusy, Unborn
  <1>5. BeforeRegister'
    BY <1>1, <1>2, CallerParts DEF BeforeRegister, MainBusy
  <1>6. RepliesAwaited'
    BY <1>1 DEF RepliesAwaited
  <1>7. QueuedWait'
    BY <1>1, <1>2, <1>3 DEF QueuedWait
  <1>8. WaitersQueued'
    BY <1>1, <1>2 DEF WaitersQueued
  <1>9. ClosedIsGone' /\ RegisteredRuns' /\ AnnouncedIsOff'
    BY <1>1, <1>2 DEF ClosedIsGone, RegisteredRuns, AnnouncedIsOff
  <1>11. ASSUME NEW d \in Callers, NEW s, Closing(d, s) PROVE Closing(d, s)'
    BY <1>11, <1>1, <1>2 DEF Closing
  <1>12. UnregisteredIsClosing'
    <2>1. pc[Main] \in {"enter", "register"} => pc'[Main] = pc[Main]
      BY <1>1, CallerParts
    <2> QED BY <2>1, <1>1, <1>11 DEF Opening, UnregisteredIsClosing
  <1>13. TakerTells'
    <2>1. /\ pc[Main] \in {"enter", "register"} => pc'[Main] = pc[Main]
          /\ \A d \in Callers : pc[d] \in {"closing", "removed", "announce"} => pc'[d] = pc[d]
      BY <1>1, CallerParts
    <2> QED BY <2>1, <1>1, <1>2 DEF Opening, TakerTells
  <1> QED BY <1>4, <1>5, <1>6, <1>7, <1>8, <1>9, <1>12, <1>13

LEMMA ResultStep ==
  ASSUME IInv,
         \/ Written \/ Polled \/ Returned
         \/ \E s \in Sessions : ReaderResult(s) \/ KeeperResult(s)
  PROVE  Threads'
  <1>1. CASE Written \/ Polled \/ Returned
    BY <1>1, TakeStep, CallerParts, NoneDiffers DEF Written, Polled, Returned, Result
  <1>2. ASSUME NEW s \in Sessions, ReaderResult(s)
        PROVE  Threads'
    BY <1>2, TakeStep, CallerParts, NoneDiffers DEF ReaderResult, Result, TellClosed
  <1>3. ASSUME NEW s \in Sessions, KeeperResult(s)
        PROVE  Threads'
    BY <1>3, TakeStep, CallerParts, NoneDiffers DEF KeeperResult, Result
  <1> QED BY <1>1, <1>2, <1>3
\* A lookup, or a close that finds that another thread was first
LEMMA LookupStep ==
  ASSUME IInv, NEW c \in Callers,
         Found(c) \/ NotFound(c) \/ AlreadyRemoved(c) \/ (c = Main /\ EnsureExists)
  PROVE  Threads'
  <1> USE DEF IInv, Threads
  <1>1. PICK to :
          /\ pc' = [pc EXCEPT ![c] = to]
          /\ \/ pc[c] = "lookup" /\ to = "send" /\ Of(c) \in runtimes
             \/ pc[c] = "lookup" /\ to = "remove" /\ Op(c) = "read"
             \/ pc[c] = "lookup" /\ to = Home(c)
             \/ pc[c] = "remove" /\ to = "missing" /\ Of(c) \notin runtimes
             \/ pc[c] = "check" /\ to \in {"lookup", "idle"} /\ c = Main
    BY DEF Found, NotFound, AlreadyRemoved, EnsureExists, Goto
  <1>2. /\ pc'[c] = to /\ \A d \in Callers \ {c} : pc'[d] = pc[d]
        /\ to \in {"send", "remove", "idle", "ended", "missing", "lookup"}
        /\ to = "idle" => c = Main
    BY <1>1 DEF TypeOK, Home
  <1>3. /\ terminals' = terminals /\ runtimes' = runtimes /\ registryLock' = registryLock
        /\ actor' = actor /\ queue' = queue /\ reply' = reply /\ cmd' = cmd /\ told' = told
    BY DEF Found, NotFound, AlreadyRemoved, EnsureExists, registryVars, actorVars
  <1>4. /\ \A d : Of(d)' = Of(d)
        /\ \A t : Running(t)' = Running(t)
    BY <1>3 DEF Of, Running
  <1>5. MainBusy' /\ Unborn'
    BY <1>1, <1>2, <1>3, CallerParts DEF MainBusy, Unborn
  <1>6. BeforeRegister'
    <2> SUFFICES ASSUME pc'[Main] \in {"enter", "register"}
                 PROVE  /\ pc'[Reader(cmd.session)] = "off"
                        /\ pc'[Keeper(cmd.session)] \in {"lookup", "ended"}
                        /\ pc[Main] = pc'[Main]
      BY <1>2, <1>3, <1>4 DEF BeforeRegister
    <2>1. pc[Main] = pc'[Main] /\ c # Main /\ cmd.session \in Sessions
      BY <1>2, CallerParts DEF MainBusy
    <2>2. c # Reader(cmd.session)
      BY <1>1, <2>1 DEF BeforeRegister
    <2>3. CASE c = Keeper(cmd.session)
      <3>1. Of(c) \notin runtimes /\ Op(c) # "read"
        BY <2>1, <2>3, CallerParts DEF BeforeRegister
      <3>2. to = "ended"
        BY <1>1, <2>1, <2>3, <3>1 DEF BeforeRegister, Home
      <3> QED BY <1>2, <2>1, <2>2, <2>3, <3>2, CallerParts DEF BeforeRegister
    <2> QED BY <1>2, <2>1, <2>2, <2>3, CallerParts DEF BeforeRegister
  <1>7. RepliesAwaited' /\ QueuedWait' /\ WaitersQueued'
    BY <1>1, <1>2, <1>3, <1>4 DEF RepliesAwaited, QueuedWait, WaitersQueued
  <1>8. ClosedIsGone' /\ RegisteredRuns' /\ AnnouncedIsOff'
    BY <1>1, <1>2, <1>3, <1>4 DEF Home, ClosedIsGone, RegisteredRuns, AnnouncedIsOff
  <1>10. /\ \A d \in Callers : pc[d] \in {"closing", "removed", "announce"} => pc'[d] = pc[d]
         /\ pc[Main] \in {"enter", "register"} => pc'[Main] = pc[Main]
         /\ \A d \in Callers, s \in Sessions : Closing(d, s) => Closing(d, s)'
    BY <1>1, <1>2, <1>4 DEF Closing
  <1>11. UnregisteredIsClosing'
    BY <1>3, <1>10 DEF Opening, UnregisteredIsClosing
  <1>12. TakerTells'
    BY <1>3, <1>4, <1>10 DEF Opening, TakerTells
  <1> QED BY <1>5, <1>6, <1>7, <1>8, <1>11, <1>12

\* A command is sent, or the actor is gone.
LEMMA SendStep ==
  ASSUME IInv, NEW c \in Callers, Send(c)
  PROVE  Threads'
  <1> DEFINE s == Of(c)
  <1> USE DEF IInv, Threads
  <1>1. /\ pc[c] = "send" /\ pc'[c] = "wait" /\ \A d \in Callers \ {c} : pc'[d] = pc[d]
        /\ terminals' = terminals /\ runtimes' = runtimes /\ registryLock' = registryLock
        /\ actor' = actor /\ cmd' = cmd /\ told' = told
    BY DEF Send, Goto, registryVars, TypeOK
  <1>2. s \in Sessions
    BY <1>1, CallerParts DEF MainBusy, Of
  <1>3. reply[c] = None /\ \A t \in Sessions : ~Holds(queue[t], c)
    BY <1>1 DEF RepliesAwaited, QueuedWait
  <1>4. /\ \A d : Of(d)' = Of(d)
        /\ \A t : Running(t)' = Running(t)
    BY <1>1 DEF Of, Running
  <1>5. RepliesAwaited' /\ QueuedWait' /\ WaitersQueued'
    <2>1. CASE Running(s) /\ queue' = [queue EXCEPT ![s] = Append(@, c)] /\ reply' = reply
      <3>1. /\ queue[s] \in Seq(Callers) /\ Distinct(queue[s])
            /\ queue'[s] = Append(queue[s], c) /\ \A t \in Sessions \ {s} : queue'[t] = queue[t]
        BY <2>1, <1>2 DEF TypeOK, QueuedWait
      <3>2. /\ Distinct(queue'[s])
            /\ \A d : Holds(queue'[s], d) <=> Holds(queue[s], d) \/ d = c
        BY <3>1, <1>2, <1>3, Appended
      <3> HIDE DEF s
      <3>3. RepliesAwaited'
        BY <2>1, <1>1 DEF RepliesAwaited
      <3>4. QueuedWait'
        BY <2>1, <3>1, <3>2, <1>1, <1>3, <1>4 DEF QueuedWait, s
      <3>5. WaitersQueued'
        <4> SUFFICES ASSUME NEW d \in Callers, pc'[d] \in {"wait", "closing"}, reply[d] = None
                     PROVE  Running(Of(d)) /\ Holds(queue'[Of(d)], d)
          BY <2>1, <1>4 DEF WaitersQueued
        <4>1. CASE d = c
          BY <4>1, <2>1, <3>2 DEF s
        <4>2. CASE d # c
          <5>1. Running(Of(d)) /\ Holds(queue[Of(d)], d) /\ Of(d) \in Sessions
            BY <4>2, <1>1, CallerParts DEF WaitersQueued, MainBusy, Of
          <5> QED BY <5>1, <3>1, <3>2
        <4> QED BY <4>1, <4>2
      <3> QED BY <3>3, <3>4, <3>5
    <2>2. CASE ~Running(s) /\ queue' = queue /\ reply' = [reply EXCEPT ![c] = "err"]
      <3>1. reply'[c] = "err" /\ \A d \in Callers \ {c} : reply'[d] = reply[d]
        BY <2>2 DEF TypeOK
      <3> QED BY <2>2, <3>1, <1>1, <1>3, <1>4, NoneDiffers
              DEF RepliesAwaited, QueuedWait, WaitersQueued
    <2> QED BY <2>1, <2>2 DEF Send
  <1>6. MainBusy' /\ Unborn'
    BY <1>1, CallerParts DEF MainBusy, Unborn
  <1>7. BeforeRegister'
    BY <1>1, <1>4, CallerParts DEF BeforeRegister, MainBusy
  <1>8. ClosedIsGone' /\ RegisteredRuns' /\ AnnouncedIsOff'
    BY <1>1, <1>4 DEF ClosedIsGone, RegisteredRuns, AnnouncedIsOff
  <1>9. /\ \A d \in Callers : pc[d] \in {"closing", "removed", "announce"} => pc'[d] = pc[d]
        /\ pc[Main] \in {"enter", "register"} => pc'[Main] = pc[Main]
        /\ \A d \in Callers, t \in Sessions : Closing(d, t) => Closing(d, t)'
    BY <1>1, <1>4, CallerParts DEF Closing
  <1>10. UnregisteredIsClosing'
    BY <1>1, <1>9 DEF Opening, UnregisteredIsClosing
  <1>11. TakerTells'
    BY <1>1, <1>4, <1>9 DEF Opening, TakerTells
  <1> QED BY <1>5, <1>6, <1>7, <1>8, <1>10, <1>11

\* The handle is taken out and the actor told to close.
LEMMA RemoveStep ==
  ASSUME IInv, NEW c \in Callers, Remove(c)
  PROVE  Threads'
  <1> DEFINE s == Of(c)
  <1> USE DEF IInv, Threads
  <1>1. /\ pc[c] = "remove" /\ pc'[c] = "closing" /\ \A d \in Callers \ {c} : pc'[d] = pc[d]
        /\ s \in runtimes /\ runtimes' = runtimes \ {s}
        /\ registryLock = None /\ registryLock' = c
        /\ terminals' = terminals /\ actor' = actor /\ reply' = reply /\ cmd' = cmd /\ told' = told
    BY DEF Remove, Goto, TypeOK
  <1>2. s \in Sessions /\ Running(s)
    BY <1>1 DEF TypeOK, RegisteredRuns
  <1>3. reply[c] = None /\ \A t \in Sessions : ~Holds(queue[t], c)
    BY <1>1 DEF RepliesAwaited, QueuedWait
  <1>4. /\ \A d : Of(d)' = Of(d)
        /\ \A t : Running(t)' = Running(t)
    BY <1>1 DEF Of, Running
  <1>5. /\ queue[s] \in Seq(Callers) /\ Distinct(queue[s])
        /\ queue'[s] = Append(queue[s], c) /\ \A t \in Sessions \ {s} : queue'[t] = queue[t]
    BY <1>2 DEF Remove, TypeOK, QueuedWait
  <1>6. /\ Distinct(queue'[s])
        /\ \A d : Holds(queue'[s], d) <=> Holds(queue[s], d) \/ d = c
    BY <1>5, <1>3, <1>2, Appended
  <1>7. RepliesAwaited'
    BY <1>1 DEF RepliesAwaited
  <1>8. QueuedWait'
    BY <1>1, <1>3, <1>4, <1>5, <1>6 DEF QueuedWait
  <1>9. WaitersQueued'
    <2> SUFFICES ASSUME NEW d \in Callers, pc'[d] \in {"wait", "closing"}, reply[d] = None
                 PROVE  Running(Of(d)) /\ Holds(queue'[Of(d)], d)
      BY <1>1, <1>4 DEF WaitersQueued
    <2>1. CASE d = c
      BY <2>1, <1>2, <1>6
    <2>2. CASE d # c
      <3>1. Running(Of(d)) /\ Holds(queue[Of(d)], d) /\ Of(d) \in Sessions
        BY <2>2, <1>1, CallerParts DEF WaitersQueued, MainBusy, Of
      <3> QED BY <3>1, <1>5, <1>6
    <2> QED BY <2>1, <2>2
  <1>10. MainBusy' /\ Unborn'
    BY <1>1, CallerParts DEF MainBusy, Unborn
  <1>11. BeforeRegister'
    BY <1>1, <1>4, CallerParts DEF BeforeRegister, MainBusy
  <1>12. ClosedIsGone' /\ RegisteredRuns' /\ AnnouncedIsOff'
    BY <1>1, <1>4 DEF ClosedIsGone, RegisteredRuns, AnnouncedIsOff
  <1>14. /\ pc[Main] \in {"enter", "register"} => pc'[Main] = pc[Main]
         /\ \A d \in Callers, t \in Sessions : Closing(d, t) => Closing(d, t)'
         /\ Closing(c, s)'
    BY <1>1, <1>4, CallerParts DEF Closing
  <1>15. UnregisteredIsClosing'
    <2> SUFFICES ASSUME NEW t \in Sessions, terminals[t] = "Connected", t \notin runtimes',
                        ~Opening(t)
                 PROVE  \E d \in Callers : Closing(d, t)'
      BY <1>1, <1>14 DEF Opening, UnregisteredIsClosing
    <2>1. CASE t = s
      BY <2>1, <1>4, <1>14
    <2>2. CASE t # s
      BY <2>2, <1>1, <1>14 DEF Opening, UnregisteredIsClosing
    <2> QED BY <2>1, <2>2
  <1>16. TakerTells'
    BY <1>1, <1>4, <1>14, CallerParts DEF Opening, TakerTells
  <1> QED BY <1>7, <1>8, <1>9, <1>10, <1>11, <1>12, <1>15, <1>16
\* The channel is closed, and the guard of the registry dropped.
LEMMA ClosedStep ==
  ASSUME IInv, NEW c \in Callers, Closed(c)
  PROVE  Threads'
  <1> USE DEF IInv, Threads
  <1>1. /\ pc[c] = "closing" /\ pc'[c] = "removed" /\ \A d \in Callers \ {c} : pc'[d] = pc[d]
        /\ reply[c] # None /\ reply'[c] = None /\ \A d \in Callers \ {c} : reply'[d] = reply[d]
        /\ registryLock' = None /\ terminals' = terminals /\ runtimes' = runtimes
        /\ actor' = actor /\ queue' = queue /\ cmd' = cmd /\ told' = told
    BY DEF Closed, Take, TypeOK, actorVars
  <1>2. /\ \A d : Of(d)' = Of(d)
        /\ \A t : Running(t)' = Running(t)
    BY <1>1 DEF Of, Running
  <1>3. \A t \in Sessions : ~Holds(queue[t], c)
    BY <1>1 DEF QueuedWait
  <1>4. RepliesAwaited' /\ QueuedWait' /\ WaitersQueued'
    BY <1>1, <1>2, <1>3 DEF RepliesAwaited, QueuedWait, WaitersQueued
  <1>5. MainBusy' /\ Unborn'
    BY <1>1, CallerParts DEF MainBusy, Unborn
  <1>6. BeforeRegister'
    BY <1>1, <1>2, CallerParts DEF BeforeRegister, MainBusy
  <1>7. ClosedIsGone' /\ RegisteredRuns' /\ AnnouncedIsOff'
    BY <1>1, <1>2 DEF ClosedIsGone, RegisteredRuns, AnnouncedIsOff
  <1>9. /\ pc[Main] \in {"enter", "register"} => pc'[Main] = pc[Main]
        /\ \A d \in Callers, t \in Sessions : Closing(d, t) => Closing(d, t)'
        /\ \A d \in Callers : pc[d] \in {"closing", "removed", "announce"}
                               => pc'[d] \in {"closing", "removed", "announce"}
    BY <1>1, <1>2, CallerParts DEF Closing
  <1>10. UnregisteredIsClosing'
    BY <1>1, <1>9 DEF Opening, UnregisteredIsClosing
  <1>11. TakerTells'
    BY <1>1, <1>2, <1>9 DEF Opening, TakerTells
  <1> QED BY <1>4, <1>5, <1>6, <1>7, <1>10, <1>11

\* disconnect and close_terminal_session change the status of the session.
LEMMA StatusStep ==
  ASSUME IInv, NEW c \in Callers, SetDisconnected(c) \/ (c = Main /\ Forget)
  PROVE  Threads'
  <1> USE DEF IInv, Threads
  <1>1. Of(c) \in Sessions /\ pc[c] \in {"removed", "missing"}
    BY CallerParts DEF SetDisconnected, Forget, MainBusy, Of
  <1>2. /\ \A t \in Sessions \ {Of(c)} : terminals'[t] = terminals[t]
        /\ terminals'[Of(c)] # "Connected"
        /\ pc'[c] \in {"announce", "ended"} /\ \A d \in Callers \ {c} : pc'[d] = pc[d]
        /\ pc[c] = "removed" => pc'[c] = "announce"
    BY <1>1, NoneDiffers DEF SetDisconnected, Forget, TypeOK, Of
  <1>3. /\ registryLock' = registryLock /\ runtimes' = runtimes
        /\ actor' = actor /\ queue' = queue /\ reply' = reply /\ cmd' = cmd /\ told' = told
    BY DEF SetDisconnected, Forget, actorVars
  <1>4. /\ \A d : Of(d)' = Of(d)
        /\ \A t : Running(t)' = Running(t)
    BY <1>3 DEF Of, Running
  <1>5. Of(c) \notin runtimes
    BY <1>1 DEF ClosedIsGone
  <1>6. RepliesAwaited' /\ QueuedWait' /\ WaitersQueued'
    BY <1>1, <1>2, <1>3, <1>4 DEF RepliesAwaited, QueuedWait, WaitersQueued
  <1>7. MainBusy' /\ Unborn'
    BY <1>1, <1>2, <1>3, CallerParts DEF MainBusy, Unborn
  <1>8. BeforeRegister'
    <2> SUFFICES ASSUME pc'[Main] \in {"enter", "register"} PROVE BeforeRegister'
      BY DEF BeforeRegister
    <2>1. c # Main /\ pc[Main] = pc'[Main] /\ cmd.session \in Sessions
      BY <1>2, CallerParts DEF MainBusy
    <2>2. Of(c) # cmd.session
      BY <1>1, <2>1, CallerParts DEF BeforeRegister
    <2> QED BY <1>1, <1>2, <1>3, <1>4, <2>1, <2>2, CallerParts DEF BeforeRegister
  <1>9. ClosedIsGone' /\ RegisteredRuns' /\ AnnouncedIsOff'
    <2>1. ClosedIsGone'
      BY <1>1, <1>2, <1>3, <1>4 DEF ClosedIsGone
    <2>2. RegisteredRuns'
      BY <1>2, <1>3, <1>4, <1>5 DEF RegisteredRuns, TypeOK
    <2>3. AnnouncedIsOff'
      <3> SUFFICES ASSUME NEW d \in Callers, pc'[d] = "announce"
                   PROVE  terminals'[Of(d)] # "Connected"
        BY <1>4 DEF AnnouncedIsOff
      <3>1. CASE d = c
        BY <3>1, <1>2
      <3>2. CASE d # c
        <4>1. pc[d] = "announce" /\ Of(d) \in Sessions
          BY <3>2, <1>2, CallerParts DEF MainBusy, Of
        <4> QED BY <4>1, <1>2 DEF AnnouncedIsOff
      <3> QED BY <3>1, <3>2
    <2> QED BY <2>1, <2>2, <2>3
  <1>11. UnregisteredIsClosing'
    <2> SUFFICES ASSUME NEW s \in Sessions \ {Of(c)}, terminals[s] = "Connected", s \notin runtimes,
                        ~Opening(s)
                 PROVE  \E d \in Callers : Closing(d, s)'
      BY <1>1, <1>2, <1>3, CallerParts DEF Opening, UnregisteredIsClosing
    <2>1. PICK d \in Callers : Closing(d, s)
      BY DEF Opening, UnregisteredIsClosing
    <2>2. Closing(d, s)'
      BY <2>1, <1>2, <1>4 DEF Closing
    <2> QED BY <2>2
  <1>12. TakerTells'
    <2>1. /\ pc[Main] \in {"enter", "register"} => pc'[Main] = pc[Main]
          /\ \A d \in Callers : pc[d] \in {"closing", "removed", "announce"}
                                 => pc'[d] \in {"closing", "removed", "announce"}
      BY <1>1, <1>2, CallerParts
    <2> QED BY <2>1, <1>3, <1>4 DEF Opening, TakerTells
  <1> QED BY <1>6, <1>7, <1>8, <1>9, <1>11, <1>12

\* The window is told.
LEMMA AnnounceStep ==
  ASSUME IInv, NEW c \in Callers, Announce(c)
  PROVE  Threads'
  <1> USE DEF IInv, Threads
  <1>1. /\ pc[c] = "announce" /\ pc'[c] = Home(c) /\ \A d \in Callers \ {c} : pc'[d] = pc[d]
        /\ told' = told \cup {Of(c)}
        /\ terminals' = terminals /\ runtimes' = runtimes /\ registryLock' = registryLock
        /\ actor' = actor /\ queue' = queue /\ reply' = reply /\ cmd' = cmd
    BY DEF Announce, Goto, TellClosed, TypeOK, registryVars, actorVars
  <1>2. /\ \A d : Of(d)' = Of(d)
        /\ \A t : Running(t)' = Running(t)
        /\ pc'[c] \in {"idle", "ended"} /\ (pc'[c] = "idle" <=> c = Main)
    BY <1>1 DEF Of, Running, Home
  <1>3. RepliesAwaited' /\ QueuedWait' /\ WaitersQueued'
    BY <1>1, <1>2 DEF RepliesAwaited, QueuedWait, WaitersQueued
  <1>4. MainBusy' /\ Unborn'
    BY <1>1, <1>2, CallerParts DEF MainBusy, Unborn
  <1>5. BeforeRegister'
    BY <1>1, <1>2, CallerParts DEF BeforeRegister, MainBusy
  <1>6. ClosedIsGone' /\ RegisteredRuns' /\ AnnouncedIsOff'
    BY <1>1, <1>2 DEF ClosedIsGone, RegisteredRuns, AnnouncedIsOff
  <1>7. UnregisteredIsClosing'
    <2> SUFFICES ASSUME NEW s \in Sessions, terminals[s] = "Connected", s \notin runtimes,
                        ~Opening(s)
                 PROVE  \E d \in Callers : Closing(d, s)'
      BY <1>1, <1>2, CallerParts DEF Opening, UnregisteredIsClosing
    <2>1. PICK d \in Callers : Closing(d, s)
      BY DEF Opening, UnregisteredIsClosing
    <2>2. d # c
      BY <2>1, <1>1 DEF AnnouncedIsOff, Closing
    <2> QED BY <2>1, <2>2, <1>1, <1>2 DEF Closing
  <1>8. TakerTells'
    BY <1>1, <1>2, CallerParts DEF Opening, TakerTells
  <1> QED BY <1>3, <1>4, <1>5, <1>6, <1>7, <1>8
-----------------------------------------------------------------------------
(***************************************************************************)
(* The commands of the window.                                             *)
(***************************************************************************)

\* The first critical section of connect_ssh
LEMMA ConnectStep ==
  ASSUME IInv, NEW s \in Sessions, Connect(s)
  PROVE  Threads'
  <1> USE DEF IInv, Threads
  <1>1. /\ actor[s] = "none" /\ actor'[s] = "ready"
        /\ \A t \in Sessions \ {s} : actor'[t] = actor[t]
        /\ terminals' = terminals /\ runtimes' = runtimes /\ registryLock' = registryLock
        /\ queue' = queue /\ reply' = reply /\ told' = told /\ cmd'.session = s
    BY DEF Connect, TypeOK, registryVars
  <1>2. /\ pc[Main] = "idle" /\ pc'[Main] = "enter" /\ pc'[Keeper(s)] = "lookup"
        /\ \A d \in Callers \ {Main, Keeper(s)} : pc'[d] = pc[d]
        /\ pc[Reader(s)] = "off" /\ pc[Keeper(s)] = "off"
    BY CallerParts DEF Connect, TypeOK, Unborn
  <1>3. /\ \A d \in Callers \ {Main} : Of(d)' = Of(d) /\ Of(d) \in Sessions
        /\ \A t \in Sessions : Running(t) => Running(t)'
        /\ Running(s)' /\ ~Running(s)
    BY <1>1, CallerParts DEF Of, Running
  <1>4. s \notin runtimes /\ \A d \in Callers : pc[d] \notin {"idle", "off"} => d # Main /\ Of(d) # s
    BY <1>2, <1>3, CallerParts DEF RegisteredRuns
  <1>5. MainBusy' /\ Unborn'
    BY <1>1, <1>2, CallerParts DEF MainBusy, Unborn
  <1>6. BeforeRegister'
    BY <1>1, <1>2, <1>3, <1>4, CallerParts DEF BeforeRegister
  <1>7. RepliesAwaited' /\ QueuedWait' /\ WaitersQueued'
    <2>1. \A d \in Callers : pc[d] \in {"wait", "closing"} \/ pc'[d] \in {"wait", "closing"}
             => d # Main /\ pc'[d] = pc[d] /\ Of(d)' = Of(d) /\ Of(d) \in Sessions
      BY <1>2, <1>3
    <2>2. RepliesAwaited'
      BY <1>1, <2>1 DEF RepliesAwaited
    <2>3. QueuedWait'
      BY <1>1, <2>1 DEF QueuedWait
    <2>4. WaitersQueued'
      BY <1>1, <1>3, <2>1 DEF WaitersQueued
    <2> QED BY <2>2, <2>3, <2>4
  <1>8. ClosedIsGone' /\ AnnouncedIsOff'
    <2>1. \A d \in Callers : pc'[d] \in {"closing", "removed", "missing", "announce"}
             => pc'[d] = pc[d] /\ Of(d)' = Of(d) /\ Of(d) \in Sessions \ {s}
      BY <1>2, <1>3, <1>4
    <2> QED BY <2>1, <1>1 DEF ClosedIsGone, AnnouncedIsOff
  <1>9. RegisteredRuns'
    BY <1>1, <1>3, <1>4 DEF RegisteredRuns, TypeOK
  <1>11. \A d \in Callers : pc[d] \in {"remove", "closing", "removed", "missing", "announce"}
            => pc'[d] = pc[d] /\ Of(d)' = Of(d)
    BY <1>2, <1>3
  <1>12. UnregisteredIsClosing'
    <2> SUFFICES ASSUME NEW t \in Sessions \ {s}, terminals[t] = "Connected", t \notin runtimes
                 PROVE  \E d \in Callers : Closing(d, t)'
      BY <1>1, <1>2 DEF Opening, UnregisteredIsClosing
    <2>1. PICK d \in Callers : Closing(d, t)
      BY <1>2 DEF Opening, UnregisteredIsClosing
    <2> QED BY <2>1, <1>11 DEF Closing
  <1>13. TakerTells'
    <2> SUFFICES ASSUME NEW t \in Sessions \ {s}, actor[t] # "none", t \notin runtimes, t \notin told
                 PROVE  \E d \in Callers : Of(d)' = t /\ pc'[d] \in {"closing", "removed", "announce"}
      BY <1>1, <1>2 DEF Opening, TakerTells
    <2>1. PICK d \in Callers : Of(d) = t /\ pc[d] \in {"closing", "removed", "announce"}
      BY <1>2 DEF Opening, TakerTells
    <2> QED BY <2>1, <1>11
  <1> QED BY <1>5, <1>6, <1>7, <1>8, <1>9, <1>12, <1>13

\* The first entry, which only the keepalive thread may be there to see
LEMMA EnterStep ==
  ASSUME IInv, Enter
  PROVE  Threads'
  <1> DEFINE s == cmd.session
  <1> USE DEF IInv, Threads
  <1>1. /\ pc[Main] = "enter" /\ s \in Sessions
        /\ Running(s) /\ s \notin runtimes
        /\ pc[Reader(s)] = "off" /\ pc[Keeper(s)] \in {"lookup", "ended"}
    BY DEF Enter, Goto, MainBusy, BeforeRegister
  <1>2. /\ pc'[Main] = "register" /\ \A d \in Callers \ {Main} : pc'[d] = pc[d]
        /\ terminals'[s] = "Connected"
        /\ \A t \in Sessions \ {s} : terminals'[t] = terminals[t]
        /\ runtimes' = runtimes /\ registryLock' = registryLock
        /\ actor' = actor /\ queue' = queue /\ reply' = reply /\ cmd' = cmd /\ told' = told
    BY <1>1, CallerParts DEF Enter, Goto, TypeOK, actorVars
  <1>3. /\ \A d : Of(d)' = Of(d)
        /\ \A t : Running(t)' = Running(t)
        /\ Of(Main) = s
    BY <1>2 DEF Of, Running
  <1>4. \A d \in Callers : Of(d) = s => pc[d] \in {"enter", "off", "lookup", "ended"}
    BY <1>1, CallerParts
  <1> HIDE DEF s
  <1>5. MainBusy' /\ Unborn'
    BY <1>1, <1>2, CallerParts DEF MainBusy, Unborn
  <1>6. BeforeRegister'
    BY <1>1, <1>2, <1>3, CallerParts DEF BeforeRegister, s
  <1>7. \A d \in Callers : d # Main => pc'[d] = pc[d]
    BY <1>2
  <1>9. RepliesAwaited' /\ QueuedWait' /\ WaitersQueued'
    BY <1>1, <1>2, <1>3, <1>7 DEF RepliesAwaited, QueuedWait, WaitersQueued
  <1>10. ClosedIsGone'
    BY <1>1, <1>2, <1>3, <1>7 DEF ClosedIsGone
  <1>11. RegisteredRuns'
    BY <1>1, <1>2, <1>3 DEF RegisteredRuns, TypeOK
  <1>12. AnnouncedIsOff'
    <2> SUFFICES ASSUME NEW d \in Callers, pc'[d] = "announce"
                 PROVE  terminals'[Of(d)] # "Connected"
      BY <1>3 DEF AnnouncedIsOff
    <2>1. d # Main /\ pc[d] = "announce" /\ Of(d) \in Sessions \ {s}
      BY <1>2, <1>4, CallerParts
    <2> QED BY <2>1, <1>2 DEF AnnouncedIsOff
  <1>13. \A d \in Callers : \A t : Closing(d, t) => Closing(d, t)'
    BY <1>1, <1>2, <1>3 DEF Closing
  <1>14. UnregisteredIsClosing'
    <2> SUFFICES ASSUME NEW t \in Sessions \ {s}, terminals[t] = "Connected", t \notin runtimes
                 PROVE  \E d \in Callers : Closing(d, t)'
      BY <1>2 DEF Opening, UnregisteredIsClosing, s
    <2>1. PICK d \in Callers : Closing(d, t)
      BY <1>3 DEF Opening, UnregisteredIsClosing, s
    <2> QED BY <2>1, <1>13
  <1>15. TakerTells'
    <2>1. \A d \in Callers : pc[d] \in {"closing", "removed", "announce"}
                             => pc'[d] = pc[d] /\ Of(d)' = Of(d)
      BY <1>1, <1>2, <1>3
    <2> QED BY <2>1, <1>1, <1>2 DEF Opening, TakerTells
  <1> QED BY <1>5, <1>6, <1>9, <1>10, <1>11, <1>12, <1>14, <1>15

\* The second one: the handle is there, and the reader starts.
LEMMA RegisterStep ==
  ASSUME IInv, Register
  PROVE  Threads'
  <1> DEFINE s == cmd.session
  <1> USE DEF IInv, Threads
  <1>1. /\ pc[Main] = "register" /\ s \in Sessions
        /\ Running(s) /\ terminals[s] = "Connected" /\ s \notin runtimes
        /\ pc[Reader(s)] = "off" /\ pc[Keeper(s)] \in {"lookup", "ended"}
    BY DEF Register, MainBusy, BeforeRegister
  <1>2. /\ pc'[Main] = "idle" /\ pc'[Reader(s)] = "lookup"
        /\ \A d \in Callers \ {Main, Reader(s)} : pc'[d] = pc[d]
        /\ runtimes' = runtimes \cup {s}
        /\ terminals' = terminals /\ registryLock' = registryLock
        /\ actor' = actor /\ queue' = queue /\ reply' = reply /\ cmd' = cmd /\ told' = told
    BY <1>1, CallerParts DEF Register, TypeOK, actorVars
  <1>3. /\ \A d : Of(d)' = Of(d)
        /\ \A t : Running(t)' = Running(t)
        /\ Of(Main) = s
    BY <1>2 DEF Of, Running
  <1>4. \A d \in Callers : Of(d) = s => pc[d] \in {"register", "off", "lookup", "ended"}
    BY <1>1, CallerParts
  <1>5. actor[s] # "none"
    BY <1>1 DEF Running
  <1> HIDE DEF s
  <1>6. MainBusy' /\ Unborn' /\ BeforeRegister'
    BY <1>1, <1>2, <1>5, CallerParts DEF MainBusy, Unborn, BeforeRegister
  <1>7. \A d \in Callers : pc[d] \notin {"register", "off"} => pc'[d] = pc[d]
    BY <1>1, <1>2
  <1>8. \A d \in Callers : pc'[d] \notin {"idle", "lookup"} => pc'[d] = pc[d]
    BY <1>1, <1>2
  <1>9. RepliesAwaited' /\ QueuedWait' /\ WaitersQueued'
    BY <1>2, <1>3, <1>7, <1>8 DEF RepliesAwaited, QueuedWait, WaitersQueued
  <1>10. ClosedIsGone' /\ AnnouncedIsOff'
    BY <1>2, <1>3, <1>4, <1>8 DEF ClosedIsGone, AnnouncedIsOff
  <1>11. RegisteredRuns'
    BY <1>1, <1>2, <1>3 DEF RegisteredRuns
  <1>13. UnregisteredIsClosing'
    <2> SUFFICES ASSUME NEW t \in Sessions \ {s}, terminals[t] = "Connected", t \notin runtimes
                 PROVE  \E d \in Callers : Closing(d, t)'
      BY <1>1, <1>2 DEF Opening, UnregisteredIsClosing
    <2>1. PICK d \in Callers : Closing(d, t)
      BY <1>1, <1>3 DEF Opening, UnregisteredIsClosing, s
    <2> QED BY <2>1, <1>3, <1>7 DEF Closing
  <1>14. TakerTells'
    <2> SUFFICES ASSUME NEW t \in Sessions \ {s}, actor[t] # "none", t \notin runtimes, t \notin told
                 PROVE  \E d \in Callers : Of(d)' = t /\ pc'[d] \in {"closing", "removed", "announce"}
      BY <1>2 DEF Opening, TakerTells
    <2>1. PICK d \in Callers : Of(d) = t /\ pc[d] \in {"closing", "removed", "announce"}
      BY <1>1 DEF Opening, TakerTells, s
    <2> QED BY <2>1, <1>3, <1>7
  <1> QED BY <1>6, <1>9, <1>10, <1>11, <1>13, <1>14

\* A command for an id the window once got
LEMMA CommandStep ==
  ASSUME IInv, NEW s \in Sessions, Disconnect(s) \/ \E op \in Commands : Invoke(op, s)
  PROVE  Threads'
  <1> USE DEF IInv, Threads
  <1>1. /\ pc[Main] = "idle" /\ pc'[Main] \in {"remove", "lookup", "check"}
        /\ \A d \in Callers \ {Main} : pc'[d] = pc[d]
        /\ actor[s] # "none" /\ cmd'.session = s
        /\ terminals' = terminals /\ runtimes' = runtimes /\ registryLock' = registryLock
        /\ actor' = actor /\ queue' = queue /\ reply' = reply /\ told' = told
    BY CallerParts DEF Disconnect, Invoke, Goto, TypeOK, registryVars, actorVars
  <1>2. /\ \A d \in Callers \ {Main} : Of(d)' = Of(d)
        /\ \A t : Running(t)' = Running(t)
    BY <1>1 DEF Of, Running
  <1>3. \A t \in Sessions : ~Holds(queue[t], Main)
    BY <1>1, CallerParts DEF QueuedWait
  <1>4. MainBusy' /\ Unborn' /\ BeforeRegister'
    BY <1>1, CallerParts DEF MainBusy, Unborn, BeforeRegister
  <1>5. RepliesAwaited' /\ QueuedWait' /\ WaitersQueued'
    BY <1>1, <1>2, <1>3 DEF RepliesAwaited, QueuedWait, WaitersQueued
  <1>6. ClosedIsGone' /\ RegisteredRuns' /\ AnnouncedIsOff'
    BY <1>1, <1>2 DEF ClosedIsGone, RegisteredRuns, AnnouncedIsOff
  <1>7. \A d \in Callers : pc[d] \in {"remove", "closing", "removed", "missing", "announce"}
           => pc'[d] = pc[d] /\ Of(d)' = Of(d)
    BY <1>1, <1>2
  <1>8. UnregisteredIsClosing'
    BY <1>1, <1>7 DEF Opening, UnregisteredIsClosing, Closing
  <1>9. TakerTells'
    BY <1>1, <1>7 DEF Opening, TakerTells
  <1> QED BY <1>4, <1>5, <1>6, <1>8, <1>9

-----------------------------------------------------------------------------
(***************************************************************************)
(* The invariant                                                           *)
(***************************************************************************)

\* At the start no session was opened.
LEMMA InitInv == Init => IInv
  <1> SUFFICES ASSUME Init PROVE IInv
    OBVIOUS
  <1>1. TypeOK
    <2>1. <<>> \in Seq(Callers)
      OBVIOUS
    <2> QED BY <2>1, CallerParts DEF Init, TypeOK, Place, Status
  <1>2. /\ \A c \in Callers : pc[c] \in {"idle", "off"} /\ reply[c] = None
        /\ pc[Main] = "idle" /\ \A s \in Sessions : pc[Reader(s)] = "off" /\ pc[Keeper(s)] = "off"
        /\ \A s \in Sessions : actor[s] = "none" /\ queue[s] = <<>> /\ terminals[s] = None
        /\ runtimes = {} /\ registryLock = None
    BY CallerParts DEF Init
  <1>3. Threads
    BY <1>2, EmptyHolds, NoneDiffers
    DEF Threads, MainBusy, Unborn, BeforeRegister, RepliesAwaited, QueuedWait, WaitersQueued,
        ClosedIsGone, RegisteredRuns, UnregisteredIsClosing, AnnouncedIsOff, TakerTells, Opening
  <1> QED BY <1>1, <1>3 DEF IInv

\* What the server and the operations on files do, the entry to the mutex of
\* terminals and a stutter change none of it.
LEMMA QuietStep ==
  ASSUME IInv,
         \/ \E s \in Sessions : ChannelEnds(s) \/ \E n \in Chunks : Produce(s, n)
         \/ SftpTakes \/ SftpReturns \/ SftpSticks
         \/ \E c \in Callers : LockTerminals(c)
         \/ UNCHANGED vars
  PROVE  Threads'
  <1>1. UNCHANGED <<terminals, runtimes, registryLock, actor, queue, reply, told, pc, cmd>>
    BY DEF ChannelEnds, Produce, SftpTakes, SftpReturns, SftpSticks, SftpTurns, LockTerminals,
           vars, registryVars, actorVars
  <1>2. /\ terminals' = terminals /\ runtimes' = runtimes /\ registryLock' = registryLock
        /\ actor' = actor /\ queue' = queue /\ reply' = reply /\ told' = told
        /\ pc' = pc /\ cmd' = cmd
    BY <1>1 DEF registryVars
  <1>3. /\ \A d : Of(d)' = Of(d)
        /\ \A t : Running(t)' = Running(t)
        /\ \A d, t : Closing(d, t)' = Closing(d, t)
    BY <1>2 DEF Of, Running, Closing
  <1> QED
    BY <1>2, <1>3
    DEF IInv, Threads, MainBusy, Unborn, BeforeRegister, RepliesAwaited, QueuedWait, WaitersQueued,
        ClosedIsGone, RegisteredRuns, UnregisteredIsClosing, AnnouncedIsOff, TakerTells, Opening

\* Every step keeps the invariant.
LEMMA StepInv == IInv /\ [Next]_vars => IInv'
  <1> SUFFICES ASSUME IInv, [Next]_vars PROVE IInv'
    OBVIOUS
  <1>1. TypeOK'
    BY TypeStep DEF IInv, Threads
  <1>2. ASSUME NEW c \in Callers, Step(c)
        PROVE  Threads'
    BY <1>2, LookupStep, SendStep, RemoveStep, ClosedStep, StatusStep, AnnounceStep,
       QuietStep DEF Step
  <1>3. ASSUME MainStep
        PROVE  Threads'
    <2>1. CASE Written \/ Polled \/ Returned
      BY <2>1, ResultStep
    <2>2. CASE Forget
      BY <2>2, StatusStep, CallerParts
    <2>3. CASE Step(Main)
      BY <2>3, <1>2, CallerParts
    <2>4. CASE EnsureExists
      BY <2>4, LookupStep, CallerParts
    <2> QED BY <1>3, <2>1, <2>2, <2>3, <2>4, EnterStep, RegisterStep DEF MainStep
  <1>4. ASSUME NEW s \in Sessions, ReaderStep(s) \/ KeeperStep(s)
        PROVE  Threads'
    BY <1>4, <1>2, ResultStep, CallerParts DEF ReaderStep, KeeperStep
  <1>5. ASSUME NEW s \in Sessions, Command(s)
        PROVE  Threads'
    BY <1>5, ConnectStep, CommandStep DEF Command
  <1>6. Threads'
    <2>1. CASE UNCHANGED vars
      BY <2>1, QuietStep
    <2>2. ASSUME NEW s \in Sessions, ChannelEnds(s) \/ \E n \in Chunks : Produce(s, n)
          PROVE  Threads'
      BY <2>2, QuietStep
    <2>3. CASE SftpTakes \/ SftpReturns \/ SftpSticks
      BY <2>3, QuietStep
    <2> QED BY <1>3, <1>4, <1>5, <2>1, <2>2, <2>3, HandleStep DEF Next
  <1> QED BY <1>1, <1>6 DEF IInv

\* The inductive invariant, for any number of sessions
THEOREM Invariance == Spec => []IInv
  <1> QED BY InitInv, StepInv, PTL DEF Spec

\* Every variable keeps its type.
THEOREM TypeCorrect == Spec => []TypeOK
  <1>1. IInv => TypeOK
    BY DEF IInv
  <1> QED BY <1>1, Invariance, PTL

\* A registered handle leads to an actor that runs and that nobody has told
\* to close: of the three threads that may close a session one takes the
\* handle out, and the others find it gone.
THEOREM HandlesAreAlive == Spec => []RegisteredActorRuns
  <1>1. IInv => RegisteredActorRuns
    BY DEF IInv, Threads, RegisteredActorRuns, RegisteredRuns, ClosedIsGone
  <1> QED BY <1>1, Invariance, PTL

\* A call that waits has its command in the channel of an actor that runs, or
\* its answer, also when the actor stops first.
THEOREM CallsAreAnswerable == Spec => []NoCallIsForgotten
  <1>1. IInv => NoCallIsForgotten
    BY DEF IInv, Threads, NoCallIsForgotten, WaitersQueued, Holds
  <1> QED BY <1>1, Invariance, PTL

\* The two maps agree, but for a session that is being opened or closed.
THEOREM NoGhosts == Spec => []ConnectedIsRegistered
  <1>1. IInv => ConnectedIsRegistered
    BY DEF IInv, Threads, ConnectedIsRegistered, UnregisteredIsClosing, RegisteredRuns
  <1> QED BY <1>1, Invariance, PTL

\* A session that is gone was announced, or is being closed by a thread that
\* will announce it.
THEOREM NoneGoesSilently == Spec => []GoneIsAnnounced
  <1>1. IInv => GoneIsAnnounced
    BY DEF IInv, Threads, GoneIsAnnounced, TakerTells, Closing
  <1> QED BY <1>1, Invariance, PTL
=============================================================================
