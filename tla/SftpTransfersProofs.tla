------------------------ MODULE SftpTransfersProofs ------------------------
(***************************************************************************)
(* Proofs about SftpTransfers for any finite set of transfers, any         *)
(* connections and any limits.                                             *)
(***************************************************************************)
EXTENDS SftpTransfers, FiniteSetTheorems, TLAPS

(***************************************************************************)
(* The RAII guard _permit lives from the acquisition to the return of the  *)
(* service: at these stages, emissions of progress and completion included *)
(* and the emission of a failure excluded.                                 *)
(***************************************************************************)
InService(t) ==
  \/ pc[t] \in {"enter", "connect", "body", "check", "io", "insert",
                "dropFailed", "unwind"}
  \/ pc[t] = "emit" /\ kind[t] # "failed"

PermitLifetime == \A t \in Tasks : t \in permits <=> InService(t)

\* What a transfer has last emitted tells where it can be.
KindOK ==
  \A t \in Tasks :
    /\ pc[t] = "emit" => kind[t] \in Event
    /\ pc[t] = "insert" => kind[t] = "completed"
    /\ kind[t] = "completed" => pc[t] \in {"emit", "insert", "unwind", "ended"}
    /\ kind[t] = "failed" => pc[t] \in {"emit", "ended"}

\* The transfer has completed and its service has not returned yet.
Completed(t) == pc[t] = "insert" \/ (pc[t] = "unwind" /\ kind[t] = "completed")

Unreported(t) == \A i \in 1..Len(sent[t]) : sent[t][i] \notin Outcome

\* An outcome is sent at one point of the thread's way, and nothing after it.
SentOK ==
  \A t \in Tasks :
    /\ ~Completed(t) /\ pc[t] # "ended" => Unreported(t)
    /\ Completed(t) => \A i \in 1..Len(sent[t]) : sent[t][i] # "failed"

\* What the way of a thread through its transfer determines.
Control == TypeOK /\ PermitLifetime /\ KindOK /\ SentOK /\ OneOutcomeAndLast

\* The inductive invariant.
IInv == Control /\ PermitAccounting

-----------------------------------------------------------------------------
\* Taking one more permit raises the count of its connection, and no other.
LEMMA CountAdd ==
  ASSUME NEW S \in SUBSET Tasks, NEW t \in Tasks, t \notin S, NEW c \in Conns
  PROVE  /\ Cardinality(S \cup {t}) = Cardinality(S) + 1
         /\ Count(S \cup {t}, c) = IF c = ConnOf[t] THEN Count(S, c) + 1 ELSE Count(S, c)
  <1>1. IsFiniteSet(S)
    BY ConstantsAssumption, FS_Subset
  <1>2. Cardinality(S \cup {t}) = Cardinality(S) + 1
    BY <1>1, FS_AddElement
  <1> DEFINE On == {u \in S : ConnOf[u] = c}
             More == {u \in S \cup {t} : ConnOf[u] = c}
  <1>3. IsFiniteSet(On)
    BY <1>1, FS_Subset
  <1>4. CASE c = ConnOf[t]
    <2>1. More = On \cup {t} /\ t \notin On
      BY <1>4
    <2>2. Cardinality(More) = Cardinality(On) + 1
      BY <1>3, <2>1, FS_AddElement
    <2>3. QED
      BY <1>2, <1>4, <2>2 DEF Count
  <1>5. CASE c # ConnOf[t]
    <2>1. More = On
      BY <1>5
    <2>2. QED
      BY <1>2, <1>5, <2>1 DEF Count
  <1>6. QED
    BY <1>4, <1>5

\* Dropping a permit lowers the count of its connection, and no other, and
\* neither that count nor the total was zero.
LEMMA CountRemove ==
  ASSUME NEW S \in SUBSET Tasks, NEW t \in S, NEW c \in Conns
  PROVE  /\ Cardinality(S) \in Nat \ {0}
         /\ Cardinality(S \ {t}) = Cardinality(S) - 1
         /\ Count(S, ConnOf[t]) \in Nat \ {0}
         /\ Count(S \ {t}, c) = IF c = ConnOf[t] THEN Count(S, c) - 1 ELSE Count(S, c)
  <1> DEFINE R == S \ {t}
  <1>1. IsFiniteSet(S) /\ IsFiniteSet(R) /\ R \in SUBSET Tasks /\ t \in Tasks
    BY ConstantsAssumption, FS_Subset
  <1>2. R \cup {t} = S /\ t \notin R
    OBVIOUS
  <1>3. ConnOf[t] \in Conns
    BY <1>1, ConstantsAssumption
  <1>4. /\ Cardinality(S) = Cardinality(R) + 1
        /\ \A d \in Conns :
             Count(S, d) = IF d = ConnOf[t] THEN Count(R, d) + 1 ELSE Count(R, d)
    BY <1>1, <1>2, CountAdd
  <1>5. Cardinality(R) \in Nat
    BY <1>1, FS_CardinalityType
  <1>6. \A d \in Conns : Count(R, d) \in Nat
    <2> SUFFICES ASSUME NEW d \in Conns
                 PROVE  Count(R, d) \in Nat
      OBVIOUS
    <2>1. IsFiniteSet({u \in R : ConnOf[u] = d})
      BY <1>1, FS_Subset
    <2>2. QED
      BY <2>1, FS_CardinalityType DEF Count
  <1>7. Cardinality(S) \in Nat \ {0} /\ Cardinality(R) = Cardinality(S) - 1
    BY <1>4, <1>5
  <1>8. Count(S, ConnOf[t]) \in Nat \ {0}
    <2>1. Count(S, ConnOf[t]) = Count(R, ConnOf[t]) + 1 /\ Count(R, ConnOf[t]) \in Nat
      BY <1>3, <1>4, <1>6
    <2>2. QED
      BY <2>1
  <1>9. Count(R, c) = IF c = ConnOf[t] THEN Count(S, c) - 1 ELSE Count(S, c)
    <2>1. Count(R, c) \in Nat
      BY <1>6
    <2>2. Count(S, c) = IF c = ConnOf[t] THEN Count(R, c) + 1 ELSE Count(R, c)
      BY <1>4
    <2>3. QED
      BY <2>1, <2>2
  <1>10. QED
    BY <1>7, <1>8, <1>9

-----------------------------------------------------------------------------
\* At the start no permit is out and nothing has been sent.
LEMMA InitIInv == Init => IInv
  <1> SUFFICES ASSUME Init
               PROVE  IInv
    OBVIOUS
  <1> USE ConstantsAssumption DEF Init
  <1>1. TypeOK
    <2>1. sent \in [Tasks -> Seq(Event)]
      <3>1. <<>> \in Seq(Event)
        OBVIOUS
      <3>2. QED
        BY <3>1
    <2>2. QED
      BY <2>1 DEF TypeOK, Stage
  <1>2. PermitLifetime /\ KindOK /\ SentOK /\ OneOutcomeAndLast
    <2>1. PermitLifetime
      BY DEF PermitLifetime, InService
    <2>2. KindOK
      BY DEF KindOK
    <2>3. \A t \in Tasks : 1..Len(sent[t]) = {}
      OBVIOUS
    <2>4. SentOK
      BY <2>3 DEF SentOK, Completed, Unreported
    <2>5. OneOutcomeAndLast
      BY <2>3 DEF OneOutcomeAndLast
    <2>6. QED
      BY <2>1, <2>2, <2>4, <2>5
  <1>3. PermitAccounting
    <2>1. Cardinality({}) = 0
      BY FS_EmptySet
    <2>2. \A c \in Conns : {t \in {} : ConnOf[t] = c} = {}
      OBVIOUS
    <2>3. QED
      BY <2>1, <2>2 DEF PermitAccounting, Count
  <1>4. QED
    BY <1>1, <1>2, <1>3 DEF IInv, Control

\* What one more event does to what was sent.
LEMMA AppendEvent ==
  ASSUME NEW s \in Seq(Event), NEW k \in Event
  PROVE  /\ Append(s, k) \in Seq(Event)
         /\ Len(Append(s, k)) = Len(s) + 1
         /\ \A i \in 1..Len(s) : Append(s, k)[i] = s[i]
         /\ Append(s, k)[Len(s) + 1] = k
         /\ Len(s) \in Nat
  OBVIOUS

\* Every step of the commands and of the transfer threads keeps the parts of
\* the invariant that are not about the counters.
LEMMA NextControl ==
  IInv /\ [Next]_vars => Control'
  <1> SUFFICES ASSUME IInv, [Next]_vars
               PROVE  Control'
    OBVIOUS
  <1> USE ConstantsAssumption
      DEF IInv, Control, Goto, Emit, Event, Outcome, Stage, permitVars, cacheVars,
          TypeOK, PermitLifetime, InService, KindOK, SentOK, OneOutcomeAndLast,
          Completed, Unreported
  <1>1. CASE UNCHANGED vars
    BY <1>1 DEF vars
  <1>2. ASSUME NEW t \in Tasks, Start(t)
       PROVE  Control'
    BY <1>2 DEF Start
  <1>3. ASSUME NEW t \in Tasks, Spawn(t)
       PROVE  Control'
    <2>1. CASE Goto(t, "starting", "spawned")
      BY <1>3, <2>1 DEF Spawn
    <2>2. CASE Goto(t, "starting", "ended")
      BY <1>3, <2>2 DEF Spawn
    <2>3. QED
      BY <1>3, <2>1, <2>2 DEF Spawn
  <1>4. ASSUME NEW t \in Tasks, Cancel(t)
       PROVE  Control'
    BY <1>4 DEF Cancel
  <1>5. ASSUME NEW t \in Tasks, AcquirePermit(t)
       PROVE  Control'
    <2>1. /\ pc' = [pc EXCEPT ![t] = "enter"] /\ pc[t] = "spawned"
          /\ permits' = permits \cup {t}
          /\ UNCHANGED <<kind, cached, cacheLock, flags, sent>>
      BY <1>5 DEF AcquirePermit
    <2>2. total' \in Nat /\ byConn' \in [Conns -> Nat]
      BY <1>5 DEF AcquirePermit
    <2>3. TypeOK'
      BY <2>1, <2>2
    <2>4. PermitLifetime' /\ KindOK'
      BY <2>1
    <2>5. SentOK' /\ OneOutcomeAndLast'
      BY <2>1
    <2>6. QED
      BY <2>3, <2>4, <2>5
  <1>6. ASSUME NEW t \in Tasks, Refuse(t)
       PROVE  Control'
    BY <1>6 DEF Refuse
  <1>7. ASSUME NEW t \in Tasks, Invalid(t)
       PROVE  Control'
    BY <1>7 DEF Invalid
  <1>8. ASSUME NEW t \in Tasks, Unwind(t)
       PROVE  Control'
    <2>1. total' \in Nat
      BY <1>8 DEF Unwind, DropPermit, Saturating
    <2>2. byConn' \in [Conns -> Nat]
      BY <1>8 DEF Unwind, DropPermit, Saturating
    <2>3. TypeOK'
      BY <1>8, <2>1, <2>2 DEF Unwind, DropPermit
    <2>4. sent' = sent /\ permits' = permits \ {t} /\ pc[t] = "unwind"
      BY <1>8 DEF Unwind, DropPermit
    <2>5. CASE kind[t] = "completed"
      <3>1. pc' = [pc EXCEPT ![t] = "ended"] /\ kind' = kind
        BY <1>8, <2>5 DEF Unwind
      <3>2. PermitLifetime'
        BY <2>4, <3>1
      <3>3. KindOK'
        BY <2>4, <2>5, <3>1
      <3>4. SentOK' /\ OneOutcomeAndLast'
        BY <2>4, <3>1
      <3>5. QED
        BY <2>3, <3>2, <3>3, <3>4
    <2>6. CASE kind[t] # "completed"
      <3>1. pc' = [pc EXCEPT ![t] = "emit"] /\ kind' = [kind EXCEPT ![t] = "failed"]
        BY <1>8, <2>6 DEF Unwind
      <3>2. PermitLifetime'
        BY <2>4, <3>1
      <3>3. KindOK'
        BY <2>4, <3>1
      <3>4. SentOK' /\ OneOutcomeAndLast'
        BY <2>4, <2>6, <3>1
      <3>5. QED
        BY <2>3, <3>2, <3>3, <3>4
    <2>7. QED
      BY <2>5, <2>6
  <1>9. ASSUME NEW t \in Tasks, EnterCached(t)
       PROVE  Control'
    BY <1>9 DEF EnterCached
  <1>10. ASSUME NEW t \in Tasks, EnterFresh(t)
        PROVE  Control'
    BY <1>10 DEF EnterFresh
  <1>11. ASSUME NEW t \in Tasks, Connect(t)
        PROVE  Control'
    <2>1. CASE Goto(t, "connect", "body")
      BY <1>11, <2>1 DEF Connect
    <2>2. CASE Goto(t, "connect", "unwind")
      BY <1>11, <2>2 DEF Connect
    <2>3. QED
      BY <1>11, <2>1, <2>2 DEF Connect
  <1>12. ASSUME NEW t \in Tasks, BodyErr(t)
        PROVE  Control'
    BY <1>12 DEF BodyErr
  <1>13. ASSUME NEW t \in Tasks, Settle(t)
        PROVE  Control'
    BY <1>13 DEF Settle
  <1>14. ASSUME NEW t \in Tasks, Begin(t)
        PROVE  Control'
    BY <1>14 DEF Begin
  <1>15. ASSUME NEW t \in Tasks, Skip(t)
        PROVE  Control'
    BY <1>15 DEF Skip
  <1>16. ASSUME NEW t \in Tasks, Check(t)
        PROVE  Control'
    BY <1>16 DEF Check
  <1>17. ASSUME NEW t \in Tasks, Chunk(t)
        PROVE  Control'
    BY <1>17 DEF Chunk
  <1>18. ASSUME NEW t \in Tasks, Exhausted(t)
        PROVE  Control'
    <2>1. CASE Emit(t, "io", "completed")
      BY <1>18, <2>1 DEF Exhausted
    <2>2. CASE Emit(t, "check", "completed")
      BY <1>18, <2>2 DEF Exhausted
    <2>3. QED
      BY <1>18, <2>1, <2>2 DEF Exhausted
  <1>19. ASSUME NEW t \in Tasks, Notify(t)
        PROVE  Control'
    <2> DEFINE s == sent[t]
    <2>1. s \in Seq(Event) /\ kind[t] \in Event /\ Unreported(t)
      BY <1>19 DEF Notify
    <2>2. /\ sent'[t] \in Seq(Event)
          /\ Len(sent'[t]) = Len(s) + 1
          /\ \A i \in 1..Len(s) : sent'[t][i] = s[i]
          /\ sent'[t][Len(s) + 1] = kind[t]
          /\ Len(s) \in Nat
      BY <1>19, <2>1, AppendEvent DEF Notify
    <2>3. \A i \in 1..Len(sent'[t]) : i = Len(sent'[t]) \/ sent'[t][i] \notin Outcome
      <3>1. \A i \in 1..(Len(s) + 1) : i = Len(s) + 1 \/ i \in 1..Len(s)
        BY <2>2
      <3>2. QED
        BY <2>1, <2>2, <3>1
    <2>4. \A u \in Tasks \ {t} : sent'[u] = sent[u] /\ pc'[u] = pc[u] /\ kind'[u] = kind[u]
      BY <1>19 DEF Notify
    <2>5. TypeOK'
      BY <1>19, <2>2 DEF Notify
    <2>6. PermitLifetime' /\ KindOK'
      BY <1>19 DEF Notify
    <2>7. OneOutcomeAndLast'
      BY <2>3, <2>4
    <2>8. SentOK'
      <3>1. ASSUME NEW u \in Tasks \ {t}
            PROVE  /\ ~Completed(u)' /\ pc'[u] # "ended" => Unreported(u)'
                   /\ Completed(u)' => \A i \in 1..Len(sent'[u]) : sent'[u][i] # "failed"
        BY <2>4
      <3>2. /\ ~Completed(t)' /\ pc'[t] # "ended" => Unreported(t)'
            /\ Completed(t)' => \A i \in 1..Len(sent'[t]) : sent'[t][i] # "failed"
        BY <1>19, <2>2, <2>3 DEF Notify
      <3>3. QED
        BY <3>1, <3>2
    <2>9. QED
      BY <2>5, <2>6, <2>7, <2>8
  <1>20. ASSUME NEW c \in Conns, EvictSession(c)
        PROVE  Control'
    BY <1>20 DEF EvictSession
  <1>21. QED
    BY <1>1, <1>2, <1>3, <1>4, <1>5, <1>6, <1>7, <1>8, <1>9, <1>10, <1>11, <1>12, <1>13, <1>14, <1>15, <1>16, <1>17, <1>18, <1>19, <1>20 DEF Next, Transfer

\* Only taking and dropping a permit touches the permits and their counters.
LEMMA PermitSteps ==
  ASSUME [Next]_vars
  PROVE  \/ UNCHANGED permitVars
         \/ \E t \in Tasks : AcquirePermit(t) \/ Unwind(t)
  <1>1. CASE UNCHANGED vars
    BY <1>1 DEF vars, permitVars
  <1>2. ASSUME NEW t \in Tasks, Start(t) \/ Spawn(t) \/ Cancel(t)
        PROVE  UNCHANGED permitVars
    BY <1>2 DEF Start, Spawn, Cancel
  <1>3. ASSUME NEW t \in Tasks, Transfer(t)
        PROVE  UNCHANGED permitVars \/ AcquirePermit(t) \/ Unwind(t)
    BY <1>3 DEF Transfer, Refuse, Invalid, EnterCached, EnterFresh, Connect, BodyErr,
                Settle, Begin, Skip, Check, Chunk, Exhausted, Notify
  <1>4. ASSUME NEW c \in Conns, EvictSession(c)
        PROVE  UNCHANGED permitVars
    BY <1>4 DEF EvictSession, permitVars
  <1>5. QED
    BY <1>1, <1>2, <1>3, <1>4 DEF Next

\* A permit is taken by a transfer that has none, below both limits, and the
\* counters go up with it.
LEMMA AcquireTakes ==
  ASSUME IInv, NEW t \in Tasks, AcquirePermit(t)
  PROVE  PermitAccounting' /\ Pool!Take(t)
  <1>1. /\ t \notin permits /\ permits \in SUBSET Tasks
        /\ permits' = permits \cup {t}
        /\ total' = total + 1 /\ total \in Nat /\ total < MaxTotal
        /\ byConn \in [Conns -> Nat] /\ byConn[ConnOf[t]] < MaxPerConn
        /\ byConn' = [byConn EXCEPT ![ConnOf[t]] = @ + 1]
        /\ ConnOf[t] \in Conns
    BY ConstantsAssumption
       DEF AcquirePermit, Goto, IInv, Control, TypeOK, PermitLifetime, InService
  <1>2. /\ total = Cardinality(permits)
        /\ \A c \in Conns : byConn[c] = Count(permits, c) /\ byConn[c] <= MaxPerConn
    BY DEF IInv, PermitAccounting
  <1>3. total' = Cardinality(permits') /\ total' <= MaxTotal
    <2>1. Cardinality(permits \cup {t}) = Cardinality(permits) + 1
      BY <1>1, CountAdd
    <2>2. QED
      BY <1>1, <1>2, <2>1, ConstantsAssumption
  <1>4. ASSUME NEW c \in Conns
        PROVE  byConn'[c] = Count(permits', c) /\ byConn'[c] <= MaxPerConn
    <2>1. Count(permits', c)
            = IF c = ConnOf[t] THEN Count(permits, c) + 1 ELSE Count(permits, c)
      BY <1>1, CountAdd
    <2>2. byConn'[c] = IF c = ConnOf[t] THEN byConn[c] + 1 ELSE byConn[c]
      BY <1>1
    <2>3. QED
      BY <1>1, <1>2, <2>1, <2>2, ConstantsAssumption
  <1>5. (PermitAccounting)'
    <2>1. \A c \in Conns : Count(permits, c)' = Count(permits', c)
      BY DEF Count
    <2>2. QED
      BY <1>3, <1>4, <2>1 DEF PermitAccounting
  <1>6. Pool!Take(t)
    <2>1. \A S : Pool!Cardinality(S) = Cardinality(S)
      BY DEF Pool!Cardinality, Cardinality
    <2>2. Pool!SameConn(t, permits) = {u \in permits : ConnOf[u] = ConnOf[t]}
      BY DEF Pool!SameConn
    <2>3. Cardinality(Pool!SameConn(t, permits)) = byConn[ConnOf[t]]
      BY <1>1, <1>2, <2>2 DEF Count
    <2>4. QED
      BY <1>1, <1>2, <2>1, <2>3 DEF Pool!Take
  <1>7. QED
    BY <1>5, <1>6

\* A permit is dropped by a transfer that has one: the saturating subtractions
\* never saturate, and the counters go down with it.
LEMMA UnwindGivesBack ==
  ASSUME IInv, NEW t \in Tasks, Unwind(t)
  PROVE  PermitAccounting' /\ Pool!GiveBack(t)
  <1>1. /\ t \in permits /\ permits \in SUBSET Tasks
        /\ permits' = permits \ {t}
        /\ total' = Saturating(total)
        /\ byConn \in [Conns -> Nat]
        /\ byConn' = [byConn EXCEPT ![ConnOf[t]] = Saturating(@)]
        /\ ConnOf[t] \in Conns
    BY ConstantsAssumption
       DEF Unwind, DropPermit, Goto, Emit, IInv, Control, TypeOK, PermitLifetime, InService
  <1>2. /\ total = Cardinality(permits) /\ total <= MaxTotal
        /\ \A c \in Conns : byConn[c] = Count(permits, c) /\ byConn[c] <= MaxPerConn
    BY DEF IInv, PermitAccounting
  <1>3. total' = Cardinality(permits') /\ total' <= MaxTotal
    <2>1. /\ Cardinality(permits) \in Nat \ {0}
          /\ Cardinality(permits \ {t}) = Cardinality(permits) - 1
      BY <1>1, CountRemove
    <2>2. QED
      BY <1>1, <1>2, <2>1, ConstantsAssumption DEF Saturating
  <1>4. ASSUME NEW c \in Conns
        PROVE  byConn'[c] = Count(permits', c) /\ byConn'[c] <= MaxPerConn
    <2>1. /\ Count(permits, ConnOf[t]) \in Nat \ {0}
          /\ Count(permits', c)
               = IF c = ConnOf[t] THEN Count(permits, c) - 1 ELSE Count(permits, c)
      BY <1>1, CountRemove
    <2>2. byConn'[c] = IF c = ConnOf[t] THEN Saturating(byConn[c]) ELSE byConn[c]
      BY <1>1
    <2>3. QED
      BY <1>1, <1>2, <2>1, <2>2, ConstantsAssumption DEF Saturating
  <1>5. (PermitAccounting)'
    <2>1. \A c \in Conns : Count(permits, c)' = Count(permits', c)
      BY DEF Count
    <2>2. QED
      BY <1>3, <1>4, <2>1 DEF PermitAccounting
  <1>6. Pool!GiveBack(t)
    BY <1>1 DEF Pool!GiveBack
  <1>7. QED
    BY <1>5, <1>6

\* Every step keeps the counters equal to the permits.
LEMMA NextAccounting ==
  IInv /\ [Next]_vars => PermitAccounting'
  <1> SUFFICES ASSUME IInv, [Next]_vars
               PROVE  PermitAccounting'
    OBVIOUS
  <1>1. CASE UNCHANGED permitVars
    BY <1>1 DEF permitVars, IInv, PermitAccounting, Count
  <1>2. ASSUME NEW t \in Tasks, AcquirePermit(t)
        PROVE  PermitAccounting'
    BY <1>2, AcquireTakes
  <1>3. ASSUME NEW t \in Tasks, Unwind(t)
        PROVE  PermitAccounting'
    BY <1>3, UnwindGivesBack
  <1>4. QED
    BY <1>1, <1>2, <1>3, PermitSteps

-----------------------------------------------------------------------------
\* The inductive invariant holds in every state of every run.
THEOREM Invariance == Spec => []IInv
  <1>1. IInv /\ [Next]_vars => IInv'
    BY NextControl, NextAccounting DEF IInv
  <1>2. QED
    BY <1>1, InitIInv, PTL DEF Spec

\* The state of the transfers is always well formed.
THEOREM TypeCorrect == Spec => []TypeOK
  <1>1. IInv => TypeOK
    BY DEF IInv, Control
  <1>2. QED
    BY <1>1, Invariance, PTL

\* SftpTransferCounters are the permits alive and never pass the limits.
THEOREM PermitsAccounted == Spec => []PermitAccounting
  <1>1. IInv => PermitAccounting
    BY DEF IInv
  <1>2. QED
    BY <1>1, Invariance, PTL

\* The window gets one outcome per transfer, and nothing after it.
THEOREM OutcomeIsLast == Spec => []OneOutcomeAndLast
  <1>1. IInv => OneOutcomeAndLast
    BY DEF IInv, Control
  <1>2. QED
    BY <1>1, Invariance, PTL

\* A failure reaches the window only after the permit of its transfer is gone.
THEOREM FailureComesAfterRelease == Spec => []FailureFreesSlot
  <1>1. ASSUME IInv, NEW t \in permits, NEW i \in 1..Len(sent[t])
        PROVE  sent[t][i] # "failed"
    <2>1. t \in Tasks /\ InService(t)
      BY <1>1 DEF IInv, Control, TypeOK, PermitLifetime
    <2>2. CASE Completed(t)
      BY <1>1, <2>1, <2>2 DEF IInv, Control, SentOK
    <2>3. CASE ~Completed(t)
      <3>1. Unreported(t)
        BY <1>1, <2>1, <2>3 DEF IInv, Control, SentOK, InService
      <3>2. QED
        BY <3>1 DEF Unreported, Outcome
    <2>4. QED
      BY <2>2, <2>3
  <1>2. IInv => FailureFreesSlot
    BY <1>1 DEF FailureFreesSlot
  <1>3. QED
    BY <1>2, Invariance, PTL

(***************************************************************************)
(* The two counters, updated under their own mutex by acquire and drop,    *)
(* implement a pool that counts the permits that are out.                  *)
(***************************************************************************)
THEOREM TransfersImplementPool == Spec => PoolSpec
  <1>1. Init => Pool!Init
    BY DEF Init, Pool!Init
  <1>2. IInv /\ [Next]_vars => [Pool!Next]_permits
    <2> SUFFICES ASSUME IInv, [Next]_vars
                 PROVE  [Pool!Next]_permits
      OBVIOUS
    <2>1. CASE UNCHANGED permitVars
      BY <2>1 DEF permitVars
    <2>2. ASSUME NEW t \in Tasks, AcquirePermit(t)
          PROVE  Pool!Next
      BY <2>2, AcquireTakes DEF Pool!Next
    <2>3. ASSUME NEW t \in Tasks, Unwind(t)
          PROVE  Pool!Next
      BY <2>3, UnwindGivesBack DEF Pool!Next
    <2>4. QED
      BY <2>1, <2>2, <2>3, PermitSteps
  <1>3. QED
    BY <1>1, <1>2, Invariance, PTL DEF Spec, PoolSpec, Pool!Spec
=============================================================================
