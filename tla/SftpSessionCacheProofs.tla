----------------------- MODULE SftpSessionCacheProofs -----------------------
(***************************************************************************)
(* Proofs about SftpSessionCache for any threads, connections, accounts    *)
(* and runtimes.  The properties are not inductive: what makes them hold   *)
(* is who owns which mutex, and that is what IInv adds.                    *)
(***************************************************************************)
EXTENDS SftpSessionCache, TLAPS

\* The cache mutex is owned from a hit to the end of the operation, the
\* removal of a failed entry included.
CacheLockOwner ==
  \A t \in Threads :
    cacheLock = t <=> pc[t] \in CachedStage

\* A session mutex is owned exactly while its owner operates on the runtime.
SessionOwner ==
  \A r \in Runtimes, t \in Threads :
    session[r] = t <=> (Operating(t) /\ rt[t] = r)

\* What a thread has in its hands at each stage.
HandsOK ==
  \A t \in Threads :
    /\ pc[t] \in CachedStage \cup FreshStage => rt[t] \in Runtimes
    /\ pc[t] \notin CachedStage \cup FreshStage => rt[t] = None
    /\ pc[t] \notin {"ready", "evict"} => key[t] \in Keys

\* The inductive invariant.
IInv ==
  /\ TypeOK
  /\ CacheLockOwner
  /\ SessionOwner
  /\ HandsOK
  /\ CachedUseIsCurrent
  /\ PrivateUntilInserted

-----------------------------------------------------------------------------
\* Before anyone has called, nothing is cached, locked or held.
LEMMA InitIInv == Init => IInv
  BY ConstantsAssumption
  DEF Init, IInv, TypeOK, CacheLockOwner, SessionOwner, HandsOK, Operating,
      CachedUseIsCurrent, PrivateUntilInserted, Stage, CachedStage, FreshStage

\* Every operation, eviction and passage of time keeps the invariant.
LEMMA NextIInv == IInv /\ [Next]_vars => IInv'
  <1> SUFFICES ASSUME IInv, [Next]_vars
               PROVE  IInv'
    OBVIOUS
  <1> USE ConstantsAssumption DEF IInv, Goto, CachedStage, FreshStage
  <1>1. CASE UNCHANGED vars
    BY <1>1 DEF vars, TypeOK, CacheLockOwner, SessionOwner, HandsOK, Operating,
                CachedUseIsCurrent, PrivateUntilInserted
  <1>2. ASSUME NEW t \in Threads, NEW k \in Keys, Call(t, k)
        PROVE  IInv'
    BY <1>2 DEF Call, TypeOK, Stage, CacheLockOwner, SessionOwner, HandsOK,
                Operating, CachedUseIsCurrent, PrivateUntilInserted
  <1>3. ASSUME NEW t \in Threads, NEW a \in Accounts, CloseTerminal(t, a)
        PROVE  IInv'
    BY <1>3 DEF CloseTerminal, TypeOK, Stage, CacheLockOwner, SessionOwner,
                HandsOK, Operating, CachedUseIsCurrent, PrivateUntilInserted
  <1>4. ASSUME NEW t \in Threads, Prune(t)
        PROVE  IInv'
    BY <1>4 DEF Prune, Without, TypeOK, Stage, CacheLockOwner, SessionOwner,
                HandsOK, Operating, CachedUseIsCurrent, PrivateUntilInserted
  <1>5. ASSUME NEW t \in Threads, Hit(t)
        PROVE  IInv'
    BY <1>5 DEF Hit, TypeOK, Stage, CacheLockOwner, SessionOwner, HandsOK,
                Operating, CachedUseIsCurrent, PrivateUntilInserted
  <1>6. ASSUME NEW t \in Threads, Miss(t)
        PROVE  IInv'
    BY <1>6 DEF Miss, TypeOK, Stage, CacheLockOwner, SessionOwner, HandsOK,
                Operating, CachedUseIsCurrent, PrivateUntilInserted
  <1>7. ASSUME NEW t \in Threads, LockCached(t)
        PROVE  IInv'
    BY <1>7 DEF LockCached, TypeOK, Stage, CacheLockOwner, SessionOwner,
                HandsOK, Operating, CachedUseIsCurrent, PrivateUntilInserted
  <1>8. ASSUME NEW t \in Threads, CachedOk(t)
        PROVE  IInv'
    BY <1>8 DEF CachedOk, TypeOK, Stage, CacheLockOwner, SessionOwner, HandsOK,
                Operating, CachedUseIsCurrent, PrivateUntilInserted
  <1>9. ASSUME NEW t \in Threads, CachedErr(t)
        PROVE  IInv'
    BY <1>9 DEF CachedErr, TypeOK, Stage, CacheLockOwner, SessionOwner, HandsOK,
                Operating, CachedUseIsCurrent, PrivateUntilInserted
  <1>10. ASSUME NEW t \in Threads, NEW r \in Runtimes, ConnectOk(t, r)
         PROVE  IInv'
    BY <1>10 DEF ConnectOk, Referenced, TypeOK, Stage, CacheLockOwner,
                 SessionOwner, HandsOK, Operating, CachedUseIsCurrent,
                 PrivateUntilInserted
  <1>11. ASSUME NEW t \in Threads, ConnectErr(t)
         PROVE  IInv'
    BY <1>11 DEF ConnectErr, TypeOK, Stage, CacheLockOwner, SessionOwner,
                 HandsOK, Operating, CachedUseIsCurrent, PrivateUntilInserted
  <1>12. ASSUME NEW t \in Threads, FreshOk(t)
         PROVE  IInv'
    BY <1>12 DEF FreshOk, TypeOK, Stage, CacheLockOwner, SessionOwner, HandsOK,
                 Operating, CachedUseIsCurrent, PrivateUntilInserted
  <1>13. ASSUME NEW t \in Threads, FreshErr(t)
         PROVE  IInv'
    BY <1>13 DEF FreshErr, TypeOK, Stage, CacheLockOwner, SessionOwner, HandsOK,
                 Operating, CachedUseIsCurrent, PrivateUntilInserted
  <1>14. ASSUME NEW t \in Threads, Settle(t)
         PROVE  IInv'
    BY <1>14 DEF Settle, TypeOK, Stage, CacheLockOwner, SessionOwner, HandsOK,
                 Operating, CachedUseIsCurrent, PrivateUntilInserted
  <1>15. ASSUME NEW t \in Threads, Evict(t)
         PROVE  IInv'
    BY <1>15 DEF Evict, Without, TypeOK, Stage, CacheLockOwner, SessionOwner,
                 HandsOK, Operating, CachedUseIsCurrent, PrivateUntilInserted
  <1>16. ASSUME NEW r \in Runtimes, Age(r)
         PROVE  IInv'
    BY <1>16 DEF Age, TypeOK, Stage, CacheLockOwner, SessionOwner, HandsOK,
                 Operating, CachedUseIsCurrent, PrivateUntilInserted
  <1>17. QED
    BY <1>1, <1>2, <1>3, <1>4, <1>5, <1>6, <1>7, <1>8, <1>9, <1>10, <1>11,
       <1>12, <1>13, <1>14, <1>15, <1>16 DEF Next, Step

\* The invariant holds throughout every behaviour of the cache.
THEOREM Invariance == Spec => []IInv
  BY InitIInv, NextIInv, PTL DEF Spec

-----------------------------------------------------------------------------
\* with_sftp and the evictions keep every variable in its type.
THEOREM TypeCorrect == Spec => []TypeOK
  <1>1. IInv => TypeOK
    BY DEF IInv
  <1>2. QED
    BY <1>1, Invariance, PTL

\* No prune, terminal close or insert ever replaces the runtime of an entry
\* while an operation that found it in the cache is running.
THEOREM CachedUseStaysCurrent == Spec => []CachedUseIsCurrent
  <1>1. IInv => CachedUseIsCurrent
    BY DEF IInv
  <1>2. QED
    BY <1>1, Invariance, PTL

\* A runtime that has not yet succeeded once is known to its thread only.
THEOREM FreshStaysPrivate == Spec => []PrivateUntilInserted
  <1>1. IInv => PrivateUntilInserted
    BY DEF IInv
  <1>2. QED
    BY <1>1, Invariance, PTL

\* However many threads run operations, no two of them are on one session.
THEOREM SessionExclusion == Spec => []OneOperationPerSession
  <1>1. IInv => OneOperationPerSession
    <2> SUFFICES ASSUME IInv, NEW t \in Threads, NEW u \in Threads,
                        Operating(t), Operating(u), rt[t] = rt[u]
                 PROVE  t = u
      BY DEF OneOperationPerSession
    <2>1. rt[t] \in Runtimes
      BY DEF IInv, HandsOK, Operating, CachedStage, FreshStage
    <2>2. session[rt[t]] = t /\ session[rt[t]] = u
      BY <2>1 DEF IInv, SessionOwner
    <2>3. QED
      BY <2>2
  <1>2. QED
    BY <1>1, Invariance, PTL
=============================================================================
