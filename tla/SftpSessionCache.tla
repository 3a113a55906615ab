-------------------------- MODULE SftpSessionCache --------------------------
(***************************************************************************)
(* The cache of SSH/SFTP sessions shared by every SFTP operation of the    *)
(* backend: with_sftp and the two operations that evict from the cache,    *)
(* src-tauri/src/services/sftp_service.rs.                                 *)
(*                                                                         *)
(* A thread that runs an SFTP operation prunes idle sessions, looks its    *)
(* connection up and then works on the cached session or on a new one.     *)
(* The program is compiled with the 2021 edition of Rust, in which         *)
(*     if let Some(runtime) = state.sftp_sessions.lock().get(&key).cloned() *)
(* keeps the guard of the cache mutex alive until the end of the whole     *)
(* statement: on a hit the thread owns the cache mutex while it talks to   *)
(* the server, and on an error it locks that mutex a second time.  The     *)
(* mutexes are parking_lot's, which are not reentrant.                     *)
(***************************************************************************)
CONSTANTS
  Threads,    \* threads that run SFTP operations or close terminals
  Keys,       \* SftpConnectionKey values
  Accounts,   \* (host, username) pairs, what a terminal session is opened for
  AccountOf,  \* the account a connection key belongs to
  Runtimes,   \* identities of SftpSessionRuntime values
  None

ASSUME ConstantsAssumption ==
  /\ AccountOf \in [Keys -> Accounts]
  /\ None \notin Threads \cup Keys \cup Accounts \cup Runtimes

VARIABLES
  cache,      \* BackendState::sftp_sessions
  cacheLock,  \* the thread that owns the mutex of sftp_sessions, or None
  session,    \* per runtime: the thread that owns its session mutex, or None
  idle,       \* runtimes unused for longer than SFTP_SESSION_IDLE_TTL
  pc,         \* where each thread is
  key,        \* the connection of the operation a thread runs
  rt,         \* the Arc<SftpSessionRuntime> a thread holds
  account     \* the account of the terminal a thread closes

vars == <<cache, cacheLock, session, idle, pc, key, rt, account>>

-----------------------------------------------------------------------------
(***************************************************************************)
(* Where a thread can be: the stages of an operation that works on a       *)
(* cached session, those of one that works on its own, and the rest.       *)
(***************************************************************************)
CachedStage == {"lockCached", "cachedOp", "dropFailed"}
FreshStage  == {"freshOp", "insert"}
Stage == {"ready", "prune", "lookup", "connect", "evict"}
           \cup CachedStage \cup FreshStage

Goto(t, from, to) ==
  /\ pc[t] = from
  /\ pc' = [pc EXCEPT ![t] = to]

\* A thread inside the closure that talks to the server.
Operating(t) == pc[t] \in {"cachedOp", "freshOp"}

\* A thread that locks the cache mutex while it owns it: lock() never returns.
SelfBlocked(t) == pc[t] = "dropFailed" /\ cacheLock = t

\* The runtimes something still points to; the others have been freed.
Referenced == {cache[k] : k \in Keys} \cup {rt[t] : t \in Threads}

\* HashMap::retain on the cache: the entries whose key is not in ks stay.
Without(ks) == [k \in Keys |-> IF k \in ks THEN None ELSE cache[k]]

Init ==
  /\ cache = [k \in Keys |-> None]
  /\ cacheLock = None
  /\ session = [r \in Runtimes |-> None]
  /\ idle = {}
  /\ pc = [t \in Threads |-> "ready"]
  /\ key = [t \in Threads |-> None]
  /\ rt = [t \in Threads |-> None]
  /\ account = [t \in Threads |-> None]

-----------------------------------------------------------------------------
(***************************************************************************)
(* An SFTP operation: with_sftp(Some(state), connection, operation).       *)
(***************************************************************************)
Call(t, k) ==
  /\ Goto(t, "ready", "prune")
  /\ key' = [key EXCEPT ![t] = k]
  /\ UNCHANGED <<cache, cacheLock, session, idle, rt, account>>

\* prune_idle_sftp_sessions: one critical section, with no I/O inside.
Prune(t) ==
  /\ Goto(t, "prune", "lookup")
  /\ cacheLock = None
  /\ cache' = Without({k \in Keys : cache[k] \in idle})
  /\ UNCHANGED <<cacheLock, session, idle, key, rt, account>>

\* Seeded fault: the lookup lets go of the cache mutex before the operation.
HitUnguarded(t) ==
  /\ Goto(t, "lookup", "lockCached")
  /\ cacheLock = None
  /\ cache[key[t]] # None
  /\ rt' = [rt EXCEPT ![t] = cache[key[t]]]
  /\ UNCHANGED <<cache, cacheLock, session, idle, key, account>>

\* A hit: the guard of the cache mutex lives on into the body of the if let.
Hit(t) ==
  /\ Goto(t, "lookup", "lockCached")
  /\ cacheLock = None
  /\ cache[key[t]] # None
  /\ cacheLock' = t
  /\ rt' = [rt EXCEPT ![t] = cache[key[t]]]
  /\ UNCHANGED <<cache, session, idle, key, account>>

\* Seeded fault: the guard of the lookup lives on after a miss, too.
MissGuarded(t) ==
  /\ Goto(t, "lookup", "connect")
  /\ cacheLock = None
  /\ cache[key[t]] = None
  /\ cacheLock' = t
  /\ UNCHANGED <<cache, session, idle, key, rt, account>>

\* A miss: the guard is dropped at once.
Miss(t) ==
  /\ Goto(t, "lookup", "connect")
  /\ cacheLock = None
  /\ cache[key[t]] = None
  /\ UNCHANGED <<cache, cacheLock, session, idle, key, rt, account>>

\* SftpSessionRuntime::with_sftp on the cached runtime takes its session mutex.
LockCached(t) ==
  /\ Goto(t, "lockCached", "cachedOp")
  /\ session[rt[t]] = None
  /\ session' = [session EXCEPT ![rt[t]] = t]
  /\ UNCHANGED <<cache, cacheLock, idle, key, rt, account>>

\* The operation succeeds: last_used is now, both guards go, and it returns.
CachedOk(t) ==
  /\ Goto(t, "cachedOp", "ready")
  /\ session' = [session EXCEPT ![rt[t]] = None]
  /\ idle' = idle \ {rt[t]}
  /\ cacheLock' = None
  /\ key' = [key EXCEPT ![t] = None]
  /\ rt' = [rt EXCEPT ![t] = None]
  /\ UNCHANGED <<cache, account>>

(***************************************************************************)
(* The operation fails: the session guard goes, and the Err arm is about   *)
(* to remove the entry.  The guard of the lookup is still alive.           *)
(* last_used is written when the closure failed, not when opening the SFTP *)
(* channel did.                                                            *)
(***************************************************************************)
CachedErr(t) ==
  /\ Goto(t, "cachedOp", "dropFailed")
  /\ session' = [session EXCEPT ![rt[t]] = None]
  /\ idle' \in {idle, idle \ {rt[t]}}
  /\ UNCHANGED <<cache, cacheLock, key, rt, account>>

\* Seeded fault: the new runtime is cached before its first operation.
ConnectCaching(t, r) ==
  /\ Goto(t, "connect", "freshOp")
  /\ r \notin Referenced
  /\ cacheLock = None
  /\ cache' = [cache EXCEPT ![key[t]] = r]
  /\ rt' = [rt EXCEPT ![t] = r]
  /\ session' = [session EXCEPT ![r] = t]
  /\ idle' = idle \ {r}
  /\ UNCHANGED <<cacheLock, key, account>>

\* Seeded fault: the same, and the first operation skips the session mutex.
ConnectUnlocked(t, r) ==
  /\ Goto(t, "connect", "freshOp")
  /\ r \notin Referenced
  /\ cacheLock = None
  /\ cache' = [cache EXCEPT ![key[t]] = r]
  /\ rt' = [rt EXCEPT ![t] = r]
  /\ idle' = idle \ {r}
  /\ UNCHANGED <<cacheLock, session, key, account>>

\* open_ssh_session succeeds; the new runtime is this thread's alone, so its
\* session mutex is free.
ConnectOk(t, r) ==
  /\ Goto(t, "connect", "freshOp")
  /\ r \notin Referenced
  /\ rt' = [rt EXCEPT ![t] = r]
  /\ session' = [session EXCEPT ![r] = t]
  /\ idle' = idle \ {r}
  /\ UNCHANGED <<cache, cacheLock, key, account>>

ConnectErr(t) ==
  /\ Goto(t, "connect", "ready")
  /\ key' = [key EXCEPT ![t] = None]
  /\ UNCHANGED <<cache, cacheLock, session, idle, rt, account>>

FreshOk(t) ==
  /\ Goto(t, "freshOp", "insert")
  /\ session' = [session EXCEPT ![rt[t]] = None]
  /\ UNCHANGED <<cache, cacheLock, idle, key, rt, account>>

FreshErr(t) ==
  /\ Goto(t, "freshOp", "ready")
  /\ session' = [session EXCEPT ![rt[t]] = None]
  /\ key' = [key EXCEPT ![t] = None]
  /\ rt' = [rt EXCEPT ![t] = None]
  /\ UNCHANGED <<cache, cacheLock, idle, account>>

(***************************************************************************)
(* The entry is brought up to date: state.sftp_sessions.lock(), then       *)
(* insert(key, runtime) after the first success of a new runtime (it       *)
(* replaces what another thread cached for the connection meanwhile), or   *)
(* remove(&key) after the failure of a cached one.                         *)
(***************************************************************************)
Settle(t) ==
  /\ pc[t] \in {"insert", "dropFailed"}
  /\ cacheLock = None
  /\ cache' = [cache EXCEPT ![key[t]] = IF pc[t] = "insert" THEN rt[t] ELSE None]
  /\ pc' = [pc EXCEPT ![t] = "ready"]
  /\ key' = [key EXCEPT ![t] = None]
  /\ rt' = [rt EXCEPT ![t] = None]
  /\ UNCHANGED <<cacheLock, session, idle, account>>

-----------------------------------------------------------------------------
(***************************************************************************)
(* Closing a terminal evicts the sessions of its host and user.            *)
(***************************************************************************)
CloseTerminal(t, a) ==
  /\ Goto(t, "ready", "evict")
  /\ account' = [account EXCEPT ![t] = a]
  /\ UNCHANGED <<cache, cacheLock, session, idle, key, rt>>

\* drop_cached_sftp_sessions_for_terminal
Evict(t) ==
  /\ Goto(t, "evict", "ready")
  /\ cacheLock = None
  /\ cache' = Without({k \in Keys : AccountOf[k] = account[t]})
  /\ account' = [account EXCEPT ![t] = None]
  /\ UNCHANGED <<cacheLock, session, idle, key, rt>>

\* Ten minutes pass without a completed operation on a cached runtime.
Age(r) ==
  /\ r \in {cache[k] : k \in Keys} \ idle
  /\ idle' = idle \cup {r}
  /\ UNCHANGED <<cache, cacheLock, session, pc, key, rt, account>>

-----------------------------------------------------------------------------
Step(t) ==
  \/ Prune(t) \/ Hit(t) \/ Miss(t)
  \/ LockCached(t) \/ CachedOk(t) \/ CachedErr(t)
  \/ \E r \in Runtimes : ConnectOk(t, r)
  \/ ConnectErr(t) \/ FreshOk(t) \/ FreshErr(t) \/ Settle(t)
  \/ Evict(t)

Next ==
  \/ \E t \in Threads :
       \/ \E k \in Keys : Call(t, k)
       \/ \E a \in Accounts : CloseTerminal(t, a)
       \/ Step(t)
  \/ \E r \in Runtimes : Age(r)

Spec == Init /\ [][Next]_vars

(***************************************************************************)
(* A started operation keeps running, and parking_lot hands a contended    *)
(* mutex to every waiter eventually, hence strong fairness of the steps.   *)
(* Nothing forces the user to call, a terminal to close or time to pass.   *)
(***************************************************************************)
FairSpec == Spec /\ \A t \in Threads : SF_vars(Step(t))

-----------------------------------------------------------------------------
TypeOK ==
  /\ cache \in [Keys -> Runtimes \cup {None}]
  /\ cacheLock \in Threads \cup {None}
  /\ session \in [Runtimes -> Threads \cup {None}]
  /\ idle \in SUBSET Runtimes
  /\ pc \in [Threads -> Stage]
  /\ key \in [Threads -> Keys \cup {None}]
  /\ rt \in [Threads -> Runtimes \cup {None}]
  /\ account \in [Threads -> Accounts \cup {None}]

(***************************************************************************)
(* No session is pulled away under an operation: while a thread works on a *)
(* runtime it took from the cache, that runtime is the cached one, however *)
(* many prunes, terminal closes and inserts other threads run meanwhile.   *)
(***************************************************************************)
CachedUseIsCurrent ==
  \A t \in Threads : pc[t] \in CachedStage => cache[key[t]] = rt[t]

(***************************************************************************)
(* An ssh2::Session is used by one thread at a time, whether the operation *)
(* found it in the cache or opened it.                                     *)
(***************************************************************************)
OneOperationPerSession ==
  \A t, u \in Threads :
    (Operating(t) /\ Operating(u) /\ rt[t] = rt[u]) => t = u

(***************************************************************************)
(* A session opened by an operation is invisible to everyone else until    *)
(* the operation has succeeded: a connection that failed its first use is  *)
(* never handed out.                                                       *)
(***************************************************************************)
PrivateUntilInserted ==
  \A t \in Threads : pc[t] \in FreshStage =>
    /\ rt[t] \notin {cache[k] : k \in Keys}
    /\ \A u \in Threads \ {t} : rt[u] # rt[t]

(***************************************************************************)
(* Every operation and every terminal close returns, unless some operation *)
(* has failed on a cached session and blocked itself on the cache mutex.   *)
(***************************************************************************)
OperationsReturn ==
  \A t \in Threads :
    (pc[t] # "ready") ~> (pc[t] = "ready" \/ \E u \in Threads : SelfBlocked(u))

(***************************************************************************)
(* docs/adr/0004: "Failed cached operations drop the cached runtime so the *)
(* next operation reconnects."                                             *)
(***************************************************************************)
FailedRuntimeIsDropped ==
  \A t \in Threads, r \in Runtimes :
    (pc[t] = "dropFailed" /\ rt[t] = r) ~> (r \notin {cache[k] : k \in Keys})
=============================================================================
