# VRShell: specifications, model checks and proofs

VRShell is a desktop SSH client: a Rust backend (`src-tauri/`) in a Tauri
window whose frontend is written in TypeScript and Vue (`frontend/`). This
directory holds TLA+ models of the backend's concurrent core and of the state of the
window, TLC runs over small instances of them, and TLAPS proofs for instances
of any size. Paths
below are relative to `src-tauri/src/` unless they start with `frontend/` or
`docs/`.

## 1. The system

### Threads

* The *main thread* runs the synchronous Tauri commands of the window one at a
  time. While a command waits, no other command runs.
* Per terminal session: an *actor* that owns the SSH channel, an *output
  reader* that asks the actor for output every few milliseconds, and a
  *keepalive* thread that asks it for a keepalive every 30 seconds.
* Per SFTP transfer one thread. `sftp_delete` runs in a blocking task of its own.
* In the window, one JavaScript thread whose promises and event handlers
  interleave at every `await`.

They share `BackendState` (`state.rs`): one parking_lot mutex per map. These
mutexes are not reentrant, and the crate is built with the 2021 edition, in
which the temporaries of an `if let` scrutinee live to the end of the
statement. Several critical sections are therefore longer than they look; the
models give every guard the lifetime it really has.

### Components

| Component | State | Operations | What makes it hard | What makes it correct |
|---|---|---|---|---|
| SFTP session cache (`services/sftp_service.rs`) | `sftp_sessions`, a mutex per session, `last_used` | `with_sftp`, idle pruning, eviction when a terminal closes | guards that outlive the lookup; two misses at once; errors | a session is used by one thread, is the cached one while it is used, is private until it worked; operations return |
| SFTP transfers (`commands/sftp.rs`, `sftp_service/transfer.rs`) | permits, counters, cancellation flags, events | upload, directory upload, download, cancel | refusal, error and cancellation at every point; order of events and release | limits kept, no slot leaks, one outcome per transfer and nothing after it, transfers end |
| SSH terminals (`services/terminal_service.rs`) | `terminals`, `terminal_runtimes`, the actors and their channels, kept output | connect, write, resize, poll, disconnect; reader and keepalive loops | three threads that may close one session; commands in flight when the actor stops; calls under a mutex | no forgotten caller, no ghost session, no silent close, no thread that stays |
| SFTP task rows (`sftp_service/tasks.rs`) | `sftp_tasks`, `sftp-tasks.v1.json` | the transitions of a row, list, prune | apply, snapshot, replace and save are separate critical sections | a persist that met no other loses nothing; file and memory agree |
| JSON file store (`infrastructure/file_store.rs`) | the file, its backup, a temporary file | save, load | crash between two steps, concurrent savers, failing renames | what was saved can be loaded |
| Host keys (`infrastructure/known_hosts_store.rs`, `services/terminal_service.rs`, `frontend/src/entities/security`) | pending connections, known_hosts, the one dialog of the window | connect phases 1 and 2, accept, reject, expiry | time to live against a late answer; two requests, one dialog | a key is trusted only after the user agreed to that key |
| Terminal tabs (`frontend/src/features/terminal`, `.../session/connect-session`) | tabs, chains and queues of input, session status | connect, another terminal, reconnect, close, type, broadcast, events | state read before an `await` and used after it; ids that are used again | tabs stay distinct, input arrives once, in order and where it was typed, nothing stays Connecting |
| Terminal output (`.../features/terminal/events`, `.../entities/terminal`, `.../widgets/session-workbench/ui/SessionTerminalPane.vue`) | batch of a frame, line buffers, what the pane has rendered | events, frames, switch, clear, remount | a cap and an index into the buffer that it shifts | every chunk on the screen once and in order |
| SFTP explorer (`.../widgets/sftp-explorer/model`, `.../features/sftp`) | a shown directory, one kept per session, versions | refresh, more, open, switch, operations | answers in any order, switching meanwhile | pages belong to their session; newer beats older; the loading state ends |
| Tree of remote directories (`.../widgets/sftp-explorer/ui/SftpDirectoryTree.vue`) | cached children, expanded, loading, errors; one tree kept per session | expand, reload, rename, delete, remount | answers for an instance that is gone | what is open has been loaded |
| Remote editor (`.../entities/editor`, `.../widgets/session-workbench/ui/SessionEditorArea.vue`) | open files, contents, marks | open, edit, save, close | edits and closes while reads and uploads are under way | what says Saved was handed over |
| Task list (`.../entities/task`, `.../features/task`) | rows from three sources | operations, events, restored list, cancel, retry | event before answer, snapshot after event | a finished transfer does not stay running |
| Session tree (`.../entities/session`, `.../widgets/session-explorer`) | hosts, groups, selection, drag | create, import, duplicate, move, delete, restore | questions answered after what they are about is gone | no cycle, lists agree, no host is lost |
| Workspace layout (`.../entities/workspace`, `.../widgets/workbench-layout`) | dock, side bars, panes, saved copy | presets, panels, narrow window, save, restore | commands that set related fields in different places | what is shown exists |
| Overlays (`.../features/workspace`, `.../shell/overlays`, `.../shared/feedback`) | lists, selection, recents | open, search, keys, run, dismiss | lists that shrink under the selection; commands that end late | selection and list agree, no duplicates |
| SSH connection, authentication, keyring, SSH config import, paths, IPC contract, backend session tree, rendering | - | library calls, parsing, shapes | - | not modelled |

### How they interact

* A transfer or any other SFTP operation enters the session cache; closing a
  terminal evicts from it while it holds the mutex of `terminals`.
* Every event of a transfer updates its task row and saves the table through
  the file store, before the window hears of it. The window's task list joins
  these events with the answers of the commands and a snapshot of the rows.
* Reader, keepalive and commands reach an actor through the registry
  `terminal_runtimes`, then its channel, and wait for one answer each.
* The window learns of output and closes by events, of results by promises. A
  connected tab makes the SFTP panel of its session usable; the panel's and the
  tree's operations make task rows.
* Layout, overlays, host tree and the rest share no variable but by commands
  they call once.

## 2. Structure

Every module models one component with its own Next. They are composed where
the code composes them in a way that can go wrong:

* `SftpTransfers` has the session cache as a transfer sees it and refines the
  abstract `PermitPool`.
* `SftpTaskTable` takes from `JsonFile` what a save may leave behind.
* `TerminalSessions` has all threads of all sessions, the maps where they meet
  with their mutexes, and of the session cache the mutex a close waits for.
* `TerminalTabs`, `TaskList` and `HostKeys` have the backend's half of their
  protocol: what it answers and what events it sends, in any order the threads
  of the backend allow.
* `MCTaskFile` has the task file at two levels, the table with saves of one step
  and the steps of a save, each in behaviours of its own.
* `MCWindow` puts the parts of the window that share no state into one run. A
  behaviour chooses its part at the start, so that the reachable states are
  those of the parts one after the other, not their product.

| Module | Proof module | Run |
|---|---|---|
| `SftpSessionCache` | `SftpSessionCacheProofs` | `SftpSessionCache`, `SftpSessionCacheReconnect` |
| `SftpTransfers`, `PermitPool` | `SftpTransfersProofs` | `SftpTransfers`, `SftpTransfersCancel` |
| `TerminalSessions` | `TerminalSessionsProofs` | `TerminalSessions`, `TerminalSize`, `TerminalOutput` |
| `JsonFile` | `JsonFileProofs` | `TaskFile` |
| `SftpTaskTable` | `SftpTaskTableProofs` | `TaskFile`, `SftpTaskTableFinal` |
| `TerminalTabs` | `TerminalTabsProofs` | `TerminalTabs` |
| `SftpExplorer` | `SftpExplorerProofs` | `Window` |
| `HostKeys`, `TaskList`, `TerminalPane`, `SftpTree`, `RemoteEditor`, `SessionTree`, `WorkspaceLayout`, `Overlays` | `WindowProofs` | `Window`, `TerminalTrim` (`TerminalPane` alone) |

`Lists` has `Array.filter` for the modules of the window whose lists are ordered.

## 3. The modules and the code

### SftpSessionCache

`cache` is `sftp_sessions`, `cacheLock` its mutex, `session` the mutex in each
cached entry, `idle` the entries whose `last_used` is older than the limit. A
thread in the module is any thread inside an SFTP command, or inside the part
of a terminal close that evicts. `Call` enters `with_sftp`; `Prune` is its
first statement; `Hit`/`Miss` the lookup. After a hit the guard of the map is a
temporary of the `if let` and lives until the end of the operation, which is
why `Hit` keeps `cacheLock`, `CachedOk` gives it back, and `CachedErr` leads to
`dropFailed`, where the thread wants the mutex it owns (`SelfBlocked`). After a
miss the mutex is free: `ConnectOk`, `FreshOk`, `Settle` (the insert).
`CloseTerminal` and `Evict` remove the entries of an account, `Age` lets time
pass.

ADR 0004 (lines 13 and 17) and `docs/architecture.md:47` say that the mutex of the
cache is used only to get or insert a handle, and that operations on different
connections do not wait for each other. The code does otherwise, and the module
follows it: every operation on a cached session, a transfer of any length
included, keeps the mutex, and the operations of all other connections wait at
their lookup. `OperationsReturn` says only that they get their turn.

### SftpTransfers and PermitPool

`pc` is the position of each transfer thread. `Start` and `Spawn` are the
command on the main thread: the flag is cleared, the row registered, and the
thread spawned only if the row could be saved. `AcquirePermit`/`Refuse` and
`Unwind` are `SftpTransferPermit::acquire` and its `Drop` with both counters;
`DropPermit` subtracts with saturation like the code. `EnterCached`, `EnterFresh`,
`Connect`, `Settle` and `EvictSession` are the session cache as a transfer sees
it. `Begin`, `Skip`, `Check`, `Chunk`, `Exhausted` and `BodyErr` are the closure
the service runs: invalid requests, the conflict check, the loop over chunks
with the cancellation check at its head. `Notify` is the end of an emission: the
flag is removed for progress and failure, and the event is sent. Bytes, paths
and kinds of transfer are abstracted to a number of chunks.

`PermitPool` is what the permits promise: a set of holders, two counters that
count them, two limits. `PoolSpec` states that `SftpTransfers` implements it.

### TerminalSessions

`terminals` and `runtimes` are the two maps, `terminalsLock` and `registryLock`
their mutexes where they are kept across a step, and `sftp` the mutex of the
cached SFTP sessions: free, kept by an operation on files (`SftpTakes`,
`SftpReturns`), or lost to one that has blocked itself (`SftpSticks`, the case
of `SftpSessionCacheReconnect`). `actor`, `queue` and `reply` are an actor
thread (`TerminalRuntimeState`), its command channel and the one-shot answers;
`channel`, `size` and `output` the SSH channel, the remote window size and the
whereabouts of each chunk of output. The callers are the main thread, a reader
and a keepalive thread per session. `Connect`, `Enter` and `Register` start the
actor and enter a session in one map, then in the other; `Invoke`,
`EnsureExists` (a poll only), `Found`/`NotFound`, `Send`, `Handle...`, `Returned`
are the path of a command; `Disconnect`, `Remove`/`AlreadyRemoved`, `Closed`,
`Forget` are the user's close, and the same removal followed by
`LockTerminals`, `SetDisconnected` that of a helper; `Announce` ends both.

`Remove` keeps `registryLock` until `Closed`: `if let Some(runtime) =
state.terminal_runtimes.lock().remove(..)` holds the guard while the actor
closes the channel. ADR 0002 (line 15) says that channel operations do not run
while the registry lock is held; the module does what the code does. `LockTerminals` keeps
`terminalsLock` until the cache mutex is free: whoever needs `terminals` waits
for the operation on files, and for ever if that has blocked itself
(`CloseIsStuck`).

### JsonFile

`disk` has the content of the file, its backup and the temporary file; `fd` the
name under which the file a saver has open is reachable now, so that a write
after another saver's rename goes to the right place. `Save` to `GiveUp` are the
steps of `write_atomic_with_backup` and `replace_with_temp_file`, each with its
error; `Crash` may fall between any two and tear a copy or a write.
`Loaded` is what the next start reads.

### SftpTaskTable

`mem` is the map of rows, `file` what the next start would load, `stage` and
`snap` where each thread is in `persist_sftp_tasks` and what it took along.
`Register`, `Report`, `Cancel` and `List` begin a persist, `Snapshot`, `Replace`
and `Save`/`SaveErr` are its three critical sections; a registration spawns the
transfer only after a successful save. `Pruned` is retention, order and limit.
`Restart` loads the file and forgets the threads. Two saves at once may leave
either table or none, the outcomes `JsonFile` has.

### TerminalTabs

`tabs` are the tab objects of the window with id, backend session and status,
`open` those in the store, `calls` the calls of `connect_ssh`, `live` the sessions
that run in the backend, `closing` and `events` what is on its way between the
two. `sends` are the inputs and how far they got, `chain` the last send of each
tab id (`terminalSendChain.ts`), `queue` the input kept until a tab is connected
again (`terminalInputQueue.ts`), `flush` what a reconnect has still to send of
it, and `written` what each session got. An action is what runs between two
awaits: `ConnectSession`, `OpenAdditional`, `Reconnect` and their replies,
`Type`, `Enqueue`, `FlushNext`, `SendNow`/`SendDropped`, `Wrote`/`WriteFailed`,
and the events `TerminalClosed` and `TerminalError`, which find tabs by session.
Code that waits keeps the object and looks up its id again where the source
does. The widgets are `TabBar`, `SessionBar`, `TypingPane` and
`ReconnectCommand`: what they offer is the guard of the action they call.

### SftpExplorer

`shown` and `kept` are `sftpState` and `sftpSessionStates`, `version` is
`refreshVersions`, `busy` is `runningOperationKeys`, `reqs` the requests under
way. The code mutates one object from many functions; a handler here is a
function on a record of the whole panel (`Watch`, `Refresh`, `Refuse`, `Persist`,
`Sync`, `ApplyPage`, `ApplyError`, `Loaded`), composed in the order in which the
code calls them. The user's actions are those of toolbar, path, list and menus;
`Listed`, `MoreListed`, `ListFailed`, `Created`, `Deleted` and `OperationFailed`
are what follows an await.

### SftpTree

`trees` has one instance of the component per mount, `mounted` says that the
last of them is in the panel, `keptTree` is the tree kept for the session. Loads
and menu operations belong to the instance that asked. `excused` has the two
cases in which a directory stays open without content: it was restored open while
its load was under way in the component before, or it was opened during a silent
refresh of it that then failed.

### RemoteEditor, TaskList, TerminalPane

`RemoteEditor`: `files` with content and marks, `reads` and `uploads` under way,
found again by file id; a content is the number of the edit that made it.
`TaskList`: `rows`, `listening` and `restore` of the window's start, `threads`,
`emitted` and `events` of the backend, `answers` and `cancels` of the commands.
`Listen` registers the listener of one kind of event: the three are asked for at
once and answered in any order, and an event emitted before its own is there is
lost. Transfers may be running when the window starts, since a reload leaves them
alone; `missed` has those whose outcome was emitted unheard.
`TerminalPane`: `pending` and `frame` are the batch that the next animation frame
empties, `buffers` the capped line buffers, `pane` the one pane with the number
of lines it has rendered. A tab's id belongs to its host, so `OpenTab` may open
it again after a close, with lines of the old session still in the batch, and
also while it is open, when its host is connected again: then its buffer is made
anew under a pane that keeps its screen and its count. `since` has the number of
outputs from before that; `trimmed` the tabs whose buffer has dropped lines.

### HostKeys

`connecting` and `held` are connections not made yet and those the backend keeps
in `pending_host_key_sessions`; `known` is known_hosts, `asking` and `dialog` the
requests on their way to the window and the one shown, `calls` the accept and
reject commands under way; `agreed` is what the user has said yes to. `Expire`
is the pruning after five minutes, at any time after the request.

### SessionTree, WorkspaceLayout, Overlays

`SessionTree`: `groups`, `parentOf` and `sessionIds` are the groups, their
nesting and their lists of hosts, `groupOf` the hosts' own field; `drag`,
`confirm` and `naming` span several events. `Restart` loads and repairs what was
saved. `WorkspaceLayout`: `layout` is the store, `savedLayout` what localStorage
has, `chosenPane` the pane of a narrow window; presets and commands are actions.
`Overlays`: the quick switcher, the palette with the commands it has `started`,
the context menu and the toasts; a search is the set of its matches.

Definitions marked "Seeded fault" are variants that no specification uses: each
breaks one property and documents which mistake the property would notice.

## 4. The runs

| Run | Bounds | States | Shows |
|---|---|---|---|
| `SftpSessionCache` | 2 threads, 3 connections of 2 accounts, 3 sessions | 104 760 | no use of a session that was replaced, no sharing, private until it worked, operations return unless one blocked itself |
| `SftpSessionCacheReconnect` (violation) | 2 sessions | | ADR 0004 against the code: a failed cached session is never dropped |
| `SftpTransfers` | 3 transfers on 2 connections, 2 slots, 1 per connection, 1 chunk | 270 272 | permits are counted right and implement the pool, one outcome and nothing after it, a failure is reported after its slot is free, transfers end |
| `SftpTransfersCancel` (violation) | the same | | design.md:416 against the code: a cancel that comes before a progress event is wiped by it; in the trace the event a transfer begins with, while the cancel found it waiting for its permit |
| `TerminalSessions` | 1 session, 3 callers, 1 chunk, every command | 115 515 | no call forgotten, no ghost, no silent close; commands return, dead sessions are closed, helpers end, unless a close is stuck behind an operation on files that blocked itself |
| `TerminalSize` (violation) | 1 session | | terminal_service.rs:361 against the code: a keepalive resets the size to 80x24 |
| `TerminalOutput` (violation) | 1 session | | design.md:385 against the code: output read by a write is not shown |
| `TerminalTrim` (violation) | 1 tab, a buffer of 3 lines, 4 outputs | | design.md:385 against the code: a full line buffer shows no further output |
| `TaskFile` | rows: 2 tasks, 1 row, retention 0, 2 instants; file: 2 savers, 3 contents | 1 737 478 | the table is bounded; a persist that met no other loses nothing and leaves file and memory equal; the last save is on the disk through errors and crashes, unless saves overlapped |
| `SftpTaskTableFinal` (violation) | 2 tasks, 2 rows | | design.md:414 against the code: a done task is running again |
| `TerminalTabs` | 1 host, 2 tabs, 2 connects, 2 inputs | 272 602 | tabs share neither id nor session, input arrives once, in order and in its tab, nothing shows Connecting for ever unless its call stays unanswered |
| `Window` | per part, see below | 816 823 | files: pages of their session, in order, newer over older, and a loading state with a request; tasks: no row left running but by the snapshot or an outcome nobody could hear; pane: output once and in order, all of it until the buffer overflows; tree: what is open was loaded; keys: trusted only if agreed; editor: what is not marked was handed over; hosts: no cycle, lists agree, none lost; layout and overlays: what is shown or selected exists |

Why the bounds are enough:

* Two threads meet at a mutex in every way three do; the third connection is
  there so that an eviction has something to spare. Three sessions let both
  threads hold a new one beside a cached one.
* With limits 2 and 1 and three transfers each limit refuses alone; one chunk
  gives a check, a write and a progress event before the end and a second check.
* A terminal's properties concern one session except at the registry, where its
  own three threads already meet. That sessions meet there too is covered by the
  proofs, which hold for any number of them. The pane has the size a PTY starts
  with, since only the run `TerminalSize` tells sizes apart.
* Contents need a saved one, the one being saved, and one of another saver.
* A table of one row is crowded out by a second task; with a retention of
  nought a row is as old as allowed at once and expired after one tick. Larger
  numbers of tasks, rows and ticks are covered by the proofs.
* Two connects open a host again under the id of a closed tab, reconnect a tab
  with input under way, and open a second tab; two inputs can be swapped.
* `Window`, files: 2 sessions (symmetric), 2 directories of 2 pages, 3 requests,
  2 refreshes per session, 2 changes of terminals, so that a late answer meets a
  later request of its session and one of the other. Pane: 2 tabs, each opened
  twice, a buffer of 3 lines and 2 outputs: outputs of the old session meet the
  new one, and with a notice of the window the buffer overflows. Tree: 2 directories, 2 mounts, 3
  requests. Keys: two unknown and one changed key for one dialog. Editor: 2
  files, 2 edits. Tasks: one transfer with 2 events; rows do not meet. Hosts: 2,
  one of them from the SSH configuration, one group beside All and the one that imports name.
  Overlays: 3 entries, 3 commands, 2 recents, 2 topics of toasts, 3 toasts.

Deadlock is not checked: the user may do nothing, and ids (transfers, sessions)
are used once, so that every system may really come to rest.

## 5. Fairness

No run forces the user, the server, the clock or an error. Assumed is:

* `SftpSessionCache`: strong fairness of each thread's own steps. A waiter at a
  parking_lot mutex gets it eventually (its unlock is fair from time to time),
  though it may find it locked again and again; weak fairness would not do.
* `SftpTransfers`: the spawned thread starts (weak), each transfer goes on
  (strong, because of the mutex of the cache). That an SFTP call returns in the
  end is an assumption about the server: the sockets have read and write
  time-outs (`infrastructure/ssh_connection.rs`), but the session sets none, so
  a server that keeps the connection and stays silent is outside the claim.
* `TerminalSessions` (`FairSpec`): actors handle their command channel (weak:
  nobody else takes a command from it), callers go on (strong, because of the
  mutexes), and an operation on files that has the cache mutex ends or blocks
  itself (weak). A step that needs a mutex is enabled only while that is free, so
  none is promised to threads behind one that is never given back.
* `TerminalTabs`: a reply that the backend has given is run (weak: nothing but
  its own execution disables it). That the backend answers is not assumed:
  `SSH_CONNECT_TIMEOUT` bounds the resolution and the TCP connect only, the
  handshake and the authentication that follow may wait for ever
  (`infrastructure/ssh_connection.rs:118`), and a connect waits for the mutex of
  terminals. `ConnectingEnds` is therefore conditional on the answer.
* `TaskFile` and `Window` state safety only.

`OperationsReturn` and `TransfersEnd` leave out the one case in which the code
blocks itself, and `CommandsReturn`, `DeadSessionIsClosed` and `HelpersEnd` what
follows from it for a close that then waits with `terminals` locked
(`CloseIsStuck`). That is no weakness of the fairness: the finding of
`SftpSessionCacheReconnect` says that the case is real.

## 6. Proofs

TLAPS checks them for every value of the constants. The assumptions are the
`...Assumption` of each module: kinds of constants and that `None` is nothing
else, finite sets of transfers and tasks, natural limits, and at least one host.

* `SftpSessionCacheProofs`: `CachedUseIsCurrent`, `PrivateUntilInserted`,
  `OneOperationPerSession`. None is inductive alone.
  `CacheLockOwner` says at which stages a thread owns the mutex of the cache
  (from a hit to the end of the operation), `SessionOwner` who owns a session's
  mutex, `HandsOK` what a thread holds at a stage. From the first, no other
  thread can change the map while one works on an entry; the rest follows.
* `SftpTransfersProofs`: `PermitAccounting`, `OneOutcomeAndLast`,
  `FailureFreesSlot`, `PoolSpec`. `PermitLifetime` ties a permit to the stages
  between acquisition and return, `KindOK` and `SentOK` the events sent to the
  way a thread has gone. The cardinality lemmas `CountAdd` and `CountRemove`
  make each counter follow its set; no step but acquire and drop changes
  either, which is also the refinement step.
* `JsonFileProofs`: `Durable`, `LoadFindsSave`. `OneSaver`, `BackupTaken`,
  `TemporaryReady` and `OldRemoved` say what each stage has achieved: the backup
  is taken before anything is touched, the temporary file is complete before
  the rename, and the old file is gone only when the backup has its content.
* `SftpTaskTableProofs`: `LoneSaveAgrees`, `RowsLeaveForAReason`, `TableBounded`.
  `Alone` says that a thread that met no other is the only one that persists,
  so its snapshot stays true to the table (`SnapshotFaithful`) until it replaces
  it and equal to it until it is saved (`SavesTable`). `PrunedRows` and
  `PrunedSmall` are about pruning itself: whoever is left out has expired or has
  enough rows before it, and no more than the limit are left, because the ranks
  of those left are different numbers below it.
* `TerminalSessionsProofs`: `RegisteredActorRuns`, `NoCallIsForgotten`,
  `ConnectedIsRegistered`, `GoneIsAnnounced`, for any number of sessions with all
  their threads, also while a close is stuck. `BeforeRegister` says what nobody
  can do yet before the second critical section of a connect; `QueuedWait` and
  `WaitersQueued` are the two directions between callers that wait and commands
  in channels; `ClosedIsGone` keeps a handle out of the registry once one closer
  has taken it, `UnregisteredIsClosing` and `TakerTells` say that this closer is
  the one who will change the maps and tell the window, and `AnnouncedIsOff`
  orders the two.
* `TerminalTabsProofs`: `TabsAreDistinct`, `WritesStayInTab`, `InputOnceInOrder`. An id says which tab
  is open, not which object it is, so the argument goes over backend sessions:
  `SessionsOfObjects` (a session is answered to one call and given to one
  object), `IdsOfObjects` (an id that is not a host's first is the object's
  own, and a tab under a first id always has had a session), `OpenIds`,
  `CopiesOfTab` (the session a flush has kept is one that only the input's tab
  had), `QueuesOfIds` and `FlushesOfCalls`. `Stays` collects what every step
  leaves alone; `Slots` counts the tabs that connections under way will make.
  `InputOnceInOrder` needs `OrderInv` besides. The order of input is that of the
  promises it waits for: `Before` says that one input comes before another in
  its chain, with the sets closed under "waits for" (`Upstream`), because a
  recursive definition is out of reach. `InputsInOrder` and `ChainsInOrder` keep
  this the order in which it was typed, `FlushesInOrder` the order of what a
  reconnect takes from its queue: only the head of a flush is under way, and what
  the flush is done with came before. `WritesAreFirst` says that what is being
  written waits for nothing, and `WrittenInOrder` that what a session has got
  comes before all that is still bound for it.
* `SftpExplorerProofs`: `PagesOfSession`, `LoadingHasRequest`, `PagesInOrder`,
  `ListingsMoveForward`. The handlers are
  compositions of functions on the panel, and so is the proof: a lemma per
  function says what it changes, and each handler keeps `Sound`. The invariant
  needs that a panel without an owner is quiet, that the panel is owned by the
  active session or nobody, and that every loading flag, kept ones included, has
  a request whose version still counts. It makes an exception for the flag that
  is kept for the session shown, because it is overwritten before another
  session is shown.
  The order of pages has a second invariant, `OrderInv`. `VersionsInOrder`:
  versions tell the listings of a session apart, so at most one counts.
  `AwaitedFits`: that one is newer than every page its session has, in the copy
  that is kept and on the screen, and a further page continues both.
  `ListsInOrder`: a cursor is behind the last page. `Shared`: the two copies of
  the session shown have the same pages, so it does not matter which of them is
  stored over the other. `Carries` says that a handler only moves lists between
  the two, drops them or adds entries that are not pages; every handler but an
  answer that counts does no more than that.
* `WindowProofs`: the parts of the window in `MCWindow`, for `WindowSpec`. Each
  part has an inductive invariant of its own, and a step of the window is one of
  the part or leaves its variables alone. `WindowAssumption` says what is needed
  of the constants: sets that are counted are finite, the panel shows a directory,
  and the ids of groups and of the roots differ.
  * `OnlyShownKeysAreTrusted`: nothing need be said of the dialog, whose request
    may be replaced at any time: a call keeps the connection it was made for, and
    an accepting call was made for an agreed one.
  * `LayoutIsConsistent`: the saved layout is part of the invariant, because a
    restart reads it back.
  * `OverlaysFit`: an invariant for each overlay, since no step of one touches
    another. A command under way was enabled when it was started, and an open menu
    has an item that can be run.
  * `SavedMeansHandedOver`: while a file that is open and was not overtaken is being
    saved, it has the content that was handed over.
  * `OpenDirectoriesAreLoaded`: inductive with its types, which say that a load
    belongs to a tree that was shown.
  * `NoRowIsLeftRunning`: looks ahead in the queue of events. A progress event is
    followed by an end of its transfer, or the transfer is alive, or its outcome
    was missed; a row that is running has that too, or waits for the answer of its
    command. Listeners only come, so an outcome that is emitted when all three are
    there is in the queue.
  * `OutputShownOnceInOrder`: of every tab, the buffer with the batch, and of the
    shown one what the pane has written with the batch, have the outputs after a
    line `LinesFrom`, and older ones in order (`BuffersCount`, `PaneShowsLines`).
    Trimming, closing and opening again move that line up to the newest output,
    so order and uniqueness hold always and completeness from there on. A pane has
    counted its whole buffer after every step; `ShowParts` says that it then
    writes the rest of the buffer, or all of it for another tab.
  * `TreeIsConsistent`, `HostsAreKept`: `GroupsPart` says that every group hangs
    below one that is there and no set of groups is closed under `parentOf`; a
    group that moves to `p` is not above `p`, so a cycle made by the move would have
    been there without it. `HostsPart` says that the list of a group has the hosts
    of that group, each once; `AskedPart` that what is asked about can still be
    answered: the group that takes the hosts over is All, which never goes.
    The lemmas before them say what filter, insertion and concatenation do to
    the members of a list.
  * `WindowHasTheExplorer`: a step of the window is one of the panel of files or
    leaves its state alone, so what `SftpExplorerProofs` shows of the panel holds
    in the window as well.

Model-checked only: liveness (`OperationsReturn`, `TransfersEnd`, `CommandsReturn`,
`DeadSessionIsClosed`, `HelpersEnd`, `ConnectingEnds`), which is beyond the
prover, and the properties of the violation runs.

## 7. What the models show beyond the properties

Behaviours of the code that the models contain. No document of the repository
denies them, so that they are no findings, but for the first; some are why a
property carries a condition.

* Locks: two decision records describe locks that the code keeps longer, the cache
  mutex through an operation on a cached session (ADR 0004:13 and :17,
  `architecture.md:47`) and the registry mutex through the close of a channel
  (ADR 0002:15). The guards are temporaries of `if let` scrutinees
  (`services/sftp_service.rs:212`, `services/terminal_service.rs:399` and `:462`).

* Host keys: a second request replaces the one shown, and the answer to the first
  closes or enables the dialog of the second; a key stays in known_hosts when
  the authentication that follows fails. In the same way a second confirmation
  or prompt replaces the first, whose promise is never resolved
  (`dialogStore.ts:36`).
* Tabs: a reconnect that is answered after its tab was closed leaves a backend
  session without a tab; the size of the pane is not sent again after a reconnect.
* Terminal output: when a host is connected again under an open tab, the shown
  pane skips the first line of the new buffer; what the batch had of a session
  closed meanwhile goes into the buffer of the next one under the same id.
  Output that comes before the answer of the connect call finds no tab and is
  dropped.
* SFTP panel: running operations are told apart by kind and path, not by session;
  a second refresh of the same path discards the answer of the first; a
  component of the tree that is gone overwrites the kept tree; retry acts on the
  session active by then.
* Task list: "completed" may come before the transfer has begun, for a command
  returns when its thread is started; the snapshot asked for at the start may
  overwrite a newer event; late progress after a cancel sets a row running again; after a
  reload of the window an outcome emitted before its listener is registered is
  lost.
* Editor: "Saved" means handed over, not written; a file that is opened again is
  overwritten but keeps its mark; an edit during a save loses its mark; closing
  a session's tab discards edits without a question.
* Session tree: hosts imported from the SSH configuration go to a group
  "favorites" that does not exist by default.
* Layout: the operations preset shows the logs without making them the recent
  panel (`createAppCommands.ts:175`); resetting the layout shares the default's
  `dockOrder` array; a start always takes the single mode.
* Overlays: the palette's selection is not clamped when its list shrinks, only
  when it is moved; a command that ends late closes a palette that was opened
  again; commands never used score higher than the most recent one; a toast
  is looked up as the oldest one of its key.
* Backend: rows that were running when the program stopped stay running; two
  saves share one temporary name; a helper's close waits for the SFTP cache while
  it keeps the mutex of terminals, and every connect, poll and disconnect waits
  behind it; a running row is crowded out of a full table like any other.

## 8. Not modelled

* What SFTP operations do on the server, paths, conflict names, bytes: they are
  sequential library calls and change no state the properties are about. A
  rename is a stutter of the list of files, and so is a download.
* Connecting and authenticating (`infrastructure/ssh_*`): success or failure.
* Keyring, SSH config parser, app paths, IPC contract, rendering, forms, status
  bar, logs, settings: single calls, data shapes, or the rendering of state that
  other modules have.
* The session tree of the backend (`domain/session_tree.rs`): its commands are
  called by no part of the window, which keeps its own tree (`SessionTree`).
* Functions of the window without a caller: `disconnectTerminalTab`, the
  confirmation in `closeTerminalTab`,
  `WorkspaceTabs.vue`, `switchMainView.ts`; and poll mode, which the Tauri window
  does not use. `sendInputToActiveTerminal` has no caller but its tests either;
  `TerminalTabs` has it (`Enqueue`), because the queue it fills is flushed by a
  reconnect, so the half of `InputOnceInOrder` about queued input speaks of a
  function that is exported and not used yet.
* Order of tabs and hosts on the screen, sorting, selection, names, sizes, theme
  and density: nothing that is modelled depends on them.
* Which entries a terminal's close evicts (`terminal_service.rs:403`, `:470`) is
  in `SftpSessionCache`, where the close is one more thread at the mutex;
  `TerminalSessions` has of the cache that mutex only.
* A panic inside a thread (parking_lot does not poison its mutexes) and a clock
  that is set back.
* File-system loss after a power failure: `Crash` is the end of the program; a
  rename that has returned is on the disk.
