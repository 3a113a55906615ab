--------------------------- MODULE SftpExplorer ---------------------------
(***************************************************************************)
(* The SFTP panel of the window: one directory shown, one kept for every   *)
(* session, and listings and file operations whose answers come back in    *)
(* any order while the user changes session and directory.                 *)
(*                                                                         *)
(* The code mutates two objects, sftpState and sftpSessionStates[session]. *)
(* A handler here is a function on a record of the whole panel, applied in *)
(* the order in which the code calls it. A page of a listing is one entry; *)
(* the entries that operations add to the list have page 0.                *)
(***************************************************************************)
EXTENDS Integers, Sequences, Lists

CONSTANTS
    Sessions,      \* the hosts of the window
    Paths,         \* directories, the same names on every host
    Root,          \* "/"
    None,          \* no session; also a session state that was deleted
    MaxRequests,   \* requests made to the backend in a behaviour
    MaxVersion,    \* refreshes and further pages asked for in a session
    MaxChanges,    \* times a terminal connects, disconnects or is closed
    MaxPages       \* pages of a directory

ASSUME ExplorerAssumption ==
    /\ Root \in Paths /\ None \notin Sessions
    /\ MaxRequests \in Nat /\ MaxVersion \in Nat
    /\ MaxChanges \in Nat /\ MaxPages \in Nat \ {0}

VARIABLES
    active,     \* sessionState.activeSessionId
    terminal,   \* of each session: no connected tab, a connected tab while the
                \* session is not connected, or both ("ready")
    changes,    \* how often that changed
    shown,      \* sftpState
    kept,       \* sftpSessionStates
    version,    \* refreshVersions
    busy,       \* runningOperationKeys
    reqs        \* the requests, in the order in which they were made

vars == <<active, terminal, changes, shown, kept, version, busy, reqs>>
windowVars == <<active, terminal, changes>>

Entry == [by : Sessions, dir : Paths, page : 0..MaxPages, n : 1..MaxRequests]
State == [owner : Sessions \cup {None}, initialized : BOOLEAN, path : Paths,
          next : 0..MaxPages, loading : BOOLEAN, error : BOOLEAN, items : Seq(Entry)]
Kinds == {"refresh", "more", "create", "delete"}
Request == [kind : Kinds, by : Sessions, path : Paths, page : 0..MaxPages,
            version : 0..MaxVersion]
Ended == [kind |-> "ended"]   \* an answered request; its row is in the task list (TaskList)

\* createSftpSessionState; next = 0 is a null cursor
Blank(s) == [owner |-> s, initialized |-> FALSE, path |-> Root, next |-> 0,
             loading |-> FALSE, error |-> FALSE, items |-> <<>>]

TypeOK ==
    /\ active \in Sessions \cup {None}
    /\ terminal \in [Sessions -> {"none", "tab", "ready"}]
    /\ changes \in 0..MaxChanges /\ shown \in State
    /\ \A s \in Sessions : kept[s] = Blank(None) \/ (kept[s] \in State /\ kept[s].owner = s)
    /\ version \in [Sessions -> 0..MaxVersion]
    /\ busy \subseteq (Kinds \X Paths)
    /\ reqs \in Seq(Request \cup {Ended}) /\ Len(reqs) <= MaxRequests

Init ==
    /\ active = None /\ terminal = [s \in Sessions |-> "none"] /\ changes = 0
    /\ shown = Blank(None) /\ kept = [s \in Sessions |-> Blank(None)]
    /\ version = [s \in Sessions |-> 0] /\ busy = {} /\ reqs = <<>>

Panel == [shown |-> shown, kept |-> kept, version |-> version, busy |-> busy, reqs |-> reqs]
\* The bounds on requests and versions are kept here, for all handlers
Becomes(panel) ==
    \E p \in {panel} :
        /\ Len(p.reqs) <= MaxRequests /\ \A s \in Sessions : p.version[s] <= MaxVersion
        /\ shown' = p.shown /\ kept' = p.kept /\ version' = p.version
        /\ busy' = p.busy /\ reqs' = p.reqs

---------------------------------------------------------------------------
\* The two stores

\* getSftpSessionState: makes the state of a session that has none
Kept(p, s) == IF p.kept[s].owner = None THEN Blank(s) ELSE p.kept[s]

Activate(p, s) == [p EXCEPT !.shown = Kept(p, s), !.kept[s] = Kept(p, s)]

Persist(p) ==
    IF p.shown.owner = None THEN p ELSE [p EXCEPT !.kept[p.shown.owner] = p.shown]

Clear(p) == [p EXCEPT !.shown = Blank(None)]

Forget(p, s) ==
    LET q == [p EXCEPT !.kept[s] = Blank(None)]
    IN  IF p.shown.owner = s THEN Clear(q) ELSE q

\* applyDirectoryState
ApplyPage(p, s, dir, items, next) ==
    [p EXCEPT !.kept[s] = [Kept(p, s) EXCEPT !.initialized = TRUE, !.path = dir,
        !.next = next, !.loading = FALSE, !.error = FALSE, !.items = items]]

\* Seeded fault: the panel does not take over whose directory it shows
SyncDirectory(p, s) ==
    [p EXCEPT !.shown = [p.kept[s] EXCEPT !.loading = p.shown.loading, !.owner = p.shown.owner]]

\* syncActiveDirectoryState: everything but the loading flag
Sync(p, s) == [p EXCEPT !.shown = [p.kept[s] EXCEPT !.loading = p.shown.loading]]

\* applyDirectoryError
ApplyError(p, s) ==
    LET q == [p EXCEPT !.kept[s] = [Kept(p, s) EXCEPT !.error = TRUE,
                 !.initialized = TRUE, !.loading = FALSE]]
    IN  IF p.shown.owner = s
        THEN [q EXCEPT !.shown.error = TRUE, !.shown.initialized = TRUE] ELSE q

Loading(p, s) ==
    Persist([p EXCEPT !.kept[s] = [Kept(p, s) EXCEPT !.loading = TRUE],
                      !.shown.loading = TRUE])

\* The finally block: the flag of whatever is shown is cleared
Loaded(p) == Persist([p EXCEPT !.shown.loading = FALSE])

---------------------------------------------------------------------------
\* Requests

Send(p, kind, s, dir, page, v) ==
    [p EXCEPT !.reqs = Append(@, [kind |-> kind, by |-> s, path |-> dir, page |-> page,
                                  version |-> v])]

\* runSftpOperationTask up to its await: one operation per kind and path
Begin(p, kind, s, dir, v) ==
    [Send(p, kind, s, dir, 1, v) EXCEPT !.busy = @ \cup {<<kind, dir>>}]
End(p, n) ==
    [p EXCEPT !.reqs[n] = Ended, !.busy = @ \ {<<p.reqs[n].kind, p.reqs[n].path>>}]

\* isSessionReadyForSftp
Ready(s) == terminal[s] = "ready"

\* refresh without a live connection: the error is shown and no request is made
Refuse(p, s) ==
    LET q == ApplyError(p, s)
    IN  Persist([q EXCEPT !.shown.error = TRUE, !.shown.initialized = TRUE,
                          !.shown.loading = FALSE])

\* Seeded fault: a refresh that was refused as a duplicate leaves the flag set
DuplicateKeepsFlag(p) == p

\* The operation already runs: no page, and the finally block follows
Duplicate(p) == Loaded(p)

\* refresh of a connected session up to the await of the listing
Refresh(p, s, dir) ==
    LET q == [p EXCEPT !.version[s] = @ + 1]
        a == IF q.shown.owner = s THEN q ELSE Activate(q, s)
        l == Loading([a EXCEPT !.shown.error = FALSE], s)
    IN  IF <<"refresh", dir>> \in p.busy THEN Duplicate(l)
        ELSE Begin(l, "refresh", s, dir, q.version[s])

Automatic(p, s, rdy) ==
    IF rdy[s] /= "ready" THEN Refuse(p, s)
    ELSE IF Kept(p, s).loading THEN p ELSE Refresh(p, s, p.shown.path)

\* The watcher of the active session and its connected terminals
Watch(p, s, rdy) ==
    IF s = None THEN Clear(Persist(p))
    ELSE IF rdy[s] = "none" THEN Clear(Persist(p))
    ELSE LET q == IF p.shown.owner = s THEN p ELSE Activate(Persist(p), s)
         IN  IF q.shown.initialized THEN q ELSE Automatic(q, s, rdy)

---------------------------------------------------------------------------
\* The user and the rest of the window

\* The user goes to a session, or to none; the watcher runs before any answer
Switch ==
    \E s \in (Sessions \cup {None}) \ {active} :
        /\ active' = s
        /\ Becomes(Watch(Panel, s, terminal)) /\ UNCHANGED <<terminal, changes>>

\* Terminals connect and disconnect
Terminals ==
    \E s \in Sessions : \E t \in {"none", "tab", "ready"} \ {terminal[s]} :
        LET new == [terminal EXCEPT ![s] = t]
        IN  /\ changes < MaxChanges /\ changes' = changes + 1
            /\ terminal' = new /\ UNCHANGED active
            /\ IF s = active /\ ((t = "none") /= (terminal[s] = "none"))
               THEN Becomes(Watch(Panel, s, new)) ELSE Becomes(Panel)

\* closeSessionTab: the state of the session is deleted with its tabs
CloseSession ==
    \E s \in Sessions :
        /\ kept[s].owner = s /\ terminal[s] /= "none"
        /\ changes < MaxChanges /\ changes' = changes + 1
        /\ LET new == [terminal EXCEPT ![s] = "none"]
               p == IF s = active THEN Watch(Panel, s, new) ELSE Panel
           IN  /\ terminal' = new /\ Becomes(Forget(p, s)) /\ UNCHANGED active

\* getSftpBodyState: the list is on the screen
HasTerminal == active /= None /\ terminal[active] /= "none"
ShowsList == ~shown.error /\ ~shown.loading /\ HasTerminal /\ shown.items /= <<>>

RefreshByUser(dir) ==
    /\ active /= None
    /\ Becomes(IF Ready(active) THEN Refresh(Panel, active, dir) ELSE Refuse(Panel, active))
    /\ UNCHANGED windowVars

\* The toolbar, disabled without a terminal and while loading; Retry below an error
RefreshAgain == (shown.error \/ (HasTerminal /\ ~shown.loading)) /\ RefreshByUser(shown.path)

\* The path above the list, never disabled; in the tree it is that of the selected directory
OpenBreadcrumb == \E dir \in Paths : RefreshByUser(dir)

\* A row of the list: a click stores the list, a double click on a folder opens it too
SelectItem == ShowsList /\ Becomes(Persist(Panel)) /\ UNCHANGED windowVars
OpenItem ==
    /\ ShowsList
    /\ \E dir \in Paths :
        Becomes(IF Ready(active) THEN Refresh(Persist(Panel), active, dir)
                ELSE Refuse(Persist(Panel), active))
    /\ UNCHANGED windowVars

LoadMore ==
    /\ ShowsList /\ shown.next /= 0 /\ Ready(active)
    /\ LET v == version[active] + 1
           p == Loading([Panel EXCEPT !.version[active] = v], active)
       IN  Becomes(Send(p, "more", active, shown.path, shown.next, v))
    /\ UNCHANGED windowVars

\* requireActiveSession: the session of the list, or the active one
Operand == IF shown.owner /= None THEN shown.owner ELSE active

Operate(kind, dir) ==
    /\ Operand /= None /\ Ready(Operand)
    /\ <<kind, dir>> \notin busy
    /\ Becomes(Begin(Panel, kind, Operand, dir, 0))
    /\ UNCHANGED windowVars

\* A file or folder is made, uploaded or deleted from a menu of the list or the
\* tree. The user answers a prompt first: what was shown may have changed.
FromMenus == \E dir \in Paths : Operate("create", dir) \/ Operate("delete", dir)

\* The toolbar makes and uploads into the directory shown
FromToolbar == Operate("create", shown.path)

---------------------------------------------------------------------------
\* Answers

Running(n, kinds) == reqs[n].kind \in kinds

\* Seeded fault: the version of a listing is not checked
AnyVersion(n) == TRUE

\* refreshVersions: no later refresh or page of the session was asked for
Current(n) == version[reqs[n].by] = reqs[n].version

Pages(n) == <<[by |-> reqs[n].by, dir |-> reqs[n].path, page |-> reqs[n].page, n |-> n]>>

\* Seeded fault: the cursor is the offset of the page, not of its end
SameCursor(page) == {0} \cup (IF page < MaxPages \/ page > 1 THEN {page} ELSE {})

\* listRemoteDirectoryPage: a full page has a cursor to the next one
Cursors(page) == {0} \cup (IF page < MaxPages THEN {page + 1} ELSE {})

\* What follows applyDirectoryState in refresh and loadMore
Settle(p, s) == Loaded(IF active = s THEN Sync(p, s) ELSE p)

Listed(n) ==
    /\ Running(n, {"refresh"})
    /\ \E next \in Cursors(1) :
        LET s == reqs[n].by
            p == End(Panel, n)
        IN  Becomes(IF Current(n)
                    THEN Settle(ApplyPage(p, s, reqs[n].path, Pages(n), next), s) ELSE p)
    /\ UNCHANGED windowVars

\* The directory of a further page is read from the list when the page arrives
MoreListed(n) ==
    /\ Running(n, {"more"})
    /\ \E next \in Cursors(reqs[n].page) :
        LET s == reqs[n].by
            p == [Panel EXCEPT !.reqs[n] = Ended]
        IN  Becomes(IF Current(n)
                    THEN Settle(ApplyPage(p, s, shown.path, Kept(p, s).items \o Pages(n), next), s)
                    ELSE p)
    /\ UNCHANGED windowVars

ListFailed(n) ==
    /\ Running(n, {"refresh", "more"})
    /\ LET p == End(Panel, n)
       IN  Becomes(IF Current(n) THEN Loaded(ApplyError(p, reqs[n].by)) ELSE p)
    /\ UNCHANGED windowVars

\* The list on the screen gets the new entry if it shows a directory of this name;
\* the toolbar's buttons refresh the panel afterwards, the menus do not
Created(n) ==
    /\ Running(n, {"create"})
    /\ LET p == End(Panel, n)
           new == [by |-> reqs[n].by, dir |-> reqs[n].path, page |-> 0, n |-> n]
           \* the array is the one that is kept for the session shown
           q == IF shown.path /= reqs[n].path THEN p
                ELSE LET r == [p EXCEPT !.shown.items = <<new>> \o @]
                     IN  IF shown.owner /= None /\ kept[shown.owner].items = shown.items
                         THEN [r EXCEPT !.kept[shown.owner].items = r.shown.items] ELSE r
       IN  \E toolbar \in BOOLEAN :
               Becomes(IF ~toolbar \/ active = None THEN q
                       ELSE IF Ready(active) THEN Refresh(q, active, q.shown.path)
                       ELSE Refuse(q, active))
    /\ UNCHANGED windowVars

\* Entries go by path, whatever session they were listed from; the list view
\* also stores what is left
Deleted(n) ==
    /\ Running(n, {"delete"})
    /\ LET p == End(Panel, n)
           others == {i \in 1..Len(shown.items) :
                        ~(shown.items[i].page = 0 /\ shown.items[i].dir = reqs[n].path)}
       IN  \E left \in Filter(shown.items, others) : \E list \in BOOLEAN :
               LET q == [p EXCEPT !.shown.items = left]
               IN  Becomes(IF list THEN Persist(q) ELSE q)
    /\ UNCHANGED windowVars

OperationFailed(n) ==
    /\ Running(n, {"create", "delete"})
    /\ Becomes(End(Panel, n)) /\ UNCHANGED windowVars

Answer(n) ==
    \/ Listed(n) \/ MoreListed(n) \/ ListFailed(n)
    \/ Created(n) \/ Deleted(n) \/ OperationFailed(n)

Next ==
    \/ Switch \/ Terminals \/ CloseSession
    \/ RefreshAgain \/ OpenBreadcrumb \/ SelectItem \/ OpenItem \/ LoadMore
    \/ FromMenus \/ FromToolbar
    \/ \E n \in 1..Len(reqs) : Answer(n)

Spec == Init /\ [][Next]_vars

---------------------------------------------------------------------------
\* Properties

\* The pages kept for a session were listed on that session, and so were the
\* pages on the screen, however often the user changed session while they were
\* on their way (applyDirectoryState, syncActiveDirectoryState).
PagesOfSession ==
    /\ \A s \in Sessions : \A i \in DOMAIN kept[s].items :
           kept[s].items[i].page /= 0 => kept[s].items[i].by = s
    /\ \A i \in DOMAIN shown.items :
           shown.items[i].page /= 0 => shown.items[i].by = shown.owner

\* Pages follow each other without a gap and none twice: no page answers a
\* cursor that another answer has used up (refreshVersions, loadMore).
InOrder(items) ==
    \A j \in 1..Len(items) : \A i \in 1..(j - 1) :
        /\ items[i].page /= 0 /\ items[j].page /= 0
        /\ \A k \in (i + 1)..(j - 1) : items[k].page = 0
        => items[j].page = items[i].page + 1
PagesInOrder == \A s \in Sessions : InOrder(kept[s].items)

\* A directory asked for earlier never replaces one asked for later, in
\* whatever order the answers arrive (refreshVersions).
Numbers(items) == {items[i].n : i \in {j \in 1..Len(items) : items[j].page /= 0}}
MovesForward(before, after) ==
    \A s \in Sessions :
        \/ Numbers(after[s].items) = {}
        \/ \A m \in Numbers(before[s].items) : \E n \in Numbers(after[s].items) : m <= n
ListingsMoveForward == [][MovesForward(kept, kept')]_vars

\* While the panel shows the loading state, which blocks its toolbar and hides
\* the list, a request of the session shown is on its way that will end it: the
\* flag never outlives its request (the finally blocks of refresh and loadMore,
\* and the copies of the flag that are kept while another session is shown).
LoadingHasRequest ==
    shown.loading =>
        \E n \in 1..Len(reqs) :
            Running(n, {"refresh", "more"}) /\ reqs[n].by = shown.owner /\ Current(n)
===========================================================================
