------------------------------ MODULE MCWindow ------------------------------
(***************************************************************************)
(* The parts of the window that share no variable, in one run: a behaviour *)
(* chooses a part at the start and takes the steps of that part only. The  *)
(* reachable states are those of each part on its own; an interleaving of  *)
(* two parts would show nothing more.                                      *)
(*                                                                         *)
(* The panel of files has two sessions and two directories of two pages:   *)
(* three requests are enough for a late answer to meet a later request of  *)
(* its session and one of the other session. Its code treats all sessions  *)
(* alike. The other bounds are the smallest with which two of everything   *)
(* that may overtake each other are there.                                 *)
(***************************************************************************)
EXTENDS SftpExplorer, FiniteSets, TLC

CONSTANTS
    Tasks, MaxEvents,
    PaneTabs, NoPane, MaxBufferedLines, MaxOutputs, MaxOpens,
    Dirs, Top, MaxMounts, MaxAsked,
    Unknown, Changed, NoRequest,
    Files, NoFile, MaxEdits,
    TreeHosts, ConfigHosts, TreeGroups, All, Favorites, NoHost,
    Entries, Commands, Topics, MaxRecent, MaxToasts

\* What the proofs need of the constants: the switcher counts what it lists, a
\* list of recent commands and a buffer of lines have a length, the panel shows
\* a directory, hosts can be counted, and ids made for groups are new ones.
ASSUME WindowAssumption ==
    /\ IsFiniteSet(Entries) /\ MaxRecent \in Nat
    /\ Top \in Dirs /\ MaxBufferedLines \in Nat /\ NoPane \notin PaneTabs
    /\ IsFiniteSet(TreeHosts) /\ ConfigHosts \subseteq TreeHosts
    /\ All # Favorites /\ All \notin TreeGroups /\ Favorites \notin TreeGroups
    /\ NoHost \notin TreeGroups \cup {All, Favorites}

VARIABLES
    part,        \* the part that takes the steps
    rows, listening, restore, events, threads, emitted, missed, answers, cancels,
    tabs, opens, since, outputs, pending, frame, buffers, trimmed, pane,
    trees, mounted, keptTree, loads, asked, excused,
    connecting, held, known, asking, dialog, calls, agreed,
    files, activeFile, reads, uploads, edits, lastContent, overtaken,
    groups, parentOf, sessionIds, hosts, groupOf, confirm, naming, drag,
    layout, hasTabs, chosenPane, savedLayout,
    switcher, palette, started, recents, menu, toasts

List    == INSTANCE TaskList
Panes   == INSTANCE TerminalPane
Tree    == INSTANCE SftpTree
Keys    == INSTANCE HostKeys
Editor  == INSTANCE RemoteEditor
Hosts   == INSTANCE SessionTree
Layout  == INSTANCE WorkspaceLayout
Over    == INSTANCE Overlays

fileVars == vars
taskVars == <<rows, listening, restore, events, threads, emitted, missed, answers, cancels>>
paneVars == <<tabs, opens, since, outputs, pending, frame, buffers, trimmed, pane>>
treeVars == <<trees, mounted, keptTree, loads, asked, excused>>
keyVars == <<connecting, held, known, asking, dialog, calls, agreed>>
editorVars == <<files, activeFile, reads, uploads, edits, lastContent, overtaken>>
hostVars == <<groups, parentOf, sessionIds, hosts, groupOf, confirm, naming, drag>>
layoutVars == <<layout, hasTabs, chosenPane, savedLayout>>
overlayVars == <<switcher, palette, started, recents, menu, toasts>>
windowParts == <<part, fileVars, taskVars, paneVars, treeVars, keyVars, editorVars, hostVars,
                 layoutVars, overlayVars>>

overlays == {"switcher", "palette", "menu", "toasts"}

WindowInit ==
    /\ part \in {"files", "tasks", "pane", "tree", "keys", "editor", "hosts", "layout"}
                  \cup overlays
    /\ Init /\ List!TaskListInit /\ Panes!TerminalPaneInit /\ Tree!SftpTreeInit
    /\ Keys!HostKeysInit /\ Editor!RemoteEditorInit /\ Hosts!SessionTreeInit
    /\ Over!OverlaysInit /\ Layout!WorkspaceLayoutInit
    /\ part # "tasks" => threads = [t \in Tasks |-> "none"]
    /\ part # "hosts" => groups = <<All>>
    /\ part # "layout" => layout = Layout!DefaultLayout /\ savedLayout = Layout!NotSaved

\* The parts that do not take the step keep their state.
OthersStay ==
    /\ UNCHANGED part
    /\ IF part = "files" THEN TRUE ELSE UNCHANGED fileVars
    /\ IF part = "tasks" THEN TRUE ELSE UNCHANGED taskVars
    /\ IF part = "pane" THEN TRUE ELSE UNCHANGED paneVars
    /\ IF part = "tree" THEN TRUE ELSE UNCHANGED treeVars
    /\ IF part = "keys" THEN TRUE ELSE UNCHANGED keyVars
    /\ IF part = "editor" THEN TRUE ELSE UNCHANGED editorVars
    /\ IF part = "hosts" THEN TRUE ELSE UNCHANGED hostVars
    /\ IF part = "layout" THEN TRUE ELSE UNCHANGED layoutVars
    /\ IF part \in overlays THEN TRUE ELSE UNCHANGED overlayVars

WindowNext ==
    /\ OthersStay
    /\ \/ part = "files" /\ Next
       \/ part = "tasks" /\ List!TaskListNext
       \/ part = "pane" /\ Panes!TerminalPaneNext
       \/ part = "tree" /\ Tree!SftpTreeNext
       \/ part = "keys" /\ Keys!HostKeysNext
       \/ part = "editor" /\ Editor!RemoteEditorNext
       \/ part = "hosts" /\ Hosts!SessionTreeNext
       \/ part = "layout" /\ Layout!WorkspaceLayoutNext
       \/ part = "switcher" /\ Over!QuickOpen
       \/ part = "palette" /\ Over!Palette
       \/ part = "menu" /\ Over!ContextMenu
       \/ part = "toasts" /\ Over!Toasts

WindowSpec == WindowInit /\ [][WindowNext]_windowParts

Symmetry == Permutations(Sessions)

---------------------------------------------------------------------------
\* The task list: no row of a transfer whose outcome was heard stays running.
NoRowIsLeftRunning == List!NoRowIsLeftRunning

\* The terminal pane shows every chunk of output once and in order.
OutputShownOnceInOrder == Panes!OutputShownOnceInOrder

\* The tree of remote directories: an expanded directory has been loaded.
OpenDirectoriesAreLoaded == Tree!OpenDirectoriesAreLoaded

\* Host keys: only what the user was shown and agreed to is trusted.
OnlyShownKeysAreTrusted == Keys!OnlyShownKeysAreTrusted

\* The remote editor: a file that says "Saved" is what the backend was given.
SavedMeansHandedOver == Editor!SavedMeansHandedOver

\* The session tree has no cycle, and a host is in the list of its group.
TreeIsConsistent == Hosts!TreeIsConsistent

\* The session tree never loses a host, unless the user removes it.
HostsAreKept == [][Hosts!HostKept]_hostVars

\* The layout: dock, recent panel and pane agree with what there is.
LayoutIsConsistent == Layout!LayoutIsConsistent

\* The overlays select and list what there is.
OverlaysFit == Over!OverlaysFit
=============================================================================
