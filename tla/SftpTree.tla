----------------------------- MODULE SftpTree -----------------------------
(***************************************************************************)
(* The directory tree of the SFTP panel, for one session. The tree is a    *)
(* component that is made anew whenever the panel changes session or view  *)
(* mode or reloads; it starts from the state kept for its session and      *)
(* saves its own there. Its requests and the operations of its context     *)
(* menus go on after it is gone: an answer then changes the state of the   *)
(* component that has asked and overwrites the kept one.                   *)
(*                                                                         *)
(* Of the children of a directory only whether they are cached is kept.    *)
(***************************************************************************)
EXTENDS Integers, Sequences, FiniteSets

CONSTANTS
    Dirs,        \* the directories
    Top,         \* the directory the panel shows, rootPath
    MaxMounts,   \* components made
    MaxAsked     \* listings and operations in a behaviour

VARIABLES
    trees,       \* the components: expandedPaths, DOMAIN childrenByPath, treeErrorPath
    mounted,     \* the last of them is in the panel
    keptTree,    \* getSftpSessionState(session).tree
    loads,       \* the listings asked for: the component's loadingPaths
    asked,       \* how many listings and operations there were
    excused      \* history: of each component, the directories that it shows
                 \* expanded for one of the two reasons given below

Folders == Dirs \ {Top}    \* the rows that are directories

treeVars == <<trees, mounted, keptTree, loads, asked, excused>>

NoError == "none"
Loading(i) == {load.path : load \in {x \in loads : x.tree = i}}
Kept(tree) == [expanded |-> tree.expanded, cached |-> tree.cached]
Mounted(i) == mounted /\ i = Len(trees)

SftpTreeInit ==
    /\ trees = <<>> /\ mounted = FALSE /\ loads = {} /\ asked = 0 /\ excused = <<>>
    /\ keptTree = [expanded |-> {}, cached |-> {}]

\* persistTreeStateForSession after every change
Change(i, tree) ==
    /\ trees' = [trees EXCEPT ![i] = tree]
    /\ keptTree' = Kept(tree)

\* The second watcher: the entries of the panel are the children of rootPath.
WithItems(tree) == [tree EXCEPT !.expanded = @ \cup {Top}, !.cached = @ \cup {Top}]

\* loadChildren up to its await: nothing if the directory is being loaded
Load(i, path, silent) ==
    IF path \in Loading(i) THEN UNCHANGED <<loads, asked>>
    ELSE /\ asked < MaxAsked /\ asked' = asked + 1
         /\ loads' = loads \cup {[tree |-> i, path |-> path, silent |-> silent]}

---------------------------------------------------------------------------
\* A new component: restoreTreeState, then the watcher of the entries.
Mount ==
    /\ ~mounted /\ mounted' = TRUE /\ Len(trees) < MaxMounts
    /\ LET tree == WithItems([expanded |-> keptTree.expanded, cached |-> keptTree.cached,
                              error |-> NoError])
       IN /\ trees' = Append(trees, tree) /\ keptTree' = Kept(tree)
          /\ excused' = Append(excused, tree.expanded \ tree.cached)
    /\ UNCHANGED <<loads, asked>>

\* Another session or view mode, or the panel shows that it is loading.
Unmount ==
    /\ mounted /\ mounted' = FALSE
    /\ UNCHANGED <<trees, keptTree, loads, asked, excused>>

\* toggleNode of a directory that is open
Collapse(i, d) ==
    /\ Mounted(i) /\ d \in trees[i].expanded
    /\ Change(i, [trees[i] EXCEPT !.expanded = @ \ {d}])
    /\ excused' = [excused EXCEPT ![i] = @ \ {d}]
    /\ UNCHANGED <<mounted, loads, asked>>

\* Seeded fault: a directory is expanded without its children being loaded
\* when an error is shown.
ExpandUnlessError(i, d) ==
    /\ Mounted(i) /\ d \notin trees[i].expanded
    /\ IF d \in trees[i].cached \/ trees[i].error # NoError
       THEN /\ Change(i, [trees[i] EXCEPT !.expanded = @ \cup {d}])
            /\ UNCHANGED <<loads, asked>>
       ELSE /\ Change(i, [trees[i] EXCEPT !.expanded = @ \cup {d}, !.error = NoError])
            /\ Load(i, d, FALSE)
    /\ UNCHANGED <<mounted, excused>>

\* toggleNode of a directory that is closed; a load under way clears no error.
Expand(i, d) ==
    /\ Mounted(i) /\ d \notin trees[i].expanded
    /\ IF d \in trees[i].cached
       THEN /\ Change(i, [trees[i] EXCEPT !.expanded = @ \cup {d}])
            /\ UNCHANGED <<loads, asked>>
       ELSE /\ Change(i, [trees[i] EXCEPT !.expanded = @ \cup {d},
                                          !.error = IF d \in Loading(i) THEN @ ELSE NoError])
            /\ Load(i, d, FALSE)
    /\ UNCHANGED <<mounted, excused>>

\* retryTreeError, by the button of the error
Retry(i) ==
    /\ Mounted(i) /\ trees[i].error # NoError
    /\ Change(i, [trees[i] EXCEPT !.expanded = @ \cup {trees[i].error}, !.error = NoError])
    /\ Load(i, trees[i].error, FALSE)
    /\ UNCHANGED <<mounted, excused>>

Dismiss(i) ==
    /\ Mounted(i) /\ trees[i].error # NoError
    /\ trees' = [trees EXCEPT ![i].error = NoError]
    /\ UNCHANGED <<mounted, keptTree, loads, asked, excused>>

\* The answer of a listing; the session of a component never changes, so that
\* the check after the await always lets it pass, mounted or not.
Loaded(load) ==
    /\ Change(load.tree, [trees[load.tree] EXCEPT !.cached = @ \cup {load.path}])
    /\ loads' = loads \ {load}
    /\ UNCHANGED <<mounted, asked, excused>>

LoadFailed(load) ==
    /\ loads' = loads \ {load}
    /\ IF load.silent
       THEN /\ UNCHANGED <<trees, keptTree>>
            /\ excused' = [excused EXCEPT ![load.tree] = @ \cup {load.path}]
       ELSE /\ Change(load.tree, [trees[load.tree] EXCEPT !.expanded = @ \ {load.path},
                                                          !.error = load.path])
            /\ UNCHANGED excused
    /\ UNCHANGED <<mounted, asked>>

---------------------------------------------------------------------------
(* Operations of the context menu, when they are done; each ends with a    *)
(* silent refresh of the directory that holds the entry                    *)

\* afterCreate: the parent is expanded, its only cached child may be the new one.
Created(i, parent) ==
    /\ asked < MaxAsked
    /\ Change(i, [trees[i] EXCEPT !.expanded = @ \cup {parent}, !.cached = @ \cup {parent}])
    /\ Load(i, parent, TRUE)
    /\ UNCHANGED <<mounted, excused>>

\* afterDelete saves the state before it forgets the directory itself.
Deleted(i, d, parent) ==
    /\ asked < MaxAsked /\ d # parent
    /\ trees' = [trees EXCEPT ![i].expanded = @ \ {d}, ![i].cached = @ \ {d}]
    /\ keptTree' = IF parent \in trees[i].cached THEN Kept(trees[i]) ELSE keptTree
    /\ Load(i, parent, TRUE)
    /\ UNCHANGED <<mounted, excused>>

\* afterRename is given the renamed entry twice, for renameRemoteItem changes
\* the entry in place: nothing has the old id or path, and only the refresh
\* shows the new name.
Renamed(i, parent) ==
    /\ asked < MaxAsked
    /\ keptTree' = IF parent \in trees[i].cached THEN Kept(trees[i]) ELSE keptTree
    /\ Load(i, parent, TRUE)
    /\ UNCHANGED <<trees, mounted, excused>>

SftpTreeNext ==
    \/ Mount \/ Unmount
    \/ \E i \in DOMAIN trees :
         \/ Retry(i) \/ Dismiss(i)
         \/ \E d \in Folders : Collapse(i, d) \/ Expand(i, d) \/ Created(i, d)
         \/ \E parent \in Dirs : Renamed(i, parent) \/ \E d \in Folders : Deleted(i, d, parent)
    \/ \E load \in loads : Loaded(load) \/ LoadFailed(load)

SftpTreeSpec == SftpTreeInit /\ [][SftpTreeNext]_treeVars

---------------------------------------------------------------------------
\* A directory shown open has its entries or is being loaded: a load that
\* fails closes it again, whatever else was asked for, deleted or created
\* meanwhile. Two cases are excused, in which an open directory stays empty
\* until the user closes and opens it: it was restored open while its load was
\* still under way in the component before; and it was opened while a silent
\* refresh of it was under way, which then failed.
OpenDirectoriesAreLoaded ==
    \A i \in DOMAIN trees :
        trees[i].expanded \subseteq trees[i].cached \cup Loading(i) \cup excused[i]
===========================================================================
