---------------------------- MODULE SessionTree ----------------------------
(***************************************************************************)
(* The hosts and groups of the window and the explorer that shows them:    *)
(* creating, importing, duplicating, dragging, deleting, and what a        *)
(* restart makes of the saved state.                                       *)
(*                                                                         *)
(* Names, addresses and their validation are left out: an operation that   *)
(* is refused changes nothing. The order of sessionState.sessions is left  *)
(* out too, and with it the choice of another active host when it goes. A  *)
(* drag spans several events, and a confirmation any time: between them    *)
(* hosts are imported, and deleted with the keyboard, whose focus stays in *)
(* the tree. What is not there any more has the group or parent All here.  *)
(***************************************************************************)
EXTENDS Integers, Sequences, SequencesExt, FiniteSets, Lists

CONSTANTS
    TreeHosts,     \* ids of hosts
    ConfigHosts,   \* those of the SSH config file
    TreeGroups,    \* ids of groups other than All
    All,           \* 'all', the root
    Favorites,     \* 'favorites', the group of imported hosts
    NoHost         \* no host, no group, nothing

VARIABLES
    groups,        \* the ids of sessionState.groups, in order
    parentOf,      \* their parentId
    sessionIds,    \* their lists of hosts
    hosts,         \* sessionState.sessions
    groupOf,       \* their groupId
    confirm,       \* the confirmation on the screen: what it deletes
    naming,        \* the prompt for a group's name: the parent
    drag           \* dragSource and dropTarget, or NoDrag

treeListVars == <<groups, parentOf, sessionIds>>
sessionTreeVars == <<treeListVars, hosts, groupOf, confirm, naming, drag>>

NoDrag == <<>>
Nowhere == [kind |-> "none", id |-> NoHost, position |-> "none"]
Target(kind, id, position) == [kind |-> kind, id |-> id, position |-> position]
NoConfirm == [kind |-> "none", id |-> NoHost, fallback |-> NoHost]

Exists(g) == Contains(groups, g)
ChildrenOf(list, p) == Keep(list, {i \in DOMAIN list : parentOf[list[i]] = p})

\* isDescendantGroup's way up: g, its parent, the parent of that one
Upwards(g) ==
    LET ids == DOMAIN parentOf \cup {NoHost}
    IN  {h \in ids : \A S \in SUBSET ids :
            g \in S /\ (\A x \in S : Exists(x) => parentOf[x] \in S) => h \in S}
\* collectDescendantGroupIds: g and everything below it
Descendants(g) == {h \in ToSet(groups) : g \in Upwards(h)}

\* Deletion by pointer, creation and dragging need a window without a dialog.
NoDialog == confirm = NoConfirm /\ naming = NoHost

\* What is on the screen: every host of a group, every group; see the invariant.
Rendered(target) ==
    \/ target.kind = "host" /\ target.id \in hosts /\ Exists(groupOf[target.id])
       /\ target.position \in {"before", "after"}
    \/ target.kind = "group" /\ Exists(target.id) /\ target.position \in {"inside", "after"}

SessionTreeInit ==
    /\ \E old \in BOOLEAN :    \* old: restored from a version that had favorites
         groups = IF old THEN <<All, Favorites>> ELSE <<All>>
    /\ parentOf = [g \in TreeGroups \cup {All, Favorites} |-> IF g = All THEN NoHost ELSE All]
    /\ sessionIds = [g \in TreeGroups \cup {All, Favorites} |-> <<>>]
    /\ hosts = {} /\ groupOf = [h \in TreeHosts |-> All]
    /\ confirm = NoConfirm /\ naming = NoHost /\ drag = NoDrag

---------------------------------------------------------------------------
(* Hosts *)

\* addSessionToTree, for a set of new hosts
AddSessions(new, g) ==
    /\ hosts' = hosts \cup new
    /\ groupOf' = [h \in TreeHosts |-> IF h \in new THEN g ELSE groupOf[h]]
    /\ \E order \in SetToSeqs(new) :
         sessionIds' = IF Exists(g) THEN [sessionIds EXCEPT ![g] = @ \o order] ELSE sessionIds

\* createSession: from the form of a group, the quick command (into All), or
\* as the copy of a host, into that host's group
CreateSession(h) ==
    /\ h \notin hosts \cup ConfigHosts /\ NoDialog
    /\ \E g \in ToSet(groups) \cup {groupOf[copied] : copied \in hosts} : AddSessions({h}, g)
    /\ UNCHANGED <<groups, parentOf, confirm, naming, drag>>

\* importSshConfig answers: the hosts that are not there yet, at any time
ImportSshConfig ==
    /\ \E new \in (SUBSET (ConfigHosts \ hosts)) \ {{}} : AddSessions(new, Favorites)
    /\ UNCHANGED <<groups, parentOf, confirm, naming, drag>>

\* confirmDeleteSession: the Delete key or the menu; replaces another request,
\* whose caller then waits for ever
AskDeleteSession(h) ==
    /\ h \in hosts /\ confirm' = [NoConfirm EXCEPT !.kind = "host", !.id = h]
    /\ UNCHANGED <<treeListVars, hosts, groupOf, naming, drag>>

RemoveSession(h) ==
    /\ hosts' = hosts \ {h}
    /\ sessionIds' = [g \in DOMAIN sessionIds |-> Without(sessionIds[g], h)]
    /\ groupOf' = [groupOf EXCEPT ![h] = All]
    /\ UNCHANGED <<groups, parentOf>>

\* moveSessionInTree, index counted without the host that moves
MoveSession(h, g, index) ==
    /\ h \in hosts /\ Exists(g)
    /\ LET without == [x \in DOMAIN sessionIds |-> Without(sessionIds[x], h)]
           at == IF index > Len(without[g]) THEN Len(without[g]) ELSE index
       IN sessionIds' = [without EXCEPT ![g] = InsertAt(@, at + 1, h)]
    /\ groupOf' = [groupOf EXCEPT ![h] = g]
    /\ UNCHANGED <<groups, parentOf>>

---------------------------------------------------------------------------
(* Groups *)

AskCreateGroup(p) ==
    /\ Exists(p) /\ NoDialog /\ drag = NoDrag /\ naming' = p
    /\ UNCHANGED <<treeListVars, hosts, groupOf, confirm, drag>>

\* createSessionGroup and addGroupToTree; without a name nothing is made
CreateGroup(g) ==
    /\ naming # NoHost /\ naming' = NoHost
    /\ \/ UNCHANGED treeListVars
       \/ /\ ~Exists(g) /\ groups' = Append(groups, g)
          /\ parentOf' = [parentOf EXCEPT ![g] = naming]
          /\ sessionIds' = [sessionIds EXCEPT ![g] = <<>>]
    /\ UNCHANGED <<hosts, groupOf, confirm, drag>>

AskDeleteGroupWith(g, fallback) ==
    /\ Exists(g) /\ g # All /\ NoDialog /\ drag = NoDrag
    /\ confirm' = [kind |-> "group", id |-> g, fallback |-> fallback]
    /\ UNCHANGED <<treeListVars, hosts, groupOf, naming, drag>>

\* Seeded fault: the last group takes the hosts over, which may go with it
AskDeleteGroupIntoLast(g) == AskDeleteGroupWith(g, Last(Without(groups, g)))

\* deleteSessionGroup: the group that takes the hosts over is chosen before the
\* question; the menu does not offer it for All
AskDeleteGroup(g) == AskDeleteGroupWith(g, Without(groups, g)[1])

\* The hosts of the groups that go, in the order of the groups and of their lists
Before(h, k) ==
    \E a, b \in DOMAIN groups :
      \E i \in DOMAIN sessionIds[groups[a]], j \in DOMAIN sessionIds[groups[b]] :
        /\ sessionIds[groups[a]][i] = h /\ sessionIds[groups[b]][j] = k
        /\ a < b \/ (a = b /\ i < j)
Leaving(gone) ==
    {list \in SetToSeqs({h \in hosts : \E g \in gone : Contains(sessionIds[g], h)}) :
        \A i, j \in DOMAIN list : i < j => Before(list[i], list[j])}

\* removeGroupFromTree: the groups below go too, the hosts to the fallback
RemoveGroup(g, fallback) ==
    LET gone == Descendants(g)
    IN  /\ groups' = Keep(groups, {i \in DOMAIN groups : groups[i] \notin gone})
        /\ \E moved \in Leaving(gone) :
             IF Exists(fallback) /\ fallback \notin gone
             THEN /\ groupOf' = [h \in TreeHosts |-> IF Contains(moved, h) THEN fallback ELSE groupOf[h]]
                  /\ sessionIds' = [x \in DOMAIN sessionIds |->
                       IF x \in gone THEN <<>> ELSE IF x # fallback THEN sessionIds[x]
                       ELSE sessionIds[x] \o
                              Keep(moved, {i \in DOMAIN moved : ~Contains(sessionIds[x], moved[i])})]
                  /\ UNCHANGED hosts
             ELSE /\ hosts' = hosts \ ToSet(moved)
                  /\ groupOf' = [h \in TreeHosts |-> IF Contains(moved, h) THEN All ELSE groupOf[h]]
                  /\ sessionIds' = [x \in DOMAIN sessionIds |-> IF x \in gone THEN <<>> ELSE sessionIds[x]]
        /\ parentOf' = [h \in DOMAIN parentOf |-> IF h \in gone THEN All ELSE parentOf[h]]

\* resolveConfirm
ResolveConfirm ==
    /\ confirm # NoConfirm /\ confirm' = NoConfirm
    /\ \/ UNCHANGED <<treeListVars, hosts, groupOf>>
       \/ confirm.kind = "host" /\ RemoveSession(confirm.id)
       \/ confirm.kind = "group" /\ RemoveGroup(confirm.id, confirm.fallback)
    /\ UNCHANGED <<naming, drag>>

\* Seeded fault: a group may move to a group below it
MayMoveAnywhere(g, p) == Exists(g) /\ g # All /\ g # p

MayMove(g, p) == Exists(g) /\ g # All /\ g \notin Upwards(p)

\* moveGroupInTree: before its new sibling of that index, or last
MoveGroup(g, p, index) ==
    /\ IF MayMove(g, p)
       THEN LET rest == Without(groups, g)
                siblings == ChildrenOf(rest, p)
            IN /\ groups' = IF index >= Len(siblings) THEN Append(rest, g)
                            ELSE InsertAt(rest, IndexIn(rest, siblings[index + 1]), g)
               /\ parentOf' = [parentOf EXCEPT ![g] = p]
       ELSE UNCHANGED <<groups, parentOf>>
    /\ UNCHANGED <<sessionIds, groupOf>>

---------------------------------------------------------------------------
(* Dragging *)

\* onPointerDown and, 180 ms later, startDrag
StartDrag(kind, id) ==
    /\ drag = NoDrag /\ NoDialog
    /\ \/ kind = "host" /\ id \in hosts /\ Exists(groupOf[id])
       \/ kind = "group" /\ Exists(id) /\ id # All
    /\ drag' = <<[kind |-> kind, id |-> id], Nowhere>>
    /\ UNCHANGED <<treeListVars, hosts, groupOf, confirm, naming>>

\* onDocPointerMove: resolveDropTarget never gives what is dragged
PointerMove(target) ==
    /\ drag # NoDrag
    /\ \/ target = Nowhere
       \/ Rendered(target) /\ drag[1] # [kind |-> target.kind, id |-> target.id]
    /\ drag' = [drag EXCEPT ![2] = target]
    /\ UNCHANGED <<treeListVars, hosts, groupOf, confirm, naming>>

\* dropSession and getSessionInsertIndex; the target may be gone by now
DropSession(h, target) ==
    IF target.kind = "host"
    THEN LET g == groupOf[target.id]
             list == Without(sessionIds[g], h)
         IN /\ target.id \in hosts \ {h} /\ Exists(g)
            /\ MoveSession(h, g, IF ~Contains(list, target.id) THEN Len(list)
                                 ELSE IF target.position = "before" THEN IndexIn(list, target.id) - 1
                                 ELSE IndexIn(list, target.id))
    ELSE /\ target.kind = "group" /\ Exists(target.id)
         /\ MoveSession(h, target.id, IF target.position = "inside" THEN Len(sessionIds[target.id]) ELSE 0)

\* dropGroup: into the target, or after it among its siblings
DropGroup(g, target) ==
    \E t \in {IF target.kind = "host" THEN groupOf[target.id] ELSE target.id} :
       LET inside == target.position = "inside" \/ t = All
           p == IF inside THEN t ELSE parentOf[t]
           siblings == ChildrenOf(Without(groups, g), p)
       IN /\ target # Nowhere /\ (target.kind = "host" => target.id \in hosts)
          /\ Exists(t) /\ t # g
          /\ MoveGroup(g, p, IF inside THEN Len(siblings) ELSE IndexIn(siblings, t))

Drop == IF drag[1].kind = "host" THEN DropSession(drag[1].id, drag[2])
        ELSE DropGroup(drag[1].id, drag[2])

\* onDocPointerUp: executeDrop, which does nothing without its objects, cancelDrag
PointerUp ==
    /\ drag # NoDrag /\ drag' = NoDrag
    /\ Drop \/ (~ENABLED Drop /\ UNCHANGED <<treeListVars, groupOf>>)
    /\ UNCHANGED <<hosts, confirm, naming>>

---------------------------------------------------------------------------
\* persistState and, in the next program, restorePersistedState: groups whose
\* parent is not there go under the root, hosts whose group is not there into
\* the first group. A save older than the state was a state like any other.
Restart ==
    LET stray == {h \in hosts : ~Exists(groupOf[h])}
        first == groups[1]
    IN  /\ parentOf' = [g \in DOMAIN parentOf |->
                          IF g # All /\ ~Exists(parentOf[g]) THEN All ELSE parentOf[g]]
        /\ groupOf' = [h \in TreeHosts |-> IF h \in stray THEN first ELSE groupOf[h]]
        /\ \E order \in SetToSeqs(stray) : sessionIds' = [sessionIds EXCEPT ![first] = @ \o order]
        /\ confirm' = NoConfirm /\ naming' = NoHost /\ drag' = NoDrag
        /\ UNCHANGED <<groups, hosts>>

Targets == {Nowhere} \cup {Target("host", h, q) : h \in TreeHosts, q \in {"before", "after"}}
                     \cup {Target("group", g, q) : g \in DOMAIN parentOf, q \in {"inside", "after"}}

SessionTreeNext ==
    \/ \E h \in TreeHosts : \/ CreateSession(h) \/ AskDeleteSession(h)
                            \/ StartDrag("host", h)
    \/ \E g \in DOMAIN parentOf : \/ AskCreateGroup(g) \/ AskDeleteGroup(g) \/ StartDrag("group", g)
    \/ \E g \in TreeGroups : CreateGroup(g)
    \/ \E target \in Targets : PointerMove(target)
    \/ ImportSshConfig \/ ResolveConfirm \/ PointerUp \/ Restart

SessionTreeSpec == SessionTreeInit /\ [][SessionTreeNext]_sessionTreeVars

---------------------------------------------------------------------------
\* No set of groups is closed under parentId: whatever is dragged, deleted or
\* made, every group hangs below a root and is shown; collectChildGroupIds
\* would not end on a cycle.
NoCycle == \A S \in (SUBSET ToSet(groups)) \ {{}} : \E g \in S : parentOf[g] \notin S

\* The list of a group and the groupId of hosts, written separately, agree: it
\* has the hosts of the group and no other, each once; a host of a group that is
\* not there is one that was imported.
ListsAgree ==
    /\ \A h \in hosts : ~Exists(groupOf[h]) => groupOf[h] = Favorites
    /\ \A g \in ToSet(groups) :
         /\ ToSet(sessionIds[g]) = {h \in hosts : groupOf[h] = g}
         /\ \A i, j \in DOMAIN sessionIds[g] : sessionIds[g][i] = sessionIds[g][j] => i = j

\* The explorer shows every group, and every host of a group exactly once at
\* its place, after any interleaving of drags, imports, deletions and restarts.
TreeIsConsistent == NoCycle /\ ListsAgree

\* Deleting groups never loses a host, whatever happened between the question,
\* which names the group that takes the hosts over, and its answer.
HostKept == \A h \in hosts \ hosts' : confirm = [kind |-> "host", id |-> h, fallback |-> NoHost]
HostsAreKept == [][HostKept]_sessionTreeVars
============================================================================
