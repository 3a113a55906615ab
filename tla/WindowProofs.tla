---------------------------- MODULE WindowProofs ----------------------------
(***************************************************************************)
(* What the parts of the window promise, for any number of hosts, keys,    *)
(* directories, files, commands and toasts. Each part has an inductive     *)
(* invariant of its own and the same four lemmas: the initial states have  *)
(* it, every step of the part keeps it, a step of the window is one of the *)
(* part or leaves its variables alone, and so it holds of the window.      *)
(***************************************************************************)
EXTENDS MCWindow, FiniteSetTheorems, SequenceTheorems,
        WellFoundedInduction, TLAPS

(* Host keys. The invariant says nothing of the dialog: another request    *)
(* may replace the one shown at any time. What carries the argument is     *)
(* that a call keeps the connection it was made for, and was made for an   *)
(* agreed one.                                                             *)

\* Whoever asks to accept a key does so for a key the user has agreed to.
AcceptedIsAgreed == \A call \in calls : call.kind = "accept" => call.for \in agreed
KeysInv == AcceptedIsAgreed /\ Keys!OnlyShownKeysAreTrusted

\* What a call is made of, and that calls of two kinds differ
LEMMA CallParts ==
  ASSUME NEW kind, NEW c, NEW answer
  PROVE  /\ Keys!Call(kind, c, answer).kind = kind
         /\ Keys!Call(kind, c, answer).for = c
  BY DEF Keys!Call

\* Nothing is known and nobody has asked at the start.
LEMMA KeysStart == Keys!HostKeysInit => KeysInv
  BY DEF Keys!HostKeysInit, KeysInv, AcceptedIsAgreed, Keys!OnlyShownKeysAreTrusted

\* Each step of the backend and of the window keeps the invariant.
LEMMA KeysStep == KeysInv /\ [Keys!HostKeysNext]_Keys!hostKeyVars => KeysInv'
<1> SUFFICES ASSUME KeysInv, [Keys!HostKeysNext]_Keys!hostKeyVars
             PROVE  KeysInv'
  OBVIOUS
<1> USE DEF KeysInv
<1>1. CASE Keys!HandleHostKeyRequested
  BY <1>1 DEF Keys!HandleHostKeyRequested, AcceptedIsAgreed, Keys!OnlyShownKeysAreTrusted
<1>2. CASE Keys!ClickAccept
  <2>1. PICK c : /\ agreed' = agreed \cup {c}
                 /\ calls' = calls \cup {Keys!Call("accept", c, "none")}
                 /\ known' = known
    BY <1>2 DEF Keys!ClickAccept
  <2>2. AcceptedIsAgreed'
    <3> SUFFICES ASSUME NEW call \in calls', call.kind = "accept"
                 PROVE  call.for \in agreed'
      BY DEF AcceptedIsAgreed
    <3>1. CASE call \in calls
      BY <3>1, <2>1 DEF AcceptedIsAgreed
    <3>2. CASE call = Keys!Call("accept", c, "none")
      BY <3>2, <2>1, CallParts
    <3> QED BY <3>1, <3>2, <2>1
  <2>3. Keys!OnlyShownKeysAreTrusted'
    BY <2>1 DEF Keys!OnlyShownKeysAreTrusted
  <2> QED BY <2>2, <2>3
<1>3. CASE Keys!ClickReject
  <2>1. /\ agreed' = agreed /\ known' = known
        /\ \A call \in calls' : call \in calls \/ call.kind = "reject"
    BY <1>3, CallParts DEF Keys!ClickReject
  <2> QED BY <2>1 DEF AcceptedIsAgreed, Keys!OnlyShownKeysAreTrusted
<1>4. ASSUME NEW c \in Keys!Connections, Keys!Connect(c)
      PROVE  KeysInv'
  BY <1>4 DEF Keys!Connect, AcceptedIsAgreed, Keys!OnlyShownKeysAreTrusted
<1>5. ASSUME NEW c \in Keys!Connections, Keys!Expire(c)
      PROVE  KeysInv'
  BY <1>5 DEF Keys!Expire, AcceptedIsAgreed, Keys!OnlyShownKeysAreTrusted
<1>6. ASSUME NEW c \in Keys!Connections, Keys!AcceptHostKey(c)
      PROVE  KeysInv'
  \* The call was made for an agreed key, and its answer keeps that.
  <2>1. c \in agreed
    <3>1. Keys!Call("accept", c, "none") \in calls
      BY <1>6 DEF Keys!AcceptHostKey
    <3> QED BY <3>1, CallParts DEF AcceptedIsAgreed
  <2>2. agreed' = agreed /\ known' \subseteq known \cup {c}
    BY <1>6 DEF Keys!AcceptHostKey
  <2>3. \A call \in calls' : call \in calls \/ call.for = c
    BY <1>6, CallParts DEF Keys!AcceptHostKey
  <2>4. AcceptedIsAgreed'
    BY <2>1, <2>2, <2>3 DEF AcceptedIsAgreed
  <2>5. Keys!OnlyShownKeysAreTrusted'
    BY <2>1, <2>2 DEF Keys!OnlyShownKeysAreTrusted
  <2> QED BY <2>4, <2>5
<1>7. ASSUME NEW c \in Keys!Connections, Keys!RejectHostKey(c)
      PROVE  KeysInv'
  <2>1. /\ agreed' = agreed /\ known' = known
        /\ \A call \in calls' : call \in calls \/ call.kind = "reject"
    BY <1>7, CallParts DEF Keys!RejectHostKey
  <2> QED BY <2>1 DEF AcceptedIsAgreed, Keys!OnlyShownKeysAreTrusted
<1>8. ASSUME NEW call \in calls, Keys!Answered(call)
      PROVE  KeysInv'
  BY <1>8 DEF Keys!Answered, AcceptedIsAgreed, Keys!OnlyShownKeysAreTrusted
<1>9. CASE UNCHANGED Keys!hostKeyVars
  BY <1>9 DEF Keys!hostKeyVars, AcceptedIsAgreed, Keys!OnlyShownKeysAreTrusted
<1> QED
  BY <1>1, <1>2, <1>3, <1>4, <1>5, <1>6, <1>7, <1>8, <1>9 DEF Keys!HostKeysNext

\* A step of the window is one of this part or leaves it alone.
LEMMA KeysOfWindow == [WindowNext]_windowParts => [Keys!HostKeysNext]_Keys!hostKeyVars
  BY DEF WindowNext, OthersStay, windowParts, keyVars, Keys!hostKeyVars, overlays

\* A key is written to known_hosts only after the user agreed to that very key,
\* for any number of connections, requests that replace each other, answers
\* that come late and pending connections that expire.
THEOREM OnlyAgreedKeysAreTrusted == WindowSpec => []OnlyShownKeysAreTrusted
<1>1. WindowInit => KeysInv
  BY KeysStart DEF WindowInit
<1>2. KeysInv /\ [WindowNext]_windowParts => KeysInv'
  BY KeysStep, KeysOfWindow
<1>3. KeysInv => OnlyShownKeysAreTrusted
  BY DEF KeysInv, OnlyShownKeysAreTrusted
<1> QED BY <1>1, <1>2, <1>3, PTL DEF WindowSpec

---------------------------------------------------------------------------
(* The layout of the window. The invariant is LayoutIsConsistent together  *)
(* with its type: which panels a save may hold matters, since a restart    *)
(* takes them over.                                                        *)

SavedType == [recentDock : Layout!Docks, right : Layout!RightPanels, rightShown : BOOLEAN,
              leftShown : BOOLEAN, preset : Layout!Presets]
LayoutType == [dock : Layout!Docks \cup {"none"}, dockShown : BOOLEAN,
               recentDock : Layout!Docks, right : Layout!RightPanels, rightShown : BOOLEAN,
               leftShown : BOOLEAN, view : {"terminal", "editor"},
               mode : {"single", "vertical-split", "horizontal-split"}, compact : BOOLEAN,
               preset : Layout!Presets]
DockIsSound == layout \in LayoutType /\ Layout!DockHasAPanel /\ Layout!ShownDockIsRecent
LayoutInv ==
    DockIsSound /\ savedLayout \in SavedType \cup {Layout!NotSaved} /\ Layout!ChosenPaneExists

\* What a start makes of a save, or of none, is sound.
LEMMA RestoredIsSound ==
  ASSUME savedLayout \in SavedType \cup {Layout!NotSaved}, NEW narrow \in BOOLEAN,
         NEW l, l = Layout!Restored(narrow)
  PROVE  l \in LayoutType /\ (l.dockShown <=> l.dock # "none")
           /\ (l.dockShown => l.recentDock = l.dock)
<1>1. CASE savedLayout = Layout!NotSaved
  <2>1. l = [Layout!DefaultLayout EXCEPT !.compact = narrow]
    BY <1>1 DEF Layout!Restored
  <2> QED BY <2>1 DEF Layout!DefaultLayout, LayoutType, Layout!Docks, Layout!RightPanels,
      Layout!Presets
<1>2. CASE savedLayout \in SavedType /\ savedLayout # Layout!NotSaved
  <2>1. l = [dock |-> "none", dockShown |-> FALSE, recentDock |-> savedLayout.recentDock,
          right |-> savedLayout.right, rightShown |-> savedLayout.rightShown,
          leftShown |-> savedLayout.leftShown, view |-> "terminal", mode |-> "single",
          compact |-> narrow, preset |-> savedLayout.preset]
    BY <1>2 DEF Layout!Restored
  <2> QED BY <1>2, <2>1 DEF SavedType, LayoutType
<1> QED BY <1>1, <1>2

\* No earlier save, or one of an earlier version
LEMMA LegacyIsSound ==
  \A panel \in {"sessions", "sftp", "tasks"} : Layout!Legacy(panel) \in SavedType
  BY DEF Layout!Legacy, Layout!Snapshot, Layout!DefaultLayout, SavedType, Layout!Docks,
         Layout!RightPanels, Layout!Presets

\* The default layout and every saved one that is read back are sound.
LEMMA LayoutStart == Layout!WorkspaceLayoutInit => LayoutInv
<1> SUFFICES ASSUME Layout!WorkspaceLayoutInit
             PROVE  LayoutInv
  OBVIOUS
<1>1. savedLayout \in SavedType \cup {Layout!NotSaved}
  BY LegacyIsSound DEF Layout!WorkspaceLayoutInit
<1>2. PICK narrow \in BOOLEAN : layout = Layout!Restored(narrow)
  BY DEF Layout!WorkspaceLayoutInit
<1>3. DockIsSound
  BY <1>1, <1>2, RestoredIsSound DEF DockIsSound, Layout!DockHasAPanel,
     Layout!ShownDockIsRecent
<1>4. Layout!ChosenPaneExists
  BY DEF Layout!WorkspaceLayoutInit, Layout!ChosenPaneExists
<1> QED BY <1>1, <1>3, <1>4 DEF LayoutInv

\* Opening a panel in the dock
LEMMA OpenDockIsSound ==
  ASSUME DockIsSound, NEW panel \in Layout!Docks, Layout!OpenDock(panel)
  PROVE  DockIsSound'
  BY DEF DockIsSound, LayoutType, Layout!OpenDock, Layout!DockHasAPanel,
         Layout!ShownDockIsRecent, Layout!Docks

\* Closing the dock keeps the recent panel the one that was shown.
LEMMA CloseDockIsSound ==
  ASSUME DockIsSound, Layout!CloseDock
  PROVE  DockIsSound'
  BY DEF DockIsSound, LayoutType, Layout!CloseDock, Layout!DockHasAPanel,
         Layout!ShownDockIsRecent, Layout!Docks

\* The right panel, the side bars, the view and the width do not touch the dock.
LEMMA SidesAreSound ==
  ASSUME DockIsSound,
         \/ \E panel \in Layout!RightPanels : Layout!SwitchRightPanel(panel)
         \/ Layout!ToggleRightPanel \/ Layout!SwitchPanel \/ Layout!HideLeft
         \/ Layout!HideSidebars \/ Layout!SetCompactMode \/ Layout!MaximizeMainArea
         \/ Layout!ShowEditor \/ Layout!ShowTerminal
  PROVE  DockIsSound'
<1> USE DEF DockIsSound, LayoutType, Layout!DockHasAPanel, Layout!ShownDockIsRecent
<1>1. ASSUME NEW panel \in Layout!RightPanels, Layout!SwitchRightPanel(panel)
      PROVE  DockIsSound'
  BY <1>1 DEF Layout!SwitchRightPanel
<1>2. CASE Layout!ToggleRightPanel
  BY <1>2 DEF Layout!ToggleRightPanel
<1>3. CASE Layout!SwitchPanel
  BY <1>3 DEF Layout!SwitchPanel
<1>4. CASE Layout!HideLeft
  BY <1>4 DEF Layout!HideLeft
<1>5. CASE Layout!HideSidebars
  BY <1>5 DEF Layout!HideSidebars
<1>6. CASE Layout!SetCompactMode
  BY <1>6 DEF Layout!SetCompactMode
<1>7. CASE Layout!MaximizeMainArea
  BY <1>7 DEF Layout!MaximizeMainArea
<1>8. CASE Layout!ShowEditor \/ Layout!ShowTerminal
  BY <1>8 DEF Layout!ShowEditor, Layout!ShowTerminal
<1> QED BY <1>1, <1>2, <1>3, <1>4, <1>5, <1>6, <1>7, <1>8

\* A preset closes the dock, or shows a panel in it.
LEMMA PresetIsSound ==
  ASSUME DockIsSound, NEW preset \in Layout!Presets, Layout!ApplyLayoutPreset(preset)
  PROVE  DockIsSound'
<1> DEFINE cleared == [layout EXCEPT !.preset = preset, !.compact = FALSE,
                                     !.dockShown = FALSE, !.dock = "none"]
<1>1. cleared \in LayoutType /\ cleared.preset = preset /\ ~cleared.dockShown
        /\ cleared.dock = "none"
  BY DEF DockIsSound, LayoutType
<1> USE DEF DockIsSound, LayoutType, Layout!DockHasAPanel, Layout!ShownDockIsRecent,
            Layout!Docks, Layout!RightPanels
<1>2. CASE preset = "development"
  <2>1. layout' = [cleared EXCEPT !.mode = "vertical-split"]
    BY <1>2 DEF Layout!ApplyLayoutPreset
  <2> HIDE DEF cleared
  <2> QED BY <1>1, <2>1
<1>3. CASE preset = "file-transfer"
  <2>1. layout' = [cleared EXCEPT !.right = "sftp", !.rightShown = TRUE,
                                  !.mode = "horizontal-split"]
    BY <1>3 DEF Layout!ApplyLayoutPreset
  <2> HIDE DEF cleared
  <2> QED BY <1>1, <2>1
<1>4. CASE preset = "monitoring"
  <2>1. layout' = [cleared EXCEPT !.mode = "single", !.dock = "tasks",
                                  !.recentDock = "tasks", !.dockShown = TRUE]
    BY <1>4 DEF Layout!ApplyLayoutPreset
  <2> HIDE DEF cleared
  <2> QED BY <1>1, <2>1
<1>5. CASE preset = "operations"
  <2>1. layout' = [cleared EXCEPT !.mode = "horizontal-split", !.dock = "logs",
                                  !.dockShown = TRUE]
    BY <1>5 DEF Layout!ApplyLayoutPreset
  <2> HIDE DEF cleared
  <2> QED BY <1>1, <1>5, <2>1
<1> QED BY <1>2, <1>3, <1>4, <1>5 DEF Layout!Presets

\* Choosing a preset, a panel or a pane keeps dock and recent panel in agreement.
LEMMA ChangeIsSound ==
  ASSUME DockIsSound, Layout!ChangeLayout
  PROVE  DockIsSound'
<1>1. CASE Layout!PanelCommand
  <2>1. CASE Layout!SwitchPanel \/ Layout!SwitchRightPanel("sftp")
    BY <2>1, SidesAreSound DEF Layout!RightPanels
  <2>2. CASE (\E p \in Layout!Docks : Layout!OpenDock(p)) \/ Layout!ReopenRecentDock
    <3>1. layout.recentDock \in Layout!Docks
      BY DEF DockIsSound, LayoutType
    <3> QED BY <2>2, <3>1, OpenDockIsSound DEF Layout!ReopenRecentDock
  <2> QED BY <1>1, <2>1, <2>2 DEF Layout!PanelCommand
<1>2. CASE Layout!LayoutCommand
  <2>1. CASE Layout!ShowTerminal \/ Layout!MaximizeMainArea
    BY <2>1, SidesAreSound
  <2>2. CASE Layout!ResetWorkspaceLayout
    BY <2>2 DEF Layout!ResetWorkspaceLayout, Layout!DefaultLayout, LayoutType, Layout!Docks,
       Layout!RightPanels, Layout!Presets, DockIsSound, Layout!DockHasAPanel,
       Layout!ShownDockIsRecent
  <2>3. CASE Layout!OpenDock("logs")
    BY <2>3, OpenDockIsSound DEF Layout!Docks
  <2> QED BY <1>2, <2>1, <2>2, <2>3 DEF Layout!LayoutCommand
<1>3. CASE Layout!RightCommand
  BY <1>3, SidesAreSound DEF Layout!RightCommand, Layout!RightPanels
<1>4. CASE (\E p \in Layout!Docks : Layout!ToggleDock(p)) \/ Layout!CloseDock
  BY <1>4, OpenDockIsSound, CloseDockIsSound DEF Layout!ToggleDock
<1>5. CASE Layout!HideLeft \/ Layout!HideSidebars \/ Layout!SetCompactMode \/ Layout!ShowEditor
  BY <1>5, SidesAreSound
<1>6. CASE \E p \in Layout!Presets : Layout!ApplyLayoutPreset(p)
  BY <1>6, PresetIsSound
<1> QED BY <1>1, <1>2, <1>3, <1>4, <1>5, <1>6 DEF Layout!ChangeLayout

\* Each step of the layout, saving and restoring among them, keeps the invariant.
LEMMA LayoutStep == LayoutInv /\ [Layout!WorkspaceLayoutNext]_Layout!layoutVars => LayoutInv'
<1> SUFFICES ASSUME LayoutInv, [Layout!WorkspaceLayoutNext]_Layout!layoutVars
             PROVE  LayoutInv'
  OBVIOUS
<1> USE DEF LayoutInv
\* The pane follows whenever the panes or the tabs change.
<1>1. ASSUME Layout!PaneFollows
      PROVE  Layout!ChosenPaneExists'
  BY <1>1 DEF Layout!PaneFollows, Layout!ChosenPaneExists, Layout!HasSecondary,
              Layout!MainLayoutMode
<1>2. CASE Layout!ChangeLayout
  <2>1. DockIsSound'
    BY <1>2, ChangeIsSound
  <2> QED BY <1>1, <1>2, <2>1 DEF Layout!ChangeLayout
<1>3. CASE Layout!SessionConnected
  <2>1. DockIsSound'
    BY <1>3 DEF Layout!SessionConnected, DockIsSound, LayoutType, Layout!DockHasAPanel,
       Layout!ShownDockIsRecent, Layout!RightPanels
  <2> QED BY <1>1, <1>3, <2>1 DEF Layout!SessionConnected
<1>4. CASE Layout!LastTabCloses
  <2>1. DockIsSound'
    BY <1>4 DEF Layout!LastTabCloses, DockIsSound, Layout!DockHasAPanel,
       Layout!ShownDockIsRecent
  <2> QED BY <1>1, <1>4, <2>1 DEF Layout!LastTabCloses
<1>5. CASE Layout!PersistState
  <2>1. Layout!Snapshot(layout) \in SavedType
    BY DEF Layout!Snapshot, SavedType, DockIsSound, LayoutType
  <2> QED BY <1>5, <2>1 DEF Layout!PersistState, DockIsSound, Layout!DockHasAPanel,
      Layout!ShownDockIsRecent, Layout!ChosenPaneExists
<1>6. CASE Layout!RestartWindow
  <2>1. PICK narrow \in BOOLEAN : layout' = Layout!Restored(narrow)
    BY <1>6 DEF Layout!RestartWindow
  <2>2. savedLayout' = savedLayout /\ chosenPane' = "primary"
    BY <1>6 DEF Layout!RestartWindow
  <2>3. DockIsSound'
    BY <2>1, RestoredIsSound DEF DockIsSound, Layout!DockHasAPanel, Layout!ShownDockIsRecent
  <2> QED BY <2>2, <2>3 DEF Layout!ChosenPaneExists
<1>7. CASE \E pane_ \in {"primary", "secondary"} : Layout!ChoosePane(pane_)
  BY <1>7 DEF Layout!ChoosePane, DockIsSound, Layout!DockHasAPanel, Layout!ShownDockIsRecent,
     Layout!ChosenPaneExists
<1>8. CASE UNCHANGED Layout!layoutVars
  BY <1>8 DEF Layout!layoutVars, DockIsSound, Layout!DockHasAPanel, Layout!ShownDockIsRecent,
     Layout!ChosenPaneExists
<1> QED BY <1>2, <1>3, <1>4, <1>5, <1>6, <1>7, <1>8 DEF Layout!WorkspaceLayoutNext

\* A step of the window is one of the layout or leaves it alone.
LEMMA LayoutOfWindow == [WindowNext]_windowParts => [Layout!WorkspaceLayoutNext]_Layout!layoutVars
  BY DEF WindowNext, OthersStay, windowParts, layoutVars, Layout!layoutVars, overlays

\* The dock has a place exactly while a panel is chosen for it, the panel shown
\* is the one that would be reopened, and the pane that is chosen exists, after
\* any sequence of commands, presets, resizes, tabs and restarts.
THEOREM LayoutAlwaysAgrees == WindowSpec => []LayoutIsConsistent
<1>1. WindowInit => LayoutInv
  BY LayoutStart DEF WindowInit
<1>2. LayoutInv /\ [WindowNext]_windowParts => LayoutInv'
  BY LayoutStep, LayoutOfWindow
<1>3. LayoutInv => LayoutIsConsistent
  BY DEF LayoutInv, DockIsSound, LayoutIsConsistent, Layout!LayoutIsConsistent
<1> QED BY <1>1, <1>2, <1>3, PTL DEF WindowSpec

---------------------------------------------------------------------------
(* What Array.filter returns, wherever it is used.                          *)

\* A filtered list has the items that pass, each from a place of its own.
LEMMA FilterKeepsDistinct ==
  ASSUME NEW S, NEW items \in Seq(S), NEW pass, pass \subseteq 1..Len(items),
         \A i, j \in 1..Len(items) : items[i] = items[j] => i = j,
         NEW left \in Over!Filter(items, pass)
  PROVE  /\ left \in Seq(S)
         /\ \A i \in 1..Len(left) : \E k \in pass : left[i] = items[k]
         /\ \A i, j \in 1..Len(left) : left[i] = left[j] => i = j
<1>1. PICK len \in 0..Len(items) :
        left \in {[i \in 1..len |-> items[place[i]]] :
                    place \in {f \in [1..len -> pass] : Over!Range(f) = pass
                                  /\ \A i, j \in 1..len : i < j => f[i] < f[j]}}
  BY DEF Over!Filter
<1>2. PICK place \in [1..len -> pass] :
        /\ left = [i \in 1..len |-> items[place[i]]]
        /\ \A i, j \in 1..len : i < j => place[i] < place[j]
  BY <1>1
<1>3. left \in Seq(S) /\ Len(left) = len /\ len \in Nat
        /\ \A i \in 1..len : place[i] \in pass /\ place[i] \in 1..Len(items)
                               /\ left[i] = items[place[i]]
  <2>1. \A i \in 1..len : place[i] \in pass /\ place[i] \in 1..Len(items)
                               /\ items[place[i]] \in S
    <3>1. \A k \in 1..Len(items) : items[k] \in S
      OBVIOUS
    <3> QED BY <1>2, <3>1
  <2> QED BY <1>2, <2>1
<1>4. \A i, j \in 1..len : place[i] = place[j] => i = j
  BY <1>2, <1>3
<1>5. \A i \in 1..Len(left) : \E k \in pass : left[i] = items[k]
  BY <1>3
<1>6. \A i, j \in 1..Len(left) : left[i] = left[j] => i = j
  <2> SUFFICES ASSUME NEW i \in 1..Len(left), NEW j \in 1..Len(left), left[i] = left[j]
               PROVE  i = j
    OBVIOUS
  <2>1. items[place[i]] = items[place[j]] /\ place[i] \in 1..Len(items)
          /\ place[j] \in 1..Len(items) /\ i \in 1..len /\ j \in 1..len
    BY <1>3
  <2>2. place[i] = place[j]
    BY <2>1
  <2> QED BY <2>1, <2>2, <1>4
<1> QED BY <1>3, <1>5, <1>6

\* Some place is the first.
LEMMA FirstIsThere ==
  ASSUME NEW T, T \subseteq Nat, T # {}
  PROVE  \E n \in T : \A m \in T : n <= m
<1>1. PICK n \in T : \A m \in T : ~(<<m, n>> \in OpToRel(<, Nat))
  BY NatLessThanWellFounded, WFMin
<1>2. \A m \in T : n <= m
  <2> SUFFICES ASSUME NEW m \in T, m < n
               PROVE  FALSE
    OBVIOUS
  <2>1. <<m, n>> \in {pair \in Nat \X Nat : pair[1] < pair[2]}
    OBVIOUS
  <2>2. OpToRel(<, Nat) = {pair \in Nat \X Nat : pair[1] < pair[2]}
    BY DEF OpToRel
  <2> QED BY <1>1, <2>1, <2>2
<1> QED BY <1>2

---------------------------------------------------------------------------
(* The overlays. Each has an invariant of its own, since no step of one    *)
(* touches another.                                                        *)

SwitcherInv ==
    /\ switcher \in [open : BOOLEAN, there : SUBSET Entries, match : SUBSET Entries, at : Nat]
    /\ Over!SelectionIsListed
\* A command that runs was enabled when it was started.
RecentsInv ==
    /\ palette.enabled \subseteq Commands
    /\ \A run \in started : run.command \in Commands
    /\ recents \in Seq(Commands) /\ Over!RecentsAreDistinct
MenuIsOpen ==
    /\ menu.items \in [1..3 -> Over!ItemKinds] /\ menu.at \in 1..3
    /\ Over!Runnable(menu.items) # {} /\ menu.items[menu.at] # "separator"
MenuInv == (menu.items = <<>> /\ menu.at = -1) \/ MenuIsOpen
ToastType == [key : Topics, cooldown : BOOLEAN, fresh : BOOLEAN]
ToastsInv == toasts \in Seq(ToastType) /\ Over!ToastsAreDistinct
OverInv == SwitcherInv /\ RecentsInv /\ MenuInv /\ ToastsInv

\* The switcher counts a finite set.
LEMMA FilteredIsNatural ==
  ASSUME NEW s, s.there \subseteq Entries
  PROVE  Over!Filtered(s) \in Nat
<1>1. IsFiniteSet(s.there \cap s.match)
  BY WindowAssumption, FS_Subset
<1>2. Cardinality(s.there \cap s.match) \in Nat
  BY <1>1, FS_CardinalityType
<1>3. Over!Cardinality(s.there \cap s.match) = Cardinality(s.there \cap s.match)
  BY DEF Over!Cardinality, Cardinality
<1> QED BY <1>2, <1>3 DEF Over!Filtered

\* Going round ends inside the list.
LEMMA MovedIsInside ==
  ASSUME NEW at \in Nat, NEW count \in Nat, NEW step \in {-1, 1}
  PROVE  /\ Over!Moved(at, count, step) \in Nat
         /\ count # 0 => Over!Moved(at, count, step) < count
         /\ count = 0 => Over!Moved(at, count, step) = at
<1>1. CASE count = 0
  BY <1>1 DEF Over!Moved
<1>2. CASE count # 0
  <2>1. at + step + count \in Int
    OBVIOUS
  <2>2. ASSUME NEW n \in Int
        PROVE  n % count \in 0..(count - 1)
    BY <1>2
  <2> QED BY <1>2, <2>1, <2>2 DEF Over!Moved
<1> QED BY <1>1, <1>2

\* Opening, typing, moving and what happens to the entries keep the selection in the list.
LEMMA SwitcherStep ==
  ASSUME SwitcherInv, Over!QuickOpen
  PROVE  SwitcherInv'
<1> DEFINE T == [open : BOOLEAN, there : SUBSET Entries, match : SUBSET Entries, at : Nat]
           Selected(s) == LET count == Over!Filtered(s) IN s.at < count \/ (count = 0 /\ s.at = 0)
<1>1. switcher \in T /\ Selected(switcher)
  BY DEF SwitcherInv, Over!SelectionIsListed
<1>2. SwitcherInv' <=> switcher' \in T /\ Selected(switcher')
  BY DEF SwitcherInv, Over!SelectionIsListed, Over!Filtered
<1>3. ASSUME NEW s \in T
      PROVE  Over!Clamp(s) \in T /\ Selected(Over!Clamp(s))
  <2>1. Over!Filtered(s) \in Nat
    BY <1>3, FilteredIsNatural
  <2>2. ASSUME NEW n \in Nat
        PROVE  [s EXCEPT !.at = n] \in T /\ [s EXCEPT !.at = n].at = n
                 /\ Over!Filtered([s EXCEPT !.at = n]) = Over!Filtered(s)
    BY <1>3 DEF Over!Filtered
  <2>3. CASE s.at < Over!Filtered(s)
    BY <1>3, <2>1, <2>3 DEF Over!Clamp
  <2>4. CASE s.at >= Over!Filtered(s) /\ Over!Filtered(s) = 0
    <3>1. Over!Clamp(s) = [s EXCEPT !.at = 0]
      BY <2>4 DEF Over!Clamp
    <3> HIDE DEF T
    <3> QED BY <2>2, <2>4, <3>1
  <2>5. CASE s.at >= Over!Filtered(s) /\ Over!Filtered(s) # 0
    <3>1. Over!Clamp(s) = [s EXCEPT !.at = Over!Filtered(s) - 1]
      BY <2>5 DEF Over!Clamp
    <3> HIDE DEF T
    <3>2. Over!Filtered(s) - 1 \in Nat
      BY <2>1, <2>5
    <3> QED BY <2>1, <2>2, <3>1, <3>2
  <2> QED BY <1>3, <2>1, <2>3, <2>4, <2>5
<1>4. Over!Filtered(switcher) \in Nat
  BY <1>1, FilteredIsNatural
<1>5. ASSUME NEW open \in BOOLEAN, switcher' = [switcher EXCEPT !.open = open]
      PROVE  switcher' \in T /\ Selected(switcher')
  BY <1>1, <1>5 DEF Over!Filtered
<1>6. ASSUME NEW n \in Nat, switcher' = [switcher EXCEPT !.at = n],
             n < Over!Filtered(switcher) \/ (Over!Filtered(switcher) = 0 /\ n = 0)
      PROVE  switcher' \in T /\ Selected(switcher')
  BY <1>1, <1>6 DEF Over!Filtered
<1>7. CASE Over!OpenQuickOpen \/ Over!CloseQuickOpen \/ Over!OpenSelectedItem
  BY <1>2, <1>5, <1>7 DEF Over!OpenQuickOpen, Over!CloseQuickOpen, Over!OpenSelectedItem,
                          Over!SwitcherStep
<1>8. CASE Over!EntriesChange
  <2>1. PICK there \in SUBSET Entries :
          switcher' = Over!Clamp([switcher EXCEPT !.there = there])
    BY <1>8 DEF Over!EntriesChange, Over!SwitcherStep
  <2>2. [switcher EXCEPT !.there = there] \in T
    BY <1>1
  <2> HIDE DEF T, Selected
  <2> QED BY <1>2, <1>3, <2>1, <2>2
<1>9. CASE Over!SearchEntries
  <2>1. PICK match \in SUBSET Entries :
          switcher' = Over!Clamp([switcher EXCEPT !.match = match, !.at = 0])
    BY <1>9 DEF Over!SearchEntries, Over!SwitcherStep
  <2>2. [switcher EXCEPT !.match = match, !.at = 0] \in T
    BY <1>1
  <2> HIDE DEF T, Selected
  <2> QED BY <1>2, <1>3, <2>1, <2>2
<1>10. CASE Over!NavigateEntries
  <2>1. PICK step \in {-1, 1} :
          switcher' = [switcher EXCEPT !.at =
                         Over!Moved(switcher.at, Over!Filtered(switcher), step)]
    BY <1>10 DEF Over!NavigateEntries, Over!SwitcherStep
  <2>2. switcher.at \in Nat
    BY <1>1
  <2>3. Over!Filtered(switcher) = 0 => switcher.at = 0
    BY <1>1, <1>4
  <2> HIDE DEF T, Selected
  <2> QED BY <1>2, <1>4, <1>6, <2>1, <2>2, <2>3, MovedIsInside
<1>11. CASE Over!HoverEntry
  <2>1. PICK i \in 1..Over!Filtered(switcher) : switcher' = [switcher EXCEPT !.at = i - 1]
    BY <1>11 DEF Over!HoverEntry, Over!SwitcherStep
  <2>2. i - 1 \in Nat /\ i - 1 < Over!Filtered(switcher)
    BY <1>4
  <2> HIDE DEF T, Selected
  <2> QED BY <1>2, <1>6, <2>1, <2>2
<1> QED BY <1>7, <1>8, <1>9, <1>10, <1>11 DEF Over!QuickOpen

\* A command that has run is put first and taken out of its old place, and the
\* list is cut off: no command is twice in it.
LEMMA CommandRanIsSound ==
  ASSUME RecentsInv, NEW run \in started, Over!CommandRan(run)
  PROVE  recents' \in Seq(Commands) /\ Over!RecentsAreDistinct'
<1> DEFINE c == run.command
           pass == {i \in 1..Len(recents) : recents[i] # c}
<1>1. PICK others \in Over!Filter(recents, pass) :
        recents' = SubSeq(<<c>> \o others, 1, IF Len(<<c>> \o others) > MaxRecent
                                               THEN MaxRecent ELSE Len(<<c>> \o others))
  BY DEF Over!CommandRan
<1>2. c \in Commands /\ recents \in Seq(Commands)
  BY DEF RecentsInv
<1>3. \A i, j \in 1..Len(recents) : recents[i] = recents[j] => i = j
  BY <1>2 DEF RecentsInv, Over!RecentsAreDistinct, Over!IsInjective
<1>4. /\ others \in Seq(Commands)
      /\ \A i \in 1..Len(others) : others[i] # c
      /\ \A i, j \in 1..Len(others) : others[i] = others[j] => i = j
  BY <1>1, <1>2, <1>3, FilterKeepsDistinct
<1> HIDE DEF pass
<1> DEFINE again == <<c>> \o others
           n == IF Len(again) > MaxRecent THEN MaxRecent ELSE Len(again)
<1>5. /\ again \in Seq(Commands)
      /\ \A i, j \in 1..Len(again) : again[i] = again[j] => i = j
  <2>1. again \in Seq(Commands) /\ Len(again) = Len(others) + 1
          /\ \A i \in 1..Len(again) : again[i] = IF i = 1 THEN c ELSE others[i - 1]
    BY <1>2, <1>4
  <2> HIDE DEF again, c
  <2>2. ASSUME NEW i \in 1..Len(again), NEW j \in 1..Len(again), again[i] = again[j]
        PROVE  i = j
    <3>1. CASE i = 1 /\ j # 1
      <4>1. j - 1 \in 1..Len(others) /\ others[j - 1] = c
        BY <2>1, <2>2, <3>1
      <4> QED BY <4>1, <1>4
    <3>2. CASE i # 1 /\ j = 1
      <4>1. i - 1 \in 1..Len(others) /\ others[i - 1] = c
        BY <2>1, <2>2, <3>2
      <4> QED BY <4>1, <1>4
    <3>3. CASE i # 1 /\ j # 1
      <4>1. i - 1 \in 1..Len(others) /\ j - 1 \in 1..Len(others)
              /\ others[i - 1] = others[j - 1]
        BY <2>1, <2>2, <3>3
      <4>2. i - 1 = j - 1
        BY <4>1, <1>4
      <4> QED BY <4>2, <2>1
    <3> QED BY <3>1, <3>2, <3>3
  <2> QED BY <2>1, <2>2
<1>6. recents' = SubSeq(again, 1, n) /\ n \in Nat /\ n <= Len(again) /\ n <= MaxRecent
  BY <1>1, <1>5, WindowAssumption
<1> HIDE DEF again, n
<1>7. recents' \in Seq(Commands) /\ Len(recents') = n
        /\ \A i \in 1..n : recents'[i] = again[i]
  BY <1>5, <1>6
<1> QED BY <1>5, <1>6, <1>7 DEF Over!RecentsAreDistinct, Over!IsInjective

\* Running commands keeps the recent ones distinct and not too many.
LEMMA PaletteStep ==
  ASSUME RecentsInv, Over!Palette
  PROVE  RecentsInv'
<1> USE DEF RecentsInv
<1>1. ASSUME NEW c \in Commands, NEW from, Over!ExecuteCommand(c, from)
      PROVE  RecentsInv'
  BY <1>1 DEF Over!ExecuteCommand, Over!RecentsAreDistinct, Over!IsInjective
\* What changes only the palette, and enables nothing that is not a command
<1>2. ASSUME UNCHANGED <<started, recents>>, palette'.enabled \subseteq Commands
      PROVE  RecentsInv'
  BY <1>2 DEF Over!RecentsAreDistinct, Over!IsInjective
<1>3. CASE Over!OpenCommandPalette \/ Over!CloseCommandPalette \/ Over!SearchCommands
             \/ Over!SelectCommand
  <2>1. UNCHANGED <<started, recents>> /\ palette'.enabled = palette.enabled
    <3> USE DEF Over!PaletteStep
    <3>1. CASE Over!OpenCommandPalette
      BY <3>1 DEF Over!OpenCommandPalette
    <3>2. CASE Over!CloseCommandPalette
      BY <3>2 DEF Over!CloseCommandPalette
    <3>3. CASE Over!SearchCommands
      BY <3>3 DEF Over!SearchCommands
    <3>4. CASE Over!SelectCommand
      <4>1. ASSUME NEW at, Over!PaletteStep([palette EXCEPT !.at = at])
            PROVE  UNCHANGED <<started, recents>> /\ palette'.enabled = palette.enabled
        BY <4>1
      <4>2. \E at : Over!PaletteStep([palette EXCEPT !.at = at])
        BY <3>4 DEF Over!SelectCommand
      <4> QED BY <4>1, <4>2
    <3> QED BY <1>3, <3>1, <3>2, <3>3, <3>4
  <2> QED BY <1>2, <2>1
<1>4. CASE Over!AvailabilityChanges
  <2>1. PICK enabled \in SUBSET Commands :
          palette' = [palette EXCEPT !.enabled = enabled] /\ UNCHANGED <<started, recents>>
    BY <1>4 DEF Over!AvailabilityChanges, Over!PaletteStep
  <2>2. palette'.enabled \subseteq Commands
    BY <2>1
  <2> QED BY <1>2, <2>1, <2>2
<1>5. ASSUME NEW run \in started, Over!CommandRan(run)
      PROVE  RecentsInv'
  <2>1. palette'.enabled = palette.enabled
    <3>1. palette' \in Over!ClosedAfterRun \/ palette' = palette
      BY <1>5 DEF Over!CommandRan
    <3>2. ASSUME palette' \in Over!ClosedAfterRun
          PROVE  palette'.enabled = palette.enabled
      <4>1. CASE palette' = [palette EXCEPT !.open = FALSE]
        BY <4>1
      <4>2. CASE \E match \in SUBSET Commands :
                   palette' = [palette EXCEPT !.open = FALSE, !.match = match, !.at = 0]
        BY <4>2
      <4> QED BY <3>2, <4>1, <4>2 DEF Over!ClosedAfterRun
    <3> QED BY <3>1, <3>2
  <2>2. started' \subseteq started
    BY <1>5 DEF Over!CommandRan
  <2> QED BY <1>5, <2>1, <2>2, CommandRanIsSound
<1>6. ASSUME NEW run \in started, Over!CommandThrew(run)
      PROVE  RecentsInv'
  BY <1>6 DEF Over!CommandThrew, Over!RecentsAreDistinct, Over!IsInjective
<1> QED BY <1>1, <1>3, <1>4, <1>5, <1>6 DEF Over!Palette, Over!RunCommand,
                                            Over!GlobalShortcuts

\* Going up or down, with the separators skipped, comes to every item.
LEMMA GoingRoundMeetsAll ==
  ASSUME NEW at \in 1..3, NEW step \in {-1, 1}, NEW i \in 1..3
  PROVE  \E k \in 1..3 : i = 1 + ((at - 1 + k * step + 9) % 3)
<1>1. (at = 1 \/ at = 2 \/ at = 3) /\ (step = -1 \/ step = 1) /\ (i = 1 \/ i = 2 \/ i = 3)
  OBVIOUS
<1>2. /\ 1 \in 1..3 /\ 2 \in 1..3 /\ 3 \in 1..3
      /\ \A n \in 8..14 : n % 3 = (IF n \in {9, 12} THEN 0 ELSE IF n \in {10, 13} THEN 1 ELSE 2)
  OBVIOUS
<1>3. CASE step = 1
  BY <1>1, <1>2, <1>3
<1>4. CASE step = -1
  BY <1>1, <1>2, <1>4
<1> QED BY <1>1, <1>3, <1>4

\* Opening and moving keep the highlight of the menu on an item that can be chosen.
LEMMA MenuStep ==
  ASSUME MenuInv, Over!ContextMenu
  PROVE  MenuInv'
<1>1. CASE Over!OpenContextMenu
  <2>1. PICK items \in [1..3 -> Over!ItemKinds] :
          /\ Over!Runnable(items) # {}
          /\ menu' = [items |-> items, at |-> CHOOSE i \in Over!Runnable(items) :
                                               \A j \in Over!Runnable(items) : i <= j]
    BY <1>1 DEF Over!OpenContextMenu, Over!MenuStep
  <2>2. Len(items) = 3
    OBVIOUS
  <2>3. Over!Runnable(items) = {i \in 1..3 : items[i] = "enabled"}
    BY <2>2 DEF Over!Runnable
  <2>4. \E i \in Over!Runnable(items) : \A j \in Over!Runnable(items) : i <= j
    BY <2>1, <2>3, FirstIsThere
  <2>5. menu'.at \in Over!Runnable(items) /\ menu'.items = items
    BY <2>1, <2>4
  <2>6. menu'.at \in 1..3 /\ items[menu'.at] = "enabled"
    BY <2>3, <2>5
  <2> QED BY <2>1, <2>5, <2>6 DEF MenuInv, MenuIsOpen
<1>2. CASE Over!CloseContextMenu
  BY <1>2 DEF Over!CloseContextMenu, Over!MenuStep, Over!NoItems, MenuInv
<1>3. CASE Over!NavigateMenu
  <2> DEFINE At(step, n) == 1 + ((menu.at - 1 + n * step + 9) % 3)
             Stops(step) == {k \in 1..3 : /\ At(step, k) \in Over!Runnable(menu.items)
                                          /\ \A j \in 1..(k - 1) :
                                               At(step, j) \notin Over!Runnable(menu.items)}
  <2>1. MenuIsOpen
    BY <1>3 DEF Over!NavigateMenu, Over!NoItems, MenuInv
  <2>2. PICK step \in {-1, 1} :
          menu' = [menu EXCEPT !.at = At(step, CHOOSE k \in 1..3 :
                     /\ At(step, k) \in Over!Runnable(menu.items)
                     /\ \A j \in 1..(k - 1) : At(step, j) \notin Over!Runnable(menu.items))]
    BY <1>3 DEF Over!NavigateMenu, Over!MenuStep
  <2>3. Len(menu.items) = 3 /\ menu.at \in 1..3
    BY <2>1 DEF MenuIsOpen
  <2>4. Over!Runnable(menu.items) = {i \in 1..3 : menu.items[i] = "enabled"}
    BY <2>3 DEF Over!Runnable
  <2>5. PICK i \in 1..3 : i \in Over!Runnable(menu.items)
    BY <2>1, <2>4 DEF MenuIsOpen
  <2>6. \E k \in 1..3 : At(step, k) \in Over!Runnable(menu.items)
    BY <2>3, <2>5, GoingRoundMeetsAll
  <2> HIDE DEF At
  <2> DEFINE Fits == {k \in 1..3 : At(step, k) \in Over!Runnable(menu.items)}
  <2>7. PICK k \in Fits : \A m \in Fits : k <= m
    BY <2>6, FirstIsThere
  <2>8. /\ At(step, k) \in Over!Runnable(menu.items)
        /\ \A j \in 1..(k - 1) : At(step, j) \notin Over!Runnable(menu.items)
    BY <2>7
  <2>9. PICK n \in 1..3 : /\ menu' = [menu EXCEPT !.at = At(step, n)]
                          /\ At(step, n) \in Over!Runnable(menu.items)
    BY <2>2, <2>7, <2>8
  <2>10. At(step, n) \in 1..3 /\ menu.items[At(step, n)] = "enabled"
    BY <2>4, <2>9
  <2>11. menu'.items = menu.items /\ menu'.at = At(step, n)
    BY <2>1, <2>9
  <2> QED BY <2>1, <2>10, <2>11 DEF MenuInv, MenuIsOpen
<1>4. CASE Over!HoverItem
  <2>1. PICK i \in 1..Len(menu.items) :
          menu.items[i] # "separator" /\ menu' = [menu EXCEPT !.at = i]
    BY <1>4 DEF Over!HoverItem, Over!MenuStep
  <2>2. MenuIsOpen /\ Len(menu.items) = 3
    BY <2>1 DEF MenuInv, MenuIsOpen
  <2> QED BY <2>1, <2>2 DEF MenuInv, MenuIsOpen
<1> QED BY <1>1, <1>2, <1>3, <1>4 DEF Over!ContextMenu

\* A toast without a cooldown is pushed only if there is none of its key: the
\* first of them would hold it back.
LEMMA PushIsHeldBack ==
  ASSUME toasts \in Seq(ToastType), NEW key, Over!PushToast(key, FALSE)
  PROVE  \A i \in 1..Len(toasts) : toasts[i].key # key
<1> DEFINE same == {i \in 1..Len(toasts) : toasts[i].key = key}
<1> SUFFICES ASSUME same # {}
             PROVE  FALSE
  OBVIOUS
<1>1. same \subseteq Nat
  OBVIOUS
<1> HIDE DEF same
<1>2. PICK i \in same : \A j \in same : i <= j
  BY <1>1, FirstIsThere
<1> QED BY <1>2 DEF Over!PushToast, same

\* Pushing, dismissing and the ends of cooldowns never show one key twice.
LEMMA ToastsStep ==
  ASSUME ToastsInv, Over!Toasts
  PROVE  ToastsInv'
<1> DEFINE Held(list) == list \in Seq(ToastType) /\
             \A i, j \in 1..Len(list) : i < j /\ list[i].key = list[j].key => list[j].cooldown
<1>1. Held(toasts)
  BY DEF ToastsInv, Over!ToastsAreDistinct
<1> SUFFICES Held(toasts')
  BY DEF ToastsInv, Over!ToastsAreDistinct
<1>2. ASSUME NEW key \in Topics, NEW cooldown \in BOOLEAN, Over!PushToast(key, cooldown)
      PROVE  Held(toasts')
  <2> DEFINE new == [key |-> key, cooldown |-> cooldown, fresh |-> TRUE]
  <2>1. toasts' = Append(toasts, new) /\ new \in ToastType
    BY <1>2 DEF Over!PushToast, Over!ToastStep, ToastType
  <2>2. new.key = key /\ new.cooldown = cooldown
    OBVIOUS
  <2>3. cooldown \/ \A i \in 1..Len(toasts) : toasts[i].key # key
    BY <1>1, <1>2, PushIsHeldBack
  <2> HIDE DEF new
  <2>4. /\ toasts' \in Seq(ToastType) /\ Len(toasts') = Len(toasts) + 1
        /\ \A i \in 1..Len(toasts) : toasts'[i] = toasts[i]
        /\ toasts'[Len(toasts) + 1] = new
    BY <1>1, <2>1
  <2>5. ASSUME NEW i \in 1..Len(toasts'), NEW j \in 1..Len(toasts'), i < j,
               toasts'[i].key = toasts'[j].key
        PROVE  toasts'[j].cooldown
    <3>1. CASE j = Len(toasts) + 1
      <4>1. i \in 1..Len(toasts) /\ toasts'[i] = toasts[i] /\ toasts'[j] = new
        BY <1>1, <2>4, <2>5, <3>1
      <4> QED BY <2>2, <2>3, <2>5, <4>1
    <3>2. CASE j # Len(toasts) + 1
      <4>1. i \in 1..Len(toasts) /\ j \in 1..Len(toasts)
        BY <1>1, <2>4, <2>5, <3>2
      <4> QED BY <1>1, <2>4, <2>5, <4>1
    <3> QED BY <3>1, <3>2
  <2> QED BY <2>4, <2>5
<1>3. ASSUME NEW i \in 1..Len(toasts), Over!CooldownPasses(i)
      PROVE  Held(toasts')
  <2>1. toasts' = [toasts EXCEPT ![i].fresh = FALSE]
    BY <1>3 DEF Over!CooldownPasses, Over!ToastStep
  <2>2. \A k \in 1..Len(toasts) : toasts[k] \in ToastType
    BY <1>1
  <2>3. /\ toasts' \in Seq(ToastType) /\ Len(toasts') = Len(toasts)
        /\ \A k \in 1..Len(toasts) : toasts'[k].key = toasts[k].key
                                     /\ toasts'[k].cooldown = toasts[k].cooldown
    <3> DEFINE old == toasts[i]
               new == [old EXCEPT !.fresh = FALSE]
    <3>1. old \in ToastType
      BY <2>2
    <3>2. new \in ToastType /\ new.key = old.key /\ new.cooldown = old.cooldown
      <4> HIDE DEF old
      <4> QED BY <3>1 DEF ToastType
    <3>3. toasts' = [toasts EXCEPT ![i] = new]
      BY <2>1
    <3> HIDE DEF new
    <3>4. /\ toasts' \in Seq(ToastType) /\ Len(toasts') = Len(toasts)
          /\ \A k \in 1..Len(toasts) : toasts'[k] = IF k = i THEN new ELSE toasts[k]
      BY <1>1, <3>2, <3>3
    <3> QED BY <3>2, <3>4
  <2> QED BY <1>1, <2>3
<1>4. ASSUME NEW i \in 1..Len(toasts), Over!RemoveToast(i)
      PROVE  Held(toasts')
  <2>1. toasts' = SubSeq(toasts, 1, i - 1) \o SubSeq(toasts, i + 1, Len(toasts))
    BY <1>4 DEF Over!RemoveToast, Over!ToastStep, Over!RemoveAt
  <2>2. /\ toasts' \in Seq(ToastType) /\ Len(toasts') = Len(toasts) - 1
        /\ \A k \in 1..Len(toasts') : toasts'[k] = toasts[IF k < i THEN k ELSE k + 1]
    <3> DEFINE front == SubSeq(toasts, 1, i - 1)
               back == SubSeq(toasts, i + 1, Len(toasts))
    <3>1. \A k \in 1..Len(toasts) : toasts[k] \in ToastType
      BY <1>1
    <3>2. /\ front \in Seq(ToastType) /\ Len(front) = i - 1
          /\ \A k \in 1..(i - 1) : front[k] = toasts[k]
      BY <1>1, <3>1
    <3>3. /\ back \in Seq(ToastType) /\ Len(back) = Len(toasts) - i
          /\ \A k \in 1..(Len(toasts) - i) : back[k] = toasts[i + k]
      BY <1>1, <3>1
    <3> HIDE DEF front, back
    <3>4. /\ front \o back \in Seq(ToastType) /\ Len(front \o back) = Len(toasts) - 1
          /\ \A k \in 1..(Len(toasts) - 1) :
               (front \o back)[k] = IF k <= i - 1 THEN front[k] ELSE back[k - (i - 1)]
      <4>1. /\ front \o back \in Seq(ToastType)
            /\ Len(front \o back) = Len(front) + Len(back)
            /\ \A k \in 1..Len(front) + Len(back) :
                 (front \o back)[k] = IF k <= Len(front) THEN front[k] ELSE back[k - Len(front)]
        BY <3>2, <3>3, ConcatProperties
      <4>2. Len(front) + Len(back) = Len(toasts) - 1
        BY <1>1, <3>2, <3>3
      <4> HIDE DEF ToastType
      <4> QED BY <4>1, <4>2, <3>2
    <3>5. toasts' = front \o back
      BY <2>1 DEF front, back
    <3>6. ASSUME NEW k \in 1..Len(toasts')
          PROVE  toasts'[k] = toasts[IF k < i THEN k ELSE k + 1]
      <4>1. CASE k < i
        BY <1>1, <3>2, <3>4, <3>5, <3>6, <4>1
      <4>2. CASE k >= i
        <5>1. k - (i - 1) \in 1..(Len(toasts) - i) /\ i + (k - (i - 1)) = k + 1
          BY <1>1, <3>4, <3>5, <3>6, <4>2
        <5> QED BY <1>1, <3>3, <3>4, <3>5, <3>6, <4>2, <5>1
      <4> QED BY <4>1, <4>2
    <3> QED BY <3>4, <3>5, <3>6
  <2> DEFINE Old(k) == IF k < i THEN k ELSE k + 1
  <2>3. /\ \A k \in 1..Len(toasts') : Old(k) \in 1..Len(toasts)
        /\ \A j, k \in 1..Len(toasts') : j < k => Old(j) < Old(k)
    BY <1>1, <2>2
  <2>4. \A k \in 1..Len(toasts') : toasts'[k] = toasts[Old(k)]
    BY <2>2
  <2> HIDE DEF Old
  <2> QED BY <1>1, <2>2, <2>3, <2>4
<1> QED BY <1>2, <1>3, <1>4 DEF Over!Toasts

\* Nothing is open, recent or shown at the start.
LEMMA OverStart == Over!OverlaysInit => OverInv
<1> SUFFICES ASSUME Over!OverlaysInit
             PROVE  OverInv
  OBVIOUS
<1> USE DEF Over!OverlaysInit
<1>1. SwitcherInv
  <2>1. switcher.there \cap switcher.match = {} /\ switcher.there \subseteq Entries
    OBVIOUS
  <2>2. Over!Filtered(switcher) = 0
    BY <2>1, FS_EmptySet DEF Over!Filtered, Over!Cardinality, Cardinality
  <2> QED BY <2>2 DEF SwitcherInv, Over!SelectionIsListed
<1>2. RecentsInv
  BY WindowAssumption DEF RecentsInv, Over!RecentsAreDistinct, Over!IsInjective
<1>3. MenuInv
  BY DEF MenuInv, Over!NoItems
<1>4. ToastsInv
  BY DEF ToastsInv, Over!ToastsAreDistinct
<1> QED BY <1>1, <1>2, <1>3, <1>4 DEF OverInv

\* A step of one overlay keeps the invariants of all.
LEMMA OverStep ==
  OverInv /\ [Over!OverlaysNext]_Over!overlayVars => OverInv'
<1> SUFFICES ASSUME OverInv, [Over!OverlaysNext]_Over!overlayVars
             PROVE  OverInv'
  OBVIOUS
<1> USE DEF OverInv
\* What keeps its variables keeps its invariant.
<1>1. UNCHANGED switcher => SwitcherInv'
  BY DEF SwitcherInv, Over!SelectionIsListed, Over!Filtered
<1>2. UNCHANGED <<palette, started, recents>> => RecentsInv'
  BY DEF RecentsInv, Over!RecentsAreDistinct, Over!IsInjective
<1>3. UNCHANGED menu => MenuInv'
  BY DEF MenuInv, MenuIsOpen, Over!Runnable
<1>4. UNCHANGED toasts => ToastsInv'
  BY DEF ToastsInv, Over!ToastsAreDistinct
<1>5. CASE Over!QuickOpen
  <2>1. UNCHANGED <<palette, started, recents, menu, toasts>>
    BY <1>5 DEF Over!QuickOpen, Over!OpenQuickOpen, Over!CloseQuickOpen, Over!EntriesChange,
       Over!SearchEntries, Over!NavigateEntries, Over!HoverEntry, Over!OpenSelectedItem,
       Over!SwitcherStep
  <2> QED BY <1>2, <1>3, <1>4, <1>5, <2>1, SwitcherStep
<1>6. CASE Over!Palette
  <2>1. UNCHANGED <<switcher, menu, toasts>>
    BY <1>6 DEF Over!Palette, Over!OpenCommandPalette, Over!CloseCommandPalette,
       Over!AvailabilityChanges, Over!SearchCommands, Over!SelectCommand, Over!RunCommand,
       Over!GlobalShortcuts, Over!ExecuteCommand, Over!CommandRan, Over!CommandThrew,
       Over!PaletteStep
  <2> QED BY <1>1, <1>3, <1>4, <1>6, <2>1, PaletteStep
<1>7. CASE Over!ContextMenu
  <2>1. UNCHANGED <<switcher, palette, started, recents, toasts>>
    BY <1>7 DEF Over!ContextMenu, Over!OpenContextMenu, Over!CloseContextMenu,
       Over!NavigateMenu, Over!HoverItem, Over!MenuStep
  <2> QED BY <1>1, <1>2, <1>4, <1>7, <2>1, MenuStep
<1>8. CASE Over!Toasts
  <2>1. UNCHANGED <<switcher, palette, started, recents, menu>>
    BY <1>8 DEF Over!Toasts, Over!PushToast, Over!CooldownPasses, Over!RemoveToast,
       Over!ToastStep
  <2> QED BY <1>1, <1>2, <1>3, <1>8, <2>1, ToastsStep
<1>9. CASE UNCHANGED Over!overlayVars
  BY <1>1, <1>2, <1>3, <1>4, <1>9 DEF Over!overlayVars
<1> QED BY <1>5, <1>6, <1>7, <1>8, <1>9 DEF Over!OverlaysNext

\* A step of the window is one of the overlays or leaves them alone.
LEMMA OverOfWindow == [WindowNext]_windowParts => [Over!OverlaysNext]_Over!overlayVars
  BY DEF WindowNext, OthersStay, windowParts, overlayVars, Over!overlayVars, overlays,
     Over!OverlaysNext

\* What the overlays select and list fits what there is, for any number of
\* entries, commands, toasts and recent commands, whatever comes and goes under
\* an open switcher and however late the commands end.
THEOREM OverlaysAlwaysFit == WindowSpec => []OverlaysFit
<1>1. WindowInit => OverInv
  BY OverStart DEF WindowInit
<1>2. OverInv /\ [WindowNext]_windowParts => OverInv'
  BY OverStep, OverOfWindow
<1>3. OverInv => OverlaysFit
  <2> SUFFICES ASSUME OverInv
               PROVE  Over!OverlaysFit
    BY DEF OverlaysFit
  <2>1. Over!MenuSelects
    <3>1. MenuIsOpen => menu.items # <<>>
      <4> SUFFICES ASSUME MenuIsOpen, menu.items = <<>>
                   PROVE  FALSE
        OBVIOUS
      <4>1. Len(menu.items) = 3 /\ Len(menu.items) = 0
        BY DEF MenuIsOpen
      <4> QED BY <4>1
    <3> QED BY <3>1 DEF OverInv, MenuInv, MenuIsOpen, Over!MenuSelects, Over!NoItems
  <2> QED BY <2>1 DEF Over!OverlaysFit, OverInv, SwitcherInv, RecentsInv, ToastsInv
<1> QED BY <1>1, <1>2, <1>3, PTL DEF WindowSpec

---------------------------------------------------------------------------
(* The remote editor. What is added to the property: while a save of a     *)
(* file is under way, the file has the content that was handed over,       *)
(* unless it was overtaken.                                                *)

FileType == [open : BOOLEAN, content : Nat, dirty : BOOLEAN, saving : BOOLEAN, error : BOOLEAN]
EditorType ==
    /\ files \in [Files -> FileType] /\ activeFile \in Files \cup {NoFile}
    /\ uploads \in [Files -> Int] /\ lastContent \in [Files -> Nat] /\ edits \in Nat
SavingWhatIsShown ==
    \A f \in Files : files[f].open /\ Editor!Saving(f) /\ f \notin overtaken =>
                       files[f].content = uploads[f]
EditorInv == EditorType /\ SavingWhatIsShown /\ Editor!SavedMeansHandedOver

\* No file is open at the start.
LEMMA EditorStart == Editor!RemoteEditorInit => EditorInv
  BY DEF Editor!RemoteEditorInit, Editor!Closed, Editor!NoUpload, EditorInv, EditorType, FileType,
         SavingWhatIsShown, Editor!Saving, Editor!SavedMeansHandedOver

\* What a patch does: to an open file what it says, to a closed one nothing.
LEMMA PatchParts ==
  ASSUME files \in [Files -> FileType], NEW f \in Files, NEW changed \in FileType,
         changed.open = files[f].open, Editor!Patch(f, changed)
  PROVE  /\ files' \in [Files -> FileType]
         /\ \A g \in Files : files'[g].open = files[g].open
         /\ \A g \in Files \ {f} : files'[g] = files[g]
         /\ files[f].open => files'[f] = changed
  BY DEF Editor!Patch

\* The step of one file: the others are as they were, and for this one it is
\* shown what the invariant asks.
LEMMA OneFile ==
  ASSUME EditorInv, NEW f \in Files, EditorType',
         \A g \in Files \ {f} : /\ files'[g] = files[g] /\ uploads'[g] = uploads[g]
                                /\ lastContent'[g] = lastContent[g]
                                /\ (g \in overtaken <=> g \in overtaken'),
         files'[f].open /\ f \notin overtaken' =>
           /\ uploads'[f] >= 0 => files'[f].content = uploads'[f]
           /\ ~files'[f].dirty => files'[f].content = lastContent'[f],
         activeFile' # NoFile => files'[activeFile'].open
  PROVE  EditorInv'
  BY DEF EditorInv, SavingWhatIsShown, Editor!Saving, Editor!SavedMeansHandedOver

\* Edits, saves, answers that overtake each other and closing keep the invariant.
LEMMA EditorStep == EditorInv /\ [Editor!RemoteEditorNext]_Editor!editorVars => EditorInv'
<1> SUFFICES ASSUME EditorInv, [Editor!RemoteEditorNext]_Editor!editorVars
             PROVE  EditorInv'
  OBVIOUS
<1>1. EditorType /\ (activeFile # NoFile => activeFile \in Files /\ files[activeFile].open)
  BY DEF EditorInv, EditorType, Editor!SavedMeansHandedOver
<1>2. \A f \in Files : files[f] \in FileType /\ files[f].open \in BOOLEAN
  BY <1>1 DEF EditorType, FileType
<1>3. \A f \in Files : files[f].open /\ f \notin overtaken =>
        /\ uploads[f] >= 0 => files[f].content = uploads[f]
        /\ ~files[f].dirty => files[f].content = lastContent[f]
  BY DEF EditorInv, SavingWhatIsShown, Editor!Saving, Editor!SavedMeansHandedOver
\* Steps that change no file, no upload and no mark
<1>4. ASSUME UNCHANGED <<files, uploads, lastContent, overtaken, edits>>,
             activeFile' \in Files \cup {NoFile}, activeFile' # NoFile => files[activeFile'].open
      PROVE  EditorInv'
  BY <1>4 DEF EditorInv, EditorType, SavingWhatIsShown, Editor!Saving,
              Editor!SavedMeansHandedOver
<1>5. CASE Editor!Edit
  <2> DEFINE f == activeFile
             new == [files[f] EXCEPT !.content = edits', !.dirty = TRUE, !.error = FALSE]
  <2>1. f \in Files /\ files[f].open /\ edits' = edits + 1 /\ Editor!Patch(f, new)
          /\ UNCHANGED <<activeFile, uploads, lastContent>>
          /\ overtaken' = IF uploads[f] >= 0 THEN overtaken \cup {f} ELSE overtaken
    BY <1>1, <1>5 DEF Editor!Edit, Editor!Overtake, Editor!Saving
  <2>2. new \in FileType /\ new.open = files[f].open /\ new.dirty
    <3>1. edits' \in Nat /\ files[f] \in FileType
      BY <1>1, <1>2, <2>1 DEF EditorType
    <3> HIDE DEF f
    <3> QED BY <3>1 DEF FileType
  <2> HIDE DEF new, f
  <2>3. /\ files' \in [Files -> FileType] /\ \A g \in Files : files'[g].open = files[g].open
        /\ \A g \in Files \ {f} : files'[g] = files[g]
        /\ files'[f] = new
    BY <1>1, <2>1, <2>2, PatchParts DEF EditorType
  <2>4. EditorType'
    BY <1>1, <2>1, <2>3 DEF EditorType
  <2>5. files'[f].dirty /\ (f \notin overtaken' => ~(uploads'[f] >= 0))
    BY <2>1, <2>2, <2>3
  <2> QED BY <1>1, <2>1, <2>3, <2>4, <2>5, OneFile DEF f
<1>6. CASE Editor!Save
  <2> DEFINE f == activeFile
             new == [files[f] EXCEPT !.saving = TRUE, !.error = FALSE]
             done == [files[f] EXCEPT !.dirty = FALSE, !.saving = FALSE, !.error = FALSE]
  <2>1. f \in Files /\ files[f].open /\ files[f].dirty
          /\ UNCHANGED <<activeFile, lastContent, edits>>
    BY <1>1, <1>6 DEF Editor!Save
  <2>2. /\ new \in FileType /\ new.open = files[f].open /\ new.dirty = files[f].dirty
        /\ new.content = files[f].content
        /\ done \in FileType /\ done.open = files[f].open
    BY <1>2, <2>1 DEF FileType
  <2>3. CASE uploads[f] = Editor!NoUpload
    <3>1. /\ Editor!Patch(f, new) /\ uploads' = [uploads EXCEPT ![f] = files[f].content]
          /\ overtaken' = overtaken \ {f}
      BY <1>6, <2>3 DEF Editor!Save
    <3>2. files[f].content \in Nat
      BY <1>2, <2>1 DEF FileType
    <3> HIDE DEF new, f
    <3>3. /\ files' \in [Files -> FileType] /\ \A g \in Files : files'[g].open = files[g].open
          /\ \A g \in Files \ {f} : files'[g] = files[g]
          /\ files'[f] = new
      BY <1>1, <2>1, <2>2, <3>1, PatchParts DEF EditorType
    <3>4. uploads' \in [Files -> Int] /\ uploads'[f] = files[f].content
      BY <1>1, <2>1, <3>1, <3>2 DEF EditorType
    <3>6. EditorType'
      BY <1>1, <2>1, <3>3, <3>4 DEF EditorType
    <3>5. \A g \in Files \ {f} : uploads'[g] = uploads[g]
      BY <1>1, <3>1 DEF EditorType
    <3> QED BY <1>1, <2>1, <2>2, <3>1, <3>3, <3>4, <3>5, <3>6, OneFile DEF f
  <2>4. CASE uploads[f] # Editor!NoUpload
    <3>1. Editor!Patch(f, done) /\ overtaken' = overtaken \cup {f} /\ UNCHANGED uploads
      BY <1>6, <2>4 DEF Editor!Save
    <3> HIDE DEF done, f
    <3>2. /\ files' \in [Files -> FileType] /\ \A g \in Files : files'[g].open = files[g].open
          /\ \A g \in Files \ {f} : files'[g] = files[g]
      BY <1>1, <2>1, <2>2, <3>1, PatchParts DEF EditorType
    <3>3. EditorType'
      BY <1>1, <2>1, <3>1, <3>2 DEF EditorType
    <3> QED BY <1>1, <2>1, <3>1, <3>2, <3>3, OneFile DEF f
  <2> QED BY <2>3, <2>4
<1>7. CASE Editor!SaveWithoutSession
  <2> DEFINE f == activeFile
             new == [files[f] EXCEPT !.saving = FALSE, !.error = TRUE]
  <2>1. f \in Files /\ files[f].open /\ files[f].dirty /\ Editor!Patch(f, new)
          /\ UNCHANGED <<activeFile, uploads, edits, lastContent, overtaken>>
    BY <1>1, <1>7 DEF Editor!SaveWithoutSession
  <2>2. new \in FileType /\ new.open = files[f].open /\ new.content = files[f].content
          /\ new.dirty = files[f].dirty
    BY <1>2, <2>1 DEF FileType
  <2> HIDE DEF new, f
  <2>3. /\ files' \in [Files -> FileType] /\ \A g \in Files : files'[g].open = files[g].open
        /\ \A g \in Files \ {f} : files'[g] = files[g]
        /\ files'[f] = new
    BY <1>1, <2>1, <2>2, PatchParts DEF EditorType
  <2>4. EditorType'
    BY <1>1, <2>1, <2>3 DEF EditorType
  <2> QED BY <1>1, <1>3, <2>1, <2>2, <2>3, <2>4, OneFile DEF f
<1>8. CASE Editor!CloseAllFiles
  BY <1>1, <1>8 DEF Editor!CloseAllFiles, Editor!Closed, EditorInv, EditorType, FileType,
     SavingWhatIsShown, Editor!SavedMeansHandedOver
<1>9. ASSUME NEW f \in Files,
             Editor!OpenFile(f) \/ Editor!ReadFailed(f) \/ Editor!ActivateFile(f)
      PROVE  EditorInv'
  BY <1>1, <1>4, <1>9 DEF Editor!OpenFile, Editor!ReadFailed, Editor!ActivateFile, EditorType
<1>10. ASSUME NEW f \in Files, Editor!FileRead(f)
       PROVE  EditorInv'
  <2>1. PICK content \in 0..edits :
          /\ files' = [files EXCEPT ![f] = [@ EXCEPT !.open = TRUE, !.content = content]]
          /\ lastContent' = [lastContent EXCEPT ![f] = content]
    BY <1>10 DEF Editor!FileRead
  <2> DEFINE new == [files[f] EXCEPT !.open = TRUE, !.content = content]
  <2>2. new \in FileType /\ new.open /\ new.content = content /\ content \in Nat
    <3>1. content \in Nat /\ files[f] \in FileType
      BY <1>1, <1>2 DEF EditorType
    <3> QED BY <3>1 DEF FileType
  <2>3. files' = [files EXCEPT ![f] = new]
    BY <2>1
  <2> HIDE DEF new
  <2>4. activeFile' = f /\ UNCHANGED <<uploads, edits>>
          /\ overtaken' = IF uploads[f] >= 0 THEN overtaken \cup {f} ELSE overtaken
    BY <1>10 DEF Editor!FileRead, Editor!Overtake, Editor!Saving
  <2>5. EditorType' /\ files'[f] = new /\ lastContent'[f] = content
    BY <1>1, <2>1, <2>2, <2>3, <2>4 DEF EditorType
  <2>6. \A g \in Files \ {f} : files'[g] = files[g] /\ lastContent'[g] = lastContent[g]
    BY <1>1, <2>1, <2>3 DEF EditorType
  <2> QED BY <2>2, <2>4, <2>5, <2>6, OneFile
<1>11. ASSUME NEW f \in Files, Editor!SaveAccepted(f)
       PROVE  EditorInv'
  <2> DEFINE new == [files[f] EXCEPT !.dirty = FALSE, !.saving = FALSE, !.error = FALSE]
  <2>1. /\ uploads[f] >= 0 /\ uploads' = [uploads EXCEPT ![f] = Editor!NoUpload]
        /\ lastContent' = [lastContent EXCEPT ![f] = uploads[f]]
        /\ Editor!Patch(f, new) /\ UNCHANGED <<activeFile, edits, overtaken>>
    BY <1>11 DEF Editor!SaveAccepted, Editor!Saving
  <2>2. new \in FileType /\ new.open = files[f].open /\ new.content = files[f].content
    BY <1>2 DEF FileType
  <2> HIDE DEF new
  <2>3. /\ files' \in [Files -> FileType] /\ \A g \in Files : files'[g].open = files[g].open
        /\ \A g \in Files \ {f} : files'[g] = files[g]
        /\ files[f].open => files'[f] = new
    BY <1>1, <2>1, <2>2, PatchParts DEF EditorType
  <2>4. uploads[f] \in Nat
    BY <1>1, <2>1 DEF EditorType
  <2>5. EditorType' /\ uploads'[f] = Editor!NoUpload /\ lastContent'[f] = uploads[f]
    <3>1. uploads' \in [Files -> Int] /\ uploads'[f] = Editor!NoUpload
      BY <1>1, <2>1 DEF EditorType, Editor!NoUpload
    <3>2. lastContent' \in [Files -> Nat] /\ lastContent'[f] = uploads[f]
      BY <1>1, <2>1, <2>4 DEF EditorType
    <3> QED BY <1>1, <2>1, <2>3, <3>1, <3>2 DEF EditorType
  <2>6. \A g \in Files \ {f} : uploads'[g] = uploads[g] /\ lastContent'[g] = lastContent[g]
    BY <1>1, <2>1 DEF EditorType
  <2>7. ~(uploads'[f] >= 0)
    BY <2>5 DEF Editor!NoUpload
  <2> QED BY <1>1, <1>3, <2>1, <2>2, <2>3, <2>5, <2>6, <2>7, OneFile
<1>12. ASSUME NEW f \in Files, Editor!SaveRefused(f)
       PROVE  EditorInv'
  <2> DEFINE new == [files[f] EXCEPT !.saving = FALSE, !.error = TRUE]
  <2>1. /\ uploads' = [uploads EXCEPT ![f] = Editor!NoUpload]
        /\ Editor!Patch(f, new) /\ UNCHANGED <<activeFile, edits, lastContent, overtaken>>
    BY <1>12 DEF Editor!SaveRefused
  <2>2. new \in FileType /\ new.open = files[f].open /\ new.content = files[f].content
          /\ new.dirty = files[f].dirty
    BY <1>2 DEF FileType
  <2> HIDE DEF new
  <2>3. /\ files' \in [Files -> FileType] /\ \A g \in Files : files'[g].open = files[g].open
        /\ \A g \in Files \ {f} : files'[g] = files[g]
        /\ files[f].open => files'[f] = new
    BY <1>1, <2>1, <2>2, PatchParts DEF EditorType
  <2>4. EditorType' /\ ~(uploads'[f] >= 0)
    <3>1. uploads' \in [Files -> Int] /\ ~(uploads'[f] >= 0)
      BY <1>1, <2>1 DEF EditorType, Editor!NoUpload
    <3> QED BY <1>1, <2>1, <2>3, <3>1 DEF EditorType
  <2>5. \A g \in Files \ {f} : uploads'[g] = uploads[g]
    BY <1>1, <2>1 DEF EditorType
  <2> QED BY <1>1, <1>3, <2>1, <2>2, <2>3, <2>4, <2>5, OneFile
<1>13. ASSUME NEW f \in Files, Editor!UploadElsewhere(f)
       PROVE  EditorInv'
  <2>1. /\ uploads' = [uploads EXCEPT ![f] = IF uploads[f] = Editor!NoUpload
                                             THEN Editor!OtherUpload ELSE Editor!NoUpload]
        /\ UNCHANGED <<files, activeFile, edits, lastContent, overtaken>>
    BY <1>13 DEF Editor!UploadElsewhere
  <2>2. EditorType' /\ ~(uploads'[f] >= 0) /\ \A g \in Files \ {f} : uploads'[g] = uploads[g]
    BY <1>1, <2>1 DEF EditorType, Editor!NoUpload, Editor!OtherUpload
  <2> QED BY <1>1, <1>3, <2>1, <2>2, OneFile
<1>14. ASSUME NEW f \in Files, Editor!CloseFile(f)
       PROVE  EditorInv'
  <2>1. /\ files' = [files EXCEPT ![f] = Editor!Closed] /\ overtaken' = overtaken \ {f}
        /\ UNCHANGED <<uploads, edits, lastContent>>
    BY <1>14 DEF Editor!CloseFile
  <2>2. files' \in [Files -> FileType] /\ ~files'[f].open
          /\ \A g \in Files \ {f} : files'[g] = files[g]
    BY <1>1, <2>1 DEF EditorType, FileType, Editor!Closed
  <2>3. activeFile' \in Files \cup {NoFile} /\ (activeFile' # NoFile => files'[activeFile'].open)
    <3>1. CASE activeFile # f
      BY <1>1, <1>14, <2>2, <3>1 DEF Editor!CloseFile, EditorType
    <3>2. CASE activeFile = f
      BY <1>14, <3>2 DEF Editor!CloseFile
    <3> QED BY <3>1, <3>2
  <2>4. EditorType'
    BY <1>1, <2>1, <2>2, <2>3 DEF EditorType
  <2> QED BY <2>1, <2>2, <2>3, <2>4, OneFile
<1>15. CASE UNCHANGED Editor!editorVars
  BY <1>1, <1>4, <1>15 DEF Editor!editorVars, EditorType
<1> QED BY <1>5, <1>6, <1>7, <1>8, <1>9, <1>10, <1>11, <1>12, <1>13, <1>14, <1>15
        DEF Editor!RemoteEditorNext

\* A step of the window is one of the editor or leaves it alone.
LEMMA EditorOfWindow == [WindowNext]_windowParts => [Editor!RemoteEditorNext]_Editor!editorVars
  BY DEF WindowNext, OthersStay, windowParts, editorVars, Editor!editorVars, overlays

\* A file without marks has the content that was last read from the backend or
\* handed over to it, however reads, saves, edits and closing overtake each
\* other, unless it was changed while its save was under way.
THEOREM SavedFilesWereHandedOver == WindowSpec => []SavedMeansHandedOver
<1>1. WindowInit => EditorInv
  BY EditorStart DEF WindowInit
<1>2. EditorInv /\ [WindowNext]_windowParts => EditorInv'
  BY EditorStep, EditorOfWindow
<1>3. EditorInv => SavedMeansHandedOver
  BY DEF EditorInv, SavedMeansHandedOver
<1> QED BY <1>1, <1>2, <1>3, PTL DEF WindowSpec

---------------------------------------------------------------------------
(* The tree of remote directories. The property is inductive once it is    *)
(* known what a tree, a load and what is kept for a session are made of.   *)

TreeState == [expanded : SUBSET Dirs, cached : SUBSET Dirs, error : Dirs \cup {Tree!NoError}]
TreeType ==
    /\ trees \in Seq(TreeState)
    /\ keptTree \in [expanded : SUBSET Dirs, cached : SUBSET Dirs]
    /\ loads \subseteq [tree : 1..Len(trees), path : Dirs, silent : BOOLEAN]
    /\ excused \in Seq(SUBSET Dirs) /\ Len(excused) = Len(trees)
TreeInv == TreeType /\ Tree!OpenDirectoriesAreLoaded

\* No directory is expanded at the start.
LEMMA TreeStart == Tree!SftpTreeInit => TreeInv
  BY DEF Tree!SftpTreeInit, TreeInv, TreeType, Tree!OpenDirectoriesAreLoaded

\* What is kept of a tree
LEMMA KeptParts ==
  ASSUME NEW tree \in TreeState
  PROVE  Tree!Kept(tree) \in [expanded : SUBSET Dirs, cached : SUBSET Dirs]
  BY DEF Tree!Kept, TreeState

\* A step of one component: the trees and loads of the others are as they were.
LEMMA OneTree ==
  ASSUME TreeInv, NEW i \in 1..Len(trees), NEW tree \in TreeState, NEW excuse \in SUBSET Dirs,
         trees' = [trees EXCEPT ![i] = tree],
         keptTree' \in [expanded : SUBSET Dirs, cached : SUBSET Dirs],
         loads' \subseteq [tree : 1..Len(trees), path : Dirs, silent : BOOLEAN],
         excused' = [excused EXCEPT ![i] = excuse],
         \A load \in loads : load.tree # i => load \in loads',
         tree.expanded \subseteq tree.cached \cup Tree!Loading(i)' \cup excuse
  PROVE  TreeInv'
<1>1. TreeType
  BY DEF TreeInv
<1>2. /\ trees' \in Seq(TreeState) /\ Len(trees') = Len(trees)
      /\ \A j \in 1..Len(trees) : trees'[j] = IF j = i THEN tree ELSE trees[j]
  BY <1>1 DEF TreeType
<1>3. /\ excused' \in Seq(SUBSET Dirs) /\ Len(excused') = Len(excused)
      /\ \A j \in 1..Len(trees) : excused'[j] = IF j = i THEN excuse ELSE excused[j]
  BY <1>1 DEF TreeType
<1>4. TreeType'
  BY <1>1, <1>2, <1>3 DEF TreeType
<1>5. ASSUME NEW j \in 1..Len(trees)
      PROVE  trees'[j].expanded \subseteq trees'[j].cached \cup Tree!Loading(j)' \cup excused'[j]
  <2>1. CASE j = i
    BY <1>2, <1>3, <2>1
  <2>2. CASE j # i
    <3>1. trees[j].expanded \subseteq trees[j].cached \cup Tree!Loading(j) \cup excused[j]
      BY <1>1 DEF TreeInv, TreeType, Tree!OpenDirectoriesAreLoaded
    <3>2. Tree!Loading(j) \subseteq Tree!Loading(j)'
      BY <2>2 DEF Tree!Loading
    <3> QED BY <1>2, <1>3, <2>2, <3>1, <3>2
  <2> QED BY <2>1, <2>2
<1>6. DOMAIN trees' = 1..Len(trees)
  BY <1>2
<1> QED BY <1>4, <1>5, <1>6 DEF TreeInv, Tree!OpenDirectoriesAreLoaded

\* Asking for a listing: then the directory is being loaded.
LEMMA LoadParts ==
  ASSUME TreeInv, NEW i \in 1..Len(trees), NEW path \in Dirs, NEW silent \in BOOLEAN,
         Tree!Load(i, path, silent)
  PROVE  /\ loads' \subseteq [tree : 1..Len(trees), path : Dirs, silent : BOOLEAN]
         /\ loads \subseteq loads'
         /\ Tree!Loading(i) \cup {path} \subseteq Tree!Loading(i)'
<1>1. loads \subseteq [tree : 1..Len(trees), path : Dirs, silent : BOOLEAN]
  BY DEF TreeInv, TreeType
<1>2. CASE path \in Tree!Loading(i)
  <2>1. loads' = loads
    BY <1>2 DEF Tree!Load
  <2> QED BY <1>1, <1>2, <2>1 DEF Tree!Loading
<1>3. CASE path \notin Tree!Loading(i)
  <2> DEFINE new == [tree |-> i, path |-> path, silent |-> silent]
  <2>1. loads' = loads \cup {new}
    BY <1>3 DEF Tree!Load
  <2>2. new \in [tree : 1..Len(trees), path : Dirs, silent : BOOLEAN]
          /\ new.tree = i /\ new.path = path
    OBVIOUS
  <2> HIDE DEF new
  <2> QED BY <1>1, <2>1, <2>2 DEF Tree!Loading
<1> QED BY <1>2, <1>3

\* Expanding, answers of requests, and mounting again keep the invariant.
LEMMA TreeStep == TreeInv /\ [Tree!SftpTreeNext]_Tree!treeVars => TreeInv'
<1> SUFFICES ASSUME TreeInv, [Tree!SftpTreeNext]_Tree!treeVars
             PROVE  TreeInv'
  OBVIOUS
<1>1. TreeType
  BY DEF TreeInv
<1>2. /\ DOMAIN trees = 1..Len(trees) /\ Len(trees) \in Nat
      /\ \A i \in 1..Len(trees) :
           /\ trees[i] \in TreeState /\ excused[i] \in SUBSET Dirs
           /\ trees[i].expanded \in SUBSET Dirs /\ trees[i].cached \in SUBSET Dirs
           /\ trees[i].error \in Dirs \cup {Tree!NoError}
           /\ trees[i].expanded \subseteq trees[i].cached \cup Tree!Loading(i) \cup excused[i]
  <2>1. DOMAIN trees = 1..Len(trees) /\ Len(trees) \in Nat
    BY <1>1 DEF TreeType
  <2>2. \A i \in 1..Len(trees) : trees[i] \in TreeState /\ excused[i] \in SUBSET Dirs
    BY <1>1 DEF TreeType
  <2>3. \A i \in 1..Len(trees) :
           /\ trees[i].expanded \in SUBSET Dirs /\ trees[i].cached \in SUBSET Dirs
           /\ trees[i].error \in Dirs \cup {Tree!NoError}
    BY <2>2 DEF TreeState
  <2> QED BY <2>1, <2>2, <2>3 DEF TreeInv, Tree!OpenDirectoriesAreLoaded
<1>3. CASE Tree!Mount
  <2> DEFINE old == [expanded |-> keptTree.expanded, cached |-> keptTree.cached,
                     error |-> Tree!NoError]
             tree == Tree!WithItems(old)
  <2>1. /\ trees' = Append(trees, tree) /\ keptTree' = Tree!Kept(tree)
        /\ excused' = Append(excused, tree.expanded \ tree.cached)
        /\ UNCHANGED loads
    BY <1>3 DEF Tree!Mount
  <2>2. tree \in TreeState
    BY <1>1, WindowAssumption DEF TreeType, TreeState, Tree!WithItems
  <2>3. tree.expanded \ tree.cached \in SUBSET Dirs
    BY <2>2 DEF TreeState
  <2> HIDE DEF tree
  <2>4. /\ trees' \in Seq(TreeState) /\ Len(trees') = Len(trees) + 1
        /\ \A j \in 1..Len(trees) : trees'[j] = trees[j]
        /\ trees'[Len(trees) + 1] = tree
    BY <1>1, <2>1, <2>2 DEF TreeType
  <2>5. /\ excused' \in Seq(SUBSET Dirs) /\ Len(excused') = Len(trees) + 1
        /\ \A j \in 1..Len(trees) : excused'[j] = excused[j]
        /\ excused'[Len(trees) + 1] = tree.expanded \ tree.cached
    BY <1>1, <2>1, <2>3 DEF TreeType
  <2>6. TreeType'
    <3>1. keptTree' \in [expanded : SUBSET Dirs, cached : SUBSET Dirs]
      BY <2>1, <2>2, KeptParts
    <3>2. 1..Len(trees) \subseteq 1..Len(trees')
      BY <1>2, <2>4
    <3>3. loads' \subseteq [tree : 1..Len(trees'), path : Dirs, silent : BOOLEAN]
      BY <1>1, <2>1, <3>2 DEF TreeType
    <3> QED BY <2>4, <2>5, <3>1, <3>3 DEF TreeType
  <2>7. ASSUME NEW j \in 1..Len(trees')
        PROVE  trees'[j].expanded \subseteq trees'[j].cached \cup Tree!Loading(j)' \cup excused'[j]
    <3>1. CASE j = Len(trees) + 1
      BY <2>4, <2>5, <3>1
    <3>2. CASE j # Len(trees) + 1
      <4>1. j \in 1..Len(trees)
        BY <1>2, <2>4, <3>2
      <4>2. Tree!Loading(j)' = Tree!Loading(j)
        BY <2>1 DEF Tree!Loading
      <4> QED BY <1>2, <2>4, <2>5, <4>1, <4>2
    <3> QED BY <3>1, <3>2
  <2>8. DOMAIN trees' = 1..Len(trees')
    BY <2>4
  <2> QED BY <2>6, <2>7, <2>8 DEF TreeInv, Tree!OpenDirectoriesAreLoaded
<1>4. CASE Tree!Unmount
  BY <1>4 DEF Tree!Unmount, TreeInv, TreeType, Tree!OpenDirectoriesAreLoaded, Tree!Loading
<1>5. ASSUME NEW i \in 1..Len(trees), Tree!Retry(i)
      PROVE  TreeInv'
  <2> DEFINE d == trees[i].error
             tree == [trees[i] EXCEPT !.expanded = @ \cup {d}, !.error = Tree!NoError]
  <2>1. /\ trees' = [trees EXCEPT ![i] = tree] /\ keptTree' = Tree!Kept(tree)
        /\ Tree!Load(i, d, FALSE) /\ UNCHANGED excused /\ d # Tree!NoError
    BY <1>5 DEF Tree!Retry, Tree!Change
  <2>2. d \in Dirs
    BY <1>2, <2>1
  <2>3. tree \in TreeState /\ tree.expanded = trees[i].expanded \cup {d}
          /\ tree.cached = trees[i].cached
    BY <1>2, <2>2 DEF TreeState
  <2> HIDE DEF tree, d
  <2>4. /\ loads' \subseteq [tree : 1..Len(trees), path : Dirs, silent : BOOLEAN]
        /\ loads \subseteq loads' /\ Tree!Loading(i) \cup {d} \subseteq Tree!Loading(i)'
    BY <2>1, <2>2, LoadParts
  <2>5. excused' = [excused EXCEPT ![i] = excused[i]]
    BY <1>1, <2>1 DEF TreeType
  <2>6. tree.expanded \subseteq tree.cached \cup Tree!Loading(i)' \cup excused[i]
    BY <1>2, <2>3, <2>4
  <2>7. keptTree' \in [expanded : SUBSET Dirs, cached : SUBSET Dirs]
    BY <2>1, <2>3, KeptParts
  <2> QED BY <1>2, <2>1, <2>3, <2>4, <2>5, <2>6, <2>7, OneTree
<1>6. ASSUME NEW i \in 1..Len(trees), Tree!Dismiss(i)
      PROVE  TreeInv'
  <2> DEFINE tree == [trees[i] EXCEPT !.error = Tree!NoError]
  <2>1. trees' = [trees EXCEPT ![i] = tree] /\ UNCHANGED <<keptTree, loads, excused>>
    BY <1>6 DEF Tree!Dismiss
  <2>2. tree \in TreeState /\ tree.expanded = trees[i].expanded /\ tree.cached = trees[i].cached
    BY <1>2 DEF TreeState
  <2> HIDE DEF tree
  <2>3. excused' = [excused EXCEPT ![i] = excused[i]] /\ Tree!Loading(i)' = Tree!Loading(i)
    BY <1>1, <2>1 DEF TreeType, Tree!Loading
  <2>4. tree.expanded \subseteq tree.cached \cup Tree!Loading(i)' \cup excused[i]
    BY <1>2, <2>2, <2>3
  <2>5. /\ keptTree' \in [expanded : SUBSET Dirs, cached : SUBSET Dirs]
        /\ loads' \subseteq [tree : 1..Len(trees), path : Dirs, silent : BOOLEAN]
    BY <1>1, <2>1 DEF TreeType
  <2> QED BY <1>2, <2>1, <2>2, <2>3, <2>4, <2>5, OneTree
<1>7. ASSUME NEW i \in 1..Len(trees), NEW d \in Dirs, Tree!Collapse(i, d)
      PROVE  TreeInv'
  <2> DEFINE tree == [trees[i] EXCEPT !.expanded = @ \ {d}]
             excuse == excused[i] \ {d}
  <2>1. /\ trees' = [trees EXCEPT ![i] = tree] /\ keptTree' = Tree!Kept(tree)
        /\ excused' = [excused EXCEPT ![i] = excuse] /\ UNCHANGED loads
    BY <1>7 DEF Tree!Collapse, Tree!Change
  <2>2. /\ tree \in TreeState /\ tree.expanded = trees[i].expanded \ {d}
        /\ tree.cached = trees[i].cached /\ excuse \in SUBSET Dirs
    BY <1>2 DEF TreeState
  <2>3. Tree!Loading(i)' = Tree!Loading(i)
    BY <2>1 DEF Tree!Loading
  <2>4. tree.expanded \subseteq tree.cached \cup Tree!Loading(i)' \cup excuse
    BY <1>2, <2>2, <2>3
  <2> HIDE DEF tree, excuse
  <2>5. /\ keptTree' \in [expanded : SUBSET Dirs, cached : SUBSET Dirs]
        /\ loads' \subseteq [tree : 1..Len(trees), path : Dirs, silent : BOOLEAN]
    BY <1>1, <2>1, <2>2, KeptParts DEF TreeType
  <2> QED BY <1>2, <2>1, <2>2, <2>4, <2>5, OneTree
<1>8. ASSUME NEW i \in 1..Len(trees), NEW d \in Dirs, Tree!Expand(i, d)
      PROVE  TreeInv'
  <2>1. excused' = [excused EXCEPT ![i] = excused[i]]
    BY <1>1, <1>8 DEF Tree!Expand, TreeType
  <2>2. CASE d \in trees[i].cached
    <3> DEFINE tree == [trees[i] EXCEPT !.expanded = @ \cup {d}]
    <3>1. /\ trees' = [trees EXCEPT ![i] = tree] /\ keptTree' = Tree!Kept(tree)
          /\ UNCHANGED loads
      BY <1>8, <2>2 DEF Tree!Expand, Tree!Change
    <3>2. /\ tree \in TreeState /\ tree.expanded = trees[i].expanded \cup {d}
          /\ tree.cached = trees[i].cached
      BY <1>2 DEF TreeState
    <3>3. Tree!Loading(i)' = Tree!Loading(i)
      BY <3>1 DEF Tree!Loading
    <3>4. tree.expanded \subseteq tree.cached \cup Tree!Loading(i)' \cup excused[i]
      BY <1>2, <2>2, <3>2, <3>3
    <3> HIDE DEF tree
    <3>5. /\ keptTree' \in [expanded : SUBSET Dirs, cached : SUBSET Dirs]
          /\ loads' \subseteq [tree : 1..Len(trees), path : Dirs, silent : BOOLEAN]
      BY <1>1, <3>1, <3>2, KeptParts DEF TreeType
    <3> QED BY <1>2, <2>1, <3>1, <3>2, <3>4, <3>5, OneTree
  <2>3. CASE d \notin trees[i].cached
    <3> DEFINE error == IF d \in Tree!Loading(i) THEN trees[i].error ELSE Tree!NoError
               tree == [trees[i] EXCEPT !.expanded = @ \cup {d}, !.error = error]
    <3>1. /\ trees' = [trees EXCEPT ![i] = tree] /\ keptTree' = Tree!Kept(tree)
          /\ Tree!Load(i, d, FALSE)
      BY <1>8, <2>3 DEF Tree!Expand, Tree!Change
    <3>2. error \in Dirs \cup {Tree!NoError}
      BY <1>2
    <3> HIDE DEF error
    <3>3. /\ tree \in TreeState /\ tree.expanded = trees[i].expanded \cup {d}
          /\ tree.cached = trees[i].cached
      BY <1>2, <3>2 DEF TreeState
    <3> HIDE DEF tree
    <3>4. /\ loads' \subseteq [tree : 1..Len(trees), path : Dirs, silent : BOOLEAN]
          /\ loads \subseteq loads' /\ Tree!Loading(i) \cup {d} \subseteq Tree!Loading(i)'
      BY <3>1, LoadParts
    <3>5. tree.expanded \subseteq tree.cached \cup Tree!Loading(i)' \cup excused[i]
      BY <1>2, <3>3, <3>4
    <3>6. keptTree' \in [expanded : SUBSET Dirs, cached : SUBSET Dirs]
      BY <3>1, <3>3, KeptParts
    <3> QED BY <1>2, <2>1, <3>1, <3>3, <3>4, <3>5, <3>6, OneTree
  <2> QED BY <2>2, <2>3
<1>9. ASSUME NEW i \in 1..Len(trees), NEW d \in Dirs, Tree!Created(i, d)
      PROVE  TreeInv'
  <2> DEFINE tree == [trees[i] EXCEPT !.expanded = @ \cup {d}, !.cached = @ \cup {d}]
  <2>1. /\ trees' = [trees EXCEPT ![i] = tree] /\ keptTree' = Tree!Kept(tree)
        /\ Tree!Load(i, d, TRUE)
    BY <1>9 DEF Tree!Created, Tree!Change
  <2>2. /\ tree \in TreeState /\ tree.expanded = trees[i].expanded \cup {d}
        /\ tree.cached = trees[i].cached \cup {d}
    BY <1>2 DEF TreeState
  <2> HIDE DEF tree
  <2>3. /\ loads' \subseteq [tree : 1..Len(trees), path : Dirs, silent : BOOLEAN]
        /\ loads \subseteq loads' /\ Tree!Loading(i) \cup {d} \subseteq Tree!Loading(i)'
    BY <2>1, LoadParts
  <2>4. tree.expanded \subseteq tree.cached \cup Tree!Loading(i)' \cup excused[i]
    BY <1>2, <2>2, <2>3
  <2>5. excused' = [excused EXCEPT ![i] = excused[i]]
    BY <1>1, <1>9 DEF Tree!Created, TreeType
  <2>6. keptTree' \in [expanded : SUBSET Dirs, cached : SUBSET Dirs]
    BY <2>1, <2>2, KeptParts
  <2> QED BY <1>2, <2>1, <2>2, <2>3, <2>4, <2>5, <2>6, OneTree
\* What an operation keeps is what was kept, or what its component shows.
<1>10. ASSUME NEW i \in 1..Len(trees), NEW parent,
              keptTree' = IF parent \in trees[i].cached THEN Tree!Kept(trees[i]) ELSE keptTree
       PROVE  keptTree' \in [expanded : SUBSET Dirs, cached : SUBSET Dirs]
  BY <1>1, <1>2, <1>10, KeptParts DEF TreeType
<1>11. ASSUME NEW i \in 1..Len(trees), NEW d \in Dirs, NEW parent \in Dirs,
              Tree!Deleted(i, d, parent)
       PROVE  TreeInv'
  <2> DEFINE tree == [trees[i] EXCEPT !.expanded = @ \ {d}, !.cached = @ \ {d}]
  <2>1. /\ trees' = [trees EXCEPT ![i] = tree] /\ Tree!Load(i, parent, TRUE)
    BY <1>11 DEF Tree!Deleted
  <2>2. /\ tree \in TreeState /\ tree.expanded = trees[i].expanded \ {d}
        /\ tree.cached = trees[i].cached \ {d}
    BY <1>2 DEF TreeState
  <2> HIDE DEF tree
  <2>3. /\ loads' \subseteq [tree : 1..Len(trees), path : Dirs, silent : BOOLEAN]
        /\ loads \subseteq loads' /\ Tree!Loading(i) \subseteq Tree!Loading(i)'
    BY <2>1, LoadParts
  <2>4. tree.expanded \subseteq tree.cached \cup Tree!Loading(i)' \cup excused[i]
    BY <1>2, <2>2, <2>3
  <2>5. excused' = [excused EXCEPT ![i] = excused[i]]
    BY <1>1, <1>11 DEF Tree!Deleted, TreeType
  <2>6. keptTree' \in [expanded : SUBSET Dirs, cached : SUBSET Dirs]
    BY <1>10, <1>11 DEF Tree!Deleted
  <2> QED BY <1>2, <2>1, <2>2, <2>3, <2>4, <2>5, <2>6, OneTree
<1>12. ASSUME NEW i \in 1..Len(trees), NEW parent \in Dirs, Tree!Renamed(i, parent)
       PROVE  TreeInv'
  <2>1. /\ trees' = [trees EXCEPT ![i] = trees[i]] /\ Tree!Load(i, parent, TRUE)
        /\ excused' = [excused EXCEPT ![i] = excused[i]]
    <3>1. UNCHANGED <<trees, excused>> /\ Tree!Load(i, parent, TRUE)
      BY <1>12 DEF Tree!Renamed
    <3>2. trees = [trees EXCEPT ![i] = trees[i]]
      BY <1>1 DEF TreeType
    <3>3. excused = [excused EXCEPT ![i] = excused[i]]
      BY <1>1 DEF TreeType
    <3> QED BY <3>1, <3>2, <3>3
  <2>2. /\ loads' \subseteq [tree : 1..Len(trees), path : Dirs, silent : BOOLEAN]
        /\ loads \subseteq loads' /\ Tree!Loading(i) \subseteq Tree!Loading(i)'
    BY <2>1, LoadParts
  <2>3. trees[i].expanded \subseteq trees[i].cached \cup Tree!Loading(i)' \cup excused[i]
    BY <1>2, <2>2
  <2>4. keptTree' \in [expanded : SUBSET Dirs, cached : SUBSET Dirs]
    BY <1>10, <1>12 DEF Tree!Renamed
  <2> QED BY <1>2, <2>1, <2>2, <2>3, <2>4, OneTree
\* An answer takes one load away: the directory is then cached, closed or excused.
<1>13. ASSUME NEW load \in loads, loads' = loads \ {load}
       PROVE  /\ load.tree \in 1..Len(trees) /\ load.path \in Dirs
              /\ loads' \subseteq [tree : 1..Len(trees), path : Dirs, silent : BOOLEAN]
              /\ \A other \in loads : other.tree # load.tree => other \in loads'
              /\ Tree!Loading(load.tree) \subseteq Tree!Loading(load.tree)' \cup {load.path}
  BY <1>1, <1>13 DEF TreeType, Tree!Loading
<1>14. ASSUME NEW load \in loads, Tree!Loaded(load)
       PROVE  TreeInv'
  <2> DEFINE i == load.tree
             tree == [trees[i] EXCEPT !.cached = @ \cup {load.path}]
  <2>1. /\ trees' = [trees EXCEPT ![i] = tree] /\ keptTree' = Tree!Kept(tree)
        /\ loads' = loads \ {load} /\ UNCHANGED excused
    BY <1>14 DEF Tree!Loaded, Tree!Change
  <2>2. i \in 1..Len(trees) /\ load.path \in Dirs
    BY <1>13, <2>1
  <2>3. /\ tree \in TreeState /\ tree.expanded = trees[i].expanded
        /\ tree.cached = trees[i].cached \cup {load.path}
    BY <1>2, <2>2 DEF TreeState
  <2> HIDE DEF tree
  <2>4. excused' = [excused EXCEPT ![i] = excused[i]]
    BY <1>1, <2>1, <2>2 DEF TreeType
  <2>5. tree.expanded \subseteq tree.cached \cup Tree!Loading(i)' \cup excused[i]
    BY <1>2, <1>13, <2>1, <2>2, <2>3
  <2>6. keptTree' \in [expanded : SUBSET Dirs, cached : SUBSET Dirs]
    BY <2>1, <2>3, KeptParts
  <2> QED BY <1>2, <1>13, <2>1, <2>2, <2>3, <2>4, <2>5, <2>6, OneTree
<1>15. ASSUME NEW load \in loads, Tree!LoadFailed(load)
       PROVE  TreeInv'
  <2> DEFINE i == load.tree
             tree == [trees[i] EXCEPT !.expanded = @ \ {load.path}, !.error = load.path]
             excuse == excused[i] \cup {load.path}
  <2>1. loads' = loads \ {load}
    BY <1>15 DEF Tree!LoadFailed
  <2>2. i \in 1..Len(trees) /\ load.path \in Dirs
    BY <1>13, <2>1
  <2>3. CASE load.silent
    <3>1. trees' = [trees EXCEPT ![i] = trees[i]] /\ UNCHANGED keptTree
            /\ excused' = [excused EXCEPT ![i] = excuse]
      BY <1>1, <1>15, <2>2, <2>3 DEF Tree!LoadFailed, TreeType
    <3>2. excuse \in SUBSET Dirs
      BY <1>2, <2>2
    <3>3. trees[i].expanded \subseteq trees[i].cached \cup Tree!Loading(i)' \cup excuse
      BY <1>2, <1>13, <2>1, <2>2
    <3>4. keptTree' \in [expanded : SUBSET Dirs, cached : SUBSET Dirs]
      BY <1>1, <3>1 DEF TreeType
    <3> HIDE DEF excuse
    <3> QED BY <1>2, <1>13, <2>1, <2>2, <3>1, <3>2, <3>3, <3>4, OneTree
  <2>4. CASE ~load.silent
    <3>1. /\ trees' = [trees EXCEPT ![i] = tree] /\ keptTree' = Tree!Kept(tree)
          /\ excused' = [excused EXCEPT ![i] = excused[i]]
      <4>1. trees' = [trees EXCEPT ![i] = tree] /\ keptTree' = Tree!Kept(tree)
              /\ UNCHANGED excused
        BY <1>15, <2>4 DEF Tree!LoadFailed, Tree!Change
      <4>2. excused = [excused EXCEPT ![i] = excused[i]]
        BY <1>1, <2>2 DEF TreeType
      <4> QED BY <4>1, <4>2
    <3>2. /\ tree \in TreeState /\ tree.expanded = trees[i].expanded \ {load.path}
          /\ tree.cached = trees[i].cached
      BY <1>2, <2>2 DEF TreeState
    <3> HIDE DEF tree
    <3>3. tree.expanded \subseteq tree.cached \cup Tree!Loading(i)' \cup excused[i]
      BY <1>2, <1>13, <2>1, <2>2, <3>2
    <3>4. keptTree' \in [expanded : SUBSET Dirs, cached : SUBSET Dirs]
      BY <3>1, <3>2, KeptParts
    <3> QED BY <1>2, <1>13, <2>1, <2>2, <3>1, <3>2, <3>3, <3>4, OneTree
  <2> QED BY <2>3, <2>4
<1>16. CASE UNCHANGED Tree!treeVars
  BY <1>16 DEF Tree!treeVars, TreeInv, TreeType, Tree!OpenDirectoriesAreLoaded, Tree!Loading
<1>17. Tree!Folders \subseteq Dirs
  BY DEF Tree!Folders
<1>18. ASSUME NEW i \in DOMAIN trees,
              \/ Tree!Retry(i) \/ Tree!Dismiss(i)
              \/ \E d \in Tree!Folders : Tree!Collapse(i, d) \/ Tree!Expand(i, d)
                                         \/ Tree!Created(i, d)
              \/ \E parent \in Dirs : \/ Tree!Renamed(i, parent)
                                      \/ \E d \in Tree!Folders : Tree!Deleted(i, d, parent)
       PROVE  TreeInv'
  BY <1>2, <1>5, <1>6, <1>7, <1>8, <1>9, <1>11, <1>12, <1>17, <1>18
<1> QED BY <1>3, <1>4, <1>14, <1>15, <1>16, <1>18 DEF Tree!SftpTreeNext

\* A step of the window is one of the tree or leaves it alone.
LEMMA TreeOfWindow == [WindowNext]_windowParts => [Tree!SftpTreeNext]_Tree!treeVars
  BY DEF WindowNext, OthersStay, windowParts, treeVars, Tree!treeVars, overlays

\* An open directory has its entries, is being loaded or is excused, for any
\* number of directories, components made anew and answers that come late.
THEOREM OpenDirectoriesHaveEntries == WindowSpec => []OpenDirectoriesAreLoaded
<1>1. WindowInit => TreeInv
  BY TreeStart DEF WindowInit
<1>2. TreeInv /\ [WindowNext]_windowParts => TreeInv'
  BY TreeStep, TreeOfWindow
<1>3. TreeInv => OpenDirectoriesAreLoaded
  BY DEF TreeInv, OpenDirectoriesAreLoaded
<1> QED BY <1>1, <1>2, <1>3, PTL DEF WindowSpec

---------------------------------------------------------------------------
(* The task list. A row that says "running" on its own account still has   *)
(* something to come, the answer of the command, the end of the thread or  *)
(* the event of that end, unless that event was emitted unheard.           *)

TaskEvents == [task : Tasks, kind : {"progress", "completed", "failed"}]
Unfinished == {"unanswered", "started", "refused"}
Alive(t) == threads[t] \in {"running", "cancelled"}

TaskType ==
    /\ rows = [t \in Tasks |-> rows[t]]
    /\ threads = [t \in Tasks |-> threads[t]]
    /\ answers = [t \in Tasks |-> answers[t]]
    /\ events \in Seq(TaskEvents)

\* An end of transfer t waits behind the first i events.
EndFollows(t, i) ==
    \E j \in 1..Len(events) : j > i /\ events[j].task = t /\ events[j].kind # "progress"

ProgressIsFollowed ==
    \A i \in 1..Len(events), t \in Tasks :
        events[i].task = t /\ events[i].kind = "progress" =>
            Alive(t) \/ EndFollows(t, i) \/ t \in missed
RunningIsFollowed ==
    \A t \in Tasks :
        rows[t].status = "running" /\ ~rows[t].restored =>
            \/ answers[t] \in Unfinished
            \/ Alive(t) \/ EndFollows(t, 0) \/ t \in missed
TaskInv ==
    /\ TaskType
    /\ ProgressIsFollowed
    /\ RunningIsFollowed

\* At the start no row runs that was not restored.
LEMMA TaskStart == List!TaskListInit => TaskInv
<1> SUFFICES ASSUME List!TaskListInit
             PROVE  TaskInv
  OBVIOUS
<1>1. events = <<>> /\ \A t \in Tasks : rows[t].status = "none"
  BY DEF List!TaskListInit, List!NoRow
<1>2. events \in Seq(TaskEvents) /\ Len(events) = 0
  BY <1>1
<1>3. /\ rows = [t \in Tasks |-> rows[t]]
      /\ threads = [t \in Tasks |-> threads[t]]
      /\ answers = [t \in Tasks |-> answers[t]]
  BY DEF List!TaskListInit
<1> QED BY <1>1, <1>2, <1>3 DEF TaskInv, TaskType, ProgressIsFollowed, RunningIsFollowed

\* A step that leaves the events and the threads alone keeps what follows.
LEMMA TaskRowsChange ==
  ASSUME TaskInv, UNCHANGED <<events, threads, missed>>,
         rows' = [t \in Tasks |-> rows'[t]], answers' = [t \in Tasks |-> answers'[t]],
         \A t \in Tasks : rows'[t].status = "running" /\ ~rows'[t].restored =>
            \/ answers'[t] \in Unfinished
            \/ rows[t].status = "running" /\ ~rows[t].restored /\ answers[t] \notin Unfinished
  PROVE  TaskInv'
<1>1. TaskType'
  BY DEF TaskInv, TaskType
<1>3. \A t : /\ Alive(t)' = Alive(t)
             /\ \A i : EndFollows(t, i)' = EndFollows(t, i)
  BY DEF Alive, EndFollows
<1>4. ProgressIsFollowed'
  BY <1>3 DEF TaskInv, ProgressIsFollowed
<1>5. RunningIsFollowed'
  BY <1>3 DEF TaskInv, RunningIsFollowed
<1> QED BY <1>1, <1>4, <1>5 DEF TaskInv

\* A new event: what followed still follows.
LEMMA EventsGrow ==
  ASSUME TaskInv, NEW event \in TaskEvents, events' = Append(events, event)
  PROVE  /\ events' \in Seq(TaskEvents) /\ Len(events') = Len(events) + 1
         /\ Len(events) \in Nat
         /\ \A i \in 1..Len(events) : events'[i] = events[i]
         /\ events'[Len(events) + 1] = event
         /\ \A t, i : EndFollows(t, i) => EndFollows(t, i)'
<1>1. /\ events' \in Seq(TaskEvents) /\ Len(events') = Len(events) + 1
      /\ Len(events) \in Nat
      /\ \A i \in 1..Len(events) : events'[i] = events[i]
      /\ events'[Len(events) + 1] = event
  BY DEF TaskInv, TaskType
<1>2. \A t, i : EndFollows(t, i) => EndFollows(t, i)'
  BY <1>1 DEF EndFollows
<1> QED BY <1>1, <1>2

\* Threads, their events, and the list that takes them in keep the invariant.
LEMMA TaskStep == TaskInv /\ [List!TaskListNext]_List!taskVars => TaskInv'
<1> SUFFICES ASSUME TaskInv, [List!TaskListNext]_List!taskVars
             PROVE  TaskInv'
  OBVIOUS
<1>1. TaskType
  BY DEF TaskInv, TaskType
<1>2. CASE List!ListTasks
  BY <1>1, <1>2, TaskRowsChange DEF List!ListTasks, List!backendVars, TaskType
<1>3. CASE List!RestoreBackgroundTasks
  <2>1. /\ rows' = [t \in Tasks |-> IF restore[2][t] = "none" THEN rows[t]
                                   ELSE List!Upsert(t, restore[2][t], TRUE)[t]]
        /\ UNCHANGED <<events, threads, missed, answers>>
    BY <1>3 DEF List!RestoreBackgroundTasks, List!backendVars
  <2>2. \A t \in Tasks : List!Upsert(t, restore[2][t], TRUE)[t].restored
    BY <1>1 DEF TaskType, List!Upsert, List!Row
  <2>3. \A t \in Tasks : rows'[t] = rows[t] \/ rows'[t].restored
    BY <2>1, <2>2
  <2>4. rows' = [t \in Tasks |-> rows'[t]]
    BY <2>1
  <2>5. answers' = [t \in Tasks |-> answers'[t]]
    BY <1>1, <2>1 DEF TaskType
  <2> QED BY <1>1, <2>1, <2>3, <2>4, <2>5, TaskRowsChange
<1>4. ASSUME NEW kind, List!Listen(kind)
      PROVE  TaskInv'
  BY <1>1, <1>4, TaskRowsChange DEF List!Listen, List!backendVars, TaskType
<1>5. CASE List!ClearSettledTasks
  <2>1. \A t \in Tasks : rows'[t] = rows[t] \/ rows'[t].status = "none"
    BY <1>5 DEF List!ClearSettledTasks, List!NoRow
  <2> QED BY <1>1, <1>5, <2>1, TaskRowsChange
          DEF List!ClearSettledTasks, List!backendVars, TaskType
<1>6. ASSUME NEW t \in Tasks, NEW status, status # "running", rows' = List!Patch(t, status)
      PROVE  /\ rows' = [u \in Tasks |-> rows'[u]]
             /\ \A u \in Tasks : u # t => rows'[u] = rows[u]
             /\ rows'[t].status # "running"
  BY <1>1, <1>6 DEF TaskType, List!Patch, List!Row, List!NoRow
<1>7. ASSUME NEW t \in Tasks, List!StartTransfer(t)
      PROVE  TaskInv'
  BY <1>1, <1>7, TaskRowsChange DEF List!StartTransfer, List!backendVars, TaskType, Unfinished
<1>8. ASSUME NEW t \in Tasks, List!TransferAnswered(t)
      PROVE  TaskInv'
  <2> DEFINE status == IF answers[t] = "started" THEN "done" ELSE "failed"
  <2>1. /\ rows' = List!Patch(t, status) /\ answers' = [answers EXCEPT ![t] = "over"]
        /\ UNCHANGED <<events, threads, missed>>
    BY <1>8 DEF List!TransferAnswered, List!backendVars
  <2>2. status # "running"
    OBVIOUS
  <2> HIDE DEF status
  <2>3. \A u \in Tasks : u # t => answers'[u] = answers[u]
    BY <1>1, <2>1 DEF TaskType
  <2>4. answers' = [u \in Tasks |-> answers'[u]]
    BY <1>1, <2>1 DEF TaskType
  <2> QED BY <1>1, <1>6, <2>1, <2>2, <2>3, <2>4, TaskRowsChange
<1>9. ASSUME NEW t \in Tasks, List!CancelTask(t) \/ List!CancelRefused(t)
      PROVE  TaskInv'
  BY <1>1, <1>9, TaskRowsChange
     DEF List!CancelTask, List!CancelRefused, List!backendVars, TaskType
<1>10. ASSUME NEW t \in Tasks, List!CancelAnswered(t)
       PROVE  TaskInv'
  <2>1. rows' = List!Patch(t, "cancelled") /\ UNCHANGED <<events, threads, missed, answers>>
    BY <1>10 DEF List!CancelAnswered, List!backendVars
  <2>2. answers' = [u \in Tasks |-> answers'[u]]
    BY <1>1, <2>1 DEF TaskType
  <2> QED BY <1>1, <1>6, <2>1, <2>2, TaskRowsChange
<1>11. ASSUME NEW t \in Tasks, List!Begin(t)
       PROVE  TaskInv'
  <2>1. /\ UNCHANGED <<rows, missed, events>>
        /\ threads' = [threads EXCEPT ![t] = "running"] \/ threads' = threads
        /\ \E answer \in {"started", "refused"} : answers' = [answers EXCEPT ![t] = answer]
        /\ answers[t] = "unanswered"
    BY <1>11 DEF List!Begin
  <2>2. TaskType'
    BY <1>1, <2>1 DEF TaskType
  <2>3. \A u \in Tasks : Alive(u) => Alive(u)'
    BY <1>1, <2>1 DEF TaskType, Alive
  <2>4. \A u, i : EndFollows(u, i)' = EndFollows(u, i)
    BY <2>1 DEF EndFollows
  <2>5. \A u \in Tasks : answers[u] \in Unfinished => answers'[u] \in Unfinished
    BY <1>1, <2>1 DEF TaskType, Unfinished
  <2>6. ProgressIsFollowed'
    BY <2>1, <2>3, <2>4 DEF TaskInv, ProgressIsFollowed
  <2>7. RunningIsFollowed'
    BY <2>1, <2>3, <2>4, <2>5 DEF TaskInv, RunningIsFollowed
  <2> QED BY <2>1, <2>2, <2>6, <2>7 DEF TaskInv
\* A thread that lives emits an event, lost unless its listener is there; an
\* end that is lost is missed.
<1>12. ASSUME NEW t \in Tasks, NEW kind \in {"progress", "completed", "failed"}, NEW status,
              UNCHANGED <<rows, listening, answers>>, List!Emit(t, kind),
              threads' = [threads EXCEPT ![t] = status],
              missed \subseteq missed',
              kind = "progress" => status = "running",
              kind # "progress" /\ kind \notin listening => t \in missed'
       PROVE  TaskInv'
  <2> DEFINE event == [task |-> t, kind |-> kind]
  <2>1. /\ \A u \in Tasks : u # t => (Alive(u) <=> Alive(u)')
        /\ kind = "progress" => Alive(t)'
        /\ threads' = [u \in Tasks |-> threads'[u]]
    BY <1>1, <1>12 DEF TaskType, Alive
  <2>2. CASE kind \notin listening
    <3>1. events' = events
      BY <1>12, <2>2 DEF List!Emit
    <3>2. TaskType'
      BY <1>1, <1>12, <2>1, <3>1 DEF TaskType
    <3>3. \A u, i : EndFollows(u, i)' = EndFollows(u, i)
      BY <3>1 DEF EndFollows
    <3>4. Alive(t)' \/ t \in missed'
      BY <1>12, <2>1, <2>2
    <3>5. \A u \in Tasks : Alive(u) \/ u \in missed => Alive(u)' \/ u \in missed'
      BY <1>12, <2>1, <3>4
    <3>6. RunningIsFollowed'
      BY <1>12, <3>3, <3>5 DEF TaskInv, RunningIsFollowed
    <3>7. ProgressIsFollowed'
      BY <3>1, <3>3, <3>5 DEF TaskInv, ProgressIsFollowed
    <3> QED BY <3>2, <3>6, <3>7 DEF TaskInv
  <2>3. CASE kind \in listening
    <3>1. event \in TaskEvents /\ event.task = t /\ event.kind = kind
      BY DEF TaskEvents
    <3>2. events' = Append(events, event)
      BY <1>12, <2>3 DEF List!Emit
    <3> HIDE DEF event
    <3>3. /\ events' \in Seq(TaskEvents) /\ Len(events') = Len(events) + 1
          /\ Len(events) \in Nat
          /\ \A i \in 1..Len(events) : events'[i] = events[i]
          /\ events'[Len(events) + 1] = event
          /\ \A u, i : EndFollows(u, i) => EndFollows(u, i)'
      BY <3>1, <3>2, EventsGrow
    <3>4. TaskType'
      BY <1>1, <1>12, <2>1, <3>3 DEF TaskType
    <3>5. kind # "progress" => \A i \in 0..Len(events) : EndFollows(t, i)'
      BY <3>1, <3>3 DEF EndFollows
    <3>6. \A i \in 0..Len(events) : Alive(t)' \/ EndFollows(t, i)'
      BY <2>1, <3>5
    <3>7. ASSUME NEW i \in 1..Len(events'), NEW u \in Tasks,
                 events'[i].task = u /\ events'[i].kind = "progress"
          PROVE  Alive(u)' \/ EndFollows(u, i)' \/ u \in missed'
      <4>1. CASE i = Len(events) + 1
        BY <2>1, <3>1, <3>3, <3>7, <4>1
      <4>2. CASE i \in 1..Len(events)
        <5>1. Alive(u) \/ EndFollows(u, i) \/ u \in missed
          BY <3>3, <3>7, <4>2 DEF TaskInv, ProgressIsFollowed
        <5>2. i \in 0..Len(events)
          BY <3>3, <4>2
        <5> QED BY <1>12, <2>1, <3>3, <3>6, <5>1, <5>2
      <4> QED BY <3>3, <4>1, <4>2
    <3>8. ProgressIsFollowed'
      BY <3>7 DEF ProgressIsFollowed
    <3>9. RunningIsFollowed'
      <4>1. ASSUME NEW u \in Tasks, rows[u].status = "running" /\ ~rows[u].restored,
                   answers[u] \notin Unfinished
            PROVE  Alive(u)' \/ EndFollows(u, 0)' \/ u \in missed'
        <5>1. Alive(u) \/ EndFollows(u, 0) \/ u \in missed
          BY <4>1 DEF TaskInv, RunningIsFollowed
        <5>2. 0 \in 0..Len(events)
          BY <3>3
        <5> QED BY <1>12, <2>1, <3>3, <3>6, <5>1, <5>2
      <4> QED BY <1>12, <4>1 DEF RunningIsFollowed
    <3> QED BY <3>4, <3>8, <3>9 DEF TaskInv
  <2> QED BY <2>2, <2>3
<1>13. ASSUME NEW t \in Tasks, List!Progress(t)
       PROVE  TaskInv'
  <2>1. /\ threads' = [threads EXCEPT ![t] = "running"] /\ List!Emit(t, "progress")
        /\ UNCHANGED <<rows, listening, answers>> /\ missed' = missed
    BY <1>13 DEF List!Progress
  <2> QED BY <1>12, <2>1
<1>14. ASSUME NEW t \in Tasks, List!End(t)
       PROVE  TaskInv'
  <2>1. PICK outcome \in {"completed", "failed"} :
          /\ threads' = [threads EXCEPT ![t] = IF outcome = "failed" THEN "failed" ELSE "done"]
          /\ List!Emit(t, outcome)
          /\ missed' = missed \cup (IF outcome \in listening THEN {} ELSE {t})
    BY <1>14 DEF List!End
  <2>2. UNCHANGED <<rows, listening, answers>>
    BY <1>14 DEF List!End
  <2>3. missed \subseteq missed' /\ (outcome \notin listening => t \in missed')
    BY <2>1
  <2> QED BY <1>12, <2>1, <2>2, <2>3
<1>15. ASSUME NEW t \in Tasks, List!Cancel(t)
       PROVE  TaskInv'
  <2>1. /\ UNCHANGED <<rows, missed, events, answers>>
        /\ threads' = [threads EXCEPT ![t] = IF threads[t] = "running" THEN "cancelled"
                                             ELSE threads[t]]
    BY <1>15 DEF List!Cancel
  <2>2. TaskType'
    BY <1>1, <2>1 DEF TaskType
  <2>3. \A u \in Tasks : Alive(u) <=> Alive(u)'
    BY <1>1, <2>1 DEF TaskType, Alive
  <2>4. \A u, i : EndFollows(u, i)' = EndFollows(u, i)
    BY <2>1 DEF EndFollows
  <2>5. ProgressIsFollowed'
    BY <2>1, <2>3, <2>4 DEF TaskInv, ProgressIsFollowed
  <2>6. RunningIsFollowed'
    BY <2>1, <2>3, <2>4 DEF TaskInv, RunningIsFollowed
  <2> QED BY <2>1, <2>2, <2>5, <2>6 DEF TaskInv
<1>16. CASE List!HandleEvent
  <2> DEFINE t == Head(events).task
             status == CASE Head(events).kind = "progress" -> "running"
                         [] Head(events).kind = "completed" -> "done"
                         [] OTHER -> "failed"
  <2>1. /\ events # <<>> /\ events' = Tail(events)
        /\ UNCHANGED <<missed, answers, threads>>
    BY <1>16 DEF List!HandleEvent, List!backendVars
  <2>2. /\ rows' = List!Upsert(t, status, FALSE)
    BY <1>16 DEF List!HandleEvent, List!HandleSftpProgress, List!HandleSftpCompleted,
                 List!HandleSftpFailed
  <2>3. /\ Len(events) \in Nat /\ Len(events) >= 1 /\ Head(events) = events[1]
        /\ events' \in Seq(TaskEvents) /\ Len(events') = Len(events) - 1
        /\ \A i \in 1..Len(events') : events'[i] = events[i + 1]
        /\ t \in Tasks
    <3>1. events \in Seq(TaskEvents)
      BY <1>1 DEF TaskType
    <3>2. /\ Len(events) \in Nat /\ Len(events) >= 1 /\ Head(events) = events[1]
          /\ events' \in Seq(TaskEvents) /\ Len(events') = Len(events) - 1
          /\ \A i \in 1..Len(events') : events'[i] = events[i + 1]
      BY <2>1, <3>1
    <3>3. events[1] \in TaskEvents
      BY <3>1, <3>2
    <3> QED BY <3>2, <3>3 DEF TaskEvents
  <2>4. status = "running" <=> events[1].kind = "progress"
    BY <2>3
  <2>5. t = events[1].task
    BY <2>3
  <2> HIDE DEF t, status
  <2>6. /\ rows' = [u \in Tasks |-> rows'[u]]
        /\ \A u \in Tasks : u # t => rows'[u] = rows[u]
        /\ rows'[t].status = status
    BY <1>1, <2>2, <2>3 DEF TaskType, List!Upsert, List!Row
  <2>7. TaskType'
    BY <1>1, <2>1, <2>3, <2>6 DEF TaskType
  <2>8. ASSUME NEW u, NEW i \in 1..Len(events), EndFollows(u, i), NEW k, k = i - 1
        PROVE  EndFollows(u, k)'
    <3>1. PICK j \in 1..Len(events) :
            j > i /\ events[j].task = u /\ events[j].kind # "progress"
      BY <2>8 DEF EndFollows
    <3>2. j - 1 \in 1..Len(events') /\ events'[j - 1] = events[j] /\ j - 1 > k
      BY <2>3, <2>8, <3>1
    <3> QED BY <3>1, <3>2 DEF EndFollows
  <2>9. \A u : Alive(u)' = Alive(u)
    BY <2>1 DEF Alive
  <2>10. ProgressIsFollowed'
    <3>1. ASSUME NEW i \in 1..Len(events'), NEW u \in Tasks,
                 events'[i].task = u /\ events'[i].kind = "progress"
          PROVE  Alive(u)' \/ EndFollows(u, i)' \/ u \in missed'
      <4>1. i + 1 \in 1..Len(events) /\ events'[i] = events[i + 1] /\ i = (i + 1) - 1
        BY <2>3
      <4>2. Alive(u) \/ EndFollows(u, i + 1) \/ u \in missed
        BY <3>1, <4>1 DEF TaskInv, ProgressIsFollowed
      <4> QED BY <2>1, <2>8, <2>9, <4>1, <4>2
    <3> QED BY <3>1 DEF ProgressIsFollowed
  <2>11. ASSUME NEW u \in Tasks, rows'[u].status = "running" /\ ~rows'[u].restored,
                answers[u] \notin Unfinished
         PROVE  Alive(u) \/ EndFollows(u, 0)' \/ u \in missed
    <3>2. 1 \in 1..Len(events) /\ 0 = 1 - 1
      BY <2>3
    <3>3. CASE u = t
      <4>1. events[1].kind = "progress" /\ events[1].task = u
        BY <2>4, <2>5, <2>6, <2>11, <3>3
      <4>2. Alive(u) \/ EndFollows(u, 1) \/ u \in missed
        BY <3>2, <4>1 DEF TaskInv, ProgressIsFollowed
      <4>3. EndFollows(u, 1) => EndFollows(u, 0)'
        BY <2>8, <3>2
      <4> QED BY <3>2, <4>2, <4>3
    <3>4. CASE u # t
      <4>1. rows'[u] = rows[u]
        BY <2>6, <3>4
      <4>2. Alive(u) \/ EndFollows(u, 0) \/ u \in missed
        BY <2>11, <4>1 DEF TaskInv, RunningIsFollowed
      <4>3. ASSUME EndFollows(u, 0)
            PROVE  EndFollows(u, 1)
        <5>1. PICK j \in 1..Len(events) :
                j > 0 /\ events[j].task = u /\ events[j].kind # "progress"
          BY <4>3 DEF EndFollows
        <5>2. j > 1
          BY <2>5, <3>4, <5>1
        <5> QED BY <5>1, <5>2 DEF EndFollows
      <4>4. EndFollows(u, 1) => EndFollows(u, 0)'
        BY <2>8, <3>2
      <4> QED BY <3>2, <4>2, <4>3, <4>4
    <3> QED BY <3>3, <3>4
  <2>12. RunningIsFollowed'
    BY <2>1, <2>9, <2>11 DEF RunningIsFollowed
  <2> QED BY <2>7, <2>10, <2>12 DEF TaskInv
<1>17. CASE UNCHANGED List!taskVars
  BY <1>1, <1>17, TaskRowsChange DEF List!taskVars, TaskType
<1> QED
  BY <1>2, <1>3, <1>4, <1>5, <1>7, <1>8, <1>9, <1>10, <1>11, <1>13, <1>14, <1>15, <1>16, <1>17
     DEF List!TaskListNext

\* A step of the window is one of the task list or leaves it alone.
LEMMA TasksOfWindow == [WindowNext]_windowParts => [List!TaskListNext]_List!taskVars
  BY DEF WindowNext, OthersStay, windowParts, taskVars, List!taskVars, overlays

\* Once everything has been handled, only the snapshot and an outcome emitted
\* unheard leave a row running, for any number of transfers and events in any
\* order.
THEOREM RunningRowsAreRestored == WindowSpec => []NoRowIsLeftRunning
<1>1. WindowInit => TaskInv
  BY TaskStart DEF WindowInit
<1>2. TaskInv /\ [WindowNext]_windowParts => TaskInv'
  BY TaskStep, TasksOfWindow
<1>3. TaskInv => NoRowIsLeftRunning
  BY DEF TaskInv, TaskType, RunningIsFollowed, EndFollows, Alive, Unfinished,
         NoRowIsLeftRunning, List!NoRowIsLeftRunning, List!Quiet
<1> QED BY <1>1, <1>2, <1>3, PTL DEF WindowSpec

---------------------------------------------------------------------------
(* The terminal pane. The buffer of a tab with what waits for it, and the  *)
(* screen of the tab shown with what waits for it, have the output events  *)
(* since the tab's session was connected, if the buffer was not trimmed.   *)
(* What carries the argument through trimmed buffers, closed tabs and tabs *)
(* opened again is that the lines of every tab stay in their order: parts  *)
(* may be left out, and nothing is written twice.                          *)

\* Where the lines that must be there begin: nowhere, for a buffer that has lost
\* some and for a closed tab.
LinesFrom(t) == IF t \in trimmed \/ tabs[t] = "closed" THEN outputs[t] ELSE since[t]

PaneType ==
    /\ tabs \in [PaneTabs -> {"open", "closed"}]
    /\ outputs \in [PaneTabs -> Nat] /\ since \in [PaneTabs -> Nat]
    /\ \A t \in PaneTabs : since[t] <= outputs[t]
    /\ pending \in [PaneTabs -> Seq(Nat)]
    /\ buffers \in [PaneTabs -> Seq(Nat)]
    /\ pane = [tab |-> pane.tab, count |-> pane.count, written |-> pane.written]

BuffersCount ==
    \A t \in PaneTabs : Panes!CountFrom(buffers[t] \o pending[t], LinesFrom(t), outputs[t])
PaneShowsLines ==
    \A t \in PaneTabs : t = pane.tab =>
        /\ tabs[t] = "open" /\ pane.count = Len(buffers[t]) /\ pane.written \in Seq(Nat)
        /\ Panes!CountFrom(pane.written \o pending[t], LinesFrom(t), outputs[t])
PaneShowsATab == pane.tab \in PaneTabs \cup {NoPane}
PaneInv == PaneType /\ BuffersCount /\ PaneShowsATab /\ PaneShowsLines

\* Nothing has been written at the start.
LEMMA PaneStart == Panes!TerminalPaneInit => PaneInv
<1> SUFFICES ASSUME Panes!TerminalPaneInit
             PROVE  PaneInv
  OBVIOUS
<1>1. /\ tabs = [t \in PaneTabs |-> "closed"] /\ outputs = [t \in PaneTabs |-> 0]
      /\ since = [t \in PaneTabs |-> 0]
      /\ pending = [t \in PaneTabs |-> <<>>] /\ buffers = [t \in PaneTabs |-> <<>>]
      /\ pane = [tab |-> NoPane, count |-> 0, written |-> <<>>]
  BY DEF Panes!TerminalPaneInit, Panes!NoLines
<1>2. <<>> \in Seq(Nat) /\ <<>> \o <<>> = <<>> /\ Len(<<>>) = 0
  OBVIOUS
<1>3. PaneType
  BY <1>1, <1>2 DEF PaneType
<1>4. Panes!CountFrom(<<>>, 0, 0)
  BY <1>2 DEF Panes!CountFrom
<1>5. BuffersCount
  BY <1>1, <1>2, <1>4 DEF BuffersCount, LinesFrom
<1>6. PaneShowsATab /\ PaneShowsLines
  <2>1. pane.tab = NoPane
    BY <1>1
  <2>2. \A t \in PaneTabs : t # NoPane
    BY WindowAssumption
  <2> QED BY <2>1, <2>2 DEF PaneShowsATab, PaneShowsLines
<1> QED BY <1>3, <1>5, <1>6 DEF PaneInv

\* Two sequences in a row, and the part after the first of them.
LEMMA InARow ==
  ASSUME NEW s \in Seq(Nat), NEW r \in Seq(Nat), NEW all, all = s \o r
  PROVE  /\ all \in Seq(Nat) /\ Len(all) = Len(s) + Len(r)
         /\ Len(s) \in Nat /\ Len(r) \in Nat
         /\ \A i \in 1..Len(s) : all[i] = s[i]
         /\ \A i \in 1..Len(all) :
              i > Len(s) => i - Len(s) \in 1..Len(r) /\ all[i] = r[i - Len(s)]
<1>1. /\ all \in Seq(Nat) /\ Len(all) = Len(s) + Len(r)
      /\ \A i \in 1..(Len(s) + Len(r)) : all[i] = IF i <= Len(s) THEN s[i] ELSE r[i - Len(s)]
  BY ConcatProperties
<1>2. Len(s) \in Nat /\ Len(r) \in Nat
  OBVIOUS
<1> QED BY <1>1, <1>2

\* What follows the first items of a list.
LEMMA AfterTheFirst ==
  ASSUME NEW s \in Seq(Nat), NEW r \in Seq(Nat), NEW all, all = s \o r
  PROVE  SubSeq(all, Len(s) + 1, Len(all)) = r
<1> DEFINE rest == SubSeq(all, Len(s) + 1, Len(all))
<1>1. /\ all \in Seq(Nat) /\ Len(all) = Len(s) + Len(r)
      /\ Len(s) \in Nat /\ Len(r) \in Nat
      /\ \A i \in 1..Len(all) :
           i > Len(s) => i - Len(s) \in 1..Len(r) /\ all[i] = r[i - Len(s)]
  BY InARow
<1>2. \A i \in (Len(s) + 1)..Len(all) : all[i] \in Nat
  BY <1>1, ElementOfSeq
<1>3. /\ rest \in Seq(Nat)
      /\ Len(rest) = IF Len(s) + 1 <= Len(all) THEN Len(all) - (Len(s) + 1) + 1 ELSE 0
      /\ \A i \in 1..(Len(all) - (Len(s) + 1) + 1) : rest[i] = all[Len(s) + 1 + i - 1]
  <2>1. Len(s) + 1 \in Int /\ Len(all) \in Int
    BY <1>1
  <2> QED BY <1>2, <2>1, SubSeqProperties
<1> HIDE DEF rest
<1>4. rest \in Seq(Nat) /\ Len(rest) = Len(r)
  BY <1>1, <1>3
<1>5. ASSUME NEW i \in 1..Len(r)
      PROVE  rest[i] = r[i]
  <2>1. /\ i \in 1..(Len(all) - (Len(s) + 1) + 1)
        /\ Len(s) + 1 + i - 1 = Len(s) + i /\ Len(s) + i \in 1..Len(all)
        /\ Len(s) + i > Len(s) /\ (Len(s) + i) - Len(s) = i
    BY <1>1
  <2>2. rest[i] = all[Len(s) + i]
    BY <1>3, <2>1
  <2>3. all[Len(s) + i] = r[(Len(s) + i) - Len(s)]
    BY <1>1, <2>1
  <2> QED BY <2>1, <2>2, <2>3
<1>6. rest = r
  BY <1>4, <1>5, SeqEqual
<1> QED BY <1>6 DEF rest

\* A list is the part of it that ends with its last item.
LEMMA FirstLines ==
  ASSUME NEW s \in Seq(Nat)
  PROVE  <<>> \o SubSeq(s, 1, Len(s)) = s
<1>1. SubSeq(s, 1, Len(s)) \in Seq(Nat) /\ Len(SubSeq(s, 1, Len(s))) = Len(s)
  OBVIOUS
<1>2. SubSeq(s, 1, Len(s)) = s
  BY <1>1, SeqEqual
<1> QED BY <1>2

\* Nothing comes after the last item.
LEMMA NothingAfter ==
  ASSUME NEW s \in Seq(Nat)
  PROVE  SubSeq(s, Len(s) + 1, Len(s)) = <<>> /\ s \o <<>> = s /\ <<>> \o s = s
<1>1. SubSeq(s, Len(s) + 1, Len(s)) = <<>>
  OBVIOUS
<1> QED BY <1>1

\* The lines behind the first k, with those in front of them, are the list.
LEMMA SuffixOf ==
  ASSUME NEW s \in Seq(Nat), NEW k \in Nat, k <= Len(s)
  PROVE  /\ SubSeq(s, k + 1, Len(s)) \in Seq(Nat)
         /\ Len(SubSeq(s, k + 1, Len(s))) = Len(s) - k
         /\ \A i \in 1..(Len(s) - k) : SubSeq(s, k + 1, Len(s))[i] = s[k + i]
         /\ \E d \in Seq(Nat) : s = d \o SubSeq(s, k + 1, Len(s))
<1> DEFINE d == SubSeq(s, 1, k)
           e == SubSeq(s, k + 1, Len(s))
<1>1. d \in Seq(Nat) /\ Len(d) = k /\ \A i \in 1..k : d[i] = s[i]
  OBVIOUS
<1>2. /\ e \in Seq(Nat) /\ Len(e) = Len(s) - k
      /\ \A i \in 1..(Len(s) - k) : e[i] = s[k + i]
  OBVIOUS
<1>3. d \o e = s
  <2> HIDE DEF d, e
  <2> DEFINE all == d \o e
  <2>0. /\ all \in Seq(Nat) /\ Len(all) = Len(d) + Len(e)
        /\ \A i \in 1..Len(d) : all[i] = d[i]
        /\ \A i \in 1..Len(all) :
             i > Len(d) => i - Len(d) \in 1..Len(e) /\ all[i] = e[i - Len(d)]
    <3>1. d \in Seq(Nat) /\ e \in Seq(Nat)
      BY <1>1, <1>2
    <3> QED BY <3>1, InARow
  <2> HIDE DEF all
  <2>4. Len(d) = k /\ Len(e) = Len(s) - k /\ Len(s) \in Nat
    BY <1>1, <1>2
  <2>1. /\ all \in Seq(Nat) /\ Len(all) = Len(s)
        /\ \A i \in 1..k : all[i] = d[i]
        /\ \A i \in 1..Len(all) : i > k => i - k \in 1..Len(e) /\ all[i] = e[i - k]
    BY <2>0, <2>4
  <2>2. ASSUME NEW i \in 1..Len(all)
        PROVE  all[i] = s[i]
    <3>1. CASE i <= k
      BY <1>1, <2>1, <3>1
    <3>2. CASE i > k
      <4>1. i - k \in 1..(Len(s) - k) /\ k + (i - k) = i
        BY <1>2, <2>1, <3>2
      <4>2. e[i - k] = s[k + (i - k)]
        BY <1>2, <4>1
      <4> QED BY <2>1, <3>2, <4>1, <4>2
    <3> QED BY <2>1, <3>1, <3>2
  <2>3. all = s
    BY <2>1, <2>2, SeqEqual
  <2> QED BY <2>3 DEF all
<1> QED BY <1>1, <1>2, <1>3

\* Trimming keeps a buffer that is not full as it is, and the last lines of one
\* that is.
LEMMA Trimmed ==
  ASSUME NEW lines \in Seq(Nat)
  PROVE  /\ Panes!TrimLines(lines) \in Seq(Nat)
         /\ Len(lines) <= MaxBufferedLines => Panes!TrimLines(lines) = lines
         /\ \E d \in Seq(Nat) : lines = d \o Panes!TrimLines(lines)
<1>1. CASE Len(lines) <= MaxBufferedLines
  <2>1. Panes!TrimLines(lines) = lines
    BY <1>1 DEF Panes!TrimLines
  <2>2. lines = <<>> \o lines /\ <<>> \in Seq(Nat)
    BY NothingAfter
  <2> QED BY <2>1, <2>2
<1>2. CASE ~(Len(lines) <= MaxBufferedLines)
  <2> DEFINE k == Len(lines) - MaxBufferedLines
  <2>1. k \in Nat /\ k <= Len(lines)
    BY <1>2, WindowAssumption
  <2>2. Panes!TrimLines(lines) = SubSeq(lines, k + 1, Len(lines))
    BY <1>2 DEF Panes!TrimLines
  <2> HIDE DEF k
  <2> QED BY <1>2, <2>1, <2>2, SuffixOf
<1> QED BY <1>1, <1>2

\* What a pane that has rendered buffer b writes when lines l have been added
Rendered(b, l) ==
    SubSeq(Panes!TrimLines(b \o l), Len(b) + 1, Len(Panes!TrimLines(b \o l)))

\* What the pane writes when lines are added to a buffer it has rendered: the
\* last of them, and all of them if the buffer does not get too long.
LEMMA LastLines ==
  ASSUME NEW b \in Seq(Nat), NEW l \in Seq(Nat)
  PROVE  /\ Rendered(b, l) \in Seq(Nat)
         /\ Len(b \o l) <= MaxBufferedLines => Rendered(b, l) = l
         /\ \E d \in Seq(Nat) : l = d \o Rendered(b, l)
<1> DEFINE all == b \o l
           new == Panes!TrimLines(all)
           q == Rendered(b, l)
<1> SUFFICES /\ q \in Seq(Nat)
             /\ Len(all) <= MaxBufferedLines => q = l
             /\ \E d \in Seq(Nat) : l = d \o q
  OBVIOUS
<1>1. /\ all \in Seq(Nat) /\ Len(all) = Len(b) + Len(l)
      /\ Len(b) \in Nat /\ Len(l) \in Nat
      /\ \A i \in 1..Len(all) :
           i > Len(b) => i - Len(b) \in 1..Len(l) /\ all[i] = l[i - Len(b)]
  BY InARow
<1>2. all = b \o l /\ new = Panes!TrimLines(all) /\ q = SubSeq(new, Len(b) + 1, Len(new))
  BY DEF Rendered
<1> HIDE DEF all, new, q
<1>3. CASE Len(all) <= MaxBufferedLines
  <2>1. new = all
    BY <1>2, <1>3 DEF Panes!TrimLines
  <2>2. q = l
    <3>1. SubSeq(all, Len(b) + 1, Len(all)) = l
      BY <1>2, AfterTheFirst
    <3> QED BY <1>2, <2>1, <3>1
  <2>3. l = <<>> \o l /\ <<>> \in Seq(Nat)
    BY NothingAfter
  <2> QED BY <1>2, <1>3, <2>2, <2>3
<1>4. CASE ~(Len(all) <= MaxBufferedLines)
  <2> DEFINE k == Len(all) - MaxBufferedLines
  <2>1. k \in Nat /\ k <= Len(all) /\ Len(all) - k = MaxBufferedLines
    BY <1>1, <1>4, WindowAssumption
  <2>2. new = SubSeq(all, k + 1, Len(all))
    BY <1>2, <1>4 DEF Panes!TrimLines
  <2> HIDE DEF k
  <2>3. /\ new \in Seq(Nat) /\ Len(new) = MaxBufferedLines
        /\ \A i \in 1..MaxBufferedLines : new[i] = all[k + i]
    <3>1. /\ new \in Seq(Nat) /\ Len(new) = Len(all) - k
          /\ \A i \in 1..(Len(all) - k) : new[i] = all[k + i]
      <4>1. all \in Seq(Nat)
        BY <1>1
      <4> QED BY <2>1, <2>2, <4>1, SuffixOf, Zenon
    <3> QED BY <2>1, <3>1
  <2>4. CASE Len(b) >= MaxBufferedLines
    <3>1. q = <<>>
      <4>1. SubSeq(new, Len(b) + 1, Len(new)) = <<>>
        BY <1>1, <2>3, <2>4, WindowAssumption
      <4> QED BY <1>2, <4>1
    <3>2. l = l \o <<>> /\ <<>> \in Seq(Nat)
      BY NothingAfter
    <3> QED BY <1>2, <1>4, <3>1, <3>2
  <2>5. CASE Len(b) < MaxBufferedLines
    <3>1. k <= Len(l) /\ Len(b) <= Len(new) /\ Len(new) - Len(b) = Len(l) - k
      BY <1>1, <2>1, <2>3, <2>5, WindowAssumption
    <3>2. /\ q \in Seq(Nat) /\ Len(q) = Len(l) - k
          /\ \A i \in 1..(Len(l) - k) : q[i] = new[Len(b) + i]
      <4>1. /\ q \in Seq(Nat) /\ Len(q) = Len(new) - Len(b)
            /\ \A i \in 1..(Len(new) - Len(b)) : q[i] = new[Len(b) + i]
        <5>1. new \in Seq(Nat) /\ Len(b) \in Nat /\ Len(b) <= Len(new)
          BY <1>1, <2>3, <3>1
        <5> QED BY <1>2, <5>1, SuffixOf, Zenon
      <4> QED BY <3>1, <4>1
    <3> DEFINE e == SubSeq(l, k + 1, Len(l))
    <3>3. /\ e \in Seq(Nat) /\ Len(e) = Len(l) - k
          /\ \A i \in 1..(Len(l) - k) : e[i] = l[k + i]
          /\ \E d \in Seq(Nat) : l = d \o e
      BY <2>1, <3>1, SuffixOf, Zenon
    <3> HIDE DEF e
    <3>4. ASSUME NEW i \in 1..(Len(l) - k)
          PROVE  q[i] = e[i]
      <4>1. /\ Len(b) + i \in 1..MaxBufferedLines
            /\ k + (Len(b) + i) \in 1..Len(all) /\ k + (Len(b) + i) > Len(b)
            /\ (k + (Len(b) + i)) - Len(b) = k + i
        <5>1. /\ Len(all) = Len(b) + Len(l) /\ Len(b) \in Nat /\ Len(l) \in Nat
              /\ k \in Nat /\ Len(all) - k = MaxBufferedLines
          BY <1>1, <2>1
        <5>2. i \in Nat /\ 1 <= i /\ i <= Len(l) - k
          BY <5>1
        <5> HIDE DEF all
        <5> QED BY ONLY <5>1, <5>2
      <4>2. new[Len(b) + i] = all[k + (Len(b) + i)]
        BY <2>3, <4>1
      <4>3. all[k + (Len(b) + i)] = l[(k + (Len(b) + i)) - Len(b)]
        BY <1>1, <4>1
      <4> QED BY <3>2, <3>3, <4>1, <4>2, <4>3
    <3>5. q = e
      BY <3>2, <3>3, <3>4, SeqEqual
    <3> QED BY <1>2, <1>4, <3>2, <3>3, <3>5
  <2>6. Len(b) >= MaxBufferedLines \/ Len(b) < MaxBufferedLines
    BY <1>1, WindowAssumption
  <2> QED BY <2>4, <2>5, <2>6
<1> QED BY <1>3, <1>4

\* Lines left out leave the others in their order.
LEMMA LeftOut ==
  ASSUME NEW a \in Seq(Nat), NEW d \in Seq(Nat), NEW c \in Seq(Nat), NEW n \in Nat,
         Panes!CountFrom(a \o (d \o c), n, n)
  PROVE  Panes!CountFrom(a \o c, n, n)
<1> DEFINE dc == d \o c
           old == a \o dc
           new == a \o c
           k == Len(d)
<1>1. /\ dc \in Seq(Nat) /\ Len(dc) = k + Len(c) /\ k \in Nat
      /\ \A i \in 1..Len(dc) : i > k => i - k \in 1..Len(c) /\ dc[i] = c[i - k]
  BY InARow
<1> HIDE DEF dc
<1>2. /\ Len(old) = Len(a) + Len(dc) /\ Len(a) \in Nat
      /\ \A i \in 1..Len(a) : old[i] = a[i]
      /\ \A i \in 1..Len(old) : i > Len(a) => i - Len(a) \in 1..Len(dc) /\ old[i] = dc[i - Len(a)]
  <2>1. dc \in Seq(Nat) /\ old = a \o dc
    BY <1>1
  <2> QED BY <2>1, InARow
<1>3. /\ Len(new) = Len(a) + Len(c) /\ Len(c) \in Nat
      /\ \A i \in 1..Len(a) : new[i] = a[i]
      /\ \A i \in 1..Len(new) : i > Len(a) => i - Len(a) \in 1..Len(c) /\ new[i] = c[i - Len(a)]
  BY InARow
<1>4. Panes!CountFrom(old, n, n)
  BY DEF dc
<1> HIDE DEF old, new, k
<1>5. ASSUME NEW i \in 1..Len(new), i <= Len(a)
      PROVE  i \in 1..Len(old) /\ new[i] = old[i]
  BY <1>1, <1>2, <1>3, <1>5
<1>6. ASSUME NEW i \in 1..Len(new), i > Len(a)
      PROVE  k + i \in 1..Len(old) /\ new[i] = old[k + i]
  <2>1. /\ k + i \in 1..Len(old) /\ k + i > Len(a)
        /\ (k + i) - Len(a) > k /\ ((k + i) - Len(a)) - k = i - Len(a)
    <3>1. /\ Len(old) = Len(a) + Len(dc) /\ Len(dc) = k + Len(c) /\ Len(new) = Len(a) + Len(c)
          /\ k \in Nat /\ Len(a) \in Nat /\ Len(c) \in Nat
      BY <1>1, <1>2, <1>3
    <3>2. i \in Nat /\ i > Len(a) /\ i <= Len(new)
      BY <1>6, <3>1
    <3> QED BY ONLY <3>1, <3>2
  <2>2. (k + i) - Len(a) \in 1..Len(dc) /\ old[k + i] = dc[(k + i) - Len(a)]
    BY <1>2, <2>1
  <2>3. dc[(k + i) - Len(a)] = c[((k + i) - Len(a)) - k]
    BY <1>1, <2>1, <2>2
  <2>4. new[i] = c[i - Len(a)]
    BY <1>3, <1>6
  <2> QED BY <2>1, <2>2, <2>3, <2>4
<1>7. \A i \in 1..Len(new) : i <= Len(a) \/ i > Len(a)
  BY <1>2, <1>3
<1>8. /\ \A i \in 1..Len(old) : old[i] = Panes!Notice \/ old[i] \in 1..n
      /\ \A i, j \in 1..Len(old) :
           i < j /\ old[i] # Panes!Notice /\ old[j] # Panes!Notice => old[i] < old[j]
  BY <1>4 DEF Panes!CountFrom
<1>9. \A i \in 1..Len(new) : new[i] = Panes!Notice \/ new[i] \in 1..n
  BY <1>5, <1>6, <1>7, <1>8
<1>10. ASSUME NEW i \in 1..Len(new), NEW j \in 1..Len(new), i < j,
              new[i] # Panes!Notice, new[j] # Panes!Notice
       PROVE  new[i] < new[j]
  <2>1. CASE j <= Len(a)
    <3>1. i <= Len(a)
      BY <1>2, <1>3, <1>10, <2>1
    <3> QED BY <1>5, <1>8, <1>10, <2>1, <3>1
  <2>2. CASE i <= Len(a) /\ j > Len(a)
    <3>1. i < k + j
      BY <1>1, <1>3, <1>10
    <3> QED BY <1>5, <1>6, <1>8, <1>10, <2>2, <3>1
  <2>3. CASE i > Len(a)
    <3>1. j > Len(a) /\ k + i < k + j
      BY <1>1, <1>2, <1>3, <1>10, <2>3
    <3> QED BY <1>6, <1>8, <1>10, <2>3, <3>1
  <2> QED BY <1>7, <2>1, <2>2, <2>3
<1>11. \A line \in (n + 1)..n : FALSE
  OBVIOUS
<1>12. Panes!CountFrom(new, n, n)
  BY <1>9, <1>10, <1>11 DEF Panes!CountFrom
<1> QED BY <1>12 DEF new

\* Lists in a row, taken together in another way
LEMMA ThreeInARow ==
  ASSUME NEW x \in Seq(Nat), NEW y \in Seq(Nat), NEW z \in Seq(Nat)
  PROVE  (x \o y) \o z = x \o (y \o z)
  BY ConcatAssociative, SMTT(60)

\* The same, of the lines in the middle
LEMMA LeftOutInside ==
  ASSUME NEW a \in Seq(Nat), NEW d \in Seq(Nat), NEW q \in Seq(Nat), NEW p \in Seq(Nat),
         NEW n \in Nat, Panes!CountFrom((a \o (d \o q)) \o p, n, n)
  PROVE  Panes!CountFrom((a \o q) \o p, n, n)
<1> DEFINE dq == d \o q
           qp == q \o p
<1>1. dq \in Seq(Nat) /\ qp \in Seq(Nat)
  BY InARow
<1>2. Panes!CountFrom((a \o dq) \o p, n, n)
  OBVIOUS
<1>3. dq \o p = d \o qp
  BY ONLY d \in Seq(Nat), q \in Seq(Nat), p \in Seq(Nat), ThreeInARow
<1>4. (a \o q) \o p = a \o qp
  BY ONLY a \in Seq(Nat), q \in Seq(Nat), p \in Seq(Nat), ThreeInARow
<1>5. ASSUME NEW x \in Seq(Nat)
      PROVE  (a \o x) \o p = a \o (x \o p)
  BY ONLY a \in Seq(Nat), x \in Seq(Nat), p \in Seq(Nat), ThreeInARow
<1> HIDE DEF dq, qp
<1>6. (a \o dq) \o p = a \o (dq \o p)
  BY <1>1, <1>5, Zenon
<1>7. Panes!CountFrom(a \o (d \o qp), n, n)
  BY <1>2, <1>3, <1>6, Zenon
<1>8. Panes!CountFrom(a \o qp, n, n)
  BY <1>1, <1>7, LeftOut
<1> QED BY <1>4, <1>8, Zenon

\* Fewer lines must be there: those after a later one.
LEMMA FromLater ==
  ASSUME NEW s, NEW m \in Nat, NEW k \in Nat, NEW n \in Nat, m <= k,
         Panes!CountFrom(s, m, n)
  PROVE  Panes!CountFrom(s, k, n)
<1>1. \A line \in (k + 1)..n : line \in (m + 1)..n
  OBVIOUS
<1> QED BY <1>1 DEF Panes!CountFrom

\* A notice between the lines counts for nothing.
LEMMA NoticeBetween ==
  ASSUME NEW b \in Seq(Nat), NEW p \in Seq(Nat), NEW m \in Nat, NEW n \in Nat,
         Panes!CountFrom(b \o p, m, n)
  PROVE  Panes!CountFrom((b \o <<Panes!Notice>>) \o p, m, n)
<1> DEFINE r == <<Panes!Notice>>
           k == Len(b)
           old == b \o p
           br == b \o r
           new == br \o p
<1>1. r \in Seq(Nat) /\ Len(r) = 1 /\ r[1] = Panes!Notice
  BY DEF Panes!Notice
<1>2. Panes!CountFrom(old, m, n)
  OBVIOUS
<1>3. /\ k \in Nat /\ Len(p) \in Nat /\ Len(old) = k + Len(p)
      /\ \A i \in 1..k : old[i] = b[i]
      /\ \A i \in 1..Len(old) : i > k => i - k \in 1..Len(p) /\ old[i] = p[i - k]
  BY InARow
<1> HIDE DEF r, old
<1>4. /\ br \in Seq(Nat) /\ Len(br) = k + Len(r)
      /\ \A i \in 1..k : br[i] = b[i]
      /\ \A i \in 1..Len(br) : i > k => i - k \in 1..Len(r) /\ br[i] = r[i - k]
  <2>1. r \in Seq(Nat)
    BY <1>1
  <2> QED BY <2>1, InARow
<1> HIDE DEF br
<1>5. /\ Len(new) = Len(br) + Len(p)
      /\ \A i \in 1..Len(br) : new[i] = br[i]
      /\ \A i \in 1..Len(new) :
           i > Len(br) => i - Len(br) \in 1..Len(p) /\ new[i] = p[i - Len(br)]
  <2>1. br \in Seq(Nat)
    BY <1>4
  <2> QED BY <2>1, InARow
<1> HIDE DEF new, k
<1>6. /\ Len(br) = k + 1 /\ Len(new) = k + 1 + Len(p)
      /\ \A i \in 1..k : old[i] = b[i] /\ new[i] = b[i]
  BY <1>1, <1>3, <1>4, <1>5
<1>7. new[k + 1] = Panes!Notice
  <2>1. k + 1 \in 1..Len(br) /\ k + 1 > k /\ (k + 1) - k = 1
    <3>1. k \in Nat /\ Len(br) = k + 1
      BY <1>3, <1>6
    <3> QED BY ONLY <3>1
  <2>2. br[k + 1] = r[(k + 1) - k]
    BY <1>4, <2>1
  <2> QED BY <1>1, <1>5, <2>1, <2>2
\* The place in the old lines of a place in the new ones, and the other way round
<1>8. ASSUME NEW i \in 1..Len(new), i > k + 1
      PROVE  i - 1 \in 1..Len(old) /\ new[i] = old[i - 1]
  <2>1. /\ i - 1 \in 1..Len(old) /\ i - 1 > k
        /\ (i - 1) - k = i - (k + 1) /\ i > Len(br)
    BY <1>3, <1>6, <1>8
  <2>2. new[i] = p[i - (k + 1)]
    BY <1>5, <1>6, <2>1
  <2>3. old[i - 1] = p[(i - 1) - k]
    BY <1>3, <2>1
  <2> QED BY <2>1, <2>2, <2>3
<1>9. ASSUME NEW i \in 1..Len(new), i <= k
      PROVE  i \in 1..Len(old) /\ new[i] = old[i]
  BY <1>3, <1>6, <1>9
<1>10. \A i \in 1..Len(new) : i <= k \/ i = k + 1 \/ i > k + 1
  BY <1>3, <1>6
<1>11. \A j \in 1..Len(old) : \E i \in 1..Len(new) : new[i] = old[j]
  <2>1. ASSUME NEW j \in 1..Len(old), j <= k
        PROVE  \E i \in 1..Len(new) : new[i] = old[j]
    BY <1>3, <1>6, <2>1
  <2>2. ASSUME NEW j \in 1..Len(old), j > k
        PROVE  \E i \in 1..Len(new) : new[i] = old[j]
    <3>1. j + 1 \in 1..Len(new) /\ j + 1 > k + 1 /\ (j + 1) - 1 = j
      BY <1>3, <1>6, <2>2
    <3>2. new[j + 1] = old[(j + 1) - 1]
      BY <1>8, <3>1
    <3> QED BY <3>1, <3>2
  <2>3. \A j \in 1..Len(old) : j <= k \/ j > k
    BY <1>3
  <2> QED BY <2>1, <2>2, <2>3
<1>12. /\ \A i \in 1..Len(old) : old[i] = Panes!Notice \/ old[i] \in 1..n
       /\ \A line \in (m + 1)..n : \E i \in 1..Len(old) : old[i] = line
       /\ \A i, j \in 1..Len(old) :
            i < j /\ old[i] # Panes!Notice /\ old[j] # Panes!Notice => old[i] < old[j]
  BY <1>2 DEF Panes!CountFrom
<1>13. \A i \in 1..Len(new) : new[i] = Panes!Notice \/ new[i] \in 1..n
  BY <1>7, <1>8, <1>9, <1>10, <1>12
<1>14. \A line \in (m + 1)..n : \E i \in 1..Len(new) : new[i] = line
  BY <1>11, <1>12
<1>15. ASSUME NEW i \in 1..Len(new), NEW j \in 1..Len(new), i < j,
              new[i] # Panes!Notice, new[j] # Panes!Notice
       PROVE  new[i] < new[j]
  <2>1. i # k + 1 /\ j # k + 1
    BY <1>7, <1>15
  <2>2. CASE j <= k
    BY <1>3, <1>9, <1>12, <1>15, <2>2
  <2>3. CASE i <= k /\ j > k + 1
    <3>1. i < j - 1
      BY <1>3, <2>3
    <3> QED BY <1>8, <1>9, <1>12, <1>15, <2>3, <3>1
  <2>4. CASE i > k + 1
    <3>1. j > k + 1 /\ i - 1 < j - 1
      BY <1>3, <1>15, <2>4
    <3> QED BY <1>8, <1>12, <1>15, <2>4, <3>1
  <2> QED BY <1>3, <1>10, <1>15, <2>1, <2>2, <2>3, <2>4
<1>16. Panes!CountFrom(new, m, n)
  BY <1>13, <1>14, <1>15 DEF Panes!CountFrom
<1> QED BY <1>16 DEF new, br, r

\* The next event comes behind the others.
LEMMA NextLine ==
  ASSUME NEW s \in Seq(Nat), NEW m \in Nat, NEW n \in Nat, m <= n, Panes!CountFrom(s, m, n)
  PROVE  Panes!CountFrom(s \o <<n + 1>>, m, n + 1)
<1> DEFINE r == <<n + 1>>
<1>1. r \in Seq(Nat) /\ Len(r) = 1 /\ r[1] = n + 1 /\ n \in Nat
  OBVIOUS
<1>2. Panes!CountFrom(s, m, n)
  OBVIOUS
<1> HIDE DEF r
<1> DEFINE all == s \o r
<1>3. all = s \o r
  OBVIOUS
<1> HIDE DEF all
<1>4. /\ Len(all) = Len(s) + 1 /\ Len(s) \in Nat
      /\ \A i \in 1..Len(s) : all[i] = s[i]
      /\ all[Len(s) + 1] = n + 1
  <2>1. /\ Len(all) = Len(s) + Len(r) /\ Len(s) \in Nat
        /\ \A i \in 1..Len(s) : all[i] = s[i]
        /\ \A i \in 1..Len(all) :
             i > Len(s) => i - Len(s) \in 1..Len(r) /\ all[i] = r[i - Len(s)]
    <3>1. r \in Seq(Nat)
      BY <1>1
    <3> QED BY <1>3, <3>1, InARow
  <2>2. Len(s) + 1 \in 1..Len(all) /\ Len(s) + 1 > Len(s) /\ (Len(s) + 1) - Len(s) = 1
    BY <1>1, <2>1
  <2> QED BY <1>1, <2>1, <2>2
<1>5. /\ \A i \in 1..Len(s) : s[i] = Panes!Notice \/ s[i] \in 1..n
      /\ \A line \in (m + 1)..n : \E i \in 1..Len(s) : s[i] = line
      /\ \A i, j \in 1..Len(s) :
           i < j /\ s[i] # Panes!Notice /\ s[j] # Panes!Notice => s[i] < s[j]
  BY <1>2 DEF Panes!CountFrom
<1>6. ASSUME NEW i \in 1..Len(all)
      PROVE  (i \in 1..Len(s) /\ all[i] = s[i]) \/ (i = Len(s) + 1 /\ all[i] = n + 1)
  <2>1. i \in 1..Len(s) \/ i = Len(s) + 1
    BY <1>4
  <2> QED BY <1>4, <2>1
<1>7. \A i \in 1..Len(s) : i \in 1..Len(all) /\ all[i] = s[i]
  BY <1>4
<1>8. Len(s) + 1 \in 1..Len(all) /\ all[Len(s) + 1] = n + 1
  BY <1>4
<1>9. \A i \in 1..Len(all) : all[i] = Panes!Notice \/ all[i] \in 1..(n + 1)
  <2>1. ASSUME NEW i \in 1..Len(all)
        PROVE  all[i] = Panes!Notice \/ all[i] \in 1..(n + 1)
    <3>1. CASE i \in 1..Len(s) /\ all[i] = s[i]
      <4>1. \A k \in 1..n : k \in 1..(n + 1)
        BY <1>1
      <4> QED BY <1>5, <3>1, <4>1
    <3>2. CASE i = Len(s) + 1 /\ all[i] = n + 1
      BY <1>1, <3>2
    <3> QED BY <1>6, <3>1, <3>2
  <2> QED BY <2>1
<1>10. \A line \in (m + 1)..(n + 1) : \E i \in 1..Len(all) : all[i] = line
  <2>1. \A line \in (m + 1)..(n + 1) : line \in (m + 1)..n \/ line = n + 1
    BY <1>1
  <2> QED BY <1>5, <1>7, <1>8, <2>1
<1>11. \A i, j \in 1..Len(all) :
        i < j /\ all[i] # Panes!Notice /\ all[j] # Panes!Notice => all[i] < all[j]
  <2>1. \A i, j \in 1..Len(all) : i < j => i \in 1..Len(s) /\ all[i] = s[i]
    BY <1>4, <1>6
  <2>2. \A i \in 1..Len(s) : s[i] # Panes!Notice => s[i] < n + 1
    BY <1>1, <1>5
  <2> QED BY <1>5, <1>6, <2>1, <2>2
<1>12. Panes!CountFrom(s \o r, m, n + 1)
  BY <1>3, <1>9, <1>10, <1>11 DEF Panes!CountFrom
<1> QED BY <1>12 DEF r

\* The pane after a step that shows tab t: of a tab not shown before it has the
\* whole buffer, of the same tab what it had and what the buffer has beyond the
\* lines rendered.
LEMMA ShowParts ==
  ASSUME PaneInv, NEW t \in PaneTabs, Panes!Show(t), buffers' \in [PaneTabs -> Seq(Nat)],
         pending' \in [PaneTabs -> Seq(Nat)],
         tabs'[t] = "open", BuffersCount',
         NEW q, q = SubSeq(buffers'[t], Len(buffers[t]) + 1, Len(buffers'[t])),
         t = pane.tab =>
             /\ q \in Seq(Nat)
             /\ Panes!CountFrom((pane.written \o q) \o pending'[t], LinesFrom(t)', outputs'[t])
  PROVE  /\ pane' = [tab |-> pane'.tab, count |-> pane'.count, written |-> pane'.written]
         /\ PaneShowsATab' /\ PaneShowsLines'
<1> DEFINE lines == buffers'[t]
<1>0. t # NoPane /\ lines \in Seq(Nat)
  BY WindowAssumption
<1>1. CASE t # pane.tab
  <2>1. pane' = [tab |-> t, count |-> Len(lines),
                 written |-> <<>> \o SubSeq(lines, 0 + 1, Len(lines))]
    BY <1>0, <1>1 DEF Panes!Show, Panes!Pane, Panes!RenderNewLines, Panes!NoLines
  <2>2. <<>> \o SubSeq(lines, 0 + 1, Len(lines)) = lines
    BY <1>0, FirstLines
  <2>3. Panes!CountFrom(lines \o pending'[t], LinesFrom(t)', outputs'[t])
    BY DEF BuffersCount
  <2> HIDE DEF lines
  <2>4. pane'.tab = t /\ pane'.count = Len(lines) /\ pane'.written = lines
    BY <2>1, <2>2
  <2> QED BY <1>0, <2>1, <2>3, <2>4 DEF PaneShowsATab, PaneShowsLines, lines
<1>2. CASE t = pane.tab
  <2> DEFINE count == pane.count
             written == pane.written
  <2>1. count = Len(buffers[t]) /\ written \in Seq(Nat)
    BY <1>2 DEF PaneInv, PaneShowsLines
  <2>2. pane' = [tab |-> t, count |-> Len(lines), written |-> written \o q]
    <3>1. pane = [tab |-> t, count |-> count, written |-> written]
      BY <1>2 DEF PaneInv, PaneType
    <3>2. pane' = [pane EXCEPT !.count = Len(lines),
                               !.written = written \o SubSeq(lines, count + 1, Len(lines))]
      BY <1>0, <1>2 DEF Panes!Show, Panes!Pane, Panes!RenderNewLines
    <3>3. q = SubSeq(lines, count + 1, Len(lines))
      BY <2>1
    <3> HIDE DEF count, written, lines
    <3> QED BY <3>1, <3>2, <3>3
  <2>3. q \in Seq(Nat) /\ Panes!CountFrom((written \o q) \o pending'[t], LinesFrom(t)', outputs'[t])
    BY <1>2
  <2>4. written \o q \in Seq(Nat)
    BY <2>1, <2>3, InARow
  <2> HIDE DEF lines, written
  <2>5. pane'.tab = t /\ pane'.count = Len(lines) /\ pane'.written = written \o q
    BY <2>2
  <2> QED BY <2>2, <2>3, <2>4, <2>5 DEF PaneShowsATab, PaneShowsLines, lines
<1> QED BY <1>1, <1>2

\* Chunks, frames, switches of tabs, notices and hosts connected again keep the
\* invariant.
LEMMA PaneStep == PaneInv /\ [Panes!TerminalPaneNext]_Panes!paneVars => PaneInv'
<1> SUFFICES ASSUME PaneInv, [Panes!TerminalPaneNext]_Panes!paneVars
             PROVE  PaneInv'
  OBVIOUS
<1>1. PaneType /\ BuffersCount /\ PaneShowsATab /\ PaneShowsLines
  BY DEF PaneInv
<1>2. \A t \in PaneTabs :
        /\ buffers[t] \in Seq(Nat) /\ pending[t] \in Seq(Nat)
        /\ outputs[t] \in Nat /\ since[t] \in Nat /\ since[t] <= outputs[t]
        /\ LinesFrom(t) \in Nat /\ LinesFrom(t) <= outputs[t]
  BY <1>1 DEF PaneType, LinesFrom
<1>3. \A t \in PaneTabs :
        Panes!CountFrom(buffers[t] \o pending[t], LinesFrom(t), outputs[t])
  BY <1>1 DEF BuffersCount
<1>4. \A t \in PaneTabs : t = pane.tab =>
        /\ tabs[t] = "open" /\ pane.count = Len(buffers[t]) /\ pane.written \in Seq(Nat)
        /\ Panes!CountFrom(pane.written \o pending[t], LinesFrom(t), outputs[t])
  BY <1>1 DEF PaneShowsLines
<1>5. <<>> \in Seq(Nat) /\ <<Panes!Notice>> \in Seq(Nat)
  BY DEF Panes!Notice
\* The lines of a tab are in their order whatever must be there.
<1>6. \A t \in PaneTabs : Panes!CountFrom(buffers[t] \o pending[t], outputs[t], outputs[t])
  BY <1>2, <1>3, FromLater
<1>7. \A t \in PaneTabs : t = pane.tab =>
        Panes!CountFrom(pane.written \o pending[t], outputs[t], outputs[t])
  BY <1>2, <1>4, FromLater
\* A pane that shows the same buffer again gets nothing.
<1>8. ASSUME NEW t \in PaneTabs, Panes!Show(t), buffers' \in [PaneTabs -> Seq(Nat)],
             UNCHANGED <<outputs, pending, since, trimmed>>,
             buffers'[t] = buffers[t], tabs'[t] = "open", tabs[t] = "open", BuffersCount'
      PROVE  /\ pane' = [tab |-> pane'.tab, count |-> pane'.count, written |-> pane'.written]
             /\ PaneShowsATab' /\ PaneShowsLines'
  <2> DEFINE q == SubSeq(buffers'[t], Len(buffers[t]) + 1, Len(buffers'[t]))
  <2>1. q = <<>>
    BY <1>2, <1>8, NothingAfter
  <2>2. LinesFrom(t)' = LinesFrom(t)
    BY <1>8 DEF LinesFrom
  <2>3. t = pane.tab => pane.written \o <<>> = pane.written
    BY <1>4, NothingAfter
  <2>4. pending' \in [PaneTabs -> Seq(Nat)]
    BY <1>1, <1>8 DEF PaneType
  <2>5. t = pane.tab =>
             /\ q \in Seq(Nat)
             /\ Panes!CountFrom((pane.written \o q) \o pending'[t], LinesFrom(t)', outputs'[t])
    BY <1>4, <1>5, <1>8, <2>1, <2>2, <2>3
  <2> HIDE DEF q
  <2> QED BY <1>8, <2>4, <2>5, ShowParts DEF q
<1>9. ASSUME NEW t \in PaneTabs, Panes!OpenTab(t)
      PROVE  PaneInv'
  <2> DEFINE new == Panes!TrimLines(<<Panes!Notice>>)
             n == outputs[t]
             p == pending[t]
             b == buffers[t]
             r == <<Panes!Notice>>
  <2>1. /\ tabs' = [tabs EXCEPT ![t] = "open"]
        /\ buffers' = [buffers EXCEPT ![t] = new]
        /\ since' = [since EXCEPT ![t] = n]
        /\ trimmed' = trimmed \ {t}
        /\ Panes!Show(t) /\ UNCHANGED <<outputs, pending>>
    BY <1>9 DEF Panes!OpenTab
  <2>2. new \in Seq(Nat) /\ (new = <<>> \/ new = r)
    <3>1. CASE 1 <= MaxBufferedLines
      BY <1>5, <3>1, Trimmed DEF Panes!TrimLines
    <3>2. CASE ~(1 <= MaxBufferedLines)
      BY <3>2, WindowAssumption DEF Panes!TrimLines
    <3> QED BY <3>1, <3>2
  <2>3. n \in Nat /\ p \in Seq(Nat) /\ b \in Seq(Nat) /\ r \in Seq(Nat)
    BY <1>2, <1>5
  <2> HIDE DEF new, r
  <2>4. /\ buffers' \in [PaneTabs -> Seq(Nat)] /\ buffers'[t] = new
        /\ \A u \in PaneTabs : u # t => buffers'[u] = buffers[u]
    BY <1>1, <2>1, <2>2 DEF PaneType
  <2>5. /\ tabs' \in [PaneTabs -> {"open", "closed"}] /\ tabs'[t] = "open"
        /\ \A u \in PaneTabs : u # t => tabs'[u] = tabs[u]
    BY <1>1, <2>1 DEF PaneType
  <2>6. /\ since' \in [PaneTabs -> Nat] /\ since'[t] = n
        /\ \A u \in PaneTabs : u # t => since'[u] = since[u]
    BY <1>1, <2>1, <2>3 DEF PaneType
  <2>7. /\ LinesFrom(t)' = n
        /\ \A u \in PaneTabs : u # t => LinesFrom(u)' = LinesFrom(u)
    <3>1. LinesFrom(t)' = n
      BY <2>1, <2>5, <2>6 DEF LinesFrom
    <3>2. ASSUME NEW u \in PaneTabs, u # t
          PROVE  LinesFrom(u)' = LinesFrom(u)
      BY <2>1, <2>5, <2>6, <3>2 DEF LinesFrom
    <3> QED BY <3>1, <3>2
\* Lines in front of those that wait, kept or left out, with a notice between
  <2>8. ASSUME NEW a \in Seq(Nat), Panes!CountFrom(a \o p, n, n)
        PROVE  Panes!CountFrom((a \o new) \o p, n, n)
    <3>1. CASE new = <<>>
      BY <2>8, <3>1, NothingAfter
    <3>2. CASE new = r
      BY <2>3, <2>8, <3>2, NoticeBetween DEF r
    <3> QED BY <2>2, <3>1, <3>2
  <2>9. Panes!CountFrom(new \o p, n, n)
    <3>1. Panes!CountFrom(b \o p, n, n)
      BY <1>6
    <3>2. b \o p \in Seq(Nat) /\ <<>> \o (b \o p) = b \o p
      BY <2>3, InARow, NothingAfter
    <3> HIDE DEF n, p, b
    <3>3. Panes!CountFrom(<<>> \o p, n, n)
      BY <1>5, <2>3, <3>1, <3>2, LeftOut
    <3>4. Panes!CountFrom((<<>> \o new) \o p, n, n)
      BY <1>5, <2>8, <3>3
    <3> QED BY <2>2, <3>4, NothingAfter
  <2>10. BuffersCount'
    <3>1. ASSUME NEW u \in PaneTabs
          PROVE  Panes!CountFrom(buffers'[u] \o pending'[u], LinesFrom(u)', outputs'[u])
      <4>1. CASE u = t
        BY <2>1, <2>4, <2>7, <2>9, <4>1
      <4>2. CASE u # t
        BY <1>3, <2>1, <2>4, <2>7, <4>2
      <4> QED BY <4>1, <4>2
    <3> QED BY <3>1 DEF BuffersCount
  <2> DEFINE q == SubSeq(buffers'[t], Len(b) + 1, Len(buffers'[t]))
  <2>11. q = <<>> \/ q = new
    <3>1. CASE new = <<>>
      BY <2>3, <2>4, <3>1
    <3>2. CASE new = r
      <4>1. Len(b) = 0 \/ Len(b) > 0
        BY <2>3
      <4>2. CASE Len(b) > 0
        BY <2>3, <2>4, <3>2, <4>2 DEF r
      <4>3. CASE Len(b) = 0
        <5>1. <<>> \o SubSeq(new, 1, Len(new)) = new /\ SubSeq(new, 1, Len(new)) \in Seq(Nat)
          BY <2>2, FirstLines
        <5>2. SubSeq(new, 1, Len(new)) = new
          BY <5>1, NothingAfter
        <5> QED BY <2>4, <4>3, <5>2
      <4> QED BY <4>1, <4>2, <4>3
    <3> QED BY <2>2, <3>1, <3>2
  <2>12. t = pane.tab =>
             /\ q \in Seq(Nat)
             /\ Panes!CountFrom((pane.written \o q) \o pending'[t], LinesFrom(t)', outputs'[t])
    <3> SUFFICES ASSUME t = pane.tab
                 PROVE  /\ q \in Seq(Nat)
                        /\ Panes!CountFrom((pane.written \o q) \o pending'[t], LinesFrom(t)',
                                           outputs'[t])
      OBVIOUS
    <3>1. pane.written \in Seq(Nat) /\ Panes!CountFrom(pane.written \o p, n, n)
      BY <1>4, <1>7
    <3>2. LinesFrom(t)' = n /\ outputs'[t] = n /\ pending'[t] = p
      BY <2>1, <2>7
    <3>3. q \in Seq(Nat)
      BY <1>5, <2>2, <2>11
    <3> HIDE DEF q, n, p
    <3>4. CASE q = <<>>
      BY <3>1, <3>2, <3>3, <3>4, NothingAfter
    <3>5. CASE q = new
      BY <2>8, <3>1, <3>2, <3>3, <3>5
    <3> QED BY <2>11, <3>4, <3>5
  <2> HIDE DEF q
  <2>13. pending' \in [PaneTabs -> Seq(Nat)]
    BY <1>1, <2>1 DEF PaneType
  <2>14. /\ pane' = [tab |-> pane'.tab, count |-> pane'.count, written |-> pane'.written]
         /\ PaneShowsATab' /\ PaneShowsLines'
    BY <2>1, <2>4, <2>5, <2>10, <2>12, <2>13, ShowParts DEF q
  <2>15. PaneType'
    <3>1. \A u \in PaneTabs : since'[u] <= outputs'[u]
      BY <1>2, <2>1, <2>6
    <3> QED BY <1>1, <2>1, <2>4, <2>5, <2>6, <2>14, <3>1 DEF PaneType
  <2> QED BY <2>10, <2>14, <2>15 DEF PaneInv
<1>10. ASSUME NEW t \in PaneTabs, Panes!CloseTab(t)
      PROVE  PaneInv'
  <2>1. /\ tabs[t] = "open" /\ tabs' = [tabs EXCEPT ![t] = "closed"]
        /\ buffers' = [buffers EXCEPT ![t] = <<>>]
        /\ UNCHANGED <<outputs, pending, since, trimmed>>
    BY <1>10 DEF Panes!CloseTab
  <2>2. /\ buffers' \in [PaneTabs -> Seq(Nat)] /\ buffers'[t] = <<>>
        /\ \A u \in PaneTabs : u # t => buffers'[u] = buffers[u]
    BY <1>1, <1>5, <2>1 DEF PaneType
  <2>3. /\ tabs' \in [PaneTabs -> {"open", "closed"}] /\ tabs'[t] = "closed"
        /\ \A u \in PaneTabs : u # t => tabs'[u] = tabs[u]
    BY <1>1, <2>1 DEF PaneType
  <2>4. BuffersCount'
    <3>1. ASSUME NEW u \in PaneTabs
          PROVE  Panes!CountFrom(buffers'[u] \o pending'[u], LinesFrom(u)', outputs'[u])
      <4>1. CASE u = t
        <5>1. LinesFrom(u)' = outputs[t]
          BY <2>1, <2>3, <4>1 DEF LinesFrom
        <5>2. Panes!CountFrom(buffers[t] \o pending[t], outputs[t], outputs[t])
          BY <1>6
        <5>3. buffers[t] \o pending[t] \in Seq(Nat)
                /\ <<>> \o (buffers[t] \o pending[t]) = buffers[t] \o pending[t]
          BY <1>2, InARow, NothingAfter
        <5>4. Panes!CountFrom(<<>> \o pending[t], outputs[t], outputs[t])
          BY <1>2, <1>5, <5>2, <5>3, LeftOut
        <5> QED BY <2>1, <2>2, <4>1, <5>1, <5>4
      <4>2. CASE u # t
        <5>1. LinesFrom(u)' = LinesFrom(u)
          BY <2>1, <2>3, <4>2 DEF LinesFrom
        <5> QED BY <1>3, <2>1, <2>2, <4>2, <5>1
      <4> QED BY <4>1, <4>2
    <3> QED BY <3>1 DEF BuffersCount
  <2>5. /\ pane' = [tab |-> pane'.tab, count |-> pane'.count, written |-> pane'.written]
        /\ PaneShowsATab' /\ PaneShowsLines'
    <3>1. ASSUME NEW u, Panes!Show(u), u = NoPane
          PROVE  /\ pane' = [tab |-> pane'.tab, count |-> pane'.count, written |-> pane'.written]
                 /\ PaneShowsATab' /\ PaneShowsLines'
      <4>1. pane' = [tab |-> NoPane, count |-> 0, written |-> <<>>]
        BY <3>1 DEF Panes!Show, Panes!NoLines
      <4>2. pane'.tab = NoPane /\ \A v \in PaneTabs : v # NoPane
        BY <4>1, WindowAssumption
      <4> QED BY <4>1, <4>2 DEF PaneShowsATab, PaneShowsLines
    <3>2. CASE pane.tab # t
      <4>1. Panes!Show(pane.tab)
        BY <1>10, <3>2 DEF Panes!CloseTab
      <4>2. pane.tab # NoPane => pane.tab \in PaneTabs
        BY <1>1 DEF PaneShowsATab
      <4>3. pane.tab # NoPane => /\ tabs'[pane.tab] = "open" /\ tabs[pane.tab] = "open"
                                 /\ buffers'[pane.tab] = buffers[pane.tab]
        BY <1>4, <2>2, <2>3, <3>2, <4>2
      <4> QED BY <1>8, <2>1, <2>2, <2>4, <3>1, <4>1, <4>2, <4>3
    <3>3. CASE pane.tab = t
      <4>1. PICK u \in {v \in PaneTabs : tabs'[v] = "open"} \cup {NoPane} : Panes!Show(u)
        BY <1>10, <3>3 DEF Panes!CloseTab
      <4>2. u # NoPane => /\ u \in PaneTabs /\ u # t /\ tabs'[u] = "open" /\ tabs[u] = "open"
                          /\ buffers'[u] = buffers[u]
        BY <2>2, <2>3, <4>1
      <4> QED BY <1>8, <2>1, <2>2, <2>4, <3>1, <4>1, <4>2
    <3> QED BY <3>2, <3>3
  <2> QED BY <1>1, <2>1, <2>2, <2>3, <2>4, <2>5 DEF PaneInv, PaneType
<1>11. ASSUME NEW t \in PaneTabs, Panes!SwitchTab(t)
      PROVE  PaneInv'
  <2>1. /\ tabs[t] = "open" /\ Panes!Show(t)
        /\ UNCHANGED <<tabs, since, outputs, pending, buffers, trimmed>>
    BY <1>11 DEF Panes!SwitchTab
  <2>2. PaneType => buffers' \in [PaneTabs -> Seq(Nat)]
    BY <2>1 DEF PaneType
  <2>3. BuffersCount'
    BY <1>1, <2>1 DEF BuffersCount, LinesFrom
  <2>4. /\ pane' = [tab |-> pane'.tab, count |-> pane'.count, written |-> pane'.written]
        /\ PaneShowsATab' /\ PaneShowsLines'
    BY <1>1, <1>8, <2>1, <2>2, <2>3
  <2> QED BY <1>1, <2>1, <2>3, <2>4 DEF PaneInv, PaneType
<1>12. CASE Panes!Remount
  <2>1. pane.tab # NoPane /\ UNCHANGED <<tabs, since, outputs, pending, buffers, trimmed>>
    BY <1>12 DEF Panes!Remount
  <2>2. PICK t \in PaneTabs : t = pane.tab
    BY <1>1, <2>1 DEF PaneShowsATab
  <2> DEFINE lines == buffers[t]
  <2>3. pane' = [tab |-> t, count |-> Len(lines), written |-> <<>> \o SubSeq(lines, 0 + 1, Len(lines))]
    BY <1>12, <2>2 DEF Panes!Remount, Panes!RenderNewLines, Panes!NoLines
  <2>4. t \in PaneTabs /\ tabs[t] = "open" /\ lines \in Seq(Nat)
    BY <1>2, <1>4, <2>2
  <2>5. Panes!CountFrom(lines \o pending[t], LinesFrom(t), outputs[t])
    BY <1>3
  <2> HIDE DEF lines
  <2>6. pane' = [tab |-> t, count |-> Len(lines), written |-> lines]
    BY <2>3, <2>4, FirstLines
  <2>7. pane'.tab = t /\ pane'.count = Len(lines) /\ pane'.written = lines
    BY <2>6
  <2>8. LinesFrom(t)' = LinesFrom(t)
    BY <2>1 DEF LinesFrom
  <2>9. BuffersCount'
    BY <1>1, <2>1 DEF BuffersCount, LinesFrom
  <2>10. PaneShowsATab' /\ PaneShowsLines'
    BY <2>1, <2>4, <2>5, <2>7, <2>8 DEF PaneShowsATab, PaneShowsLines, lines
  <2> QED BY <1>1, <2>1, <2>6, <2>9, <2>10 DEF PaneInv, PaneType
\* An event: the next number waits behind the others.
<1>13. ASSUME NEW t \in PaneTabs, Panes!HandleTerminalOutput(t)
       PROVE  PaneInv'
  <2> DEFINE n == outputs[t]
             r == <<n + 1>>
  <2>1. /\ tabs[t] = "open" /\ outputs' = [outputs EXCEPT ![t] = n + 1]
        /\ pending' = [pending EXCEPT ![t] = pending[t] \o r]
        /\ UNCHANGED <<tabs, since, buffers, trimmed, pane>>
    <3>1. /\ tabs[t] = "open" /\ outputs' = [outputs EXCEPT ![t] = n + 1]
          /\ pending' = [pending EXCEPT ![t] = Append(pending[t], outputs'[t])]
          /\ UNCHANGED <<tabs, since, buffers, trimmed, pane>>
      BY <1>13 DEF Panes!HandleTerminalOutput
    <3>2. outputs'[t] = n + 1
      BY <1>1, <3>1 DEF PaneType
    <3>3. ASSUME NEW p \in Seq(Nat)
          PROVE  Append(p, n + 1) = p \o r
      BY <1>2, AppendIsConcat
    <3> QED BY <1>2, <3>1, <3>2, <3>3
  <2>2. r \in Seq(Nat) /\ n \in Nat
    BY <1>2
  <2>3. pending[t] \o r \in Seq(Nat)
    BY <1>2, <2>2, InARow
  <2>4. /\ outputs' \in [PaneTabs -> Nat] /\ outputs'[t] = n + 1
        /\ \A u \in PaneTabs : u # t => outputs'[u] = outputs[u]
    BY <1>1, <2>1, <2>2 DEF PaneType
  <2>5. /\ pending' \in [PaneTabs -> Seq(Nat)] /\ pending'[t] = pending[t] \o r
        /\ \A u \in PaneTabs : u # t => pending'[u] = pending[u]
    BY <1>1, <2>1, <2>3 DEF PaneType
  <2>6. \A u \in PaneTabs : u # t => LinesFrom(u)' = LinesFrom(u)
    BY <2>1, <2>4 DEF LinesFrom
\* What is in front of the waiting lines, with one more of them
  <2>7. ASSUME NEW a \in Seq(Nat), Panes!CountFrom(a \o pending[t], LinesFrom(t), n)
        PROVE  Panes!CountFrom(a \o (pending[t] \o r), LinesFrom(t)', n + 1)
    <3> DEFINE s == a \o pending[t]
               m == LinesFrom(t)
    <3>1. a \o (pending[t] \o r) = s \o r /\ s \in Seq(Nat)
      <4>1. \A b, p \in Seq(Nat) : b \o (p \o r) = (b \o p) \o r
        BY <2>2, ConcatAssociative
      <4> QED BY <1>2, <4>1, InARow
    <3>2. m \in Nat /\ m <= n
      BY <1>2
    <3>3. Panes!CountFrom(s, m, n)
      BY <2>7
    <3> HIDE DEF s, m, n
    <3>4. Panes!CountFrom(s \o r, m, n + 1)
      BY <2>2, <3>1, <3>2, <3>3, NextLine
    <3>5. LinesFrom(t)' = m \/ LinesFrom(t)' = n + 1
      BY <2>1, <2>4 DEF LinesFrom, m
    <3>6. Panes!CountFrom(s \o r, n + 1, n + 1)
      BY <2>2, <3>2, <3>4, FromLater
    <3> QED BY <3>1, <3>4, <3>5, <3>6
  <2> HIDE DEF r, n
  <2>8. BuffersCount'
    <3>1. ASSUME NEW u \in PaneTabs
          PROVE  Panes!CountFrom(buffers'[u] \o pending'[u], LinesFrom(u)', outputs'[u])
      <4>1. CASE u = t
        BY <1>2, <1>3, <2>1, <2>4, <2>5, <2>7, <4>1 DEF n
      <4>2. CASE u # t
        BY <1>3, <2>1, <2>4, <2>5, <2>6, <4>2
      <4> QED BY <4>1, <4>2
    <3> QED BY <3>1 DEF BuffersCount
  <2>9. PaneShowsLines'
    <3>1. ASSUME NEW u \in PaneTabs, u = pane.tab
          PROVE  Panes!CountFrom(pane.written \o pending'[u], LinesFrom(u)', outputs'[u])
      <4>1. CASE u = t
        BY <1>4, <2>4, <2>5, <2>7, <3>1, <4>1 DEF n
      <4>2. CASE u # t
        BY <1>4, <2>4, <2>5, <2>6, <3>1, <4>2
      <4> QED BY <4>1, <4>2
    <3> QED BY <1>4, <2>1, <3>1 DEF PaneShowsLines
  <2>10. PaneShowsATab'
    BY <1>1, <2>1 DEF PaneShowsATab
  <2>11. PaneType'
    <3>1. \A u \in PaneTabs : since'[u] <= outputs'[u]
      BY <1>2, <2>1, <2>2, <2>4 DEF n
    <3> QED BY <1>1, <2>1, <2>4, <2>5, <3>1 DEF PaneType
  <2> QED BY <2>8, <2>9, <2>10, <2>11 DEF PaneInv
\* Lines for the tabs: the buffer of an open tab gets them, or it is trimmed.
\* In front of the lines that wait then, what was in front of those that waited
\* has the new ones in its order.
<1>14. ASSUME NEW lines \in [PaneTabs -> Seq(Nat)], Panes!AppendLines(lines),
              UNCHANGED <<tabs, since, outputs>>, pending' \in [PaneTabs -> Seq(Nat)],
              \A t \in PaneTabs : \A a \in Seq(Nat) : \A m \in Nat :
                  Panes!CountFrom(a \o pending[t], m, outputs[t]) =>
                      Panes!CountFrom((a \o lines[t]) \o pending'[t], m, outputs[t])
       PROVE  PaneInv'
  <2>1. /\ buffers' = [t \in PaneTabs |-> IF tabs[t] = "open"
                         THEN Panes!TrimLines(buffers[t] \o lines[t]) ELSE buffers[t]]
        /\ trimmed' = trimmed \cup {t \in PaneTabs :
                         tabs[t] = "open" /\ Len(buffers[t] \o lines[t]) > MaxBufferedLines}
        /\ Panes!Show(pane.tab)
    BY <1>14 DEF Panes!AppendLines
  <2>2. \A t \in PaneTabs : buffers[t] \o lines[t] \in Seq(Nat)
    BY <1>2, <1>14, InARow
  <2>3. \A t \in PaneTabs : Panes!TrimLines(buffers[t] \o lines[t]) \in Seq(Nat)
    BY <2>2, Trimmed
  <2>4. buffers' \in [PaneTabs -> Seq(Nat)]
    BY <1>2, <2>1, <2>3
  <2>5. \A t \in PaneTabs : t \notin trimmed' => LinesFrom(t)' = LinesFrom(t)
    BY <1>14, <2>1 DEF LinesFrom
  <2>6. \A t \in PaneTabs : t \in trimmed' \/ tabs[t] = "closed" => LinesFrom(t)' = outputs[t]
    BY <1>14 DEF LinesFrom
  <2>7. \A t \in PaneTabs : tabs[t] = "open" \/ tabs[t] = "closed"
    BY <1>1 DEF PaneType
  <2>8. \A t \in PaneTabs : t \notin trimmed' /\ tabs[t] = "open" =>
           Len(buffers[t] \o lines[t]) <= MaxBufferedLines
    <3>1. \A t \in PaneTabs : Len(buffers[t] \o lines[t]) \in Nat
      BY <2>2
    <3>2. \A t \in PaneTabs : t \notin trimmed' /\ tabs[t] = "open" =>
             ~(Len(buffers[t] \o lines[t]) > MaxBufferedLines)
      BY <2>1
    <3> QED BY <3>1, <3>2, WindowAssumption
  <2>9. ASSUME NEW t \in PaneTabs
        PROVE  Panes!CountFrom(buffers'[t] \o pending'[t], LinesFrom(t)', outputs'[t])
    <3> DEFINE b == buffers[t]
               l == lines[t]
               p == pending'[t]
               n == outputs[t]
    <3>1. b \in Seq(Nat) /\ l \in Seq(Nat) /\ p \in Seq(Nat) /\ n \in Nat
      BY <1>2, <1>14
    <3>2. \A m \in Nat : Panes!CountFrom(b \o pending[t], m, n) =>
                             Panes!CountFrom((b \o l) \o p, m, n)
      BY <1>14, <3>1
    <3>3. Panes!CountFrom((b \o l) \o p, n, n)
      BY <1>6, <3>1, <3>2
    <3>4. Panes!CountFrom((b \o l) \o p, LinesFrom(t), n)
      BY <1>2, <1>3, <3>2
    <3>5. outputs'[t] = n
      BY <1>14
    <3>6. b \o l \in Seq(Nat)
      BY <2>2
    <3>7. CASE tabs[t] = "open" /\ t \notin trimmed'
      <4>1. buffers'[t] = b \o l
        BY <2>1, <2>2, <2>8, <3>7, Trimmed
      <4> QED BY <2>5, <3>4, <3>5, <3>7, <4>1
    <3>8. CASE tabs[t] = "open" /\ t \in trimmed'
      <4> DEFINE T == Panes!TrimLines(b \o l)
      <4>1. buffers'[t] = T /\ LinesFrom(t)' = n
        BY <2>1, <2>6, <3>8
      <4> HIDE DEF n, p
      <4>2. PICK d \in Seq(Nat) : b \o l = d \o T
        BY <3>6, Trimmed
      <4>3. T \in Seq(Nat)
        BY <3>6, Trimmed
      <4> HIDE DEF T, b, l
      <4>4. <<>> \o (d \o T) = d \o T /\ <<>> \o T = T
        BY <3>6, <4>2, <4>3, NothingAfter
      <4>5. Panes!CountFrom((<<>> \o (d \o T)) \o p, n, n)
        BY <3>3, <4>2, <4>4
      <4>6. Panes!CountFrom((<<>> \o T) \o p, n, n)
        BY <1>5, <3>1, <4>3, <4>5, LeftOutInside
      <4> QED BY <3>5, <4>1, <4>4, <4>6 DEF p
    <3>9. CASE tabs[t] = "closed"
      <4>1. buffers'[t] = b /\ LinesFrom(t)' = n
        BY <2>1, <2>6, <3>9
      <4> HIDE DEF n, p, b, l
      <4>2. l \o <<>> = l /\ b \o <<>> = b
        BY <3>1, NothingAfter
      <4>3. Panes!CountFrom((b \o (l \o <<>>)) \o p, n, n)
        BY <3>3, <4>2
      <4>4. Panes!CountFrom((b \o <<>>) \o p, n, n)
        BY <1>5, <3>1, <4>3, LeftOutInside
      <4> QED BY <3>5, <4>1, <4>2, <4>4 DEF p
    <3> QED BY <2>7, <3>7, <3>8, <3>9
  <2>10. BuffersCount'
    BY <2>9 DEF BuffersCount
  <2>11. ASSUME NEW t \in PaneTabs, t = pane.tab
         PROVE  /\ pane' = [tab |-> pane'.tab, count |-> pane'.count, written |-> pane'.written]
                /\ PaneShowsATab' /\ PaneShowsLines'
    <3> DEFINE b == buffers[t]
               l == lines[t]
               p == pending'[t]
               n == outputs[t]
               w == pane.written
               new == Panes!TrimLines(b \o l)
               q == Rendered(b, l)
    <3>1. /\ b \in Seq(Nat) /\ l \in Seq(Nat) /\ p \in Seq(Nat) /\ n \in Nat /\ w \in Seq(Nat)
          /\ tabs[t] = "open"
      BY <1>2, <1>4, <1>14, <2>11
    <3>2. buffers'[t] = new /\ outputs'[t] = n /\ tabs'[t] = "open" /\ Panes!Show(t)
      BY <1>14, <2>1, <2>11, <3>1
    <3>3. \A m \in Nat : Panes!CountFrom(w \o pending[t], m, n) =>
                             Panes!CountFrom((w \o l) \o p, m, n)
      BY <1>14, <3>1
    <3>4. Panes!CountFrom((w \o l) \o p, n, n)
      BY <1>7, <2>11, <3>1, <3>3
    <3>5. Panes!CountFrom((w \o l) \o p, LinesFrom(t), n)
      BY <1>2, <1>4, <2>11, <3>3
    <3>6. /\ q \in Seq(Nat)
          /\ Len(b \o l) <= MaxBufferedLines => q = l
          /\ \E d \in Seq(Nat) : l = d \o q
      <4> HIDE DEF b, l
      <4> QED BY <3>1, LastLines
    <3>7. q = SubSeq(buffers'[t], Len(buffers[t]) + 1, Len(buffers'[t]))
      BY <3>2 DEF Rendered
    <3>8. t \notin trimmed' => Len(b \o l) <= MaxBufferedLines
      BY <2>8, <3>1
    <3> HIDE DEF q, new, w, l, b, p, n
    <3>9. Panes!CountFrom((w \o q) \o p, LinesFrom(t)', n)
      <4>1. CASE t \notin trimmed'
        BY <2>5, <3>5, <3>6, <3>8, <4>1
      <4>2. CASE t \in trimmed'
        <5>1. PICK d \in Seq(Nat) : l = d \o q
          BY <3>6
        <5>2. Panes!CountFrom((w \o q) \o p, n, n)
          BY <3>1, <3>4, <3>6, <5>1, LeftOutInside
        <5> QED BY <2>6, <4>2, <5>2 DEF n
      <4> QED BY <4>1, <4>2
    <3>10. Panes!CountFrom((pane.written \o q) \o pending'[t], LinesFrom(t)', outputs'[t])
      BY <3>2, <3>9 DEF w, p
    <3> QED BY <1>14, <2>4, <2>10, <3>2, <3>6, <3>7, <3>10, ShowParts
  <2>12. /\ pane' = [tab |-> pane'.tab, count |-> pane'.count, written |-> pane'.written]
         /\ PaneShowsATab' /\ PaneShowsLines'
    <3>1. CASE pane.tab = NoPane
      <4>1. pane' = [tab |-> NoPane, count |-> 0, written |-> <<>>]
        BY <2>1, <3>1 DEF Panes!Show, Panes!NoLines
      <4>2. pane'.tab = NoPane /\ \A v \in PaneTabs : v # NoPane
        BY <4>1, WindowAssumption
      <4> QED BY <4>1, <4>2 DEF PaneShowsATab, PaneShowsLines
    <3>2. CASE pane.tab \in PaneTabs
      BY <2>11, <3>2
    <3> QED BY <1>1, <3>1, <3>2 DEF PaneShowsATab
  <2> QED BY <1>1, <1>14, <2>4, <2>10, <2>12 DEF PaneInv, PaneType
<1>15. ASSUME NEW t \in PaneTabs, Panes!AppendNotice(t)
       PROVE  PaneInv'
  <2> DEFINE r == <<Panes!Notice>>
             lines == [u \in PaneTabs |-> IF u = t THEN r ELSE <<>>]
  <2>1. Panes!AppendLines(lines) /\ UNCHANGED <<tabs, since, outputs, pending>>
    BY <1>15 DEF Panes!AppendNotice
  <2>2. lines \in [PaneTabs -> Seq(Nat)]
    BY <1>5
  <2>3. \A u \in PaneTabs : lines[u] = r \/ lines[u] = <<>>
    OBVIOUS
  <2> HIDE DEF lines
  <2>4. ASSUME NEW u \in PaneTabs, NEW a \in Seq(Nat), NEW m \in Nat,
               Panes!CountFrom(a \o pending[u], m, outputs[u])
        PROVE  Panes!CountFrom((a \o lines[u]) \o pending'[u], m, outputs[u])
    <3>1. pending'[u] = pending[u]
      BY <2>1
    <3>2. CASE lines[u] = r
      BY <1>2, <2>4, <3>1, <3>2, NoticeBetween
    <3>3. CASE lines[u] = <<>>
      BY <2>4, <3>1, <3>3, NothingAfter
    <3> QED BY <2>3, <3>2, <3>3
  <2>5. pending' \in [PaneTabs -> Seq(Nat)]
    BY <1>1, <2>1 DEF PaneType
  <2> QED BY <1>14, <2>1, <2>2, <2>4, <2>5
<1>16. CASE Panes!FlushOutput
  <2>1. Panes!AppendLines(pending) /\ UNCHANGED <<tabs, since, outputs>>
          /\ pending' = [t \in PaneTabs |-> <<>>]
    BY <1>16 DEF Panes!FlushOutput
  <2>2. pending' \in [PaneTabs -> Seq(Nat)] /\ \A t \in PaneTabs : pending'[t] = <<>>
    BY <1>5, <2>1
  <2>3. \A t \in PaneTabs : \A a \in Seq(Nat) : (a \o pending[t]) \o <<>> = a \o pending[t]
    <3>1. \A t \in PaneTabs : \A a \in Seq(Nat) : a \o pending[t] \in Seq(Nat)
      BY <1>2, InARow
    <3> QED BY <3>1, NothingAfter
  <2>4. pending \in [PaneTabs -> Seq(Nat)]
    BY <1>1 DEF PaneType
  <2> QED BY <1>14, <2>1, <2>2, <2>3, <2>4
<1>17. CASE UNCHANGED Panes!paneVars
  BY <1>1, <1>17 DEF Panes!paneVars, PaneInv, PaneType, BuffersCount, LinesFrom,
                     PaneShowsATab, PaneShowsLines
<1> QED
  BY <1>9, <1>10, <1>11, <1>12, <1>13, <1>15, <1>16, <1>17 DEF Panes!TerminalPaneNext

\* A step of the window is one of the pane or leaves it alone.
LEMMA PaneOfWindow == [WindowNext]_windowParts => [Panes!TerminalPaneNext]_Panes!paneVars
  BY DEF WindowNext, OthersStay, windowParts, paneVars, Panes!paneVars, overlays

\* The screen shows the output events once and in order, and all since the session
\* was connected unless the buffer has been trimmed, for any number of tabs, closed,
\* opened again and connected again any number of times, any cap of the buffers and
\* any number of events.
THEOREM OutputIsShownInOrder == WindowSpec => []OutputShownOnceInOrder
<1>1. WindowInit => PaneInv
  BY PaneStart DEF WindowInit
<1>2. PaneInv /\ [WindowNext]_windowParts => PaneInv'
  BY PaneStep, PaneOfWindow
<1>3. PaneInv => OutputShownOnceInOrder
  BY DEF PaneInv, PaneShowsATab, PaneShowsLines, LinesFrom, OutputShownOnceInOrder,
         Panes!OutputShownOnceInOrder
<1> QED BY <1>1, <1>2, <1>3, PTL DEF WindowSpec

---------------------------------------------------------------------------
(* The session tree. First what Array.filter gives as a function.          *)

\* A way through the places of P in their order
IsWalk(len, f, P) ==
    /\ f \in [1..len -> P] /\ \A i, j \in 1..len : i < j => f[i] < f[j]
    /\ \A k \in P : \E i \in 1..len : f[i] = k
Walk(m, P) == \E len \in 0..m : \E f : IsWalk(len, f, P)

\* Every set of places up to n has such a way.
LEMMA WalkExists == \A n \in Nat : \A P \in SUBSET (1..n) : Walk(n, P)
<1> DEFINE Bad == {m \in Nat : ~(\A P \in SUBSET (1..m) : Walk(m, P))}
<1>1. SUFFICES ASSUME Bad # {}
               PROVE  FALSE
  OBVIOUS
<1>2. PICK m \in Bad : \A k \in Bad : m <= k
  BY <1>1, FirstIsThere
<1>4. m \in Nat
  BY <1>2
<1>3. PICK P \in SUBSET (1..m) : ~Walk(m, P)
  BY <1>2
<1>7. \A k \in Nat : k < m => \A Q \in SUBSET (1..k) : Walk(k, Q)
  <2>1. \A k \in Nat : k < m => k \notin Bad
    <3> HIDE DEF Bad
    <3> QED BY <1>2, <1>4
  <2> QED BY <2>1
<1> HIDE DEF Bad
<1>5. CASE m = 0
  <2> DEFINE f == [i \in 1..0 |-> 0]
  <2>1. P = {}
    BY <1>5
  <2>2. IsWalk(0, f, P)
    BY <2>1 DEF IsWalk
  <2>3. 0 \in 0..m
    BY <1>5
  <2> QED BY <1>3, <2>2, <2>3 DEF Walk
<1>6. CASE m # 0
  <2> DEFINE Q == P \ {m}
  <2>1. m - 1 \in Nat /\ m - 1 < m /\ Q \in SUBSET (1..(m - 1))
    BY <1>4, <1>6
  <2>2. Walk(m - 1, Q)
    BY <1>7, <2>1
  <2>10. PICK len \in 0..(m - 1) : \E f : IsWalk(len, f, Q)
    BY <2>2 DEF Walk
  <2>3. PICK f : IsWalk(len, f, Q)
    BY <2>10
  <2>5. /\ f \in [1..len -> Q] /\ \A i, j \in 1..len : i < j => f[i] < f[j]
        /\ \A k \in Q : \E i \in 1..len : f[i] = k
    BY <2>3 DEF IsWalk
  <2>6. CASE m \notin P
    <3>1. Q = P /\ len \in 0..m
      <4>1. Q = P
        BY <2>6
      <4>2. len \in 0..m
        BY <1>4, <2>1
      <4> QED BY <4>1, <4>2
    <3> QED BY <1>3, <2>3, <3>1 DEF Walk
  <2>7. CASE m \in P
    <3> DEFINE g == [i \in 1..(len + 1) |-> IF i = len + 1 THEN m ELSE f[i]]
    <3>1. len \in Nat /\ len + 1 \in 0..m
      BY <1>4, <2>1
    <3>2. /\ \A i \in 1..len : g[i] = f[i] /\ f[i] \in Q /\ i \in 1..(len + 1)
          /\ g[len + 1] = m /\ len + 1 \in 1..(len + 1) /\ DOMAIN g = 1..(len + 1)
      BY <2>5, <3>1
    <3>3. \A i \in 1..(len + 1) : i = len + 1 \/ i \in 1..len
      BY <3>1
    <3>4. g \in [1..(len + 1) -> P]
      BY <2>5, <2>7, <3>3
    <3>5. \A k \in P : \E i \in 1..(len + 1) : g[i] = k
      <4>1. ASSUME NEW k \in P
            PROVE  \E i \in 1..(len + 1) : g[i] = k
        <5>1. CASE k = m
          BY <3>2, <5>1
        <5>2. CASE k # m
          <6>1. PICK i \in 1..len : f[i] = k
            BY <2>5, <5>2
          <6> QED BY <3>2, <6>1
        <5> QED BY <5>1, <5>2
      <4> QED BY <4>1
    <3>6. \A i, j \in 1..(len + 1) : i < j => g[i] < g[j]
      <4>1. \A i, j \in 1..(len + 1) : i < j => i \in 1..len
        BY <3>1
      <4>2. \A k \in Q : k < m
        BY <1>4, <2>1
      <4>3. \A i \in 1..len : g[i] < m
        BY <3>2, <4>2
      <4> QED BY <2>5, <3>2, <3>3, <4>1, <4>3
    <3> HIDE DEF g
    <3>7. IsWalk(len + 1, g, P)
      BY <3>4, <3>5, <3>6 DEF IsWalk
    <3> QED BY <1>3, <3>1, <3>7 DEF Walk
  <2> QED BY <2>6, <2>7
<1> QED BY <1>5, <1>6

\* What filter returns: the items that pass and no other, each as often as it
\* was there, the first of them first.
LEMMA KeepParts ==
  ASSUME NEW S, NEW items \in Seq(S), NEW pass \in SUBSET (1..Len(items)),
         NEW remain, remain = Hosts!Keep(items, pass)
  PROVE  /\ remain \in Seq(S)
         /\ \A i \in 1..Len(remain) : \E k \in pass : remain[i] = items[k]
         /\ \A k \in pass : \E i \in 1..Len(remain) : remain[i] = items[k]
         /\ (\A i, j \in 1..Len(items) : items[i] = items[j] => i = j) =>
              \A i, j \in 1..Len(remain) : remain[i] = remain[j] => i = j
         /\ 1 \in pass => Len(remain) >= 1 /\ remain[1] = items[1]
<1>1. Len(items) \in Nat /\ \A k \in 1..Len(items) : items[k] \in S
  OBVIOUS
<1>2. PICK len0 \in 0..Len(items) : \E f : IsWalk(len0, f, pass)
  <2>1. Walk(Len(items), pass)
    BY <1>1, WalkExists
  <2> QED BY <2>1 DEF Walk
<1>3. PICK way : IsWalk(len0, way, pass)
  BY <1>2
<1>4. Hosts!Filter(items, pass) # {}
  <2>1. /\ way \in [1..len0 -> pass] /\ Hosts!Range(way) = pass
        /\ \A i, j \in 1..len0 : i < j => way[i] < way[j]
    BY <1>3 DEF IsWalk, Hosts!Range
  <2>2. way \in {h \in [1..len0 -> pass] : Hosts!Range(h) = pass
                                       /\ \A i, j \in 1..len0 : i < j => h[i] < h[j]}
    BY <2>1
  <2>3. [i \in 1..len0 |-> items[way[i]]] \in Hosts!Filter(items, pass)
    BY <2>2 DEF Hosts!Filter
  <2> QED BY <2>3
<1>5. remain \in Hosts!Filter(items, pass)
  BY <1>4 DEF Hosts!Keep
<1>6. PICK len \in 0..Len(items) :
        remain \in {[i \in 1..len |-> items[place[i]]] :
                    place \in {f \in [1..len -> pass] : Hosts!Range(f) = pass
                                  /\ \A i, j \in 1..len : i < j => f[i] < f[j]}}
  BY <1>5 DEF Hosts!Filter
<1>7. PICK place \in [1..len -> pass] :
        /\ remain = [i \in 1..len |-> items[place[i]]]
        /\ Hosts!Range(place) = pass
        /\ \A i, j \in 1..len : i < j => place[i] < place[j]
  BY <1>6
<1>8. \A i \in 1..len : place[i] \in pass /\ place[i] \in 1..Len(items)
  BY <1>7
<1>9. remain \in Seq(S) /\ Len(remain) = len /\ len \in Nat
        /\ \A i \in 1..len : remain[i] = items[place[i]]
  BY <1>1, <1>7, <1>8
<1>10. \A k \in pass : \E i \in 1..len : place[i] = k
  BY <1>7 DEF Hosts!Range
<1>11. \A i, j \in 1..len : place[i] = place[j] => i = j
  BY <1>7, <1>8, <1>9
<1>12. ASSUME \A i, j \in 1..Len(items) : items[i] = items[j] => i = j
       PROVE  \A i, j \in 1..Len(remain) : remain[i] = remain[j] => i = j
  <2> SUFFICES ASSUME NEW i \in 1..Len(remain), NEW j \in 1..Len(remain), remain[i] = remain[j]
               PROVE  i = j
    OBVIOUS
  <2>1. i \in 1..len /\ j \in 1..len /\ items[place[i]] = items[place[j]]
    BY <1>9
  <2>2. place[i] = place[j]
    BY <1>8, <1>12, <2>1
  <2> QED BY <1>11, <2>1, <2>2
<1>13. ASSUME 1 \in pass
       PROVE  Len(remain) >= 1 /\ remain[1] = items[1]
  <2>1. PICK i \in 1..len : place[i] = 1
    BY <1>10, <1>13
  <2>2. 1 \in 1..len /\ place[1] \in 1..Len(items)
    BY <1>8, <1>9, <2>1
  <2>3. 1 < i => place[1] < 1
    BY <1>7, <2>1, <2>2
  <2>4. i = 1
    BY <1>1, <1>9, <2>1, <2>2, <2>3
  <2> QED BY <1>9, <2>1, <2>2, <2>4
<1>14. \A k \in pass : \E i \in 1..Len(remain) : remain[i] = items[k]
  BY <1>9, <1>10
<1>15. \A i \in 1..Len(remain) : \E k \in pass : remain[i] = items[k]
  BY <1>8, <1>9
<1> QED BY <1>9, <1>12, <1>13, <1>14, <1>15

Distinct(s) == \A i, j \in DOMAIN s : s[i] = s[j] => i = j

\* Lists one after the other
LEMMA BothLists ==
  ASSUME NEW S, NEW s \in Seq(S), NEW r \in Seq(S), NEW all, all = s \o r
  PROVE  /\ all \in Seq(S) /\ Len(all) = Len(s) + Len(r)
         /\ \A i \in 1..Len(s) : all[i] = s[i]
         /\ \A x : x \in Hosts!ToSet(all) <=> x \in Hosts!ToSet(s) \/ x \in Hosts!ToSet(r)
         /\ Distinct(s) /\ Distinct(r) /\ Hosts!ToSet(s) \cap Hosts!ToSet(r) = {} => Distinct(all)
<1>1. /\ all \in Seq(S) /\ Len(all) = Len(s) + Len(r)
      /\ \A i \in 1..(Len(s) + Len(r)) : all[i] = IF i <= Len(s) THEN s[i] ELSE r[i - Len(s)]
  BY ConcatProperties
<1>2. /\ Len(s) \in Nat /\ DOMAIN s = 1..Len(s)
      /\ Len(r) \in Nat /\ DOMAIN r = 1..Len(r)
      /\ DOMAIN all = 1..(Len(s) + Len(r))
  BY <1>1
<1>3. \A i \in 1..Len(s) : i \in 1..(Len(s) + Len(r)) /\ all[i] = s[i]
  BY <1>1, <1>2
<1>4. ASSUME NEW j \in 1..Len(r)
      PROVE  Len(s) + j \in 1..(Len(s) + Len(r)) /\ all[Len(s) + j] = r[j]
  <2>1. /\ Len(s) + j \in 1..(Len(s) + Len(r)) /\ ~(Len(s) + j <= Len(s))
        /\ (Len(s) + j) - Len(s) = j
    BY <1>2
  <2> QED BY <1>1, <2>1
<1>5. ASSUME NEW i \in 1..(Len(s) + Len(r))
      PROVE  \/ i \in 1..Len(s) /\ all[i] = s[i]
             \/ /\ i - Len(s) \in 1..Len(r) /\ all[i] = r[i - Len(s)]
  BY <1>1, <1>2
<1>6. \A x : x \in Hosts!ToSet(all) <=> x \in Hosts!ToSet(s) \/ x \in Hosts!ToSet(r)
  <2>1. ASSUME NEW x \in Hosts!ToSet(all)
        PROVE  x \in Hosts!ToSet(s) \cup Hosts!ToSet(r)
    BY <1>2, <1>5, <2>1 DEF Hosts!ToSet
  <2>2. ASSUME NEW x \in Hosts!ToSet(s)
        PROVE  x \in Hosts!ToSet(all)
    BY <1>2, <1>3, <2>2 DEF Hosts!ToSet
  <2>3. ASSUME NEW x \in Hosts!ToSet(r)
        PROVE  x \in Hosts!ToSet(all)
    BY <1>2, <1>4, <2>3 DEF Hosts!ToSet
  <2> QED BY <2>1, <2>2, <2>3
<1>7. ASSUME Distinct(s), Distinct(r), Hosts!ToSet(s) \cap Hosts!ToSet(r) = {}
      PROVE  Distinct(all)
  <2>1. ASSUME NEW i \in 1..Len(s), NEW j \in 1..Len(r)
        PROVE  s[i] # r[j]
    BY <1>2, <1>7 DEF Hosts!ToSet
  <2>2. ASSUME NEW i \in DOMAIN all, NEW j \in DOMAIN all, all[i] = all[j]
        PROVE  i = j
    <3>1. CASE i \in 1..Len(s) /\ all[i] = s[i]
      <4>1. j \in 1..Len(s) /\ all[j] = s[j]
        BY <1>2, <1>5, <2>1, <2>2, <3>1
      <4> QED BY <1>2, <1>7, <2>2, <3>1, <4>1 DEF Distinct
    <3>2. CASE i - Len(s) \in 1..Len(r) /\ all[i] = r[i - Len(s)]
      <4>1. j - Len(s) \in 1..Len(r) /\ all[j] = r[j - Len(s)]
        BY <1>2, <1>5, <2>1, <2>2, <3>2
      <4>2. i - Len(s) = j - Len(s)
        BY <1>2, <1>7, <2>2, <3>2, <4>1 DEF Distinct
      <4> QED BY <1>2, <4>2
    <3> QED BY <1>2, <1>5, <3>1, <3>2
  <2> QED BY <2>2 DEF Distinct
<1> QED BY <1>1, <1>3, <1>6, <1>7

\* A list without one of its items
LEMMA WithoutParts ==
  ASSUME NEW S, NEW items \in Seq(S), NEW x, NEW remain, remain = Hosts!Without(items, x)
  PROVE  /\ remain \in Seq(S)
         /\ \A y : y \in Hosts!ToSet(remain) <=> y \in Hosts!ToSet(items) /\ y # x
         /\ Distinct(items) => Distinct(remain)
         /\ Len(items) >= 1 /\ items[1] # x => Len(remain) >= 1 /\ remain[1] = items[1]
<1> DEFINE pass == {i \in DOMAIN items : items[i] # x}
<1>1. remain = Hosts!Keep(items, pass)
  BY DEF Hosts!Without
<1>2. DOMAIN items = 1..Len(items) /\ Len(items) \in Nat
  OBVIOUS
<1>3. pass \in SUBSET (1..Len(items)) /\ \A i : i \in pass <=> i \in 1..Len(items) /\ items[i] # x
  BY <1>2
<1> HIDE DEF pass
<1>4. /\ remain \in Seq(S)
      /\ \A i \in 1..Len(remain) : \E k \in pass : remain[i] = items[k]
      /\ \A k \in pass : \E i \in 1..Len(remain) : remain[i] = items[k]
      /\ (\A i, j \in 1..Len(items) : items[i] = items[j] => i = j) =>
              \A i, j \in 1..Len(remain) : remain[i] = remain[j] => i = j
      /\ 1 \in pass => Len(remain) >= 1 /\ remain[1] = items[1]
  BY <1>1, <1>3, KeepParts
<1>5. DOMAIN remain = 1..Len(remain)
  BY <1>4
<1>6. \A y : y \in Hosts!ToSet(remain) <=> y \in Hosts!ToSet(items) /\ y # x
  <2>1. ASSUME NEW y \in Hosts!ToSet(remain)
        PROVE  y \in Hosts!ToSet(items) /\ y # x
    <3>1. PICK i \in 1..Len(remain) : remain[i] = y
      BY <1>5, <2>1 DEF Hosts!ToSet
    <3>2. PICK k \in pass : y = items[k]
      BY <1>4, <3>1
    <3> QED BY <1>2, <1>3, <3>2 DEF Hosts!ToSet
  <2>2. ASSUME NEW y \in Hosts!ToSet(items), y # x
        PROVE  y \in Hosts!ToSet(remain)
    <3>1. PICK k \in 1..Len(items) : items[k] = y
      BY <1>2, <2>2 DEF Hosts!ToSet
    <3>2. PICK i \in 1..Len(remain) : remain[i] = y
      BY <1>3, <1>4, <2>2, <3>1
    <3> QED BY <1>5, <3>2 DEF Hosts!ToSet
  <2> QED BY <2>1, <2>2
<1>7. Distinct(items) => Distinct(remain)
  BY <1>2, <1>4, <1>5 DEF Distinct
<1>8. Len(items) >= 1 /\ items[1] # x => 1 \in pass
  BY <1>2, <1>3
<1> QED BY <1>4, <1>6, <1>7, <1>8

\* A part of a list
LEMMA PartOfList ==
  ASSUME NEW S, NEW s \in Seq(S), NEW m \in Nat, NEW n \in Nat, m >= 1, n <= Len(s),
         NEW sub, sub = SubSeq(s, m, n)
  PROVE  /\ sub \in Seq(S) /\ Len(sub) = IF m <= n THEN n - m + 1 ELSE 0
         /\ \A k \in 1..Len(sub) : m + k - 1 \in m..n /\ sub[k] = s[m + k - 1]
         /\ \A k \in m..n : k - m + 1 \in 1..Len(sub) /\ sub[k - m + 1] = s[k]
<1>1. Len(s) \in Nat /\ \A i \in m..n : s[i] \in S
  OBVIOUS
<1>2. /\ sub \in Seq(S) /\ Len(sub) = IF m <= n THEN n - m + 1 ELSE 0
      /\ \A k \in 1..(n - m + 1) : sub[k] = s[m + k - 1]
  BY <1>1, SubSeqProperties
<1>3. ASSUME NEW k \in 1..Len(sub)
      PROVE  m + k - 1 \in m..n /\ sub[k] = s[m + k - 1]
  BY <1>2
<1>4. ASSUME NEW k \in m..n
      PROVE  k - m + 1 \in 1..Len(sub) /\ sub[k - m + 1] = s[k]
  <2>1. k - m + 1 \in 1..(n - m + 1) /\ m + (k - m + 1) - 1 = k /\ m <= n
    OBVIOUS
  <2>2. sub[k - m + 1] = s[m + (k - m + 1) - 1]
    BY <1>2, <2>1
  <2> QED BY <1>2, <2>1, <2>2
<1> QED BY <1>2, <1>3, <1>4

\* A list with an item more
LEMMA InsertParts ==
  ASSUME NEW S, NEW s \in Seq(S), NEW e \in S, NEW i \in 1..(Len(s) + 1),
         NEW new, new = Hosts!InsertAt(s, i, e)
  PROVE  /\ new \in Seq(S)
         /\ \A x : x \in Hosts!ToSet(new) <=> x \in Hosts!ToSet(s) \/ x = e
         /\ Distinct(s) /\ e \notin Hosts!ToSet(s) => Distinct(new)
         /\ Len(new) >= 1 /\ (i > 1 => new[1] = s[1])
<1> DEFINE a == SubSeq(s, 1, i - 1)
           b == SubSeq(s, i, Len(s))
           one == <<e>>
           ae == a \o one
<1>1. Len(s) \in Nat /\ i \in Nat /\ i - 1 \in Nat /\ i >= 1 /\ i - 1 <= Len(s)
        /\ DOMAIN s = 1..Len(s)
  OBVIOUS
<1>2. /\ a \in Seq(S) /\ Len(a) = i - 1
      /\ \A k \in 1..Len(a) : k \in 1..(i - 1) /\ a[k] = s[k]
  <2>1. /\ a \in Seq(S) /\ Len(a) = IF 1 <= i - 1 THEN (i - 1) - 1 + 1 ELSE 0
        /\ \A k \in 1..Len(a) : 1 + k - 1 \in 1..(i - 1) /\ a[k] = s[1 + k - 1]
    BY <1>1, PartOfList
  <2>2. Len(a) = i - 1
    BY <1>1, <2>1
  <2> HIDE DEF a
  <2>3. \A k \in 1..Len(a) : 1 + k - 1 = k
    BY <1>1, <2>2
  <2> QED BY <2>1, <2>2, <2>3
<1>3. /\ b \in Seq(S) /\ Len(b) = (IF i <= Len(s) THEN Len(s) - i + 1 ELSE 0)
      /\ \A k \in 1..Len(b) : i + k - 1 \in i..Len(s) /\ b[k] = s[i + k - 1]
      /\ \A k \in i..Len(s) : k - i + 1 \in 1..Len(b) /\ b[k - i + 1] = s[k]
  <2>1. ASSUME NEW n \in Nat, n = Len(s), NEW sub, sub = SubSeq(s, i, n)
        PROVE  /\ sub \in Seq(S) /\ Len(sub) = (IF i <= n THEN n - i + 1 ELSE 0)
               /\ \A k \in 1..Len(sub) : i + k - 1 \in i..n /\ sub[k] = s[i + k - 1]
               /\ \A k \in i..n : k - i + 1 \in 1..Len(sub) /\ sub[k - i + 1] = s[k]
    <3>1. n <= Len(s) /\ i \in Nat /\ i >= 1
      BY <1>1, <2>1
    <3> QED BY <2>1, <3>1, PartOfList
  <2> QED BY <1>1, <2>1
<1>4. one \in Seq(S) /\ Hosts!ToSet(one) = {e} /\ Distinct(one)
  BY DEF Hosts!ToSet, Distinct
<1>5. new = ae \o b /\ ae = a \o one
  BY DEF Hosts!InsertAt
<1> HIDE DEF a, b, one, ae
<1>6. DOMAIN a = 1..Len(a) /\ DOMAIN b = 1..Len(b)
  BY <1>2, <1>3
<1>7. /\ ae \in Seq(S) /\ Len(ae) = Len(a) + Len(one)
      /\ \A k \in 1..Len(a) : ae[k] = a[k]
      /\ Hosts!ToSet(ae) = Hosts!ToSet(a) \cup {e}
      /\ Distinct(a) /\ Hosts!ToSet(a) \cap {e} = {} => Distinct(ae)
  <2>1. a \in Seq(S) /\ one \in Seq(S) /\ ae = a \o one
    BY <1>2, <1>4, <1>5
  <2>2. /\ ae \in Seq(S) /\ Len(ae) = Len(a) + Len(one)
        /\ \A k \in 1..Len(a) : ae[k] = a[k]
        /\ \A x : x \in Hosts!ToSet(ae) <=> x \in Hosts!ToSet(a) \/ x \in Hosts!ToSet(one)
        /\ Distinct(a) /\ Distinct(one) /\ Hosts!ToSet(a) \cap Hosts!ToSet(one) = {}
             => Distinct(ae)
    <3>1. ae \in Seq(S) /\ Len(ae) = Len(a) + Len(one)
      BY <2>1, BothLists
    <3>2. \A k \in 1..Len(a) : ae[k] = a[k]
      BY <2>1, BothLists
    <3>3. \A x : x \in Hosts!ToSet(ae) <=> x \in Hosts!ToSet(a) \/ x \in Hosts!ToSet(one)
      BY <2>1, BothLists
    <3>4. Distinct(a) /\ Distinct(one) /\ Hosts!ToSet(a) \cap Hosts!ToSet(one) = {}
             => Distinct(ae)
      BY <2>1, BothLists
    <3> QED BY <3>1, <3>2, <3>3, <3>4
  <2> QED BY <1>4, <2>2
<1>8. /\ new \in Seq(S) /\ Len(new) = Len(ae) + Len(b)
      /\ \A k \in 1..Len(ae) : new[k] = ae[k]
      /\ \A x : x \in Hosts!ToSet(new) <=> x \in Hosts!ToSet(ae) \/ x \in Hosts!ToSet(b)
      /\ Distinct(ae) /\ Distinct(b) /\ Hosts!ToSet(ae) \cap Hosts!ToSet(b) = {} => Distinct(new)
  <2>1. ae \in Seq(S) /\ b \in Seq(S) /\ new = ae \o b
    BY <1>3, <1>5, <1>7
  <2> QED BY <2>1, BothLists
<1>9. Hosts!ToSet(a) \cup Hosts!ToSet(b) = Hosts!ToSet(s)
  <2>1. ASSUME NEW x \in Hosts!ToSet(s)
        PROVE  x \in Hosts!ToSet(a) \cup Hosts!ToSet(b)
    <3>1. PICK k \in 1..Len(s) : s[k] = x
      BY <1>1, <2>1 DEF Hosts!ToSet
    <3>2. CASE k <= i - 1
      <4>1. k \in 1..Len(a)
        BY <1>1, <1>2, <3>1, <3>2
      <4> QED BY <1>2, <1>6, <3>1, <4>1 DEF Hosts!ToSet
    <3>3. CASE k >= i
      <4>1. k - i + 1 \in 1..Len(b) /\ b[k - i + 1] = x
        BY <1>1, <1>3, <3>1, <3>3
      <4> QED BY <1>6, <4>1 DEF Hosts!ToSet
    <3> QED BY <1>1, <3>1, <3>2, <3>3
  <2>2. ASSUME NEW x \in Hosts!ToSet(a)
        PROVE  x \in Hosts!ToSet(s)
    BY <1>1, <1>2, <1>6, <2>2 DEF Hosts!ToSet
  <2>3. ASSUME NEW x \in Hosts!ToSet(b)
        PROVE  x \in Hosts!ToSet(s)
    <3>1. PICK k \in 1..Len(b) : b[k] = x
      BY <1>6, <2>3 DEF Hosts!ToSet
    <3>2. i + k - 1 \in 1..Len(s) /\ s[i + k - 1] = x
      <4>1. i + k - 1 \in i..Len(s) /\ b[k] = s[i + k - 1]
        BY <1>3, <3>1
      <4> QED BY <1>1, <3>1, <4>1
    <3> QED BY <1>1, <3>2 DEF Hosts!ToSet
  <2> QED BY <2>1, <2>2, <2>3
<1>10. ASSUME Distinct(s), e \notin Hosts!ToSet(s)
       PROVE  Distinct(new)
  <2>1. Distinct(a)
    BY <1>1, <1>2, <1>6, <1>10 DEF Distinct
  <2>2. Distinct(b)
    <3> SUFFICES ASSUME NEW k \in 1..Len(b), NEW l \in 1..Len(b), b[k] = b[l]
                 PROVE  k = l
      BY <1>6 DEF Distinct
    <3>1. i + k - 1 \in 1..Len(s) /\ i + l - 1 \in 1..Len(s) /\ s[i + k - 1] = s[i + l - 1]
      <4>1. /\ i + k - 1 \in i..Len(s) /\ b[k] = s[i + k - 1]
            /\ i + l - 1 \in i..Len(s) /\ b[l] = s[i + l - 1]
        BY <1>3
      <4>2. i + k - 1 \in 1..Len(s) /\ i + l - 1 \in 1..Len(s)
        BY <1>1, <4>1
      <4>3. s[i + k - 1] = s[i + l - 1]
        BY <4>1
      <4> QED BY <4>2, <4>3
    <3>2. i + k - 1 = i + l - 1
      BY <1>1, <1>10, <3>1 DEF Distinct
    <3>3. Len(b) \in Nat
      BY <1>3
    <3> QED BY <1>1, <3>2, <3>3
  <2>3. Hosts!ToSet(a) \cap Hosts!ToSet(b) = {}
    <3> SUFFICES ASSUME NEW k \in 1..Len(a), NEW l \in 1..Len(b), a[k] = b[l]
                 PROVE  FALSE
      BY <1>6 DEF Hosts!ToSet
    <3>1. k \in 1..(i - 1) /\ a[k] = s[k]
      BY <1>2
    <3>2. i + l - 1 \in i..Len(s) /\ b[l] = s[i + l - 1]
      BY <1>3
    <3>3. k \in 1..Len(s) /\ i + l - 1 \in 1..Len(s) /\ k < i /\ i <= i + l - 1
      BY <1>1, <3>1, <3>2
    <3>4. s[k] = s[i + l - 1]
      BY <3>1, <3>2
    <3>5. k = i + l - 1
      BY <1>1, <1>10, <3>3, <3>4 DEF Distinct
    <3> QED BY <1>1, <3>3, <3>5
  <2> QED BY <1>7, <1>8, <1>9, <1>10, <2>1, <2>2, <2>3
<1>11. Len(new) >= 1 /\ (i > 1 => new[1] = s[1])
  <2>1. Len(one) = 1 /\ Len(b) \in Nat
    BY <1>3 DEF one
  <2>2. Len(new) >= 1
    BY <1>1, <1>2, <1>7, <1>8, <2>1
  <2>3. i > 1 => 1 \in 1..Len(a) /\ 1 \in 1..Len(ae)
    BY <1>1, <1>2, <1>7, <2>1
  <2> QED BY <1>2, <1>7, <1>8, <2>2, <2>3
<1> QED BY <1>7, <1>8, <1>9, <1>10, <1>11

\* The orders of a set of hosts have its hosts, each once.
LEMMA OrderParts ==
  ASSUME NEW new \in SUBSET TreeHosts, NEW order \in Hosts!SetToSeqs(new)
  PROVE  /\ order \in Seq(TreeHosts) /\ Distinct(order)
         /\ \A h : h \in Hosts!ToSet(order) <=> h \in new
<1>1. IsFiniteSet(new)
  BY WindowAssumption, FS_Subset
<1>2. Hosts!Cardinality(new) = Cardinality(new)
  BY DEF Hosts!Cardinality, Cardinality
<1> DEFINE D == 1..Cardinality(new)
<1>3. order \in [D -> new] /\ \A i, j \in D : i # j => order[i] # order[j]
  BY <1>2 DEF Hosts!SetToSeqs
<1>4. Cardinality(new) \in Nat
  BY <1>1, FS_CardinalityType
<1>5. order \in Injection(D, new)
  BY <1>3 DEF Injection, IsInjective
<1>6. Cardinality(D) = Cardinality(new)
  BY <1>4, FS_Interval
<1>7. order \in Surjection(D, new)
  BY <1>1, <1>5, <1>6, FS_Injection
<1>8. \A h \in new : \E i \in D : order[i] = h
  BY <1>7 DEF Surjection
<1>9. DOMAIN order = D
  BY <1>3
<1> QED BY <1>3, <1>4, <1>8, <1>9 DEF Hosts!ToSet, Distinct

\* Whether an item is there
LEMMA ContainsMeans ==
  ASSUME NEW S, NEW list \in Seq(S), NEW x
  PROVE  /\ Hosts!Contains(list, x) <=> x \in Hosts!ToSet(list)
         /\ Hosts!Contains(list, x) => x \in S
<1>1. DOMAIN list = 1..Len(list) /\ \A i \in 1..Len(list) : list[i] \in S
  OBVIOUS
<1> QED BY <1>1 DEF Hosts!Contains, Hosts!ToSet

\* A list of these hosts, each once
ListOf(list, members) ==
    /\ list \in Seq(TreeHosts) /\ Distinct(list)
    /\ \A h : h \in Hosts!ToSet(list) <=> h \in members

\* The empty list has nobody.
LEMMA EmptyList == ListOf(<<>>, {})
  BY DEF ListOf, Distinct, Hosts!ToSet

\* Taking a host out of a list
LEMMA ListWithout ==
  ASSUME NEW list, NEW members, ListOf(list, members), NEW h
  PROVE  ListOf(Hosts!Without(list, h), members \ {h})
<1> DEFINE remain == Hosts!Without(list, h)
<1>1. list \in Seq(TreeHosts) /\ remain = Hosts!Without(list, h)
  BY DEF ListOf
<1> HIDE DEF remain
<1>2. /\ remain \in Seq(TreeHosts)
      /\ Distinct(list) => Distinct(remain)
      /\ \A y : y \in Hosts!ToSet(remain) <=> y \in Hosts!ToSet(list) /\ y # h
  BY <1>1, WithoutParts
<1>3. ListOf(remain, members \ {h})
  BY <1>2 DEF ListOf
<1> QED BY <1>3 DEF remain

\* Joining two lists that have nothing in common
LEMMA ListBoth ==
  ASSUME NEW list, NEW members, ListOf(list, members), NEW more, NEW others, ListOf(more, others),
         members \cap others = {}
  PROVE  ListOf(list \o more, members \cup others)
<1> DEFINE all == list \o more
<1>1. list \in Seq(TreeHosts) /\ more \in Seq(TreeHosts) /\ all = list \o more
  BY DEF ListOf
<1> HIDE DEF all
<1>2. /\ all \in Seq(TreeHosts)
      /\ \A x : x \in Hosts!ToSet(all) <=> x \in Hosts!ToSet(list) \/ x \in Hosts!ToSet(more)
      /\ Distinct(list) /\ Distinct(more) /\ Hosts!ToSet(list) \cap Hosts!ToSet(more) = {}
           => Distinct(all)
  BY <1>1, BothLists
<1>3. Hosts!ToSet(list) \cap Hosts!ToSet(more) = {}
  BY DEF ListOf
<1>4. ListOf(all, members \cup others)
  BY <1>2, <1>3 DEF ListOf
<1> QED BY <1>4 DEF all

\* Putting a host into a list
LEMMA ListInsert ==
  ASSUME NEW list, NEW members, ListOf(list, members), NEW h \in TreeHosts, h \notin members,
         NEW i \in 1..(Len(list) + 1)
  PROVE  ListOf(Hosts!InsertAt(list, i, h), members \cup {h})
<1> DEFINE new == Hosts!InsertAt(list, i, h)
<1>1. list \in Seq(TreeHosts) /\ new = Hosts!InsertAt(list, i, h)
  BY DEF ListOf
<1> HIDE DEF new
<1>2. /\ new \in Seq(TreeHosts)
      /\ \A x : x \in Hosts!ToSet(new) <=> x \in Hosts!ToSet(list) \/ x = h
      /\ Distinct(list) /\ h \notin Hosts!ToSet(list) => Distinct(new)
  BY <1>1, InsertParts
<1>3. h \notin Hosts!ToSet(list) /\ Distinct(list)
  BY DEF ListOf
<1>4. \A x : x \in Hosts!ToSet(new) <=> x \in members \cup {h}
  BY <1>2 DEF ListOf
<1>5. ListOf(new, members \cup {h})
  BY <1>2, <1>3, <1>4 DEF ListOf
<1> QED BY <1>5 DEF new

\* The hosts of a set in some order
LEMMA ListOrder ==
  ASSUME NEW new \in SUBSET TreeHosts, NEW order \in Hosts!SetToSeqs(new)
  PROVE  ListOf(order, new)
  BY OrderParts DEF ListOf

\* Keeping what is not in a list that has none of them keeps them all.
LEMMA ListKeep ==
  ASSUME NEW list, NEW members, ListOf(list, members), NEW moved, NEW others, ListOf(moved, others),
         members \cap others = {}, NEW remain,
         remain = Hosts!Keep(moved, {i \in DOMAIN moved : ~Hosts!Contains(list, moved[i])})
  PROVE  ListOf(remain, others)
<1> DEFINE pass == {i \in DOMAIN moved : ~Hosts!Contains(list, moved[i])}
<1>1. list \in Seq(TreeHosts) /\ moved \in Seq(TreeHosts) /\ remain = Hosts!Keep(moved, pass)
  BY DEF ListOf
<1>2. DOMAIN moved = 1..Len(moved)
  BY <1>1
<1>3. \A i \in 1..Len(moved) : ~Hosts!Contains(list, moved[i])
  <2>1. \A i \in 1..Len(moved) : moved[i] \in others
    BY <1>2 DEF ListOf, Hosts!ToSet
  <2>2. \A x \in others : x \notin Hosts!ToSet(list)
    BY DEF ListOf
  <2> QED BY <1>1, <2>1, <2>2, ContainsMeans
<1>4. pass = 1..Len(moved)
  BY <1>2, <1>3
<1> HIDE DEF pass
<1>5. /\ remain \in Seq(TreeHosts)
      /\ \A i \in 1..Len(remain) : \E k \in pass : remain[i] = moved[k]
      /\ \A k \in pass : \E i \in 1..Len(remain) : remain[i] = moved[k]
      /\ (\A i, j \in 1..Len(moved) : moved[i] = moved[j] => i = j) =>
              \A i, j \in 1..Len(remain) : remain[i] = remain[j] => i = j
  <2>1. pass \in SUBSET (1..Len(moved))
    BY <1>4
  <2>2. /\ remain \in Seq(TreeHosts)
        /\ \A i \in 1..Len(remain) : \E k \in pass : remain[i] = moved[k]
        /\ \A k \in pass : \E i \in 1..Len(remain) : remain[i] = moved[k]
        /\ (\A i, j \in 1..Len(moved) : moved[i] = moved[j] => i = j) =>
                \A i, j \in 1..Len(remain) : remain[i] = remain[j] => i = j
        /\ 1 \in pass => Len(remain) >= 1 /\ remain[1] = moved[1]
    BY <1>1, <2>1, KeepParts
  <2> QED BY <2>2
<1>6. DOMAIN remain = 1..Len(remain)
  BY <1>5
<1>7. Distinct(remain)
  BY <1>2, <1>5, <1>6 DEF ListOf, Distinct
<1>8. \A h : h \in Hosts!ToSet(remain) <=> h \in Hosts!ToSet(moved)
  <2>1. ASSUME NEW h \in Hosts!ToSet(remain)
        PROVE  h \in Hosts!ToSet(moved)
    <3>1. PICK i \in 1..Len(remain) : remain[i] = h
      BY <1>6, <2>1 DEF Hosts!ToSet
    <3>2. PICK k \in 1..Len(moved) : h = moved[k]
      BY <1>4, <1>5, <3>1
    <3> QED BY <1>2, <3>2 DEF Hosts!ToSet
  <2>2. ASSUME NEW h \in Hosts!ToSet(moved)
        PROVE  h \in Hosts!ToSet(remain)
    <3>1. PICK k \in 1..Len(moved) : moved[k] = h
      BY <1>2, <2>2 DEF Hosts!ToSet
    <3>2. PICK i \in 1..Len(remain) : remain[i] = h
      BY <1>4, <1>5, <3>1
    <3> QED BY <1>6, <3>2 DEF Hosts!ToSet
  <2> QED BY <2>1, <2>2
<1> QED BY <1>5, <1>7, <1>8 DEF ListOf

(* The groups: a tree below All, which stays the first of them. *)

TreeIds == TreeGroups \cup {All, Favorites}
Members(g) == {h \in hosts : groupOf[h] = g}

GroupsPart ==
    /\ groups \in Seq(TreeIds) /\ Len(groups) >= 1 /\ groups[1] = All
    /\ parentOf \in [TreeIds -> TreeIds \cup {NoHost}] /\ parentOf[All] = NoHost
    /\ \A g \in TreeIds : Hosts!Exists(g) /\ g # All => Hosts!Exists(parentOf[g])
    /\ \A S \in SUBSET TreeIds :
         S # {} /\ (\A g \in S : Hosts!Exists(g)) => \E g \in S : parentOf[g] \notin S
HostsPart ==
    /\ hosts \in SUBSET TreeHosts /\ groupOf \in [TreeHosts -> TreeIds]
    /\ sessionIds \in [TreeIds -> Seq(TreeHosts)]
    /\ \A h \in hosts : ~Hosts!Exists(groupOf[h]) => groupOf[h] = Favorites
    /\ \A g \in TreeIds : Hosts!Exists(g) => ListOf(sessionIds[g], Members(g))
AskedPart ==
    /\ naming # NoHost => Hosts!Exists(naming) /\ confirm.kind # "group"
    /\ confirm.kind = "host" =>
         /\ confirm.id \in TreeHosts
         /\ confirm = [kind |-> "host", id |-> confirm.id, fallback |-> NoHost]
    /\ confirm.kind = "group" => confirm.id \in TreeIds \ {All} /\ confirm.fallback = All
HostsInv == GroupsPart /\ HostsPart /\ AskedPart

\* What it means that a group is there; All always is.
LEMMA ExistsParts ==
  ASSUME GroupsPart
  PROVE  /\ \A g : Hosts!Exists(g) => g \in TreeIds /\ g # NoHost
         /\ \A g : Hosts!Exists(g) <=> g \in Hosts!ToSet(groups)
         /\ Hosts!Exists(All) /\ DOMAIN parentOf = TreeIds
         /\ All \in TreeIds /\ NoHost \notin TreeIds
<1>1. groups \in Seq(TreeIds) /\ Len(groups) \in Nat /\ 1 \in 1..Len(groups)
  BY DEF GroupsPart
<1>2. \A g : /\ Hosts!Exists(g) => g \in TreeIds
             /\ Hosts!Exists(g) <=> g \in Hosts!ToSet(groups)
  BY <1>1, ContainsMeans DEF Hosts!Exists
<1>3. Hosts!Exists(All)
  BY <1>1 DEF GroupsPart, Hosts!Exists, Hosts!Contains
<1>4. All \in TreeIds /\ NoHost \notin TreeIds
  BY WindowAssumption DEF TreeIds
<1>5. DOMAIN parentOf = TreeIds
  BY DEF GroupsPart
<1> QED BY <1>2, <1>3, <1>4, <1>5

\* The way up from a group
LEMMA UpwardsParts ==
  ASSUME GroupsPart, NEW g \in TreeIds, NEW up, up = Hosts!Upwards(g)
  PROVE  /\ g \in up /\ up \in SUBSET (TreeIds \cup {NoHost})
         /\ \A x \in up : Hosts!Exists(x) => parentOf[x] \in up
         /\ \A S \in SUBSET (TreeIds \cup {NoHost}) :
              g \in S /\ (\A x \in S : Hosts!Exists(x) => parentOf[x] \in S) => up \subseteq S
<1> DEFINE ids == TreeIds \cup {NoHost}
<1>1. up = {h \in ids : \A S \in SUBSET ids :
                g \in S /\ (\A x \in S : Hosts!Exists(x) => parentOf[x] \in S) => h \in S}
  BY ExistsParts DEF Hosts!Upwards
<1>2. \A x \in ids : Hosts!Exists(x) => parentOf[x] \in ids
  BY ExistsParts DEF GroupsPart
<1>3. g \in ids
  OBVIOUS
<1> HIDE DEF ids
<1>4. \A x \in up : Hosts!Exists(x) => parentOf[x] \in up
  BY <1>1, <1>2
<1>5. g \in up /\ up \in SUBSET ids
  BY <1>1, <1>3
<1>6. \A S \in SUBSET ids :
        g \in S /\ (\A x \in S : Hosts!Exists(x) => parentOf[x] \in S) => up \subseteq S
  BY <1>1
<1> QED BY <1>4, <1>5, <1>6 DEF ids

\* What goes with a group: never All, and with a group all that hang below it
LEMMA DescendantsParts ==
  ASSUME GroupsPart, NEW g \in TreeIds, g # All, NEW gone, gone = Hosts!Descendants(g)
  PROVE  /\ \A x \in gone : Hosts!Exists(x)
         /\ All \notin gone
         /\ \A x \in TreeIds : Hosts!Exists(x) /\ parentOf[x] \in gone => x \in gone
<1>1. \A x : x \in gone <=> Hosts!Exists(x) /\ g \in Hosts!Upwards(x)
  BY ExistsParts DEF Hosts!Descendants
<1>2. All \notin gone
  <2> DEFINE S == {All, NoHost}
             up == Hosts!Upwards(All)
  <2>1. S \in SUBSET (TreeIds \cup {NoHost}) /\ \A x \in S : Hosts!Exists(x) => parentOf[x] \in S
    BY ExistsParts DEF GroupsPart
  <2>2. All \in TreeIds /\ All \in S /\ up = Hosts!Upwards(All)
    BY ExistsParts
  <2> HIDE DEF up, S
  <2>3. up \subseteq S
    BY <2>1, <2>2, UpwardsParts
  <2>4. g \notin S
    BY ExistsParts DEF S
  <2> QED BY <1>1, <2>2, <2>3, <2>4
<1>3. ASSUME NEW x \in TreeIds, Hosts!Exists(x), parentOf[x] \in gone
      PROVE  x \in gone
  <2> DEFINE up == Hosts!Upwards(x)
             p == parentOf[x]
             above == Hosts!Upwards(p)
  <2>1. Hosts!Exists(p) /\ g \in above /\ p \in TreeIds
    BY <1>1, <1>3, ExistsParts
  <2>2. above = Hosts!Upwards(p) /\ up = Hosts!Upwards(x) /\ p = parentOf[x]
    OBVIOUS
  <2> HIDE DEF up, p, above
  <2>3. /\ x \in up /\ up \in SUBSET (TreeIds \cup {NoHost})
        /\ \A y \in up : Hosts!Exists(y) => parentOf[y] \in up
    BY <2>2, UpwardsParts
  <2>4. p \in up
    BY <1>3, <2>2, <2>3
  <2>5. above \subseteq up
    BY <2>1, <2>2, <2>3, <2>4, UpwardsParts
  <2> QED BY <1>1, <1>3, <2>1, <2>2, <2>5
<1> QED BY <1>1, <1>2, <1>3


\* At the start there is All, maybe Favorites, and no host.
LEMMA HostsStart ==
  ASSUME Hosts!SessionTreeInit
  PROVE  HostsInv
<1>1. /\ groups \in {<<All>>, <<All, Favorites>>}
      /\ parentOf = [g \in TreeIds |-> IF g = All THEN NoHost ELSE All]
      /\ sessionIds = [g \in TreeIds |-> <<>>]
      /\ hosts = {} /\ groupOf = [h \in TreeHosts |-> All]
      /\ confirm = [kind |-> "none", id |-> NoHost, fallback |-> NoHost] /\ naming = NoHost
  BY DEF Hosts!SessionTreeInit, Hosts!NoConfirm, TreeIds
<1>2. All \in TreeIds /\ Favorites \in TreeIds /\ NoHost \notin TreeIds /\ All # NoHost
  BY WindowAssumption DEF TreeIds
<1>3. groups \in Seq(TreeIds) /\ Len(groups) >= 1 /\ groups[1] = All
  <2>1. CASE groups = <<All>>
    BY <1>2, <2>1
  <2>2. CASE groups = <<All, Favorites>>
    BY <1>2, <2>2
  <2> QED BY <1>1, <2>1, <2>2
<1>4. Hosts!Exists(All)
  BY <1>3 DEF Hosts!Exists, Hosts!Contains
<1>5. /\ parentOf \in [TreeIds -> TreeIds \cup {NoHost}] /\ parentOf[All] = NoHost
      /\ \A g \in TreeIds : g # All => parentOf[g] = All
  BY <1>1, <1>2
<1>6. ASSUME NEW S \in SUBSET TreeIds, S # {}
      PROVE  \E g \in S : parentOf[g] \notin S
  <2>1. CASE All \in S
    BY <1>2, <1>5, <2>1
  <2>2. CASE All \notin S
    <3>1. PICK g \in S : g # All
      BY <1>6, <2>2
    <3> QED BY <1>5, <2>2, <3>1
  <2> QED BY <2>1, <2>2
<1>7. GroupsPart
  BY <1>3, <1>4, <1>5, <1>6 DEF GroupsPart
<1>8. HostsPart
  <2>1. \A g \in TreeIds : Members(g) = {} /\ sessionIds[g] = <<>>
    BY <1>1 DEF Members
  <2>2. sessionIds \in [TreeIds -> Seq(TreeHosts)]
    BY <1>1
  <2>3. \A g \in TreeIds : ListOf(sessionIds[g], Members(g))
    BY <2>1, EmptyList
  <2> QED BY <1>1, <1>2, <2>2, <2>3 DEF HostsPart
<1>9. AskedPart
  BY <1>1 DEF AskedPart
<1> QED BY <1>7, <1>8, <1>9 DEF HostsInv

\* Groups that hang below each other
LEMMA ChildrenParts ==
  ASSUME NEW list \in Seq(TreeIds), NEW p, NEW remain, remain = Hosts!ChildrenOf(list, p)
  PROVE  /\ remain \in Seq(TreeIds)
         /\ \A i \in 1..Len(remain) : remain[i] \in Hosts!ToSet(list) /\ parentOf[remain[i]] = p
         /\ \A x \in Hosts!ToSet(list) : parentOf[x] = p => x \in Hosts!ToSet(remain)
<1> DEFINE pass == {i \in DOMAIN list : parentOf[list[i]] = p}
<1>1. remain = Hosts!Keep(list, pass)
  BY DEF Hosts!ChildrenOf
<1>2. DOMAIN list = 1..Len(list)
  OBVIOUS
<1>3. /\ pass \in SUBSET (1..Len(list))
      /\ \A i : i \in pass <=> i \in 1..Len(list) /\ parentOf[list[i]] = p
  BY <1>2
<1> HIDE DEF pass
<1>4. /\ remain \in Seq(TreeIds)
      /\ \A i \in 1..Len(remain) : \E k \in pass : remain[i] = list[k]
      /\ \A k \in pass : \E i \in 1..Len(remain) : remain[i] = list[k]
      /\ (\A i, j \in 1..Len(list) : list[i] = list[j] => i = j) =>
              \A i, j \in 1..Len(remain) : remain[i] = remain[j] => i = j
      /\ 1 \in pass => Len(remain) >= 1 /\ remain[1] = list[1]
  BY <1>1, <1>3, KeepParts
<1>5. DOMAIN remain = 1..Len(remain)
  BY <1>4
<1>6. ASSUME NEW i \in 1..Len(remain)
      PROVE  remain[i] \in Hosts!ToSet(list) /\ parentOf[remain[i]] = p
  <2>1. PICK k \in pass : remain[i] = list[k]
    BY <1>4
  <2>2. k \in DOMAIN list /\ parentOf[list[k]] = p
    BY <1>2, <1>3
  <2> QED BY <2>1, <2>2 DEF Hosts!ToSet
<1>7. ASSUME NEW x \in Hosts!ToSet(list), parentOf[x] = p
      PROVE  x \in Hosts!ToSet(remain)
  <2>1. PICK k \in 1..Len(list) : list[k] = x
    BY <1>2 DEF Hosts!ToSet
  <2>2. k \in pass
    BY <1>3, <1>7, <2>1
  <2>3. PICK i \in 1..Len(remain) : remain[i] = x
    BY <1>4, <2>1, <2>2
  <2> QED BY <1>5, <2>3 DEF Hosts!ToSet
<1> QED BY <1>4, <1>6, <1>7

\* Where an item of a list is
LEMMA IndexParts ==
  ASSUME NEW S, NEW items \in Seq(S), NEW x \in Hosts!ToSet(items), NEW at, at = Hosts!IndexIn(items, x)
  PROVE  at \in 1..Len(items) /\ items[at] = x
<1>1. DOMAIN items = 1..Len(items)
  OBVIOUS
<1>2. \E i \in DOMAIN items : items[i] = x
  BY DEF Hosts!ToSet
<1>3. at \in DOMAIN items /\ items[at] = x
  BY <1>2 DEF Hosts!IndexIn
<1> QED BY <1>1, <1>3

\* What is in a list with an item more at its end
LEMMA AppendMembers ==
  ASSUME NEW S, NEW items \in Seq(S), NEW x \in S, NEW new, new = Append(items, x)
  PROVE  \A y : y \in Hosts!ToSet(new) <=> y \in Hosts!ToSet(items) \/ y = x
<1>1. /\ new \in Seq(S) /\ Len(new) = Len(items) + 1 /\ Len(items) \in Nat
      /\ \A i \in 1..Len(items) : new[i] = items[i]
      /\ new[Len(items) + 1] = x
  OBVIOUS
<1>2. DOMAIN new = 1..(Len(items) + 1) /\ DOMAIN items = 1..Len(items)
  BY <1>1
<1>3. ASSUME NEW y \in Hosts!ToSet(new)
      PROVE  y \in Hosts!ToSet(items) \/ y = x
  <2>1. PICK i \in 1..(Len(items) + 1) : new[i] = y
    BY <1>2 DEF Hosts!ToSet
  <2>2. i \in 1..Len(items) \/ i = Len(items) + 1
    BY <1>1
  <2> QED BY <1>1, <1>2, <2>1, <2>2 DEF Hosts!ToSet
<1>4. ASSUME NEW y \in Hosts!ToSet(items)
      PROVE  y \in Hosts!ToSet(new)
  <2>1. PICK i \in 1..Len(items) : items[i] = y
    BY <1>2 DEF Hosts!ToSet
  <2>2. i \in 1..(Len(items) + 1) /\ new[i] = y
    BY <1>1, <2>1
  <2> QED BY <1>2, <2>2 DEF Hosts!ToSet
<1>5. x \in Hosts!ToSet(new)
  <2>1. Len(items) + 1 \in DOMAIN new
    BY <1>1, <1>2
  <2> QED BY <1>1, <2>1 DEF Hosts!ToSet
<1> QED BY <1>3, <1>4, <1>5

\* Its type and its first item
LEMMA AppendParts ==
  ASSUME NEW S, NEW items \in Seq(S), NEW x \in S, NEW new, new = Append(items, x)
  PROVE  /\ new \in Seq(S) /\ Len(new) >= 1
         /\ Len(items) >= 1 => new[1] = items[1]
  OBVIOUS

\* A list of groups that begins with All
LEMMA GroupsStay ==
  ASSUME GroupsPart, groups' \in Seq(TreeIds), Len(groups') >= 1, groups'[1] = All
  PROVE  /\ \A g : Hosts!Exists(g)' <=> g \in Hosts!ToSet(groups')
         /\ Hosts!Exists(All)'
<1>1. \A g : Hosts!Exists(g)' <=> g \in Hosts!ToSet(groups')
  BY ContainsMeans DEF Hosts!Exists
<1>2. 1 \in 1..Len(groups')
  OBVIOUS
<1>3. Hosts!Exists(All)'
  BY <1>2 DEF Hosts!Exists, Hosts!Contains
<1> QED BY <1>1, <1>3

\* A group that moves keeps a place below a root: it does not go below itself.
LEMMA MoveGroupKeepsGroups ==
  ASSUME GroupsPart, NEW g \in TreeIds, NEW p, Hosts!Exists(p), NEW index \in Nat,
         Hosts!MoveGroup(g, p, index)
  PROVE  GroupsPart' /\ \A x : Hosts!Exists(x)' <=> Hosts!Exists(x)
<1> DEFINE rest == Hosts!Without(groups, g)
           siblings == Hosts!ChildrenOf(rest, p)
           last == Append(rest, g)
           next == siblings[index + 1]
           at == Hosts!IndexIn(rest, next)
           between == Hosts!InsertAt(rest, at, g)
<1>1. CASE ~Hosts!MayMove(g, p)
  BY <1>1 DEF Hosts!MoveGroup, GroupsPart, Hosts!Exists, Hosts!Contains
<1>2. CASE Hosts!MayMove(g, p)
  <2>1. /\ groups' = IF index >= Len(siblings) THEN last ELSE between
        /\ parentOf' = [parentOf EXCEPT ![g] = p]
    BY <1>2 DEF Hosts!MoveGroup
  <2>2. Hosts!Exists(g) /\ g # All /\ g \notin Hosts!Upwards(p) /\ p \in TreeIds /\ p # NoHost
    BY <1>2, ExistsParts DEF Hosts!MayMove
  <2>3. rest = Hosts!Without(groups, g) /\ siblings = Hosts!ChildrenOf(rest, p)
          /\ last = Append(rest, g) /\ at = Hosts!IndexIn(rest, next)
          /\ next = siblings[index + 1] /\ between = Hosts!InsertAt(rest, at, g)
    OBVIOUS
  <2> HIDE DEF rest, siblings, last, next, at, between
  <2>4. groups \in Seq(TreeIds) /\ Len(groups) >= 1 /\ groups[1] = All /\ parentOf[All] = NoHost
    BY DEF GroupsPart
  <2>5. /\ rest \in Seq(TreeIds) /\ Len(rest) >= 1 /\ rest[1] = All
        /\ \A y : y \in Hosts!ToSet(rest) <=> y \in Hosts!ToSet(groups) /\ y # g
    BY <2>2, <2>3, <2>4, WithoutParts
  <2>6. /\ siblings \in Seq(TreeIds)
        /\ \A i \in 1..Len(siblings) : siblings[i] \in Hosts!ToSet(rest) /\ parentOf[siblings[i]] = p
    BY <2>3, <2>5, ChildrenParts
  <2>7. /\ groups' \in Seq(TreeIds) /\ Len(groups') >= 1 /\ groups'[1] = All
        /\ \A y : y \in Hosts!ToSet(groups') <=> y \in Hosts!ToSet(rest) \/ y = g
    <3>1. CASE index >= Len(siblings)
      <4>1. groups' = Append(rest, g)
        BY <2>1, <2>3, <3>1
      <4>2. /\ groups' \in Seq(TreeIds) /\ Len(groups') >= 1
            /\ \A y : y \in Hosts!ToSet(groups') <=> y \in Hosts!ToSet(rest) \/ y = g
            /\ Len(rest) >= 1 => groups'[1] = rest[1]
        <5>1. /\ groups' \in Seq(TreeIds) /\ Len(groups') >= 1
              /\ Len(rest) >= 1 => groups'[1] = rest[1]
          BY <2>5, <4>1, AppendParts
        <5>2. \A y : y \in Hosts!ToSet(groups') <=> y \in Hosts!ToSet(rest) \/ y = g
          <6>1. rest \in Seq(TreeIds)
            BY <2>5
          <6> QED BY <4>1, <6>1, AppendMembers
        <5> QED BY <5>1, <5>2
      <4> QED BY <2>5, <4>2
    <3>2. CASE ~(index >= Len(siblings))
      <4>1. groups' = Hosts!InsertAt(rest, at, g)
        BY <2>1, <2>3, <3>2
      <4>2. index + 1 \in 1..Len(siblings)
        <5>1. Len(siblings) \in Nat
          BY <2>6
        <5> QED BY <3>2, <5>1
      <4>3. next \in Hosts!ToSet(rest) /\ parentOf[next] = p
        BY <2>3, <2>6, <4>2
      <4>4. at \in 1..Len(rest) /\ rest[at] = next
        BY <2>3, <2>5, <4>3, IndexParts
      <4>5. at # 1
        BY <2>2, <2>4, <2>5, <4>3, <4>4
      <4>6. at \in 1..(Len(rest) + 1) /\ at > 1
        <5>1. Len(rest) \in Nat
          BY <2>5
        <5> QED BY <4>4, <4>5, <5>1
      <4>7. /\ groups' \in Seq(TreeIds)
            /\ \A x : x \in Hosts!ToSet(groups') <=> x \in Hosts!ToSet(rest) \/ x = g
            /\ Distinct(rest) /\ g \notin Hosts!ToSet(rest) => Distinct(groups')
            /\ Len(groups') >= 1 /\ (at > 1 => groups'[1] = rest[1])
        BY <2>5, <4>1, <4>6, InsertParts
      <4> QED BY <2>5, <4>6, <4>7
    <3> QED BY <3>1, <3>2
  <2>8. \A x : Hosts!Exists(x)' <=> Hosts!Exists(x)
    <3>1. \A x : Hosts!Exists(x)' <=> x \in Hosts!ToSet(groups')
      BY <2>7, GroupsStay
    <3> QED BY <2>2, <2>5, <2>7, <3>1, ExistsParts
  <2>9. /\ parentOf' \in [TreeIds -> TreeIds \cup {NoHost}] /\ parentOf'[All] = NoHost
        /\ parentOf'[g] = p /\ \A x \in TreeIds : x # g => parentOf'[x] = parentOf[x]
    BY <2>1, <2>2 DEF GroupsPart
  <2>10. \A x \in TreeIds : Hosts!Exists(x) /\ x # All => Hosts!Exists(parentOf'[x])
    BY <2>9 DEF GroupsPart
  <2>11. ASSUME NEW S \in SUBSET TreeIds, S # {}, \A x \in S : Hosts!Exists(x)
         PROVE  \E x \in S : parentOf'[x] \notin S
    <3> SUFFICES ASSUME \A x \in S : parentOf'[x] \in S
                 PROVE  FALSE
      OBVIOUS
    <3>1. CASE g \notin S
      BY <2>9, <2>11, <3>1 DEF GroupsPart
    <3>2. CASE g \in S
      <4> DEFINE up == Hosts!Upwards(p)
                 T == S \cap up
      <4>1. up = Hosts!Upwards(p) /\ g \notin up
        BY <2>2
      <4> HIDE DEF up
      <4>2. p \in up /\ \A x \in up : Hosts!Exists(x) => parentOf[x] \in up
        BY <2>2, <4>1, UpwardsParts
      <4>3. p \in S
        BY <2>9, <3>2
      <4>4. T # {} /\ T \in SUBSET TreeIds /\ \A x \in T : Hosts!Exists(x)
        BY <2>11, <4>2, <4>3
      <4>5. ASSUME NEW x \in T
            PROVE  parentOf[x] \in T
        <5>1. x \in S /\ x \in up /\ x # g /\ Hosts!Exists(x)
          BY <2>11, <4>1
        <5>2. parentOf'[x] = parentOf[x]
          BY <2>9, <5>1
        <5> QED BY <4>2, <5>1, <5>2
      <4> HIDE DEF T
      <4> QED BY <4>4, <4>5 DEF GroupsPart
    <3> QED BY <3>1, <3>2
  <2>12. \A x \in TreeIds : Hosts!Exists(x)' /\ x # All => Hosts!Exists(parentOf[x])'
    <3>1. ASSUME NEW x \in TreeIds, Hosts!Exists(x)', x # All, NEW above, above = parentOf'[x]
          PROVE  Hosts!Exists(above)'
      BY <2>8, <2>10, <3>1
    <3>2. ASSUME NEW x \in TreeIds, Hosts!Exists(x)', x # All
          PROVE  Hosts!Contains(groups', parentOf'[x])
      BY <3>1, <3>2 DEF Hosts!Exists
    <3> QED BY <3>2 DEF Hosts!Exists
  <2>13. GroupsPart'
    BY <2>7, <2>8, <2>9, <2>11, <2>12 DEF GroupsPart
  <2> QED BY <2>8, <2>13
<1> QED BY <1>1, <1>2

\* What makes a list of groups and their parents a tree below All
LEMMA GroupsAgain ==
  ASSUME groups' \in Seq(TreeIds), Len(groups') >= 1, groups'[1] = All,
         parentOf' \in [TreeIds -> TreeIds \cup {NoHost}], parentOf'[All] = NoHost,
         \A x \in Hosts!ToSet(groups') : x # All => parentOf'[x] \in Hosts!ToSet(groups'),
         \A S \in SUBSET TreeIds :
           S # {} /\ S \subseteq Hosts!ToSet(groups') => \E x \in S : parentOf'[x] \notin S
  PROVE  GroupsPart'
<1>1. \A x : Hosts!Contains(groups', x) <=> x \in Hosts!ToSet(groups')
  BY ContainsMeans
<1>2. \A x : Hosts!Exists(x)' <=> Hosts!Contains(groups', x)
  BY DEF Hosts!Exists
<1>3. ASSUME NEW x \in TreeIds, Hosts!Exists(x)', x # All
      PROVE  Hosts!Exists(parentOf[x])'
  <2>1. parentOf'[x] \in Hosts!ToSet(groups')
    BY <1>1, <1>2, <1>3
  <2>2. Hosts!Contains(groups', parentOf'[x])
    BY <1>1, <2>1
  <2> QED BY <2>2 DEF Hosts!Exists
<1>4. ASSUME NEW S \in SUBSET TreeIds, S # {}, \A x \in S : Hosts!Exists(x)'
      PROVE  \E x \in S : parentOf'[x] \notin S
  <2>1. S \subseteq Hosts!ToSet(groups')
    BY <1>1, <1>2, <1>4
  <2> QED BY <1>4, <2>1
<1> QED BY <1>3, <1>4 DEF GroupsPart

\* A new group hangs below one that is there.
LEMMA CreateGroupKeepsGroups ==
  ASSUME GroupsPart, NEW g \in TreeIds, ~Hosts!Exists(g), NEW p, Hosts!Exists(p),
         groups' = Append(groups, g), parentOf' = [parentOf EXCEPT ![g] = p]
  PROVE  GroupsPart' /\ \A x : Hosts!Exists(x)' <=> Hosts!Exists(x) \/ x = g
<1>1. /\ groups \in Seq(TreeIds) /\ Len(groups) >= 1 /\ groups[1] = All
      /\ parentOf \in [TreeIds -> TreeIds \cup {NoHost}] /\ parentOf[All] = NoHost
  BY DEF GroupsPart
<1>2. /\ groups' \in Seq(TreeIds) /\ Len(groups') >= 1 /\ groups'[1] = All
      /\ \A y : y \in Hosts!ToSet(groups') <=> y \in Hosts!ToSet(groups) \/ y = g
  <2>1. ASSUME NEW new, new = Append(groups, g)
        PROVE  /\ new \in Seq(TreeIds) /\ Len(new) >= 1
               /\ \A y : y \in Hosts!ToSet(new) <=> y \in Hosts!ToSet(groups) \/ y = g
               /\ Len(groups) >= 1 => new[1] = groups[1]
    <3>1. groups \in Seq(TreeIds) /\ g \in TreeIds
      BY <1>1
    <3>2. new \in Seq(TreeIds) /\ Len(new) >= 1
      BY <2>1, <3>1, AppendParts
    <3>3. \A y : y \in Hosts!ToSet(new) <=> y \in Hosts!ToSet(groups) \/ y = g
      BY <2>1, <3>1, AppendMembers
    <3>4. Len(groups) >= 1 => new[1] = groups[1]
      BY <2>1, <3>1, AppendParts
    <3> QED BY <3>2, <3>3, <3>4
  <2> QED BY <1>1, <2>1
<1>3. p \in TreeIds /\ p # g /\ g # All
  BY ExistsParts
<1>4. /\ parentOf' \in [TreeIds -> TreeIds \cup {NoHost}] /\ parentOf'[All] = NoHost
      /\ parentOf'[g] = p /\ \A x \in TreeIds : x # g => parentOf'[x] = parentOf[x]
  BY <1>1, <1>3
<1>5. \A x : Hosts!Exists(x) => x \in TreeIds /\ x # g
  BY ExistsParts
<1>6. \A x : x \in Hosts!ToSet(groups) <=> Hosts!Exists(x)
  BY ExistsParts
<1>7. \A x : Hosts!Exists(x) /\ x # All => Hosts!Exists(parentOf[x])
  BY <1>5 DEF GroupsPart
<1>8. ASSUME NEW x \in Hosts!ToSet(groups'), x # All
      PROVE  parentOf'[x] \in Hosts!ToSet(groups')
  <2>1. CASE x = g
    BY <1>2, <1>4, <1>6, <2>1
  <2>2. CASE x # g
    <3>1. Hosts!Exists(x) /\ parentOf'[x] = parentOf[x]
      BY <1>2, <1>4, <1>5, <1>6, <2>2
    <3> QED BY <1>2, <1>6, <1>7, <1>8, <3>1
  <2> QED BY <2>1, <2>2
<1>9. ASSUME NEW S \in SUBSET TreeIds, S # {}, S \subseteq Hosts!ToSet(groups')
      PROVE  \E x \in S : parentOf'[x] \notin S
  <2> SUFFICES ASSUME \A x \in S : parentOf'[x] \in S
               PROVE  FALSE
    OBVIOUS
  <2> DEFINE T == S \ {g}
  <2>1. T # {}
    <3>1. CASE g \in S
      BY <1>3, <1>4, <3>1
    <3>2. CASE g \notin S
      BY <1>9, <3>2
    <3> QED BY <3>1, <3>2
  <2>2. T \in SUBSET TreeIds /\ \A x \in T : Hosts!Exists(x)
    BY <1>2, <1>6, <1>9
  <2>3. ASSUME NEW x \in T
        PROVE  parentOf[x] \in T
    <3>1. parentOf'[x] = parentOf[x] /\ Hosts!Exists(x) /\ parentOf[x] \in S
      BY <1>4, <2>2
    <3>2. parentOf[x] # g
      <4>1. CASE x = All
        <5>1. parentOf[x] \notin TreeIds
          BY <1>1, <4>1, ExistsParts
        <5> QED BY <3>1, <5>1
      <4>2. CASE x # All
        BY <1>5, <1>7, <3>1, <4>2
      <4> QED BY <4>1, <4>2
    <3> QED BY <3>1, <3>2
  <2> HIDE DEF T
  <2> QED BY <2>1, <2>2, <2>3 DEF GroupsPart
<1>10. GroupsPart'
  BY <1>2, <1>4, <1>8, <1>9, GroupsAgain
<1>11. \A x : Hosts!Exists(x)' <=> x \in Hosts!ToSet(groups')
  BY <1>2, GroupsStay
<1> QED BY <1>2, <1>6, <1>10, <1>11

\* A group that goes takes the groups below it along: no other loses its parent.
LEMMA RemoveGroupKeepsGroups ==
  ASSUME GroupsPart, NEW g \in TreeIds, g # All, NEW gone, gone = Hosts!Descendants(g),
         groups' = Hosts!Keep(groups, {i \in DOMAIN groups : groups[i] \notin gone}),
         parentOf' = [h \in DOMAIN parentOf |-> IF h \in gone THEN All ELSE parentOf[h]]
  PROVE  GroupsPart' /\ \A x : Hosts!Exists(x)' <=> Hosts!Exists(x) /\ x \notin gone
<1> DEFINE pass == {i \in DOMAIN groups : groups[i] \notin gone}
<1>1. /\ groups \in Seq(TreeIds) /\ Len(groups) >= 1 /\ groups[1] = All
      /\ parentOf \in [TreeIds -> TreeIds \cup {NoHost}] /\ parentOf[All] = NoHost
  BY DEF GroupsPart
<1>2. DOMAIN groups = 1..Len(groups)
  BY <1>1
<1>3. groups' = Hosts!Keep(groups, pass) /\ pass \in SUBSET (1..Len(groups))
      /\ \A i : i \in pass <=> i \in 1..Len(groups) /\ groups[i] \notin gone
  BY <1>2
<1> HIDE DEF pass
<1>4. /\ groups' \in Seq(TreeIds)
      /\ \A i \in 1..Len(groups') : \E k \in pass : groups'[i] = groups[k]
      /\ \A k \in pass : \E i \in 1..Len(groups') : groups'[i] = groups[k]
      /\ (\A i, j \in 1..Len(groups) : groups[i] = groups[j] => i = j) =>
              \A i, j \in 1..Len(groups') : groups'[i] = groups'[j] => i = j
      /\ 1 \in pass => Len(groups') >= 1 /\ groups'[1] = groups[1]
  BY <1>1, <1>3, KeepParts
<1>5. /\ \A x \in gone : Hosts!Exists(x)
      /\ All \notin gone
      /\ \A x \in TreeIds : Hosts!Exists(x) /\ parentOf[x] \in gone => x \in gone
  BY DescendantsParts
<1>6. Len(groups') >= 1 /\ groups'[1] = All
  <2>1. 1 \in 1..Len(groups)
    BY <1>1
  <2> QED BY <1>1, <1>3, <1>4, <1>5, <2>1
<1>7. DOMAIN groups' = 1..Len(groups')
  BY <1>4
<1>8. ASSUME NEW x \in Hosts!ToSet(groups')
      PROVE  x \in Hosts!ToSet(groups) /\ x \notin gone
  <2>1. PICK i \in 1..Len(groups') : groups'[i] = x
    BY <1>7 DEF Hosts!ToSet
  <2>2. PICK k \in pass : x = groups[k]
    BY <1>4, <2>1
  <2> QED BY <1>2, <1>3, <2>2 DEF Hosts!ToSet
<1>9. ASSUME NEW x \in Hosts!ToSet(groups), x \notin gone
      PROVE  x \in Hosts!ToSet(groups')
  <2>1. PICK k \in 1..Len(groups) : groups[k] = x
    BY <1>2 DEF Hosts!ToSet
  <2>2. PICK i \in 1..Len(groups') : groups'[i] = x
    BY <1>3, <1>4, <1>9, <2>1
  <2> QED BY <1>7, <2>2 DEF Hosts!ToSet
<1>10. \A x : x \in Hosts!ToSet(groups) <=> Hosts!Exists(x)
  BY ExistsParts
<1>11. All \in TreeIds /\ DOMAIN parentOf = TreeIds /\ \A x : Hosts!Exists(x) => x \in TreeIds
  BY ExistsParts
<1>12. /\ parentOf' \in [TreeIds -> TreeIds \cup {NoHost}] /\ parentOf'[All] = NoHost
       /\ \A x \in TreeIds : x \notin gone => parentOf'[x] = parentOf[x]
  BY <1>1, <1>5, <1>11
<1>13. ASSUME NEW x \in Hosts!ToSet(groups'), x # All
       PROVE  parentOf'[x] \in Hosts!ToSet(groups')
  <2>1. Hosts!Exists(x) /\ x \in TreeIds /\ x \notin gone
    BY <1>8, <1>10, <1>11
  <2>2. Hosts!Exists(parentOf[x]) /\ parentOf[x] \notin gone
    BY <1>5, <1>13, <2>1 DEF GroupsPart
  <2> QED BY <1>9, <1>10, <1>12, <2>1, <2>2
<1>14. ASSUME NEW S \in SUBSET TreeIds, S # {}, S \subseteq Hosts!ToSet(groups')
       PROVE  \E x \in S : parentOf'[x] \notin S
  <2>1. \A x \in S : Hosts!Exists(x) /\ parentOf'[x] = parentOf[x]
    BY <1>8, <1>10, <1>12, <1>14
  <2>2. PICK x \in S : parentOf[x] \notin S
    BY <1>14, <2>1 DEF GroupsPart
  <2> QED BY <2>1, <2>2
<1>15. GroupsPart'
  BY <1>4, <1>6, <1>12, <1>13, <1>14, GroupsAgain
<1>16. \A x : Hosts!Exists(x)' <=> x \in Hosts!ToSet(groups')
  BY <1>4, <1>6, GroupsStay
<1> QED BY <1>8, <1>9, <1>10, <1>15, <1>16

\* A restart finds every parent there.
LEMMA RestartKeepsGroups ==
  ASSUME GroupsPart, UNCHANGED groups,
         parentOf' = [g \in DOMAIN parentOf |->
                        IF g # All /\ ~Hosts!Exists(parentOf[g]) THEN All ELSE parentOf[g]]
  PROVE  GroupsPart' /\ \A x : Hosts!Exists(x)' <=> Hosts!Exists(x)
<1>1. /\ groups' \in Seq(TreeIds) /\ Len(groups') >= 1 /\ groups'[1] = All
      /\ parentOf \in [TreeIds -> TreeIds \cup {NoHost}] /\ parentOf[All] = NoHost
  BY DEF GroupsPart
<1>2. /\ \A x : x \in Hosts!ToSet(groups') <=> Hosts!Exists(x)
      /\ All \in TreeIds /\ DOMAIN parentOf = TreeIds /\ \A x : Hosts!Exists(x) => x \in TreeIds
  BY ExistsParts
<1>3. /\ parentOf' \in [TreeIds -> TreeIds \cup {NoHost}] /\ parentOf'[All] = NoHost
      /\ \A x : Hosts!Exists(x) => parentOf'[x] = parentOf[x]
  BY <1>1, <1>2 DEF GroupsPart
<1>4. \A x \in Hosts!ToSet(groups') : x # All => parentOf'[x] \in Hosts!ToSet(groups')
  BY <1>2, <1>3 DEF GroupsPart
<1>5. ASSUME NEW S \in SUBSET TreeIds, S # {}, S \subseteq Hosts!ToSet(groups')
      PROVE  \E x \in S : parentOf'[x] \notin S
  <2>1. \A x \in S : Hosts!Exists(x) /\ parentOf'[x] = parentOf[x]
    BY <1>2, <1>3, <1>5
  <2>2. PICK x \in S : parentOf[x] \notin S
    BY <1>5, <2>1 DEF GroupsPart
  <2> QED BY <2>1, <2>2
<1>6. GroupsPart'
  BY <1>1, <1>3, <1>4, <1>5, GroupsAgain
<1>7. \A x : Hosts!Exists(x)' <=> x \in Hosts!ToSet(groups')
  BY <1>1, GroupsStay
<1> QED BY <1>2, <1>6, <1>7

(* The hosts: each in the list of its group, once. *)

\* A list of a set is one of any set with the same members.
LEMMA SameList ==
  ASSUME NEW list, NEW members, ListOf(list, members), NEW others,
         \A h : h \in members <=> h \in others
  PROVE  ListOf(list, others)
  BY DEF ListOf

\* What makes lists of hosts and the groups of hosts agree
LEMMA HostsAgain ==
  ASSUME hosts' \in SUBSET TreeHosts, groupOf' \in [TreeHosts -> TreeIds],
         sessionIds' \in [TreeIds -> Seq(TreeHosts)],
         \A h \in hosts' : Hosts!Contains(groups', groupOf'[h]) \/ groupOf'[h] = Favorites,
         \A g \in TreeIds : Hosts!Contains(groups', g) =>
             ListOf(sessionIds'[g], {h \in hosts' : groupOf'[h] = g})
  PROVE  HostsPart'
<1>1. ASSUME NEW h \in hosts', ~Hosts!Exists(groupOf[h])'
      PROVE  groupOf'[h] = Favorites
  BY <1>1 DEF Hosts!Exists
<1>2. ASSUME NEW g \in TreeIds, Hosts!Exists(g)'
      PROVE  ListOf(sessionIds[g], Members(g))'
  <2>1. ListOf(sessionIds'[g], {h \in hosts' : groupOf'[h] = g})
    BY <1>2 DEF Hosts!Exists
  <2> QED BY <2>1 DEF Members
<1> QED BY <1>1, <1>2 DEF HostsPart

\* The list of a group that is there
LEMMA ListOfGroup ==
  ASSUME GroupsPart, HostsPart, NEW g, Hosts!Contains(groups, g)
  PROVE  g \in TreeIds /\ ListOf(sessionIds[g], {h \in hosts : groupOf[h] = g})
<1>1. Hosts!Exists(g) /\ g \in TreeIds
  BY ExistsParts DEF Hosts!Exists
<1> QED BY <1>1 DEF HostsPart, Members

\* A host that was not there is appended to the list of its group.
LEMMA AddSessionsKeepsHosts ==
  ASSUME GroupsPart, HostsPart, NEW new \in SUBSET TreeHosts, new \cap hosts = {},
         NEW g \in TreeIds, Hosts!Contains(groups, g) \/ g = Favorites,
         Hosts!AddSessions(new, g), UNCHANGED groups
  PROVE  HostsPart'
<1>1. /\ hosts' = hosts \cup new
      /\ groupOf' = [h \in TreeHosts |-> IF h \in new THEN g ELSE groupOf[h]]
  BY DEF Hosts!AddSessions
<1>2. PICK order \in Hosts!SetToSeqs(new) :
        sessionIds' = IF Hosts!Contains(groups, g) THEN [sessionIds EXCEPT ![g] = @ \o order]
                      ELSE sessionIds
  BY DEF Hosts!AddSessions, Hosts!Exists
<1>3. /\ hosts \in SUBSET TreeHosts /\ groupOf \in [TreeHosts -> TreeIds]
      /\ sessionIds \in [TreeIds -> Seq(TreeHosts)]
      /\ \A h \in hosts : Hosts!Contains(groups, groupOf[h]) \/ groupOf[h] = Favorites
  BY DEF HostsPart, Hosts!Exists
<1>4. ListOf(order, new)
  BY ListOrder
<1>5. /\ hosts' \in SUBSET TreeHosts /\ groupOf' \in [TreeHosts -> TreeIds]
      /\ \A h \in new : groupOf'[h] = g
      /\ \A h \in hosts : h \notin new /\ groupOf'[h] = groupOf[h]
  BY <1>1, <1>3
<1>6. ASSUME NEW x \in TreeIds, Hosts!Contains(groups, x), x # g
      PROVE  ListOf(sessionIds[x], {h \in hosts' : groupOf'[h] = x})
  <2>1. ListOf(sessionIds[x], {h \in hosts : groupOf[h] = x})
    BY <1>6, ListOfGroup
  <2>2. \A h : h \in {k \in hosts : groupOf[k] = x} <=> h \in {k \in hosts' : groupOf'[k] = x}
    BY <1>1, <1>5, <1>6
  <2> QED BY <2>1, <2>2, SameList
<1>7. CASE Hosts!Contains(groups, g)
  <2> DEFINE all == sessionIds[g] \o order
  <2>1. ListOf(sessionIds[g], {h \in hosts : groupOf[h] = g})
    BY <1>7, ListOfGroup
  <2>2. {h \in hosts : groupOf[h] = g} \cap new = {}
    OBVIOUS
  <2>3. ListOf(all, {h \in hosts : groupOf[h] = g} \cup new)
    BY <1>4, <2>1, <2>2, ListBoth
  <2>4. all \in Seq(TreeHosts)
    BY <2>3 DEF ListOf
  <2>5. \A h : h \in ({k \in hosts : groupOf[k] = g} \cup new) <=> h \in {k \in hosts' : groupOf'[k] = g}
    BY <1>1, <1>5
  <2>6. sessionIds' = [sessionIds EXCEPT ![g] = all]
    BY <1>2, <1>7
  <2> HIDE DEF all
  <2>7. ListOf(all, {h \in hosts' : groupOf'[h] = g})
    BY <2>3, <2>5, SameList
  <2>8. /\ sessionIds' \in [TreeIds -> Seq(TreeHosts)] /\ sessionIds'[g] = all
        /\ \A x \in TreeIds : x # g => sessionIds'[x] = sessionIds[x]
    BY <1>3, <2>4, <2>6
  <2>9. \A x \in TreeIds : Hosts!Contains(groups', x) =>
             ListOf(sessionIds'[x], {h \in hosts' : groupOf'[h] = x})
    BY <1>6, <2>7, <2>8
  <2>10. \A h \in hosts' : Hosts!Contains(groups', groupOf'[h]) \/ groupOf'[h] = Favorites
    BY <1>1, <1>3, <1>5
  <2> QED BY <1>5, <2>8, <2>9, <2>10, HostsAgain
<1>8. CASE ~Hosts!Contains(groups, g)
  <2>1. sessionIds' = sessionIds
    BY <1>2, <1>8
  <2>2. \A x \in TreeIds : Hosts!Contains(groups', x) =>
             ListOf(sessionIds'[x], {h \in hosts' : groupOf'[h] = x})
    BY <1>6, <1>8, <2>1
  <2>3. \A h \in hosts' : Hosts!Contains(groups', groupOf'[h]) \/ groupOf'[h] = Favorites
    BY <1>1, <1>3, <1>5
  <2> QED BY <1>3, <1>5, <2>1, <2>2, <2>3, HostsAgain
<1> QED BY <1>7, <1>8

\* A host that goes leaves the list of its group.
LEMMA RemoveSessionKeepsHosts ==
  ASSUME GroupsPart, HostsPart, NEW h \in TreeHosts, Hosts!RemoveSession(h)
  PROVE  HostsPart'
<1>1. /\ hosts' = hosts \ {h} /\ groupOf' = [groupOf EXCEPT ![h] = All] /\ groups' = groups
      /\ sessionIds' = [g \in DOMAIN sessionIds |-> Hosts!Without(sessionIds[g], h)]
  BY DEF Hosts!RemoveSession
<1>2. /\ hosts \in SUBSET TreeHosts /\ groupOf \in [TreeHosts -> TreeIds]
      /\ sessionIds \in [TreeIds -> Seq(TreeHosts)] /\ DOMAIN sessionIds = TreeIds
      /\ \A k \in hosts : Hosts!Contains(groups, groupOf[k]) \/ groupOf[k] = Favorites
  BY DEF HostsPart, Hosts!Exists
<1>3. All \in TreeIds
  BY ExistsParts
<1>4. /\ hosts' \in SUBSET TreeHosts /\ groupOf' \in [TreeHosts -> TreeIds]
      /\ \A k \in hosts' : k \in hosts /\ k # h /\ groupOf'[k] = groupOf[k]
  BY <1>1, <1>2, <1>3
<1>5. ASSUME NEW g \in TreeIds
      PROVE  Hosts!Without(sessionIds[g], h) \in Seq(TreeHosts)
  BY <1>2, WithoutParts
<1>6. sessionIds' \in [TreeIds -> Seq(TreeHosts)]
  BY <1>1, <1>2, <1>5
<1>7. ASSUME NEW g \in TreeIds, Hosts!Contains(groups, g)
      PROVE  ListOf(sessionIds'[g], {k \in hosts' : groupOf'[k] = g})
  <2>1. ListOf(sessionIds[g], {k \in hosts : groupOf[k] = g})
    BY <1>7, ListOfGroup
  <2>2. ListOf(Hosts!Without(sessionIds[g], h), {k \in hosts : groupOf[k] = g} \ {h})
    BY <2>1, ListWithout
  <2>3. \A k : k \in ({x \in hosts : groupOf[x] = g} \ {h}) <=> k \in {x \in hosts' : groupOf'[x] = g}
    BY <1>1, <1>4
  <2>4. sessionIds'[g] = Hosts!Without(sessionIds[g], h)
    BY <1>1, <1>2
  <2> QED BY <2>2, <2>3, <2>4, SameList
<1>8. \A k \in hosts' : Hosts!Contains(groups', groupOf'[k]) \/ groupOf'[k] = Favorites
  BY <1>1, <1>2, <1>4
<1> QED BY <1>1, <1>4, <1>6, <1>7, <1>8, HostsAgain

\* A host that moves leaves one list for another.
LEMMA MoveSessionKeepsHosts ==
  ASSUME GroupsPart, HostsPart, NEW h, NEW g, NEW index \in Nat,
         Hosts!MoveSession(h, g, index), UNCHANGED hosts
  PROVE  HostsPart'
<1> DEFINE without == [x \in DOMAIN sessionIds |-> Hosts!Without(sessionIds[x], h)]
           at == IF index > Len(without[g]) THEN Len(without[g]) ELSE index
           list == Hosts!InsertAt(without[g], at + 1, h)
<1>1. /\ h \in hosts /\ Hosts!Contains(groups, g) /\ groups' = groups
      /\ groupOf' = [groupOf EXCEPT ![h] = g]
      /\ sessionIds' = [without EXCEPT ![g] = list]
  BY DEF Hosts!MoveSession, Hosts!Exists
<1>2. /\ hosts \in SUBSET TreeHosts /\ groupOf \in [TreeHosts -> TreeIds]
      /\ sessionIds \in [TreeIds -> Seq(TreeHosts)] /\ DOMAIN sessionIds = TreeIds
      /\ \A k \in hosts : Hosts!Contains(groups, groupOf[k]) \/ groupOf[k] = Favorites
  BY DEF HostsPart, Hosts!Exists
<1>3. g \in TreeIds /\ h \in TreeHosts
  BY <1>1, <1>2, ListOfGroup
<1>4. ASSUME NEW x \in TreeIds
      PROVE  Hosts!Without(sessionIds[x], h) \in Seq(TreeHosts)
  BY <1>2, WithoutParts
<1>5. /\ without \in [TreeIds -> Seq(TreeHosts)]
      /\ \A x \in TreeIds : without[x] = Hosts!Without(sessionIds[x], h)
  BY <1>2, <1>4
<1>6. ASSUME NEW x \in TreeIds, Hosts!Contains(groups, x)
      PROVE  ListOf(without[x], {k \in hosts : groupOf[k] = x} \ {h})
  <2>1. ListOf(sessionIds[x], {k \in hosts : groupOf[k] = x})
    BY <1>6, ListOfGroup
  <2> QED BY <1>5, <2>1, ListWithout
<1>7. at + 1 \in 1..(Len(without[g]) + 1)
  <2>1. Len(without[g]) \in Nat
    BY <1>3, <1>5
  <2> QED BY <2>1
<1>8. /\ list = Hosts!InsertAt(without[g], at + 1, h)
      /\ sessionIds' = [without EXCEPT ![g] = list]
  BY <1>1
<1> HIDE DEF without, at, list
<1>9. ListOf(list, ({k \in hosts : groupOf[k] = g} \ {h}) \cup {h})
  <2>1. ListOf(without[g], {k \in hosts : groupOf[k] = g} \ {h})
    BY <1>1, <1>3, <1>6
  <2>2. h \notin {k \in hosts : groupOf[k] = g} \ {h}
    OBVIOUS
  <2> QED BY <1>3, <1>7, <1>8, <2>1, <2>2, ListInsert
<1>10. list \in Seq(TreeHosts)
  BY <1>9 DEF ListOf
<1>11. /\ sessionIds' \in [TreeIds -> Seq(TreeHosts)] /\ sessionIds'[g] = list
       /\ \A x \in TreeIds : x # g => sessionIds'[x] = without[x]
  BY <1>3, <1>5, <1>8, <1>10
<1>12. /\ groupOf' \in [TreeHosts -> TreeIds] /\ groupOf'[h] = g
       /\ \A k \in hosts : k # h => groupOf'[k] = groupOf[k]
  BY <1>1, <1>2, <1>3
<1>13. ASSUME NEW x \in TreeIds, Hosts!Contains(groups', x)
       PROVE  ListOf(sessionIds'[x], {k \in hosts' : groupOf'[k] = x})
  <2>1. CASE x = g
    <3>1. \A k : k \in (({y \in hosts : groupOf[y] = g} \ {h}) \cup {h}) <=>
                   k \in {y \in hosts' : groupOf'[y] = g}
      BY <1>1, <1>12
    <3>2. ListOf(list, {k \in hosts' : groupOf'[k] = g})
      BY <1>9, <3>1, SameList
    <3> QED BY <1>11, <2>1, <3>2
  <2>2. CASE x # g
    <3>1. \A k : k \in ({y \in hosts : groupOf[y] = x} \ {h}) <=> k \in {y \in hosts' : groupOf'[y] = x}
      BY <1>1, <1>12, <2>2
    <3>2. ListOf(without[x], {k \in hosts' : groupOf'[k] = x})
      BY <1>1, <1>6, <1>13, <3>1, SameList
    <3> QED BY <1>11, <2>2, <3>2
  <2> QED BY <2>1, <2>2
<1>14. \A k \in hosts' : Hosts!Contains(groups', groupOf'[k]) \/ groupOf'[k] = Favorites
  BY <1>1, <1>2, <1>12
<1> QED BY <1>2, <1>11, <1>12, <1>13, <1>14, HostsAgain

\* No host is in a group that is made.
LEMMA CreateGroupKeepsHosts ==
  ASSUME GroupsPart, HostsPart, NEW g \in TreeGroups, ~Hosts!Contains(groups, g),
         groups' = Append(groups, g), sessionIds' = [sessionIds EXCEPT ![g] = <<>>],
         UNCHANGED <<hosts, groupOf>>
  PROVE  HostsPart'
<1>1. /\ hosts \in SUBSET TreeHosts /\ groupOf \in [TreeHosts -> TreeIds]
      /\ sessionIds \in [TreeIds -> Seq(TreeHosts)]
      /\ \A k \in hosts : Hosts!Contains(groups, groupOf[k]) \/ groupOf[k] = Favorites
  BY DEF HostsPart, Hosts!Exists
<1>2. g \in TreeIds /\ g # Favorites
  BY WindowAssumption DEF TreeIds
<1>3. /\ sessionIds' \in [TreeIds -> Seq(TreeHosts)] /\ sessionIds'[g] = <<>>
      /\ \A x \in TreeIds : x # g => sessionIds'[x] = sessionIds[x]
  <2>1. <<>> \in Seq(TreeHosts)
    OBVIOUS
  <2> QED BY <1>1, <1>2, <2>1
<1>4. \A x : Hosts!Contains(groups', x) <=> Hosts!Contains(groups, x) \/ x = g
  <2>1. groups \in Seq(TreeIds)
    BY DEF GroupsPart
  <2>2. groups' \in Seq(TreeIds)
    BY <1>2, <2>1
  <2>3. \A y : y \in Hosts!ToSet(groups') <=> y \in Hosts!ToSet(groups) \/ y = g
    BY <1>2, <2>1, AppendMembers
  <2>4. \A x : Hosts!Contains(groups', x) <=> x \in Hosts!ToSet(groups')
    BY <2>2, ContainsMeans
  <2>5. \A x : Hosts!Contains(groups, x) <=> x \in Hosts!ToSet(groups)
    BY <2>1, ContainsMeans
  <2> QED BY <2>3, <2>4, <2>5
<1>5. ASSUME NEW x \in TreeIds, Hosts!Contains(groups', x)
      PROVE  ListOf(sessionIds'[x], {k \in hosts' : groupOf'[k] = x})
  <2>1. CASE x = g
    <3>1. \A k : k \in {} <=> k \in {y \in hosts' : groupOf'[y] = g}
      BY <1>1, <1>2
    <3>2. ListOf(<<>>, {k \in hosts' : groupOf'[k] = g})
      BY <3>1, EmptyList, SameList
    <3> QED BY <1>3, <2>1, <3>2
  <2>2. CASE x # g
    <3>1. ListOf(sessionIds[x], {k \in hosts : groupOf[k] = x})
      BY <1>4, <1>5, <2>2, ListOfGroup
    <3> QED BY <1>3, <2>2, <3>1
  <2> QED BY <2>1, <2>2
<1>6. \A k \in hosts' : Hosts!Contains(groups', groupOf'[k]) \/ groupOf'[k] = Favorites
  BY <1>1, <1>4
<1> QED BY <1>1, <1>3, <1>5, <1>6, HostsAgain

\* What leaves with the groups that go is what is in them.
LEMMA LeavingParts ==
  ASSUME GroupsPart, HostsPart, NEW gone, \A x \in gone : Hosts!Exists(x),
         NEW moved \in Hosts!Leaving(gone)
  PROVE  ListOf(moved, {h \in hosts : groupOf[h] \in gone})
<1> DEFINE those == {h \in hosts : \E g \in gone : Hosts!Contains(sessionIds[g], h)}
<1>1. moved \in Hosts!SetToSeqs(those)
  BY DEF Hosts!Leaving
<1>2. hosts \in SUBSET TreeHosts /\ sessionIds \in [TreeIds -> Seq(TreeHosts)]
  BY DEF HostsPart
<1>3. those \in SUBSET TreeHosts
  BY <1>2
<1>4. ASSUME NEW g \in gone, NEW h \in hosts
      PROVE  Hosts!Contains(sessionIds[g], h) <=> groupOf[h] = g
  <2>1. Hosts!Contains(groups, g)
    BY DEF Hosts!Exists
  <2>2. g \in TreeIds /\ ListOf(sessionIds[g], {k \in hosts : groupOf[k] = g})
    BY <2>1, ListOfGroup
  <2>3. Hosts!Contains(sessionIds[g], h) <=> h \in Hosts!ToSet(sessionIds[g])
    BY <1>2, <2>2, ContainsMeans
  <2> QED BY <2>2, <2>3 DEF ListOf
<1>5. \A h : h \in those <=> h \in {k \in hosts : groupOf[k] \in gone}
  BY <1>4
<1> HIDE DEF those
<1>6. ListOf(moved, those)
  BY <1>1, <1>3, ListOrder
<1> QED BY <1>5, <1>6, SameList

\* The hosts of the groups that go are appended to the list of All.
LEMMA RemoveGroupKeepsHosts ==
  ASSUME GroupsPart, HostsPart, NEW g \in TreeIds, g # All, Hosts!RemoveGroup(g, All)
  PROVE  GroupsPart' /\ HostsPart' /\ UNCHANGED hosts
<1> DEFINE gone == Hosts!Descendants(g)
           leaving == {h \in hosts : groupOf[h] \in gone}
<1>1. /\ groups' = Hosts!Keep(groups, {i \in DOMAIN groups : groups[i] \notin gone})
      /\ parentOf' = [h \in DOMAIN parentOf |-> IF h \in gone THEN All ELSE parentOf[h]]
  BY DEF Hosts!RemoveGroup
<1>2. gone = Hosts!Descendants(g)
  OBVIOUS
<1>3. Hosts!Exists(All) /\ All \in TreeIds /\ \A x : Hosts!Exists(x) => x \in TreeIds
  BY ExistsParts
<1>4. All \notin gone /\ \A x \in gone : Hosts!Exists(x)
  BY <1>2, DescendantsParts
<1>5. PICK moved \in Hosts!Leaving(gone) :
        /\ groupOf' = [h \in TreeHosts |-> IF Hosts!Contains(moved, h) THEN All ELSE groupOf[h]]
        /\ sessionIds' = [x \in DOMAIN sessionIds |->
             IF x \in gone THEN <<>> ELSE IF x # All THEN sessionIds[x]
             ELSE sessionIds[x] \o
                    Hosts!Keep(moved, {i \in DOMAIN moved : ~Hosts!Contains(sessionIds[x], moved[i])})]
        /\ hosts' = hosts
  BY <1>3, <1>4 DEF Hosts!RemoveGroup
<1> HIDE DEF gone
<1>6. GroupsPart' /\ \A x : Hosts!Exists(x)' <=> Hosts!Exists(x) /\ x \notin gone
  BY <1>1, <1>2, RemoveGroupKeepsGroups
<1>7. \A x : Hosts!Contains(groups', x) <=> Hosts!Contains(groups, x) /\ x \notin gone
  BY <1>6 DEF Hosts!Exists
<1>8. /\ hosts \in SUBSET TreeHosts /\ groupOf \in [TreeHosts -> TreeIds]
      /\ sessionIds \in [TreeIds -> Seq(TreeHosts)] /\ DOMAIN sessionIds = TreeIds
      /\ \A k \in hosts : Hosts!Contains(groups, groupOf[k]) \/ groupOf[k] = Favorites
  BY DEF HostsPart, Hosts!Exists
<1>9. ListOf(moved, leaving)
  BY <1>4, <1>5, LeavingParts
<1>10. \A h : Hosts!Contains(moved, h) <=> h \in leaving
  <2>1. moved \in Seq(TreeHosts)
    BY <1>9 DEF ListOf
  <2>2. \A h : Hosts!Contains(moved, h) <=> h \in Hosts!ToSet(moved)
    BY <2>1, ContainsMeans
  <2> QED BY <1>9, <2>2 DEF ListOf
<1>11. /\ groupOf' \in [TreeHosts -> TreeIds]
       /\ \A h \in hosts : groupOf'[h] = IF groupOf[h] \in gone THEN All ELSE groupOf[h]
  BY <1>3, <1>5, <1>8, <1>10
<1> DEFINE remain == Hosts!Keep(moved, {i \in DOMAIN moved : ~Hosts!Contains(sessionIds[All], moved[i])})
           all == sessionIds[All] \o remain
           here == {h \in hosts : groupOf[h] = All}
<1>12. ListOf(sessionIds[All], here)
  BY <1>3, ListOfGroup DEF Hosts!Exists
<1>13. here \cap leaving = {}
  BY <1>4
<1>14. remain = Hosts!Keep(moved, {i \in DOMAIN moved : ~Hosts!Contains(sessionIds[All], moved[i])})
  OBVIOUS
<1>15. \A x \in TreeIds : sessionIds'[x] = IF x \in gone THEN <<>> ELSE IF x # All THEN sessionIds[x] ELSE all
  BY <1>5, <1>8
<1>16. DOMAIN sessionIds' = TreeIds /\ sessionIds' = [x \in TreeIds |-> sessionIds'[x]]
  BY <1>5, <1>8
<1>17. all = sessionIds[All] \o remain
  OBVIOUS
<1> HIDE DEF remain, all, here, leaving
<1>18. ListOf(remain, leaving)
  BY <1>9, <1>12, <1>13, <1>14, ListKeep
<1>19. ListOf(all, here \cup leaving)
  BY <1>12, <1>13, <1>17, <1>18, ListBoth
<1>20. sessionIds' \in [TreeIds -> Seq(TreeHosts)]
  <2>1. all \in Seq(TreeHosts) /\ <<>> \in Seq(TreeHosts)
    BY <1>19 DEF ListOf
  <2>2. \A x \in TreeIds : sessionIds'[x] \in Seq(TreeHosts)
    BY <1>8, <1>15, <2>1
  <2> QED BY <1>16, <2>2
<1>21. ASSUME NEW x \in TreeIds, Hosts!Contains(groups', x)
       PROVE  ListOf(sessionIds'[x], {k \in hosts' : groupOf'[k] = x})
  <2>1. x \notin gone /\ Hosts!Contains(groups, x)
    BY <1>7, <1>21
  <2>2. CASE x = All
    <3>1. \A k : k \in (here \cup leaving) <=> k \in {y \in hosts' : groupOf'[y] = All}
      BY <1>4, <1>5, <1>11 DEF here, leaving
    <3>2. ListOf(all, {k \in hosts' : groupOf'[k] = All})
      BY <1>19, <3>1, SameList
    <3> QED BY <1>15, <2>1, <2>2, <3>2
  <2>3. CASE x # All
    <3>1. ListOf(sessionIds[x], {k \in hosts : groupOf[k] = x})
      BY <2>1, ListOfGroup
    <3>2. \A k : k \in {y \in hosts : groupOf[y] = x} <=> k \in {y \in hosts' : groupOf'[y] = x}
      BY <1>5, <1>11, <2>1, <2>3
    <3>3. ListOf(sessionIds[x], {k \in hosts' : groupOf'[k] = x})
      BY <3>1, <3>2, SameList
    <3> QED BY <1>15, <2>1, <2>3, <3>3
  <2> QED BY <2>2, <2>3
<1>22. \A k \in hosts' : Hosts!Contains(groups', groupOf'[k]) \/ groupOf'[k] = Favorites
  BY <1>3, <1>4, <1>5, <1>7, <1>8, <1>11 DEF Hosts!Exists
<1>23. HostsPart'
  BY <1>5, <1>8, <1>11, <1>20, <1>21, <1>22, HostsAgain
<1> QED BY <1>5, <1>6, <1>23

\* A restart puts the hosts whose group is not there into All.
LEMMA RestartKeepsHosts ==
  ASSUME GroupsPart, HostsPart, Hosts!Restart
  PROVE  GroupsPart' /\ HostsPart' /\ AskedPart' /\ UNCHANGED hosts
<1> DEFINE stray == {h \in hosts : ~Hosts!Exists(groupOf[h])}
           here == {h \in hosts : groupOf[h] = All}
<1>1. groups[1] = All
  BY DEF GroupsPart
<1>2. /\ parentOf' = [g \in DOMAIN parentOf |->
                        IF g # All /\ ~Hosts!Exists(parentOf[g]) THEN All ELSE parentOf[g]]
      /\ groupOf' = [h \in TreeHosts |-> IF h \in stray THEN All ELSE groupOf[h]]
      /\ confirm' = Hosts!NoConfirm /\ naming' = NoHost /\ groups' = groups /\ hosts' = hosts
  BY <1>1 DEF Hosts!Restart
<1>3. PICK order \in Hosts!SetToSeqs(stray) :
        sessionIds' = [sessionIds EXCEPT ![All] = @ \o order]
  BY <1>1 DEF Hosts!Restart
<1>4. GroupsPart'
  BY <1>2, RestartKeepsGroups
<1>5. Hosts!Exists(All) /\ All \in TreeIds
  BY ExistsParts
<1>6. /\ hosts \in SUBSET TreeHosts /\ groupOf \in [TreeHosts -> TreeIds]
      /\ sessionIds \in [TreeIds -> Seq(TreeHosts)] /\ DOMAIN sessionIds = TreeIds
  BY DEF HostsPart
<1>7. stray \in SUBSET TreeHosts /\ here \cap stray = {}
  BY <1>5, <1>6
<1>8. ListOf(sessionIds[All], here)
  BY <1>5, ListOfGroup DEF Hosts!Exists
<1> DEFINE all == sessionIds[All] \o order
<1>9. sessionIds' = [sessionIds EXCEPT ![All] = all]
  BY <1>3
<1>10. ListOf(all, here \cup stray)
  <2>1. ListOf(order, stray)
    BY <1>7, ListOrder
  <2> HIDE DEF here, stray
  <2> QED BY <1>7, <1>8, <2>1, ListBoth
<1> HIDE DEF all
<1>11. all \in Seq(TreeHosts)
  BY <1>10 DEF ListOf
<1>12. /\ sessionIds' \in [TreeIds -> Seq(TreeHosts)] /\ sessionIds'[All] = all
       /\ \A x \in TreeIds : x # All => sessionIds'[x] = sessionIds[x]
  BY <1>5, <1>6, <1>9, <1>11
<1>13. /\ groupOf' \in [TreeHosts -> TreeIds]
       /\ \A h \in hosts : groupOf'[h] = IF Hosts!Exists(groupOf[h]) THEN groupOf[h] ELSE All
  BY <1>2, <1>5, <1>6
<1>14. ASSUME NEW x \in TreeIds, Hosts!Contains(groups', x)
       PROVE  ListOf(sessionIds'[x], {k \in hosts' : groupOf'[k] = x})
  <2>1. Hosts!Contains(groups, x) /\ Hosts!Exists(x)
    BY <1>2, <1>14 DEF Hosts!Exists
  <2>2. CASE x = All
    <3>1. \A k : k \in (here \cup stray) <=> k \in {y \in hosts' : groupOf'[y] = All}
      BY <1>2, <1>5, <1>13
    <3> HIDE DEF here, stray
    <3>2. ListOf(all, {k \in hosts' : groupOf'[k] = All})
      BY <1>10, <3>1, SameList
    <3> QED BY <1>12, <2>2, <3>2
  <2>3. CASE x # All
    <3>1. ListOf(sessionIds[x], {k \in hosts : groupOf[k] = x})
      BY <2>1, ListOfGroup
    <3>2. \A k : k \in {y \in hosts : groupOf[y] = x} <=> k \in {y \in hosts' : groupOf'[y] = x}
      BY <1>2, <1>13, <2>1, <2>3
    <3>3. ListOf(sessionIds[x], {k \in hosts' : groupOf'[k] = x})
      BY <3>1, <3>2, SameList
    <3> QED BY <1>12, <2>3, <3>3
  <2> QED BY <2>2, <2>3
<1>15. \A k \in hosts' : Hosts!Contains(groups', groupOf'[k]) \/ groupOf'[k] = Favorites
  BY <1>2, <1>5, <1>13 DEF Hosts!Exists
<1>16. HostsPart'
  BY <1>2, <1>6, <1>12, <1>13, <1>14, <1>15, HostsAgain
<1>17. AskedPart'
  BY <1>2 DEF AskedPart, Hosts!NoConfirm
<1> QED BY <1>2, <1>4, <1>16, <1>17

(* The steps *)

\* A step that leaves the groups alone
LEMMA GroupsFrame ==
  ASSUME GroupsPart, UNCHANGED <<groups, parentOf>>
  PROVE  GroupsPart'
  BY DEF GroupsPart, Hosts!Exists

\* A step that leaves hosts, their lists, and which groups there are
LEMMA HostsFrame ==
  ASSUME GroupsPart, HostsPart, UNCHANGED <<sessionIds, hosts, groupOf>>,
         \A x : Hosts!Contains(groups', x) <=> Hosts!Contains(groups, x)
  PROVE  HostsPart'
<1>1. /\ hosts \in SUBSET TreeHosts /\ groupOf \in [TreeHosts -> TreeIds]
      /\ sessionIds \in [TreeIds -> Seq(TreeHosts)]
      /\ \A k \in hosts : Hosts!Contains(groups, groupOf[k]) \/ groupOf[k] = Favorites
  BY DEF HostsPart, Hosts!Exists
<1>2. \A x \in TreeIds : Hosts!Contains(groups', x) =>
          ListOf(sessionIds'[x], {k \in hosts' : groupOf'[k] = x})
  BY ListOfGroup
<1> QED BY <1>1, <1>2, HostsAgain

\* A step that leaves the dialogs alone and the groups there
LEMMA AskedFrame ==
  ASSUME AskedPart, UNCHANGED <<confirm, naming>>,
         \A x : Hosts!Contains(groups, x) => Hosts!Contains(groups', x)
  PROVE  AskedPart'
  BY DEF AskedPart, Hosts!Exists

\* Where a dropped host is inserted
LEMMA DropSessionMoves ==
  ASSUME GroupsPart, HostsPart, NEW h, NEW target, Hosts!DropSession(h, target)
  PROVE  \E g : \E index \in Nat : Hosts!MoveSession(h, g, index)
<1>1. CASE target.kind = "host"
  <2> DEFINE g == groupOf[target.id]
             list == Hosts!Without(sessionIds[g], h)
             index == IF ~Hosts!Contains(list, target.id) THEN Len(list)
                      ELSE IF target.position = "before" THEN Hosts!IndexIn(list, target.id) - 1
                      ELSE Hosts!IndexIn(list, target.id)
  <2>1. Hosts!Exists(g) /\ Hosts!MoveSession(h, g, index)
    BY <1>1 DEF Hosts!DropSession
  <2>2. g \in TreeIds /\ sessionIds \in [TreeIds -> Seq(TreeHosts)]
    BY <2>1, ExistsParts DEF HostsPart
  <2>3. sessionIds[g] \in Seq(TreeHosts) /\ list = Hosts!Without(sessionIds[g], h)
    BY <2>2
  <2> HIDE DEF g, list
  <2>4. list \in Seq(TreeHosts)
    BY <2>3, WithoutParts
  <2>5. index \in Nat
    <3>1. CASE ~Hosts!Contains(list, target.id)
      BY <2>4, <3>1
    <3>2. CASE Hosts!Contains(list, target.id)
      <4> DEFINE at == Hosts!IndexIn(list, target.id)
      <4>1. target.id \in Hosts!ToSet(list)
        BY <2>4, <3>2, ContainsMeans
      <4>2. at \in 1..Len(list)
        BY <2>4, <4>1, IndexParts
      <4> HIDE DEF at
      <4>3. at \in Nat /\ at - 1 \in Nat
        BY <4>2
      <4> QED BY <3>2, <4>3 DEF at
    <3> QED BY <3>1, <3>2
  <2> HIDE DEF index
  <2> QED BY <2>1, <2>5
<1>2. CASE target.kind # "host"
  <2> DEFINE index == IF target.position = "inside" THEN Len(sessionIds[target.id]) ELSE 0
  <2>1. Hosts!Exists(target.id) /\ Hosts!MoveSession(h, target.id, index)
    BY <1>2 DEF Hosts!DropSession
  <2>2. sessionIds[target.id] \in Seq(TreeHosts)
    BY <2>1, ExistsParts DEF HostsPart
  <2>3. index \in Nat
    BY <2>2
  <2> HIDE DEF index
  <2> QED BY <2>1, <2>3
<1> QED BY <1>1, <1>2

\* Where a dropped group goes, if it goes
LEMMA DropGroupMoves ==
  ASSUME GroupsPart, NEW g, NEW target, Hosts!DropGroup(g, target)
  PROVE  /\ UNCHANGED <<sessionIds, groupOf>>
         /\ GroupsPart' /\ \A x : Hosts!Contains(groups', x) <=> Hosts!Contains(groups, x)
<1>1. PICK t : LET inside == target.position = "inside" \/ t = All
                   p == IF inside THEN t ELSE parentOf[t]
                   siblings == Hosts!ChildrenOf(Hosts!Without(groups, g), p)
               IN /\ Hosts!Exists(t) /\ t # g
                  /\ Hosts!MoveGroup(g, p, IF inside THEN Len(siblings)
                                           ELSE Hosts!IndexIn(siblings, t))
  BY DEF Hosts!DropGroup
<1> DEFINE inside == target.position = "inside" \/ t = All
           p == IF inside THEN t ELSE parentOf[t]
           rest == Hosts!Without(groups, g)
           siblings == Hosts!ChildrenOf(rest, p)
           index == IF inside THEN Len(siblings) ELSE Hosts!IndexIn(siblings, t)
<1>2. Hosts!Exists(t) /\ t # g /\ Hosts!MoveGroup(g, p, index)
  BY <1>1
<1>3. UNCHANGED <<sessionIds, groupOf>>
  BY <1>2 DEF Hosts!MoveGroup
<1>4. CASE ~Hosts!MayMove(g, p)
  <2>1. UNCHANGED <<groups, parentOf>>
    BY <1>2, <1>4 DEF Hosts!MoveGroup
  <2> QED BY <1>3, <2>1, GroupsFrame
<1>5. CASE Hosts!MayMove(g, p)
  <2>1. g \in TreeIds
    BY <1>5, ExistsParts DEF Hosts!MayMove
  <2>2. Hosts!Exists(p)
    <3>1. t \in TreeIds
      BY <1>2, ExistsParts
    <3> QED BY <1>2, <3>1 DEF GroupsPart
  <2>3. rest = Hosts!Without(groups, g) /\ groups \in Seq(TreeIds)
    BY DEF GroupsPart
  <2>4. ~inside => parentOf[t] = p
    OBVIOUS
  <2> HIDE DEF rest
  <2>5. rest \in Seq(TreeIds) /\ \A y : y \in Hosts!ToSet(rest) <=> y \in Hosts!ToSet(groups) /\ y # g
    BY <2>3, WithoutParts
  <2>6. t \in Hosts!ToSet(rest)
    BY <1>2, <2>5, ExistsParts
  <2>7. siblings = Hosts!ChildrenOf(rest, p)
    OBVIOUS
  <2> HIDE DEF p, siblings
  <2>8. /\ siblings \in Seq(TreeIds)
        /\ \A x \in Hosts!ToSet(rest) : parentOf[x] = p => x \in Hosts!ToSet(siblings)
    BY <2>5, <2>7, ChildrenParts
  <2>9. index \in Nat
    <3>1. CASE inside
      BY <2>8, <3>1
    <3>2. CASE ~inside
      <4> DEFINE at == Hosts!IndexIn(siblings, t)
      <4>1. t \in Hosts!ToSet(siblings)
        BY <2>4, <2>6, <2>8, <3>2
      <4>2. at \in 1..Len(siblings)
        BY <2>8, <4>1, IndexParts
      <4> HIDE DEF at
      <4>3. at \in Nat
        BY <4>2
      <4> QED BY <3>2, <4>3 DEF at
    <3> QED BY <3>1, <3>2
  <2> HIDE DEF index
  <2>10. GroupsPart' /\ \A x : Hosts!Exists(x)' <=> Hosts!Exists(x)
    BY <1>2, <2>1, <2>2, <2>9, MoveGroupKeepsGroups
  <2> QED BY <1>3, <2>10 DEF Hosts!Exists
<1> QED BY <1>4, <1>5

\* What is under the pointer may be gone: then dropping changes nothing.
LEMMA PointerUpKeeps ==
  ASSUME HostsInv, Hosts!PointerUp
  PROVE  HostsInv' /\ UNCHANGED hosts
<1>1. UNCHANGED <<hosts, confirm, naming>> /\ (Hosts!Drop \/ UNCHANGED <<Hosts!treeListVars, groupOf>>)
  BY DEF Hosts!PointerUp
<1>2. CASE UNCHANGED <<Hosts!treeListVars, groupOf>>
  <2>1. UNCHANGED <<groups, parentOf, sessionIds, groupOf>>
    BY <1>2 DEF Hosts!treeListVars
  <2> QED BY <1>1, <2>1, GroupsFrame, HostsFrame, AskedFrame DEF HostsInv
<1>3. CASE Hosts!Drop /\ drag[1].kind = "host"
  <2>1. PICK g : \E index \in Nat : Hosts!MoveSession(drag[1].id, g, index)
    <3>1. Hosts!DropSession(drag[1].id, drag[2])
      BY <1>3 DEF Hosts!Drop
    <3> QED BY <3>1, DropSessionMoves DEF HostsInv
  <2>2. HostsPart'
    BY <1>1, <2>1, MoveSessionKeepsHosts DEF HostsInv
  <2>3. UNCHANGED <<groups, parentOf>>
    BY <2>1 DEF Hosts!MoveSession
  <2> QED BY <1>1, <2>2, <2>3, GroupsFrame, AskedFrame DEF HostsInv
<1>4. CASE Hosts!Drop /\ drag[1].kind # "host"
  <2>1. Hosts!DropGroup(drag[1].id, drag[2])
    BY <1>4 DEF Hosts!Drop
  <2>2. /\ UNCHANGED <<sessionIds, groupOf>>
        /\ GroupsPart' /\ \A x : Hosts!Contains(groups', x) <=> Hosts!Contains(groups, x)
    BY <2>1, DropGroupMoves DEF HostsInv
  <2> QED BY <1>1, <2>2, HostsFrame, AskedFrame DEF HostsInv
<1> QED BY <1>1, <1>2, <1>3, <1>4

\* Each step of the tree keeps the invariant, and a host goes only when the
\* confirmation of its own deletion is answered.
LEMMA HostsStep ==
  ASSUME HostsInv, Hosts!SessionTreeNext
  PROVE  HostsInv' /\ Hosts!HostKept
<1> USE DEF HostsInv
<1>1. ASSUME NEW h \in TreeHosts, Hosts!CreateSession(h)
      PROVE  HostsInv' /\ Hosts!HostKept
  <2>1. /\ h \notin hosts /\ UNCHANGED <<groups, parentOf, confirm, naming>>
        /\ \E g \in Hosts!ToSet(groups) \cup {groupOf[copied] : copied \in hosts} :
             Hosts!AddSessions({h}, g)
    BY <1>1 DEF Hosts!CreateSession
  <2>2. PICK g \in Hosts!ToSet(groups) \cup {groupOf[copied] : copied \in hosts} :
             Hosts!AddSessions({h}, g)
    BY <2>1
  <2>3. g \in TreeIds /\ (Hosts!Contains(groups, g) \/ g = Favorites)
    <3>1. Favorites \in TreeIds
      BY DEF TreeIds
    <3> QED BY <3>1, ExistsParts DEF HostsPart, Hosts!Exists
  <2>4. HostsPart'
    BY <2>1, <2>2, <2>3, AddSessionsKeepsHosts
  <2>5. hosts \subseteq hosts'
    BY <2>2 DEF Hosts!AddSessions
  <2> QED BY <2>1, <2>4, <2>5, GroupsFrame, AskedFrame DEF Hosts!HostKept
<1>2. CASE Hosts!ImportSshConfig
  <2>1. PICK new \in SUBSET (ConfigHosts \ hosts) : Hosts!AddSessions(new, Favorites)
    BY <1>2 DEF Hosts!ImportSshConfig
  <2>2. UNCHANGED <<groups, parentOf, confirm, naming>>
    BY <1>2 DEF Hosts!ImportSshConfig
  <2>3. new \in SUBSET TreeHosts /\ new \cap hosts = {} /\ Favorites \in TreeIds
    BY WindowAssumption DEF TreeIds
  <2>4. HostsPart'
    BY <2>1, <2>2, <2>3, AddSessionsKeepsHosts
  <2>5. hosts \subseteq hosts'
    BY <2>1 DEF Hosts!AddSessions
  <2> QED BY <2>2, <2>4, <2>5, GroupsFrame, AskedFrame DEF Hosts!HostKept
<1>3. ASSUME NEW h \in TreeHosts, Hosts!AskDeleteSession(h)
      PROVE  HostsInv' /\ Hosts!HostKept
  <2>1. /\ confirm' = [kind |-> "host", id |-> h, fallback |-> NoHost]
        /\ UNCHANGED <<groups, parentOf, sessionIds, hosts, groupOf, naming>>
    BY <1>3 DEF Hosts!AskDeleteSession, Hosts!NoConfirm, Hosts!treeListVars
  <2>2. AskedPart'
    BY <2>1 DEF AskedPart, Hosts!Exists
  <2> QED BY <2>1, <2>2, GroupsFrame, HostsFrame DEF Hosts!HostKept
<1>4. ASSUME NEW kind, NEW id, Hosts!StartDrag(kind, id)
      PROVE  HostsInv' /\ Hosts!HostKept
  <2>1. UNCHANGED <<groups, parentOf, sessionIds, hosts, groupOf, confirm, naming>>
    BY <1>4 DEF Hosts!StartDrag, Hosts!treeListVars
  <2> QED BY <2>1, GroupsFrame, HostsFrame, AskedFrame DEF Hosts!HostKept
<1>5. ASSUME NEW target, Hosts!PointerMove(target)
      PROVE  HostsInv' /\ Hosts!HostKept
  <2>1. UNCHANGED <<groups, parentOf, sessionIds, hosts, groupOf, confirm, naming>>
    BY <1>5 DEF Hosts!PointerMove, Hosts!treeListVars
  <2> QED BY <2>1, GroupsFrame, HostsFrame, AskedFrame DEF Hosts!HostKept
<1>6. ASSUME NEW g, Hosts!AskCreateGroup(g)
      PROVE  HostsInv' /\ Hosts!HostKept
  <2>1. /\ UNCHANGED <<groups, parentOf, sessionIds, hosts, groupOf, confirm>>
        /\ naming' = g /\ Hosts!Exists(g) /\ confirm.kind = "none"
    BY <1>6 DEF Hosts!AskCreateGroup, Hosts!treeListVars, Hosts!NoDialog, Hosts!NoConfirm
  <2>2. AskedPart'
    BY <2>1 DEF AskedPart, Hosts!Exists
  <2> QED BY <2>1, <2>2, GroupsFrame, HostsFrame DEF Hosts!HostKept
<1>7. ASSUME NEW g, Hosts!AskDeleteGroup(g)
      PROVE  HostsInv' /\ Hosts!HostKept
  <2> DEFINE rest == Hosts!Without(groups, g)
  <2>1. /\ UNCHANGED <<groups, parentOf, sessionIds, hosts, groupOf, naming>>
        /\ Hosts!Exists(g) /\ g # All /\ naming = NoHost
        /\ confirm' = [kind |-> "group", id |-> g, fallback |-> rest[1]]
    BY <1>7 DEF Hosts!AskDeleteGroup, Hosts!AskDeleteGroupWith, Hosts!treeListVars, Hosts!NoDialog
  <2>2. rest = Hosts!Without(groups, g) /\ groups \in Seq(TreeIds) /\ Len(groups) >= 1 /\ groups[1] # g
          /\ groups[1] = All
    BY <2>1 DEF GroupsPart
  <2> HIDE DEF rest
  <2>3. rest[1] = All
    BY <2>2, WithoutParts
  <2>4. g \in TreeIds
    BY <2>1, ExistsParts
  <2>5. AskedPart'
    BY <2>1, <2>3, <2>4 DEF AskedPart
  <2> QED BY <2>1, <2>5, GroupsFrame, HostsFrame DEF Hosts!HostKept
<1>8. ASSUME NEW g \in TreeGroups, Hosts!CreateGroup(g)
      PROVE  HostsInv' /\ Hosts!HostKept
  <2>1. naming # NoHost /\ naming' = NoHost /\ UNCHANGED <<hosts, groupOf, confirm>>
    BY <1>8 DEF Hosts!CreateGroup
  <2>2. Hosts!Exists(naming) /\ confirm.kind # "group"
    BY <2>1 DEF AskedPart
  <2>3. AskedPart'
    BY <2>1, <2>2 DEF AskedPart
  <2>4. CASE UNCHANGED Hosts!treeListVars
    BY <2>1, <2>3, <2>4, GroupsFrame, HostsFrame DEF Hosts!HostKept, Hosts!treeListVars
  <2>5. CASE /\ ~Hosts!Exists(g) /\ groups' = Append(groups, g)
             /\ parentOf' = [parentOf EXCEPT ![g] = naming]
             /\ sessionIds' = [sessionIds EXCEPT ![g] = <<>>]
    <3>1. g \in TreeIds /\ ~Hosts!Contains(groups, g)
      BY <2>5 DEF TreeIds, Hosts!Exists
    <3>2. GroupsPart'
      BY <2>2, <2>5, <3>1, CreateGroupKeepsGroups
    <3>3. HostsPart'
      BY <2>1, <2>5, <3>1, CreateGroupKeepsHosts
    <3> QED BY <2>1, <2>3, <3>2, <3>3 DEF Hosts!HostKept
  <2> QED BY <1>8, <2>4, <2>5 DEF Hosts!CreateGroup
<1>9. CASE Hosts!ResolveConfirm
  <2>1. /\ confirm' = Hosts!NoConfirm /\ naming' = naming
        /\ \/ UNCHANGED <<Hosts!treeListVars, hosts, groupOf>>
           \/ confirm.kind = "host" /\ Hosts!RemoveSession(confirm.id)
           \/ confirm.kind = "group" /\ Hosts!RemoveGroup(confirm.id, confirm.fallback)
    BY <1>9 DEF Hosts!ResolveConfirm
  <2>2. (naming # NoHost => Hosts!Exists(naming)') => AskedPart'
    BY <2>1 DEF AskedPart, Hosts!NoConfirm, Hosts!Exists
  <2>3. naming # NoHost => Hosts!Exists(naming) /\ confirm.kind # "group"
    BY DEF AskedPart
  <2>4. naming' = naming
    BY <2>1
  <2>5. CASE UNCHANGED <<Hosts!treeListVars, hosts, groupOf>>
    <3>1. UNCHANGED <<groups, parentOf, sessionIds, hosts, groupOf>>
      BY <2>5 DEF Hosts!treeListVars
    <3>2. AskedPart'
      BY <2>2, <2>3, <2>4, <3>1 DEF Hosts!Exists
    <3> QED BY <3>1, <3>2, GroupsFrame, HostsFrame DEF Hosts!HostKept
  <2>6. CASE confirm.kind = "host" /\ Hosts!RemoveSession(confirm.id)
    <3>1. /\ UNCHANGED <<groups, parentOf>> /\ hosts' = hosts \ {confirm.id}
      BY <2>6 DEF Hosts!RemoveSession
    <3>2. AskedPart'
      BY <2>2, <2>3, <2>4, <3>1 DEF Hosts!Exists
    <3>3. /\ confirm.id \in TreeHosts
          /\ confirm = [kind |-> "host", id |-> confirm.id, fallback |-> NoHost]
      BY <2>6 DEF AskedPart
    <3>4. HostsPart'
      BY <2>6, <3>3, RemoveSessionKeepsHosts
    <3>5. Hosts!HostKept
      BY <3>1, <3>3 DEF Hosts!HostKept
    <3> QED BY <3>1, <3>2, <3>4, <3>5, GroupsFrame
  <2>7. CASE confirm.kind = "group" /\ Hosts!RemoveGroup(confirm.id, confirm.fallback)
    <3>1. confirm.id \in TreeIds /\ confirm.id # All /\ Hosts!RemoveGroup(confirm.id, All)
      BY <2>7 DEF AskedPart
    <3>2. GroupsPart' /\ HostsPart' /\ UNCHANGED hosts
      BY <3>1, RemoveGroupKeepsHosts
    <3>3. AskedPart'
      BY <2>2, <2>3, <2>7
    <3> QED BY <3>2, <3>3 DEF Hosts!HostKept
  <2> QED BY <2>1, <2>5, <2>6, <2>7
<1>10. CASE Hosts!PointerUp
  BY <1>10, PointerUpKeeps DEF Hosts!HostKept
<1>11. CASE Hosts!Restart
  BY <1>11, RestartKeepsHosts DEF Hosts!HostKept
<1> HIDE DEF HostsInv
<1> QED
  BY <1>1, <1>2, <1>3, <1>4, <1>5, <1>6, <1>7, <1>8, <1>9, <1>10, <1>11 DEF Hosts!SessionTreeNext

\* A step of another part leaves the tree as it is.
LEMMA HostsUnchanged ==
  ASSUME HostsInv, UNCHANGED Hosts!sessionTreeVars
  PROVE  HostsInv' /\ Hosts!HostKept
<1>1. UNCHANGED <<groups, parentOf, sessionIds, hosts, groupOf, confirm, naming>>
  BY DEF Hosts!sessionTreeVars, Hosts!treeListVars
<1> QED BY <1>1, GroupsFrame, HostsFrame, AskedFrame DEF HostsInv, Hosts!HostKept

\* A step of the window is one of the session tree or leaves it alone.
LEMMA HostsOfWindow ==
  [WindowNext]_windowParts => [Hosts!SessionTreeNext]_Hosts!sessionTreeVars
  BY DEF WindowNext, OthersStay, windowParts, hostVars, Hosts!sessionTreeVars,
         Hosts!treeListVars, overlays

\* Groups never make a cycle, and the list of a group has the hosts of the group,
\* each once, for any number of hosts and groups: whatever is dragged, deleted,
\* made or imported while a drag or a question is open, and after any restart.
THEOREM TreeStaysConsistent == WindowSpec => []TreeIsConsistent
<1>1. WindowInit => HostsInv
  BY HostsStart DEF WindowInit
<1>2. HostsInv /\ [WindowNext]_windowParts => HostsInv'
  BY HostsStep, HostsUnchanged, HostsOfWindow
<1>3. HostsInv => TreeIsConsistent
  <2> SUFFICES ASSUME HostsInv
               PROVE  Hosts!NoCycle /\ Hosts!ListsAgree
    BY DEF TreeIsConsistent, Hosts!TreeIsConsistent
  <2>1. \A g : Hosts!Exists(g) <=> g \in Hosts!ToSet(groups)
    BY ExistsParts DEF HostsInv
  <2>2. \A g : Hosts!Exists(g) => g \in TreeIds
    BY ExistsParts DEF HostsInv
  <2>3. Hosts!NoCycle
    <3> SUFFICES ASSUME NEW S \in (SUBSET Hosts!ToSet(groups)) \ {{}}
                 PROVE  \E g \in S : parentOf[g] \notin S
      BY DEF Hosts!NoCycle
    <3>1. S \in SUBSET TreeIds /\ S # {} /\ \A g \in S : Hosts!Exists(g)
      BY <2>1, <2>2
    <3> QED BY <3>1 DEF HostsInv, GroupsPart
  <2>4. ASSUME NEW g \in Hosts!ToSet(groups)
        PROVE  /\ Hosts!ToSet(sessionIds[g]) = {h \in hosts : groupOf[h] = g}
               /\ \A i, j \in DOMAIN sessionIds[g] : sessionIds[g][i] = sessionIds[g][j] => i = j
    <3>1. ListOf(sessionIds[g], {h \in hosts : groupOf[h] = g})
      BY <2>1, ListOfGroup DEF HostsInv, Hosts!Exists
    <3>2. \A h : h \in Hosts!ToSet(sessionIds[g]) <=> h \in {k \in hosts : groupOf[k] = g}
      BY <3>1 DEF ListOf
    <3>3. Hosts!ToSet(sessionIds[g]) = {h \in hosts : groupOf[h] = g}
      BY <3>2
    <3> QED BY <3>1, <3>3 DEF ListOf, Distinct
  <2>5. \A h \in hosts : ~Hosts!Exists(groupOf[h]) => groupOf[h] = Favorites
    BY DEF HostsInv, HostsPart
  <2> QED BY <2>3, <2>4, <2>5 DEF Hosts!ListsAgree
<1> QED BY <1>1, <1>2, <1>3, PTL DEF WindowSpec

\* No step loses a host but the answer to the question whether to delete that
\* very host: deleting a group, moving, importing and restarting keep them all.
THEOREM HostsStay == WindowSpec => HostsAreKept
<1>1. WindowInit => HostsInv
  BY HostsStart DEF WindowInit
<1>2. HostsInv /\ [WindowNext]_windowParts => HostsInv'
  BY HostsStep, HostsUnchanged, HostsOfWindow
<1>3. HostsInv /\ [WindowNext]_windowParts => [Hosts!HostKept]_hostVars
  BY HostsStep, HostsUnchanged, HostsOfWindow
<1> QED BY <1>1, <1>2, <1>3, PTL DEF WindowSpec, HostsAreKept

---------------------------------------------------------------------------

(* The panel of files has its theorems in SftpExplorerProofs, for the      *)
(* specification of the panel. They hold in the window, too.               *)

\* The window does with the panel of files what the panel's specification
\* allows: its steps are steps of the panel or leave its state alone.
THEOREM WindowHasTheExplorer == WindowSpec => Spec
<1>1. WindowInit => Init
  BY DEF WindowInit
<1>2. [WindowNext]_windowParts => [Next]_vars
  <2>1. ASSUME UNCHANGED windowParts
        PROVE  UNCHANGED vars
    BY <2>1 DEF windowParts, fileVars
  <2>2. ASSUME WindowNext
        PROVE  [Next]_vars
    <3>1. CASE part = "files"
      BY <2>2, <3>1 DEF WindowNext
    <3>2. CASE part # "files"
      BY <2>2, <3>2 DEF WindowNext, OthersStay, fileVars
    <3> QED BY <3>1, <3>2
  <2> QED BY <2>1, <2>2
<1> QED BY <1>1, <1>2, PTL DEF WindowSpec, Spec
=============================================================================
