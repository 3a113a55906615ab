--------------------------- MODULE WorkspaceLayout ---------------------------
(***************************************************************************)
(* The layout of the window: the dock at the bottom, the two side bars,    *)
(* the main area with a terminal pane and, in some modes, an editor pane,  *)
(* of which a narrow window shows one. Most of it is saved a moment after  *)
(* it changes and restored when the program starts again. Sizes, theme     *)
(* and density are left out: nothing depends on them.                      *)
(***************************************************************************)
VARIABLES
    layout,      \* workspaceState
    hasTabs,     \* terminalState.tabs is not empty
    chosenPane,  \* responsivePanel of the mounted WorkbenchLayout
    savedLayout  \* localStorage: what a start takes over from it

layoutVars == <<layout, hasTabs, chosenPane, savedLayout>>

Docks == {"logs", "tasks"}
RightPanels == {"connection-info", "sftp"}
Presets == {"development", "operations", "file-transfer", "monitoring"}

\* getDefaultWorkspaceLayout
DefaultLayout ==
    [dock |-> "logs", dockShown |-> TRUE, recentDock |-> "logs",
     right |-> "connection-info", rightShown |-> TRUE, leftShown |-> TRUE,
     view |-> "terminal", mode |-> "single", compact |-> FALSE, preset |-> "operations"]

\* snapshotWorkspaceLayout, without what normalizeStartupWorkspaceLayout replaces
Snapshot(l) ==
    [recentDock |-> l.recentDock, right |-> l.right, rightShown |-> l.rightShown,
     leftShown |-> l.leftShown, preset |-> l.preset]

\* normalizeWorkspaceLayout of the layouts of earlier versions, whose side bar
\* had panels of its own for files and tasks
Legacy(activePanel) ==
    Snapshot(CASE activePanel = "sessions" -> DefaultLayout
               [] activePanel = "sftp"     -> [DefaultLayout EXCEPT !.right = "sftp"]
               [] activePanel = "tasks"    -> [DefaultLayout EXCEPT !.recentDock = "tasks"])

NotSaved == [recentDock |-> "none"]

\* restorePersistedState, then registerResponsiveMode
Restored(narrow) ==
    IF savedLayout = NotSaved THEN [DefaultLayout EXCEPT !.compact = narrow]
    ELSE [dock |-> "none", dockShown |-> FALSE, recentDock |-> savedLayout.recentDock,
          right |-> savedLayout.right, rightShown |-> savedLayout.rightShown,
          leftShown |-> savedLayout.leftShown, view |-> "terminal", mode |-> "single",
          compact |-> narrow, preset |-> savedLayout.preset]

WorkspaceLayoutInit ==
    /\ savedLayout \in {NotSaved} \cup {Legacy(p) : p \in {"sessions", "sftp", "tasks"}}
    /\ \E narrow \in BOOLEAN : layout = Restored(narrow)
    /\ hasTabs = FALSE /\ chosenPane = "primary"

---------------------------------------------------------------------------
\* openDockPanel: by a command, the right activity bar or a transfer
OpenDock(panel) ==
    layout' = [layout EXCEPT !.view = "terminal", !.dock = panel, !.recentDock = panel,
                             !.dockShown = TRUE]

\* Seeded fault: the closed dock is still laid out.
CloseDockKeepsVisible ==
    layout' = IF layout.dockShown /\ layout.dock # "none"
              THEN [layout EXCEPT !.recentDock = layout.dock, !.dock = "none"] ELSE layout

\* closeDockPanel
CloseDock ==
    layout' = IF layout.dockShown /\ layout.dock # "none"
              THEN [layout EXCEPT !.recentDock = layout.dock, !.dock = "none",
                                  !.dockShown = FALSE]
              ELSE layout

\* toggleDockPanel of the right activity bar
ToggleDock(panel) ==
    IF layout.dockShown /\ layout.dock = panel THEN CloseDock ELSE OpenDock(panel)

ReopenRecentDock == OpenDock(layout.recentDock)

\* switchRightPanel; toggleRightPanel; connectSession shows the files of the host
SwitchRightPanel(panel) ==
    layout' = IF layout.right = panel /\ layout.rightShown
              THEN [layout EXCEPT !.rightShown = FALSE]
              ELSE [layout EXCEPT !.right = panel, !.rightShown = TRUE]
ToggleRightPanel == layout' = [layout EXCEPT !.rightShown = ~@]

\* switchPanel("sessions") of the left side bar, its only panel
SwitchPanel == layout' = [layout EXCEPT !.view = "terminal", !.leftShown = ~@]

\* Escape in a narrow window; a click beside the left side bar
HideLeft == layout' = [layout EXCEPT !.leftShown = FALSE]
HideSidebars == layout' = [layout EXCEPT !.leftShown = FALSE, !.rightShown = FALSE]

\* applyLayoutPreset
ApplyLayoutPreset(preset) ==
    LET cleared == [layout EXCEPT !.preset = preset, !.compact = FALSE, !.dockShown = FALSE,
                                  !.dock = "none"]
    IN  layout' =
          CASE preset = "development"   -> [cleared EXCEPT !.mode = "vertical-split"]
            [] preset = "file-transfer" -> [cleared EXCEPT !.right = "sftp", !.rightShown = TRUE,
                                                           !.mode = "horizontal-split"]
            [] preset = "monitoring"    -> [cleared EXCEPT !.mode = "single", !.dock = "tasks",
                                              !.recentDock = "tasks", !.dockShown = TRUE]
            [] preset = "operations"    -> [cleared EXCEPT !.mode = "horizontal-split",
                                              !.dock = "logs", !.dockShown = TRUE]

ResetWorkspaceLayout == layout' = DefaultLayout

\* the window is resized, or Compact mode is chosen; the main area is maximised
SetCompactMode == \E enabled \in BOOLEAN : layout' = [layout EXCEPT !.compact = enabled]
MaximizeMainArea == layout' = [layout EXCEPT !.compact = ~@]

\* a remote file has been read; a terminal is picked in quick open
ShowEditor == hasTabs /\ layout' = [layout EXCEPT !.view = "editor"]
ShowTerminal == hasTabs /\ layout' = [layout EXCEPT !.view = "terminal"]

---------------------------------------------------------------------------
\* mainLayoutMode and hasSecondary
MainLayoutMode(l) == IF l.compact \/ l.view # "editor" THEN "single" ELSE l.mode
HasSecondary(l, tabs) == tabs /\ l.view = "editor" /\ MainLayoutMode(l) # "single"

\* watch([hasSecondary, hasDock]) of WorkbenchLayout, mounted while there are tabs
PaneFollows ==
    chosenPane' = IF HasSecondary(layout', hasTabs') /\ hasTabs THEN chosenPane ELSE "primary"

\* The commands about panels, those about the layout as a whole, and those
\* about the right side bar
PanelCommand ==
    SwitchPanel \/ SwitchRightPanel("sftp") \/ (\E p \in Docks : OpenDock(p)) \/ ReopenRecentDock
LayoutCommand == ShowTerminal \/ ResetWorkspaceLayout \/ MaximizeMainArea \/ OpenDock("logs")
RightCommand == ToggleRightPanel \/ SwitchRightPanel("connection-info")

ChangeLayout ==
    /\ \/ PanelCommand \/ LayoutCommand \/ RightCommand
       \/ \E p \in Docks : ToggleDock(p)
       \/ CloseDock \/ HideLeft \/ HideSidebars
       \/ \E p \in Presets : ApplyLayoutPreset(p)
       \/ SetCompactMode \/ ShowEditor
    /\ UNCHANGED <<hasTabs, savedLayout>> /\ PaneFollows

\* connectSession opens a tab and shows the host's files
SessionConnected ==
    /\ hasTabs' = TRUE
    /\ layout' = [layout EXCEPT !.right = "sftp", !.rightShown = TRUE]
    /\ UNCHANGED savedLayout /\ PaneFollows

LastTabCloses ==
    /\ hasTabs /\ hasTabs' = FALSE
    /\ UNCHANGED <<layout, savedLayout>> /\ PaneFollows

ChoosePane(pane) ==
    /\ HasSecondary(layout, hasTabs) /\ chosenPane' = pane
    /\ UNCHANGED <<layout, hasTabs, savedLayout>>

\* persistState: 120 ms after the last change, or when the window closes
PersistState ==
    /\ savedLayout' = Snapshot(layout) /\ UNCHANGED <<layout, hasTabs, chosenPane>>

\* The program stops, with or without a save, and starts again.
RestartWindow ==
    /\ \E narrow \in BOOLEAN : layout' = Restored(narrow)
    /\ hasTabs' = FALSE /\ chosenPane' = "primary" /\ UNCHANGED savedLayout

WorkspaceLayoutNext ==
    \/ ChangeLayout \/ SessionConnected \/ LastTabCloses \/ PersistState \/ RestartWindow
    \/ \E pane \in {"primary", "secondary"} : ChoosePane(pane)

WorkspaceLayoutSpec == WorkspaceLayoutInit /\ [][WorkspaceLayoutNext]_layoutVars

---------------------------------------------------------------------------
\* The dock has a place exactly while a panel is chosen for it.
DockHasAPanel == layout.dockShown <=> layout.dock # "none"

\* "Reopen Recent Bottom Panel" would bring back the panel that is shown,
\* unless the operations preset has put it there.
ShownDockIsRecent ==
    layout.dockShown /\ layout.preset # "operations" => layout.recentDock = layout.dock

\* The pane a narrow window shows exists.
ChosenPaneExists == chosenPane = "secondary" => HasSecondary(layout, hasTabs)

\* Three views of one state agree, whatever sequence of commands, presets,
\* resizes, tabs and restarts from an earlier save led there: the place of the
\* dock and its panel, the panel shown and the one remembered, the pane chosen
\* and the panes there are. Each is set by half a dozen functions of the code.
LayoutIsConsistent == DockHasAPanel /\ ShownDockIsRecent /\ ChosenPaneExists
=============================================================================
