------------------------------ MODULE Overlays ------------------------------
(***************************************************************************)
(* What lies over the window: the quick switcher with its list of          *)
(* sessions and terminals, which come and go while it is open; the command *)
(* palette, whose commands run asynchronously; the context menu; and the   *)
(* toasts. A search is the set of entries that match it; of a list only    *)
(* its length matters, but the recent commands are kept in order.          *)
(***************************************************************************)
EXTENDS Integers, FiniteSets, SequencesExt, Lists

CONSTANTS
    Entries,     \* sessions and terminals the switcher may list
    Commands,    \* commands of the palette
    Topics,      \* deduplication keys of toasts
    MaxRecent,   \* recent commands that are remembered
    MaxToasts    \* toasts in the model

VARIABLES
    switcher,    \* quickOpenOpen, the entries there are, those that match the
                 \* query, and selectedIndex
    palette,     \* commandPaletteOpen, the enabled commands, those that match
                 \* the query and whose group is not collapsed, selectedIndex
    started,     \* commands under way, and where each was started
    recents,     \* recentCommandIds
    menu,        \* contextMenuState.menu: its items, and selectedIndex
    toasts       \* feedbackState.toasts

overlayVars == <<switcher, palette, started, recents, menu, toasts>>

NoItems == <<>>
ItemKinds == {"enabled", "disabled", "separator"}

OverlaysInit ==
    /\ switcher = [open |-> FALSE, there |-> {}, match |-> Entries, at |-> 0]
    /\ palette = [open |-> FALSE, enabled |-> Commands, match |-> Commands, at |-> 0]
    /\ started = {} /\ recents = <<>>
    /\ menu = [items |-> NoItems, at |-> -1] /\ toasts = <<>>

---------------------------------------------------------------------------
(* Quick open                                                              *)

\* the length of filteredItems
Filtered(s) == Cardinality(s.there \cap s.match)

\* Seeded fault: nothing watches the list.
ClampIgnoringList(s) == s

\* watch(filteredItems): the selection stays inside the list
Clamp(s) ==
    LET count == Filtered(s)
    IN  IF s.at >= count THEN [s EXCEPT !.at = IF count = 0 THEN 0 ELSE count - 1] ELSE s

\* navigateUp and navigateDown go round
Moved(at, count, step) == IF count = 0 THEN at ELSE (at + step + count) % count

SwitcherStep(next) == switcher' = next /\ UNCHANGED <<palette, started, recents, menu, toasts>>

\* The search and the selection survive while the switcher is closed.
OpenQuickOpen == SwitcherStep([switcher EXCEPT !.open = TRUE])
CloseQuickOpen == SwitcherStep([switcher EXCEPT !.open = FALSE])

\* A host is added or removed, a terminal opened or closed, also while the
\* switcher is shown
EntriesChange ==
    \E there \in SUBSET Entries : SwitcherStep(Clamp([switcher EXCEPT !.there = there]))

\* watch(query) selects the first entry
SearchEntries ==
    \E match \in SUBSET Entries :
      switcher.open /\ SwitcherStep(Clamp([switcher EXCEPT !.match = match, !.at = 0]))

NavigateEntries ==
    /\ switcher.open
    /\ \E step \in {-1, 1} :
         SwitcherStep([switcher EXCEPT !.at = Moved(@, Filtered(switcher), step)])

\* The pointer enters an entry; activateQuickOpenItem closes the switcher.
HoverEntry ==
    /\ switcher.open
    /\ \E i \in 1..Filtered(switcher) : SwitcherStep([switcher EXCEPT !.at = i - 1])
OpenSelectedItem ==
    /\ switcher.open /\ switcher.at < Filtered(switcher)
    /\ SwitcherStep([switcher EXCEPT !.open = FALSE])

QuickOpen ==
    OpenQuickOpen \/ CloseQuickOpen \/ EntriesChange \/ SearchEntries \/ NavigateEntries
    \/ HoverEntry \/ OpenSelectedItem

---------------------------------------------------------------------------
(* Command palette                                                         *)

\* the length of flatList: enabled commands only
FlatList(p) == Cardinality(p.enabled \cap p.match)

PaletteStep(next) == palette' = next /\ UNCHANGED <<switcher, started, recents, menu, toasts>>

OpenCommandPalette == PaletteStep([palette EXCEPT !.open = TRUE])
CloseCommandPalette == PaletteStep([palette EXCEPT !.open = FALSE])

\* Nothing brings the selection back when fewer commands are enabled.
AvailabilityChanges ==
    \E enabled \in SUBSET Commands : PaletteStep([palette EXCEPT !.enabled = enabled])
SearchCommands ==
    \E match \in SUBSET Commands :
      palette.open /\ PaletteStep([palette EXCEPT !.match = match, !.at = 0])

\* The pointer also enters commands that are not enabled, which have no index.
SelectCommand ==
    /\ palette.open
    /\ \/ \E step \in {-1, 1} :
            PaletteStep([palette EXCEPT !.at = Moved(@, FlatList(palette), step)])
       \/ \E i \in 0..FlatList(palette) : PaletteStep([palette EXCEPT !.at = i - 1])

\* executeCommand: a command that is not enabled does not start. In the model
\* one run of a command is under way at a time, and two runs in all.
ExecuteCommand(c, from) ==
    /\ c \in palette.enabled /\ Cardinality(started) < 2
    /\ \A run \in started : run.command # c
    /\ started' = started \cup {[command |-> c, from |-> from]}
    /\ UNCHANGED <<switcher, palette, recents, menu, toasts>>

\* runCommand, by Enter or a click; no command is marked dangerous, so that none
\* asks first
RunCommand(c) == palette.open /\ c \in palette.match /\ ExecuteCommand(c, "palette")

\* onKeyDown: the first enabled command with this shortcut
GlobalShortcuts(c) == ExecuteCommand(c, "elsewhere")

\* When its command has run, runCommand closes the palette and clears the
\* search, also if the palette was opened again meanwhile. Groups stay
\* collapsed; where there was no search the selection stays too.
ClosedAfterRun ==
    {[palette EXCEPT !.open = FALSE]} \cup
    {[palette EXCEPT !.open = FALSE, !.match = match, !.at = 0] :
         match \in {m \in SUBSET Commands : palette.match \subseteq m}}

\* The command has run: rememberCommand puts it first
CommandRan(run) ==
    /\ run \in started /\ started' = started \ {run}
    /\ \E others \in Filter(recents, {i \in 1..Len(recents) : recents[i] # run.command}) :
         LET again == <<run.command>> \o others
         IN  recents' = SubSeq(again, 1, IF Len(again) > MaxRecent THEN MaxRecent ELSE Len(again))
    /\ IF run.from = "palette" THEN palette' \in ClosedAfterRun ELSE UNCHANGED palette
    /\ UNCHANGED <<switcher, menu, toasts>>

CommandThrew(run) ==
    /\ run \in started /\ started' = started \ {run}
    /\ UNCHANGED <<switcher, palette, recents, menu, toasts>>

Palette ==
    \/ OpenCommandPalette \/ CloseCommandPalette \/ AvailabilityChanges \/ SearchCommands
    \/ SelectCommand
    \/ \E c \in Commands : RunCommand(c) \/ GlobalShortcuts(c)
    \/ \E run \in started : CommandRan(run) \/ CommandThrew(run)

---------------------------------------------------------------------------
(* Context menu                                                            *)

Runnable(items) == {i \in 1..Len(items) : items[i] = "enabled"}
MenuStep(next) == menu' = next /\ UNCHANGED <<switcher, palette, started, recents, toasts>>

\* openContextMenu: the watcher selects the first item that can be run
OpenContextMenu ==
    \E items \in [1..3 -> ItemKinds] :
      /\ Runnable(items) # {}
      /\ MenuStep([items |-> items,
                   at |-> CHOOSE i \in Runnable(items) : \A j \in Runnable(items) : i <= j])

\* closeContextMenu; executeContextMenuItem closes the menu before it runs an item
CloseContextMenu == menu.items # NoItems /\ MenuStep([items |-> NoItems, at |-> -1])

\* Up and down skip what cannot be run; the pointer enters any button.
NavigateMenu ==
    /\ menu.items # NoItems
    /\ \E step \in {-1, 1} :
         LET At(n) == 1 + ((menu.at - 1 + n * step + 9) % 3)
             n     == CHOOSE k \in 1..3 : /\ At(k) \in Runnable(menu.items)
                                          /\ \A j \in 1..(k - 1) : At(j) \notin Runnable(menu.items)
         IN  MenuStep([menu EXCEPT !.at = At(n)])
HoverItem ==
    \E i \in 1..Len(menu.items) : menu.items[i] # "separator" /\ MenuStep([menu EXCEPT !.at = i])

ContextMenu == OpenContextMenu \/ CloseContextMenu \/ NavigateMenu \/ HoverItem

---------------------------------------------------------------------------
(* Toasts                                                                  *)

ToastStep(next) == toasts' = next /\ UNCHANGED <<switcher, palette, started, recents, menu>>

\* pushToast: the oldest toast of the key holds a new one back, for its
\* cooldown or, without one, as long as it is shown
PushToast(key, cooldown) ==
    LET same     == {i \in 1..Len(toasts) : toasts[i].key = key}
        heldBack == \E i \in same : /\ \A j \in same : i <= j
                                    /\ cooldown => toasts[i].fresh
    IN  ~heldBack /\ Len(toasts) < MaxToasts
        /\ ToastStep(Append(toasts, [key |-> key, cooldown |-> cooldown, fresh |-> TRUE]))

CooldownPasses(i) == toasts[i].fresh /\ ToastStep([toasts EXCEPT ![i].fresh = FALSE])
RemoveToast(i) == ToastStep(RemoveAt(toasts, i))

Toasts ==
    \/ \E key \in Topics, cooldown \in BOOLEAN : PushToast(key, cooldown)
    \/ \E i \in 1..Len(toasts) : CooldownPasses(i) \/ RemoveToast(i)

OverlaysNext == QuickOpen \/ Palette \/ ContextMenu \/ Toasts
OverlaysSpec == OverlaysInit /\ [][OverlaysNext]_overlayVars

---------------------------------------------------------------------------
\* Enter opens an entry whenever the switcher lists one.
SelectionIsListed ==
    LET count == Filtered(switcher) IN switcher.at < count \/ (count = 0 /\ switcher.at = 0)

\* No command is listed twice among the recent ones.
RecentsAreDistinct == IsInjective(recents) /\ Len(recents) <= MaxRecent

\* A menu never has a separator selected, and none while it is closed.
MenuSelects ==
    IF menu.items = NoItems THEN menu.at = -1 ELSE menu.items[menu.at] # "separator"

\* A toast without a cooldown is pushed only when no toast of its key is there.
ToastsAreDistinct ==
    \A i, j \in 1..Len(toasts) :
      i < j /\ toasts[i].key = toasts[j].key => toasts[j].cooldown

\* What the overlays select and list fits what there is, while sessions and
\* terminals come and go under an open switcher, commands end late and in any
\* order, and toasts age and are dismissed in any order.
OverlaysFit == SelectionIsListed /\ RecentsAreDistinct /\ MenuSelects /\ ToastsAreDistinct
=============================================================================
