-------------------------- MODULE MCTerminalTabs --------------------------
(* Bounds for the model of the terminal tabs. Two connects are enough to   *)
(* open a host again under the id of a closed tab, to reconnect a tab with *)
(* input under way, and to open a second tab beside the first.             *)
EXTENDS TerminalTabs
===========================================================================
