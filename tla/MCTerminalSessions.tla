------------------------- MODULE MCTerminalSessions -------------------------
(***************************************************************************)
(* One session with everything that can happen to it: its three callers,   *)
(* every command, output.  The three meet at the registry as the threads   *)
(* of two sessions would.                                                  *)
(***************************************************************************)
EXTENDS TerminalSessions

CONSTANT s1
=============================================================================
