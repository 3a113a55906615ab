----------------------------- MODULE HostKeys -----------------------------
(***************************************************************************)
(* Connecting to hosts whose key is not known: the backend keeps the       *)
(* connection after its first phase and asks, the window shows one request *)
(* at a time, and the user's answer names the pending connection. Another  *)
(* request may replace the one shown at any time, also while an answer is  *)
(* under way; what its answer does to the dialog it does to the request    *)
(* then shown.                                                             *)
(***************************************************************************)
EXTENDS Integers, Sequences

CONSTANTS
    Unknown,      \* connections to hosts without an entry in known_hosts
    Changed,      \* connections to hosts whose key differs from the entry
    NoRequest     \* no dialog

VARIABLES
    connecting,   \* connections not made yet
    held,         \* pending_host_key_sessions
    known,        \* connections whose key was written to known_hosts
    asking,       \* security-hostKeyRequested events on their way
    dialog,       \* hostKeyState.pendingRequest
    calls,        \* accept_host_key and reject_host_key commands under way
    agreed        \* history: keys that the user has seen and accepted

hostKeyVars == <<connecting, held, known, asking, dialog, calls, agreed>>
Connections == Unknown \cup Changed

\* requestHostKeyConfirmation; the promise of the request before is never resolved
Request(c) == [request |-> c, submitting |-> FALSE]
Closed == [request |-> NoRequest, submitting |-> FALSE]
Call(kind, c, answer) == [kind |-> kind, for |-> c, answer |-> answer]

HostKeysInit ==
    /\ connecting = Connections /\ held = {} /\ known = {}
    /\ asking = <<>> /\ dialog = Closed /\ calls = {} /\ agreed = {}

---------------------------------------------------------------------------
(* The backend *)

\* connect: the key is unknown or changed; only an unknown one can be accepted.
Connect(c) ==
    /\ c \in connecting /\ connecting' = connecting \ {c}
    /\ held' = IF c \in Unknown THEN held \cup {c} ELSE held
    /\ asking' = Append(asking, c)
    /\ UNCHANGED <<known, dialog, calls, agreed>>

\* Five minutes have passed; the next accept or reject prunes it.
Expire(c) ==
    /\ c \in held /\ held' = held \ {c}
    /\ UNCHANGED <<connecting, known, asking, dialog, calls, agreed>>

\* accept_host_key: the pending connection is taken, then the key is saved, then
\* the second phase authenticates; saving and authentication may fail.
AcceptHostKey(c) ==
    /\ Call("accept", c, "none") \in calls
    /\ held' = held \ {c}
    /\ \E saved, connected \in BOOLEAN :
         /\ saved => c \in held
         /\ connected => saved
         /\ known' = IF saved THEN known \cup {c} ELSE known
         /\ calls' = (calls \ {Call("accept", c, "none")})
                       \cup {Call("accept", c, IF connected THEN "ok" ELSE "error")}
    /\ UNCHANGED <<connecting, asking, dialog, agreed>>

RejectHostKey(c) ==
    /\ Call("reject", c, "none") \in calls
    /\ held' = held \ {c}
    /\ calls' = (calls \ {Call("reject", c, "none")}) \cup {Call("reject", c, "ok")}
    /\ UNCHANGED <<connecting, known, asking, dialog, agreed>>

---------------------------------------------------------------------------
(* The window *)

HandleHostKeyRequested ==
    /\ asking # <<>> /\ dialog' = Request(Head(asking)) /\ asking' = Tail(asking)
    /\ UNCHANGED <<connecting, held, known, calls, agreed>>

\* Seeded fault: the pending id is read from the dialog after an await, when
\* another request may be shown.
ClickAcceptAny ==
    /\ dialog.request \in Unknown /\ ~dialog.submitting
    /\ dialog' = [dialog EXCEPT !.submitting = TRUE]
    /\ calls' = calls \cup {Call("accept", IF asking = <<>> THEN dialog.request ELSE Head(asking), "none")}
    /\ agreed' = agreed \cup {dialog.request}
    /\ UNCHANGED <<connecting, held, known, asking>>

\* acceptPendingHostKey; the button is disabled for a changed key.
ClickAccept ==
    /\ dialog.request \in Unknown /\ ~dialog.submitting
    /\ dialog' = [dialog EXCEPT !.submitting = TRUE]
    /\ calls' = calls \cup {Call("accept", dialog.request, "none")}
    /\ agreed' = agreed \cup {dialog.request}
    /\ UNCHANGED <<connecting, held, known, asking>>

\* rejectPendingHostKey; a changed key has no pending id, and nothing is called.
ClickReject ==
    /\ dialog.request # NoRequest /\ ~dialog.submitting
    /\ IF dialog.request \in Unknown
       THEN /\ dialog' = [dialog EXCEPT !.submitting = TRUE]
            /\ calls' = calls \cup {Call("reject", dialog.request, "none")}
       ELSE dialog' = Closed /\ UNCHANGED calls
    /\ UNCHANGED <<connecting, held, known, asking, agreed>>

\* An answer closes the dialog, or lets the user try again, whatever request
\* it shows by then.
Answered(call) ==
    /\ call \in calls /\ call.answer # "none" /\ calls' = calls \ {call}
    /\ dialog' = IF call.answer = "ok" THEN Closed ELSE [dialog EXCEPT !.submitting = FALSE]
    /\ UNCHANGED <<connecting, held, known, asking, agreed>>

HostKeysNext ==
    \/ HandleHostKeyRequested \/ ClickAccept \/ ClickReject
    \/ \E c \in Connections : Connect(c) \/ Expire(c) \/ AcceptHostKey(c) \/ RejectHostKey(c)
    \/ \E call \in calls : Answered(call)

HostKeysSpec == HostKeysInit /\ [][HostKeysNext]_hostKeyVars

---------------------------------------------------------------------------
\* A key is written to known_hosts only if the user accepted it while the
\* dialog showed that very key, however requests, answers and expiries
\* overtake each other. The converse does not hold: a key stays written when
\* authentication fails after it, even if the user then answers "No".
OnlyShownKeysAreTrusted == known \subseteq agreed
===========================================================================
