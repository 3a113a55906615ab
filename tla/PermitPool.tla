----------------------------- MODULE PermitPool -----------------------------
(***************************************************************************)
(* What the transfer limits promise: a pool from which a transfer takes a  *)
(* permit when fewer than MaxTotal are out, and fewer than MaxPerConn to   *)
(* its own connection.  There are no counters here: the permits that are   *)
(* out are counted.                                                        *)
(***************************************************************************)
EXTENDS Naturals, FiniteSets

CONSTANTS Tasks, ConnOf, MaxTotal, MaxPerConn

VARIABLE holders

SameConn(t, set) == {u \in set : ConnOf[u] = ConnOf[t]}

Init == holders = {}

Take(t) ==
  /\ t \notin holders
  /\ Cardinality(holders) < MaxTotal
  /\ Cardinality(SameConn(t, holders)) < MaxPerConn
  /\ holders' = holders \cup {t}

GiveBack(t) ==
  /\ t \in holders
  /\ holders' = holders \ {t}

Next == \E t \in Tasks : Take(t) \/ GiveBack(t)

Spec == Init /\ [][Next]_holders
=============================================================================
