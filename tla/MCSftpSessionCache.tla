------------------------- MODULE MCSftpSessionCache -------------------------
(***************************************************************************)
(* Two threads over two connections of one account and one of another: an  *)
(* eviction can remove two entries and spare a third, a thread can wait    *)
(* behind another connection, and both can open the same connection at     *)
(* once.  The proofs lift the safety properties to any number of each.     *)
(***************************************************************************)
EXTENDS SftpSessionCache

CONSTANTS k1, k2, k3, a1, a2

MCKeys == {k1, k2, k3}
MCAccounts == {a1, a2}
MCAccountOf == [k \in MCKeys |-> IF k = k3 THEN a2 ELSE a1]
=============================================================================
