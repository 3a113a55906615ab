--------------------------- MODULE MCSftpTransfers ---------------------------
(***************************************************************************)
(* Three transfers, two of them over one connection, two slots in all and  *)
(* one per connection: either limit can refuse a transfer, a session can   *)
(* be reused by the second transfer of its connection, and a transfer of   *)
(* another connection can wait behind it.                                  *)
(***************************************************************************)
EXTENDS SftpTransfers

CONSTANTS t1, t2, t3, c1, c2

MCTasks == {t1, t2, t3}
MCConns == {c1, c2}
MCConnOf == [t \in MCTasks |-> IF t = t3 THEN c2 ELSE c1]

=============================================================================
