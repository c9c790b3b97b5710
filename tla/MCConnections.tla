---------------------------- MODULE MCConnections ----------------------------
(* Two nodes that find each other: two connections. *)
EXTENDS Connections

MCConn == {[from |-> 1, to |-> 2], [from |-> 2, to |-> 1]}

=============================================================================
