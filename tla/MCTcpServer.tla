----------------------------- MODULE MCTcpServer -----------------------------
(* TcpServer with a few connections. *)
EXTENDS TcpServer
CONSTANTS c1, c2, c3
=============================================================================
