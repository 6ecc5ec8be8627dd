---------------------------- MODULE MCTcpServer -----------------------------
(* TcpServer for TLC.                                                      *)
EXTENDS TcpServer, TLC

Symmetric == Permutations(Conn)

=============================================================================
