----------------------------- MODULE MCTcpServer -----------------------------
(* The instances of the TCP server that TLC checks.                         *)
EXTENDS TcpServer, TLC

\* Connections are alike, and so are the threads that send.
ServerSymmetry == Permutations(Conns) \cup Permutations(Senders)

=============================================================================
