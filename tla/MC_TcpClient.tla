---------------------------- MODULE MC_TcpClient ----------------------------
(* Model values for TcpClient: sockets and sessions are interchangeable.     *)
EXTENDS TcpClient, TLC

Symmetry == Permutations(Sockets) \cup Permutations(Sessions)
=============================================================================
