----------------------------- MODULE MC_TcpServer -----------------------------
(* Instances of TcpServer for TLC. *)
EXTENDS TcpServer

\* Neither sessions nor descriptors are told apart by any action.
Symmetry == Permutations(Items) \cup Permutations(Fds)
=============================================================================
