--------------------------- MODULE MC_SessionOutput ---------------------------
(* Instances of SessionOutput for TLC. *)
EXTENDS SessionOutput

\* No action tells the threads apart.
Symmetry == Permutations(Senders)
=============================================================================
