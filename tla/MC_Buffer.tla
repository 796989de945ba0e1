------------------------------- MODULE MC_Buffer -------------------------------
(* Instances of Buffer for TLC: byte strings with distinct bytes, so that a shifted
   or overwritten one is noticed. *)
EXTENDS Buffer

Run(n, first) == [i \in 1 .. n |-> (first + i) % 3]

SomeStrings == {Run(1, 0), Run(2, 1)}

\* Of every length a temp buffer of the instance is made for, and some too long.
AllLengths == {Run(n, 0) : n \in 0 .. 4} \cup {Run(7, 1)}

Prefixes == {Run(1, 0), Run(9, 0)}
=============================================================================
