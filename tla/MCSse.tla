------------------------------- MODULE MCSse -------------------------------
(* Small instances of Sse for TLC. *)
EXTENDS Sse, TLC

CONSTANTS d1, d2, c1, c2, c3, t1, t2, t3

Symmetry == Permutations(Threads) \union Permutations(Conns)
=============================================================================
