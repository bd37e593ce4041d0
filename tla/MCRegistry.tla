----------------------------- MODULE MCRegistry -----------------------------
(* Small instances of Registry for TLC. *)
EXTENDS Registry, TLC

CONSTANTS t1, d1, s1, s2, x, k1, a1, p1, p2

Symmetry == Permutations(SimIds) \union Permutations(Pages)

\* Each page is served by a process of its own, the main service or the monitor.
OwnProcess == [p \in Pages |-> p]

SimOf(k, n, ph, c) == [slot |-> k, number |-> n, phone |-> ph, card |-> c]

\* A SIM alone in the first slot; the same SIM in the second slot and an unnamed
\* one in its place.
Moves ==
    {<<SimOf(0, 1, x, k1)>>,
     <<SimOf(0, 2, Nil, k1), SimOf(1, 1, x, k1)>>}
=============================================================================
