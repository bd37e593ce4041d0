---------------------------- MODULE MCDashboard ----------------------------
(* Small instances of Dashboard for TLC. *)
EXTENDS Dashboard, TLC

CONSTANTS a, b, all, waits, q1, q2

Symmetry == Permutations(Lanes)

\* A SIM with one of the conversations is bound to the chosen account, or is not.
WithOrWithout == {[f \in Filters |-> S] : S \in {{a, b}, {b}}}
=============================================================================
