------------------------------ MODULE MCAgents ------------------------------
(* Small instances of Agents for TLC. *)
EXTENDS Agents

CONSTANTS t1, a1, k1, s1, x, m1, north, south, key1

OneSim  == [c \in Contacts |-> s1]
OneArea == [c \in Contacts |-> north]
=============================================================================
