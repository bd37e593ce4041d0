----------------------------- MODULE MCOutbound -----------------------------
(* Small instances of Outbound for TLC. *)
EXTENDS Outbound, TLC

CONSTANTS t1, t2, d1, d2, s1, s2, k1, k2, m1, m2

\* One SIM per device.
HomeOne == (s1 :> d1)
HomeTwo == (s1 :> d1) @@ (s2 :> d2)

ThreadSymmetry == Permutations(Threads)

\* Request bodies.
Auto(S, until, at) == [sims |-> S, via |-> Nil, until |-> until, at |-> at]
ViaConversation(S, s) == [sims |-> S, via |-> s, until |-> Never, at |-> Never]

\* `states' dictionaries.
Times(p) == [s \in Status |-> IF s \in DOMAIN p THEN p[s] ELSE Never]
Item(m, s, p) == [id |-> m, state |-> s, at |-> Times(p)]

NoBatches == {}
NoLists == {}

\* Creates of one key against polls of two devices.
IdemBodies == {Auto({s1, s2}, Never, Never), ViaConversation({s1, s2}, s1)}

OneBody == {Auto({s1}, Never, Never)}
LaterBody == {Auto({s1}, Never, 2)}
DatedBodies == {Auto({s1}, Never, Never), Auto({s1}, 2, Never),
                Auto({s1}, Never, 2)}

\* Every well-formed report about one message at time 1 (its dictionary names
\* Pending only when that is its state), and reports with later times.
AllSingles ==
    {{r} : r \in {r \in [id : {m1}, state : Status, at : [Status -> 0..1]] :
                     /\ WellFormedTimes(r.state, r.at)
                     /\ r.at["Pending"] # Never => r.state = "Pending"}}
LaterSingles ==
    {{Item(m1, "Sent", "Sent" :> 2)},
     {Item(m1, "Delivered", ("Sent" :> 1) @@ ("Delivered" :> 2))},
     {Item(m1, "Delivered", ("Sent" :> 2) @@ ("Delivered" :> 3))},
     {Item(m1, "Failed", "Failed" :> 2)}}
Singles == AllSingles \union LaterSingles

\* Two messages reported together and apart.
Pairs == {{Item(m1, "Sent", "Sent" :> 1), Item(m2, "Sent", "Sent" :> 2)},
          {Item(m1, "Delivered", ("Sent" :> 1) @@ ("Delivered" :> 1)),
           Item(m2, "Failed", "Failed" :> 1)},
          {Item(m1, "Processed", "Processed" :> 1)},
          {Item(m2, "Delivered", "Delivered" :> 1)},
          {Item(m2, "Sent", ("Sent" :> 1) @@ ("Failed" :> 1))}}


OneList == {{{}}}
=============================================================================
