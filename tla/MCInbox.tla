------------------------------ MODULE MCInbox ------------------------------
(* Small instances of Inbox for TLC. *)
EXTENDS Inbox, TLC

CONSTANTS t1, t2, a1, a2, s1, s2, i1, i2, x, y, p1, p2, v1, v2, m1, m2

Symmetry == Permutations(Threads) \union Permutations(Convs) \union Permutations(Msgs)

SameSegment == [i \in Ids |-> i]

Body(k, i, s, n, w, b, f) ==
    [kind |-> k, id |-> i, slot |-> s, number |-> n, ident |-> w, body |-> b, files |-> f]
Has(p, d) == [part |-> p, data |-> d]

\* One text in two wordings, one of them without a SIM; one MMS announced,
\* downloaded, and downloaded with another content.
OneOfEach ==
    {Body("text", i1, s1, Nil, x, x, <<>>),
     Body("text", i1, Nil, Nil, x, y, <<>>),
     Body("received", i2, Nil, s1, x, Nil, <<>>),
     Body("downloaded", i2, Nil, s1, x, x, <<Has(p1, Nil), Has(p2, x)>>),
     Body("downloaded", i2, Nil, s1, x, Nil, <<Has(p2, y)>>)}
=============================================================================
