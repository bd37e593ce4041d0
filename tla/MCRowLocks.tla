----------------------------- MODULE MCRowLocks -----------------------------
(* Small instances of RowLocks for TLC. *)
EXTENDS RowLocks, TLC

CONSTANTS w1, w2, d1, d2, s1, s2, s3, x, y, a1, k1, k2

\* Two SIMs in one device, one in the other, which both write to both contacts.
MCDeviceOf == (s1 :> d1) @@ (s2 :> d1) @@ (s3 :> d2)
MCChats == {<<s1, x>>, <<s2, y>>, <<s3, x>>, <<s3, y>>}

\* Workers and checks alike; and the two SIMs of the one device, with the contact
\* each writes to.
Symmetry ==
    Permutations(Workers) \union Permutations(Checks)
    \union {(s1 :> s2) @@ (s2 :> s1) @@ (x :> y) @@ (y :> x)}
=============================================================================
