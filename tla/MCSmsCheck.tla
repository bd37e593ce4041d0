----------------------------- MODULE MCSmsCheck -----------------------------
(* Small instances of SmsCheck for TLC. *)
EXTENDS SmsCheck, TLC

CONSTANTS t1, t2, t3, d1, d2, s1, s2, r1, r2, k1, k2, n1, n2, n3

HomeOne == (s1 :> d1)
NumberOne == (s1 :> n1)
HomeTwo == (s1 :> d1) @@ (s2 :> d2)
NumberTwo == (s1 :> n1) @@ (s2 :> n2)

Symmetry == Permutations(Threads) \union Permutations(Runs)

\* A report says at most that the text was sent, delivered, or failed.
Say(s, b) == [state |-> s, sent |-> b]
SentOrFailed == {Say("Sent", TRUE), Say("Failed", FALSE)}
SentOnly == {Say("Sent", TRUE)}

AllTexts == (Devices \union {Nil}) \X BOOLEAN
PastedTexts == {Nil} \X {TRUE}
=============================================================================
