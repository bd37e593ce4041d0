------------------------------ MODULE Delivery ------------------------------
(***************************************************************************)
(* What the gateway promises a client about its outbound messages, without *)
(* transactions, clocks, devices or SIMs: a key stands for at most one     *)
(* message for ever, a message is handed out at most once, and only while  *)
(* nothing is known of it, and what is known of it only advances.          *)
(* Outbound implements this (Outbound!DeliveryImplemented).                *)
(***************************************************************************)
EXTENDS MessageStatus

CONSTANTS Keys, Msgs, Nil

VARIABLES
    status,     \* what is known of each message; "Absent" before it exists
    bound,      \* the message each key stands for
    taken       \* messages handed out

dvars == <<status, bound, taken>>

DeliveryInit ==
    /\ status = [m \in Msgs |-> "Absent"]
    /\ bound = [k \in Keys |-> Nil]
    /\ taken = {}

\* A client's request is accepted as a new message.
Accept(k, m) ==
    /\ bound[k] = Nil
    /\ status[m] = "Absent"
    /\ bound' = [bound EXCEPT ![k] = m]
    /\ status' = [status EXCEPT ![m] = "Pending"]
    /\ UNCHANGED taken

\* Messages nobody has taken are handed to a device.
HandOut(B) ==
    /\ \A m \in B : status[m] = "Pending" /\ m \notin taken
    /\ taken' = taken \union B
    /\ status' = [m \in Msgs |-> IF m \in B THEN "Processed" ELSE status[m]]
    /\ UNCHANGED bound

\* News of messages: each of them advances, or stays, all of them at once.
Learn(f) ==
    /\ \A m \in Msgs : status[m] # f[m] =>
          /\ status[m] # "Absent"
          /\ CanTransition(status[m], f[m])
    /\ status' = f
    /\ UNCHANGED <<bound, taken>>

DeliveryNext ==
    \/ \E k \in Keys, m \in Msgs : Accept(k, m)
    \/ \E B \in SUBSET Msgs : HandOut(B)
    \/ \E f \in [Msgs -> Status \union {"Absent"}] : Learn(f)

DeliverySpec == DeliveryInit /\ [][DeliveryNext]_dvars
=============================================================================
