--------------------------- MODULE MessageStatus ---------------------------
(***************************************************************************)
(* The status vocabulary of outbound messages and the pure functions that  *)
(* judge a status report: app/schemas/message_status.py.  Constant level:  *)
(* Outbound, SmsCheck and Delivery are built on it.                        *)
(***************************************************************************)
EXTENDS Naturals

Progress == {"Pending", "Processed", "Sent", "Delivered"}

Status == Progress \union {"Failed"}

\* PROGRESS: how far along the normal course a status lies.
Rank == [s \in Progress |-> CASE s = "Pending"   -> 0
                              [] s = "Processed" -> 1
                              [] s = "Sent"      -> 2
                              [] s = "Delivered" -> 3]

Terminal == {"Delivered", "Failed"}

\* can_transition: may a row that says `old' be overwritten with `new'?
CanTransition(old, new) ==
    \/ old = new
    \/ /\ old \notin Terminal
       /\ \/ new = "Failed"
          \/ /\ new \in Progress
             /\ Rank[new] >= Rank[old]

\* aggregate_recipient_state: the message's status, from its recipients'.
Aggregate(states) ==
    CASE "Pending" \in states      -> "Pending"
      [] "Pending" \notin states /\ "Processed" \in states -> "Processed"
      [] states = {"Delivered"}    -> "Delivered"
      [] states = {"Failed"}       -> "Failed"
      [] OTHER                     -> "Sent"

\* A row of times indexed by status; 0 stands for NULL (for the code too:
\* `row[7] or ...' treats a stored 0 as no value).
Never == 0

\* MessageStatusUpdate.validate_status_payload, for a report of `state' whose
\* `states' dictionary is `at' (Never where the key is missing).
WellFormedTimes(state, at) ==
    /\ at[state] # Never
    /\ at["Failed"] = Never \/ at["Delivered"] = Never
    /\ \A s, t \in Progress :
          (Rank[s] < Rank[t] /\ at[s] # Never /\ at[t] # Never)
              => at[s] <= at[t]
=============================================================================
