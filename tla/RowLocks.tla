------------------------------ MODULE RowLocks ------------------------------
(***************************************************************************)
(* The rows that the transactions of the two services lock, and the order  *)
(* they lock them in: main service and monitor have one database, and the  *)
(* endpoints of the one lock as their copies in the other do.  PostgreSQL  *)
(* keeps a lock to the end of its transaction, lets requests wait for the  *)
(* locks they conflict with, and aborts one of any circle of waiting       *)
(* transactions.                                                           *)
(*                                                                         *)
(* Here a call is nothing but a set of requests, each with its step, one   *)
(* set per endpoint below; what the rows hold is the matter of the other   *)
(* modules.  A conversation stands for its messages as well: it has one.   *)
(*                                                                         *)
(* Left out are locks that no circle goes through, or none but a remote    *)
(* one.  Advisory locks: that of an idempotency key or of a launch is the  *)
(* first request of its call, which holds nothing while it waits; that of  *)
(* an inbound text's conversation is asked for with the device locked, by  *)
(* nobody else.  Recipients, history and attachments: locked by who has    *)
(* their message.  Sessions: asked for by the account's deletion alone,    *)
(* like products (menus), whose saves ask for the account of whom they     *)
(* name; a circle there takes two deletions and two products.  Rows that   *)
(* are new, as all of a registration's are, unless another call has them   *)
(* by their key.                                                           *)
(***************************************************************************)
EXTENDS Naturals

CONSTANTS
    Devices,    \* devices
    Sims,       \* SIM cards
    DeviceOf,   \* the device of each SIM
    Contacts,   \* phone numbers that are written to and from
    Chats,      \* conversations, each of a SIM with a contact
    Accounts,   \* agents
    Checks,     \* diagnostic texts
    Workers     \* transactions at a time

ASSUME RowLocksAssumption ==
    DeviceOf \in [Sims -> Devices] /\ Chats \subseteq Sims \X Contacts

-----------------------------------------------------------------------------
(* Rows and modes *)

DeviceRow(d)     == <<"device", d>>
SimRow(s)        == <<"sim", s>>
ContactRow(c)    == <<"contact", c>>
ConvRow(h)       == <<"conversation", h[1], h[2]>>
MessageRow(h)    == <<"message", h[1], h[2]>>
CheckRow(k)      == <<"check", k>>
AccountRow(a)    == <<"account", a>>
BindingRow(a, s) == <<"binding", a, s>>

CheckRows      == {CheckRow(k) : k \in Checks}
SimsOf(d)      == {s \in Sims : DeviceOf[s] = d}
ChatsOf(S)     == {h \in Chats : h[1] \in S}
BindingsOf(a)  == {BindingRow(a, s) : s \in Sims}

\* FOR UPDATE and DELETE take "U", as does a change of a key; any other UPDATE
\* takes "N", an inserted row takes "K" of the rows it refers to.
Conflict(m, n) == "U" \in {m, n} \/ (m = "N" /\ n = "N")

\* A request locks its rows at once, in one mode.  Later steps wait until those
\* that must be are granted; who tries or skims takes what is free, or nothing.
Req(step, rows, mode, how) == [rows |-> rows, mode |-> mode, step |-> step, how |-> how]

One(step, row, mode)   == {Req(step, {row}, mode, "must")}
All(step, rows, mode)  == {Req(step, {r}, mode, "must") : r \in rows}
Some(step, rows, mode) == {Req(step, {r}, mode, "may") : r \in rows}
Try(step, rows)        == {Req(step, rows, "U", "try")}
Skim(step, sets)       == {Req(step, R, "U", "skim") : R \in sets}

Must(l)  == l.how \in {"must", "try"}
Waits(l) == l.how \in {"must", "may"}

-----------------------------------------------------------------------------
(* The calls of devices and agents *)

\* A create that names no conversation: a route that is free, and routes passed
\* over whose device, or whose device and SIM, stay locked; the contact, the
\* conversation.
CreateLocks(h) ==
    LET Route(s) == {DeviceRow(DeviceOf[s]), SimRow(s)} IN
    Skim(1, {{DeviceRow(d)} : d \in Devices} \union {Route(s) : s \in Sims \ {h[1]}})
    \union Try(2, Route(h[1]))
    \union One(3, ContactRow(h[2]), "N") \union One(4, ConvRow(h), "U")

\* A create for a conversation, and so a reply: FOR UPDATE OF c, d, s, and in
\* the end the contact.
ReplyLocks(h) ==
    One(1, ConvRow(h), "U") \union One(2, DeviceRow(DeviceOf[h[1]]), "U")
    \union One(3, SimRow(h[1]), "U") \union One(4, ContactRow(h[2]), "N")

\* What is the device's and free; everybody's overdue checks, then its own.
PullLocks(d) ==
    One(1, DeviceRow(d), "U")
    \union Skim(2, {{MessageRow(h)} : h \in ChatsOf(SimsOf(d))})
    \union Some(3, CheckRows, "U") \union Skim(4, {{r} : r \in CheckRows})

\* What a message that is first Sent adds to a report, if its SIM is there.
SentLocks(step, h) ==
    Some(step, {SimRow(h[1])}, "N") \union One(step + 1, ConvRow(h), "N")
    \union One(step + 2, ContactRow(h[2]), "N")

\* A report of checks, the first overdue one with everybody's, and of messages,
\* one of which is first Sent,
StatusLocks(h) ==
    LET d == DeviceOf[h[1]] IN
    One(1, DeviceRow(d), "U") \union Some(2, CheckRows, "U")
    \union One(3, MessageRow(h), "U")
    \union Some(3, {MessageRow(g) : g \in ChatsOf(SimsOf(d)) \ {h}}, "U")
    \union SentLocks(4, h)

\* and one of which two are, in the order of their ids.
BatchLocks(g, h) == StatusLocks(g) \union SentLocks(7, h)

\* A report of a message of another device is refused once the row is locked.
RefusedLocks(d, h) ==
    One(1, DeviceRow(d), "U") \union Some(2, CheckRows, "U")
    \union One(3, MessageRow(h), "U")

\* An update sets the device's SIMs inactive, then upserts them by their slots;
\* what the upsert may set, the number, is part of a key.
UpdateLocks(d) ==
    LET rows == {SimRow(s) : s \in SimsOf(d)} IN
    One(1, DeviceRow(d), "U") \union All(2, rows, "N") \union Some(3, rows, "U")

\* Mutant of InboundLocks: the contact is found before the device is locked.
InboundLocksByContact(h) ==
    One(1, ContactRow(h[2]), "N") \union One(2, DeviceRow(DeviceOf[h[1]]), "U")
    \union One(3, ConvRow(h), "U") \union One(4, SimRow(h[1]), "K")

\* A text that came in, and the first event of an MMS
InboundLocks(h) ==
    One(1, DeviceRow(DeviceOf[h[1]]), "U") \union One(2, ContactRow(h[2]), "N")
    \union One(3, ConvRow(h), "U") \union One(4, SimRow(h[1]), "K")

\* A later event of an MMS
MergeLocks(h) ==
    One(1, DeviceRow(DeviceOf[h[1]]), "U") \union One(2, MessageRow(h), "N")
    \union One(3, ConvRow(h), "N")

\* A diagnostic text that came in
ReceiveLocks(d) == One(1, DeviceRow(d), "U") \union Some(2, CheckRows, "U")

ReadLocks(h)  == One(1, ConvRow(h), "N")
ContactLocks(c, mode) == One(1, ContactRow(c), mode)

-----------------------------------------------------------------------------
(* The saves of operators *)

\* The page of results, a launch and a pasted receipt: one check or none, and
\* everybody's that are overdue.
ScreenLocks == Some(1, CheckRows, "U")

\* ON DELETE of a SIM, in the order the keys were declared in: conversations,
\* messages and accounts forget it, bindings go.
DeleteSimLocks(s) ==
    One(1, SimRow(s), "U")
    \union Some(2, {ConvRow(h) : h \in ChatsOf({s})}, "U")
    \union Some(3, {MessageRow(h) : h \in ChatsOf({s})}, "N")
    \union Some(4, {AccountRow(a) : a \in Accounts}, "N")
    \union Some(5, {BindingRow(a, s) : a \in Accounts}, "U")

\* The SIMs of a device are marked, then deleted, and then one after the other
\* forgotten.
ForgetLocks(step, S) ==
    LET rows == {SimRow(s) : s \in S} IN
    All(step, rows, "N") \union All(step + 1, rows, "U")
    \union Some(step + 2, {ConvRow(h) : h \in ChatsOf(S)}
                         \union {BindingRow(a, s) : a \in Accounts, s \in S}, "U")
    \union Some(step + 2, {MessageRow(h) : h \in ChatsOf(S)}
                         \union {AccountRow(a) : a \in Accounts}, "N")

\* Mutant of UnregisterLocks: the SIMs are deleted before the device is marked.
UnregisterLocksSimFirst(d) == ForgetLocks(1, SimsOf(d)) \union One(4, DeviceRow(d), "N")

UnregisterLocks(d) == One(1, DeviceRow(d), "N") \union ForgetLocks(2, SimsOf(d))

EnableSimLocks(s) == One(1, SimRow(s), "N")
DisableSimLocks(s) ==
    One(1, SimRow(s), "N")
    \union Some(2, {BindingRow(a, s) : a \in Accounts}, "U")
    \union Some(3, {AccountRow(a) : a \in Accounts}, "N")

\* use_sims_id refers to a SIM, the bindings are replaced and refer to theirs;
\* a new user name is a change of a key.
SaveAccountLocks(a, mode) ==
    One(1, AccountRow(a), mode)
    \union Some(2, {SimRow(s) : s \in Sims}, "K") \union Some(2, BindingsOf(a), "U")

\* A save whose account is gone locks it when a binding refers to it, if it is
\* there again.
SaveGoneLocks(a) ==
    Some(1, {AccountRow(a)} \union {SimRow(s) : s \in Sims}, "K")
    \union Some(1, BindingsOf(a), "U")

DeleteAccountLocks(a) == One(1, AccountRow(a), "U") \union Some(2, BindingsOf(a), "U")

-----------------------------------------------------------------------------
(* Calls, by kind *)

CallOf(kind, locks) == [kind |-> kind, locks |-> locks]

ChatCalls == UNION
   {{CallOf("create", CreateLocks(h)), CallOf("reply", ReplyLocks(h)),
     CallOf("status", StatusLocks(h)), CallOf("inbound", InboundLocks(h)),
     CallOf("merge", MergeLocks(h)), CallOf("read", ReadLocks(h))}
       \union {CallOf("batch", BatchLocks(h, g)) :
                 g \in ChatsOf(SimsOf(DeviceOf[h[1]])) \ {h}}
       \union {CallOf("refused", RefusedLocks(d, h)) : d \in Devices \ {DeviceOf[h[1]]}}
    : h \in Chats}

DeviceCalls == UNION
   {{CallOf("pull", PullLocks(d)), CallOf("update", UpdateLocks(d)),
     CallOf("receive", ReceiveLocks(d))} : d \in Devices}

Saves ==
    {CallOf("screen", ScreenLocks)}
    \union {CallOf("contact", ContactLocks(c, m)) : c \in Contacts, m \in {"N", "U"}}
    \union {CallOf("deleteSim", DeleteSimLocks(s)) : s \in Sims}
    \union {CallOf("enableSim", EnableSimLocks(s)) : s \in Sims}
    \union {CallOf("disableSim", DisableSimLocks(s)) : s \in Sims}
    \union {CallOf("unregister", UnregisterLocks(d)) : d \in Devices}
    \union {CallOf("saveAccount", SaveAccountLocks(a, m)) : a \in Accounts, m \in {"N", "U"}}
    \union {CallOf("saveGone", SaveGoneLocks(a)) : a \in Accounts}
    \union {CallOf("deleteAccount", DeleteAccountLocks(a)) : a \in Accounts}

Calls == ChatCalls \union DeviceCalls \union Saves

Idle == CallOf("idle", {})

-----------------------------------------------------------------------------
(* Transactions *)

VARIABLES
    call,       \* the call each worker runs
    held,       \* its requests that have been granted
    asks        \* the request it waits for, if it waits

vars == <<call, held, asks>>

Init ==
    /\ call = [w \in Workers |-> Idle]
    /\ held = [w \in Workers |-> {}] /\ asks = [w \in Workers |-> {}]

Running(w) == call[w] # Idle

\* v has a row that w asks for, in a mode that conflicts.
InTheWay(w, l) == {v \in Workers \ {w} : \E m \in held[v] :
    m.rows \cap l.rows # {} /\ Conflict(m.mode, l.mode)}

WaitsFor(w) == UNION {InTheWay(w, l) : l \in asks[w]}

\* What w may ask for next
Due(w) == {l \in call[w].locks \ held[w] :
    /\ \A m \in held[w] : m.step <= l.step
    /\ \A m \in call[w].locks : Must(m) /\ m.step < l.step => m \in held[w]}

Begin(w, c) ==
    /\ ~Running(w)
    /\ call' = [call EXCEPT ![w] = c] /\ UNCHANGED <<held, asks>>

Take(w, l) ==
    /\ asks[w] = {} /\ InTheWay(w, l) = {}
    /\ held' = [held EXCEPT ![w] = @ \union {l}] /\ UNCHANGED <<call, asks>>

Wait(w, l) ==
    /\ asks[w] = {} /\ Waits(l) /\ InTheWay(w, l) # {}
    /\ asks' = [asks EXCEPT ![w] = {l}] /\ UNCHANGED <<call, held>>

Grant(w) ==
    /\ asks[w] # {} /\ WaitsFor(w) = {}
    /\ held' = [held EXCEPT ![w] = @ \union asks[w]]
    /\ asks' = [asks EXCEPT ![w] = {}] /\ UNCHANGED call

Stop(w) ==
    /\ call' = [call EXCEPT ![w] = Idle]
    /\ held' = [held EXCEPT ![w] = {}] /\ asks' = [asks EXCEPT ![w] = {}]

\* Committed, refused early, or failed
End(w) == Running(w) /\ asks[w] = {} /\ Stop(w)

\* Whom a worker waits for, directly or not: the least set that holds whom it
\* waits for and whom each member waits for.
Awaits(w) ==
    LET waits == [v \in Workers |-> WaitsFor(v)] IN
    {u \in Workers : \A S \in SUBSET Workers :
        waits[w] \subseteq S /\ (\A v \in S : waits[v] \subseteq S) => u \in S}

InCircle(w) == w \in Awaits(w)

\* deadlock detected
Abort(w) == Running(w) /\ InCircle(w) /\ Stop(w)

Next == \E w \in Workers :
    \/ \E c \in Calls : Begin(w, c)
    \/ \E l \in Due(w) : Take(w, l) \/ Wait(w, l)
    \/ Grant(w) \/ End(w) \/ Abort(w)

Spec == Init /\ [][Next]_vars

-----------------------------------------------------------------------------
(* Properties *)

Kind(w) == call[w].kind
AsksForCheck(w) == \E l \in asks[w] : l.rows \cap CheckRows # {}

\* Calls of devices and plain saves
Harmless == {"create", "pull", "status", "refused", "update", "inbound", "merge",
             "receive", "read", "contact", "screen", "enableSim", "deleteAccount"}

\* Who expires everybody's checks, who makes accounts forget a SIM.
Checking == {"pull", "status", "batch", "refused", "receive", "screen"}
Dropping == {"deleteSim", "unregister", "disableSim"}

Circles ==
    {{k, l} : k, l \in Checking} \union {{k, l} : k, l \in Dropping}
    \union {{"reply", k} : k \in {"create", "inbound", "merge", "status", "batch",
                                  "deleteSim", "unregister"}}
    \union {{"deleteSim", k} : k \in {"inbound", "merge", "status", "batch"}}
    \union {{"saveAccount", k} : k \in Dropping \union {"update", "saveGone"}}
    \union {{"saveGone", k} : k \in {"saveGone", "deleteSim", "unregister", "update",
                                     "deleteAccount"}}
    \union {{"deleteAccount", k} : k \in {"disableSim", "unregister"}}

\* Circles of waiting transactions cost one of them its call (500, and a retry).
\* The calls devices make and the plain saves never wait in a circle that has
\* no wait for a diagnostic check in it, and no reply, no report of two messages,
\* no save of an account and no SIM being disabled or deleted.
HarmlessNeverDeadlock == \A w \in Workers : InCircle(w) =>
    \E v \in Awaits(w) : w \in Awaits(v) /\ (Kind(v) \notin Harmless \/ AsksForCheck(v))

\* Two transactions deadlock in the ways listed and in no other: what locks rows
\* in one order at one endpoint and in another at a second is here by name.
CirclesAreKnown == \A w, v \in Workers :
    v \in WaitsFor(w) /\ w \in WaitsFor(v) => {Kind(w), Kind(v)} \in Circles

=============================================================================
