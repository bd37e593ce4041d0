--------------------------- MODULE RowLocksProofs ---------------------------
(***************************************************************************)
(* Proofs about RowLocks, for any number of devices, SIMs, contacts,       *)
(* conversations, agents, checks and transactions: the circles in which    *)
(* transactions can wait for each other.                                   *)
(*                                                                         *)
(* A call is reduced to a few facts about its requests (Shape): After, of  *)
(* which type of row it asks for one while it holds one of which type, and *)
(* which rows it has before others: the device of its rows, the account of *)
(* its bindings.  Granted locks are compatible (LockInv), so two calls     *)
(* that lock the device first are never both under way for one device, nor *)
(* two that lock an account first.  What is left of two calls with         *)
(* opposite orders is Circles.  For circles of any length, what Awaits is  *)
(* (the least closed set) gives each member a successor and a predecessor; *)
(* harmless members would have to meet at contacts, and none asks for a    *)
(* contact while it holds one.                                             *)
(***************************************************************************)
EXTENDS RowLocks, TLAPS

-----------------------------------------------------------------------------
(* The requests of a call *)

Forgotten == {"conversation", "message", "account", "binding"}

\* A call of kind k asks for a row of type u holding one of type t.
After(k, t, u) ==
    \/ k = "create" /\ t \in {"device", "sim"} /\ u \in {"contact", "conversation"}
    \/ k = "create" /\ t = "contact" /\ u = "conversation"
    \/ k = "reply" /\ t = "conversation" /\ u \in {"device", "sim", "contact"}
    \/ k = "reply" /\ t = "device" /\ u \in {"sim", "contact"}
    \/ k = "reply" /\ t = "sim" /\ u = "contact"
    \/ k = "pull" /\ t \in {"device", "message", "check"} /\ u = "check"
    \/ k \in {"status", "batch", "refused", "receive"} /\ t \in {"device", "check"} /\ u = "check"
    \/ k \in {"status", "batch", "refused"} /\ t \in {"device", "check"} /\ u = "message"
    \/ k \in {"status", "batch"} /\ t \in {"device", "check", "message"}
          /\ u \in {"message", "sim", "conversation", "contact"}
    \/ k = "status" /\ t = "sim" /\ u \in {"conversation", "contact"}
    \/ k = "status" /\ t = "conversation" /\ u = "contact"
    \/ k = "batch" /\ t \in {"sim", "conversation", "contact"}
          /\ u \in {"sim", "conversation", "contact"}
    \/ k = "update" /\ t \in {"device", "sim"} /\ u = "sim"
    \/ k = "inbound" /\ t = "device" /\ u \in {"contact", "conversation", "sim"}
    \/ k = "inbound" /\ t = "contact" /\ u \in {"conversation", "sim"}
    \/ k = "inbound" /\ t = "conversation" /\ u = "sim"
    \/ k = "merge" /\ t = "device" /\ u \in {"message", "conversation"}
    \/ k = "merge" /\ t = "message" /\ u = "conversation"
    \/ k = "screen" /\ t = "check" /\ u = "check"
    \/ k = "deleteSim" /\ t \in {"sim", "conversation"} /\ u \in Forgotten
    \/ k = "deleteSim" /\ t = "message" /\ u \in {"message", "account", "binding"}
    \/ k = "deleteSim" /\ t = "account" /\ u \in {"account", "binding"}
    \/ k = "deleteSim" /\ t = "binding" /\ u = "binding"
    \/ k = "unregister" /\ t \in {"device", "sim"} /\ u = "sim"
    \/ k = "unregister" /\ t \in {"device", "sim"} \union Forgotten /\ u \in Forgotten
    \/ k = "disableSim" /\ t \in {"sim", "binding"} /\ u \in {"binding", "account"}
    \/ k = "disableSim" /\ t = "account" /\ u = "account"
    \/ k = "saveAccount" /\ t \in {"account", "sim", "binding"} /\ u \in {"sim", "binding"}
    \/ k = "saveGone" /\ t \in {"account", "sim", "binding"} /\ u \in {"sim", "binding"}
    \/ k = "saveGone" /\ t \in {"sim", "binding"} /\ u = "account"
    \/ k = "deleteAccount" /\ t \in {"account", "binding"} /\ u = "binding"

\* Calls that lock the device of their rows, or the account, before these.
DeviceKinds == {"create", "pull", "status", "batch", "update", "inbound", "merge", "receive",
                "unregister"}
OwnerKinds  == {"saveAccount", "deleteAccount"}

\* Types of rows that belong to a device
Bound == {"sim", "conversation", "message"}

\* The request l takes the row with its own, or is not made before it has it.
HasFirst(c, l, row) == \E m \in c.locks :
    /\ row \in m.rows /\ m.mode \in {"U", "N"}
    /\ (m = l /\ ~Waits(l)) \/ (Must(m) /\ m.step < l.step)

Ordered(c) == \A l, m \in c.locks : l # m /\ l.step <= m.step /\ Waits(m) =>
    \A p \in l.rows, q \in m.rows : After(c.kind, p[1], q[1])
Covered(c) == c.kind \in DeviceKinds => \A l \in c.locks : \A q \in l.rows :
    q[1] \in Bound => HasFirst(c, l, DeviceRow(DeviceOf[q[2]]))
Owned(c) == c.kind \in OwnerKinds => \A l \in c.locks : \A q \in l.rows :
    q[1] = "binding" => HasFirst(c, l, AccountRow(q[2]))

\* Modes: what is only referred to, what is only updated; and which checks there are.
Moded(c) == \A l \in c.locks : \A q \in l.rows :
    /\ c.kind \in {"saveAccount", "saveGone"} /\ q[1] = "sim" => l.mode = "K"
    /\ c.kind = "saveGone" /\ q[1] = "account" => l.mode = "K"
    /\ c.kind \in {"disableSim", "batch"} /\ q[1] = "sim" => l.mode = "N"
    /\ c.kind = "disableSim" /\ q[1] = "account" => l.mode = "N"
    /\ q[1] = "binding" => l.mode = "U"
    /\ q[1] = "check" => q \in CheckRows

\* The bindings of one account, those of one SIM.
OneAccount(c) == c.kind \in {"saveGone", "deleteAccount"} =>
    \E a : \A l \in c.locks : \A q \in l.rows : q[1] = "binding" => \E s : q = BindingRow(a, s)
OneSim(c) == c.kind \in {"disableSim", "deleteSim"} =>
    \E s : \A l \in c.locks : \A q \in l.rows : q[1] = "binding" => \E a : q = BindingRow(a, s)

Shape(c) == Ordered(c) /\ Covered(c) /\ Owned(c) /\ Moded(c) /\ OneAccount(c) /\ OneSim(c)

LEMMA CreateShape ==
    ASSUME NEW h \in Chats
    PROVE  Shape(CallOf("create", CreateLocks(h)))
<1> DEFINE d == DeviceOf[h[1]]
           Routes == {{DeviceRow(e)} : e \in Devices}
                     \union {{DeviceRow(DeviceOf[s]), SimRow(s)} : s \in Sims \ {h[1]}}
           Chosen == {DeviceRow(d), SimRow(h[1])}
           Route(l, q) == /\ ~Waits(l) /\ l.mode = "U" /\ q[1] \in {"device", "sim"}
                          /\ q[1] = "sim" => DeviceRow(DeviceOf[q[2]]) \in l.rows
           P(l, q) ==
             \/ l.step = 1 /\ Route(l, q)
             \/ l.step = 2 /\ Route(l, q)
             \/ l.step = 3 /\ q[1] = "contact" /\ l = Req(3, {ContactRow(h[2])}, "N", "must")
             \/ l.step = 4 /\ q[1] = "conversation" /\ q[2] = h[1]
                   /\ l = Req(4, {ConvRow(h)}, "U", "must")
<1>0. PICK c : c = CallOf("create", CreateLocks(h))
  OBVIOUS
<1>1. c.kind = "create" /\ c.locks = CreateLocks(h)
  BY <1>0 DEF CallOf
<1>2. ASSUME NEW l \in c.locks, NEW q \in l.rows PROVE P(l, q)
  <2>1. CASE l \in Skim(1, Routes)
    <3>1. l.rows \in Routes /\ l.mode = "U" /\ l.step = 1 /\ ~Waits(l)
      BY <2>1 DEF Skim, Req, Waits
    <3>2. ASSUME NEW e, l.rows = {DeviceRow(e)}
          PROVE  q[1] = "device"
      BY <3>2 DEF DeviceRow
    <3>3. ASSUME NEW s, l.rows = {DeviceRow(DeviceOf[s]), SimRow(s)}
          PROVE  /\ q[1] \in {"device", "sim"}
                 /\ q[1] = "sim" => DeviceRow(DeviceOf[q[2]]) \in l.rows
      <4>1. CASE q = SimRow(s)
        <5>1. q[1] = "sim" /\ q[2] = s
          BY <4>1 DEF SimRow
        <5> QED
          BY <3>3, <5>1
      <4>2. CASE q = DeviceRow(DeviceOf[s])
        BY <4>2 DEF DeviceRow
      <4> QED
        BY <3>3, <4>1, <4>2
    <3>4. \/ l.rows \in {{DeviceRow(e)} : e \in Devices}
          \/ l.rows \in {{DeviceRow(DeviceOf[s]), SimRow(s)} : s \in Sims \ {h[1]}}
      BY <3>1
    <3> QED
      BY <3>1, <3>2, <3>3, <3>4
  <2>2. CASE l \in Try(2, Chosen)
    BY <2>2 DEF Try, Req, Waits, DeviceRow, SimRow
  <2>3. CASE l \in One(3, ContactRow(h[2]), "N")
    BY <2>3 DEF One, Req, ContactRow
  <2>4. CASE l \in One(4, ConvRow(h), "U")
    BY <2>4 DEF One, Req, ConvRow
  <2> QED
    BY <1>1, <2>1, <2>2, <2>3, <2>4 DEF CreateLocks
<1>3. \E m \in c.locks : DeviceRow(d) \in m.rows /\ m.mode = "U" /\ m.step = 2 /\ Must(m)
  <2>1. Req(2, Chosen, "U", "try") \in c.locks
    BY <1>1 DEF CreateLocks, Try
  <2> QED
    BY <2>1 DEF Req, Must
<1> HIDE DEF Routes, Chosen
<1>4. Ordered(c)
  <2> SUFFICES ASSUME NEW l \in c.locks, NEW m \in c.locks, l.step <= m.step, Waits(m),
                      NEW p \in l.rows, NEW q \in m.rows, l # m
               PROVE  After("create", p[1], q[1])
    BY <1>1 DEF Ordered
  <2>1. P(l, p) /\ P(m, q)
    BY <1>2
  <2> QED
    BY <2>1 DEF After
<1>5. Covered(c)
  BY <1>2, <1>3 DEF Covered, HasFirst, Bound
<1>6. Moded(c)
  BY <1>1, <1>2 DEF Moded
<1>7. Owned(c) /\ OneAccount(c) /\ OneSim(c)
  BY <1>1 DEF Owned, OwnerKinds, OneAccount, OneSim
<1> QED
  BY <1>0, <1>4, <1>5, <1>6, <1>7 DEF Shape

LEMMA ReplyShape ==
    ASSUME NEW h \in Chats
    PROVE  Shape(CallOf("reply", ReplyLocks(h)))
<1> DEFINE d == DeviceOf[h[1]]
           P(l, q) ==
             \/ l.step = 1 /\ q[1] = "conversation"
                   /\ l = Req(1, {ConvRow(h)}, "U", "must")
             \/ l.step = 2 /\ q[1] = "device"
                   /\ l = Req(2, {DeviceRow(d)}, "U", "must")
             \/ l.step = 3 /\ q[1] = "sim"
                   /\ l = Req(3, {SimRow(h[1])}, "U", "must")
             \/ l.step = 4 /\ q[1] = "contact"
                   /\ l = Req(4, {ContactRow(h[2])}, "N", "must")
<1>0. PICK c : c = CallOf("reply", ReplyLocks(h))
  OBVIOUS
<1>1. c.kind = "reply" /\ c.locks = ReplyLocks(h)
  BY <1>0 DEF CallOf
<1>2. h[1] \in Sims /\ h \in Chats
  BY RowLocksAssumption DEF RowLocksAssumption
<1>3. ASSUME NEW l \in c.locks, NEW q \in l.rows PROVE P(l, q)
  <2>1. CASE l \in One(1, ConvRow(h), "U")
    BY <1>2, <2>1 DEF One, Req, ConvRow
  <2>2. CASE l \in One(2, DeviceRow(d), "U")
    BY <1>2, <2>2 DEF One, Req, DeviceRow
  <2>3. CASE l \in One(3, SimRow(h[1]), "U")
    BY <1>2, <2>3 DEF One, Req, SimRow
  <2>4. CASE l \in One(4, ContactRow(h[2]), "N")
    BY <1>2, <2>4 DEF One, Req, ContactRow
  <2> QED
    BY <1>1, <2>1, <2>2, <2>3, <2>4
    DEF ReplyLocks
<1>4. Ordered(c)
  <2> SUFFICES ASSUME NEW l \in c.locks, NEW m \in c.locks, l # m, l.step <= m.step, Waits(m),
                      NEW p \in l.rows, NEW q \in m.rows
               PROVE  After("reply", p[1], q[1])
    BY <1>1 DEF Ordered
  <2>1. P(l, p) /\ P(m, q)
    BY <1>3
  <2> QED
    BY <2>1 DEF After
<1>5. Covered(c) /\ Owned(c) /\ Moded(c) /\ OneAccount(c) /\ OneSim(c)
  BY <1>1, <1>3 DEF Covered, DeviceKinds, Owned, OwnerKinds, Moded, OneAccount, OneSim
<1> QED
  BY <1>0, <1>4, <1>5 DEF Shape

LEMMA PullShape ==
    ASSUME NEW d \in Devices
    PROVE  Shape(CallOf("pull", PullLocks(d)))
<1> DEFINE P(l, q) ==
             \/ l.step = 1 /\ q[1] = "device"
                   /\ l = Req(1, {DeviceRow(d)}, "U", "must")
             \/ l.step = 2 /\ ~Waits(l) /\ q[1] = "message" /\ DeviceOf[q[2]] = d
             \/ l.step = 3 /\ q[1] = "check" /\ q \in CheckRows
             \/ l.step = 4 /\ ~Waits(l) /\ q[1] = "check" /\ q \in CheckRows
<1>0. PICK c : c = CallOf("pull", PullLocks(d))
  OBVIOUS
<1>1. c.kind = "pull" /\ c.locks = PullLocks(d)
  BY <1>0 DEF CallOf
<1>2. ASSUME NEW l \in c.locks, NEW q \in l.rows PROVE P(l, q)
  <2>1. CASE l \in One(1, DeviceRow(d), "U")
    BY <2>1 DEF One, Req, DeviceRow
  <2>2. CASE l \in Skim(2, {{MessageRow(h)} : h \in ChatsOf(SimsOf(d))})
    BY <2>2 DEF Skim, Req, Waits, ChatsOf, SimsOf, MessageRow
  <2>3. CASE l \in Some(3, CheckRows, "U")
    BY <2>3 DEF Some, Req, CheckRows, CheckRow
  <2>4. CASE l \in Skim(4, {{r} : r \in CheckRows})
    BY <2>4 DEF Skim, Req, Waits, CheckRows, CheckRow
  <2> QED
    BY <1>1, <2>1, <2>2, <2>3, <2>4
    DEF PullLocks
<1>3. Req(1, {DeviceRow(d)}, "U", "must") \in c.locks
  BY <1>1 DEF PullLocks, One
<1>4. Ordered(c)
  <2> SUFFICES ASSUME NEW l \in c.locks, NEW m \in c.locks, l # m, l.step <= m.step, Waits(m),
                      NEW p \in l.rows, NEW q \in m.rows
               PROVE  After("pull", p[1], q[1])
    BY <1>1 DEF Ordered
  <2>1. P(l, p) /\ P(m, q)
    BY <1>2
  <2> QED
    BY <2>1 DEF After
<1>5. Covered(c)
  BY <1>2, <1>3 DEF Covered, HasFirst, Bound, Req, Must
<1>6. Owned(c) /\ Moded(c) /\ OneAccount(c) /\ OneSim(c)
  BY <1>1, <1>2 DEF Owned, OwnerKinds, Moded, OneAccount, OneSim
<1> QED
  BY <1>0, <1>4, <1>5, <1>6 DEF Shape

LEMMA StatusShape ==
    ASSUME NEW h \in Chats
    PROVE  Shape(CallOf("status", StatusLocks(h)))
<1> DEFINE d == DeviceOf[h[1]]
           P(l, q) ==
             \/ l.step = 1 /\ q[1] = "device"
                   /\ l = Req(1, {DeviceRow(d)}, "U", "must")
             \/ l.step = 2 /\ q[1] = "check" /\ q \in CheckRows
             \/ l.step = 3 /\ q[1] = "message" /\ DeviceOf[q[2]] = d
                   /\ l = Req(3, {MessageRow(h)}, "U", "must")
             \/ l.step = 3 /\ q[1] = "message" /\ DeviceOf[q[2]] = d
             \/ l.step = 4 /\ q[1] = "sim" /\ l.mode = "N" /\ DeviceOf[q[2]] = d
                   /\ l = Req(4, {SimRow(h[1])}, "N", "may")
             \/ l.step = 5 /\ q[1] = "conversation" /\ DeviceOf[q[2]] = d
                   /\ l = Req(5, {ConvRow(h)}, "N", "must")
             \/ l.step = 6 /\ q[1] = "contact"
                   /\ l = Req(6, {ContactRow(h[2])}, "N", "must")
<1>0. PICK c : c = CallOf("status", StatusLocks(h))
  OBVIOUS
<1>1. c.kind = "status" /\ c.locks = StatusLocks(h)
  BY <1>0 DEF CallOf
<1>2. h[1] \in Sims /\ h \in Chats
  BY RowLocksAssumption DEF RowLocksAssumption
<1>3. ASSUME NEW l \in c.locks, NEW q \in l.rows PROVE P(l, q)
  <2>1. CASE l \in One(1, DeviceRow(d), "U")
    BY <1>2, <2>1 DEF One, Req, DeviceRow
  <2>2. CASE l \in Some(2, CheckRows, "U")
    BY <1>2, <2>2 DEF Some, Req, CheckRows, CheckRow
  <2>3. CASE l \in One(3, MessageRow(h), "U")
    BY <1>2, <2>3 DEF One, Req, MessageRow
  <2>4. CASE l \in Some(3, {MessageRow(g) : g \in ChatsOf(SimsOf(d)) \ {h}}, "U")
    BY <1>2, <2>4 DEF Some, Req, ChatsOf, SimsOf, MessageRow
  <2>5. CASE l \in Some(4, {SimRow(h[1])}, "N")
    BY <1>2, <2>5 DEF Some, Req, SimRow
  <2>6. CASE l \in One(5, ConvRow(h), "N")
    BY <1>2, <2>6 DEF One, Req, ConvRow
  <2>7. CASE l \in One(6, ContactRow(h[2]), "N")
    BY <1>2, <2>7 DEF One, Req, ContactRow
  <2> QED
    BY <1>1, <2>1, <2>2, <2>3, <2>4, <2>5, <2>6, <2>7
    DEF StatusLocks, SentLocks
<1>4. Req(1, {DeviceRow(d)}, "U", "must") \in c.locks
  BY <1>1 DEF StatusLocks, SentLocks, One
<1>5. Ordered(c)
  <2> SUFFICES ASSUME NEW l \in c.locks, NEW m \in c.locks, l # m, l.step <= m.step, Waits(m),
                      NEW p \in l.rows, NEW q \in m.rows
               PROVE  After("status", p[1], q[1])
    BY <1>1 DEF Ordered
  <2>1. P(l, p) /\ P(m, q)
    BY <1>3
  <2> QED
    BY <2>1 DEF After
<1>6. Covered(c)
  BY <1>3, <1>4 DEF Covered, HasFirst, Bound, Req, Must
<1>7. Owned(c) /\ Moded(c) /\ OneAccount(c) /\ OneSim(c)
  BY <1>1, <1>3 DEF Owned, OwnerKinds, Moded, OneAccount, OneSim
<1> QED
  BY <1>0, <1>5, <1>6, <1>7 DEF Shape

LEMMA BatchShape ==
    ASSUME NEW h \in Chats, NEW k \in ChatsOf(SimsOf(DeviceOf[h[1]])) \ {h}
    PROVE  Shape(CallOf("batch", BatchLocks(h, k)))
<1> DEFINE d == DeviceOf[h[1]]
           P(l, q) ==
             \/ l.step = 1 /\ q[1] = "device"
                   /\ l = Req(1, {DeviceRow(d)}, "U", "must")
             \/ l.step = 2 /\ q[1] = "check" /\ q \in CheckRows
             \/ l.step = 3 /\ q[1] = "message" /\ DeviceOf[q[2]] = d
                   /\ l = Req(3, {MessageRow(h)}, "U", "must")
             \/ l.step = 3 /\ q[1] = "message" /\ DeviceOf[q[2]] = d
             \/ l.step = 4 /\ q[1] = "sim" /\ l.mode = "N" /\ DeviceOf[q[2]] = d
                   /\ l = Req(4, {SimRow(h[1])}, "N", "may")
             \/ l.step = 5 /\ q[1] = "conversation" /\ DeviceOf[q[2]] = d
                   /\ l = Req(5, {ConvRow(h)}, "N", "must")
             \/ l.step = 6 /\ q[1] = "contact"
                   /\ l = Req(6, {ContactRow(h[2])}, "N", "must")
             \/ l.step = 7 /\ q[1] = "sim" /\ l.mode = "N" /\ DeviceOf[q[2]] = d
                   /\ l = Req(7, {SimRow(k[1])}, "N", "may")
             \/ l.step = 8 /\ q[1] = "conversation" /\ DeviceOf[q[2]] = d
                   /\ l = Req(8, {ConvRow(k)}, "N", "must")
             \/ l.step = 9 /\ q[1] = "contact"
                   /\ l = Req(9, {ContactRow(k[2])}, "N", "must")
<1>0. PICK c : c = CallOf("batch", BatchLocks(h, k))
  OBVIOUS
<1>1. c.kind = "batch" /\ c.locks = BatchLocks(h, k)
  BY <1>0 DEF CallOf
<1>2. h[1] \in Sims /\ h \in Chats /\ DeviceOf[k[1]] = d
  BY RowLocksAssumption DEF RowLocksAssumption, ChatsOf, SimsOf
<1>3. ASSUME NEW l \in c.locks, NEW q \in l.rows PROVE P(l, q)
  <2>1. CASE l \in One(1, DeviceRow(d), "U")
    BY <1>2, <2>1 DEF One, Req, DeviceRow
  <2>2. CASE l \in Some(2, CheckRows, "U")
    BY <1>2, <2>2 DEF Some, Req, CheckRows, CheckRow
  <2>3. CASE l \in One(3, MessageRow(h), "U")
    BY <1>2, <2>3 DEF One, Req, MessageRow
  <2>4. CASE l \in Some(3, {MessageRow(g) : g \in ChatsOf(SimsOf(d)) \ {h}}, "U")
    BY <1>2, <2>4 DEF Some, Req, ChatsOf, SimsOf, MessageRow
  <2>5. CASE l \in Some(4, {SimRow(h[1])}, "N")
    BY <1>2, <2>5 DEF Some, Req, SimRow
  <2>6. CASE l \in One(5, ConvRow(h), "N")
    BY <1>2, <2>6 DEF One, Req, ConvRow
  <2>7. CASE l \in One(6, ContactRow(h[2]), "N")
    BY <1>2, <2>7 DEF One, Req, ContactRow
  <2>8. CASE l \in Some(7, {SimRow(k[1])}, "N")
    BY <1>2, <2>8 DEF Some, Req, SimRow
  <2>9. CASE l \in One(8, ConvRow(k), "N")
    BY <1>2, <2>9 DEF One, Req, ConvRow
  <2>10. CASE l \in One(9, ContactRow(k[2]), "N")
    BY <1>2, <2>10 DEF One, Req, ContactRow
  <2>11. SentLocks(4, h) = Some(4, {SimRow(h[1])}, "N") \union One(5, ConvRow(h), "N")
                            \union One(6, ContactRow(h[2]), "N")
    BY DEF SentLocks
  <2>12. SentLocks(7, k) = Some(7, {SimRow(k[1])}, "N") \union One(8, ConvRow(k), "N")
                            \union One(9, ContactRow(k[2]), "N")
    BY DEF SentLocks
  <2> QED
    BY <1>1, <2>1, <2>2, <2>3, <2>4, <2>5, <2>6, <2>7, <2>8, <2>9, <2>10, <2>11, <2>12
    DEF BatchLocks, StatusLocks
<1>4. Req(1, {DeviceRow(d)}, "U", "must") \in c.locks
  BY <1>1 DEF BatchLocks, StatusLocks, One
<1>5. Ordered(c)
  <2> SUFFICES ASSUME NEW l \in c.locks, NEW m \in c.locks, l # m, l.step <= m.step, Waits(m),
                      NEW p \in l.rows, NEW q \in m.rows
               PROVE  After("batch", p[1], q[1])
    BY <1>1 DEF Ordered
  <2>1. P(l, p) /\ P(m, q)
    BY <1>3
  <2> QED
    BY <2>1 DEF After
<1>6. Covered(c)
  BY <1>3, <1>4 DEF Covered, HasFirst, Bound, Req, Must
<1>7. Owned(c) /\ Moded(c) /\ OneAccount(c) /\ OneSim(c)
  BY <1>1, <1>3 DEF Owned, OwnerKinds, Moded, OneAccount, OneSim
<1> QED
  BY <1>0, <1>5, <1>6, <1>7 DEF Shape

LEMMA RefusedShape ==
    ASSUME NEW h \in Chats, NEW d \in Devices
    PROVE  Shape(CallOf("refused", RefusedLocks(d, h)))
<1> DEFINE P(l, q) ==
             \/ l.step = 1 /\ q[1] = "device"
                   /\ l = Req(1, {DeviceRow(d)}, "U", "must")
             \/ l.step = 2 /\ q[1] = "check" /\ q \in CheckRows
             \/ l.step = 3 /\ q[1] = "message"
                   /\ l = Req(3, {MessageRow(h)}, "U", "must")
<1>0. PICK c : c = CallOf("refused", RefusedLocks(d, h))
  OBVIOUS
<1>1. c.kind = "refused" /\ c.locks = RefusedLocks(d, h)
  BY <1>0 DEF CallOf
<1>2. h[1] \in Sims /\ h \in Chats
  BY RowLocksAssumption DEF RowLocksAssumption
<1>3. ASSUME NEW l \in c.locks, NEW q \in l.rows PROVE P(l, q)
  <2>1. CASE l \in One(1, DeviceRow(d), "U")
    BY <1>2, <2>1 DEF One, Req, DeviceRow
  <2>2. CASE l \in Some(2, CheckRows, "U")
    BY <1>2, <2>2 DEF Some, Req, CheckRows, CheckRow
  <2>3. CASE l \in One(3, MessageRow(h), "U")
    BY <1>2, <2>3 DEF One, Req, MessageRow
  <2> QED
    BY <1>1, <2>1, <2>2, <2>3
    DEF RefusedLocks
<1>4. Ordered(c)
  <2> SUFFICES ASSUME NEW l \in c.locks, NEW m \in c.locks, l # m, l.step <= m.step, Waits(m),
                      NEW p \in l.rows, NEW q \in m.rows
               PROVE  After("refused", p[1], q[1])
    BY <1>1 DEF Ordered
  <2>1. P(l, p) /\ P(m, q)
    BY <1>3
  <2> QED
    BY <2>1 DEF After
<1>5. Covered(c) /\ Owned(c) /\ Moded(c) /\ OneAccount(c) /\ OneSim(c)
  BY <1>1, <1>3 DEF Covered, DeviceKinds, Owned, OwnerKinds, Moded, OneAccount, OneSim
<1> QED
  BY <1>0, <1>4, <1>5 DEF Shape

LEMMA UpdateShape ==
    ASSUME NEW d \in Devices
    PROVE  Shape(CallOf("update", UpdateLocks(d)))
<1> DEFINE P(l, q) ==
             \/ l.step = 1 /\ q[1] = "device"
                   /\ l = Req(1, {DeviceRow(d)}, "U", "must")
             \/ l.step = 2 /\ q[1] = "sim" /\ DeviceOf[q[2]] = d
             \/ l.step = 3 /\ q[1] = "sim" /\ DeviceOf[q[2]] = d
<1>0. PICK c : c = CallOf("update", UpdateLocks(d))
  OBVIOUS
<1>1. c.kind = "update" /\ c.locks = UpdateLocks(d)
  BY <1>0 DEF CallOf
<1>2. ASSUME NEW l \in c.locks, NEW q \in l.rows PROVE P(l, q)
  <2>1. CASE l \in One(1, DeviceRow(d), "U")
    BY <2>1 DEF One, Req, DeviceRow
  <2>2. CASE l \in All(2, {SimRow(s) : s \in SimsOf(d)}, "N")
    BY <2>2 DEF All, Req, SimsOf, SimRow
  <2>3. CASE l \in Some(3, {SimRow(s) : s \in SimsOf(d)}, "U")
    BY <2>3 DEF Some, Req, SimsOf, SimRow
  <2> QED
    BY <1>1, <2>1, <2>2, <2>3
    DEF UpdateLocks
<1>3. Req(1, {DeviceRow(d)}, "U", "must") \in c.locks
  BY <1>1 DEF UpdateLocks, One
<1>4. Ordered(c)
  <2> SUFFICES ASSUME NEW l \in c.locks, NEW m \in c.locks, l # m, l.step <= m.step, Waits(m),
                      NEW p \in l.rows, NEW q \in m.rows
               PROVE  After("update", p[1], q[1])
    BY <1>1 DEF Ordered
  <2>1. P(l, p) /\ P(m, q)
    BY <1>2
  <2> QED
    BY <2>1 DEF After
<1>5. Covered(c)
  BY <1>2, <1>3 DEF Covered, HasFirst, Bound, Req, Must
<1>6. Owned(c) /\ Moded(c) /\ OneAccount(c) /\ OneSim(c)
  BY <1>1, <1>2 DEF Owned, OwnerKinds, Moded, OneAccount, OneSim
<1> QED
  BY <1>0, <1>4, <1>5, <1>6 DEF Shape

LEMMA InboundShape ==
    ASSUME NEW h \in Chats
    PROVE  Shape(CallOf("inbound", InboundLocks(h)))
<1> DEFINE d == DeviceOf[h[1]]
           P(l, q) ==
             \/ l.step = 1 /\ q[1] = "device"
                   /\ l = Req(1, {DeviceRow(d)}, "U", "must")
             \/ l.step = 2 /\ q[1] = "contact"
                   /\ l = Req(2, {ContactRow(h[2])}, "N", "must")
             \/ l.step = 3 /\ q[1] = "conversation" /\ DeviceOf[q[2]] = d
                   /\ l = Req(3, {ConvRow(h)}, "U", "must")
             \/ l.step = 4 /\ q[1] = "sim" /\ DeviceOf[q[2]] = d
                   /\ l = Req(4, {SimRow(h[1])}, "K", "must")
<1>0. PICK c : c = CallOf("inbound", InboundLocks(h))
  OBVIOUS
<1>1. c.kind = "inbound" /\ c.locks = InboundLocks(h)
  BY <1>0 DEF CallOf
<1>2. h[1] \in Sims /\ h \in Chats
  BY RowLocksAssumption DEF RowLocksAssumption
<1>3. ASSUME NEW l \in c.locks, NEW q \in l.rows PROVE P(l, q)
  <2>1. CASE l \in One(1, DeviceRow(d), "U")
    BY <1>2, <2>1 DEF One, Req, DeviceRow
  <2>2. CASE l \in One(2, ContactRow(h[2]), "N")
    BY <1>2, <2>2 DEF One, Req, ContactRow
  <2>3. CASE l \in One(3, ConvRow(h), "U")
    BY <1>2, <2>3 DEF One, Req, ConvRow
  <2>4. CASE l \in One(4, SimRow(h[1]), "K")
    BY <1>2, <2>4 DEF One, Req, SimRow
  <2> QED
    BY <1>1, <2>1, <2>2, <2>3, <2>4
    DEF InboundLocks
<1>4. Req(1, {DeviceRow(d)}, "U", "must") \in c.locks
  BY <1>1 DEF InboundLocks, One
<1>5. Ordered(c)
  <2> SUFFICES ASSUME NEW l \in c.locks, NEW m \in c.locks, l # m, l.step <= m.step, Waits(m),
                      NEW p \in l.rows, NEW q \in m.rows
               PROVE  After("inbound", p[1], q[1])
    BY <1>1 DEF Ordered
  <2>1. P(l, p) /\ P(m, q)
    BY <1>3
  <2> QED
    BY <2>1 DEF After
<1>6. Covered(c)
  BY <1>3, <1>4 DEF Covered, HasFirst, Bound, Req, Must
<1>7. Owned(c) /\ Moded(c) /\ OneAccount(c) /\ OneSim(c)
  BY <1>1, <1>3 DEF Owned, OwnerKinds, Moded, OneAccount, OneSim
<1> QED
  BY <1>0, <1>5, <1>6, <1>7 DEF Shape

LEMMA MergeShape ==
    ASSUME NEW h \in Chats
    PROVE  Shape(CallOf("merge", MergeLocks(h)))
<1> DEFINE d == DeviceOf[h[1]]
           P(l, q) ==
             \/ l.step = 1 /\ q[1] = "device"
                   /\ l = Req(1, {DeviceRow(d)}, "U", "must")
             \/ l.step = 2 /\ q[1] = "message" /\ DeviceOf[q[2]] = d
                   /\ l = Req(2, {MessageRow(h)}, "N", "must")
             \/ l.step = 3 /\ q[1] = "conversation" /\ DeviceOf[q[2]] = d
                   /\ l = Req(3, {ConvRow(h)}, "N", "must")
<1>0. PICK c : c = CallOf("merge", MergeLocks(h))
  OBVIOUS
<1>1. c.kind = "merge" /\ c.locks = MergeLocks(h)
  BY <1>0 DEF CallOf
<1>2. h[1] \in Sims /\ h \in Chats
  BY RowLocksAssumption DEF RowLocksAssumption
<1>3. ASSUME NEW l \in c.locks, NEW q \in l.rows PROVE P(l, q)
  <2>1. CASE l \in One(1, DeviceRow(d), "U")
    BY <1>2, <2>1 DEF One, Req, DeviceRow
  <2>2. CASE l \in One(2, MessageRow(h), "N")
    BY <1>2, <2>2 DEF One, Req, MessageRow
  <2>3. CASE l \in One(3, ConvRow(h), "N")
    BY <1>2, <2>3 DEF One, Req, ConvRow
  <2> QED
    BY <1>1, <2>1, <2>2, <2>3
    DEF MergeLocks
<1>4. Req(1, {DeviceRow(d)}, "U", "must") \in c.locks
  BY <1>1 DEF MergeLocks, One
<1>5. Ordered(c)
  <2> SUFFICES ASSUME NEW l \in c.locks, NEW m \in c.locks, l # m, l.step <= m.step, Waits(m),
                      NEW p \in l.rows, NEW q \in m.rows
               PROVE  After("merge", p[1], q[1])
    BY <1>1 DEF Ordered
  <2>1. P(l, p) /\ P(m, q)
    BY <1>3
  <2> QED
    BY <2>1 DEF After
<1>6. Covered(c)
  BY <1>3, <1>4 DEF Covered, HasFirst, Bound, Req, Must
<1>7. Owned(c) /\ Moded(c) /\ OneAccount(c) /\ OneSim(c)
  BY <1>1, <1>3 DEF Owned, OwnerKinds, Moded, OneAccount, OneSim
<1> QED
  BY <1>0, <1>5, <1>6, <1>7 DEF Shape

LEMMA ReceiveShape ==
    ASSUME NEW d \in Devices
    PROVE  Shape(CallOf("receive", ReceiveLocks(d)))
<1> DEFINE P(l, q) ==
             \/ l.step = 1 /\ q[1] = "device"
                   /\ l = Req(1, {DeviceRow(d)}, "U", "must")
             \/ l.step = 2 /\ q[1] = "check" /\ q \in CheckRows
<1>0. PICK c : c = CallOf("receive", ReceiveLocks(d))
  OBVIOUS
<1>1. c.kind = "receive" /\ c.locks = ReceiveLocks(d)
  BY <1>0 DEF CallOf
<1>2. ASSUME NEW l \in c.locks, NEW q \in l.rows PROVE P(l, q)
  <2>1. CASE l \in One(1, DeviceRow(d), "U")
    BY <2>1 DEF One, Req, DeviceRow
  <2>2. CASE l \in Some(2, CheckRows, "U")
    BY <2>2 DEF Some, Req, CheckRows, CheckRow
  <2> QED
    BY <1>1, <2>1, <2>2
    DEF ReceiveLocks
<1>3. Req(1, {DeviceRow(d)}, "U", "must") \in c.locks
  BY <1>1 DEF ReceiveLocks, One
<1>4. Ordered(c)
  <2> SUFFICES ASSUME NEW l \in c.locks, NEW m \in c.locks, l # m, l.step <= m.step, Waits(m),
                      NEW p \in l.rows, NEW q \in m.rows
               PROVE  After("receive", p[1], q[1])
    BY <1>1 DEF Ordered
  <2>1. P(l, p) /\ P(m, q)
    BY <1>2
  <2> QED
    BY <2>1 DEF After
<1>5. Covered(c)
  BY <1>2 DEF Covered, Bound
<1>6. Owned(c) /\ Moded(c) /\ OneAccount(c) /\ OneSim(c)
  BY <1>1, <1>2 DEF Owned, OwnerKinds, Moded, OneAccount, OneSim
<1> QED
  BY <1>0, <1>4, <1>5, <1>6 DEF Shape

LEMMA ReadShape ==
    ASSUME NEW h \in Chats
    PROVE  Shape(CallOf("read", ReadLocks(h)))
<1> DEFINE P(l, q) ==
             \/ l.step = 1 /\ q[1] = "conversation"
                   /\ l = Req(1, {ConvRow(h)}, "N", "must")
<1>0. PICK c : c = CallOf("read", ReadLocks(h))
  OBVIOUS
<1>1. c.kind = "read" /\ c.locks = ReadLocks(h)
  BY <1>0 DEF CallOf
<1>2. h[1] \in Sims /\ h \in Chats
  BY RowLocksAssumption DEF RowLocksAssumption
<1>3. ASSUME NEW l \in c.locks, NEW q \in l.rows PROVE P(l, q)
  <2>1. CASE l \in One(1, ConvRow(h), "N")
    BY <1>2, <2>1 DEF One, Req, ConvRow
  <2> QED
    BY <1>1, <2>1
    DEF ReadLocks
<1>4. Ordered(c)
  <2> SUFFICES ASSUME NEW l \in c.locks, NEW m \in c.locks, l # m, l.step <= m.step, Waits(m),
                      NEW p \in l.rows, NEW q \in m.rows
               PROVE  After("read", p[1], q[1])
    BY <1>1 DEF Ordered
  <2>1. P(l, p) /\ P(m, q)
    BY <1>3
  <2> QED
    BY <2>1 DEF After
<1>5. Covered(c) /\ Owned(c) /\ Moded(c) /\ OneAccount(c) /\ OneSim(c)
  BY <1>1, <1>3 DEF Covered, DeviceKinds, Owned, OwnerKinds, Moded, OneAccount, OneSim
<1> QED
  BY <1>0, <1>4, <1>5 DEF Shape

LEMMA ContactShape ==
    ASSUME NEW b, NEW mo
    PROVE  Shape(CallOf("contact", ContactLocks(b, mo)))
<1> DEFINE P(l, q) ==
             \/ l.step = 1 /\ q[1] = "contact"
                   /\ l = Req(1, {ContactRow(b)}, mo, "must")
<1>0. PICK c : c = CallOf("contact", ContactLocks(b, mo))
  OBVIOUS
<1>1. c.kind = "contact" /\ c.locks = ContactLocks(b, mo)
  BY <1>0 DEF CallOf
<1>2. ASSUME NEW l \in c.locks, NEW q \in l.rows PROVE P(l, q)
  <2>1. CASE l \in One(1, ContactRow(b), mo)
    BY <2>1 DEF One, Req, ContactRow
  <2> QED
    BY <1>1, <2>1
    DEF ContactLocks
<1>3. Ordered(c)
  <2> SUFFICES ASSUME NEW l \in c.locks, NEW m \in c.locks, l # m, l.step <= m.step, Waits(m),
                      NEW p \in l.rows, NEW q \in m.rows
               PROVE  After("contact", p[1], q[1])
    BY <1>1 DEF Ordered
  <2>1. P(l, p) /\ P(m, q)
    BY <1>2
  <2> QED
    BY <2>1 DEF After
<1>4. Covered(c) /\ Owned(c) /\ Moded(c) /\ OneAccount(c) /\ OneSim(c)
  BY <1>1, <1>2 DEF Covered, DeviceKinds, Owned, OwnerKinds, Moded, OneAccount, OneSim
<1> QED
  BY <1>0, <1>3, <1>4 DEF Shape

LEMMA ScreenShape ==
    Shape(CallOf("screen", ScreenLocks))
<1> DEFINE P(l, q) ==
             \/ l.step = 1 /\ q[1] = "check" /\ q \in CheckRows
<1>0. PICK c : c = CallOf("screen", ScreenLocks)
  OBVIOUS
<1>1. c.kind = "screen" /\ c.locks = ScreenLocks
  BY <1>0 DEF CallOf
<1>2. ASSUME NEW l \in c.locks, NEW q \in l.rows PROVE P(l, q)
  <2>1. CASE l \in Some(1, CheckRows, "U")
    BY <2>1 DEF Some, Req, CheckRows, CheckRow
  <2> QED
    BY <1>1, <2>1
    DEF ScreenLocks
<1>3. Ordered(c)
  <2> SUFFICES ASSUME NEW l \in c.locks, NEW m \in c.locks, l # m, l.step <= m.step, Waits(m),
                      NEW p \in l.rows, NEW q \in m.rows
               PROVE  After("screen", p[1], q[1])
    BY <1>1 DEF Ordered
  <2>1. P(l, p) /\ P(m, q)
    BY <1>2
  <2> QED
    BY <2>1 DEF After
<1>4. Covered(c) /\ Owned(c) /\ Moded(c) /\ OneAccount(c) /\ OneSim(c)
  BY <1>1, <1>2 DEF Covered, DeviceKinds, Owned, OwnerKinds, Moded, OneAccount, OneSim
<1> QED
  BY <1>0, <1>3, <1>4 DEF Shape

LEMMA DeleteSimShape ==
    ASSUME NEW s \in Sims
    PROVE  Shape(CallOf("deleteSim", DeleteSimLocks(s)))
<1> DEFINE P(l, q) ==
             \/ l.step = 1 /\ q[1] = "sim"
                   /\ l = Req(1, {SimRow(s)}, "U", "must")
             \/ l.step = 2 /\ q[1] = "conversation"
             \/ l.step = 3 /\ q[1] = "message"
             \/ l.step = 4 /\ q[1] = "account"
             \/ l.step = 5 /\ q[1] = "binding" /\ l.mode = "U"
                   /\ \E a : q = BindingRow(a, s)
<1>0. PICK c : c = CallOf("deleteSim", DeleteSimLocks(s))
  OBVIOUS
<1>1. c.kind = "deleteSim" /\ c.locks = DeleteSimLocks(s)
  BY <1>0 DEF CallOf
<1>2. ASSUME NEW l \in c.locks, NEW q \in l.rows PROVE P(l, q)
  <2>1. CASE l \in One(1, SimRow(s), "U")
    BY <2>1 DEF One, Req, SimRow
  <2>2. CASE l \in Some(2, {ConvRow(h) : h \in ChatsOf({s})}, "U")
    BY <2>2 DEF Some, Req, ConvRow
  <2>3. CASE l \in Some(3, {MessageRow(h) : h \in ChatsOf({s})}, "N")
    BY <2>3 DEF Some, Req, MessageRow
  <2>4. CASE l \in Some(4, {AccountRow(a) : a \in Accounts}, "N")
    BY <2>4 DEF Some, Req, AccountRow
  <2>5. CASE l \in Some(5, {BindingRow(a, s) : a \in Accounts}, "U")
    BY <2>5 DEF Some, Req, BindingRow
  <2> QED
    BY <1>1, <2>1, <2>2, <2>3, <2>4, <2>5
    DEF DeleteSimLocks
<1>3. Ordered(c)
  <2> SUFFICES ASSUME NEW l \in c.locks, NEW m \in c.locks, l # m, l.step <= m.step, Waits(m),
                      NEW p \in l.rows, NEW q \in m.rows
               PROVE  After("deleteSim", p[1], q[1])
    BY <1>1 DEF Ordered
  <2>1. P(l, p) /\ P(m, q)
    BY <1>2
  <2> QED
    BY <2>1 DEF After, Forgotten
<1>4. Covered(c) /\ Owned(c) /\ Moded(c) /\ OneAccount(c) /\ OneSim(c)
  BY <1>1, <1>2 DEF Covered, DeviceKinds, Owned, OwnerKinds, Moded, OneAccount, OneSim
<1> QED
  BY <1>0, <1>3, <1>4 DEF Shape

LEMMA EnableSimShape ==
    ASSUME NEW s \in Sims
    PROVE  Shape(CallOf("enableSim", EnableSimLocks(s)))
<1> DEFINE P(l, q) ==
             \/ l.step = 1 /\ q[1] = "sim"
                   /\ l = Req(1, {SimRow(s)}, "N", "must")
<1>0. PICK c : c = CallOf("enableSim", EnableSimLocks(s))
  OBVIOUS
<1>1. c.kind = "enableSim" /\ c.locks = EnableSimLocks(s)
  BY <1>0 DEF CallOf
<1>2. ASSUME NEW l \in c.locks, NEW q \in l.rows PROVE P(l, q)
  <2>1. CASE l \in One(1, SimRow(s), "N")
    BY <2>1 DEF One, Req, SimRow
  <2> QED
    BY <1>1, <2>1
    DEF EnableSimLocks
<1>3. Ordered(c)
  <2> SUFFICES ASSUME NEW l \in c.locks, NEW m \in c.locks, l # m, l.step <= m.step, Waits(m),
                      NEW p \in l.rows, NEW q \in m.rows
               PROVE  After("enableSim", p[1], q[1])
    BY <1>1 DEF Ordered
  <2>1. P(l, p) /\ P(m, q)
    BY <1>2
  <2> QED
    BY <2>1 DEF After
<1>4. Covered(c) /\ Owned(c) /\ Moded(c) /\ OneAccount(c) /\ OneSim(c)
  BY <1>1, <1>2 DEF Covered, DeviceKinds, Owned, OwnerKinds, Moded, OneAccount, OneSim
<1> QED
  BY <1>0, <1>3, <1>4 DEF Shape

LEMMA DisableSimShape ==
    ASSUME NEW s \in Sims
    PROVE  Shape(CallOf("disableSim", DisableSimLocks(s)))
<1> DEFINE P(l, q) ==
             \/ l.step = 1 /\ q[1] = "sim" /\ l.mode = "N"
                   /\ l = Req(1, {SimRow(s)}, "N", "must")
             \/ l.step = 2 /\ q[1] = "binding" /\ l.mode = "U"
                   /\ \E a : q = BindingRow(a, s)
             \/ l.step = 3 /\ q[1] = "account" /\ l.mode = "N"
<1>0. PICK c : c = CallOf("disableSim", DisableSimLocks(s))
  OBVIOUS
<1>1. c.kind = "disableSim" /\ c.locks = DisableSimLocks(s)
  BY <1>0 DEF CallOf
<1>2. ASSUME NEW l \in c.locks, NEW q \in l.rows PROVE P(l, q)
  <2>1. CASE l \in One(1, SimRow(s), "N")
    BY <2>1 DEF One, Req, SimRow
  <2>2. CASE l \in Some(2, {BindingRow(a, s) : a \in Accounts}, "U")
    BY <2>2 DEF Some, Req, BindingRow
  <2>3. CASE l \in Some(3, {AccountRow(a) : a \in Accounts}, "N")
    BY <2>3 DEF Some, Req, AccountRow
  <2> QED
    BY <1>1, <2>1, <2>2, <2>3
    DEF DisableSimLocks
<1>3. Ordered(c)
  <2> SUFFICES ASSUME NEW l \in c.locks, NEW m \in c.locks, l # m, l.step <= m.step, Waits(m),
                      NEW p \in l.rows, NEW q \in m.rows
               PROVE  After("disableSim", p[1], q[1])
    BY <1>1 DEF Ordered
  <2>1. P(l, p) /\ P(m, q)
    BY <1>2
  <2> QED
    BY <2>1 DEF After
<1>4. Covered(c) /\ Owned(c) /\ Moded(c) /\ OneAccount(c) /\ OneSim(c)
  BY <1>1, <1>2 DEF Covered, DeviceKinds, Owned, OwnerKinds, Moded, OneAccount, OneSim
<1> QED
  BY <1>0, <1>3, <1>4 DEF Shape

LEMMA UnregisterShape ==
    ASSUME NEW d \in Devices
    PROVE  Shape(CallOf("unregister", UnregisterLocks(d)))
<1> DEFINE Gone == {ConvRow(h) : h \in ChatsOf(SimsOf(d))}
                   \union {BindingRow(a, s) : a \in Accounts, s \in SimsOf(d)}
           Left == {MessageRow(h) : h \in ChatsOf(SimsOf(d))}
                   \union {AccountRow(a) : a \in Accounts}
           P(l, q) ==
             \/ l.step = 1 /\ q[1] = "device"
                   /\ l = Req(1, {DeviceRow(d)}, "N", "must")
             \/ l.step = 2 /\ q[1] = "sim" /\ DeviceOf[q[2]] = d
             \/ l.step = 3 /\ q[1] = "sim" /\ DeviceOf[q[2]] = d
             \/ l.step = 4 /\ q[1] \in {"conversation", "binding"} /\ l.mode = "U"
                   /\ (q[1] = "conversation" => DeviceOf[q[2]] = d)
             \/ l.step = 4 /\ q[1] \in {"message", "account"}
                   /\ (q[1] = "message" => DeviceOf[q[2]] = d)
<1>0. PICK c : c = CallOf("unregister", UnregisterLocks(d))
  OBVIOUS
<1>1. c.kind = "unregister" /\ c.locks = UnregisterLocks(d)
  BY <1>0 DEF CallOf
<1>2. ASSUME NEW l \in c.locks, NEW q \in l.rows PROVE P(l, q)
  <2>1. CASE l \in One(1, DeviceRow(d), "N")
    BY <2>1 DEF One, Req, DeviceRow
  <2>2. CASE l \in All(2, {SimRow(s) : s \in SimsOf(d)}, "N")
    BY <2>2 DEF All, Req, SimsOf, SimRow
  <2>3. CASE l \in All(3, {SimRow(s) : s \in SimsOf(d)}, "U")
    BY <2>3 DEF All, Req, SimsOf, SimRow
  <2>4. CASE l \in Some(4, Gone, "U")
    BY <2>4 DEF Some, Req, ChatsOf, SimsOf, ConvRow, BindingRow
  <2>5. CASE l \in Some(4, Left, "N")
    BY <2>5 DEF Some, Req, ChatsOf, SimsOf, MessageRow, AccountRow
  <2> QED
    BY <1>1, <2>1, <2>2, <2>3, <2>4, <2>5
    DEF UnregisterLocks, ForgetLocks
<1>3. Req(1, {DeviceRow(d)}, "N", "must") \in c.locks
  BY <1>1 DEF UnregisterLocks, ForgetLocks, One
<1>4. Ordered(c)
  <2> SUFFICES ASSUME NEW l \in c.locks, NEW m \in c.locks, l # m, l.step <= m.step, Waits(m),
                      NEW p \in l.rows, NEW q \in m.rows
               PROVE  After("unregister", p[1], q[1])
    BY <1>1 DEF Ordered
  <2>1. P(l, p) /\ P(m, q)
    BY <1>2
  <2> QED
    BY <2>1 DEF After, Forgotten
<1>5. Covered(c)
  BY <1>2, <1>3 DEF Covered, HasFirst, Bound, Req, Must
<1>6. Owned(c) /\ Moded(c) /\ OneAccount(c) /\ OneSim(c)
  BY <1>1, <1>2 DEF Owned, OwnerKinds, Moded, OneAccount, OneSim
<1> QED
  BY <1>0, <1>4, <1>5, <1>6 DEF Shape

LEMMA SaveAccountShape ==
    ASSUME NEW a \in Accounts, NEW mo \in {"N", "U"}
    PROVE  Shape(CallOf("saveAccount", SaveAccountLocks(a, mo)))
<1> DEFINE P(l, q) ==
             \/ l.step = 1 /\ q[1] = "account"
                   /\ l = Req(1, {AccountRow(a)}, mo, "must")
             \/ l.step = 2 /\ q[1] = "sim" /\ l.mode = "K"
             \/ l.step = 2 /\ q[1] = "binding" /\ l.mode = "U" /\ q[2] = a
<1>0. PICK c : c = CallOf("saveAccount", SaveAccountLocks(a, mo))
  OBVIOUS
<1>1. c.kind = "saveAccount" /\ c.locks = SaveAccountLocks(a, mo)
  BY <1>0 DEF CallOf
<1>2. ASSUME NEW l \in c.locks, NEW q \in l.rows PROVE P(l, q)
  <2>1. CASE l \in One(1, AccountRow(a), mo)
    BY <2>1 DEF One, Req, AccountRow
  <2>2. CASE l \in Some(2, {SimRow(s) : s \in Sims}, "K")
    BY <2>2 DEF Some, Req, SimRow
  <2>3. CASE l \in Some(2, BindingsOf(a), "U")
    BY <2>3 DEF Some, Req, BindingsOf, BindingRow
  <2> QED
    BY <1>1, <2>1, <2>2, <2>3
    DEF SaveAccountLocks
<1>3. Req(1, {AccountRow(a)}, mo, "must") \in c.locks
  BY <1>1 DEF SaveAccountLocks, One
<1>4. Ordered(c)
  <2> SUFFICES ASSUME NEW l \in c.locks, NEW m \in c.locks, l # m, l.step <= m.step, Waits(m),
                      NEW p \in l.rows, NEW q \in m.rows
               PROVE  After("saveAccount", p[1], q[1])
    BY <1>1 DEF Ordered
  <2>1. P(l, p) /\ P(m, q)
    BY <1>2
  <2> QED
    BY <2>1 DEF After
<1>5. Owned(c)
  BY <1>2, <1>3 DEF Owned, HasFirst, Req, Must
<1>6. Covered(c) /\ Moded(c) /\ OneAccount(c) /\ OneSim(c)
  BY <1>1, <1>2 DEF Covered, DeviceKinds, Moded, OneAccount, OneSim
<1> QED
  BY <1>0, <1>4, <1>5, <1>6 DEF Shape

LEMMA SaveGoneShape ==
    ASSUME NEW a \in Accounts
    PROVE  Shape(CallOf("saveGone", SaveGoneLocks(a)))
<1> DEFINE P(l, q) ==
             \/ l.step = 1 /\ q[1] \in {"account", "sim"} /\ l.mode = "K"
                   /\ (q[1] = "account" => l = Req(1, {AccountRow(a)}, "K", "may"))
             \/ l.step = 1 /\ q[1] = "binding" /\ l.mode = "U"
                   /\ \E s : q = BindingRow(a, s)
<1>0. PICK c : c = CallOf("saveGone", SaveGoneLocks(a))
  OBVIOUS
<1>1. c.kind = "saveGone" /\ c.locks = SaveGoneLocks(a)
  BY <1>0 DEF CallOf
<1>2. ASSUME NEW l \in c.locks, NEW q \in l.rows PROVE P(l, q)
  <2>1. CASE l \in Some(1, {AccountRow(a)} \union {SimRow(s) : s \in Sims}, "K")
    BY <2>1 DEF Some, Req, SimRow, AccountRow
  <2>2. CASE l \in Some(1, BindingsOf(a), "U")
    BY <2>2 DEF Some, Req, BindingsOf, BindingRow
  <2> QED
    BY <1>1, <2>1, <2>2
    DEF SaveGoneLocks
<1>3. Ordered(c)
  <2> SUFFICES ASSUME NEW l \in c.locks, NEW m \in c.locks, l # m, l.step <= m.step, Waits(m),
                      NEW p \in l.rows, NEW q \in m.rows
               PROVE  After("saveGone", p[1], q[1])
    BY <1>1 DEF Ordered
  <2>1. P(l, p) /\ P(m, q)
    BY <1>2
  <2> QED
    BY <2>1 DEF After
<1>4. Covered(c) /\ Owned(c) /\ Moded(c) /\ OneAccount(c) /\ OneSim(c)
  BY <1>1, <1>2 DEF Covered, DeviceKinds, Owned, OwnerKinds, Moded, OneAccount, OneSim
<1> QED
  BY <1>0, <1>3, <1>4 DEF Shape

LEMMA DeleteAccountShape ==
    ASSUME NEW a \in Accounts
    PROVE  Shape(CallOf("deleteAccount", DeleteAccountLocks(a)))
<1> DEFINE P(l, q) ==
             \/ l.step = 1 /\ q[1] = "account"
                   /\ l = Req(1, {AccountRow(a)}, "U", "must")
             \/ l.step = 2 /\ q[1] = "binding" /\ l.mode = "U" /\ q[2] = a
                   /\ \E s : q = BindingRow(a, s)
<1>0. PICK c : c = CallOf("deleteAccount", DeleteAccountLocks(a))
  OBVIOUS
<1>1. c.kind = "deleteAccount" /\ c.locks = DeleteAccountLocks(a)
  BY <1>0 DEF CallOf
<1>2. ASSUME NEW l \in c.locks, NEW q \in l.rows PROVE P(l, q)
  <2>1. CASE l \in One(1, AccountRow(a), "U")
    BY <2>1 DEF One, Req, AccountRow
  <2>2. CASE l \in Some(2, BindingsOf(a), "U")
    BY <2>2 DEF Some, Req, BindingsOf, BindingRow
  <2> QED
    BY <1>1, <2>1, <2>2
    DEF DeleteAccountLocks
<1>3. Req(1, {AccountRow(a)}, "U", "must") \in c.locks
  BY <1>1 DEF DeleteAccountLocks, One
<1>4. Ordered(c)
  <2> SUFFICES ASSUME NEW l \in c.locks, NEW m \in c.locks, l # m, l.step <= m.step, Waits(m),
                      NEW p \in l.rows, NEW q \in m.rows
               PROVE  After("deleteAccount", p[1], q[1])
    BY <1>1 DEF Ordered
  <2>1. P(l, p) /\ P(m, q)
    BY <1>2
  <2> QED
    BY <2>1 DEF After
<1>5. Owned(c)
  BY <1>2, <1>3 DEF Owned, HasFirst, Req, Must
<1>6. Covered(c) /\ Moded(c) /\ OneAccount(c) /\ OneSim(c)
  BY <1>1, <1>2 DEF Covered, DeviceKinds, Moded, OneAccount, OneSim
<1> QED
  BY <1>0, <1>4, <1>5, <1>6 DEF Shape

LEMMA CallShape ==
    ASSUME NEW c \in Calls
    PROVE  Shape(c)
<1>1. CASE c \in ChatCalls
  BY <1>1, CreateShape, ReplyShape, StatusShape, InboundShape, MergeShape, ReadShape, BatchShape,
     RefusedShape DEF ChatCalls
<1>2. CASE c \in DeviceCalls
  BY <1>2, PullShape, UpdateShape, ReceiveShape DEF DeviceCalls
<1>3. CASE c \in Saves
  BY <1>3, ScreenShape, ContactShape, DeleteSimShape, EnableSimShape, DisableSimShape,
     UnregisterShape, SaveAccountShape, SaveGoneShape, DeleteAccountShape DEF Saves
<1> QED
  BY <1>1, <1>2, <1>3 DEF Calls

-----------------------------------------------------------------------------
(* Granted locks *)

Requests == UNION {c.locks : c \in Calls}

TypeOK ==
    /\ call \in [Workers -> Calls \union {Idle}]
    /\ held \in [Workers -> SUBSET Requests]
    /\ asks \in [Workers -> SUBSET Requests]

OwnRequests == \A w \in Workers :
    held[w] \subseteq call[w].locks /\ asks[w] \subseteq call[w].locks \ held[w]

\* A request that waits is none that skips, and comes after what is granted.
InStep == \A w \in Workers : \A l \in asks[w] :
    Waits(l) /\ \A m \in held[w] : m.step <= l.step

\* What comes before a request of a call, and is not made at will, is granted.
Complete == \A w \in Workers : \A l \in held[w] \union asks[w] : \A m \in call[w].locks :
    Must(m) /\ m.step < l.step => m \in held[w]

Exclusive == \A w, v \in Workers : w # v => \A l \in held[w], m \in held[v] :
    l.rows \cap m.rows # {} => ~Conflict(l.mode, m.mode)

LockInv == TypeOK /\ OwnRequests /\ InStep /\ Complete /\ Exclusive

LEMMA InitLocks == Init => LockInv
  BY DEF Init, LockInv, TypeOK, OwnRequests, InStep, Complete, Exclusive, Idle, CallOf

LEMMA BeginKeeps ==
    ASSUME LockInv, NEW w \in Workers, NEW c \in Calls, Begin(w, c)
    PROVE  LockInv'
<1>1. held[w] = {} /\ asks[w] = {}
  BY DEF Begin, Running, Idle, CallOf, LockInv, OwnRequests, TypeOK
<1>2. /\ call' = [call EXCEPT ![w] = c] /\ held' = held /\ asks' = asks
      /\ call' \in [Workers -> Calls \union {Idle}]
  BY DEF Begin, LockInv, TypeOK
<1> QED
  BY <1>1, <1>2 DEF LockInv, TypeOK, OwnRequests, InStep, Complete, Exclusive

LEMMA TakeKeeps ==
    ASSUME LockInv, NEW w \in Workers, NEW l \in Due(w), Take(w, l)
    PROVE  LockInv'
<1>1. /\ asks[w] = {} /\ InTheWay(w, l) = {} /\ call' = call /\ asks' = asks
      /\ held' = [held EXCEPT ![w] = @ \union {l}]
  BY DEF Take
<1>2. /\ l \in call[w].locks /\ l \notin held[w]
      /\ \A m \in call[w].locks : Must(m) /\ m.step < l.step => m \in held[w]
  BY DEF Due
<1>3. l \in Requests
  BY <1>2 DEF LockInv, TypeOK, Requests, Idle, CallOf
<1>4. held' \in [Workers -> SUBSET Requests]
  BY <1>1, <1>3 DEF LockInv, TypeOK
<1>5. held'[w] = held[w] \union {l} /\ \A v \in Workers \ {w} : held'[v] = held[v]
  BY <1>1 DEF LockInv, TypeOK
<1>6. \A v \in Workers \ {w} : \A m \in held[v] :
        m.rows \cap l.rows # {} => ~Conflict(m.mode, l.mode)
  BY <1>1 DEF InTheWay
<1>7. TypeOK' /\ OwnRequests' /\ InStep'
  BY <1>1, <1>2, <1>4, <1>5 DEF LockInv, TypeOK, OwnRequests, InStep
<1>8. Complete'
  BY <1>1, <1>2, <1>5 DEF LockInv, Complete
<1>9. Exclusive'
  BY <1>5, <1>6 DEF LockInv, Exclusive, Conflict
<1> QED
  BY <1>7, <1>8, <1>9 DEF LockInv

LEMMA WaitKeeps ==
    ASSUME LockInv, NEW w \in Workers, NEW l \in Due(w), Wait(w, l)
    PROVE  LockInv'
<1>1. /\ asks[w] = {} /\ Waits(l) /\ call' = call /\ held' = held
      /\ asks' = [asks EXCEPT ![w] = {l}]
  BY DEF Wait
<1>2. /\ l \in call[w].locks /\ l \notin held[w] /\ \A m \in held[w] : m.step <= l.step
      /\ \A m \in call[w].locks : Must(m) /\ m.step < l.step => m \in held[w]
  BY DEF Due
<1>3. l \in Requests
  BY <1>2 DEF LockInv, TypeOK, Requests, Idle, CallOf
<1>4. asks' \in [Workers -> SUBSET Requests]
  BY <1>1, <1>3 DEF LockInv, TypeOK
<1>5. asks'[w] = {l} /\ \A v \in Workers \ {w} : asks'[v] = asks[v]
  BY <1>1 DEF LockInv, TypeOK
<1>6. TypeOK' /\ OwnRequests' /\ InStep'
  BY <1>1, <1>2, <1>4, <1>5 DEF LockInv, TypeOK, OwnRequests, InStep
<1>7. Complete' /\ Exclusive'
  BY <1>1, <1>2, <1>5 DEF LockInv, Complete, Exclusive
<1> QED
  BY <1>6, <1>7 DEF LockInv

LEMMA GrantKeeps ==
    ASSUME LockInv, NEW w \in Workers, Grant(w)
    PROVE  LockInv'
<1>1. /\ WaitsFor(w) = {} /\ call' = call
      /\ held' = [held EXCEPT ![w] = @ \union asks[w]] /\ asks' = [asks EXCEPT ![w] = {}]
  BY DEF Grant
<1>2. held' \in [Workers -> SUBSET Requests] /\ asks' \in [Workers -> SUBSET Requests]
  BY <1>1 DEF LockInv, TypeOK
<1>3. /\ held'[w] = held[w] \union asks[w] /\ asks'[w] = {}
      /\ \A v \in Workers \ {w} : held'[v] = held[v] /\ asks'[v] = asks[v]
  BY <1>1 DEF LockInv, TypeOK
<1>4. \A l \in asks[w] : \A v \in Workers \ {w} : \A m \in held[v] :
        m.rows \cap l.rows # {} => ~Conflict(m.mode, l.mode)
  BY <1>1 DEF WaitsFor, InTheWay
<1>5. TypeOK' /\ OwnRequests' /\ InStep'
  BY <1>1, <1>2, <1>3 DEF LockInv, TypeOK, OwnRequests, InStep
<1>6. Complete'
  BY <1>1, <1>3 DEF LockInv, Complete
<1>7. Exclusive'
  BY <1>3, <1>4 DEF LockInv, Exclusive, Conflict
<1> QED
  BY <1>5, <1>6, <1>7 DEF LockInv

LEMMA StopKeeps ==
    ASSUME LockInv, NEW w \in Workers, Stop(w)
    PROVE  LockInv'
<1>1. /\ call' = [call EXCEPT ![w] = Idle]
      /\ held' = [held EXCEPT ![w] = {}] /\ asks' = [asks EXCEPT ![w] = {}]
  BY DEF Stop
<1>2. TypeOK'
  BY <1>1 DEF LockInv, TypeOK
<1>3. /\ held'[w] = {} /\ asks'[w] = {}
      /\ \A v \in Workers \ {w} : call'[v] = call[v] /\ held'[v] = held[v] /\ asks'[v] = asks[v]
  BY <1>1 DEF LockInv, TypeOK
<1> QED
  BY <1>2, <1>3 DEF LockInv, OwnRequests, InStep, Complete, Exclusive

\* LockInv: the locks that are granted at a time are compatible, and each call
\* has what it must have before what it has or waits for.
THEOREM Granted == Spec => []LockInv
<1>1. LockInv /\ [Next]_vars => LockInv'
  <2> SUFFICES ASSUME LockInv, [Next]_vars PROVE LockInv'
    OBVIOUS
  <2>1. CASE Next
    <3>1. PICK w \in Workers :
            \/ \E c \in Calls : Begin(w, c)
            \/ \E l \in Due(w) : Take(w, l) \/ Wait(w, l)
            \/ Grant(w) \/ Stop(w)
      BY <2>1 DEF Next, End, Abort
    <3> QED
      BY <3>1, BeginKeeps, TakeKeeps, WaitKeeps, GrantKeeps, StopKeeps
  <2>2. CASE UNCHANGED vars
    BY <2>2 DEF vars, LockInv, TypeOK, OwnRequests, InStep, Complete, Exclusive
  <2> QED
    BY <2>1, <2>2
<1> QED
  BY <1>1, InitLocks, PTL DEF Spec

-----------------------------------------------------------------------------
(* Rows held and asked for *)

Held(w, p)      == \E l \in held[w] : p \in l.rows
Asked(w, q)     == \E l \in asks[w] : q \in l.rows
Concerned(w, p) == Held(w, p) \/ Asked(w, p)

\* w waits for v at row q.
Meet(w, v, q) == \E l \in asks[w], m \in held[v] :
    q \in l.rows /\ q \in m.rows /\ Conflict(m.mode, l.mode)

LEMMA MeetRows ==
    ASSUME NEW w, NEW v, NEW q, Meet(w, v, q)
    PROVE  Asked(w, q) /\ Held(v, q)
  BY DEF Meet, Asked, Held

LEMMA Edge ==
    ASSUME NEW w \in Workers, NEW v \in WaitsFor(w)
    PROVE  v \in Workers \ {w} /\ \E q : Meet(w, v, q)
  BY DEF WaitsFor, InTheWay, Meet

LEMMA Busy ==
    ASSUME LockInv, NEW w \in Workers, NEW p, Concerned(w, p)
    PROVE  call[w] \in Calls
<1>1. call[w].locks # {}
  BY DEF Concerned, Held, Asked, LockInv, OwnRequests
<1> QED
  BY <1>1 DEF LockInv, TypeOK, Idle, CallOf

LEMMA HeldThenAsked ==
    ASSUME LockInv, NEW w \in Workers, NEW p, NEW q, Held(w, p), Asked(w, q)
    PROVE  After(Kind(w), p[1], q[1])
<1>1. PICK l \in held[w] : p \in l.rows
  BY DEF Held
<1>2. PICK m \in asks[w] : q \in m.rows
  BY DEF Asked
<1>3. l \in call[w].locks /\ m \in call[w].locks /\ l # m
  BY DEF LockInv, OwnRequests
<1>4. Waits(m) /\ l.step <= m.step
  BY DEF LockInv, InStep
<1>5. Ordered(call[w])
  BY Busy, CallShape DEF Shape, Concerned
<1> QED
  BY <1>1, <1>2, <1>3, <1>4, <1>5 DEF Ordered, Kind

\* What a call has before a row it is concerned with.
LEMMA FirstHeld ==
    ASSUME LockInv, NEW w \in Workers, NEW l \in held[w] \union asks[w], NEW row,
           HasFirst(call[w], l, row)
    PROVE  \E m \in held[w] : row \in m.rows /\ m.mode \in {"U", "N"}
<1>1. PICK m \in call[w].locks :
        /\ row \in m.rows /\ m.mode \in {"U", "N"}
        /\ (m = l /\ ~Waits(l)) \/ (Must(m) /\ m.step < l.step)
  BY DEF HasFirst
<1>2. m \in held[w]
  BY <1>1 DEF LockInv, InStep, Complete
<1> QED
  BY <1>1, <1>2

LEMMA DeviceHeld ==
    ASSUME LockInv, NEW w \in Workers, NEW p, Concerned(w, p), p[1] \in Bound,
           Kind(w) \in DeviceKinds
    PROVE  \E m \in held[w] : DeviceRow(DeviceOf[p[2]]) \in m.rows /\ m.mode \in {"U", "N"}
<1>1. PICK l \in held[w] \union asks[w] : p \in l.rows
  BY DEF Concerned, Held, Asked
<1>2. l \in call[w].locks
  BY DEF LockInv, OwnRequests
<1>3. Covered(call[w])
  BY Busy, CallShape DEF Shape
<1>4. HasFirst(call[w], l, DeviceRow(DeviceOf[p[2]]))
  BY <1>1, <1>2, <1>3 DEF Covered, Kind
<1> QED
  BY <1>4, FirstHeld

LEMMA AccountHeld ==
    ASSUME LockInv, NEW w \in Workers, NEW p, Concerned(w, p), p[1] = "binding",
           Kind(w) \in OwnerKinds
    PROVE  \E m \in held[w] : AccountRow(p[2]) \in m.rows /\ m.mode \in {"U", "N"}
<1>1. PICK l \in held[w] \union asks[w] : p \in l.rows
  BY DEF Concerned, Held, Asked
<1>2. l \in call[w].locks
  BY DEF LockInv, OwnRequests
<1>3. Owned(call[w])
  BY Busy, CallShape DEF Shape
<1>4. HasFirst(call[w], l, AccountRow(p[2]))
  BY <1>1, <1>2, <1>3 DEF Owned, Kind
<1> QED
  BY <1>4, FirstHeld

\* Two calls do not both have one row to themselves,
LEMMA RowClash ==
    ASSUME LockInv, NEW w \in Workers, NEW v \in Workers \ {w}, NEW row,
           NEW l \in held[w], row \in l.rows, l.mode \in {"U", "N"},
           NEW m \in held[v], row \in m.rows, m.mode \in {"U", "N"}
    PROVE  FALSE
  BY DEF LockInv, Exclusive, Conflict

\* so no two that lock the device first are concerned with a row of one device,
LEMMA DeviceClash ==
    ASSUME LockInv, NEW w \in Workers, NEW v \in Workers \ {w}, NEW p,
           Concerned(w, p), Concerned(v, p), p[1] \in Bound
    PROVE  ~(Kind(w) \in DeviceKinds /\ Kind(v) \in DeviceKinds)
  BY DeviceHeld, RowClash

\* and no two that lock an account first with a binding of one account.
LEMMA AccountClash ==
    ASSUME LockInv, NEW w \in Workers, NEW v \in Workers \ {w}, NEW p,
           Concerned(w, p), Concerned(v, p), p[1] = "binding"
    PROVE  ~(Kind(w) \in OwnerKinds /\ Kind(v) \in OwnerKinds)
  BY AccountHeld, RowClash

\* A reference and an update do not wait for each other.
Refers  == {"saveAccount", "saveGone"}
Updates == {"disableSim", "batch"}

LEMMA NoWait ==
    ASSUME LockInv, NEW w \in Workers, NEW v \in Workers, NEW q, Meet(w, v, q)
    PROVE  /\ q[1] = "sim" => ~(Kind(w) \in Refers /\ Kind(v) \in Refers \union Updates)
                              /\ ~(Kind(w) \in Updates /\ Kind(v) \in Refers)
           /\ q[1] = "account" => ~(Kind(w) = "saveGone" /\ Kind(v) = "disableSim")
                                  /\ ~(Kind(w) = "disableSim" /\ Kind(v) = "saveGone")
<1>1. PICK l \in asks[w], m \in held[v] :
        q \in l.rows /\ q \in m.rows /\ Conflict(m.mode, l.mode)
  BY DEF Meet
<1>2. l \in call[w].locks /\ m \in call[v].locks
  BY DEF LockInv, OwnRequests
<1>3. Moded(call[w]) /\ Moded(call[v])
  BY MeetRows, Busy, CallShape DEF Shape, Concerned
<1> QED
  BY <1>1, <1>2, <1>3 DEF Moded, Kind, Conflict, Refers, Updates

\* The bindings of one account and those of one SIM have one in common.
LEMMA BindingCross ==
    ASSUME LockInv, NEW w \in Workers, NEW v \in Workers \ {w}, NEW p, NEW q,
           Held(w, p), Asked(v, p), Asked(w, q), Held(v, q),
           p[1] = "binding", q[1] = "binding"
    PROVE  ~(Kind(w) \in {"saveGone", "deleteAccount"} /\ Kind(v) \in {"disableSim", "deleteSim"})
<1> SUFFICES ASSUME Kind(w) \in {"saveGone", "deleteAccount"},
                    Kind(v) \in {"disableSim", "deleteSim"}
             PROVE  FALSE
  OBVIOUS
<1>1. PICK l \in held[w], ll \in asks[w] : p \in l.rows /\ q \in ll.rows
  BY DEF Held, Asked
<1>2. PICK m \in held[v], mm \in asks[v] : q \in m.rows /\ p \in mm.rows
  BY DEF Held, Asked
<1>3. {l, ll} \subseteq call[w].locks /\ {m, mm} \subseteq call[v].locks
  BY DEF LockInv, OwnRequests
<1>4. Shape(call[w]) /\ Shape(call[v])
  BY Busy, CallShape DEF Concerned
<1>5. PICK a : (\E s : p = BindingRow(a, s)) /\ (\E s : q = BindingRow(a, s))
  BY <1>1, <1>3, <1>4 DEF Shape, OneAccount, Kind
<1>6. PICK s : (\E b : p = BindingRow(b, s)) /\ (\E b : q = BindingRow(b, s))
  BY <1>2, <1>3, <1>4 DEF Shape, OneSim, Kind
<1>7. p = BindingRow(a, s) /\ q = BindingRow(a, s)
  BY <1>5, <1>6 DEF BindingRow
<1>8. l.mode = "U" /\ m.mode = "U"
  BY <1>1, <1>2, <1>3, <1>4 DEF Shape, Moded
<1> QED
  BY <1>1, <1>2, <1>7, <1>8, RowClash

-----------------------------------------------------------------------------
(* Circles of two *)

\* The pairs of Circles, each one way round.
Listed(k, l) ==
    \/ k \in Checking /\ l \in Checking
    \/ k \in Dropping /\ l \in Dropping
    \/ k = "reply" /\ l \in {"create", "inbound", "merge", "status", "batch", "deleteSim",
                             "unregister"}
    \/ k = "deleteSim" /\ l \in {"inbound", "merge", "status", "batch"}
    \/ k = "saveAccount" /\ l \in Dropping \union {"update", "saveGone"}
    \/ k = "saveGone" /\ l \in {"saveGone", "deleteSim", "unregister", "update", "deleteAccount"}
    \/ k = "deleteAccount" /\ l \in {"disableSim", "unregister"}

LEMMA ListedCircle ==
    ASSUME NEW k, NEW l, Listed(k, l) \/ Listed(l, k)
    PROVE  {k, l} \in Circles
<1>1. ASSUME NEW x, NEW y, Listed(x, y) PROVE {x, y} \in Circles
  <2>1. CASE x \in Checking /\ y \in Checking
    BY <2>1 DEF Circles
  <2>2. CASE x \in Dropping /\ y \in Dropping
    BY <2>2 DEF Circles
  <2>3. CASE x = "reply"
    BY <1>1, <2>3 DEF Listed, Circles, Checking, Dropping
  <2>4. CASE x = "deleteSim" /\ y \notin Dropping
    BY <1>1, <2>4 DEF Listed, Circles, Checking
  <2>5. CASE x = "saveAccount"
    BY <1>1, <2>5 DEF Listed, Circles, Checking, Dropping
  <2>6. CASE x = "saveGone"
    BY <1>1, <2>6 DEF Listed, Circles, Checking, Dropping
  <2>7. CASE x = "deleteAccount"
    BY <1>1, <2>7 DEF Listed, Circles, Checking, Dropping
  <2> QED
    BY <1>1, <2>1, <2>2, <2>3, <2>4, <2>5, <2>6, <2>7 DEF Listed, Dropping
<1>2. {k, l} = {l, k}
  OBVIOUS
<1> QED
  BY <1>1, <1>2

\* Two calls that lock rows of two types in opposite orders, and are not kept
\* from it by the rows they have or the modes they ask for.
Free(k, l, t) ==
    /\ t \in Bound => ~(k \in DeviceKinds /\ l \in DeviceKinds)
    /\ t = "binding" => ~(k \in OwnerKinds /\ l \in OwnerKinds)
    /\ t = "sim" => ~(k \in Refers /\ l \in Refers \union Updates)
                    /\ ~(k \in Updates /\ l \in Refers)
    /\ t = "account" => ~(k = "saveGone" /\ l = "disableSim")
                        /\ ~(k = "disableSim" /\ l = "saveGone")

Crossed(k, l) == k \in {"saveGone", "deleteAccount"} /\ l \in {"disableSim", "deleteSim"}

LEMMA OppositeOrders ==
    ASSUME NEW k, NEW l, NEW t, NEW u, After(k, t, u), After(l, u, t), Free(k, l, t), Free(k, l, u),
           t = "binding" /\ u = "binding" => ~Crossed(k, l) /\ ~Crossed(l, k)
    PROVE  Listed(k, l) \/ Listed(l, k)
<1>1. CASE t = "device"
  BY <1>1 DEF After, Listed, Forgotten, Checking
<1>2. CASE t = "sim"
  BY <1>2 DEF After, Listed, Free, Bound, DeviceKinds, Refers, Updates, Forgotten, Dropping
<1>3. CASE t = "contact"
  BY <1>3 DEF After, Listed, Free, Bound, DeviceKinds, Forgotten, Checking
<1>4. CASE t = "conversation"
  BY <1>4 DEF After, Listed, Free, Bound, DeviceKinds, Forgotten, Dropping, Checking
<1>5. CASE t = "message"
  BY <1>5 DEF After, Listed, Free, Bound, DeviceKinds, Forgotten, Dropping, Checking
<1>6. CASE t = "check"
  BY <1>6 DEF After, Listed, Forgotten, Checking
<1>7. CASE t = "account"
  BY <1>7 DEF After, Listed, Free, OwnerKinds, Refers, Updates, Forgotten, Dropping
<1>8. CASE t = "binding"
  BY <1>8 DEF After, Listed, Free, OwnerKinds, Refers, Updates, Crossed, Forgotten, Dropping
<1> QED
  BY <1>1, <1>2, <1>3, <1>4, <1>5, <1>6, <1>7, <1>8 DEF After, Forgotten

LEMMA CirclesOfTwo ==
    ASSUME LockInv, NEW w \in Workers, NEW v \in Workers,
           v \in WaitsFor(w), w \in WaitsFor(v)
    PROVE  {Kind(w), Kind(v)} \in Circles
<1>1. v \in Workers \ {w} /\ w \in Workers \ {v}
  BY Edge
<1>2. PICK q : Meet(w, v, q) /\ Asked(w, q) /\ Held(v, q)
  BY Edge, MeetRows
<1>3. PICK p : Meet(v, w, p) /\ Asked(v, p) /\ Held(w, p)
  BY Edge, MeetRows
<1>4. After(Kind(w), p[1], q[1]) /\ After(Kind(v), q[1], p[1])
  BY <1>2, <1>3, HeldThenAsked
<1>5. Free(Kind(w), Kind(v), q[1])
  BY <1>1, <1>2, DeviceClash, AccountClash, NoWait DEF Free, Concerned
<1>6. Free(Kind(w), Kind(v), p[1])
  <2>1. /\ p[1] \in Bound => ~(Kind(w) \in DeviceKinds /\ Kind(v) \in DeviceKinds)
        /\ p[1] = "binding" => ~(Kind(w) \in OwnerKinds /\ Kind(v) \in OwnerKinds)
    BY <1>1, <1>3, DeviceClash, AccountClash DEF Concerned
  <2>2. /\ p[1] = "sim" => ~(Kind(v) \in Refers /\ Kind(w) \in Refers \union Updates)
                           /\ ~(Kind(v) \in Updates /\ Kind(w) \in Refers)
        /\ p[1] = "account" => ~(Kind(v) = "saveGone" /\ Kind(w) = "disableSim")
                               /\ ~(Kind(v) = "disableSim" /\ Kind(w) = "saveGone")
    BY <1>3, NoWait
  <2> QED
    BY <2>1, <2>2 DEF Free
<1>7. p[1] = "binding" /\ q[1] = "binding" =>
        ~Crossed(Kind(w), Kind(v)) /\ ~Crossed(Kind(v), Kind(w))
  BY <1>1, <1>2, <1>3, BindingCross DEF Crossed
<1> QED
  BY <1>4, <1>5, <1>6, <1>7, OppositeOrders, ListedCircle

\* CirclesAreKnown: two transactions of the two services that wait for each other
\* are a pair that is listed, whatever else runs.
THEOREM TwoInACircle == Spec => []CirclesAreKnown
<1>1. LockInv => CirclesAreKnown
  BY CirclesOfTwo DEF CirclesAreKnown
<1> QED
  BY <1>1, Granted, PTL

-----------------------------------------------------------------------------
(* Circles of any length *)

LEMMA AwaitsIsClosed ==
    ASSUME NEW w \in Workers
    PROVE  /\ Awaits(w) \subseteq Workers /\ WaitsFor(w) \subseteq Awaits(w)
           /\ \A v \in Awaits(w) : WaitsFor(v) \subseteq Awaits(w)
<1>1. \A v \in Workers : WaitsFor(v) \subseteq Workers
  BY DEF WaitsFor, InTheWay
<1> QED
  BY <1>1 DEF Awaits

LEMMA AwaitsIsLeast ==
    ASSUME NEW w \in Workers, NEW S \in SUBSET Workers,
           WaitsFor(w) \subseteq S, \A v \in S : WaitsFor(v) \subseteq S
    PROVE  Awaits(w) \subseteq S
  BY DEF Awaits

LEMMA AwaitsIsTransitive ==
    ASSUME NEW w \in Workers, NEW v \in Awaits(w)
    PROVE  Awaits(v) \subseteq Awaits(w)
<1>1. v \in Workers /\ Awaits(w) \in SUBSET Workers
  BY AwaitsIsClosed
<1>2. WaitsFor(v) \subseteq Awaits(w) /\ \A x \in Awaits(w) : WaitsFor(x) \subseteq Awaits(w)
  BY AwaitsIsClosed
<1> QED
  BY <1>1, <1>2, AwaitsIsLeast

\* Those in a circle with w
Circle(w) == {m \in Awaits(w) : w \in Awaits(m)}

\* Each waits for one of them
LEMMA Successor ==
    ASSUME NEW w \in Workers, InCircle(w), NEW m \in Circle(w)
    PROVE  \E v \in Circle(w) : v \in WaitsFor(m)
<1>1. w \in Awaits(w) /\ m \in Workers /\ m \in Awaits(w) /\ w \in Awaits(m)
  BY AwaitsIsClosed DEF InCircle, Circle
<1>2. PICK S : S = {x \in Workers : \E v \in WaitsFor(m) : x = v \/ x \in Awaits(v)}
  OBVIOUS
<1>3. \A v \in WaitsFor(m) : v \in Workers
  BY <1>1, AwaitsIsClosed
<1>4. WaitsFor(m) \subseteq S
  BY <1>2, <1>3
<1>5. \A x \in S : WaitsFor(x) \subseteq S
  <2> SUFFICES ASSUME NEW x \in S, NEW y \in WaitsFor(x) PROVE y \in S
    OBVIOUS
  <2>1. PICK v \in WaitsFor(m) : x = v \/ x \in Awaits(v)
    BY <1>2
  <2>2. v \in Workers /\ x \in Workers
    BY <1>2, <1>3
  <2>3. y \in Awaits(v) /\ y \in Workers
    BY <2>1, <2>2, AwaitsIsClosed
  <2> QED
    BY <1>2, <2>1, <2>3
<1>6. Awaits(m) \subseteq S
  <2>1. S \in SUBSET Workers
    BY <1>2
  <2> QED
    BY <1>1, <1>4, <1>5, <2>1, AwaitsIsLeast
<1>7. PICK v \in WaitsFor(m) : w = v \/ w \in Awaits(v)
  BY <1>1, <1>2, <1>6
<1>8. v \in Awaits(w) /\ w \in Awaits(v)
  BY <1>1, <1>7, AwaitsIsClosed
<1> QED
  BY <1>7, <1>8 DEF Circle

\* and is waited for by one of them.
LEMMA Predecessor ==
    ASSUME NEW w \in Workers, InCircle(w), NEW m \in Circle(w)
    PROVE  \E u \in Circle(w) : m \in WaitsFor(u)
<1>1. w \in Awaits(w) /\ m \in Workers /\ m \in Awaits(w) /\ w \in Awaits(m)
  BY AwaitsIsClosed DEF InCircle, Circle
<1>2. PICK S : S = {x \in Awaits(w) : \E u \in Awaits(w) : x \in WaitsFor(u)}
  OBVIOUS
<1>3. S \in SUBSET Workers /\ WaitsFor(w) \subseteq S /\ \A x \in S : WaitsFor(x) \subseteq S
  BY <1>1, <1>2, AwaitsIsClosed
<1>4. m \in S
  BY <1>1, <1>3, AwaitsIsLeast
<1>5. PICK u \in Awaits(w) : m \in WaitsFor(u)
  BY <1>2, <1>4
<1>6. u \in Workers
  BY AwaitsIsClosed
<1>7. w \in Awaits(u)
  <2>1. m \in Awaits(u)
    BY <1>5, <1>6, AwaitsIsClosed
  <2> QED
    BY <1>1, <1>6, <2>1, AwaitsIsTransitive
<1> QED
  BY <1>5, <1>7 DEF Circle

\* A harmless call between two others of a circle asks for no check, holding
\* what another asks for that asks for no check either.
LEMMA HarmlessAsks ==
    ASSUME NEW k \in Harmless, NEW t, NEW u, After(k, t, u), u # "check"
    PROVE  u \in Bound \union {"contact", "binding"}
  BY DEF After, Harmless, Bound

LEMMA HarmlessOrder ==
    ASSUME NEW k \in Harmless, NEW t \in Bound \union {"contact", "binding"}, NEW u,
           After(k, t, u), u # "check"
    PROVE  /\ t = "contact" => u # "contact"
           /\ u \in Bound \/ t \in Bound => k \in DeviceKinds
           /\ u = "binding" \/ t = "binding" => k = "deleteAccount"
  BY DEF After, Harmless, Bound, DeviceKinds

LEMMA HarmlessMember ==
    ASSUME LockInv, NEW w \in Workers, InCircle(w),
           \A m \in Circle(w) : Kind(m) \in Harmless /\ ~AsksForCheck(m),
           NEW m \in Circle(w)
    PROVE  /\ m \in Workers
           /\ \A q : Asked(m, q) => q[1] \in Bound \union {"contact", "binding"}
<1>1. m \in Workers
  BY AwaitsIsClosed DEF Circle
<1>2. PICK u \in Circle(w) : m \in WaitsFor(u)
  BY Predecessor
<1>3. u \in Workers
  BY AwaitsIsClosed DEF Circle
<1>4. PICK p : Held(m, p)
  BY <1>2, <1>3, Edge, MeetRows
<1>5. ASSUME NEW q, Asked(m, q)
      PROVE  q[1] \in Bound \union {"contact", "binding"}
  <2>1. After(Kind(m), p[1], q[1])
    BY <1>1, <1>4, <1>5, HeldThenAsked
  <2>2. PICK l \in asks[m] : q \in l.rows
    BY <1>5 DEF Asked
  <2>3. Moded(call[m]) /\ l \in call[m].locks
    BY <1>1, <1>5, <2>2, Busy, CallShape DEF Shape, Concerned, LockInv, OwnRequests
  <2>4. q[1] # "check"
    BY <2>2, <2>3 DEF Moded, AsksForCheck
  <2> QED
    BY <2>1, <2>4, HarmlessAsks
<1> QED
  BY <1>1, <1>5

\* Two neighbours meet at a contact: they would have met at the device, or at
\* the account.
LEMMA NeighboursMeetAtContact ==
    ASSUME LockInv, NEW w \in Workers, InCircle(w),
           \A m \in Circle(w) : Kind(m) \in Harmless /\ ~AsksForCheck(m),
           NEW u \in Circle(w), NEW m \in Circle(w), m \in WaitsFor(u),
           NEW p, Meet(u, m, p)
    PROVE  p[1] = "contact"
<1>1. PICK t \in Circle(w) : u \in WaitsFor(t)
  BY Predecessor
<1>2. PICK v \in Circle(w) : v \in WaitsFor(m)
  BY Successor
<1>3. t \in Workers /\ u \in Workers /\ m \in Workers /\ m \in Workers \ {u}
  BY HarmlessMember, Edge
<1>4. PICK o : Asked(t, o) /\ Held(u, o)
  BY <1>1, <1>3, Edge, MeetRows
<1>5. PICK q : Asked(m, q)
  BY <1>2, <1>3, Edge, MeetRows
<1>6. Asked(u, p) /\ Held(m, p)
  BY MeetRows
<1>7. {o[1], p[1], q[1]} \subseteq Bound \union {"contact", "binding"}
  BY <1>4, <1>5, <1>6, HarmlessMember
<1>8. After(Kind(u), o[1], p[1]) /\ After(Kind(m), p[1], q[1])
  BY <1>3, <1>4, <1>5, <1>6, HeldThenAsked
<1>9. p[1] # "check" /\ q[1] # "check"
  BY <1>7 DEF Bound
<1>10. /\ p[1] \in Bound => Kind(u) \in DeviceKinds /\ Kind(m) \in DeviceKinds
       /\ p[1] = "binding" => Kind(u) \in OwnerKinds /\ Kind(m) \in OwnerKinds
  <2>1. /\ p[1] \in Bound => Kind(u) \in DeviceKinds
        /\ p[1] = "binding" => Kind(u) = "deleteAccount"
    BY <1>7, <1>8, <1>9, HarmlessOrder
  <2>2. /\ p[1] \in Bound => Kind(m) \in DeviceKinds
        /\ p[1] = "binding" => Kind(m) = "deleteAccount"
    BY <1>7, <1>8, <1>9, HarmlessOrder
  <2> QED
    BY <2>1, <2>2 DEF OwnerKinds
<1> QED
  BY <1>3, <1>6, <1>7, <1>10, DeviceClash, AccountClash DEF Concerned

LEMMA NoHarmlessCircle ==
    ASSUME LockInv, NEW w \in Workers, InCircle(w)
    PROVE  \E m \in Circle(w) : Kind(m) \notin Harmless \/ AsksForCheck(m)
<1> SUFFICES ASSUME \A m \in Circle(w) : Kind(m) \in Harmless /\ ~AsksForCheck(m) PROVE FALSE
  OBVIOUS
<1>1. w \in Circle(w)
  BY DEF Circle, InCircle
<1>2. PICK u \in Circle(w) : w \in WaitsFor(u)
  BY <1>1, Predecessor
<1>3. PICK v \in Circle(w) : v \in WaitsFor(w)
  BY <1>1, Successor
<1>4. u \in Workers
  BY HarmlessMember
<1>5. PICK p : Meet(u, w, p)
  BY <1>2, <1>4, Edge
<1>6. PICK q : Meet(w, v, q)
  BY <1>3, Edge
<1>7. p[1] = "contact" /\ q[1] = "contact"
  BY <1>1, <1>2, <1>3, <1>5, <1>6, NeighboursMeetAtContact
<1>8. After(Kind(w), p[1], q[1])
  BY <1>5, <1>6, MeetRows, HeldThenAsked
<1>9. Kind(w) \in Harmless
  BY <1>1
<1> QED
  BY <1>7, <1>8, <1>9, HarmlessOrder

\* HarmlessNeverDeadlock: in every circle of waiting transactions, of any length,
\* is a wait for a diagnostic check, or a reply, a report of two messages, a save
\* of an account or a SIM being disabled or deleted.
THEOREM HarmlessSafe == Spec => []HarmlessNeverDeadlock
<1>1. LockInv => HarmlessNeverDeadlock
  BY NoHarmlessCircle DEF HarmlessNeverDeadlock, Circle
<1> QED
  BY <1>1, Granted, PTL
=============================================================================
