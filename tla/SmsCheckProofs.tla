--------------------------- MODULE SmsCheckProofs ---------------------------
(***************************************************************************)
(* SmsCheck!IInv is an invariant, for any number of threads, devices,      *)
(* SIMs, runs and numbers; hence one run at a time, one run per key, no    *)
(* verdict on half the evidence, one hand-out per check; and verdicts are  *)
(* final.                                                                  *)
(*                                                                         *)
(* A step changes either one call and no row (CallStep), or ends a call    *)
(* and writes rows the call had locked (WriteStep), or is StartCommit,     *)
(* which also adds a run.  So what is left for each action is to show what *)
(* it puts into its call, or which rows it writes.                         *)
(***************************************************************************)
EXTENDS SmsCheck, TLAPS

USE SmsCheckAssumption DEF SmsCheckAssumption

-----------------------------------------------------------------------------
(* Records *)

LEMMA CallRecord ==
    ASSUME NEW x \in Call
    PROVE  /\ \A v \in {"idle", "waiting", "expiring", "holding"} :
                 [x EXCEPT !.pc = v] \in Call
           /\ \A v \in SUBSET Rows : [x EXCEPT !.held = v] \in Call
           /\ \A v \in SUBSET Rows : [x EXCEPT !.batch = v] \in Call
           /\ \A v \in CheckRow : [x EXCEPT !.seen = v] \in Call
           /\ \A v \in Kinds : [x EXCEPT !.kind = v] \in Call
           /\ \A v \in Nat : [x EXCEPT !.now = v] \in Call
           /\ \A v \in Devices \union {Nil} : [x EXCEPT !.dev = v] \in Call
           /\ \A v \in Rows : [x EXCEPT !.row = v] \in Call
  BY DEF Call

LEMMA CallArguments ==
    ASSUME NEW x \in Call
    PROVE  /\ \A v \in Keys : [x EXCEPT !.key = v] \in Call
           /\ \A v \in Numbers : [x EXCEPT !.target = v] \in Call
           /\ \A v \in Report : [x EXCEPT !.report = v] \in Call
           /\ \A v \in BOOLEAN : [x EXCEPT !.good = v] \in Call
  BY DEF Call

LEMMA NoCheckType == NoCheck \in CheckRow
  BY DEF NoCheck, CheckRow, CheckStatus, Status, Progress

LEMMA IdleType == Idle \in Call
  BY NoCheckType DEF Idle, Call

LEMMA EnteredType ==
    ASSUME TypeOK, NEW k \in Kinds
    PROVE  /\ Entered(k) \in Call
           /\ Entered(k).kind = k /\ Entered(k).pc = "waiting"
           /\ Entered(k).held = {} /\ Entered(k).batch = {}
  <1>0. clock \in Nat
    BY DEF TypeOK
  <1>1. PICK a \in Call : a = [Idle EXCEPT !.kind = k]
    BY IdleType, CallRecord
  <1>2. PICK b \in Call : b = [a EXCEPT !.pc = "waiting"]
    BY CallRecord
  <1>3. PICK c \in Call : c = [b EXCEPT !.now = clock]
    BY <1>0, CallRecord
  <1>4. c = Entered(k)
    BY <1>1, <1>2, <1>3 DEF Entered, Idle
  <1>5. Entered(k).kind = k /\ Entered(k).pc = "waiting"
    BY DEF Entered, Idle
  <1>6. Entered(k).held = {} /\ Entered(k).batch = {}
    BY DEF Entered, Idle
  <1>. QED
    BY <1>4, <1>5, <1>6

LEMMA CheckRecord ==
    ASSUME NEW x \in CheckRow
    PROVE  /\ \A v \in CheckStatus : [x EXCEPT !.status = v] \in CheckRow
           /\ \A v \in Status : [x EXCEPT !.transport = v] \in CheckRow
           /\ \A v \in BOOLEAN : [x EXCEPT !.pulled = v] \in CheckRow
           /\ \A v \in BOOLEAN : [x EXCEPT !.sent = v] \in CheckRow
           /\ \A v \in BOOLEAN : [x EXCEPT !.received = v] \in CheckRow
           /\ \A v \in Numbers : [x EXCEPT !.number = v] \in CheckRow
  BY DEF CheckRow

-----------------------------------------------------------------------------
(* Steps that change one call and no row *)

LEMMA CallStep ==
    ASSUME IInv, NEW t \in Threads, NEW y \in Call,
           call' = [call EXCEPT ![t] = y],
           UNCHANGED <<clock, sim, run, check, handed>>,
           Shaped(y),
           y.held \subseteq Pending,
           \A u \in Threads \ {t} : y.held \intersect call[u].held = {},
           y.kind = "start" /\ y.pc # "waiting" => LaunchFree \/ call[t].pc # "waiting",
           y.kind = "start" /\ y.pc # "waiting" => OfKey(y.key) = {},
           y.kind = "start" /\ y.pc # "waiting" => call[t].kind = "start",
           y.kind = "start" /\ y.pc = "holding" => Pending \subseteq y.held
    PROVE  IInv'
  <1> USE DEF IInv
  <1>1. TypeOK'
    BY DEF TypeOK
  <1>2. \A u \in Threads : call'[u] = IF u = t THEN y ELSE call[u]
    BY DEF TypeOK
  <1>3. CallShape'
    <2>1. \A x : Shaped(x)' <=> Shaped(x)
      BY DEF Shaped
    <2>2. SUFFICES ASSUME NEW u \in Threads PROVE Shaped(call[u])'
      BY DEF CallShape
    <2>3. PICK z : z = call'[u]
      OBVIOUS
    <2>4. Shaped(z)
      BY <1>2, <2>3 DEF CallShape
    <2>. QED
      BY <2>3, <2>4 DEF Shaped
  <1>4. Pending' = Pending /\ \A k : OfKey(k)' = OfKey(k)
    BY DEF Pending, OfKey
  <1>5. Locked'
    BY <1>2, <1>4 DEF Locked
  <1>6. OneLaunch'
    <2>1. \A u \in Starting' : u # t => u \in Starting /\ call'[u] = call[u]
      BY <1>2 DEF Starting
    <2>2. t \in Starting' => y.kind = "start"
      BY <1>2 DEF Starting
    <2>3. ASSUME NEW u \in Starting', NEW v \in Starting',
                 call'[u].pc # "waiting", call'[v].pc # "waiting"
          PROVE  u = v
      <3>1. ASSUME NEW w \in Starting, w # t, call[w].pc # "waiting",
                   y.kind = "start", y.pc # "waiting"
            PROVE  FALSE
        BY <3>1 DEF OneLaunch, LaunchFree, Starting
      <3>. QED
        BY <1>2, <2>1, <2>2, <2>3, <3>1 DEF OneLaunch, Starting
    <2>4. \A u \in Starting' : call'[u].pc = "holding" => Pending' \subseteq call'[u].held
      BY <1>2, <1>4, <2>1, <2>2 DEF OneLaunch
    <2>5. (\A u \in Starting : call[u].pc # "waiting" => OfKey(call[u].key) = {})'
      BY <1>2, <2>1, <2>2 DEF OneLaunch, OfKey
    <2>. QED
      BY <2>3, <2>4, <2>5 DEF OneLaunch
  <1>7. /\ Grounded' /\ OneRunPerKey' /\ OneRunAtATime' /\ NoHalfVerdict' /\ HandedOnce'
    BY <1>4 DEF Grounded, OneRunPerKey, OneRunAtATime, NoHalfVerdict, HandedOnce
  <1>. QED
    BY <1>1, <1>3, <1>5, <1>6, <1>7

\* A call that ends without writing.
LEMMA FinishStep ==
    ASSUME IInv, NEW t \in Threads, Finish(t), UNCHANGED <<clock, sim, run, check, handed>>
    PROVE  IInv'
  <1>1. Idle \in Call /\ Shaped(Idle) /\ Idle.held = {} /\ Idle.kind = "none"
    BY IdleType DEF Idle, Shaped
  <1>. QED
    BY <1>1, CallStep DEF Finish

-----------------------------------------------------------------------------
(* Steps that end a call and write rows nobody else has locked *)

LEMMA WriteStep ==
    ASSUME IInv, NEW t \in Threads, Finish(t),
           UNCHANGED <<clock, sim, run>>,
           check' \in [Rows -> CheckRow], handed' \in [Rows -> Nat],
           \A c \in Rows : check'[c] # check[c] =>
               /\ c \in Pending
               /\ \A u \in Threads \ {t} : c \notin call[u].held,
           \A c \in Rows : check[c].status = "PENDING" => check'[c].status # "ABSENT",
           Grounded', NoHalfVerdict', HandedOnce'
    PROVE  IInv'
  <1> USE DEF IInv
  <1>1. TypeOK'
    BY IdleType DEF TypeOK, Finish
  <1>2. \A u \in Threads : call'[u] = IF u = t THEN Idle ELSE call[u]
    BY DEF TypeOK, Finish
  <1>3. CallShape'
    <2>1. SUFFICES ASSUME NEW u \in Threads PROVE Shaped(call[u])'
      BY DEF CallShape
    <2>2. CASE u = t
      <3>1. Idle.kind = "none"
        BY DEF Idle
      <3>. QED
        BY <1>2, <2>2, <3>1 DEF Shaped
    <2>3. CASE u # t
      <3>1. \A c \in call[u].held : c \in Rows /\ check'[c] = check[c]
        BY <2>3 DEF TypeOK, Call
      <3>2. Shaped(call[u]) /\ call'[u] = call[u]
        BY <1>2, <2>3 DEF CallShape
      <3>3. PICK z : z = call[u]
        OBVIOUS
      <3>4. CASE z.kind = "none" \/ z.kind = "start" \/ z.kind = "results"
        BY <3>2, <3>3, <3>4 DEF Shaped
      <3>5. CASE z.kind = "pull"
        <4>1. \A c \in z.batch : c \in z.held /\ ~check'[c].pulled
          BY <3>1, <3>2, <3>3, <3>5 DEF Shaped
        <4>. QED
          BY <3>2, <3>3, <3>5, <4>1 DEF Shaped
      <3>6. CASE z.kind \in {"update", "receive"}
        <4>1. z.pc # "waiting" => z.seen = check'[z.row]
          BY <3>1, <3>2, <3>3, <3>6 DEF Shaped
        <4>. QED
          BY <3>2, <3>3, <3>6, <4>1 DEF Shaped
      <3>. QED
        BY <3>3, <3>4, <3>5, <3>6 DEF TypeOK, Call, Kinds
    <2>. QED
      BY <2>2, <2>3
  <1>4. Pending' \subseteq Pending
    BY DEF Pending, TypeOK
  <1>5. Locked'
    <2>1. \A u \in Threads \ {t} : call[u].held \subseteq Pending'
      BY DEF Pending, Locked, TypeOK, Call
    <2>. QED
      BY <1>2, <2>1 DEF Locked, Idle
  <1>6. OneLaunch'
    <2>1. \A u \in Starting' : u \in Starting /\ u # t /\ call'[u] = call[u]
      BY <1>2 DEF Starting, Idle
    <2>2. (\A u \in Starting : call[u].pc # "waiting" => OfKey(call[u].key) = {})'
      BY <2>1 DEF OneLaunch, OfKey
    <2>3. \A u \in Starting' : call'[u].pc = "holding" => Pending' \subseteq call'[u].held
      BY <1>4, <2>1 DEF OneLaunch
    <2>4. \A u, v \in Starting' :
              call'[u].pc # "waiting" /\ call'[v].pc # "waiting" => u = v
      BY <2>1 DEF OneLaunch
    <2>. QED
      BY <2>2, <2>3, <2>4 DEF OneLaunch
  <1>7. OneRunPerKey' /\ OneRunAtATime'
    BY <1>4 DEF OneRunPerKey, OneRunAtATime
  <1>. QED
    BY <1>1, <1>3, <1>5, <1>6, <1>7

-----------------------------------------------------------------------------
(* Calls begin *)

LEMMA StartEnters ==
    ASSUME IInv, NEW t \in Threads, NEW k \in Keys, NEW n \in Targets, StartEnter(t, k, n)
    PROVE  IInv'
  <1>1. PICK e \in Call : /\ e = Entered("start")
                          /\ e.kind = "start" /\ e.pc = "waiting" /\ e.held = {}
    BY EnteredType DEF IInv, Kinds
  <1>2. PICK x \in Call : x = [e EXCEPT !.key = k]
    BY CallArguments
  <1>3. PICK y \in Call : y = [x EXCEPT !.target = n]
    BY CallArguments DEF Numbers
  <1>4. /\ y = [Entered("start") EXCEPT !.key = k, !.target = n]
        /\ y.kind = "start" /\ y.pc = "waiting" /\ y.held = {}
        /\ y.key = k /\ y.target = n
    BY <1>1, <1>2, <1>3 DEF Call
  <1>5. Shaped(y)
    BY <1>4 DEF Shaped
  <1>. QED
    BY <1>4, <1>5, CallStep DEF StartEnter

LEMMA PullEnters ==
    ASSUME IInv, NEW t \in Threads, NEW d \in Devices, PullEnter(t, d)
    PROVE  IInv'
  <1>1. PICK e \in Call :
            /\ e = Entered("pull")
            /\ e.kind = "pull" /\ e.pc = "waiting" /\ e.held = {} /\ e.batch = {}
    BY EnteredType DEF IInv, Kinds
  <1>2. PICK y \in Call : y = [e EXCEPT !.dev = d]
    BY CallRecord
  <1>3. /\ y.kind = "pull" /\ y.pc = "waiting" /\ y.held = {} /\ y.batch = {}
        /\ y.dev = d
    BY <1>1, <1>2 DEF Call
  <1>4. Shaped(y)
    BY <1>3 DEF Shaped
  <1>. QED
    BY <1>1, <1>2, <1>3, <1>4, CallStep DEF PullEnter

LEMMA UpdateEnters ==
    ASSUME IInv, NEW t \in Threads, NEW c \in Rows, NEW p \in Reports, UpdateEnter(t, c, p)
    PROVE  IInv'
  <1>1. PICK e \in Call : /\ e = Entered("update")
                          /\ e.kind = "update" /\ e.pc = "waiting" /\ e.held = {}
    BY EnteredType DEF IInv, Kinds
  <1>2. PICK w \in Call : w = [e EXCEPT !.dev = Home[c[2]]]
    BY CallRecord DEF Rows
  <1>3. PICK x \in Call : x = [w EXCEPT !.row = c]
    BY CallRecord
  <1>4. PICK y \in Call : y = [x EXCEPT !.report = p]
    BY CallArguments
  <1>5. /\ y = [Entered("update") EXCEPT !.dev = Home[c[2]], !.row = c, !.report = p]
        /\ y.kind = "update" /\ y.pc = "waiting" /\ y.held = {}
        /\ y.row = c /\ y.report = p
    BY <1>1, <1>2, <1>3, <1>4 DEF Call
  <1>6. Shaped(y)
    BY <1>5 DEF Shaped
  <1>. QED
    BY <1>5, <1>6, CallStep DEF UpdateEnter

LEMMA ReceiveEnters ==
    ASSUME IInv, NEW t \in Threads, NEW c \in Rows, NEW d \in Devices \union {Nil},
           NEW good \in BOOLEAN, ReceiveEnter(t, c, d, good)
    PROVE  IInv'
  <1>1. PICK e \in Call : /\ e = Entered("receive")
                          /\ e.kind = "receive" /\ e.pc = "waiting" /\ e.held = {}
    BY EnteredType DEF IInv, Kinds
  <1>2. PICK w \in Call : w = [e EXCEPT !.dev = d]
    BY CallRecord
  <1>3. PICK x \in Call : x = [w EXCEPT !.row = c]
    BY CallRecord
  <1>4. PICK y \in Call : y = [x EXCEPT !.good = good]
    BY CallArguments
  <1>5. /\ y = [Entered("receive") EXCEPT !.dev = d, !.row = c, !.good = good]
        /\ y.kind = "receive" /\ y.pc = "waiting" /\ y.held = {}
        /\ y.row = c
    BY <1>1, <1>2, <1>3, <1>4 DEF Call
  <1>6. Shaped(y)
    BY <1>5 DEF Shaped
  <1>. QED
    BY <1>5, <1>6, CallStep DEF ReceiveEnter

LEMMA ResultsEnters ==
    ASSUME IInv, NEW t \in Threads, ResultsEnter(t)
    PROVE  IInv'
  <1>0. clock \in Nat
    BY DEF IInv, TypeOK
  <1>1. PICK w \in Call : w = [Idle EXCEPT !.kind = "results"]
    BY IdleType, CallRecord DEF Kinds
  <1>2. PICK x \in Call : x = [w EXCEPT !.pc = "expiring"]
    BY CallRecord
  <1>3. PICK y \in Call : y = [x EXCEPT !.now = clock]
    BY <1>0, CallRecord
  <1>4. /\ y = [Idle EXCEPT !.kind = "results", !.pc = "expiring", !.now = clock]
        /\ y.kind = "results" /\ y.pc = "expiring" /\ y.held = {}
    BY <1>1, <1>2, <1>3 DEF Idle
  <1>5. Shaped(y)
    BY <1>4 DEF Shaped
  <1>. QED
    BY <1>4, <1>5, CallStep DEF ResultsEnter

-----------------------------------------------------------------------------
(* Calls take locks *)

\* A call that has locked no row yet only moves on.
LEMMA Moves ==
    ASSUME IInv, NEW t \in Threads,
           call[t].kind \in {"start", "pull"}, call[t].pc = "waiting",
           call[t].kind = "start" => LaunchFree /\ OfKey(call[t].key) = {},
           call' = [call EXCEPT ![t].pc = "expiring"],
           UNCHANGED <<clock, sim, run, check, handed>>
    PROVE  IInv'
  <1>1. call[t] \in Call /\ Shaped(call[t])
    BY DEF IInv, TypeOK, CallShape
  <1>2. PICK y \in Call : y = [call[t] EXCEPT !.pc = "expiring"]
    BY <1>1, CallRecord
  <1>3. /\ y.kind = call[t].kind /\ y.pc = "expiring" /\ y.held = call[t].held
        /\ y.batch = call[t].batch /\ y.dev = call[t].dev
        /\ y.key = call[t].key /\ y.target = call[t].target
    BY <1>1, <1>2 DEF Call
  <1>4. y.held = {}
    BY <1>1, <1>3 DEF Shaped
  <1>5. Shaped(y)
    BY <1>1, <1>3, <1>4 DEF Shaped
  <1>6. call' = [call EXCEPT ![t] = y]
    BY <1>2
  <1>. QED
    BY <1>3, <1>4, <1>5, <1>6, CallStep

LEMMA StartLocks ==
    ASSUME IInv, NEW t \in Threads, StartLock(t)
    PROVE  IInv'
  <1>1. CASE OfKey(call[t].key) = {}
    BY <1>1, Moves DEF StartLock
  <1>2. CASE OfKey(call[t].key) # {}
    BY <1>2, FinishStep DEF StartLock
  <1>. QED
    BY <1>1, <1>2

LEMMA PullLocks ==
    ASSUME IInv, NEW t \in Threads, PullLock(t)
    PROVE  IInv'
  BY Moves DEF PullLock

\* The rows an expiry locks are pending and nobody else's.
LEMMA OverdueFree ==
    ASSUME IInv, NEW t \in Threads, MayExpire(t), NEW u \in Threads \ {t}
    PROVE  /\ Overdue(call[t].now) \subseteq Pending
           /\ Overdue(call[t].now) \subseteq Rows
           /\ Overdue(call[t].now) \intersect call[u].held = {}
  BY DEF IInv, Locked, MayExpire, Overdue, RowFree, Pending

LEMMA StartClaims ==
    ASSUME IInv, NEW t \in Threads, StartClaim(t)
    PROVE  IInv'
  <1>1. CASE StartRefused(t)
    BY <1>1, FinishStep DEF StartClaim
  <1>2. CASE ~StartRefused(t)
    <2>1. call[t] \in Call /\ Shaped(call[t])
      BY DEF IInv, TypeOK, CallShape
    <2>2. PICK H : H = Overdue(call[t].now)
      OBVIOUS
    <2>3. /\ H \subseteq Pending /\ H \subseteq Rows
          /\ \A u \in Threads \ {t} : H \intersect call[u].held = {}
      <3>1. H \subseteq Pending /\ H \subseteq Rows
        BY <2>2 DEF Overdue, Pending
      <3>. QED
        BY <2>2, <3>1, OverdueFree DEF StartClaim
    <2>4. Pending \subseteq H
      BY <1>2, <2>2 DEF StartRefused
    <2>5. PICK x \in Call : x = [call[t] EXCEPT !.pc = "holding"]
      BY <2>1, CallRecord
    <2>6. PICK y \in Call : y = [x EXCEPT !.held = H]
      BY <2>3, CallRecord
    <2>7. /\ y.kind = "start" /\ y.pc = "holding" /\ y.held = H
          /\ y.key = call[t].key /\ y.target = call[t].target
      BY <2>1, <2>5, <2>6 DEF Call, StartClaim
    <2>8. Shaped(y)
      BY <2>1, <2>7 DEF Shaped, StartClaim
    <2>9. call' = [call EXCEPT ![t] = y]
      BY <1>2, <2>2, <2>5, <2>6 DEF StartClaim
    <2>10. OfKey(y.key) = {} /\ call[t].kind = "start" /\ call[t].pc # "waiting"
      BY <2>7 DEF StartClaim, IInv, OneLaunch, Starting
    <2>. QED
      BY <2>3, <2>4, <2>7, <2>8, <2>9, <2>10, CallStep DEF StartClaim
  <1>. QED
    BY <1>1, <1>2

LEMMA PullClaims ==
    ASSUME IInv, NEW t \in Threads, PullClaim(t)
    PROVE  IInv'
  <1>1. call[t] \in Call /\ Shaped(call[t])
    BY DEF IInv, TypeOK, CallShape
  <1>2. PICK C \in SUBSET Due(call[t].dev, call[t].now) :
            call' = [call EXCEPT ![t].pc = "holding",
                                 ![t].held = C \union Overdue(call[t].now),
                                 ![t].batch = {c \in C : SameSim(c)}]
    BY DEF PullClaim
  <1>3. PICK H : H = C \union Overdue(call[t].now)
    OBVIOUS
  <1>4. PICK B : B = {c \in C : SameSim(c)}
    OBVIOUS
  <1>5. /\ H \subseteq Pending /\ H \subseteq Rows
        /\ \A u \in Threads \ {t} : H \intersect call[u].held = {}
    <2>1. /\ C \subseteq Pending /\ C \subseteq Rows
          /\ \A u \in Threads : C \intersect call[u].held = {}
      BY DEF Due, Pending, RowFree
    <2>2. Overdue(call[t].now) \subseteq Pending /\ Overdue(call[t].now) \subseteq Rows
      BY DEF Overdue, Pending
    <2>. QED
      BY <1>3, <2>1, <2>2, OverdueFree DEF PullClaim
  <1>6. B \subseteq H /\ \A c \in B : ~check[c].pulled
    BY <1>3, <1>4 DEF Due
  <1>7. PICK w \in Call : w = [call[t] EXCEPT !.pc = "holding"]
    BY <1>1, CallRecord
  <1>8. PICK x \in Call : x = [w EXCEPT !.held = H]
    BY <1>5, CallRecord
  <1>9. PICK y \in Call : y = [x EXCEPT !.batch = B]
    BY <1>5, <1>6, CallRecord
  <1>10. /\ y.kind = "pull" /\ y.pc = "holding" /\ y.held = H /\ y.batch = B
         /\ y.dev = call[t].dev
    BY <1>1, <1>7, <1>8, <1>9 DEF Call, PullClaim
  <1>11. Shaped(y)
    BY <1>1, <1>6, <1>10 DEF Shaped, PullClaim
  <1>12. call' = [call EXCEPT ![t] = y]
    BY <1>2, <1>3, <1>4, <1>7, <1>8, <1>9
  <1>. QED
    BY <1>5, <1>10, <1>11, <1>12, CallStep DEF PullClaim

\* A report or a receipt locks the check it concerns, and reads it.
LEMMA RowLocks ==
    ASSUME IInv, NEW t \in Threads,
           call[t].kind \in {"update", "receive"}, call[t].pc = "waiting",
           RowFree(call[t].row), ~Settled(check[call[t].row]),
           call[t].kind = "update" => check[call[t].row].pulled,
           NEW pc \in {"expiring", "holding"},
           call' = [call EXCEPT ![t].pc = pc, ![t].seen = check[call[t].row],
                                ![t].held = {call[t].row}],
           UNCHANGED <<clock, sim, run, check, handed>>
    PROVE  IInv'
  <1>1. call[t] \in Call /\ Shaped(call[t])
    BY DEF IInv, TypeOK, CallShape
  <1>2. call[t].row \in Rows /\ check[call[t].row] \in CheckRow
    BY <1>1 DEF Shaped, IInv, TypeOK
  <1>3. PICK w \in Call : w = [call[t] EXCEPT !.pc = pc]
    BY <1>1, CallRecord
  <1>4. PICK x \in Call : x = [w EXCEPT !.seen = check[call[t].row]]
    BY <1>2, CallRecord
  <1>5. PICK y \in Call : y = [x EXCEPT !.held = {call[t].row}]
    BY <1>2, CallRecord
  <1>6. /\ y.kind = call[t].kind /\ y.pc = pc /\ y.held = {call[t].row}
        /\ y.row = call[t].row /\ y.seen = check[call[t].row]
        /\ y.report = call[t].report
    BY <1>1, <1>3, <1>4, <1>5 DEF Call
  <1>7. Shaped(y)
    BY <1>1, <1>2, <1>6 DEF Shaped
  <1>8. y.held \subseteq Pending /\ \A u \in Threads : y.held \intersect call[u].held = {}
    BY <1>2, <1>6 DEF Settled, Pending, RowFree
  <1>9. call' = [call EXCEPT ![t] = y]
    BY <1>3, <1>4, <1>5
  <1>10. y.kind # "start"
    BY <1>6
  <1>. QED
    BY <1>7, <1>8, <1>9, <1>10, CallStep

LEMMA UpdateLocks ==
    ASSUME IInv, NEW t \in Threads, UpdateLock(t)
    PROVE  IInv'
  <1>1. CASE UpdateRefused(check[call[t].row], call[t].report) \/ Settled(check[call[t].row])
    BY <1>1, FinishStep DEF UpdateLock, Dismiss
  <1>2. CASE ~(UpdateRefused(check[call[t].row], call[t].report) \/ Settled(check[call[t].row]))
    <2>1. PICK pc \in {"expiring", "holding"} :
            call' = [call EXCEPT ![t].pc = pc, ![t].seen = check[call[t].row],
                                 ![t].held = {call[t].row}]
      BY <1>2 DEF UpdateLock
    <2>. QED
      BY <1>2, <2>1, RowLocks DEF UpdateLock, UpdateRefused
  <1>. QED
    BY <1>1, <1>2

LEMMA ReceiveLocks ==
    ASSUME IInv, NEW t \in Threads, ReceiveLock(t)
    PROVE  IInv'
  <1>1. CASE Dismiss(t)
    BY <1>1, FinishStep DEF ReceiveLock, Dismiss
  <1>2. CASE ~Dismiss(t)
    <2>1. ~Settled(check[call[t].row])
      BY <1>2 DEF ReceiveLock
    <2>2. PICK pc \in {"expiring", "holding"} :
            call' = [call EXCEPT ![t].pc = pc, ![t].seen = check[call[t].row],
                                 ![t].held = {call[t].row}]
      BY <1>2 DEF ReceiveLock
    <2>. QED
      BY <2>1, <2>2, RowLocks DEF ReceiveLock
  <1>. QED
    BY <1>1, <1>2

-----------------------------------------------------------------------------
(* Calls write and end *)

\* A row that expires: problem, evidence as it was.
LEMMA ExpiredRow ==
    ASSUME NEW r \in CheckRow
    PROVE  /\ [r EXCEPT !.status = "PROBLEM"] \in CheckRow
           /\ [r EXCEPT !.status = "PROBLEM"].status = "PROBLEM"
           /\ [r EXCEPT !.status = "PROBLEM"].pulled = r.pulled
           /\ [r EXCEPT !.status = "PROBLEM"].sent = r.sent
           /\ [r EXCEPT !.status = "PROBLEM"].received = r.received
  BY DEF CheckRow, CheckStatus

LEMMA ExpireCommits ==
    ASSUME IInv, NEW t \in Threads, ExpireCommit(t)
    PROVE  IInv'
  <1>1. PICK O : O = Overdue(call[t].now)
    OBVIOUS
  <1>2. O \subseteq Pending /\ \A u \in Threads \ {t} : O \intersect call[u].held = {}
    <2>1. O \subseteq Pending
      BY <1>1 DEF Overdue, Pending
    <2>. QED
      BY <1>1, <2>1, OverdueFree DEF ExpireCommit
  <1>3. \A c \in Rows :
            check'[c] = IF c \in O THEN [check[c] EXCEPT !.status = "PROBLEM"] ELSE check[c]
    BY <1>1 DEF ExpireCommit, Expired
  <1>4. check' \in [Rows -> CheckRow]
    BY <1>1, ExpiredRow DEF ExpireCommit, Expired, IInv, TypeOK
  <1>5. \A c \in Rows : /\ check[c] \in CheckRow
                        /\ c \in O => check'[c].status = "PROBLEM"
                        /\ check'[c].pulled = check[c].pulled
                        /\ check'[c].sent = check[c].sent
                        /\ check'[c].received = check[c].received
    <2>1. SUFFICES ASSUME NEW c \in Rows
                   PROVE  /\ check[c] \in CheckRow
                          /\ c \in O => check'[c].status = "PROBLEM"
                          /\ check'[c].pulled = check[c].pulled
                          /\ check'[c].sent = check[c].sent
                          /\ check'[c].received = check[c].received
      OBVIOUS
    <2>2. check[c] \in CheckRow
      BY DEF IInv, TypeOK
    <2>3. CASE c \in O
      BY <1>3, <2>2, <2>3, ExpiredRow
    <2>4. CASE c \notin O
      BY <1>3, <2>2, <2>4
    <2>. QED
      BY <2>2, <2>3, <2>4
  <1>6. Grounded'
    <2>1. \A c \in O : check[c].status = "PENDING"
      BY <1>2 DEF Pending
    <2>2. ASSUME NEW c \in Rows
          PROVE  /\ run[c[1]] = Nil => check'[c].status = "ABSENT"
                 /\ check'[c].status = "ABSENT" => check'[c] = NoCheck
                 /\ check'[c].sent => check'[c].pulled
      <3>1. CASE c \in O
        <4>1. /\ check[c].status = "PENDING" /\ check'[c].status = "PROBLEM"
              /\ check'[c].sent = check[c].sent /\ check'[c].pulled = check[c].pulled
          BY <1>5, <2>1, <3>1
        <4>. QED
          BY <4>1 DEF IInv, Grounded
      <3>2. CASE c \notin O
        <4>1. check'[c] = check[c]
          BY <1>3, <3>2
        <4>. QED
          BY <4>1 DEF IInv, Grounded
      <3>. QED
        BY <3>1, <3>2
    <2>. QED
      BY <2>2 DEF ExpireCommit, Grounded
  <1>7. NoHalfVerdict'
    BY <1>3, <1>5 DEF IInv, NoHalfVerdict
  <1>8. HandedOnce'
    BY <1>5 DEF ExpireCommit, IInv, HandedOnce
  <1>. QED
    BY <1>2, <1>3, <1>4, <1>5, <1>6, <1>7, <1>8, WriteStep DEF ExpireCommit, IInv, TypeOK

\* Reports and receipts write the one row they have locked, from what they read.
LEMMA HeldRow ==
    ASSUME IInv, NEW t \in Threads, call[t].kind \in {"update", "receive"},
           call[t].pc = "holding"
    PROVE  /\ call[t].row \in Rows /\ check[call[t].row] \in CheckRow
           /\ call[t].seen = check[call[t].row]
           /\ call[t].row \in Pending
           /\ \A u \in Threads \ {t} : call[t].row \notin call[u].held
           /\ call[t].kind = "update" =>
                 check[call[t].row].pulled /\ call[t].report \in Report
           /\ call[t].good \in BOOLEAN
  <1>1. call[t] \in Call /\ Shaped(call[t])
    BY DEF IInv, TypeOK, CallShape
  <1>2. /\ call[t].row \in Rows /\ call[t].held = {call[t].row}
        /\ call[t].seen = check[call[t].row]
        /\ call[t].kind = "update" => call[t].seen.pulled /\ call[t].report \in Report
    BY <1>1 DEF Shaped
  <1>3. call[t].row \in Pending /\ \A u \in Threads \ {t} : call[t].row \notin call[u].held
    BY <1>2 DEF IInv, Locked
  <1>. QED
    BY <1>1, <1>2, <1>3 DEF IInv, TypeOK, Call

\* What WriteStep asks for when one pending row is replaced by `new'.
LEMMA RowWrite ==
    ASSUME IInv, NEW t \in Threads, Finish(t), UNCHANGED <<clock, sim, run, handed>>,
           NEW c \in Pending, \A u \in Threads \ {t} : c \notin call[u].held,
           NEW new \in CheckRow, check' = [check EXCEPT ![c] = new],
           new.status # "ABSENT", new.pulled = check[c].pulled,
           new.sent => new.pulled,
           new.status = "NORMAL" => new.pulled /\ new.sent /\ new.received,
           new.status = "PENDING" => ~(new.sent /\ new.received)
    PROVE  IInv'
  <1>1. c \in Rows /\ check[c].status = "PENDING"
    BY DEF Pending
  <1>2. \A b \in Rows : check'[b] = IF b = c THEN new ELSE check[b]
    BY DEF IInv, TypeOK
  <1>3. check' \in [Rows -> CheckRow] /\ handed' \in [Rows -> Nat]
    BY <1>1 DEF IInv, TypeOK
  <1>4. Grounded'
    BY <1>1, <1>2 DEF IInv, Grounded
  <1>5. NoHalfVerdict'
    BY <1>2 DEF IInv, NoHalfVerdict
  <1>6. HandedOnce'
    BY <1>2 DEF IInv, HandedOnce
  <1>. QED
    BY <1>1, <1>2, <1>3, <1>4, <1>5, <1>6, WriteStep

LEMMA UpdateCommits ==
    ASSUME IInv, NEW t \in Threads, UpdateCommit(t)
    PROVE  IInv'
  <1>1. PICK c : c = call[t].row
    OBVIOUS
  <1>2. PICK p : p = call[t].report
    OBVIOUS
  <1>3. /\ c \in Pending /\ c \in Rows /\ check[c] \in CheckRow /\ check[c].pulled
        /\ call[t].seen = check[c] /\ p \in Report
        /\ \A u \in Threads \ {t} : c \notin call[u].held
    BY <1>1, <1>2, HeldRow DEF UpdateCommit
  <1>4. PICK sent \in BOOLEAN : sent = (check[c].sent \/ p.sent)
    BY <1>3 DEF CheckRow, Report
  <1>5. PICK v \in CheckStatus :
            v = IF p.state = "Failed" THEN "PROBLEM"
                ELSE IF sent /\ check[c].received THEN "NORMAL" ELSE "PENDING"
    BY DEF CheckStatus
  <1>6. PICK x \in CheckRow : x = [check[c] EXCEPT !.sent = sent]
    BY <1>3, CheckRecord
  <1>7. PICK y \in CheckRow : y = [x EXCEPT !.transport = p.state]
    BY <1>3, CheckRecord DEF Report
  <1>8. PICK new \in CheckRow : new = [y EXCEPT !.status = v]
    BY CheckRecord
  <1>9. /\ new.sent = sent /\ new.status = v /\ new.pulled = check[c].pulled
        /\ new.received = check[c].received
    BY <1>3, <1>6, <1>7, <1>8 DEF CheckRow
  <1>10. check' = [check EXCEPT ![c] = new]
    BY <1>1, <1>2, <1>3, <1>4, <1>5, <1>6, <1>7, <1>8 DEF UpdateCommit, IInv, TypeOK
  <1>11. /\ new.status # "ABSENT"
         /\ new.status = "NORMAL" => new.pulled /\ new.sent /\ new.received
         /\ new.status = "PENDING" => ~(new.sent /\ new.received)
    BY <1>3, <1>5, <1>9
  <1>. QED
    BY <1>3, <1>9, <1>10, <1>11, RowWrite DEF UpdateCommit

LEMMA ReceiveCommits ==
    ASSUME IInv, NEW t \in Threads, ReceiveCommit(t)
    PROVE  IInv'
  <1>1. PICK c : c = call[t].row
    OBVIOUS
  <1>2. /\ c \in Pending /\ c \in Rows /\ check[c] \in CheckRow
        /\ call[t].seen = check[c] /\ call[t].good \in BOOLEAN
        /\ \A u \in Threads \ {t} : c \notin call[u].held
    BY <1>1, HeldRow DEF ReceiveCommit
  <1>3. check[c].sent => check[c].pulled
    BY <1>2 DEF IInv, Grounded
  <1>4. PICK v \in CheckStatus :
            v = IF ~call[t].good THEN "PROBLEM"
                ELSE IF check[c].sent THEN "NORMAL" ELSE "PENDING"
    BY DEF CheckStatus
  <1>5. PICK x \in CheckRow : x = [check[c] EXCEPT !.received = call[t].good]
    BY <1>2, CheckRecord
  <1>6. PICK new \in CheckRow : new = [x EXCEPT !.status = v]
    BY CheckRecord
  <1>7. /\ new.sent = check[c].sent /\ new.status = v /\ new.pulled = check[c].pulled
        /\ new.received = call[t].good
    BY <1>2, <1>5, <1>6 DEF CheckRow
  <1>8. check' = [check EXCEPT ![c] = new]
    BY <1>1, <1>2, <1>4, <1>5, <1>6 DEF ReceiveCommit, IInv, TypeOK
  <1>9. /\ new.status # "ABSENT"
        /\ new.status = "NORMAL" => new.pulled /\ new.sent /\ new.received
        /\ new.status = "PENDING" => ~(new.sent /\ new.received)
    BY <1>2, <1>3, <1>4, <1>7
  <1>. QED
    BY <1>2, <1>3, <1>7, <1>8, <1>9, RowWrite DEF ReceiveCommit

LEMMA PullCommits ==
    ASSUME IInv, NEW t \in Threads, PullCommit(t)
    PROVE  IInv'
  <1>1. PICK B : B = call[t].batch
    OBVIOUS
  <1>2. PICK H : H = call[t].held
    OBVIOUS
  <1>3. /\ B \subseteq H /\ H \subseteq Pending /\ H \subseteq Rows
        /\ \A c \in B : ~check[c].pulled
        /\ \A u \in Threads \ {t} : H \intersect call[u].held = {}
    <2>1. Shaped(call[t]) /\ call[t].kind = "pull"
      BY DEF IInv, CallShape, PullCommit
    <2>2. B \subseteq H /\ \A c \in B : ~check[c].pulled
      BY <1>1, <1>2, <2>1 DEF Shaped
    <2>3. H \subseteq Pending /\ \A u \in Threads \ {t} : H \intersect call[u].held = {}
      BY <1>2 DEF IInv, Locked
    <2>. QED
      BY <2>2, <2>3 DEF Pending
  <1>4. \A c \in Rows : check'[c] =
            IF c \in B THEN [check[c] EXCEPT !.pulled = TRUE, !.transport = "Processed"]
            ELSE IF c \in H THEN [check[c] EXCEPT !.status = "PROBLEM"] ELSE check[c]
    BY <1>1, <1>2 DEF PullCommit
  <1>5. \A c \in Rows : handed'[c] = IF c \in B THEN handed[c] + 1 ELSE handed[c]
    BY <1>1 DEF PullCommit
  <1>6. \A c \in Rows :
          /\ check'[c] \in CheckRow
          /\ c \in B => /\ check'[c].pulled /\ check'[c].status = "PENDING"
                        /\ check'[c].sent = check[c].sent
                        /\ check'[c].received = check[c].received
          /\ c \in H \ B => /\ check'[c].status = "PROBLEM"
                            /\ check'[c].pulled = check[c].pulled
                            /\ check'[c].sent = check[c].sent
                            /\ check'[c].received = check[c].received
          /\ c \notin H => check'[c] = check[c]
    <2>1. SUFFICES ASSUME NEW c \in Rows
                   PROVE  /\ check'[c] \in CheckRow
                          /\ c \in B => /\ check'[c].pulled
                                        /\ check'[c].status = check[c].status
                                        /\ check'[c].sent = check[c].sent
                                        /\ check'[c].received = check[c].received
                          /\ c \in H \ B => /\ check'[c].status = "PROBLEM"
                                            /\ check'[c].pulled = check[c].pulled
                                            /\ check'[c].sent = check[c].sent
                                            /\ check'[c].received = check[c].received
                          /\ c \notin H => check'[c] = check[c]
      BY <1>3 DEF Pending
    <2>2. check[c] \in CheckRow
      BY DEF IInv, TypeOK
    <2>3. CASE c \in B
      <3>1. PICK x \in CheckRow : x = [check[c] EXCEPT !.pulled = TRUE]
        BY <2>2, CheckRecord
      <3>2. PICK y \in CheckRow : y = [x EXCEPT !.transport = "Processed"]
        BY CheckRecord DEF Status, Progress
      <3>3. /\ y.pulled /\ y.status = check[c].status
            /\ y.sent = check[c].sent /\ y.received = check[c].received
        BY <2>2, <3>1, <3>2 DEF CheckRow
      <3>4. check'[c] = y
        BY <1>4, <2>2, <2>3, <3>1, <3>2
      <3>. QED
        BY <1>3, <2>3, <3>3, <3>4
    <2>4. CASE c \in H \ B
      BY <1>4, <2>2, <2>4, ExpiredRow
    <2>5. CASE c \notin H
      BY <1>3, <1>4, <2>2, <2>5
    <2>. QED
      BY <1>3, <2>3, <2>4, <2>5
  <1>7. check' \in [Rows -> CheckRow] /\ handed' \in [Rows -> Nat]
    <2>1. check' \in [Rows -> CheckRow]
      BY <1>6 DEF PullCommit
    <2>2. \A c \in Rows : handed'[c] \in Nat
      BY <1>5 DEF IInv, TypeOK
    <2>. QED
      BY <2>1, <2>2 DEF PullCommit
  <1>8. ASSUME NEW c \in Rows
        PROVE  /\ run[c[1]] = Nil => check'[c].status = "ABSENT"
               /\ check'[c].status = "ABSENT" => check'[c] = NoCheck
               /\ check'[c].sent => check'[c].pulled
               /\ check'[c].status = "NORMAL" =>
                     check'[c].pulled /\ check'[c].sent /\ check'[c].received
               /\ check'[c].status = "PENDING" => ~(check'[c].sent /\ check'[c].received)
               /\ handed'[c] = IF check'[c].pulled THEN 1 ELSE 0
    <2>1. c \in H => check[c].status = "PENDING"
      BY <1>3 DEF Pending
    <2>2. /\ run[c[1]] = Nil => check[c].status = "ABSENT"
          /\ check[c].status = "ABSENT" => check[c] = NoCheck
          /\ check[c].sent => check[c].pulled
          /\ check[c].status = "NORMAL" =>
                check[c].pulled /\ check[c].sent /\ check[c].received
          /\ check[c].status = "PENDING" => ~(check[c].sent /\ check[c].received)
          /\ handed[c] = IF check[c].pulled THEN 1 ELSE 0
      BY DEF IInv, Grounded, NoHalfVerdict, HandedOnce
    <2>3. CASE c \in B
      BY <1>3, <1>5, <1>6, <2>1, <2>2, <2>3
    <2>4. CASE c \in H \ B
      BY <1>3, <1>5, <1>6, <2>1, <2>2, <2>4
    <2>5. CASE c \notin H
      BY <1>3, <1>5, <1>6, <2>2, <2>5
    <2>. QED
      BY <2>3, <2>4, <2>5
  <1>9. Grounded' /\ NoHalfVerdict' /\ HandedOnce'
    BY <1>8 DEF PullCommit, Grounded, NoHalfVerdict, HandedOnce
  <1>. QED
    BY <1>3, <1>6, <1>7, <1>9, WriteStep DEF PullCommit, Pending

\* A new check is untested or pending, and has no evidence.
LEMMA NewCheckRow ==
    ASSUME TypeOK, NEW s \in Sims, NEW n
    PROVE  /\ NewCheck(s, n) \in CheckRow
           /\ NewCheck(s, n).status \in {"NOT_TESTED", "PENDING"}
           /\ ~NewCheck(s, n).pulled /\ ~NewCheck(s, n).sent
  <1>1. sim[s].number \in Numbers
    BY DEF TypeOK, SimRow
  <1>2. PICK v \in CheckStatus :
            v = IF sim[s].number = n THEN "NOT_TESTED" ELSE "PENDING"
    BY DEF CheckStatus
  <1>3. PICK x \in CheckRow : x = [NoCheck EXCEPT !.number = sim[s].number]
    BY <1>1, NoCheckType, CheckRecord
  <1>4. PICK y \in CheckRow : y = [x EXCEPT !.status = v]
    BY CheckRecord
  <1>5. y = NewCheck(s, n) /\ y.status = v /\ ~y.pulled /\ ~y.sent
    BY <1>2, <1>3, <1>4 DEF NewCheck, NoCheck
  <1>. QED
    BY <1>2, <1>5

LEMMA StartCommits ==
    ASSUME IInv, NEW t \in Threads, StartCommit(t)
    PROVE  IInv'
  <1> USE DEF IInv
  <1>3. PICK r \in Runs :
          /\ run[r] = Nil
          /\ run' = [run EXCEPT ![r] =
                    [key |-> call[t].key, target |-> call[t].target,
                     receiver |-> IF Receivers(call[t].target) = {} THEN Nil
                                  ELSE Home[CHOOSE s \in Receivers(call[t].target) : TRUE],
                     deadline |-> call[t].now + Timeout]]
          /\ check' = [c \in Rows |->
                IF c[1] = r /\ c[2] \in Usable THEN NewCheck(c[2], call[t].target)
                ELSE IF c \in call[t].held THEN [check[c] EXCEPT !.status = "PROBLEM"]
                ELSE check[c]]
    BY DEF StartCommit
  <1>4. /\ call[t].kind = "start" /\ call[t].pc = "holding"
        /\ UNCHANGED <<clock, sim, handed>> /\ Finish(t)
    BY DEF StartCommit
  <1>5. call[t] \in Call /\ call[t].key \in Keys /\ call[t].target \in Targets /\ call[t].now \in Nat
    BY <1>4 DEF CallShape, Shaped, TypeOK, Call
  <1>6. /\ Pending \subseteq call[t].held /\ call[t].held \subseteq Pending
        /\ OfKey(call[t].key) = {}
        /\ \A u \in Threads \ {t} : call[u].kind = "start" => call[u].pc = "waiting"
    BY <1>4 DEF OneLaunch, Locked, Starting
  <1>7. \A u \in Threads : call'[u] = IF u = t THEN Idle ELSE call[u]
    BY <1>4 DEF Finish, TypeOK
  <1>8. \A u \in Threads : call'[u].held = {}
    BY <1>6, <1>7 DEF Locked, Idle
  <1>9. PICK row \in RunRow : run' = [run EXCEPT ![r] = row] /\ row.key = call[t].key
    <2>1. Receivers(call[t].target) # {} => Home[CHOOSE s \in Receivers(call[t].target) : TRUE] \in Devices
      BY DEF Receivers, Usable
    <2>2. PICK d \in Devices \union {Nil} :
            d = IF Receivers(call[t].target) = {} THEN Nil
                ELSE Home[CHOOSE s \in Receivers(call[t].target) : TRUE]
      BY <2>1
    <2>3. call[t].now + Timeout \in Nat /\ call[t].target \in Numbers
      BY <1>5 DEF Numbers
    <2>4. PICK row \in RunRow :
            row = [key |-> call[t].key, target |-> call[t].target, receiver |-> d,
                   deadline |-> call[t].now + Timeout]
      BY <1>5, <2>3 DEF RunRow
    <2>5. run' = [run EXCEPT ![r] = row]
      BY <1>3, <2>2, <2>4
    <2>6. row.key = call[t].key
      BY <2>4
    <2>. QED
      BY <2>5, <2>6
  <1>10. \A q \in Runs : run'[q] = IF q = r THEN row ELSE run[q]
    BY <1>9 DEF TypeOK
  <1>11. ASSUME NEW c \in Rows
         PROVE  /\ check'[c] \in CheckRow
                /\ c[1] = r /\ c[2] \in Usable =>
                     /\ check[c] = NoCheck
                     /\ check'[c].status \in {"NOT_TESTED", "PENDING"}
                     /\ ~check'[c].pulled /\ ~check'[c].sent
                /\ ~(c[1] = r /\ c[2] \in Usable) =>
                     /\ c \in call[t].held => /\ check'[c].status = "PROBLEM"
                                   /\ check'[c].pulled = check[c].pulled
                                   /\ check'[c].sent = check[c].sent
                     /\ c \notin call[t].held => check'[c] = check[c]
    <2>1. check[c] \in CheckRow
      BY DEF TypeOK
    <2>2. CASE c[1] = r /\ c[2] \in Usable
      <3>1. c[2] \in Sims
        BY DEF Rows
      <3>2. check'[c] = NewCheck(c[2], call[t].target)
        BY <1>3, <2>2
      <3>3. check[c] = NoCheck
        BY <1>3, <2>2 DEF Grounded
      <3>. QED
        BY <2>2, <3>1, <3>2, <3>3, NewCheckRow
    <2>3. CASE ~(c[1] = r /\ c[2] \in Usable) /\ c \in call[t].held
      BY <1>3, <2>1, <2>3, ExpiredRow
    <2>4. CASE ~(c[1] = r /\ c[2] \in Usable) /\ c \notin call[t].held
      BY <1>3, <2>1, <2>4
    <2>. QED
      BY <2>2, <2>3, <2>4
  <1>12. TypeOK'
    <2>1. run' \in [Runs -> RunRow \union {Nil}]
      BY <1>9 DEF TypeOK
    <2>2. check' \in [Rows -> CheckRow]
      BY <1>3, <1>11
    <2>3. call' \in [Threads -> Call]
      BY <1>4, IdleType DEF Finish, TypeOK
    <2>. QED
      BY <1>4, <2>1, <2>2, <2>3 DEF TypeOK
  <1>13. CallShape'
    <2>1. SUFFICES ASSUME NEW u \in Threads PROVE Shaped(call[u])'
      BY DEF CallShape
    <2>2. CASE u = t
      <3>1. Idle.kind = "none"
        BY DEF Idle
      <3>. QED
        BY <1>7, <2>2, <3>1 DEF Shaped
    <2>3. CASE u # t
      <3>1. Shaped(call[u]) /\ call'[u] = call[u] /\ call[u].held = {}
        BY <1>7, <1>8, <2>3 DEF CallShape
      <3>. QED
        BY <3>1 DEF Shaped
    <2>. QED
      BY <2>2, <2>3
  <1>14. Locked'
    BY <1>8 DEF Locked
  <1>15. OneLaunch'
    <2>1. \A u \in Starting' : call'[u].pc = "waiting"
      BY <1>6, <1>7 DEF Starting, Idle
    <2>. QED
      BY <2>1 DEF OneLaunch
  <1>16. Grounded'
    <2>1. ASSUME NEW c \in Rows
          PROVE  /\ run'[c[1]] = Nil => check'[c].status = "ABSENT"
                 /\ check'[c].status = "ABSENT" => check'[c] = NoCheck
                 /\ check'[c].sent => check'[c].pulled
      <3>1. c[1] \in Runs /\ run'[c[1]] = Nil => run[c[1]] = Nil /\ c[1] # r
        BY <1>10
      <3>2. c[1] \in Runs
        BY DEF Rows
      <3>3. c \in call[t].held => check[c].status = "PENDING"
        BY <1>6 DEF Pending
      <3>4. /\ run[c[1]] = Nil => check[c].status = "ABSENT"
            /\ check[c].status = "ABSENT" => check[c] = NoCheck
            /\ check[c].sent => check[c].pulled
        BY DEF Grounded
      <3>. QED
        BY <1>11, <3>1, <3>2, <3>3, <3>4
    <2>. QED
      BY <2>1 DEF Grounded
  <1>17. OneRunPerKey'
    <2>1. \A q \in Runs : run[q] # Nil => run[q].key # call[t].key
      BY <1>6 DEF OfKey
    <2>. QED
      BY <1>9, <1>10, <2>1 DEF OneRunPerKey
  <1>18. OneRunAtATime'
    <2>1. \A c \in Pending' : c \in Rows /\ c[1] = r
      BY <1>6, <1>11 DEF Pending
    <2>. QED
      BY <2>1 DEF OneRunAtATime
  <1>19. NoHalfVerdict'
    <2>1. ASSUME NEW c \in Rows
          PROVE  /\ check'[c].status = "NORMAL" =>
                       check'[c].pulled /\ check'[c].sent /\ check'[c].received
                 /\ check'[c].status = "PENDING" => ~(check'[c].sent /\ check'[c].received)
      BY <1>11 DEF NoHalfVerdict
    <2>. QED
      BY <2>1 DEF NoHalfVerdict
  <1>20. HandedOnce'
    <2>1. ASSUME NEW c \in Rows
          PROVE  handed'[c] = IF check'[c].pulled THEN 1 ELSE 0
      <3>1. handed'[c] = handed[c] /\ handed[c] = IF check[c].pulled THEN 1 ELSE 0
        BY <1>4 DEF HandedOnce
      <3>2. ~NoCheck.pulled
        BY DEF NoCheck
      <3>3. CASE c[1] = r /\ c[2] \in Usable
        BY <1>11, <3>1, <3>2, <3>3
      <3>4. CASE ~(c[1] = r /\ c[2] \in Usable)
        BY <1>11, <3>1, <3>4
      <3>. QED
        BY <3>3, <3>4
    <2>. QED
      BY <2>1 DEF HandedOnce
  <1>. QED
    BY <1>12, <1>13, <1>14, <1>15, <1>16, <1>17, <1>18, <1>19, <1>20

-----------------------------------------------------------------------------
(* The invariant *)

LEMMA Initially == Init => IInv
  <1> SUFFICES ASSUME Init PROVE IInv
    OBVIOUS
  <1> USE DEF Init
  <1>1. NoCheck.status = "ABSENT" /\ ~NoCheck.sent /\ ~NoCheck.pulled
    BY DEF NoCheck
  <1>2. Idle.kind = "none" /\ Idle.held = {}
    BY DEF Idle
  <1>3. \A s \in Sims : sim[s] \in SimRow
    BY DEF SimRow
  <1>4. TypeOK
    BY <1>3, NoCheckType, IdleType DEF TypeOK
  <1>5. CallShape
    BY <1>2 DEF CallShape, Shaped
  <1>6. Pending = {}
    BY <1>1 DEF Pending
  <1>7. Locked /\ OneLaunch
    BY <1>2 DEF Locked, OneLaunch, Starting
  <1>8. Grounded /\ NoHalfVerdict /\ HandedOnce
    BY <1>1 DEF Grounded, NoHalfVerdict, HandedOnce
  <1>9. OneRunPerKey /\ OneRunAtATime
    BY <1>6 DEF OneRunPerKey, OneRunAtATime
  <1>. QED
    BY <1>4, <1>5, <1>7, <1>8, <1>9 DEF IInv

\* Time and the administrator change nothing the calls rely on.
LEMMA Surroundings ==
    ASSUME IInv, TypeOK', UNCHANGED <<run, check, handed, call>>
    PROVE  IInv'
  <1>1. CallShape'
    <2>1. SUFFICES ASSUME NEW u \in Threads PROVE Shaped(call[u])'
      BY DEF CallShape
    <2>2. PICK z : z = call[u] /\ z = call'[u]
      OBVIOUS
    <2>3. Shaped(z)
      BY <2>2 DEF IInv, CallShape
    <2>. QED
      BY <2>2, <2>3 DEF Shaped
  <1>2. Pending' = Pending /\ Starting' = Starting
    BY DEF Pending, Starting
  <1>3. Locked' /\ OneLaunch'
    BY <1>2 DEF IInv, Locked, OneLaunch, OfKey
  <1>4. Grounded' /\ OneRunPerKey' /\ OneRunAtATime' /\ NoHalfVerdict' /\ HandedOnce'
    BY <1>2 DEF IInv, Grounded, OneRunPerKey, OneRunAtATime, NoHalfVerdict, HandedOnce
  <1>. QED
    BY <1>1, <1>3, <1>4 DEF IInv

LEMMA Ticks == IInv /\ Tick => IInv'
  <1> SUFFICES ASSUME IInv, Tick PROVE IInv'
    OBVIOUS
  <1>1. clock' \in 0..MaxClock
    BY DEF Tick, IInv, TypeOK
  <1>2. TypeOK'
    BY <1>1 DEF Tick, IInv, TypeOK
  <1>. QED
    BY <1>2, Surroundings DEF Tick

LEMMA Edits == ASSUME IInv, NEW s \in Sims, Edit(s) PROVE IInv'
  <1>1. sim' \in [Sims -> SimRow]
    <2>1. \A x \in SimRow : /\ [x EXCEPT !.usable = ~x.usable] \in SimRow
                            /\ \A n \in Numbers : [x EXCEPT !.number = n] \in SimRow
      BY DEF SimRow
    <2>2. sim[s] \in SimRow /\ NewNumbers \subseteq Numbers
      BY DEF IInv, TypeOK, Numbers
    <2>3. PICK x \in SimRow : sim' = [sim EXCEPT ![s] = x]
      BY <2>1, <2>2 DEF Edit
    <2>. QED
      BY <2>3 DEF IInv, TypeOK
  <1>2. TypeOK'
    BY <1>1 DEF Edit, IInv, TypeOK
  <1>. QED
    BY <1>2, Surroundings DEF Edit

LEMMA Inductive == IInv /\ [Next]_vars => IInv'
  <1> SUFFICES ASSUME IInv, [Next]_vars PROVE IInv'
    OBVIOUS
  <1>1. CASE UNCHANGED vars
    <2>1. TypeOK'
      BY <1>1 DEF vars, IInv, TypeOK
    <2>. QED
      BY <1>1, <2>1, Surroundings DEF vars
  <1>2. CASE Tick
    BY <1>2, Ticks
  <1>3. ASSUME NEW s \in Sims, Edit(s) PROVE IInv'
    BY <1>3, Edits
  <1>4. ASSUME NEW t \in Threads, Enter(t) PROVE IInv'
    BY <1>4, StartEnters, PullEnters, UpdateEnters, ReceiveEnters, ResultsEnters DEF Enter
  <1>5. ASSUME NEW t \in Threads, StartLock(t) \/ StartClaim(t) \/ StartCommit(t) PROVE IInv'
    BY <1>5, StartLocks, StartClaims, StartCommits
  <1>6. ASSUME NEW t \in Threads, PullLock(t) \/ PullClaim(t) \/ PullCommit(t) PROVE IInv'
    BY <1>6, PullLocks, PullClaims, PullCommits
  <1>7. ASSUME NEW t \in Threads, \/ UpdateLock(t) \/ UpdateCommit(t)
                                  \/ ReceiveLock(t) \/ ReceiveCommit(t)
        PROVE  IInv'
    BY <1>7, UpdateLocks, UpdateCommits, ReceiveLocks, ReceiveCommits
  <1>8. ASSUME NEW t \in Threads, ExpireCommit(t) PROVE IInv'
    BY <1>8, ExpireCommits
  <1>9. ASSUME NEW t \in Threads, DeadlockVictim(t) \/ Rollback(t) PROVE IInv'
    BY <1>9, FinishStep DEF DeadlockVictim, Rollback
  <1>. QED
    BY <1>1, <1>2, <1>3, <1>4, <1>5, <1>6, <1>7, <1>8, <1>9 DEF Next, Advance

\* IInv holds in every state of every behaviour, whatever the sets of threads,
\* devices, SIMs, runs and keys.
THEOREM Invariance == Spec => []IInv
  BY Initially, Inductive, PTL DEF Spec

\* SmsCheckService.start: however launches overlap, the checks pending at any
\* moment belong to one run.
THEOREM OneAtATime == Spec => []OneRunAtATime
  <1>1. IInv => OneRunAtATime
    BY DEF IInv
  <1>. QED
    BY <1>1, Invariance, PTL

\* SmsCheckService.start: a request key launches one run.
THEOREM Idempotent == Spec => []OneRunPerKey
  <1>1. IInv => OneRunPerKey
    BY DEF IInv
  <1>. QED
    BY <1>1, Invariance, PTL

\* SmsCheckService.update and receive: a verdict needs both halves of the
\* evidence, and comes with the second.
THEOREM Grounds == Spec => []NoHalfVerdict
  <1>1. IInv => NoHalfVerdict
    BY DEF IInv
  <1>. QED
    BY <1>1, Invariance, PTL

\* SmsCheckService.pull: a check is handed to its device once.
THEOREM AtMostOnce == Spec => []HandedOnce
  <1>1. IInv => HandedOnce
    BY DEF IInv
  <1>. QED
    BY <1>1, Invariance, PTL

-----------------------------------------------------------------------------
(* Verdicts are final *)

\* The rows a call has locked are pending, so what it writes decides nothing
\* that was decided; a launch adds rows.
LEMMA DecidedStays ==
    ASSUME IInv, [Next]_vars, NEW c \in Rows, check[c].status \notin {"ABSENT", "PENDING"}
    PROVE  check'[c] = check[c]
  <1>1. c \notin Pending /\ \A u \in Threads : c \notin call[u].held
    BY DEF Pending, IInv, Locked
  <1>2. run[c[1]] # Nil
    BY DEF IInv, Grounded
  <1>3. CASE check' = check
    BY <1>3
  <1>4. ASSUME NEW t \in Threads, StartCommit(t) PROVE check'[c] = check[c]
    BY <1>1, <1>2, <1>4 DEF StartCommit
  <1>5. ASSUME NEW t \in Threads, PullCommit(t) PROVE check'[c] = check[c]
    <2>1. Shaped(call[t]) /\ call[t].kind = "pull"
      BY <1>5 DEF PullCommit, IInv, CallShape
    <2>2. c \notin call[t].batch
      BY <1>1, <2>1 DEF Shaped
    <2>. QED
      BY <1>1, <1>5, <2>2 DEF PullCommit
  <1>6. ASSUME NEW t \in Threads, UpdateCommit(t) \/ ReceiveCommit(t)
        PROVE  check'[c] = check[c]
    <2>1. c # call[t].row
      BY <1>1, <1>6, HeldRow DEF UpdateCommit, ReceiveCommit
    <2>. QED
      BY <1>6, <2>1 DEF UpdateCommit, ReceiveCommit, IInv, TypeOK
  <1>7. ASSUME NEW t \in Threads, ExpireCommit(t) PROVE check'[c] = check[c]
    BY <1>1, <1>7 DEF ExpireCommit, Expired, Overdue
  <1>8. ASSUME NEW t \in Threads, Enter(t) PROVE check' = check
    BY <1>8 DEF Enter, StartEnter, PullEnter, UpdateEnter, ReceiveEnter, ResultsEnter
  <1>9. ASSUME NEW t \in Threads,
               \/ StartLock(t) \/ StartClaim(t) \/ PullLock(t) \/ PullClaim(t)
               \/ UpdateLock(t) \/ ReceiveLock(t) \/ DeadlockVictim(t) \/ Rollback(t)
        PROVE  check' = check
    BY <1>9 DEF StartLock, StartClaim, PullLock, PullClaim, UpdateLock, ReceiveLock,
                DeadlockVictim, Rollback
  <1>10. UNCHANGED vars \/ Tick \/ (\E s \in Sims : Edit(s)) => check' = check
    BY DEF vars, Tick, Edit
  <1>. QED
    BY <1>3, <1>4, <1>5, <1>6, <1>7, <1>8, <1>9, <1>10 DEF Next, Advance

\* Whatever arrives late or twice, a decided check stays as it was decided.
THEOREM Final == Spec => VerdictFinal
  <1>1. IInv /\ [Next]_vars =>
            [\A c \in Rows : check[c].status \notin {"ABSENT", "PENDING"}
                => check'[c] = check[c]]_vars
    BY DecidedStays
  <1>. QED
    BY <1>1, Invariance, PTL DEF Spec, VerdictFinal
=============================================================================
