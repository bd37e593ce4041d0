--------------------------- MODULE OutboundProofs ---------------------------
(***************************************************************************)
(* Theorems of Outbound, for every number of threads, devices, SIMs, keys, *)
(* bodies, messages and batches.  The inductive invariant IInv says what   *)
(* the locks buy: calls that hold a device or a key are alone on it, so    *)
(* what they found there is still true when they write.                    *)
(***************************************************************************)
EXTENDS Outbound, TLAPS

-----------------------------------------------------------------------------
(* Records *)

\* A thread that does nothing has a well-typed, well-shaped record.
LEMMA IdleCallFits == IdleCall \in Call /\ Shaped(IdleCall)
  BY OutboundAssumption
     DEF IdleCall, Call, Shaped, Status, Progress

\* A record of a call stays one when a field is given a value of its type.
LEMMA With_pc ==
    ASSUME NEW c \in Call, NEW v \in {"idle", "waiting", "holding", "replying"}
    PROVE  [c EXCEPT !.pc = v] \in Call
  BY DEF Call

LEMMA With_op ==
    ASSUME NEW c \in Call, NEW v \in {"none", "create", "pull", "status", "update"}
    PROVE  [c EXCEPT !.op = v] \in Call
  BY DEF Call

LEMMA With_now ==
    ASSUME NEW c \in Call, NEW v \in Nat
    PROVE  [c EXCEPT !.now = v] \in Call
  BY DEF Call

LEMMA With_dev ==
    ASSUME NEW c \in Call, NEW v \in Devices \union {Nil}
    PROVE  [c EXCEPT !.dev = v] \in Call
  BY DEF Call

LEMMA With_key ==
    ASSUME NEW c \in Call, NEW v \in Keys \union {Nil}
    PROVE  [c EXCEPT !.key = v] \in Call
  BY DEF Call

LEMMA With_body ==
    ASSUME NEW c \in Call, NEW v \in Bodies \union {Nil}
    PROVE  [c EXCEPT !.body = v] \in Call
  BY DEF Call

LEMMA With_sim ==
    ASSUME NEW c \in Call, NEW v \in Sims \union {Nil}
    PROVE  [c EXCEPT !.sim = v] \in Call
  BY DEF Call

LEMMA With_fifo ==
    ASSUME NEW c \in Call, NEW v \in BOOLEAN
    PROVE  [c EXCEPT !.fifo = v] \in Call
  BY DEF Call

LEMMA With_batch ==
    ASSUME NEW c \in Call, NEW v \in SUBSET Msgs
    PROVE  [c EXCEPT !.batch = v] \in Call
  BY DEF Call

LEMMA With_reports ==
    ASSUME NEW c \in Call, NEW v \in SUBSET Report
    PROVE  [c EXCEPT !.reports = v] \in Call
  BY DEF Call

LEMMA With_list ==
    ASSUME NEW c \in Call, NEW v \in SUBSET (SUBSET Sims)
    PROVE  [c EXCEPT !.list = v] \in Call
  BY DEF Call

\* The answer a call owes is a record of a call, whatever the answer.
LEMMA OwesFits ==
    ASSUME TypeOK, NEW t \in Threads,
           NEW code \in {200, 201, 400, 403, 409, 422},
           NEW m \in Msgs \union {Nil}, NEW state \in Status
    PROVE  /\ Owes(t, code, m, state) \in Call
           /\ Owes(t, code, m, state).pc = "replying"
           /\ Owes(t, code, m, state).op = call[t].op
           /\ Owes(t, code, m, state).key = call[t].key
           /\ Owes(t, code, m, state).body = call[t].body
           /\ Owes(t, code, m, state).code = code
           /\ Owes(t, code, m, state).msg = m
           /\ Owes(t, code, m, state).reports = {}
  BY DEF Owes, TypeOK, Call

\* The states of a message row are strings the type knows.
LEMMA PendingIsAStatus == "Pending" \in Status /\ "Processed" \in Status
  BY DEF Status, Progress

-----------------------------------------------------------------------------
(* Steps that change the record of one call and nothing else *)

\* A call that lets go of its locks, or takes none, disturbs nobody.
LEMMA LettingGo ==
    ASSUME IInv, NEW t \in Threads, NEW c \in Call,
           c.pc # "holding", Shaped(c),
           call' = [call EXCEPT ![t] = c],
           UNCHANGED <<clock, device, sim, convs, msg, claims>>,
           acks' \in [Keys -> SUBSET Ack], AcksNameTheMessage',
           handed' \subseteq Msgs
    PROVE  IInv'
<1>1. TypeOK'
  BY DEF IInv, TypeOK
<1>2. CallShape'
  BY DEF IInv, TypeOK, CallShape, Shaped, Present
<1>3. Exclusive'
  BY DEF IInv, TypeOK, Exclusive
<1>4. StillValid'
  BY DEF IInv, TypeOK, StillValid, Validated, Existing, Present, Usable, Acceptable
<1> QED
  BY <1>1, <1>2, <1>3, <1>4
     DEF IInv, Unclaimed, ClaimedOnce, RowsAgree, OneMessagePerKey, Present

\* A call that takes free locks and has validated what they protect is alone
\* on it and right about it.
LEMMA Claiming ==
    ASSUME IInv, NEW t \in Threads, NEW c \in Call,
           c.pc = "holding", Shaped(c), Validated(c),
           DeviceFree(c.dev), c.op = "create" => KeyFree(c.key),
           call' = [call EXCEPT ![t] = c],
           UNCHANGED <<clock, device, sim, convs, msg, acks, claims, handed>>
    PROVE  IInv'
<1>1. TypeOK'
  BY DEF IInv, TypeOK
<1>2. CallShape'
  BY DEF IInv, TypeOK, CallShape, Shaped, Present
<1>3. Exclusive'
  BY DEF IInv, TypeOK, Exclusive, DeviceFree, KeyFree, Holding
<1>4. StillValid'
  BY DEF IInv, TypeOK, StillValid, Validated, Existing, Present, Usable, Acceptable
<1> QED
  BY <1>1, <1>2, <1>3, <1>4
     DEF IInv, Unclaimed, ClaimedOnce, RowsAgree, OneMessagePerKey,
         AcksNameTheMessage, Present

\* An answer to a call that has changed nothing, unless it is a create that
\* claims success: that one must name the message of its key.
LEMMA Answering ==
    ASSUME IInv, NEW t \in Threads,
           NEW code \in {200, 201, 400, 403, 409, 422},
           NEW m \in Msgs \union {Nil}, NEW state \in Status,
           Answer(t, code, m, state),
           (call[t].op = "create" /\ code \in {200, 201}) =>
               /\ call[t].pc \in {"waiting", "holding"}
               /\ m \in Msgs /\ Present(m)
               /\ msg[m].key = call[t].key /\ msg[m].body = call[t].body,
           UNCHANGED <<clock, device, sim, convs, msg, acks, claims, handed>>
    PROVE  IInv'
<1> DEFINE c == Owes(t, code, m, state)
<1>1. c \in Call /\ c.pc = "replying" /\ c.reports = {}
      /\ c.op = call[t].op /\ c.key = call[t].key /\ c.body = call[t].body
      /\ c.code = code /\ c.msg = m
  BY OwesFits DEF IInv
<1>2. Shaped(c)
  BY <1>1 DEF Shaped, IInv, CallShape
<1>3. call' = [call EXCEPT ![t] = c]
  BY DEF Answer
<1>4. acks' \in [Keys -> SUBSET Ack] /\ AcksNameTheMessage' /\ handed' \subseteq Msgs
  BY DEF IInv, TypeOK, AcksNameTheMessage, Present
<1> HIDE DEF c
<1> QED
  BY <1>1, <1>2, <1>3, <1>4, LettingGo

LEMMA Refusing ==
    ASSUME IInv, NEW t \in Threads, NEW code \in {400, 403, 409, 422},
           Refuse(t, code),
           UNCHANGED <<clock, device, sim, convs, msg, acks, claims, handed>>
    PROVE  IInv'
  BY Answering, PendingIsAStatus DEF Refuse

-----------------------------------------------------------------------------
(* The creates *)

LEMMA CreateEnterStep ==
    ASSUME IInv, NEW t \in Threads, NEW k \in Keys, NEW b \in Bodies,
           CreateEnter(t, k, b)
    PROVE  IInv'
<1> DEFINE e == [IdleCall EXCEPT !.op = "create", !.key = k, !.body = b]
           r == [e EXCEPT !.pc = "replying", !.code = 400]
           w == [e EXCEPT !.pc = "waiting", !.now = clock]
<1>1. e \in Call /\ r \in Call /\ w \in Call
  <2>1. e \in Call
    BY IdleCallFits, With_op, With_key, With_body
  <2> HIDE DEF e
  <2>2. r \in Call
    <3> DEFINE q == [e EXCEPT !.pc = "replying"]
    <3>1. q \in Call
      BY <2>1, With_pc
    <3> HIDE DEF q
    <3>2. [q EXCEPT !.code = 400] \in Call
      BY <3>1 DEF Call
    <3> QED
      BY <3>2 DEF q
  <2>3. w \in Call
    BY <2>1, With_pc, With_now DEF IInv, TypeOK
  <2> QED
    BY <2>1, <2>2, <2>3
<1>2. r.pc = "replying" /\ r.reports = {} /\ r.code = 400
  BY DEF IdleCall
<1>3. w.pc = "waiting" /\ w.reports = {} /\ w.now = clock
      /\ w.op = "create" /\ w.key = k /\ w.body = b
  BY DEF IdleCall
<1>4. call' = [call EXCEPT ![t] = r] \/ call' = [call EXCEPT ![t] = w]
  BY DEF CreateEnter
<1>5. Shaped(r) /\ Shaped(w)
  BY <1>2, <1>3 DEF Shaped, IInv
<1>6. /\ acks' \in [Keys -> SUBSET Ack] /\ AcksNameTheMessage'
      /\ handed' \subseteq Msgs
      /\ UNCHANGED <<clock, device, sim, convs, msg, claims>>
  BY DEF CreateEnter, IInv, TypeOK, AcksNameTheMessage, Present
<1> HIDE DEF e, r, w
<1> QED
  BY <1>1, <1>2, <1>3, <1>4, <1>5, <1>6, LettingGo

LEMMA CreateReplayStep ==
    ASSUME IInv, NEW t \in Threads, CreateReplay(t)
    PROVE  IInv'
<1>1. PICK m \in Existing(call[t].key) :
          IF msg[m].body = call[t].body THEN Answer(t, 200, m, msg[m].state)
                                        ELSE Refuse(t, 409)
  BY DEF CreateReplay
<1>2. m \in Msgs /\ Present(m) /\ msg[m].key = call[t].key
  BY DEF Existing
<1>3. msg[m].state \in Status
  BY <1>2 DEF IInv, TypeOK, MsgRow, Present
<1>4. /\ call[t].pc = "waiting"
      /\ UNCHANGED <<clock, device, sim, convs, msg, acks, claims, handed>>
  BY DEF CreateReplay, KeyLocked
<1>5. CASE msg[m].body = call[t].body
  BY <1>1, <1>2, <1>3, <1>4, <1>5, Answering
<1>6. CASE msg[m].body # call[t].body
  BY <1>1, <1>4, <1>6, Refusing
<1> QED
  BY <1>5, <1>6

\* Either kind of routing ends with a usable SIM of an enabled device, its rows
\* locked.
LEMMA TakeRouteStep ==
    ASSUME IInv, NEW t \in Threads, NEW s \in Sims,
           KeyLocked(t), Existing(call[t].key) = {},
           Routable(s, call[t].now), Unlocked(s), TakeRoute(t, s),
           UNCHANGED <<clock, device, sim, convs, msg, acks, claims, handed>>
    PROVE  IInv'
<1> DEFINE c == [call[t] EXCEPT !.pc = "holding", !.sim = s, !.dev = Home[s]]
<1>1. Home[s] \in Devices
  BY OutboundAssumption
<1>2. c \in Call
  BY <1>1, With_pc, With_sim, With_dev DEF IInv, TypeOK
<1>3. /\ c.pc = "holding" /\ c.sim = s /\ c.dev = Home[s]
      /\ c.op = "create" /\ c.key = call[t].key /\ c.body = call[t].body
      /\ c.now = call[t].now /\ c.reports = call[t].reports
  BY DEF IInv, TypeOK, Call, KeyLocked
<1>4. call' = [call EXCEPT ![t] = c]
  BY DEF TakeRoute, IInv, TypeOK
<1>5. Shaped(c)
  BY <1>3 DEF Shaped, IInv, CallShape, KeyLocked
<1>6. Validated(c)
  BY <1>1, <1>3 DEF Validated, Routable, Online
<1>7. DeviceFree(c.dev) /\ KeyFree(c.key)
  BY <1>3 DEF Unlocked, KeyLocked
<1> HIDE DEF c
<1> QED
  BY <1>2, <1>3, <1>4, <1>5, <1>6, <1>7, Claiming

LEMMA CreateRouteStep ==
    ASSUME IInv, NEW t \in Threads, CreateRoute(t)
    PROVE  IInv'
<1>1. UNCHANGED <<clock, device, sim, convs, msg, acks, claims, handed>>
      /\ KeyLocked(t) /\ Existing(call[t].key) = {}
  BY DEF CreateRoute
<1>2. CASE Refuse(t, 422)
  BY <1>1, <1>2, Refusing
<1>3. CASE \E s \in Candidates(call[t]) : TakeRoute(t, s)
  <2>1. PICK s \in Candidates(call[t]) : TakeRoute(t, s)
    BY <1>3
  <2>2. s \in Sims /\ Routable(s, call[t].now) /\ Unlocked(s)
    <3>1. call[t].body \in Bodies
      BY DEF CreateRoute, KeyLocked, IInv, CallShape, Shaped
    <3> QED
      BY <3>1, OutboundAssumption DEF Candidates, Body
  <2> QED
    BY <1>1, <2>1, <2>2, TakeRouteStep
<1> QED
  BY <1>2, <1>3 DEF CreateRoute

LEMMA CreateRouteConversationStep ==
    ASSUME IInv, NEW t \in Threads, CreateRouteConversation(t)
    PROVE  IInv'
<1> DEFINE s == call[t].body.via
<1>1. UNCHANGED <<clock, device, sim, convs, msg, acks, claims, handed>>
      /\ KeyLocked(t) /\ Existing(call[t].key) = {}
  BY DEF CreateRouteConversation
<1>2. CASE Refuse(t, 409)
  BY <1>1, <1>2, Refusing
<1>3. CASE Refuse(t, 422)
  BY <1>1, <1>3, Refusing
<1>4. CASE /\ s \in convs /\ Unlocked(s)
           /\ Routable(s, call[t].now) /\ TakeRoute(t, s)
  BY <1>1, <1>4, TakeRouteStep DEF IInv, TypeOK
<1> QED
  BY <1>2, <1>3, <1>4 DEF CreateRouteConversation

LEMMA NewMsgFits ==
    ASSUME NEW c \in Call, c.key \in Keys, c.body \in Bodies
    PROVE  NewMsg(c) \in MsgRow
  BY DEF NewMsg, MsgRow, Call, Status, Progress, Never

LEMMA CreateCommitStep ==
    ASSUME IInv, NEW t \in Threads, CreateCommit(t)
    PROVE  IInv'
<1> DEFINE c == call[t]
<1>1. /\ c \in Call /\ c.pc = "holding" /\ c.op = "create"
      /\ c.key \in Keys /\ c.body \in Bodies /\ c.now # Never
      /\ c.sim \in Sims /\ Existing(c.key) = {}
  BY DEF IInv, TypeOK, CallShape, Shaped, StillValid, Validated, CreateCommit, Holding
<1>2. PICK m \in Msgs : /\ ~Present(m)
                        /\ msg' = [msg EXCEPT ![m] = NewMsg(c)]
                        /\ Answer(t, 201, m, "Pending")
  BY DEF CreateCommit
<1>3. NewMsg(c) \in MsgRow
  BY <1>1, NewMsgFits
<1>4. /\ NewMsg(c).state = "Pending" /\ NewMsg(c).rcpt = "Pending"
      /\ NewMsg(c).key = c.key /\ NewMsg(c).body = c.body
      /\ NewMsg(c).pulled = Never /\ NewMsg(c).sent = Never
      /\ NewMsg(c).delivered = Never /\ NewMsg(c).hist = {"Pending"}
  BY DEF NewMsg
<1> DEFINE o == Owes(t, 201, m, "Pending")
<1>5. /\ o \in Call /\ o.pc = "replying" /\ o.op = "create" /\ o.reports = {}
      /\ o.key = c.key /\ o.body = c.body /\ o.msg = m
  BY <1>1, OwesFits, PendingIsAStatus DEF IInv
<1>6. call' = [call EXCEPT ![t] = o]
  BY <1>2 DEF Answer
<1>7. /\ UNCHANGED <<clock, device, sim, acks, claims, handed>>
      /\ convs' = convs \union {c.sim}
  BY DEF CreateCommit
<1>8. \A n \in Msgs : n # m => msg'[n] = msg[n]
  BY <1>2 DEF IInv, TypeOK
<1>9. msg'[m] = NewMsg(c) /\ call'[t] = o /\ Present(m)'
      /\ \A u \in Threads : u # t => call'[u] = call[u]
  BY <1>2, <1>4, <1>6 DEF IInv, TypeOK, Present
<1> HIDE DEF o
<1>a. TypeOK'
  BY <1>1, <1>2, <1>3, <1>5, <1>6, <1>7 DEF IInv, TypeOK
<1>b. CallShape'
  <2>1. Shaped(call[t])'
    BY <1>1, <1>4, <1>5, <1>9 DEF Shaped, Present
  <2>2. ASSUME NEW u \in Threads, u # t PROVE Shaped(call[u])'
    BY <1>2, <1>8, <1>9, <2>2 DEF IInv, CallShape, Shaped, Present
  <2> QED
    BY <2>1, <2>2 DEF CallShape
<1>c. Exclusive'
  BY <1>5, <1>9 DEF IInv, Exclusive
<1>d. StillValid'
  <2> SUFFICES ASSUME NEW u \in Threads, call'[u].pc = "holding"
               PROVE  Validated(call[u])'
    BY DEF StillValid
  <2>1. u # t /\ call'[u] = call[u] /\ call[u].pc = "holding" /\ Validated(call[u])
    BY <1>5, <1>9 DEF IInv, StillValid
  <2>2. (call[u].op = "create") => Existing(call[u].key)' = {}
    BY <1>1, <1>2, <1>4, <1>8, <1>9, <2>1
       DEF IInv, Exclusive, Validated, Existing, Present
  <2>3. (call[u].op = "pull") =>
           \A n \in call[u].batch : msg'[n].state = "Pending" /\ msg'[n].dev = call[u].dev
    BY <1>2, <1>8, <2>1 DEF Validated, Present, IInv, TypeOK, Call
  <2>4. (call[u].op = "status") =>
           \A r \in call[u].reports : Acceptable(r, call[u])'
    BY <1>2, <1>8, <1>9, <2>1
       DEF Validated, Acceptable, Present, IInv, TypeOK, Call, Report
  <2> QED
    BY <1>7, <2>1, <2>2, <2>3, <2>4 DEF Validated, Usable
<1>e. Unclaimed' /\ ClaimedOnce'
  BY <1>2, <1>7, <1>8 DEF IInv, Unclaimed, ClaimedOnce, Present
<1>f. RowsAgree'
  BY <1>2, <1>4, <1>7, <1>8, <1>9 DEF IInv, RowsAgree, Unclaimed, Present
<1>g. OneMessagePerKey'
  BY <1>1, <1>2, <1>4, <1>8, <1>9 DEF IInv, OneMessagePerKey, Existing, Present
<1>h. AcksNameTheMessage'
  BY <1>2, <1>7, <1>8 DEF IInv, AcksNameTheMessage, Present, TypeOK, Ack
<1>i. clock' # Never
  BY <1>7 DEF IInv
<1> QED
  BY <1>a, <1>b, <1>c, <1>d, <1>e, <1>f, <1>g, <1>h, <1>i DEF IInv

-----------------------------------------------------------------------------
(* The calls of a device *)

\* Only the kinds of call a device makes enter through DeviceEnter.
LEMMA DeviceEnterStep ==
    ASSUME IInv, NEW t \in Threads, NEW c \in Call,
           c.op \in {"pull", "status", "update"}, c.dev \in Devices,
           c.reports \in Batches \union {{}}, DeviceEnter(t, c)
    PROVE  IInv'
<1> DEFINE w == [c EXCEPT !.pc = "waiting", !.now = clock]
<1>1. w \in Call
  BY With_pc, With_now DEF IInv, TypeOK
<1>2. /\ w.pc = "waiting" /\ w.now = clock /\ w.op = c.op
      /\ w.dev = c.dev /\ w.reports = c.reports
  BY DEF Call
<1>3. call' = [call EXCEPT ![t] = w]
  BY DEF DeviceEnter
<1>4. Shaped(w)
  BY <1>2 DEF Shaped, IInv
<1>5. /\ acks' \in [Keys -> SUBSET Ack] /\ AcksNameTheMessage'
      /\ handed' \subseteq Msgs
      /\ UNCHANGED <<clock, device, sim, convs, msg, claims>>
  BY DEF DeviceEnter, IInv, TypeOK, AcksNameTheMessage, Present
<1> HIDE DEF w
<1> QED
  BY <1>1, <1>2, <1>3, <1>4, <1>5, LettingGo

LEMMA PullEnterStep ==
    ASSUME IInv, NEW t \in Threads, NEW d \in Devices, NEW fifo \in Orders,
           PullEnter(t, d, fifo)
    PROVE  IInv'
<1> DEFINE c == [IdleCall EXCEPT !.op = "pull", !.dev = d, !.fifo = fifo]
<1>1. c \in Call
  BY IdleCallFits, With_op, With_dev, With_fifo, OutboundAssumption
<1>2. c.op = "pull" /\ c.dev = d /\ c.reports = {}
  BY DEF IdleCall
<1> QED
  BY <1>1, <1>2, DeviceEnterStep DEF PullEnter

LEMMA StatusEnterStep ==
    ASSUME IInv, NEW t \in Threads, NEW d \in Devices, NEW B \in Batches,
           StatusEnter(t, d, B)
    PROVE  IInv'
<1> DEFINE c == [IdleCall EXCEPT !.op = "status", !.dev = d, !.reports = B]
<1>1. c \in Call
  BY IdleCallFits, With_op, With_dev, With_reports, OutboundAssumption
<1>2. c.op = "status" /\ c.dev = d /\ c.reports = B
  BY DEF IdleCall
<1> QED
  BY <1>1, <1>2, DeviceEnterStep DEF StatusEnter

LEMMA UpdateEnterStep ==
    ASSUME IInv, NEW t \in Threads, NEW d \in Devices, NEW list \in SimLists,
           UpdateEnter(t, d, list)
    PROVE  IInv'
<1> DEFINE c == [IdleCall EXCEPT !.op = "update", !.dev = d, !.list = list]
<1>1. c \in Call
  BY IdleCallFits, With_op, With_dev, With_list, OutboundAssumption
<1>2. c.op = "update" /\ c.dev = d /\ c.reports = {}
  BY DEF IdleCall
<1> QED
  BY <1>1, <1>2, DeviceEnterStep DEF UpdateEnter

LEMMA DeviceRefusedStep ==
    ASSUME IInv, NEW t \in Threads, DeviceRefused(t)
    PROVE  IInv'
  BY Refusing DEF DeviceRefused

LEMMA PullClaimStep ==
    ASSUME IInv, NEW t \in Threads, PullClaim(t)
    PROVE  IInv'
<1> DEFINE due == {m \in Msgs : Present(m) /\ Due(m, call[t])}
<1>1. PICK B \in SUBSET due :
          call' = [call EXCEPT ![t].pc = "holding", ![t].batch = B]
  BY DEF PullClaim
<1> DEFINE c == [call[t] EXCEPT !.pc = "holding", !.batch = B]
<1>2. c \in Call
  BY With_pc, With_batch DEF IInv, TypeOK
<1>3. /\ c.pc = "holding" /\ c.batch = B /\ c.op = "pull"
      /\ c.dev = call[t].dev /\ c.reports = call[t].reports
      /\ c.now = call[t].now
  BY DEF IInv, TypeOK, Call, PullClaim, DeviceLocked
<1>4. call' = [call EXCEPT ![t] = c]
  BY <1>1 DEF IInv, TypeOK
<1>5. Shaped(c)
  BY <1>3 DEF Shaped, IInv, CallShape, PullClaim, DeviceLocked
<1>6. Validated(c)
  BY <1>3, <1>5 DEF Validated, Shaped, Due, PullClaim
<1>7. DeviceFree(c.dev)
      /\ UNCHANGED <<clock, device, sim, convs, msg, acks, claims, handed>>
  BY <1>3 DEF PullClaim, DeviceLocked
<1> HIDE DEF c
<1> QED
  BY <1>2, <1>3, <1>4, <1>5, <1>6, <1>7, Claiming

LEMMA StatusClaimStep ==
    ASSUME IInv, NEW t \in Threads, StatusClaim(t)
    PROVE  IInv'
<1> DEFINE c == [call[t] EXCEPT !.pc = "holding"]
<1>0. UNCHANGED <<clock, device, sim, convs, msg, acks, claims, handed>>
  BY DEF StatusClaim
<1>1. CASE Refuse(t, 409)
  BY <1>0, <1>1, Refusing
<1>2. CASE /\ \A r \in call[t].reports : Acceptable(r, call[t])
           /\ call' = [call EXCEPT ![t].pc = "holding"]
  <2>1. c \in Call
    BY With_pc DEF IInv, TypeOK
  <2>2. /\ c.pc = "holding" /\ c.op = "status"
        /\ c.dev = call[t].dev /\ c.reports = call[t].reports
        /\ c.now = call[t].now
    BY DEF IInv, TypeOK, Call, StatusClaim, DeviceLocked
  <2>3. call' = [call EXCEPT ![t] = c]
    BY <1>2 DEF IInv, TypeOK
  <2>4. Shaped(c)
    BY <2>2 DEF Shaped, IInv, CallShape, StatusClaim, DeviceLocked
  <2>5. Validated(c)
    <3>1. \A r \in c.reports : Acceptable(r, c)
      BY <1>2, <2>2 DEF Acceptable
    <3> QED
      BY <2>2, <2>4, <3>1 DEF Validated, Shaped, StatusClaim
  <2>6. DeviceFree(c.dev)
    BY <2>2 DEF StatusClaim, DeviceLocked
  <2> HIDE DEF c
  <2> QED
    BY <1>0, <2>1, <2>2, <2>3, <2>4, <2>5, <2>6, Claiming
<1> QED
  BY <1>1, <1>2 DEF StatusClaim

LEMMA UpdateClaimStep ==
    ASSUME IInv, NEW t \in Threads, UpdateClaim(t)
    PROVE  IInv'
<1> DEFINE c == [call[t] EXCEPT !.pc = "holding"]
<1>1. c \in Call
  BY With_pc DEF IInv, TypeOK
<1>2. /\ c.pc = "holding" /\ c.op = "update"
      /\ c.dev = call[t].dev /\ c.reports = call[t].reports
      /\ c.now = call[t].now
  BY DEF IInv, TypeOK, Call, UpdateClaim, DeviceLocked
<1>3. call' = [call EXCEPT ![t] = c]
  BY DEF IInv, TypeOK, UpdateClaim
<1>4. Shaped(c)
  BY <1>2 DEF Shaped, IInv, CallShape, UpdateClaim, DeviceLocked
<1>5. Validated(c)
  BY <1>2, <1>4 DEF Validated, Shaped, UpdateClaim
<1>6. DeviceFree(c.dev)
      /\ UNCHANGED <<clock, device, sim, convs, msg, acks, claims, handed>>
  BY <1>2 DEF UpdateClaim, DeviceLocked
<1> HIDE DEF c
<1> QED
  BY <1>1, <1>2, <1>3, <1>4, <1>5, <1>6, Claiming

-----------------------------------------------------------------------------
(* The commits of a device's calls *)

\* A row of a message stays one when a column is given a value of its type.
LEMMA Row_state ==
    ASSUME NEW r \in MsgRow, NEW v \in Status \union {"Absent"}
    PROVE  [r EXCEPT !.state = v] \in MsgRow
  BY DEF MsgRow

LEMMA Row_rcpt ==
    ASSUME NEW r \in MsgRow, NEW v \in Status
    PROVE  [r EXCEPT !.rcpt = v] \in MsgRow
  BY DEF MsgRow

LEMMA Row_sim ==
    ASSUME NEW r \in MsgRow, NEW v \in Sims \union {Nil}
    PROVE  [r EXCEPT !.sim = v] \in MsgRow
  BY DEF MsgRow

LEMMA Row_pulled ==
    ASSUME NEW r \in MsgRow, NEW v \in Nat
    PROVE  [r EXCEPT !.pulled = v] \in MsgRow
  BY DEF MsgRow

LEMMA Row_sent ==
    ASSUME NEW r \in MsgRow, NEW v \in Nat
    PROVE  [r EXCEPT !.sent = v] \in MsgRow
  BY DEF MsgRow

LEMMA Row_delivered ==
    ASSUME NEW r \in MsgRow, NEW v \in Nat
    PROVE  [r EXCEPT !.delivered = v] \in MsgRow
  BY DEF MsgRow

LEMMA Row_hist ==
    ASSUME NEW r \in MsgRow, NEW v \in SUBSET Status
    PROVE  [r EXCEPT !.hist = v] \in MsgRow
  BY DEF MsgRow

\* A commit that writes rows of its own device only, and neither keys nor
\* bodies, leaves the other calls right about what they hold.
LEMMA Committing ==
    ASSUME IInv, NEW t \in Threads,
           call[t].pc = "holding", call[t].op # "create",
           Answer(t, 200, Nil, "Pending"),
           \A d \in Devices : device'[d].enabled = device[d].enabled,
           \A s \in Sims : Home[s] # call[t].dev => sim'[s] = sim[s]
                                 \/ (Usable(s)' <=> Usable(s)),
           \A m \in Msgs :
               /\ msg'[m].key = msg[m].key /\ msg'[m].body = msg[m].body
               /\ Present(m)' <=> Present(m)
               /\ msg[m].dev # call[t].dev => msg'[m] = msg[m],
           UNCHANGED acks
    PROVE  CallShape' /\ Exclusive' /\ StillValid' /\ OneMessagePerKey'
           /\ AcksNameTheMessage' /\ call' \in [Threads -> Call]
<1> DEFINE o == Owes(t, 200, Nil, "Pending")
<1>1. /\ o \in Call /\ o.pc = "replying" /\ o.op # "create" /\ o.reports = {}
  BY OwesFits, PendingIsAStatus DEF IInv
<1>2. call' = [call EXCEPT ![t] = o]
  BY DEF Answer
<1>3. call'[t] = o /\ \A u \in Threads : u # t => call'[u] = call[u]
  BY <1>2 DEF IInv, TypeOK
<1> HIDE DEF o
<1>4. CallShape'
  <2>1. Shaped(call[t])'
    BY <1>1, <1>3 DEF Shaped
  <2>2. ASSUME NEW u \in Threads, u # t PROVE Shaped(call[u])'
    BY <1>3, <2>2 DEF IInv, CallShape, Shaped
  <2> QED
    BY <2>1, <2>2 DEF CallShape
<1>5. Exclusive'
  BY <1>1, <1>3 DEF IInv, Exclusive
<1>6. StillValid'
  <2> SUFFICES ASSUME NEW u \in Threads, call'[u].pc = "holding"
               PROVE  Validated(call[u])'
    BY DEF StillValid
  <2>1. u # t /\ call'[u] = call[u] /\ call[u].pc = "holding" /\ Validated(call[u])
    BY <1>1, <1>3 DEF IInv, StillValid
  <2>2. call[u].dev # call[t].dev
    BY <2>1 DEF IInv, Exclusive
  <2>3. (call[u].op = "create") =>
           Existing(call[u].key)' = {} /\ Usable(call[u].sim)'
    BY <2>1, <2>2 DEF Validated, Existing, Usable
  <2>4. (call[u].op = "pull") =>
           \A n \in call[u].batch : msg'[n].state = "Pending" /\ msg'[n].dev = call[u].dev
    BY <2>1, <2>2 DEF Validated, IInv, TypeOK, Call
  <2>5. (call[u].op = "status") =>
           \A r \in call[u].reports : Acceptable(r, call[u])'
    BY <2>1, <2>2 DEF Validated, Acceptable, Present, IInv, TypeOK, Call, Report
  <2> QED
    BY <2>1, <2>3, <2>4, <2>5 DEF Validated
<1>7. OneMessagePerKey'
  BY DEF IInv, OneMessagePerKey
<1>8. AcksNameTheMessage'
  BY DEF IInv, AcksNameTheMessage, TypeOK, Ack
<1>9. call' \in [Threads -> Call]
  BY <1>1, <1>2 DEF IInv, TypeOK
<1> QED
  BY <1>4, <1>5, <1>6, <1>7, <1>8, <1>9

\* A heartbeat touches last_seen_at of one device.
LEMMA HeartbeatEffect ==
    ASSUME TypeOK, NEW c \in Call, c.dev \in Devices, Heartbeat(c)
    PROVE  /\ device' \in [Devices -> DeviceRow]
           /\ \A d \in Devices : device'[d].enabled = device[d].enabled
           /\ \A d \in Devices : d # c.dev => device'[d] = device[d]
  BY DEF Heartbeat, TypeOK, DeviceRow, Call

LEMMA PulledFits ==
    ASSUME NEW r \in MsgRow, NEW now \in Nat
    PROVE  [r EXCEPT !.state = "Processed", !.pulled = now,
                     !.hist = @ \union {"Processed"}] \in MsgRow
<1> DEFINE q1 == [r EXCEPT !.state = "Processed"]
           q2 == [q1 EXCEPT !.pulled = now]
<1>1. q1 \in MsgRow
  BY Row_state, PendingIsAStatus
<1> HIDE DEF q1
<1>2. q2 \in MsgRow
  BY <1>1, Row_pulled
<1> HIDE DEF q2
<1>3. [q2 EXCEPT !.hist = q2.hist \union {"Processed"}] \in MsgRow
  BY <1>2, Row_hist, PendingIsAStatus DEF MsgRow
<1> QED
  BY <1>3 DEF q1, q2

LEMMA PullCommitStep ==
    ASSUME IInv, NEW t \in Threads, PullCommit(t)
    PROVE  IInv'
<1> DEFINE c == call[t]
           P(m) == [msg[m] EXCEPT !.state = "Processed", !.pulled = c.now,
                                  !.hist = @ \union {"Processed"}]
<1>0. c \in Call /\ c.now \in Nat /\ c.batch \subseteq Msgs
  BY DEF IInv, TypeOK, Call
<1>1. /\ c.pc = "holding" /\ c.op = "pull" /\ c.now # Never /\ c.dev \in Devices
      /\ \A m \in c.batch : msg[m].state = "Pending" /\ msg[m].dev = c.dev
  BY DEF IInv, CallShape, Shaped, StillValid, Validated, PullCommit, Holding
<1>2. \A m \in Msgs : P(m) \in MsgRow
  BY <1>0, PulledFits DEF IInv, TypeOK
<1>3. \A m \in Msgs :
         /\ P(m).state = "Processed" /\ P(m).pulled = c.now
         /\ P(m).hist = msg[m].hist \union {"Processed"}
         /\ P(m).rcpt = msg[m].rcpt /\ P(m).key = msg[m].key
         /\ P(m).body = msg[m].body /\ P(m).dev = msg[m].dev
         /\ P(m).sent = msg[m].sent /\ P(m).delivered = msg[m].delivered
  BY DEF IInv, TypeOK, MsgRow
<1>4. /\ msg' = [m \in Msgs |-> IF m \in c.batch THEN P(m) ELSE msg[m]]
      /\ claims' = [m \in Msgs |-> IF m \in c.batch THEN claims[m] + 1
                                                    ELSE claims[m]]
      /\ Heartbeat(c) /\ Answer(t, 200, Nil, "Pending")
      /\ UNCHANGED <<clock, sim, convs, acks, handed>>
  BY DEF PullCommit
<1> HIDE DEF P
<1>5. \A m \in Msgs : /\ m \in c.batch => msg'[m] = P(m) /\ claims'[m] = claims[m] + 1
                      /\ m \notin c.batch => msg'[m] = msg[m] /\ claims'[m] = claims[m]
  BY <1>4
<1>6. /\ device' \in [Devices -> DeviceRow]
      /\ \A d \in Devices : device'[d].enabled = device[d].enabled
  BY <1>0, <1>1, <1>4, HeartbeatEffect DEF IInv
<1>7. \A m \in Msgs :
               /\ msg'[m].key = msg[m].key /\ msg'[m].body = msg[m].body
               /\ Present(m)' <=> Present(m)
               /\ msg[m].dev # call[t].dev => msg'[m] = msg[m]
  BY <1>0, <1>1, <1>3, <1>5 DEF Present
<1>8. CallShape' /\ Exclusive' /\ StillValid' /\ OneMessagePerKey'
      /\ AcksNameTheMessage' /\ call' \in [Threads -> Call]
  BY <1>1, <1>4, <1>6, <1>7, Committing
<1>9. TypeOK'
  BY <1>2, <1>4, <1>6, <1>8 DEF IInv, TypeOK
<1>a. Unclaimed' /\ ClaimedOnce'
  BY <1>0, <1>1, <1>3, <1>5 DEF IInv, TypeOK, Unclaimed, ClaimedOnce
<1>b. RowsAgree'
  BY <1>0, <1>1, <1>3, <1>5, <1>7 DEF IInv, RowsAgree
<1> QED
  BY <1>4, <1>8, <1>9, <1>a, <1>b DEF IInv

LEMMA ReportedFits ==
    ASSUME NEW m \in MsgRow, NEW r \in Report
    PROVE  Reported(m, r) \in MsgRow
<1>0. /\ r.state \in Status
      /\ r.at["Processed"] \in Nat /\ r.at["Sent"] \in Nat
      /\ r.at["Delivered"] \in Nat
      /\ m.pulled \in Nat /\ m.sent \in Nat /\ m.delivered \in Nat
  BY DEF Report, MsgRow, Status, Progress
<1> DEFINE q1 == [m EXCEPT !.state = r.state]
           q2 == [q1 EXCEPT !.rcpt = r.state]
           q3 == [q2 EXCEPT !.pulled = FirstOf(m.pulled, r.at["Processed"])]
           q4 == [q3 EXCEPT !.sent = FirstOf(m.sent, r.at["Sent"])]
           q5 == [q4 EXCEPT !.delivered = FirstOf(m.delivered, r.at["Delivered"])]
           q6 == [q5 EXCEPT !.hist = m.hist \union {s \in Status : r.at[s] # Never}]
<1>1. q1 \in MsgRow
  BY <1>0, Row_state
<1>2. q2 \in MsgRow
  <2> HIDE DEF q1
  <2> QED
    BY <1>0, <1>1, Row_rcpt
<1>3. q3 \in MsgRow
  <2>1. FirstOf(m.pulled, r.at["Processed"]) \in Nat
    BY <1>0 DEF FirstOf
  <2> HIDE DEF q2
  <2> QED
    BY <2>1, <1>2, Row_pulled
<1>4. q4 \in MsgRow
  <2>1. FirstOf(m.sent, r.at["Sent"]) \in Nat
    BY <1>0 DEF FirstOf
  <2> HIDE DEF q3
  <2> QED
    BY <2>1, <1>3, Row_sent
<1>5. q5 \in MsgRow
  <2>1. FirstOf(m.delivered, r.at["Delivered"]) \in Nat
    BY <1>0 DEF FirstOf
  <2> HIDE DEF q4
  <2> QED
    BY <2>1, <1>4, Row_delivered
<1>6. q6 \in MsgRow
  <2>1. m.hist \union {s \in Status : r.at[s] # Never} \in SUBSET Status
    BY DEF MsgRow
  <2> HIDE DEF q5
  <2> QED
    BY <2>1, <1>5, Row_hist
<1>7. Reported(m, r) = q6
  BY DEF Reported
<1> QED
  BY <1>6, <1>7

LEMMA ReportedFields ==
    ASSUME NEW m \in MsgRow, NEW r \in Report
    PROVE  /\ Reported(m, r).state = r.state /\ Reported(m, r).rcpt = r.state
           /\ Reported(m, r).pulled = FirstOf(m.pulled, r.at["Processed"])
           /\ Reported(m, r).sent = FirstOf(m.sent, r.at["Sent"])
           /\ Reported(m, r).delivered = FirstOf(m.delivered, r.at["Delivered"])
           /\ Reported(m, r).hist = m.hist \union {s \in Status : r.at[s] # Never}
           /\ Reported(m, r).key = m.key /\ Reported(m, r).body = m.body
           /\ Reported(m, r).dev = m.dev
  BY DEF Reported, MsgRow

\* What is known of each item of a batch whose call is about to commit.
LEMMA HeldReports ==
    ASSUME IInv, NEW t \in Threads, Holding(t, "status"),
           NEW r \in call[t].reports
    PROVE  /\ r \in Report /\ r.id \in Msgs /\ r.state \in Status
           /\ r.at \in [Status -> Nat]
           /\ WellFormedTimes(r.state, r.at)
           /\ Acceptable(r, call[t])
<1>1. call[t].reports \in Batches
  BY DEF IInv, CallShape, Shaped
<1>2. r \in Report /\ WellFormedTimes(r.state, r.at)
  BY <1>1, OutboundAssumption
<1>3. Acceptable(r, call[t])
  BY DEF IInv, StillValid, Validated, Holding
<1> QED
  BY <1>2, <1>3 DEF Report

LEMMA StatusCommitStep ==
    ASSUME IInv, NEW t \in Threads, StatusCommit(t)
    PROVE  IInv'
<1> DEFINE c == call[t]
           rep(m) == CHOOSE r \in c.reports : r.id = m
           hit(m) == \E r \in c.reports : r.id = m
<1>0. c \in Call /\ c.now \in Nat
  BY DEF IInv, TypeOK, Call
<1>1. c.pc = "holding" /\ c.op = "status" /\ c.dev \in Devices /\ Holding(t, "status")
  BY DEF IInv, CallShape, Shaped, StatusCommit, Holding
<1>2. /\ msg' = [m \in Msgs |-> IF hit(m) THEN Reported(msg[m], rep(m)) ELSE msg[m]]
      /\ Heartbeat(c) /\ Answer(t, 200, Nil, "Pending")
      /\ UNCHANGED <<clock, convs, acks, claims, handed>>
  BY DEF StatusCommit
<1>3. \A m \in Msgs : hit(m) => rep(m) \in c.reports /\ rep(m).id = m
  OBVIOUS
<1> HIDE DEF rep, hit
<1>4. \A m \in Msgs : hit(m) =>
         /\ rep(m) \in Report /\ rep(m).state \in Status
         /\ rep(m).at \in [Status -> Nat]
         /\ WellFormedTimes(rep(m).state, rep(m).at)
         /\ Present(m) /\ msg[m].dev = c.dev
         /\ CanTransition(msg[m].state, rep(m).state)
         /\ (rep(m).state \in {"Sent", "Delivered"} /\ msg[m].sent = Never)
               => rep(m).at["Sent"] # Never
  <2> SUFFICES ASSUME NEW m \in Msgs, hit(m)
               PROVE  /\ rep(m) \in Report /\ rep(m).state \in Status
                      /\ rep(m).at \in [Status -> Nat]
                      /\ WellFormedTimes(rep(m).state, rep(m).at)
                      /\ Acceptable(rep(m), c) /\ rep(m).id = m
    BY DEF Acceptable
  <2> QED
    BY <1>1, <1>3, HeldReports
<1>5. \A m \in Msgs : /\ hit(m) => msg'[m] = Reported(msg[m], rep(m))
                      /\ ~hit(m) => msg'[m] = msg[m]
  BY <1>2
<1>6. \A m \in Msgs : msg[m] \in MsgRow /\ msg'[m] \in MsgRow
  BY <1>4, <1>5, ReportedFits DEF IInv, TypeOK
<1>7. /\ device' \in [Devices -> DeviceRow]
      /\ \A d \in Devices : device'[d].enabled = device[d].enabled
  BY <1>0, <1>1, <1>2, HeartbeatEffect DEF IInv
<1>8. /\ sim' \in [Sims -> SimRow]
      /\ \A s \in Sims : Usable(s)' <=> Usable(s)
  <2>1. PICK last \in [Sims -> c.reports \union {Nil}] :
          /\ \A s \in Sims : IF FirstSent(c.reports, s) = {} THEN last[s] = Nil
                              ELSE last[s] \in FirstSent(c.reports, s)
          /\ sim' = [s \in Sims |->
                IF last[s] = Nil THEN sim[s]
                ELSE [sim[s] EXCEPT !.used = last[s].at["Sent"]]]
    BY DEF StatusCommit
  <2>2. \A s \in Sims : last[s] # Nil => last[s].at["Sent"] \in Nat
    BY <1>1, <2>1, HeldReports DEF Status, Progress
  <2> QED
    BY <2>1, <2>2 DEF IInv, TypeOK, SimRow, Usable
<1>9. \A m \in Msgs :
               /\ msg'[m].key = msg[m].key /\ msg'[m].body = msg[m].body
               /\ Present(m)' <=> Present(m)
               /\ msg[m].dev # call[t].dev => msg'[m] = msg[m]
  BY <1>4, <1>5, <1>6, ReportedFields DEF Present, Status, Progress
<1>a. CallShape' /\ Exclusive' /\ StillValid' /\ OneMessagePerKey'
      /\ AcksNameTheMessage' /\ call' \in [Threads -> Call]
  BY <1>1, <1>2, <1>7, <1>8, <1>9, Committing
<1>b. TypeOK'
  BY <1>2, <1>6, <1>7, <1>8, <1>a DEF IInv, TypeOK
<1>c. Unclaimed' /\ ClaimedOnce'
  <2> SUFFICES ASSUME NEW m \in Msgs, msg'[m].state \in {"Absent", "Pending"}
               PROVE  claims[m] = 0
    BY <1>2 DEF IInv, Unclaimed, ClaimedOnce
  <2>1. CASE hit(m)
    <3>1. msg'[m].state = rep(m).state /\ CanTransition(msg[m].state, rep(m).state)
      BY <1>4, <1>5, <1>6, <2>1, ReportedFields
    <3>2. msg[m].state \in Status
      BY <1>4, <1>6, <2>1 DEF MsgRow, Present
    <3>3. msg[m].state = "Pending"
      BY <1>4, <2>1, <3>1, <3>2 DEF CanTransition, Rank, Progress, Status, Terminal
    <3> QED
      BY <3>3 DEF IInv, Unclaimed
  <2>2. CASE ~hit(m)
    BY <1>5, <2>2 DEF IInv, Unclaimed
  <2> QED
    BY <2>1, <2>2
<1>d. RowsAgree'
  <2> SUFFICES ASSUME NEW m \in Msgs, Present(m)'
               PROVE  LET r == msg'[m] IN
                      /\ r.state \in r.hist
                      /\ r.rcpt = r.state \/ (r.rcpt = "Pending" /\ r.state = "Processed")
                      /\ r.pulled # Never <=> "Processed" \in r.hist
                      /\ r.sent # Never <=> "Sent" \in r.hist
                      /\ r.delivered # Never <=> "Delivered" \in r.hist
                      /\ r.state \in {"Sent", "Delivered"} => r.sent # Never
                      /\ claims'[m] > 0 => r.pulled # Never /\ r.state # "Pending"
    BY DEF RowsAgree
  <2>1. CASE hit(m)
    <3> DEFINE r == msg[m]  p == rep(m)  n == msg'[m]
    <3>1. /\ n.state = p.state /\ n.rcpt = p.state
          /\ n.pulled = FirstOf(r.pulled, p.at["Processed"])
          /\ n.sent = FirstOf(r.sent, p.at["Sent"])
          /\ n.delivered = FirstOf(r.delivered, p.at["Delivered"])
          /\ n.hist = r.hist \union {s \in Status : p.at[s] # Never}
      BY <1>4, <1>5, <1>6, <2>1, ReportedFields
    <3>2. /\ r.pulled # Never <=> "Processed" \in r.hist
          /\ r.sent # Never <=> "Sent" \in r.hist
          /\ r.delivered # Never <=> "Delivered" \in r.hist
          /\ claims[m] > 0 => r.pulled # Never /\ r.state # "Pending"
      BY <1>4, <2>1 DEF IInv, RowsAgree
    <3>3. p.state \in Status /\ p.at[p.state] # Never
      BY <1>4, <2>1 DEF WellFormedTimes
    <3>4. claims'[m] > 0 => claims[m] > 0 /\ n.state # "Pending"
      <4>1. claims'[m] = claims[m] /\ claims[m] \in Nat
        BY <1>2 DEF IInv, TypeOK
      <4>2. n.state = "Pending" => claims[m] = 0
        BY <1>2, <1>c DEF Unclaimed
      <4> QED
        BY <4>1, <4>2
    <3>5. n.state \in {"Sent", "Delivered"} => n.sent # Never
      BY <1>4, <2>1, <3>1 DEF FirstOf
    <3>6. "Processed" \in Status /\ "Sent" \in Status /\ "Delivered" \in Status
      BY DEF Status, Progress
    <3> HIDE DEF r, p, n
    <3>7. /\ n.state \in n.hist
          /\ n.pulled # Never <=> "Processed" \in n.hist
          /\ n.sent # Never <=> "Sent" \in n.hist
          /\ n.delivered # Never <=> "Delivered" \in n.hist
      BY <3>1, <3>2, <3>3, <3>6 DEF FirstOf
    <3> QED
      BY <3>1, <3>2, <3>4, <3>5, <3>7 DEF n, r, FirstOf
  <2>2. CASE ~hit(m)
    BY <1>2, <1>5, <1>9, <2>2 DEF IInv, RowsAgree
  <2> QED
    BY <2>1, <2>2
<1> QED
  BY <1>2, <1>a, <1>b, <1>c, <1>d DEF IInv

LEMMA UpdateCommitStep ==
    ASSUME IInv, NEW t \in Threads, UpdateCommit(t)
    PROVE  IInv'
<1> DEFINE c == call[t]
<1>0. c \in Call
  BY DEF IInv, TypeOK
<1>1. c.pc = "holding" /\ c.op = "update" /\ c.dev \in Devices
  BY DEF IInv, CallShape, Shaped, UpdateCommit, Holding
<1>2. /\ Heartbeat(c) /\ Answer(t, 200, Nil, "Pending")
      /\ UNCHANGED <<clock, convs, msg, acks, claims, handed>>
  BY DEF UpdateCommit
<1>3. /\ device' \in [Devices -> DeviceRow]
      /\ \A d \in Devices : device'[d].enabled = device[d].enabled
  BY <1>0, <1>1, <1>2, HeartbeatEffect DEF IInv
<1>4. /\ sim' \in [Sims -> SimRow]
      /\ \A s \in Sims : Home[s] # c.dev => sim'[s] = sim[s]
  BY DEF UpdateCommit, IInv, TypeOK, SimRow, SimStatus, NewSim, Never
<1>5. CallShape' /\ Exclusive' /\ StillValid' /\ OneMessagePerKey'
      /\ AcksNameTheMessage' /\ call' \in [Threads -> Call]
  BY <1>1, <1>2, <1>3, <1>4, Committing DEF Present
<1>6. TypeOK'
  BY <1>2, <1>3, <1>4, <1>5 DEF IInv, TypeOK
<1> QED
  BY <1>2, <1>5, <1>6 DEF IInv, Unclaimed, ClaimedOnce, RowsAgree, Present

-----------------------------------------------------------------------------
(* The administrator, time, answers and crashes *)

\* The administrator waits for the calls that hold the rows he changes, so
\* whatever else he does to SIMs, devices and the SIM column of messages, the
\* calls that hold their locks stay right.
LEMMA Administering ==
    ASSUME IInv, sim' \in [Sims -> SimRow], device' \in [Devices -> DeviceRow],
           convs' \subseteq Sims, msg' \in [Msgs -> MsgRow],
           UNCHANGED <<clock, call, acks, claims, handed>>,
           \A t \in Threads : call[t].pc = "holding" =>
               /\ device'[call[t].dev].enabled = device[call[t].dev].enabled
               /\ call[t].op = "create" => sim'[call[t].sim] = sim[call[t].sim],
           \A m \in Msgs :
               /\ msg'[m].state = msg[m].state /\ msg'[m].rcpt = msg[m].rcpt
               /\ msg'[m].key = msg[m].key /\ msg'[m].body = msg[m].body
               /\ msg'[m].dev = msg[m].dev /\ msg'[m].hist = msg[m].hist
               /\ msg'[m].pulled = msg[m].pulled /\ msg'[m].sent = msg[m].sent
               /\ msg'[m].delivered = msg[m].delivered
    PROVE  IInv'
<1>1. TypeOK'
  BY DEF IInv, TypeOK
<1>2. CallShape'
  BY DEF IInv, CallShape, Shaped, Present
<1>3. Exclusive'
  BY DEF IInv, Exclusive
<1>4. StillValid'
  <2> SUFFICES ASSUME NEW u \in Threads, call[u].pc = "holding"
               PROVE  Validated(call[u])'
    BY DEF StillValid
  <2>1. Validated(call[u])
    BY DEF IInv, StillValid
  <2>2. (call[u].op = "create") =>
           Existing(call[u].key)' = {} /\ Usable(call[u].sim)'
    BY <2>1 DEF Validated, Existing, Present, Usable
  <2>3. (call[u].op = "pull") =>
           \A n \in call[u].batch : msg'[n].state = "Pending" /\ msg'[n].dev = call[u].dev
    BY <2>1 DEF Validated, IInv, TypeOK, Call
  <2>4. (call[u].op = "status") =>
           \A r \in call[u].reports : Acceptable(r, call[u])'
    BY <2>1 DEF Validated, Acceptable, Present, IInv, TypeOK, Call, Report
  <2> QED
    BY <2>1, <2>2, <2>3, <2>4 DEF Validated
<1>5. Unclaimed' /\ ClaimedOnce' /\ OneMessagePerKey' /\ AcksNameTheMessage'
  BY DEF IInv, Unclaimed, ClaimedOnce, OneMessagePerKey, AcksNameTheMessage,
         Present, TypeOK, Ack
<1>6. RowsAgree'
  BY DEF IInv, RowsAgree, Present
<1> QED
  BY <1>1, <1>2, <1>3, <1>4, <1>5, <1>6 DEF IInv

LEMMA SetSimEnabledStep ==
    ASSUME IInv, NEW s \in Sims, NEW on \in BOOLEAN, SetSimEnabled(s, on)
    PROVE  IInv'
<1>1. /\ sim' \in [Sims -> SimRow]
      /\ \A r \in Sims : r # s => sim'[r] = sim[r]
  BY DEF SetSimEnabled, IInv, TypeOK, SimRow, SimStatus
<1>2. \A t \in Threads : Holding(t, "create") => call[t].sim \in Sims /\ call[t].sim # s
  BY DEF SetSimEnabled, SimFree, IInv, StillValid, Validated, Holding
<1>3. UNCHANGED <<clock, device, convs, msg, call, acks, claims, handed>>
  BY DEF SetSimEnabled
<1>4. /\ device' \in [Devices -> DeviceRow] /\ convs' \subseteq Sims
      /\ msg' \in [Msgs -> MsgRow]
  BY <1>3 DEF IInv, TypeOK
<1>5. \A t \in Threads : call[t].pc = "holding" =>
         (call[t].op = "create" => sim'[call[t].sim] = sim[call[t].sim])
  BY <1>1, <1>2 DEF Holding
<1> QED
  BY <1>1, <1>3, <1>4, <1>5, Administering

\* The rows of removed SIMs and the references to them, and nothing else.
LEMMA RemoveSimsEffect ==
    ASSUME IInv, NEW S \in SUBSET Sims, RemoveSims(S)
    PROVE  /\ sim' \in [Sims -> SimRow] /\ convs' \subseteq Sims
           /\ msg' \in [Msgs -> MsgRow]
           /\ \A t \in Threads : Holding(t, "create") => sim'[call[t].sim] = sim[call[t].sim]
           /\ \A m \in Msgs : msg'[m] = msg[m] \/ msg'[m] = [msg[m] EXCEPT !.sim = Nil]
           /\ \A m \in Msgs :
                 /\ msg'[m].state = msg[m].state /\ msg'[m].rcpt = msg[m].rcpt
                 /\ msg'[m].key = msg[m].key /\ msg'[m].body = msg[m].body
                 /\ msg'[m].dev = msg[m].dev /\ msg'[m].hist = msg[m].hist
                 /\ msg'[m].pulled = msg[m].pulled /\ msg'[m].sent = msg[m].sent
                 /\ msg'[m].delivered = msg[m].delivered
<1>1. \A m \in Msgs : msg[m] \in MsgRow
  BY DEF IInv, TypeOK
<1>2. \A m \in Msgs : [msg[m] EXCEPT !.sim = Nil] \in MsgRow
  BY <1>1, Row_sim
<1>3. msg' = [m \in Msgs |-> IF msg[m].sim \in S THEN [msg[m] EXCEPT !.sim = Nil]
                                                 ELSE msg[m]]
  BY DEF RemoveSims
<1>4. msg' \in [Msgs -> MsgRow]
  BY <1>1, <1>2, <1>3
<1>5. \A m \in Msgs : msg'[m] = msg[m] \/ msg'[m] = [msg[m] EXCEPT !.sim = Nil]
  BY <1>3
<1>6. \A m \in Msgs :
         /\ msg'[m].state = msg[m].state /\ msg'[m].rcpt = msg[m].rcpt
         /\ msg'[m].key = msg[m].key /\ msg'[m].body = msg[m].body
         /\ msg'[m].dev = msg[m].dev /\ msg'[m].hist = msg[m].hist
         /\ msg'[m].pulled = msg[m].pulled /\ msg'[m].sent = msg[m].sent
         /\ msg'[m].delivered = msg[m].delivered
  BY <1>1, <1>5 DEF MsgRow
<1>7. sim' \in [Sims -> SimRow] /\ convs' \subseteq Sims
  BY DEF RemoveSims, GoneSim, SimRow, SimStatus, IInv, TypeOK, Never
<1>8. \A t \in Threads : Holding(t, "create") => sim'[call[t].sim] = sim[call[t].sim]
  BY DEF RemoveSims, SimFree, Holding, IInv, StillValid, Validated
<1> QED
  BY <1>4, <1>5, <1>6, <1>7, <1>8

LEMMA DeleteSimStep ==
    ASSUME IInv, NEW s \in Sims, DeleteSim(s)
    PROVE  IInv'
<1>1. RemoveSims({s}) /\ UNCHANGED <<clock, device, call, acks, claims, handed>>
  BY DEF DeleteSim
<1> QED
  BY <1>1, RemoveSimsEffect, Administering DEF Holding, IInv, TypeOK

LEMMA UnregisterDeviceStep ==
    ASSUME IInv, NEW d \in Devices, UnregisterDevice(d)
    PROVE  IInv'
<1> DEFINE S == {s \in Sims : Home[s] = d}
<1>1. RemoveSims(S) /\ UNCHANGED <<clock, call, acks, claims, handed>>
  BY DEF UnregisterDevice
<1>2. /\ device' \in [Devices -> DeviceRow]
      /\ \A e \in Devices : e # d => device'[e] = device[e]
  BY DEF UnregisterDevice, IInv, TypeOK, DeviceRow
<1>3. \A t \in Threads : call[t].pc = "holding" =>
          device'[call[t].dev].enabled = device[call[t].dev].enabled
  BY <1>2 DEF UnregisterDevice, DeviceFree, IInv, StillValid, Validated
<1> HIDE DEF S
<1>4. S \in SUBSET Sims
  BY DEF S
<1> QED
  BY <1>1, <1>2, <1>3, <1>4, RemoveSimsEffect, Administering DEF Holding

LEMMA TickStep ==
    ASSUME IInv, Tick
    PROVE  IInv'
<1>1. clock' \in Nat /\ clock' # Never
  BY DEF Tick, IInv, TypeOK, Never
<1>2. UNCHANGED <<device, sim, convs, msg, call, acks, claims, handed>>
  BY DEF Tick
<1>3. StillValid' /\ CallShape'
  BY <1>2 DEF IInv, StillValid, Validated, Existing, Present, Usable, Acceptable,
              CallShape, Shaped
<1> QED
  BY <1>1, <1>2, <1>3
     DEF IInv, TypeOK, Exclusive, Unclaimed, ClaimedOnce, RowsAgree,
         OneMessagePerKey, AcksNameTheMessage, Present

LEMMA ReplyStep ==
    ASSUME IInv, NEW t \in Threads, Reply(t)
    PROVE  IInv'
<1> DEFINE c == call[t]
           success == c.op = "create" /\ c.code \in {200, 201}
           ack == [body |-> c.body, msg |-> c.msg, state |-> c.state]
<1>1. c \in Call /\ c.pc = "replying"
  BY DEF Reply, IInv, TypeOK
<1>2. acks' = IF success THEN [acks EXCEPT ![c.key] = @ \union {ack}] ELSE acks
  BY DEF Reply
<1>3. success => /\ c.key \in Keys /\ c.body \in Bodies /\ c.msg \in Msgs
                 /\ Present(c.msg)
                 /\ msg[c.msg].key = c.key /\ msg[c.msg].body = c.body
  BY <1>1 DEF IInv, CallShape, Shaped
<1>4. success => ack \in Ack /\ ack.msg = c.msg /\ ack.body = c.body
  BY <1>1, <1>3 DEF Ack, Call
<1>5. acks' \in [Keys -> SUBSET Ack]
  BY <1>2, <1>3, <1>4 DEF IInv, TypeOK
<1>6. /\ UNCHANGED <<clock, device, sim, convs, msg, claims>>
      /\ call' = [call EXCEPT ![t] = IdleCall]
  BY DEF Reply
<1>7. AcksNameTheMessage'
  <2> SUFFICES ASSUME NEW k \in Keys, NEW a \in acks'[k]
               PROVE  /\ Present(a.msg)
                      /\ msg[a.msg].key = k /\ msg[a.msg].body = a.body
    BY <1>6 DEF AcksNameTheMessage, Present
  <2>1. CASE a \in acks[k]
    BY <2>1 DEF IInv, AcksNameTheMessage
  <2>2. CASE a \notin acks[k]
    <3>1. success /\ k = c.key /\ a = ack
      BY <1>2, <1>3, <2>2 DEF IInv, TypeOK
    <3> QED
      BY <1>3, <1>4, <3>1
  <2> QED
    BY <2>1, <2>2
<1>8. handed' \subseteq Msgs
  BY <1>1 DEF Reply, IInv, TypeOK, Call
<1>9. IdleCall.pc # "holding"
  BY DEF IdleCall
<1> QED
  BY <1>5, <1>6, <1>7, <1>8, <1>9, IdleCallFits, LettingGo

LEMMA CrashStep ==
    ASSUME IInv, NEW t \in Threads, Crash(t)
    PROVE  IInv'
<1>1. /\ UNCHANGED <<clock, device, sim, convs, msg, acks, claims, handed>>
      /\ call' = [call EXCEPT ![t] = IdleCall]
  BY DEF Crash
<1>2. acks' \in [Keys -> SUBSET Ack] /\ AcksNameTheMessage' /\ handed' \subseteq Msgs
  BY <1>1 DEF IInv, TypeOK, AcksNameTheMessage, Present
<1>3. IdleCall.pc # "holding"
  BY DEF IdleCall
<1> QED
  BY <1>1, <1>2, <1>3, IdleCallFits, LettingGo

-----------------------------------------------------------------------------
(* The invariant, and what it implies *)

LEMMA InitIInv == Init => IInv
<1> SUFFICES ASSUME Init PROVE IInv
  OBVIOUS
<1>1. TypeOK /\ clock # Never
  BY IdleCallFits
     DEF Init, TypeOK, DeviceRow, NewSim, SimRow, SimStatus, NoMsg, MsgRow,
         Status, Progress, Never
<1>2. CallShape /\ Exclusive /\ StillValid
  <2>1. \A t \in Threads : call[t] = IdleCall
    BY DEF Init
  <2>2. IdleCall.pc = "idle" /\ Shaped(IdleCall)
    BY IdleCallFits DEF IdleCall
  <2> QED
    BY <2>1, <2>2 DEF CallShape, Exclusive, StillValid
<1>3. \A m \in Msgs : ~Present(m) /\ claims[m] = 0
  BY DEF Init, Present, NoMsg
<1>4. AcksNameTheMessage
  BY DEF Init, AcksNameTheMessage
<1> QED
  BY <1>1, <1>2, <1>3, <1>4
     DEF IInv, Unclaimed, ClaimedOnce, RowsAgree, OneMessagePerKey

LEMMA NextIInv == IInv /\ [Next]_vars => IInv'
<1> SUFFICES ASSUME IInv, [Next]_vars PROVE IInv'
  OBVIOUS
<1>1. ASSUME NEW t \in Threads, Enter(t) PROVE IInv'
  BY <1>1, CreateEnterStep, PullEnterStep, StatusEnterStep, UpdateEnterStep DEF Enter
<1>2. ASSUME NEW t \in Threads, CreateStep(t) PROVE IInv'
  BY <1>2, CreateReplayStep, CreateRouteStep, CreateRouteConversationStep,
     CreateCommitStep DEF CreateStep
<1>3. ASSUME NEW t \in Threads, DeviceStep(t) PROVE IInv'
  BY <1>3, DeviceRefusedStep, PullClaimStep, PullCommitStep, StatusClaimStep,
     StatusCommitStep, UpdateClaimStep, UpdateCommitStep DEF DeviceStep
<1>4. ASSUME NEW t \in Threads, Reply(t) PROVE IInv'
  BY <1>4, ReplyStep
<1>5. ASSUME NEW t \in Threads, Crash(t) PROVE IInv'
  BY <1>5, CrashStep
<1>6. CASE Administer
  BY <1>6, SetSimEnabledStep, DeleteSimStep, UnregisterDeviceStep DEF Administer
<1>7. CASE Tick
  BY <1>7, TickStep
<1>8. CASE UNCHANGED vars
  <2>1. StillValid' /\ CallShape'
    BY <1>8 DEF vars, IInv, StillValid, Validated, Existing, Present, Usable,
                Acceptable, CallShape, Shaped
  <2> QED
    BY <1>8, <2>1 DEF vars, IInv, TypeOK, Exclusive, Unclaimed, ClaimedOnce,
                      RowsAgree, OneMessagePerKey, AcksNameTheMessage, Present
<1> QED
  BY <1>1, <1>2, <1>3, <1>4, <1>5, <1>6, <1>7, <1>8 DEF Next, Advance

\* The inductive invariant holds in every behaviour.
THEOREM Invariance == Spec => []IInv
  BY InitIInv, NextIInv, PTL DEF Spec

\* Every variable keeps its type.
THEOREM TypeCorrect == Spec => []TypeOK
<1>1. IInv => TypeOK
  BY DEF IInv
<1> QED
  BY <1>1, Invariance, PTL

\* What a call validated under its locks is still true when it commits,
\* whatever the other calls and the administrator do in between.
THEOREM LocksSuffice == Spec => []StillValid
<1>1. IInv => StillValid
  BY DEF IInv
<1> QED
  BY <1>1, Invariance, PTL

\* Racing creates of one Idempotency-Key insert one message between them.
THEOREM Idempotent == Spec => []OneMessagePerKey
<1>1. IInv => OneMessagePerKey
  BY DEF IInv
<1> QED
  BY <1>1, Invariance, PTL

\* A client that was told 200 or 201 holds the id of the one message of its
\* key, and that message has the body the client sent.
THEOREM AcksTrue == Spec => []AcksNameTheMessage
<1>1. IInv => AcksNameTheMessage
  BY DEF IInv
<1> QED
  BY <1>1, Invariance, PTL

\* No message is handed to a device twice.
THEOREM AtMostOnce == Spec => []ClaimedOnce
<1>1. IInv => ClaimedOnce
  BY DEF IInv
<1> QED
  BY <1>1, Invariance, PTL

\* The columns of a message, its recipient row and its history agree.
THEOREM RowsConsistent == Spec => []RowsAgree
<1>1. IInv => RowsAgree
  BY DEF IInv
<1> QED
  BY <1>1, Invariance, PTL

-----------------------------------------------------------------------------
(* Action properties *)

\* The steps that write the messages table.
LEMMA MessageWrites ==
    ASSUME IInv, [Next]_vars
    PROVE  \/ UNCHANGED <<msg, claims>>
           \/ \E t \in Threads : CreateCommit(t)
           \/ \E t \in Threads : PullCommit(t)
           \/ \E t \in Threads : StatusCommit(t)
           \/ \E S \in SUBSET Sims : RemoveSims(S) /\ UNCHANGED claims
<1>1. ASSUME NEW t \in Threads, Enter(t) PROVE UNCHANGED <<msg, claims>>
  BY <1>1 DEF Enter, CreateEnter, PullEnter, StatusEnter, UpdateEnter, DeviceEnter
<1>2. ASSUME NEW t \in Threads, CreateStep(t) PROVE CreateCommit(t) \/ UNCHANGED <<msg, claims>>
  BY <1>2 DEF CreateStep, CreateReplay, CreateRoute, CreateRouteConversation
<1>3. ASSUME NEW t \in Threads, DeviceStep(t)
      PROVE  PullCommit(t) \/ StatusCommit(t) \/ UNCHANGED <<msg, claims>>
  BY <1>3 DEF DeviceStep, DeviceRefused, PullClaim, StatusClaim, UpdateClaim, UpdateCommit
<1>4. ASSUME NEW t \in Threads, Reply(t) \/ Crash(t) PROVE UNCHANGED <<msg, claims>>
  BY <1>4 DEF Reply, Crash
<1>5. ASSUME Administer
      PROVE  UNCHANGED <<msg, claims>> \/ \E S \in SUBSET Sims : RemoveSims(S) /\ UNCHANGED claims
  <2>1. ASSUME NEW s \in Sims, NEW on \in BOOLEAN, SetSimEnabled(s, on)
        PROVE  UNCHANGED <<msg, claims>>
    BY <2>1 DEF SetSimEnabled
  <2>2. ASSUME NEW s \in Sims, DeleteSim(s)
        PROVE  \E S \in SUBSET Sims : RemoveSims(S) /\ UNCHANGED claims
    <3>1. RemoveSims({s}) /\ UNCHANGED claims /\ {s} \in SUBSET Sims
      BY <2>2 DEF DeleteSim
    <3> QED
      BY <3>1
  <2>3. ASSUME NEW d \in Devices, UnregisterDevice(d)
        PROVE  \E S \in SUBSET Sims : RemoveSims(S) /\ UNCHANGED claims
    <3>1. RemoveSims({s \in Sims : Home[s] = d}) /\ UNCHANGED claims
      BY <2>3 DEF UnregisterDevice
    <3> QED
      BY <3>1
  <2> QED
    BY <1>5, <2>1, <2>2, <2>3 DEF Administer
<1>6. ASSUME Tick \/ UNCHANGED vars PROVE UNCHANGED <<msg, claims>>
  BY <1>6 DEF Tick, vars
<1> QED
  BY <1>1, <1>2, <1>3, <1>4, <1>5, <1>6 DEF Next, Advance

\* What the three commits do to a message that exists.
LEMMA PullWrites ==
    ASSUME IInv, NEW t \in Threads, PullCommit(t), NEW m \in Msgs, msg'[m] # msg[m]
    PROVE  /\ m \in call[t].batch
           /\ msg[m].state = "Pending" /\ msg[m].dev = call[t].dev
           /\ msg'[m].state = "Processed" /\ msg'[m].rcpt = msg[m].rcpt
           /\ msg'[m].dev = msg[m].dev /\ msg'[m].key = msg[m].key
           /\ msg'[m].sent = msg[m].sent /\ msg'[m].delivered = msg[m].delivered
           /\ msg'[m].hist = msg[m].hist \union {"Processed"}
           /\ device[call[t].dev].enabled
<1>1. msg[m] \in MsgRow
  BY DEF IInv, TypeOK
<1>2. /\ m \in call[t].batch
      /\ msg'[m] = [msg[m] EXCEPT !.state = "Processed", !.pulled = call[t].now,
                                  !.hist = @ \union {"Processed"}]
  BY DEF PullCommit
<1>3. Validated(call[t]) /\ call[t].op = "pull"
  BY DEF PullCommit, Holding, IInv, StillValid
<1> QED
  BY <1>1, <1>2, <1>3 DEF Validated, MsgRow

LEMMA StatusWrites ==
    ASSUME IInv, NEW t \in Threads, StatusCommit(t), NEW m \in Msgs, msg'[m] # msg[m]
    PROVE  \E r \in call[t].reports :
              /\ r.id = m /\ r \in Report
              /\ Acceptable(r, call[t]) /\ device[call[t].dev].enabled
              /\ msg'[m] = Reported(msg[m], r)
<1>1. msg' = [n \in Msgs |->
         IF \E r \in call[t].reports : r.id = n
         THEN Reported(msg[n], CHOOSE r \in call[t].reports : r.id = n)
         ELSE msg[n]]
  BY DEF StatusCommit
<1>2. PICK r \in call[t].reports : r.id = m /\ msg'[m] = Reported(msg[m], r)
  BY <1>1
<1>3. Holding(t, "status")
  BY DEF StatusCommit
<1>4. r \in Report /\ Acceptable(r, call[t])
  BY <1>3, HeldReports
<1>5. device[call[t].dev].enabled
  BY <1>3 DEF IInv, StillValid, Validated, Holding
<1> QED
  BY <1>2, <1>4, <1>5

LEMMA CreateWrites ==
    ASSUME IInv, NEW t \in Threads, CreateCommit(t)
    PROVE  /\ \E m \in Msgs : /\ ~Present(m) /\ msg' = [msg EXCEPT ![m] = NewMsg(call[t])]
                              /\ Answer(t, 201, m, "Pending")
           /\ Validated(call[t]) /\ call[t].op = "create"
           /\ call[t].key \in Keys /\ UNCHANGED <<sim, device, claims>>
  BY DEF CreateCommit, Holding, IInv, StillValid, CallShape, Shaped

\* An existing message keeps its identity.
NoStepBack(m) ==
    Present(m) =>
       /\ CanTransition(msg[m].state, msg'[m].state)
       /\ CanTransition(msg[m].rcpt, msg'[m].rcpt)
       /\ msg[m].sent # Never => msg'[m].sent = msg[m].sent
       /\ msg[m].delivered # Never => msg'[m].delivered = msg[m].delivered
       /\ msg[m].hist \subseteq msg'[m].hist

LEMMA StepForward ==
    ASSUME IInv, [Next]_vars, NEW m \in Msgs
    PROVE  NoStepBack(m)
<1>1. CASE msg'[m] = msg[m]
  BY <1>1 DEF NoStepBack, CanTransition
<1>2. ASSUME NEW t \in Threads, CreateCommit(t), msg'[m] # msg[m] PROVE NoStepBack(m)
  <2>1. PICK n \in Msgs : ~Present(n) /\ msg' = [msg EXCEPT ![n] = NewMsg(call[t])]
    BY <1>2, CreateWrites
  <2>2. msg \in [Msgs -> MsgRow]
    BY DEF IInv, TypeOK
  <2>3. m = n
    BY <1>2, <2>1, <2>2
  <2> QED
    BY <2>1, <2>3 DEF NoStepBack
<1>3. ASSUME NEW t \in Threads, PullCommit(t), msg'[m] # msg[m] PROVE NoStepBack(m)
  BY <1>3, PullWrites DEF NoStepBack, CanTransition, Rank, Progress, Terminal
<1>4. ASSUME NEW t \in Threads, StatusCommit(t), msg'[m] # msg[m] PROVE NoStepBack(m)
  <2>1. PICK r \in call[t].reports :
              /\ r.id = m /\ r \in Report /\ Acceptable(r, call[t])
              /\ msg'[m] = Reported(msg[m], r)
    BY <1>4, StatusWrites
  <2>2. msg[m] \in MsgRow
    BY DEF IInv, TypeOK
  <2> QED
    BY <2>1, <2>2, ReportedFields DEF NoStepBack, Acceptable, FirstOf
<1>5. ASSUME NEW S \in SUBSET Sims, RemoveSims(S) PROVE NoStepBack(m)
  BY <1>5, RemoveSimsEffect DEF NoStepBack, CanTransition
<1> QED
  BY <1>1, <1>2, <1>3, <1>4, <1>5, MessageWrites

\* No report, early, late or repeated, and no poll moves a message or its
\* recipient backwards, out of a final status, rewrites a known time or forgets
\* a status of the history.
THEOREM Monotone == Spec => NeverRegresses
<1>1. IInv /\ [Next]_vars =>
        [\A m \in Msgs : Present(m) =>
         LET r == msg[m]  s == msg'[m] IN
         /\ CanTransition(r.state, s.state)
         /\ CanTransition(r.rcpt, s.rcpt)
         /\ r.sent # Never => s.sent = r.sent
         /\ r.delivered # Never => s.delivered = r.delivered
         /\ r.hist \subseteq s.hist]_vars
  BY StepForward DEF NoStepBack
<1> QED
  BY <1>1, Invariance, PTL DEF Spec, NeverRegresses

\* A message is born on a SIM that is usable at that moment and belongs to the
\* message's device, whatever happened since the create chose it.
THEOREM BornUsable == Spec => BornOnUsableSim
<1> DEFINE Born(m) == (~Present(m) /\ Present(m)') =>
                        /\ Usable(msg'[m].sim)
                        /\ msg'[m].dev = Home[msg'[m].sim]
<1>1. ASSUME IInv, [Next]_vars, NEW m \in Msgs PROVE Born(m)
  <2> SUFFICES ASSUME msg[m].state = "Absent", msg'[m].state # "Absent"
               PROVE  Usable(msg'[m].sim) /\ msg'[m].dev = Home[msg'[m].sim]
    BY DEF Present
  <2>1. msg \in [Msgs -> MsgRow]
    BY <1>1 DEF IInv, TypeOK
  <2>2. ASSUME NEW t \in Threads, CreateCommit(t)
        PROVE  Usable(msg'[m].sim) /\ msg'[m].dev = Home[msg'[m].sim]
    <3>1. PICK n \in Msgs : ~Present(n) /\ msg' = [msg EXCEPT ![n] = NewMsg(call[t])]
      BY <1>1, <2>2, CreateWrites
    <3>2. m = n
      BY <3>1, <2>1
    <3>3. msg'[m].sim = call[t].sim /\ msg'[m].dev = call[t].dev
      BY <2>1, <3>1, <3>2 DEF NewMsg
    <3> QED
      BY <1>1, <2>2, <3>3, CreateWrites DEF Validated
  <2>3. ASSUME NEW t \in Threads, PullCommit(t) PROVE FALSE
    BY <1>1, <2>3, PullWrites
  <2>4. ASSUME NEW t \in Threads, StatusCommit(t) PROVE FALSE
    BY <1>1, <2>4, StatusWrites DEF Acceptable, Present
  <2>5. ASSUME NEW S \in SUBSET Sims, RemoveSims(S) PROVE FALSE
    BY <1>1, <2>5, RemoveSimsEffect
  <2> QED
    BY <1>1, <2>2, <2>3, <2>4, <2>5, MessageWrites
<1>2. IInv /\ [Next]_vars => [\A m \in Msgs : Born(m)]_vars
  BY <1>1
<1> QED
  BY <1>2, Invariance, PTL DEF Spec, BornOnUsableSim

\* Detaching a message from its SIM twice is detaching it once.
LEMMA Detached ==
    ASSUME NEW r \in MsgRow
    PROVE  [[r EXCEPT !.sim = Nil] EXCEPT !.sim = Nil] = [r EXCEPT !.sim = Nil]
  BY DEF MsgRow

\* A devices row changes only while the device is enabled.
LEMMA DeviceWrites ==
    ASSUME IInv, [Next]_vars, NEW d \in Devices, ~device[d].enabled
    PROVE  device'[d] = device[d]
<1> DEFINE Kept == device'[d] = device[d]
<1>1. device \in [Devices -> DeviceRow]
  BY DEF IInv, TypeOK
<1>2. ASSUME NEW t \in Threads, call[t].pc = "holding", Heartbeat(call[t]) PROVE Kept
  <2>1. device[call[t].dev].enabled
    BY <1>2 DEF IInv, StillValid, Validated
  <2> QED
    BY <1>1, <1>2, <2>1 DEF Heartbeat
<1>3. ASSUME NEW t \in Threads, Enter(t) PROVE Kept
  BY <1>3 DEF Enter, CreateEnter, PullEnter, StatusEnter, UpdateEnter, DeviceEnter
<1>4. ASSUME NEW t \in Threads, CreateStep(t) PROVE Kept
  BY <1>4 DEF CreateStep, CreateReplay, CreateRoute, CreateRouteConversation, CreateCommit
<1>5. ASSUME NEW t \in Threads, DeviceStep(t) PROVE Kept
  <2>1. CASE PullCommit(t) \/ StatusCommit(t) \/ UpdateCommit(t)
    BY <1>2, <2>1 DEF PullCommit, StatusCommit, UpdateCommit, Holding
  <2>2. CASE DeviceRefused(t) \/ PullClaim(t) \/ StatusClaim(t) \/ UpdateClaim(t)
    BY <2>2 DEF DeviceRefused, PullClaim, StatusClaim, UpdateClaim
  <2> QED
    BY <1>5, <2>1, <2>2 DEF DeviceStep
<1>6. ASSUME NEW t \in Threads, Reply(t) \/ Crash(t) PROVE Kept
  BY <1>6 DEF Reply, Crash
<1>7. ASSUME Administer PROVE Kept
  <2>1. ASSUME NEW e \in Devices, UnregisterDevice(e) PROVE Kept
    BY <1>1, <2>1 DEF UnregisterDevice
  <2> QED
    BY <1>7, <2>1 DEF Administer, SetSimEnabled, DeleteSim
<1>8. ASSUME Tick \/ UNCHANGED vars PROVE Kept
  BY <1>8 DEF Tick, vars
<1> QED
  BY <1>3, <1>4, <1>5, <1>6, <1>7, <1>8 DEF Next, Advance

\* Unregistering a device stops, at once and for good, every call it has under
\* way from writing, and every create that has chosen it from inserting.
THEOREM DisabledFrozen == Spec => DisabledDeviceFrozen
<1> DEFINE Frozen(d) == ~device[d].enabled =>
              /\ device'[d] = device[d]
              /\ \A m \in Msgs : msg'[m].dev = d =>
                   [msg'[m] EXCEPT !.sim = Nil] = [msg[m] EXCEPT !.sim = Nil]
<1>1. ASSUME IInv, [Next]_vars, NEW d \in Devices PROVE Frozen(d)
  <2> SUFFICES ASSUME ~device[d].enabled, NEW m \in Msgs, msg'[m].dev = d
               PROVE  [msg'[m] EXCEPT !.sim = Nil] = [msg[m] EXCEPT !.sim = Nil]
    BY <1>1, DeviceWrites
  <2>1. msg \in [Msgs -> MsgRow]
    BY <1>1 DEF IInv, TypeOK
  <2>2. ASSUME NEW t \in Threads, CreateCommit(t) PROVE msg'[m] = msg[m]
    <3>1. PICK n \in Msgs : ~Present(n) /\ msg' = [msg EXCEPT ![n] = NewMsg(call[t])]
      BY <1>1, <2>2, CreateWrites
    <3>2. device[call[t].dev].enabled
      BY <1>1, <2>2, CreateWrites DEF Validated
    <3>3. msg'[n].dev = call[t].dev
      BY <2>1, <3>1 DEF NewMsg
    <3> QED
      BY <2>1, <3>1, <3>2, <3>3
  <2>3. ASSUME NEW t \in Threads, PullCommit(t) PROVE msg'[m] = msg[m]
    BY <1>1, <2>3, PullWrites
  <2>4. ASSUME NEW t \in Threads, StatusCommit(t) PROVE msg'[m] = msg[m]
    <3> SUFFICES ASSUME msg'[m] # msg[m] PROVE FALSE
      OBVIOUS
    <3>1. PICK r \in call[t].reports :
              /\ r.id = m /\ r \in Report
              /\ Acceptable(r, call[t]) /\ device[call[t].dev].enabled
              /\ msg'[m] = Reported(msg[m], r)
      BY <1>1, <2>4, StatusWrites
    <3>2. msg'[m].dev = msg[m].dev
      BY <2>1, <3>1, ReportedFields
    <3> QED
      BY <3>1, <3>2 DEF Acceptable
  <2>5. ASSUME NEW S \in SUBSET Sims, RemoveSims(S)
        PROVE  msg'[m] = msg[m] \/ msg'[m] = [msg[m] EXCEPT !.sim = Nil]
    BY <1>1, <2>5, RemoveSimsEffect
  <2>6. msg'[m] = msg[m] \/ msg'[m] = [msg[m] EXCEPT !.sim = Nil]
    BY <1>1, <2>2, <2>3, <2>4, <2>5, MessageWrites
  <2> QED
    BY <2>1, <2>6, Detached
<1>2. IInv /\ [Next]_vars => [\A d \in Devices : Frozen(d)]_vars
  BY <1>1
<1> QED
  BY <1>2, Invariance, PTL DEF Spec, DisabledDeviceFrozen

-----------------------------------------------------------------------------
(* The judges of a report.  A report is accepted when its message AND each *)
(* of its recipients may move (can_transition), and the message's status   *)
(* must be the aggregate of its recipients': these tests agree.            *)

\* can_transition is a partial order: what late reports skip (Pending to
\* Delivered) is what they would have reached one by one, and no two reports
\* that differ can each follow the other.
THEOREM TransitionOrder ==
    ASSUME NEW a \in Status, NEW b \in Status, NEW c \in Status
    PROVE  /\ CanTransition(a, a)
           /\ CanTransition(a, b) /\ CanTransition(b, c) => CanTransition(a, c)
           /\ CanTransition(a, b) /\ CanTransition(b, a) => a = b
  BY DEF CanTransition, Status, Progress, Terminal, Rank

\* The status of a set of recipients is one of the five.
LEMMA AggregateType ==
    ASSUME NEW S PROVE Aggregate(S) \in Status
  BY DEF Aggregate, Status, Progress

\* Nothing comes before Pending, only Pending before Processed, and a final
\* status stays.
LEMMA Early ==
    ASSUME NEW x \in Status, NEW y \in Status, CanTransition(x, y)
    PROVE  /\ y = "Pending" => x = "Pending"
           /\ y = "Processed" => x \in {"Pending", "Processed"}
           /\ x \in Terminal => y = x
  BY DEF CanTransition, Status, Progress, Terminal, Rank

\* If every status of F may move to one of G, and every one of G is so reached,
\* then the aggregate of F may move to that of G.
LEMMA AggregateOfSets ==
    ASSUME NEW F \in SUBSET Status, NEW G \in SUBSET Status,
           \E x \in F : TRUE,
           \A x \in F : \E y \in G : CanTransition(x, y),
           \A y \in G : \E x \in F : CanTransition(x, y)
    PROVE  CanTransition(Aggregate(F), Aggregate(G))
  <1>1. CASE "Pending" \in F
    <2>1. Aggregate(F) = "Pending" /\ Aggregate(G) \in Status
      BY <1>1, AggregateType DEF Aggregate
    <2>. QED
      BY <2>1 DEF CanTransition, Status, Progress, Terminal, Rank
  <1>2. CASE "Pending" \notin F /\ "Processed" \in F
    <2>1. "Pending" \notin G
      BY <1>2, Early
    <2>2. Aggregate(F) = "Processed" /\ Aggregate(G) \in Status \ {"Pending"}
      BY <1>2, <2>1 DEF Aggregate, Status, Progress
    <2>. QED
      BY <2>2 DEF CanTransition, Status, Progress, Terminal, Rank
  <1>3. ASSUME NEW s \in Terminal, F = {s}
        PROVE  CanTransition(Aggregate(F), Aggregate(G))
    <2>1. \A y \in G : y = s
      BY <1>3, Early
    <2>2. G = {s}
      BY <1>3, <2>1
    <2>. QED
      BY <1>3, <2>2 DEF CanTransition
  <1>4. CASE /\ "Pending" \notin F /\ "Processed" \notin F
             /\ F # {"Delivered"} /\ F # {"Failed"}
    <2>1. "Pending" \notin G /\ "Processed" \notin G
      BY <1>4, Early
    <2>2. Aggregate(F) = "Sent"
      BY <1>4 DEF Aggregate
    <2>3. Aggregate(G) \in {"Sent", "Delivered", "Failed"}
      BY <2>1 DEF Aggregate
    <2>. QED
      BY <2>2, <2>3 DEF CanTransition, Status, Progress, Terminal, Rank
  <1>. QED
    BY <1>1, <1>2, <1>3, <1>4 DEF Terminal

\* If every recipient may move from f to g, so may their message: aggregation
\* never turns the progress of recipients into a regression, so the test of the
\* message's status in MessageStateService.update refuses no report of a
\* message whose status is the aggregate of its recipients'.
THEOREM AggregateAdvances ==
    ASSUME NEW R, NEW r0 \in R,
           NEW f \in [R -> Status], NEW g \in [R -> Status],
           \A r \in R : CanTransition(f[r], g[r])
    PROVE  CanTransition(Aggregate({f[r] : r \in R}), Aggregate({g[r] : r \in R}))
  <1>1. PICK F : F = {f[r] : r \in R}
    OBVIOUS
  <1>2. PICK G : G = {g[r] : r \in R}
    OBVIOUS
  <1>3. F \in SUBSET Status /\ G \in SUBSET Status /\ f[r0] \in F
    BY <1>1, <1>2
  <1>4. /\ \A x \in F : \E y \in G : CanTransition(x, y)
        /\ \A y \in G : \E x \in F : CanTransition(x, y)
    BY <1>1, <1>2
  <1>5. CanTransition(Aggregate(F), Aggregate(G))
    BY <1>3, <1>4, AggregateOfSets
  <1>. QED
    BY <1>1, <1>2, <1>5

-----------------------------------------------------------------------------
(* Refinement.  Outbound implements Delivery: an insert is an Accept, a    *)
(* poll that commits is a HandOut, a status batch that commits is a Learn, *)
(* and everything else a stutter.                                          *)

St == [m \in Msgs |-> msg[m].state]
Bd == [k \in Keys |-> BoundTo(k)]
Tk == {m \in Msgs : claims[m] > 0}

\* What a key stands for depends on the messages that carry it, and on nothing
\* else.
LEMMA SameBinding ==
    ASSUME NEW k \in Keys, Existing(k)' = Existing(k)
    PROVE  BoundTo(k)' = BoundTo(k)
  BY DEF BoundTo

\* Steps that neither insert a message nor change a key leave bindings alone.
LEMMA BindingsKept ==
    ASSUME \A m \in Msgs : /\ Present(m)' <=> Present(m)
                           /\ msg'[m].key = msg[m].key
    PROVE  Bd' = Bd
<1>1. ASSUME NEW k \in Keys PROVE BoundTo(k)' = BoundTo(k)
  <2>1. Existing(k)' = Existing(k)
    BY DEF Existing
  <2> QED
    BY <2>1, SameBinding
<1> QED
  BY <1>1 DEF Bd

LEMMA CreateAccepts ==
    ASSUME IInv, NEW t \in Threads, CreateCommit(t)
    PROVE  \E k \in Keys, m \in Msgs : D!Accept(k, m)
<1>0. PICK k \in Keys : k = call[t].key
  BY CreateWrites
<1>1. PICK m \in Msgs : ~Present(m) /\ msg' = [msg EXCEPT ![m] = NewMsg(call[t])]
  BY CreateWrites
<1>2. Existing(k) = {} /\ UNCHANGED claims
  BY <1>0, CreateWrites DEF Validated
<1>3. msg \in [Msgs -> MsgRow]
  BY DEF IInv, TypeOK
<1>4. msg'[m].state = "Pending" /\ msg'[m].key = k
  BY <1>0, <1>1, <1>3 DEF NewMsg
<1>5. BoundTo(k) = Nil
  BY <1>2 DEF BoundTo
<1>6. Existing(k)' = {m}
  BY <1>1, <1>2, <1>3, <1>4 DEF Existing, Present
<1>7. BoundTo(k)' = m
  BY <1>6 DEF BoundTo
<1>8. ASSUME NEW j \in Keys, j # k PROVE BoundTo(j)' = BoundTo(j)
  <2>1. Existing(j)' = Existing(j)
    BY <1>1, <1>3, <1>4, <1>8 DEF Existing, Present
  <2> QED
    BY <2>1, SameBinding
<1>9. Bd' = [Bd EXCEPT ![k] = m]
  BY <1>7, <1>8 DEF Bd
<1>10. St' = [St EXCEPT ![m] = "Pending"]
  BY <1>1, <1>3, <1>4 DEF St
<1>11. Bd[k] = Nil /\ St[m] = "Absent"
  BY <1>1, <1>2, <1>5 DEF Bd, St, Present
<1>12. Tk' = Tk
  BY <1>2 DEF Tk
<1>13. D!Accept(k, m)
  BY <1>9, <1>10, <1>11, <1>12 DEF D!Accept, St, Bd, Tk
<1> QED
  BY <1>13

LEMMA PullHandsOut ==
    ASSUME IInv, NEW t \in Threads, PullCommit(t)
    PROVE  \E B \in SUBSET Msgs : D!HandOut(B)
<1>0. PICK B \in SUBSET Msgs : B = call[t].batch
  BY DEF IInv, TypeOK, Call
<1>1. claims \in [Msgs -> Nat] /\ msg \in [Msgs -> MsgRow]
  BY DEF IInv, TypeOK
<1>2. \A m \in B : msg[m].state = "Pending" /\ claims[m] = 0
  BY <1>0, <1>1 DEF PullCommit, Holding, IInv, StillValid, Validated, Unclaimed
<1>3. claims' = [m \in Msgs |-> IF m \in B THEN claims[m] + 1 ELSE claims[m]]
  BY <1>0 DEF PullCommit
<1>4. Tk' = Tk \union B
  BY <1>1, <1>3 DEF Tk
<1>5. \A m \in B : m \notin Tk /\ St[m] = "Pending"
  BY <1>1, <1>2 DEF Tk, St
<1>6. ASSUME NEW m \in Msgs
      PROVE  /\ msg'[m].state = IF m \in B THEN "Processed" ELSE msg[m].state
             /\ msg'[m].key = msg[m].key
  BY <1>0, <1>1 DEF PullCommit, MsgRow
<1>7. St' = [m \in Msgs |-> IF m \in B THEN "Processed" ELSE St[m]]
  BY <1>6 DEF St
<1>8. Bd' = Bd
  <2>1. \A m \in Msgs : Present(m)' <=> Present(m)
    BY <1>2, <1>6 DEF Present
  <2> QED
    BY <1>6, <2>1, BindingsKept
<1>9. D!HandOut(B)
  BY <1>4, <1>5, <1>7, <1>8 DEF D!HandOut, St, Bd, Tk
<1> QED
  BY <1>9

LEMMA StatusLearns ==
    ASSUME IInv, NEW t \in Threads, StatusCommit(t)
    PROVE  \E f \in [Msgs -> Status \union {"Absent"}] : D!Learn(f)
<1>1. msg \in [Msgs -> MsgRow]
  BY DEF IInv, TypeOK
<1>2. ASSUME NEW m \in Msgs
      PROVE  /\ msg'[m].key = msg[m].key
             /\ msg'[m].state \in Status \union {"Absent"}
             /\ msg'[m].state # msg[m].state =>
                   /\ msg[m].state # "Absent" /\ msg'[m].state # "Absent"
                   /\ CanTransition(msg[m].state, msg'[m].state)
  <2>1. CASE msg'[m] = msg[m]
    BY <1>1, <2>1 DEF MsgRow
  <2>2. CASE msg'[m] # msg[m]
    <3>1. PICK r \in call[t].reports :
              /\ r.id = m /\ r \in Report /\ Acceptable(r, call[t])
              /\ msg'[m] = Reported(msg[m], r)
      BY <2>2, StatusWrites
    <3>2. msg'[m].state = r.state /\ msg'[m].key = msg[m].key
      BY <1>1, <3>1, ReportedFields
    <3>3. r.state \in Status /\ r.state # "Absent"
      BY <3>1 DEF Report, Status, Progress
    <3>4. msg[m].state # "Absent" /\ CanTransition(msg[m].state, r.state)
      BY <3>1 DEF Acceptable, Present
    <3> QED
      BY <3>2, <3>3, <3>4
  <2> QED
    BY <2>1, <2>2
<1>3. St' \in [Msgs -> Status \union {"Absent"}]
  BY <1>2 DEF St
<1>4. Bd' = Bd
  <2>1. \A m \in Msgs : Present(m)' <=> Present(m)
    BY <1>2 DEF Present
  <2> QED
    BY <1>2, <2>1, BindingsKept
<1>5. Tk' = Tk
  BY DEF StatusCommit, Tk
<1>6. \A m \in Msgs : St[m] # St'[m] =>
          St[m] # "Absent" /\ CanTransition(St[m], St'[m])
  BY <1>2 DEF St
<1>7. PICK f \in [Msgs -> Status \union {"Absent"}] : f = St'
  BY <1>3
<1>8. D!Learn(f)
  BY <1>4, <1>5, <1>6, <1>7 DEF D!Learn, D!CanTransition, CanTransition, D!Terminal,
        Terminal, D!Progress, Progress, D!Rank, Rank, St, Bd, Tk
<1> QED
  BY <1>8

LEMMA InitPromised == Init => D!DeliveryInit
<1> SUFFICES ASSUME Init PROVE D!DeliveryInit
  OBVIOUS
<1>1. msg = [m \in Msgs |-> NoMsg] /\ claims = [m \in Msgs |-> 0]
  BY DEF Init
<1>2. St = [m \in Msgs |-> "Absent"]
  BY <1>1 DEF St, NoMsg
<1>3. ASSUME NEW k \in Keys PROVE BoundTo(k) = Nil
  BY <1>1 DEF BoundTo, Existing, Present, NoMsg
<1>4. Bd = [k \in Keys |-> Nil]
  BY <1>3 DEF Bd
<1>5. Tk = {}
  BY <1>1 DEF Tk
<1> QED
  BY <1>2, <1>4, <1>5 DEF D!DeliveryInit, St, Bd, Tk

LEMMA StepPromised == IInv /\ [Next]_vars => [D!DeliveryNext]_(D!dvars)
<1> SUFFICES ASSUME IInv, [Next]_vars
             PROVE  D!DeliveryNext \/ UNCHANGED <<St, Bd, Tk>>
  BY DEF D!dvars, St, Bd, Tk
<1>1. CASE UNCHANGED <<msg, claims>>
  <2>1. UNCHANGED <<St, Tk>>
    BY <1>1 DEF St, Tk
  <2>2. \A m \in Msgs : (Present(m)' <=> Present(m)) /\ msg'[m].key = msg[m].key
    BY <1>1 DEF Present
  <2> QED
    BY <2>1, <2>2, BindingsKept
<1>2. ASSUME NEW t \in Threads, CreateCommit(t) PROVE D!DeliveryNext
  BY <1>2, CreateAccepts DEF D!DeliveryNext
<1>3. ASSUME NEW t \in Threads, PullCommit(t) PROVE D!DeliveryNext
  BY <1>3, PullHandsOut DEF D!DeliveryNext
<1>4. ASSUME NEW t \in Threads, StatusCommit(t) PROVE D!DeliveryNext
  <2>1. \E f \in [Msgs -> Status \union {"Absent"}] : D!Learn(f)
    BY <1>4, StatusLearns
  <2> QED
    BY <2>1 DEF D!DeliveryNext, D!Status, D!Progress, Status, Progress
<1>5. ASSUME NEW S \in SUBSET Sims, RemoveSims(S), UNCHANGED claims
      PROVE  UNCHANGED <<St, Bd, Tk>>
  <2>1. \A m \in Msgs : msg'[m].state = msg[m].state /\ msg'[m].key = msg[m].key
    BY <1>5, RemoveSimsEffect
  <2>2. UNCHANGED <<St, Tk>>
    BY <1>5, <2>1 DEF St, Tk
  <2> QED
    BY <2>1, <2>2, BindingsKept DEF Present
<1> QED
  BY <1>1, <1>2, <1>3, <1>4, <1>5, MessageWrites

\* Whatever threads, locks, clocks and administrators do, clients see what
\* Delivery promises: keys stay bound, hand-outs happen once, news advances.
THEOREM Implements == Spec => DeliveryImplemented
<1>1. Init => D!DeliveryInit
  BY InitPromised
<1>2. IInv /\ [Next]_vars => [D!DeliveryNext]_(D!dvars)
  BY StepPromised
<1> QED
  BY <1>1, <1>2, Invariance, PTL DEF Spec, DeliveryImplemented, D!DeliverySpec
=============================================================================
