------------------------------ MODULE Outbound ------------------------------
(***************************************************************************)
(* The life of an outbound message in the main service: created by         *)
(* POST /business/v1/messages (or an agent's reply), routed to a SIM,      *)
(* claimed by the device that polls GET /mobile/v1/message, advanced by    *)
(* its PATCH reports, while devices come and go and an administrator       *)
(* disables and deletes SIMs under the running calls.                      *)
(*                                                                         *)
(* Every endpoint is a synchronous function on a worker thread that reads  *)
(* the clock, opens ONE database transaction, takes row locks, writes and  *)
(* commits, and only then answers.  A call is therefore modelled by        *)
(*                                                                         *)
(*     idle --Enter--> waiting --Claim--> holding --Commit--> replying     *)
(*                        \--Refuse/Replay----------------------^   |      *)
(*     idle <------------------Reply (or Crash, from anywhere)------+      *)
(*                                                                         *)
(* Enter reads `now'; Claim takes the locks, reads and validates; Commit   *)
(* writes everything and releases the locks.  What happens between two of  *)
(* these steps of one call is what other calls can do meanwhile.           *)
(***************************************************************************)
EXTENDS MessageStatus, FiniteSets

CONSTANTS
    Threads,    \* worker threads of the service
    Devices,    \* registered devices
    Sims,       \* rows of sim_cards
    Home,       \* the device of each SIM row
    Keys,       \* Idempotency-Key values
    Bodies,     \* request bodies; equal bodies have equal digests
    Msgs,       \* ids of messages (random in the code: any unused one)
    Batches,    \* bodies of PATCH /mobile/v1/message: sets of reports
    SimLists,   \* PATCH /mobile/v1/device: {} without simCards, {L} with the list L
    Window,     \* device_online_window_seconds
    Skew,       \* CLOCK_SKEW_MILLIS
    Orders,     \* which of fifo (TRUE) and lifo (FALSE) the devices ask for
    PullLimit,  \* MessagePullService.LIMIT
    MaxClock,   \* bound: the clock stops here
    MayCrash,   \* whether threads may die and replies get lost
    MayAdmin,   \* whether the administrator acts
    Nil         \* NULL / None

\* A request body: the SIMs its deviceId and simNumber admit, the SIM of the
\* conversation it names (Nil: none named), validUntil and scheduleAt.
Body == [sims: SUBSET Sims, via: Sims \union {Nil}, until: Nat, at: Nat]

\* One item of a status batch.  The message has one recipient, whose reported
\* state the aggregate rule forces to equal the item's state; `at' is the
\* `states' dictionary.
Report == [id: Msgs, state: Status, at: [Status -> Nat]]

ASSUME OutboundAssumption ==
    /\ Home \in [Sims -> Devices]
    /\ Bodies \subseteq Body
    /\ Batches \subseteq SUBSET Report
    /\ \A B \in Batches :
          /\ \A r \in B : WellFormedTimes(r.state, r.at)
          /\ \A r1, r2 \in B : r1.id = r2.id => r1 = r2
    /\ SimLists \subseteq SUBSET (SUBSET Sims)
    /\ Window \in Nat /\ Skew \in Nat /\ MaxClock \in Nat
    /\ PullLimit \in Nat \ {0} /\ Orders \subseteq BOOLEAN
    /\ MayCrash \in BOOLEAN /\ MayAdmin \in BOOLEAN
    /\ Nil \notin Devices /\ Nil \notin Sims /\ Nil \notin Keys
    /\ Nil \notin Bodies /\ Nil \notin Msgs

VARIABLES
    clock,      \* wall clock of the service
    device,     \* devices: enabled, last_seen_at
    sim,        \* sim_cards: status ("gone": no such row), enabled, last_used_at
    convs,      \* SIMs of the peer's conversations a request can still name
    msg,        \* messages, message_recipients and message_state_history
    call,       \* what each thread is doing
    acks,       \* successful answers the clients received, per key
    claims,     \* how many committed pulls took each message
    handed      \* messages whose pull response reached the device

vars == <<clock, device, sim, convs, msg, call, acks, claims, handed>>

-----------------------------------------------------------------------------
(* Rows *)

SimStatus == {"active", "inactive", "disabled", "gone"}
SimRow    == [status: SimStatus, enabled: BOOLEAN, used: Nat]
DeviceRow == [enabled: BOOLEAN, seen: Nat]
GoneSim   == [status |-> "gone", enabled |-> FALSE, used |-> Never]
NewSim    == [status |-> "active", enabled |-> TRUE, used |-> Never]

MsgRow == [state: Status \union {"Absent"}, rcpt: Status,
           key: Keys \union {Nil}, body: Bodies \union {Nil},
           dev: Devices \union {Nil}, sim: Sims \union {Nil},
           created: Nat, pulled: Nat, sent: Nat, delivered: Nat,
           hist: SUBSET Status]
NoMsg  == [state |-> "Absent", rcpt |-> "Pending", key |-> Nil, body |-> Nil,
           dev |-> Nil, sim |-> Nil, created |-> Never, pulled |-> Never,
           sent |-> Never, delivered |-> Never, hist |-> {}]

Call == [pc: {"idle", "waiting", "holding", "replying"},
         op: {"none", "create", "pull", "status", "update"},
         now: Nat, dev: Devices \union {Nil},
         key: Keys \union {Nil}, body: Bodies \union {Nil},
         sim: Sims \union {Nil}, fifo: BOOLEAN, batch: SUBSET Msgs,
         reports: SUBSET Report, list: SUBSET (SUBSET Sims),
         code: {0, 200, 201, 400, 403, 409, 422},
         msg: Msgs \union {Nil}, state: Status]
IdleCall == [pc |-> "idle", op |-> "none", now |-> 0, dev |-> Nil,
             key |-> Nil, body |-> Nil, sim |-> Nil, fifo |-> TRUE,
             batch |-> {}, reports |-> {}, list |-> {}, code |-> 0,
             msg |-> Nil, state |-> "Pending"]

Ack == [body: Bodies, msg: Msgs, state: Status]

Present(m) == msg[m].state # "Absent"

-----------------------------------------------------------------------------
(* Locks: what a call in `holding' keeps other transactions out of. *)

Holding(t, op) == call[t].pc = "holding" /\ call[t].op = op

\* Mutant of KeyFree: the advisory lock is not taken.
KeyFreeWithoutLock(k) == TRUE

\* pg_advisory_xact_lock on the idempotency key
KeyFree(k) == \A t \in Threads : ~(Holding(t, "create") /\ call[t].key = k)

\* Mutant of DeviceFree: a poll reads its device without FOR UPDATE.
DeviceFreeUnlessPolled(d) ==
    \A t \in Threads : ~(/\ call[t].pc = "holding" /\ call[t].op # "pull"
                         /\ call[t].dev = d)

\* devices row, FOR UPDATE: taken by every endpoint
DeviceFree(d) == \A t \in Threads : ~(call[t].pc = "holding" /\ call[t].dev = d)

\* Mutant of SimFree: the route is read FOR UPDATE OF d only.
SimFreeWithoutLock(s) == TRUE

\* sim_cards row, FOR UPDATE: taken by a create with the row of its device
SimFree(s) == \A t \in Threads : ~(Holding(t, "create") /\ call[t].sim = s)

\* messages row, FOR UPDATE: taken by a pull and by a status batch
MsgFree(m) == \A t \in Threads : call[t].pc = "holding" =>
                  /\ m \notin call[t].batch
                  /\ \A r \in call[t].reports : r.id # m

-----------------------------------------------------------------------------
(* Answers *)

\* What is left of a call once its transaction is over: the answer it owes.
Owes(t, code, m, state) ==
    [pc |-> "replying", op |-> call[t].op, now |-> 0, dev |-> Nil,
     key |-> call[t].key, body |-> call[t].body, sim |-> Nil, fifo |-> TRUE,
     batch |-> call[t].batch, reports |-> {}, list |-> {},
     code |-> code, msg |-> m, state |-> state]

Answer(t, code, m, state) ==
    call' = [call EXCEPT ![t] = Owes(t, code, m, state)]

Refuse(t, code) == Answer(t, code, Nil, "Pending")

\* The answer reaches its caller: the client learns the id and state of its
\* message, the device gets the messages it claimed.
Reply(t) ==
    LET c == call[t] IN
    /\ c.pc = "replying"
    /\ acks' = IF c.op = "create" /\ c.code \in {200, 201}
               THEN [acks EXCEPT ![c.key] = @ \union
                        {[body |-> c.body, msg |-> c.msg, state |-> c.state]}]
               ELSE acks
    /\ handed' = IF c.op = "pull" /\ c.code = 200 THEN handed \union c.batch
                 ELSE handed
    /\ call' = [call EXCEPT ![t] = IdleCall]
    /\ UNCHANGED <<clock, device, sim, convs, msg, claims>>

\* The process or the connection dies: an open transaction rolls back, an
\* answer already due is lost.
Crash(t) ==
    /\ MayCrash
    /\ call[t].pc # "idle"
    /\ call' = [call EXCEPT ![t] = IdleCall]
    /\ UNCHANGED <<clock, device, sim, convs, msg, acks, claims, handed>>

-----------------------------------------------------------------------------
(* Creating a message: MessageCommandService.create *)

\* The clock is read and validUntil is judged before anything else, so before
\* the idempotency key is looked up.
CreateEnter(t, k, b) ==
    /\ call[t].pc = "idle"
    /\ LET c == [IdleCall EXCEPT !.op = "create", !.key = k, !.body = b]
       IN call' = [call EXCEPT ![t] =
             IF b.until # Never /\ b.until <= clock
             THEN [c EXCEPT !.pc = "replying", !.code = 400]
             ELSE [c EXCEPT !.pc = "waiting", !.now = clock]]
    /\ UNCHANGED <<clock, device, sim, convs, msg, acks, claims, handed>>

\* _find_existing: by key alone, whatever the device
Existing(k) == {m \in Msgs : Present(m) /\ msg[m].key = k}

\* The transaction holds the lock of its key from here on.
KeyLocked(t) ==
    /\ call[t].pc = "waiting" /\ call[t].op = "create"
    /\ KeyFree(call[t].key)

\* Mutant of CreateReplay: the digests are not compared.
CreateReplayAnyBody(t) ==
    LET c == call[t] IN
    /\ KeyLocked(t)
    /\ \E m \in Existing(c.key) : Answer(t, 200, m, msg[m].state)
    /\ UNCHANGED <<clock, device, sim, convs, msg, acks, claims, handed>>

\* The key is taken: the same digest replays the message as it is by now,
\* another digest is a conflict.
CreateReplay(t) ==
    LET c == call[t] IN
    /\ KeyLocked(t)
    /\ \E m \in Existing(c.key) :
          IF msg[m].body = c.body THEN Answer(t, 200, m, msg[m].state)
                                  ELSE Refuse(t, 409)
    /\ UNCHANGED <<clock, device, sim, convs, msg, acks, claims, handed>>

Usable(s) == sim[s].enabled /\ sim[s].status = "active"

\* devices.status is "online" exactly while the device is enabled: registering
\* sets it, only unregistering clears it.
Online(d, now) == device[d].enabled /\ device[d].seen + Window >= now

Routable(s, now) == Usable(s) /\ Online(Home[s], now)

TakeRoute(t, s) ==
    call' = [call EXCEPT ![t].pc = "holding", ![t].sim = s, ![t].dev = Home[s]]

\* _select_route without a conversation: FOR UPDATE OF d, s SKIP LOCKED.
Unlocked(s) == DeviceFree(Home[s]) /\ SimFree(s)
Candidates(c) == {s \in c.body.sims : Routable(s, c.now) /\ Unlocked(s)}

CreateRoute(t) ==
    LET c == call[t] IN
    /\ KeyLocked(t)
    /\ Existing(c.key) = {}
    /\ c.body.via = Nil
    /\ IF Candidates(c) = {} THEN Refuse(t, 422)
       ELSE \E s \in Candidates(c) :
               /\ \A r \in Candidates(c) : sim[s].used <= sim[r].used
               /\ TakeRoute(t, s)
    /\ UNCHANGED <<clock, device, sim, convs, msg, acks, claims, handed>>

\* _select_route with a conversation: the join of its rows, FOR UPDATE without
\* SKIP LOCKED, so the call waits for them.
CreateRouteConversation(t) ==
    LET c == call[t]
        s == c.body.via IN
    /\ KeyLocked(t)
    /\ Existing(c.key) = {}
    /\ s # Nil
    /\ IF s \notin convs THEN Refuse(t, 409)
       ELSE /\ Unlocked(s)
            /\ CASE s \notin c.body.sims  -> Refuse(t, 409)
                 [] s \in c.body.sims /\ ~Routable(s, c.now) -> Refuse(t, 422)
                 [] OTHER                  -> TakeRoute(t, s)
    /\ UNCHANGED <<clock, device, sim, convs, msg, acks, claims, handed>>

NewMsg(c) ==
    [state |-> "Pending", rcpt |-> "Pending", key |-> c.key, body |-> c.body,
     dev |-> c.dev, sim |-> c.sim, created |-> c.now, pulled |-> Never,
     sent |-> Never, delivered |-> Never, hist |-> {"Pending"}]

\* Message, recipient and first history row; the conversation of the route is
\* found or inserted.
CreateCommit(t) ==
    LET c == call[t] IN
    /\ Holding(t, "create")
    /\ \E m \in Msgs :
          /\ ~Present(m)
          /\ msg' = [msg EXCEPT ![m] = NewMsg(c)]
          /\ Answer(t, 201, m, "Pending")
    /\ convs' = convs \union {c.sim}
    /\ UNCHANGED <<clock, device, sim, acks, claims, handed>>

-----------------------------------------------------------------------------
(* Calls of a device.  DeviceAuthService.authenticate reads `enabled' in a  *)
(* transaction of its own; the handler reads it again under the row lock.   *)

DeviceEnter(t, c) ==
    /\ call[t].pc = "idle"
    /\ device[c.dev].enabled
    /\ call' = [call EXCEPT ![t] = [c EXCEPT !.pc = "waiting", !.now = clock]]
    /\ UNCHANGED <<clock, device, sim, convs, msg, acks, claims, handed>>

\* The device's row, waited for and re-read.
DeviceLocked(t, op) ==
    /\ call[t].pc = "waiting" /\ call[t].op = op
    /\ DeviceFree(call[t].dev)

DeviceRefused(t) ==
    /\ \E op \in {"pull", "status", "update"} : DeviceLocked(t, op)
    /\ ~device[call[t].dev].enabled
    /\ Refuse(t, 403)
    /\ UNCHANGED <<clock, device, sim, convs, msg, acks, claims, handed>>

\* status = 'online', last_seen_at = now, at the `now' the call began with
Heartbeat(c) == device' = [device EXCEPT ![c.dev].seen = c.now]

\* MessagePullService.pull
PullEnter(t, d, fifo) ==
    DeviceEnter(t, [IdleCall EXCEPT !.op = "pull", !.dev = d, !.fifo = fifo])

\* Mutant of Due: a claimed message the device is silent about is offered again.
DueAgain(m, c) ==
    LET r == msg[m] IN
    /\ r.dev = c.dev /\ r.rcpt = "Pending"
    /\ r.body.until = Never \/ r.body.until > c.now
    /\ r.body.at = Never \/ r.body.at <= c.now
    /\ r.sim # Nil /\ Usable(r.sim)
    /\ MsgFree(m)

\* Mutant of Due: a scheduled message is due only after its time.
DueLate(m, c) ==
    LET r == msg[m] IN
    /\ r.dev = c.dev /\ r.state = "Pending"
    /\ r.body.until = Never \/ r.body.until > c.now
    /\ r.body.at = Never \/ r.body.at < c.now
    /\ r.sim # Nil /\ Usable(r.sim)
    /\ MsgFree(m)

Due(m, c) ==
    LET r == msg[m] IN
    /\ r.dev = c.dev /\ r.state = "Pending"
    /\ r.body.until = Never \/ r.body.until > c.now
    /\ r.body.at = Never \/ r.body.at <= c.now
    /\ r.sim # Nil /\ Usable(r.sim)
    /\ MsgFree(m)

\* ORDER BY created_at LIMIT n: at most n of the due messages, none left out
\* while a younger (older, for lifo) one is taken.  Ids break ties, and ids
\* are random.
Chosen(B, due, c) ==
    /\ Cardinality(B) <= PullLimit
    /\ B = due \/ Cardinality(B) = PullLimit
    /\ \A m \in B, n \in due \ B :
          IF c.fifo THEN msg[m].created <= msg[n].created
                    ELSE msg[m].created >= msg[n].created

\* Mutant of PullClaim: `enabled' is not read again under the lock.
PullClaimTrusting(t) ==
    LET c   == call[t]
        due == {m \in Msgs : Present(m) /\ Due(m, c)} IN
    /\ DeviceLocked(t, "pull")
    /\ \E B \in SUBSET due :
          /\ Chosen(B, due, c)
          /\ call' = [call EXCEPT ![t].pc = "holding", ![t].batch = B]
    /\ UNCHANGED <<clock, device, sim, convs, msg, acks, claims, handed>>

PullClaim(t) ==
    LET c   == call[t]
        due == {m \in Msgs : Present(m) /\ Due(m, c)} IN
    /\ DeviceLocked(t, "pull")
    /\ device[c.dev].enabled
    /\ \E B \in SUBSET due :
          /\ Chosen(B, due, c)
          /\ call' = [call EXCEPT ![t].pc = "holding", ![t].batch = B]
    /\ UNCHANGED <<clock, device, sim, convs, msg, acks, claims, handed>>

PullCommit(t) ==
    LET c == call[t] IN
    /\ Holding(t, "pull")
    /\ Heartbeat(c)
    /\ msg' = [m \in Msgs |->
          IF m \in c.batch
          THEN [msg[m] EXCEPT !.state = "Processed", !.pulled = c.now,
                              !.hist = @ \union {"Processed"}]
          ELSE msg[m]]
    /\ claims' = [m \in Msgs |-> IF m \in c.batch THEN claims[m] + 1
                                                  ELSE claims[m]]
    /\ Answer(t, 200, Nil, "Pending")
    /\ UNCHANGED <<clock, sim, convs, acks, handed>>

\* MessageStateService.update
StatusEnter(t, d, B) ==
    DeviceEnter(t, [IdleCall EXCEPT !.op = "status", !.dev = d, !.reports = B])

\* Mutant of Acceptable: Sent needs no time.
AcceptableUndated(r, c) ==
    LET m == msg[r.id] IN
    /\ Present(r.id) /\ m.dev = c.dev
    /\ CanTransition(m.state, r.state)
    /\ CanTransition(m.rcpt, r.state)
    /\ \A s \in Status : r.at[s] <= c.now + Skew

\* What one item must satisfy; a single failing item refuses the whole batch.
Acceptable(r, c) ==
    LET m == msg[r.id] IN
    /\ Present(r.id) /\ m.dev = c.dev
    /\ CanTransition(m.state, r.state)
    /\ CanTransition(m.rcpt, r.state)
    /\ \A s \in Status : r.at[s] <= c.now + Skew
    /\ (r.state \in {"Sent", "Delivered"} /\ m.sent = Never)
          => r.at["Sent"] # Never

\* Mutant of StatusClaim: the batch is judged before the rows are locked.
StatusClaimUnlocked(t) ==
    LET c == call[t] IN
    /\ c.pc = "waiting" /\ c.op = "status"
    /\ device[c.dev].enabled
    /\ IF \A r \in c.reports : Acceptable(r, c)
       THEN call' = [call EXCEPT ![t].pc = "holding"]
       ELSE Refuse(t, 409)
    /\ UNCHANGED <<clock, device, sim, convs, msg, acks, claims, handed>>

\* 404, 403, 409 and 400 by the first failing check; one code stands for all.
StatusClaim(t) ==
    LET c == call[t] IN
    /\ DeviceLocked(t, "status")
    /\ device[c.dev].enabled
    /\ \A r \in c.reports : MsgFree(r.id)
    /\ IF \A r \in c.reports : Acceptable(r, c)
       THEN call' = [call EXCEPT ![t].pc = "holding"]
       ELSE Refuse(t, 409)
    /\ UNCHANGED <<clock, device, sim, convs, msg, acks, claims, handed>>

\* Mutant of FirstOf: a later report overwrites a known time.
LatestOf(old, new) == IF new # Never THEN new ELSE old

\* `old or new' of the code
FirstOf(old, new) == IF old # Never THEN old ELSE new

Reported(m, r) ==
    [m EXCEPT !.state = r.state, !.rcpt = r.state,
              !.pulled = FirstOf(@, r.at["Processed"]),
              !.sent = FirstOf(@, r.at["Sent"]),
              !.delivered = FirstOf(@, r.at["Delivered"]),
              !.hist = @ \union {s \in Status : r.at[s] # Never}]

\* The items that first give their message a sent_at: each also stamps the
\* last_used_at of the message's SIM, the last item in id order last.
FirstSent(B, s) == {r \in B : /\ msg[r.id].sim = s
                              /\ msg[r.id].sent = Never
                              /\ r.at["Sent"] # Never}

StatusCommit(t) ==
    LET c == call[t] IN
    /\ Holding(t, "status")
    /\ msg' = [m \in Msgs |->
          IF \E r \in c.reports : r.id = m
          THEN Reported(msg[m], CHOOSE r \in c.reports : r.id = m)
          ELSE msg[m]]
    /\ \E last \in [Sims -> c.reports \union {Nil}] :
          /\ \A s \in Sims : IF FirstSent(c.reports, s) = {} THEN last[s] = Nil
                              ELSE last[s] \in FirstSent(c.reports, s)
          /\ sim' = [s \in Sims |->
                IF last[s] = Nil THEN sim[s]
                ELSE [sim[s] EXCEPT !.used = last[s].at["Sent"]]]
    /\ Heartbeat(c)
    /\ Answer(t, 200, Nil, "Pending")
    /\ UNCHANGED <<clock, convs, acks, claims, handed>>

\* DeviceService.update: heartbeat, and when simCards is present the rows of
\* the device become inactive and the listed ones active again, inserted when
\* missing; `enabled' is the administrator's and stays.
UpdateEnter(t, d, list) ==
    DeviceEnter(t, [IdleCall EXCEPT !.op = "update", !.dev = d, !.list = list])

UpdateClaim(t) ==
    /\ DeviceLocked(t, "update")
    /\ device[call[t].dev].enabled
    /\ call' = [call EXCEPT ![t].pc = "holding"]
    /\ UNCHANGED <<clock, device, sim, convs, msg, acks, claims, handed>>

UpdateCommit(t) ==
    LET c == call[t]
        own == {s \in Sims : Home[s] = c.dev} IN
    /\ Holding(t, "update")
    /\ Heartbeat(c)
    /\ sim' = [s \in Sims |->
         CASE c.list # {} /\ s \in own \intersect UNION c.list ->
                IF sim[s].status = "gone" THEN NewSim
                ELSE [sim[s] EXCEPT !.status = "active"]
           [] c.list # {} /\ s \in own \ UNION c.list
                         /\ sim[s].status # "gone" ->
                [sim[s] EXCEPT !.status = "inactive"]
           [] OTHER -> sim[s]]
    /\ Answer(t, 200, Nil, "Pending")
    /\ UNCHANGED <<clock, convs, msg, acks, claims, handed>>

-----------------------------------------------------------------------------
(* The administrator: single statements that wait for the rows they touch.  *)

\* update_sim_card
SetSimEnabled(s, on) ==
    /\ MayAdmin
    /\ sim[s].status # "gone" /\ SimFree(s)
    /\ sim' = [sim EXCEPT ![s].enabled = on,
                          ![s].status = IF on THEN "active" ELSE "disabled"]
    /\ UNCHANGED <<clock, device, convs, msg, call, acks, claims, handed>>

\* The rows of SIMs S go away; foreign keys of messages and conversations are
\* set to NULL.
RemoveSims(S) ==
    /\ \A s \in S : SimFree(s)
    /\ \A m \in Msgs : msg[m].sim \in S => MsgFree(m)
    /\ sim' = [s \in Sims |-> IF s \in S THEN GoneSim ELSE sim[s]]
    /\ msg' = [m \in Msgs |-> IF msg[m].sim \in S THEN [msg[m] EXCEPT !.sim = Nil]
                                                  ELSE msg[m]]
    /\ convs' = convs \ S

\* delete_sim_card
DeleteSim(s) ==
    /\ MayAdmin
    /\ sim[s].status # "gone"
    /\ RemoveSims({s})
    /\ UNCHANGED <<clock, device, call, acks, claims, handed>>

\* unregister_device, with the trigger that deletes the device's SIMs
UnregisterDevice(d) ==
    /\ MayAdmin
    /\ device[d].enabled /\ DeviceFree(d)
    /\ device' = [device EXCEPT ![d].enabled = FALSE]
    /\ RemoveSims({s \in Sims : Home[s] = d})
    /\ UNCHANGED <<clock, call, acks, claims, handed>>

-----------------------------------------------------------------------------

Tick ==
    /\ clock < MaxClock
    /\ clock' = clock + 1
    /\ UNCHANGED <<device, sim, convs, msg, call, acks, claims, handed>>

\* Devices have registered, with all their SIMs, at time 1.
Init ==
    /\ clock = 1
    /\ device = [d \in Devices |-> [enabled |-> TRUE, seen |-> 1]]
    /\ sim = [s \in Sims |-> NewSim]
    /\ convs = {}
    /\ msg = [m \in Msgs |-> NoMsg]
    /\ call = [t \in Threads |-> IdleCall]
    /\ acks = [k \in Keys |-> {}]
    /\ claims = [m \in Msgs |-> 0]
    /\ handed = {}

CreateStep(t) ==
    \/ CreateReplay(t)
    \/ CreateRoute(t)
    \/ CreateRouteConversation(t)
    \/ CreateCommit(t)

DeviceStep(t) ==
    \/ DeviceRefused(t)
    \/ PullClaim(t)
    \/ PullCommit(t)
    \/ StatusClaim(t)
    \/ StatusCommit(t)
    \/ UpdateClaim(t)
    \/ UpdateCommit(t)

\* What a running call does next, by itself.
Advance(t) == CreateStep(t) \/ DeviceStep(t) \/ Reply(t)

Enter(t) ==
    \/ \E k \in Keys, b \in Bodies : CreateEnter(t, k, b)
    \/ \E d \in Devices :
          \/ \E fifo \in Orders : PullEnter(t, d, fifo)
          \/ \E B \in Batches : StatusEnter(t, d, B)
          \/ \E list \in SimLists : UpdateEnter(t, d, list)

Administer ==
    \/ \E s \in Sims : \/ \E on \in BOOLEAN : SetSimEnabled(s, on)
                       \/ DeleteSim(s)
    \/ \E d \in Devices : UnregisterDevice(d)

Next ==
    \/ \E t \in Threads : Enter(t) \/ Advance(t) \/ Crash(t)
    \/ Administer
    \/ Tick

Spec == Init /\ [][Next]_vars

\* Worker threads and the database keep running, and lock queues are served
\* in order, so a call whose next step is possible again and again takes it;
\* an enabled device keeps polling (fifo is the endpoint's default); time
\* passes.
Fairness ==
    /\ \A t \in Threads : SF_vars(Advance(t))
    /\ \A d \in Devices : SF_vars(\E t \in Threads : PullEnter(t, d, TRUE))
    /\ WF_vars(Tick)

LiveSpec == Spec /\ Fairness

-----------------------------------------------------------------------------
(* Safety *)

TypeOK ==
    /\ clock \in Nat
    /\ device \in [Devices -> DeviceRow]
    /\ sim \in [Sims -> SimRow]
    /\ convs \subseteq Sims
    /\ msg \in [Msgs -> MsgRow]
    /\ call \in [Threads -> Call]
    /\ acks \in [Keys -> SUBSET Ack]
    /\ claims \in [Msgs -> Nat]
    /\ handed \subseteq Msgs

\* However many creates with one Idempotency-Key race, on however many devices,
\* they insert one message between them (the advisory lock of create; the
\* unique index is per device and would not notice).
OneMessagePerKey ==
    \A m, n \in Msgs :
        (Present(m) /\ Present(n) /\ msg[m].key = msg[n].key) => m = n

\* Whoever was told 200 or 201 for a key was told the id of the one message of
\* that key, and that message carries the body this client sent.
AcksNameTheMessage ==
    \A k \in Keys : \A a \in acks[k] :
        /\ Present(a.msg)
        /\ msg[a.msg].key = k
        /\ msg[a.msg].body = a.body

\* Concurrent polls, late reports and re-polls between them hand a message out
\* at most once: an SMS is not sent twice.
ClaimedOnce == \A m \in Msgs : claims[m] <= 1

\* The columns of a message and its recipient and history rows tell one story:
\* pull and report write them in different statements and from different
\* clocks.  Only a message just claimed is ahead of its recipient row.
RowsAgree ==
    \A m \in Msgs : Present(m) =>
        LET r == msg[m] IN
        /\ r.state \in r.hist
        /\ r.rcpt = r.state \/ (r.rcpt = "Pending" /\ r.state = "Processed")
        /\ r.pulled # Never <=> "Processed" \in r.hist
        /\ r.sent # Never <=> "Sent" \in r.hist
        /\ r.delivered # Never <=> "Delivered" \in r.hist
        /\ r.state \in {"Sent", "Delivered"} => r.sent # Never
        /\ claims[m] > 0 => r.pulled # Never /\ r.state # "Pending"

\* Reports arrive late, twice and out of order, and polls run between them:
\* still no message, nor its recipient, moves backwards or leaves a final
\* status, a sent_at or delivered_at once known is never rewritten, and a status
\* that the history has is not forgotten.
NeverRegresses ==
    [][\A m \in Msgs : Present(m) =>
         LET r == msg[m]  s == msg'[m] IN
         /\ CanTransition(r.state, s.state)
         /\ CanTransition(r.rcpt, s.rcpt)
         /\ r.sent # Never => s.sent = r.sent
         /\ r.delivered # Never => s.delivered = r.delivered
         /\ r.hist \subseteq s.hist]_vars

\* Once unregister_device has committed, the calls its device had under way
\* change nothing, and no create that had chosen it inserts a message.
DisabledDeviceFrozen ==
    [][\A d \in Devices : ~device[d].enabled =>
         /\ device'[d] = device[d]
         /\ \A m \in Msgs : msg'[m].dev = d =>
               [msg'[m] EXCEPT !.sim = Nil] = [msg[m] EXCEPT !.sim = Nil]]_vars

\* A message is never born on a SIM that the administrator has disabled or
\* deleted, or that the device has dropped, since the create looked.
BornOnUsableSim ==
    [][\A m \in Msgs : (~Present(m) /\ Present(m)') =>
         /\ Usable(msg'[m].sim)
         /\ msg'[m].dev = Home[msg'[m].sim]]_vars

\* What a call finds out under its locks, before it writes.
Validated(c) ==
    /\ c.dev \in Devices /\ device[c.dev].enabled
    /\ c.op = "create" => /\ Existing(c.key) = {}
                         /\ c.sim \in Sims /\ Usable(c.sim)
                         /\ c.dev = Home[c.sim]
    /\ c.op = "pull" => \A m \in c.batch : /\ msg[m].state = "Pending"
                                           /\ msg[m].dev = c.dev
    /\ c.op = "status" => \A r \in c.reports : Acceptable(r, c)

\* It is still so when the call commits: its device has not been unregistered,
\* its key is still free and its SIM usable, the messages it claimed are still
\* pending, its reports still acceptable.
StillValid ==
    \A t \in Threads : call[t].pc = "holding" => Validated(call[t])

-----------------------------------------------------------------------------
(* The inductive invariant of OutboundProofs *)

\* What a thread's record holds in each phase.
Shaped(c) ==
    /\ c.pc \in {"waiting", "holding"} =>
          /\ c.now # Never
          /\ c.op # "none"
          /\ c.op = "create" => c.key \in Keys /\ c.body \in Bodies
          /\ c.op # "create" => c.dev \in Devices
    /\ c.reports \in Batches \union {{}}
    /\ (c.pc = "replying" /\ c.op = "create" /\ c.code \in {200, 201}) =>
          /\ c.key \in Keys /\ c.body \in Bodies /\ c.msg \in Msgs
          /\ Present(c.msg)
          /\ msg[c.msg].key = c.key /\ msg[c.msg].body = c.body

CallShape == \A t \in Threads : Shaped(call[t])

\* No two calls hold the lock of one device or of one key.
Exclusive ==
    \A t, u \in Threads :
        (call[t].pc = "holding" /\ call[u].pc = "holding") =>
            /\ call[t].dev = call[u].dev => t = u
            /\ (call[t].op = "create" /\ call[u].op = "create"
                   /\ call[t].key = call[u].key) => t = u

\* A message is claimed while nothing is known of it, and never again.
Unclaimed ==
    \A m \in Msgs : msg[m].state \in {"Absent", "Pending"} => claims[m] = 0

IInv ==
    /\ TypeOK
    /\ clock # Never
    /\ CallShape
    /\ Exclusive
    /\ StillValid
    /\ Unclaimed
    /\ ClaimedOnce
    /\ RowsAgree
    /\ OneMessagePerKey
    /\ AcksNameTheMessage

-----------------------------------------------------------------------------
(* Refinement *)

\* The promise of module Delivery: status is the state column, a key stands
\* for the message that carries it, taken are the messages some pull claimed.
BoundTo(k) == IF Existing(k) = {} THEN Nil ELSE CHOOSE m \in Existing(k) : TRUE

D == INSTANCE Delivery WITH
        status <- [m \in Msgs |-> msg[m].state],
        bound <- [k \in Keys |-> BoundTo(k)],
        taken <- {m \in Msgs : claims[m] > 0}

\* Every behaviour of the calls, locks and rows above is one that Delivery
\* promises: keys stay bound, claims happen once, news only advances.
DeliveryImplemented == D!DeliverySpec

-----------------------------------------------------------------------------
(* Liveness, under LiveSpec without crashes *)

\* A message without a deadline reaches its device, unless the device said
\* something about it first or its SIM or device stopped being usable.
PendingIsHandedOver ==
    \A m \in Msgs :
        (msg[m].state = "Pending" /\ msg[m].body.until = Never)
          ~> \/ m \in handed
             \/ msg[m].rcpt # "Pending"
             \/ msg[m].sim = Nil
             \/ ~Usable(msg[m].sim)

-----------------------------------------------------------------------------
(* What the documents promise and the code does not keep *)

\* docs/.../2026-06-22-message-create-design.md:59: a request that has succeeded
\* is answered 200 when it is sent again.  The code judges validUntil before it
\* looks the key up.
RetryNotRefused ==
    [][\A t \in Threads :
         (call'[t].code = 400 /\ call[t].code # 400)
            => \A a \in acks[call'[t].key] : a.body # call'[t].body]_vars

=============================================================================
