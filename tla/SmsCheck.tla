------------------------------ MODULE SmsCheck ------------------------------
(***************************************************************************)
(* SIM diagnostics: a run sends one text per usable SIM to a phone number  *)
(* and decides for each SIM, from the device's status reports and from the *)
(* text that arrived (or that somebody pasted), whether the SIM works.     *)
(*                                                                         *)
(* A check is decided by whoever completes it: the report that it was      *)
(* sent, the receipt that it came, a failure, or ANY later call that finds *)
(* it overdue -- there is no timer, expiry is a side effect of other calls *)
(* (expire).  Each call reads the clock, then opens one transaction:       *)
(*                                                                         *)
(*   start     waiting --StartLock--> expiring --StartCommit-->            *)
(*   pull      waiting --PullLock---> expiring --PullClaim--> holding      *)
(*                     --PullCommit-->                                     *)
(*   update,   waiting --Lock--> holding --UpdateCommit/ReceiveCommit-->   *)
(*   receive              \----> expiring --ExpireCommit--> (overdue)      *)
(*   results   expiring --ExpireCommit-->                                  *)
(*                                                                         *)
(* "expiring": about to update every overdue check, whoever's it is.       *)
(***************************************************************************)
EXTENDS MessageStatus, FiniteSets

CONSTANTS
    Threads,    \* threads that serve calls, of devices and of operators
    Devices,
    Sims,
    Home,       \* the device of each SIM
    FirstNumber,\* the number each SIM starts with
    NewNumbers, \* numbers the administrator may give to a SIM
    Targets,    \* receiving numbers operators ask for
    Keys,       \* request keys
    Runs,       \* ids of runs, each used once
    Reports,    \* status reports: state, and whether a Sent time is given
    Texts,      \* texts that come in: the device (Nil: pasted), and whether it is right
    Timeout,    \* waiting time of a run
    MaxClock,   \* bound: the clock stops here
    MayFail,    \* whether transactions may be rolled back from outside
    MayEdit,    \* whether SIMs are edited
    Nil

Numbers == {FirstNumber[s] : s \in Sims} \union NewNumbers \union Targets

\* receiver: the device whose SIM has the target number, if there is one.
RunRow == [key : Keys, target : Numbers, receiver : Devices \union {Nil}, deadline : Nat]

\* `states' must name the reported state: a Sent report carries a Sent time.
Report == {p \in [state : Status, sent : BOOLEAN] : p.state = "Sent" => p.sent}

ASSUME SmsCheckAssumption ==
    /\ Home \in [Sims -> Devices]
    /\ FirstNumber \in [Sims -> Numbers]
    /\ Reports \subseteq Report
    /\ Texts \subseteq (Devices \union {Nil}) \X BOOLEAN
    /\ Timeout \in Nat \ {0} /\ MaxClock \in Nat
    /\ MayFail \in BOOLEAN /\ MayEdit \in BOOLEAN
    /\ Nil \notin Devices /\ Nil \notin RunRow

VARIABLES
    clock,
    sim,        \* sim_cards: enabled and active, phone_number
    run,        \* sms_check_runs; Nil: no such row
    check,      \* sms_checks, per run and SIM
    handed,     \* how many committed pulls handed the check to its device
    call        \* what each thread is doing

vars == <<clock, sim, run, check, handed, call>>

-----------------------------------------------------------------------------
(* Rows and calls *)

SimRow == [usable : BOOLEAN, number : Numbers]

CheckStatus == {"ABSENT", "NOT_TESTED", "PENDING", "NORMAL", "PROBLEM"}

\* number: the SIM's at the start.  sent, received: whether the time is set.
CheckRow == [status : CheckStatus, transport : Status, number : Numbers \union {Nil},
             pulled : BOOLEAN, sent : BOOLEAN, received : BOOLEAN]

NoCheck == [status |-> "ABSENT", transport |-> "Pending", number |-> Nil,
            pulled |-> FALSE, sent |-> FALSE, received |-> FALSE]

Rows == Runs \X Sims

Kinds == {"start", "pull", "update", "receive", "results"}

\* dev: the device row the transaction locks; row: the check it concerns; seen:
\* that row as read; held: the check rows it has locked.  What was asked: key
\* and target of a start, the report of an update, whether a received text is
\* `good'; batch: what a pull is about to hand out.
Call == [kind : Kinds \union {"none"}, pc : {"idle", "waiting", "expiring", "holding"},
         now : Nat, dev : Devices \union {Nil}, row : Rows \union {Nil},
         key : Keys \union {Nil}, target : Numbers \union {Nil},
         report : Report \union {Nil}, good : BOOLEAN, batch : SUBSET Rows,
         seen : CheckRow, held : SUBSET Rows]

Idle == [kind |-> "none", pc |-> "idle", now |-> 0, dev |-> Nil, row |-> Nil,
         key |-> Nil, target |-> Nil, report |-> Nil, good |-> FALSE, batch |-> {},
         seen |-> NoCheck, held |-> {}]

Entered(k) == [Idle EXCEPT !.kind = k, !.pc = "waiting", !.now = clock]

Init ==
    /\ clock = 0
    /\ sim = [s \in Sims |-> [usable |-> TRUE, number |-> FirstNumber[s]]]
    /\ run = [r \in Runs |-> Nil]
    /\ check = [c \in Rows |-> NoCheck]
    /\ handed = [c \in Rows |-> 0]
    /\ call = [t \in Threads |-> Idle]

\* No transaction under way has locked the device's row.
DeviceFree(d) == \A u \in Threads :
    call[u].dev = d => call[u].pc \in {"idle", "waiting"}

\* Mutant: the row is read without FOR UPDATE.
RowFreeUnlocked(c) == TRUE

\* ... or the check's.
RowFree(c) == \A u \in Threads : c \notin call[u].held

Pending == {c \in Rows : check[c].status = "PENDING"}

\* Mutant: only checks that were handed out are expired.
OverdueHanded(now) == {c \in Pending : check[c].pulled /\ run[c[1]].deadline <= now}

\* What `expire' updates, and that it gets those rows' locks.
Overdue(now) == {c \in Pending : run[c[1]].deadline <= now}

MayExpire(t) == \A c \in Overdue(call[t].now) : c \in call[t].held \/ RowFree(c)

Expired(now) ==
    [c \in Rows |-> IF c \in Overdue(now)
                    THEN [check[c] EXCEPT !.status = "PROBLEM"] ELSE check[c]]

Finish(t) == call' = [call EXCEPT ![t] = Idle]

\* Mutant: that branch of the handler does not return.
DismissNever(t) == UNCHANGED call

\* A call that finds nothing to do, or must not do it, is answered at once.
Dismiss(t) == Finish(t)

-----------------------------------------------------------------------------
(* start *)

Starting == {t \in Threads : call[t].kind = "start"}

StartEnter(t, k, n) ==
    /\ call[t] = Idle
    /\ clock + Timeout <= MaxClock      \* bounds: the run can become overdue,
    /\ Cardinality(Starting) < Cardinality({r \in Runs : run[r] = Nil})    \* and has an id
    /\ call' = [call EXCEPT ![t] = [Entered("start") EXCEPT !.key = k, !.target = n]]
    /\ UNCHANGED <<clock, sim, run, check, handed>>

\* Mutant: launches do not wait for each other.
LaunchFreeUnlocked == TRUE

\* The launch lock.
LaunchFree == \A u \in Starting : call[u].pc = "waiting"

OfKey(k) == {r \in Runs : run[r] # Nil /\ run[r].key = k}

\* A key that has a run is answered with it, or with CheckConflict when it
\* stood for another target: either way nothing changes.
StartLock(t) ==
    /\ call[t].kind = "start" /\ call[t].pc = "waiting"
    /\ LaunchFree
    /\ IF OfKey(call[t].key) = {}
       THEN call' = [call EXCEPT ![t].pc = "expiring"]
       ELSE Finish(t)
    /\ UNCHANGED <<clock, sim, run, check, handed>>

Usable == {s \in Sims : sim[s].usable}
Receivers(n) == {s \in Usable : sim[s].number = n}

\* Mutant: nobody asks whether a run is under way.
StartRefusedSeldom(t) == Cardinality(Receivers(call[t].target)) > 1

\* A check still pending, or a number two SIMs have, refuses the launch, and
\* the exception takes the expiry back with it.
StartRefused(t) ==
    \/ Pending \ Overdue(call[t].now) # {}
    \/ Cardinality(Receivers(call[t].target)) > 1

StartClaim(t) ==
    /\ call[t].kind = "start" /\ call[t].pc = "expiring"
    /\ MayExpire(t)
    /\ IF StartRefused(t)
       THEN Finish(t)
       ELSE call' = [call EXCEPT ![t].pc = "holding",
                                 ![t].held = Overdue(call[t].now)]
    /\ UNCHANGED <<clock, sim, run, check, handed>>

\* A check per usable SIM, pending unless the SIM is the receiver itself.
NewCheck(s, n) ==
    [NoCheck EXCEPT !.number = sim[s].number,
                    !.status = IF sim[s].number = n THEN "NOT_TESTED" ELSE "PENDING"]

StartCommit(t) ==
    /\ call[t].kind = "start" /\ call[t].pc = "holding"
    /\ \E r \in Runs :
        LET n == call[t].target IN
        /\ run[r] = Nil
        /\ run' = [run EXCEPT ![r] =
                    [key |-> call[t].key, target |-> n,
                     receiver |-> IF Receivers(n) = {} THEN Nil
                                  ELSE Home[CHOOSE s \in Receivers(n) : TRUE],
                     deadline |-> call[t].now + Timeout]]
        /\ check' = [c \in Rows |->
                IF c[1] = r /\ c[2] \in Usable THEN NewCheck(c[2], n)
                ELSE IF c \in call[t].held THEN [check[c] EXCEPT !.status = "PROBLEM"]
                ELSE check[c]]
    /\ Finish(t)
    /\ UNCHANGED <<clock, sim, handed>>

-----------------------------------------------------------------------------
(* pull, inside the poll of a device that its messages leave room for *)

PullEnter(t, d) ==
    /\ call[t] = Idle
    /\ call' = [call EXCEPT ![t] = [Entered("pull") EXCEPT !.dev = d]]
    /\ UNCHANGED <<clock, sim, run, check, handed>>

PullLock(t) ==
    /\ call[t].kind = "pull" /\ call[t].pc = "waiting"
    /\ DeviceFree(call[t].dev)
    /\ call' = [call EXCEPT ![t].pc = "expiring"]
    /\ UNCHANGED <<clock, sim, run, check, handed>>

\* Mutant: `pulled_at IS NULL' is forgotten.
DueAgain(d, now) == {c \in Pending \ Overdue(now) :
    Home[c[2]] = d /\ sim[c[2]].usable /\ RowFree(c)}

\* Rows another transaction holds are skipped, not waited for.
Due(d, now) == {c \in Pending \ Overdue(now) :
    /\ Home[c[2]] = d /\ ~check[c].pulled /\ sim[c[2]].usable
    /\ RowFree(c)}

\* SIM or number replaced since the start: the check is decided, not handed out.
SameSim(c) == sim[c[2]].number = check[c].number

\* Any part of the due rows: how much room is left depends on the messages.
PullClaim(t) ==
    /\ call[t].kind = "pull" /\ call[t].pc = "expiring"
    /\ MayExpire(t)
    /\ \E C \in SUBSET Due(call[t].dev, call[t].now) :
        call' = [call EXCEPT ![t].pc = "holding",
                             ![t].held = C \union Overdue(call[t].now),
                             ![t].batch = {c \in C : SameSim(c)}]
    /\ UNCHANGED <<clock, sim, run, check, handed>>

PullCommit(t) ==
    /\ call[t].kind = "pull" /\ call[t].pc = "holding"
    /\ check' = [c \in Rows |->
          IF c \in call[t].batch
          THEN [check[c] EXCEPT !.pulled = TRUE, !.transport = "Processed"]
          ELSE IF c \in call[t].held
          THEN [check[c] EXCEPT !.status = "PROBLEM"] ELSE check[c]]
    /\ handed' = [c \in Rows |-> IF c \in call[t].batch THEN handed[c] + 1 ELSE handed[c]]
    /\ Finish(t)
    /\ UNCHANGED <<clock, sim, run>>

-----------------------------------------------------------------------------
(* update: a status report of the device, by the check's id *)

UpdateEnter(t, c, p) ==
    /\ call[t] = Idle
    /\ check[c].status # "ABSENT"
    /\ call' = [call EXCEPT ![t] = [Entered("update") EXCEPT
                !.dev = Home[c[2]], !.row = c, !.report = p]]
    /\ UNCHANGED <<clock, sim, run, check, handed>>

\* Not handed out yet, or said to be sent without ever saying when.
UpdateRefused(row, p) ==
    \/ ~row.pulled
    \/ p.state \in {"Sent", "Delivered"} /\ ~row.sent /\ ~p.sent

\* Mutant: a late report is written whatever was decided.
SettledNever(row) == FALSE

\* Decided already: the report is accepted and changes nothing.
Settled(row) == row.status # "PENDING"

UpdateLock(t) ==
    /\ call[t].kind = "update" /\ call[t].pc = "waiting"
    /\ DeviceFree(call[t].dev) /\ RowFree(call[t].row)
    /\ LET c   == call[t].row
           row == check[c]
       IN IF UpdateRefused(row, call[t].report) \/ Settled(row)
          THEN Dismiss(t)
          ELSE call' = [call EXCEPT
                  ![t].pc = IF run[c[1]].deadline <= call[t].now
                            THEN "expiring" ELSE "holding",
                  ![t].seen = row, ![t].held = {c}]
    /\ UNCHANGED <<clock, sim, run, check, handed>>

UpdateCommit(t) ==
    /\ call[t].kind = "update" /\ call[t].pc = "holding"
    /\ LET p    == call[t].report
           seen == call[t].seen
           sent == seen.sent \/ p.sent
       IN check' = [check EXCEPT
             ![call[t].row].sent = sent,
             ![call[t].row].transport = p.state,
             ![call[t].row].status = IF p.state = "Failed" THEN "PROBLEM"
                                     ELSE IF sent /\ seen.received THEN "NORMAL"
                                     ELSE "PENDING"]
    /\ Finish(t)
    /\ UNCHANGED <<clock, sim, run, handed>>

-----------------------------------------------------------------------------
(* receive: a text that carries the token of a check *)

\* It arrived on device d, or an operator pasted it (record_receipt).  `good':
\* sender, receiving SIM and wording are those of the check.  Only who was
\* handed the text can have sent it.
ReceiveEnter(t, c, d, good) ==
    /\ call[t] = Idle
    /\ handed[c] > 0
    /\ call' = [call EXCEPT ![t] = [Entered("receive") EXCEPT
                !.dev = d, !.row = c, !.good = good]]
    /\ UNCHANGED <<clock, sim, run, check, handed>>

\* A text on a device that is no receiver of the run is swallowed.  A pasted one
\* is judged by the clock after the row is locked, and refused when late.
ReceiveLock(t) ==
    /\ call[t].kind = "receive" /\ call[t].pc = "waiting"
    /\ call[t].dev # Nil => DeviceFree(call[t].dev)
    /\ RowFree(call[t].row)
    /\ LET c      == call[t].row
           row    == check[c]
           manual == call[t].dev = Nil
           late   == run[c[1]].deadline <= IF manual THEN clock ELSE call[t].now
       IN IF Settled(row) \/ (manual /\ late)
                \/ (~manual /\ call[t].dev # run[c[1]].receiver)
          THEN Dismiss(t)
          ELSE call' = [call EXCEPT ![t].pc = IF late THEN "expiring" ELSE "holding",
                                    ![t].seen = row, ![t].held = {c}]
    /\ UNCHANGED <<clock, sim, run, check, handed>>

ReceiveCommit(t) ==
    /\ call[t].kind = "receive" /\ call[t].pc = "holding"
    /\ check' = [check EXCEPT
             ![call[t].row].received = call[t].good,
             ![call[t].row].status = IF ~call[t].good THEN "PROBLEM"
                                     ELSE IF call[t].seen.sent THEN "NORMAL"
                                     ELSE "PENDING"]
    /\ Finish(t)
    /\ UNCHANGED <<clock, sim, run, handed>>

-----------------------------------------------------------------------------
(* results, and the expiry every call may have to do for the others *)

ResultsEnter(t) ==
    /\ call[t] = Idle
    /\ call' = [call EXCEPT ![t] = [Idle EXCEPT !.kind = "results", !.pc = "expiring",
                                                !.now = clock]]
    /\ UNCHANGED <<clock, sim, run, check, handed>>

ExpireCommit(t) ==
    /\ call[t].kind \in {"update", "receive", "results"} /\ call[t].pc = "expiring"
    /\ MayExpire(t)
    /\ check' = Expired(call[t].now)
    /\ Finish(t)
    /\ UNCHANGED <<clock, sim, run, handed>>

\* A call that waits for rows may hold some already.  PostgreSQL breaks a cycle
\* of two by aborting either.
Wanted(t) == IF call[t].pc = "expiring" THEN Overdue(call[t].now) \ call[t].held ELSE {}

DeadlockVictim(t) ==
    /\ \E u \in Threads \ {t} :
        /\ call[u].held \intersect Wanted(t) # {}
        /\ Wanted(u) \intersect (Wanted(t) \union call[t].held) # {}
    /\ Finish(t)
    /\ UNCHANGED <<clock, sim, run, check, handed>>

\* The connection breaks, or a later item of the same PATCH is refused: the
\* transaction is rolled back.
Rollback(t) ==
    /\ MayFail
    /\ call[t].pc \in {"expiring", "holding"}
    /\ Finish(t)
    /\ UNCHANGED <<clock, sim, run, check, handed>>

-----------------------------------------------------------------------------
(* Specification *)

Tick ==
    /\ clock < MaxClock
    /\ clock' = clock + 1
    /\ UNCHANGED <<sim, run, check, handed, call>>

\* The administrator, or a device that updates its SIM list.
Edit(s) ==
    /\ MayEdit
    /\ \/ sim' = [sim EXCEPT ![s].usable = ~@]
       \/ \E n \in NewNumbers : sim' = [sim EXCEPT ![s].number = n]
    /\ UNCHANGED <<clock, run, check, handed, call>>

Enter(t) ==
    \/ \E k \in Keys, n \in Targets : StartEnter(t, k, n)
    \/ \E d \in Devices : PullEnter(t, d)
    \/ \E c \in Rows, p \in Reports : UpdateEnter(t, c, p)
    \/ \E c \in Rows, x \in Texts : ReceiveEnter(t, c, x[1], x[2])
    \/ ResultsEnter(t)

Advance(t) ==
    \/ StartLock(t) \/ StartClaim(t) \/ StartCommit(t)
    \/ PullLock(t) \/ PullClaim(t) \/ PullCommit(t)
    \/ UpdateLock(t) \/ UpdateCommit(t)
    \/ ReceiveLock(t) \/ ReceiveCommit(t)
    \/ ExpireCommit(t) \/ DeadlockVictim(t)

Next ==
    \/ Tick
    \/ \E s \in Sims : Edit(s)
    \/ \E t \in Threads : Enter(t) \/ Advance(t) \/ Rollback(t)

Spec == Init /\ [][Next]_vars

\* Calls go on; PostgreSQL queues for locks, so a wait that could end again and
\* again ends, and of two calls in a cycle one is aborted and the other goes on;
\* time passes; somebody keeps looking at the results (the page of
\* the administrator refreshes them every five seconds).
Fairness ==
    /\ WF_vars(Tick)
    /\ \A t \in Threads : SF_vars(Advance(t)) /\ SF_vars(ExpireCommit(t))
    /\ SF_vars(\E t \in Threads : ResultsEnter(t))

LiveSpec == Spec /\ Fairness

-----------------------------------------------------------------------------
(* Properties *)

TypeOK ==
    /\ clock \in 0..MaxClock
    /\ sim \in [Sims -> SimRow]
    /\ run \in [Runs -> RunRow \union {Nil}]
    /\ check \in [Rows -> CheckRow]
    /\ handed \in [Rows -> Nat]
    /\ call \in [Threads -> Call]

\* Whatever operators click at the same time, checks of one run at most are
\* pending: no SIM is asked to send two diagnostics at once.
OneRunAtATime == \A c1, c2 \in Pending : c1[1] = c2[1]

\* A request key never launches two runs.
OneRunPerKey == \A r, q \in Runs :
    run[r] # Nil /\ run[q] # Nil /\ run[r].key = run[q].key => r = q

\* The two halves of the evidence come from calls of different parties in
\* either order: whoever completes it decides, so no check stays pending with
\* both halves in, and none is found normal without both.
NoHalfVerdict == \A c \in Rows :
    /\ check[c].status = "NORMAL" =>
          check[c].pulled /\ check[c].sent /\ check[c].received
    /\ check[c].status = "PENDING" => ~(check[c].sent /\ check[c].received)

\* A check is handed to its device once, and only if it says so.
HandedOnce == \A c \in Rows : handed[c] = IF check[c].pulled THEN 1 ELSE 0

\* What was decided stays as it was decided, evidence included: late and
\* duplicate reports, receipts and expiries pass it by.
VerdictFinal == [][\A c \in Rows :
    check[c].status \notin {"ABSENT", "PENDING"} => check'[c] = check[c]]_vars

-----------------------------------------------------------------------------
(* The inductive invariant *)

\* What each call has in hand between its steps.
Shaped(x) ==
    CASE x.kind = "none" -> x = Idle
      [] x.kind = "start" ->
          /\ x.pc \in {"waiting", "expiring", "holding"}
          /\ x.key \in Keys /\ x.target \in Targets
          /\ x.held # {} => x.pc = "holding"
      [] x.kind = "pull" ->
          /\ x.pc \in {"waiting", "expiring", "holding"}
          /\ x.dev \in Devices
          /\ x.batch \subseteq x.held
          /\ x.held # {} => x.pc = "holding"
          /\ \A c \in x.batch : ~check[c].pulled
      [] x.kind \in {"update", "receive"} ->
          /\ x.pc \in {"waiting", "expiring", "holding"}
          /\ x.row \in Rows
          /\ x.kind = "update" => x.report \in Report
          /\ x.held = IF x.pc = "waiting" THEN {} ELSE {x.row}
          /\ x.pc # "waiting" => x.seen = check[x.row]
          /\ x.pc # "waiting" /\ x.kind = "update" => x.seen.pulled
      [] x.kind = "results" -> x.pc = "expiring" /\ x.held = {}

CallShape == \A t \in Threads : Shaped(call[t])

\* Row locks: a check is locked by one transaction, while it is pending.
Locked ==
    /\ \A t \in Threads : call[t].held \subseteq Pending
    /\ \A t, u \in Threads : t # u => call[t].held \intersect call[u].held = {}

\* The launch lock: one start is past it, and every pending check it did not
\* find overdue and lock would have refused it.
OneLaunch ==
    /\ \A t, u \in Starting : call[t].pc # "waiting" /\ call[u].pc # "waiting" => t = u
    /\ \A t \in Starting : call[t].pc = "holding" => Pending \subseteq call[t].held
    /\ \A t \in Starting : call[t].pc # "waiting" => OfKey(call[t].key) = {}

\* A check has a run, and nothing is sent before it is handed out.
Grounded == \A c \in Rows :
    /\ run[c[1]] = Nil => check[c].status = "ABSENT"
    /\ check[c].status = "ABSENT" => check[c] = NoCheck
    /\ check[c].sent => check[c].pulled

IInv == /\ TypeOK
        /\ CallShape /\ Locked /\ OneLaunch /\ Grounded
        /\ OneRunPerKey /\ OneRunAtATime /\ NoHalfVerdict /\ HandedOnce

-----------------------------------------------------------------------------
(* Liveness, under LiveSpec *)

\* No check is pending for ever: its deadline is found past by somebody.
PendingResolves == \A c \in Rows :
    check[c].status = "PENDING" ~> check[c].status # "PENDING"

\* Every call ends, the ones that expire other calls' checks too.
EveryCheckCallEnds == \A t \in Threads : call[t].pc # "idle" ~> call[t].pc = "idle"
=============================================================================
