# Virgo SMS gateway: TLA+ models, checks and proofs

This directory specifies the gateway in `src/app` and `src/pg`, a FastAPI service
(one uvicorn process, synchronous endpoints on a thread pool, streams on one event
loop) over PostgreSQL, to which phones connect as devices and agents and operators
as clients; and `src/monitor`, a second service over the same database, where the
two meet. All modules are translated from the Python, SQL and JavaScript sources;
`PROJECT.json` maps each definition to its lines.

    tlc -config OutboundReport.cfg MCOutbound      check a model
    tlapm OutboundProofs.tla                       check the proofs

## 1. Inventory

| Component | State it keeps | Operations | Interacts with | Modules |
|---|---|---|---|---|
| Outbound messages (`message_service.py`, `message_pull_service.py`, `message_state_service.py`) | `messages`, `message_recipients`, `message_state_history`, `conversations` | create (POST by a client, or an agent's reply), pull (GET by a device), status batch (PATCH by a device) | rows of devices and SIMs; announces new messages to the device registry; pull and status carry diagnostics too | `Outbound`, `Delivery`, `MessageStatus` |
| Devices and SIMs (`device_service.py`, `device_auth_service.py`, trigger of `006_sim_history.sql`) | `devices`, `sim_cards`, `sim_card_history` | register, update (heartbeat and SIM list), authenticate | locked by every call of a device | `Registry`; with one slot in `Outbound` |
| Administration (`pg/admin_service.py`, `admin_ui.py`, and the monitor's copies) | accounts, bindings, dialogs with rows as loaded | SIMs, accounts, devices, contacts, menus: show, save, delete | every running call; pages of the other process | `Registry`, `Agents` |
| Streams (`sse.py`, `message_publisher.py`, `agent_event_publisher.py`, `api/events.py`, `api/agent_events.py`) | one connection per device, or account, in memory | register, publish, unregister, the generator's loop | published to after the commit of a create, of a receipt | `Sse` |
| SIM diagnostics (`sms_check_service.py`, `api/sms_checks.py`) | `sms_check_runs`, `sms_checks` | start, pull, update, receive, record receipt, results; expiry inside each | runs inside pull, status batch and inbound | `SmsCheck` |
| Inbound SMS (`inbound_message_service.py`), MMS webhook (`mms_webhook_service.py`, `object_storage.py`) | messages, attachments, conversations (unread, last message); objects in S3 | a text; `mms:received` and `mms:downloaded` in any order | SIM rows, agents' bindings and streams, S3, the agents' lists | `Inbox` |
| Agents (`agent_auth_service.py`, `agent_conversation_service.py`, `agent_contact_service.py`) | sessions, read markers, remarks | login, authenticate, list, read, reply, remark, menus, SIMs | what operators edit | `Agents`; listing and reading in `Inbox` |
| Row locks (all of the above, both services) | PostgreSQL's lock table | each transaction's locks in its order | each other | `RowLocks` |
| Supervisor's page (`monitor/supervisor/src/main.js`, `supervisor_service.py`) | cards, cursor, drawer, requests under way | filter, scroll, open, refresh, older | reads messages as they come | `Dashboard` |
| Monitor's copies of the service | in-memory registries of its own | as the main service, without diagnostics; conversations judged by area | the database | `RowLocks`, `Registry`, `Agents` |

### What is hard here, and what makes each part correct

* **Outbound.** Each call reads the clock, opens one transaction, waits for row
  locks (an advisory lock for the idempotency key) and writes. Between its
  authentication, its clock and its locks, anything may happen: a create of the
  same key, another poll, a report, the administrator. Correct: one message per
  key and truthful answers; a message handed out once; statuses only advance,
  whatever order reports come in; what was read under locks still holds when it is
  written; nothing happens to an unregistered device's messages by its own calls;
  messages reach a device that keeps polling.
* **Streams.** Publishers are threads, generators are tasks of the loop, and a
  lock covers part of what they share. Correct: the device's entry is its newest,
  open connection; a replaced stream ends; events are neither lost nor reordered;
  an accepted event wakes the stream; connections whose client has gone are removed.
* **Diagnostics.** A verdict is composed of a report and a receipt that come from
  different parties in either order, against a deadline that no timer watches.
  Correct: one run at a time, one per request key; a verdict needs both halves, is
  given when both are in, and is final; a check is handed out once; every check is
  decided; calls that lock rows in conflicting orders end.
* **Inbound, MMS.** Calls are repeated and reordered, uploads outlive a rollback,
  SIMs vanish under a receipt. Correct: filed once, whole, under its own SIM; unread
  counts are of messages, not calls; agents are told once of an event and see an MMS
  with its attachments.
* **Devices, administration.** A dialog saves rows as they were loaded; two processes
  save at once; SIMs move between slots. Correct: numbers are kept in the history;
  a device neither keeps rows it lost nor undoes the operator; an account's bindings
  come from one save and its main SIM is among them.
* **Agents.** Access is judged in one transaction and used in another while accounts,
  bindings, areas and sessions change. Correct: all a call showed or did rests on
  rights that held while it ran.
* **Supervisor's page.** Answers come late and out of order, and what a choice matches
  changes. Correct: each card matched what is chosen since the last reload, the drawer
  is of one conversation, and neither has duplicates.
* **All.** Rows are locked in different orders by different endpoints. Correct: the
  pairs of endpoints that can deadlock are known; the calls devices make at a high rate
  wait for each other in circles only over diagnostic checks.

`PROJECT.json` lists these as hazards, each at its line, with the properties that
watch it or the reason why none does.

## 2. Plan

Written, in this order:

1. `MessageStatus`: the status vocabulary (`schemas/message_status.py`), used by all.
2. `Delivery`: what the outbound part promises, with neither locks nor clocks.
3. `Outbound`: the calls, locks and rows; it implements `Delivery`.
   `OutboundProofs`: its theorems, the refinement, and those of `MessageStatus`.
4. `Sse` and `SseProofs`: the registry of streams.
5. `SmsCheck` and `SmsCheckProofs`: diagnostics.
6. `Inbox` and `InboxProofs`: texts and MMS, and the agents who read them.
7. `Registry` and `RegistryProofs`: devices, SIMs, accounts and the admin pages.
8. `RowLocks` and `RowLocksProofs`: the sequences of row locks of all endpoints of
   both services.
9. `Agents` and `AgentsProofs`: sessions and access.
10. `Dashboard` and `DashboardProofs`: the supervisor's page.

Left, the most valuable first:

11. The event loop of `Sse` with the coroutine endpoints of `api/sms_checks.py` that
    block it.
12. The supervisor's login with its rate limit; regions.

## 3. Modules

### MessageStatus
`CanTransition` is `can_transition`, `Aggregate` is `aggregate_recipient_state`,
`WellFormedTimes` the validator of a report. The value 0 (`Never`) stands for NULL, as
it does for the code's `row[7] or ...`.

### Outbound
A call is a record per worker thread that goes
`idle -> waiting -> holding -> replying -> idle`. *Enter* reads `now`; *Claim* takes
the locks, reads and judges; *Commit* writes all and releases them; *Reply* is the
answer reaching its caller. Locks are not variables: a row is free when no call in
`holding` has it (`KeyFree`, `DeviceFree`, `SimFree`, `MsgFree`).

| Action | Code |
|---|---|
| `CreateEnter`, `CreateReplay`, `CreateRoute`, `CreateRouteConversation`, `CreateCommit` | `MessageCommandService.create`, `_find_existing`, `_select_route` |
| `PullEnter`, `PullClaim`, `PullCommit` | `MessagePullService.pull` |
| `StatusEnter`, `StatusClaim`, `StatusCommit` | `MessageStateService.update` |
| `UpdateEnter`, `UpdateClaim`, `UpdateCommit` | `DeviceService.update` |
| `DeviceRefused` | the 403 of all three, `enabled` read again under the lock |
| `SetSimEnabled`, `DeleteSim`, `UnregisterDevice` | `PgAdminService`, with the trigger and the `ON DELETE SET NULL` keys |
| `Crash`, `Reply` | `Database.transaction`, the API routers |

Left out or folded: a message has one recipient, as `schemas/message.py:47` asks (what
the rule for several does is `Aggregate`, and proved about); conversations are identified by
their SIM, for one peer; contacts and conversation times; account bindings;
publication to streams (`Sse`); `devices.status` (it is `online` exactly while
`enabled`); a SIM row that returns after deletion is a fresh row; the `occurred_at`
of history rows; one code stands for each class of refusals. The waits for several
locks of one call are one step, so cycles of waits do not show here (they do in
`RowLocks`). Messages get any unused id, ties of `created_at` are broken either way,
as random ids do.

### Delivery
`Accept`, `HandOut`, `Learn`: a key stands for one message for ever, a message is
handed out once, while nothing is known of it, and what is known advances.
`Outbound!DeliveryImplemented` maps `status` to the state column, `bound` to the
message that carries the key, `taken` to the messages that committed pulls claimed.

### Sse
`registry`, `closed`, `queue` are the code's fields; `ready` holds the
`call_soon_threadsafe` callbacks the loop has not run; `stream` is the place of the
generator; `thread` the worker in the middle of `register` or `publish_message`.
`Put` with `direct` is the branch of `put_event` for a connection without loop:
the queue changes under a getter that may be asleep and is not told (`rung`).
A connection object is reused once nothing refers to it. An event is its place among
the puts into its connection. `close()`'s test-and-set and its reading of the loop
are one step. A client that goes before the generator's first step leaves
it `lost`: neither the loop body nor its `finally` ever runs. The registry of the
agents is the same code keyed by account.

### SmsCheck
Threads go `waiting -> expiring -> holding`; `expiring` is the moment at which a call
updates every overdue check and so waits for all their locks, which is where
transactions meet that share no device. `held` is what a transaction has locked.

| Action | Code |
|---|---|
| `StartEnter`, `StartLock`, `StartClaim`, `StartCommit` | `SmsCheckService.start` |
| `PullEnter`, `PullLock`, `PullClaim`, `PullCommit` | `pull`, inside `MessagePullService.pull` |
| `UpdateEnter`, `UpdateLock`, `UpdateCommit` | `update`, inside the status batch |
| `ReceiveEnter`, `ReceiveLock`, `ReceiveCommit` | `receive` (arrived on a device) and `record_receipt` (pasted: `Nil`) |
| `ResultsEnter`, `ExpireCommit` | `results`, and `expire` where a call turns out late |
| `DeadlockVictim` | PostgreSQL aborting one of two transactions in a cycle (external) |
| `Rollback` | a later item of the same PATCH refused, or a broken connection |
| `Edit` | `update_sim_card`, or a SIM list with another number |

Left out or folded: one diagnostic per PATCH (a refusal of a later item is
`Rollback`); the room the messages of a poll leave is any part of what is due; the
lock waits of device and row are one step; reasons and wording; `created_at` and the
query for the latest check of a SIM; invalid phone numbers and times in the future;
a disabled device is a SIM that is not usable; the two clock reads of a pasted receipt
are one. The two scans of `expire` lock rows in one order.

### Inbox
One device and one sender. The device's row lock is held from a receipt's first
statement to its commit, so receipts of one device overlap only in their waits and in
what follows the commit; agents and the administrator come in between any two steps.
*Resolve* finds the SIM and the accounts to tell, *Merge* or *Insert* begins to write
an existing or a new message, *Upload* puts one object into the store, *Commit* makes
all visible, *Publish* tells one account (or fails to: the stream may be gone), *Abort*
rolls back, without the uploads. `fresh` (the messages a reader has not
marked) and `acks` (the answers given) are history.

| Action | Code |
|---|---|
| `Enter`, `Refuse`, `Replay`, `Conflict` | authentication; the device read again; an id that is there, with the same body or another |
| `Resolve`, `Insert`, `Merge` | `_resolve_sim`; insertion under the SIM's conversation; the second event of an MMS |
| `Upload`, `Commit`, `Publish`, `Finish`, `Abort` | `_store_attachments`, the transaction's end, `InboundPublisher`, the answer |
| `Open`, `List`, `ReadStart`, `ReadCommit` | the two statements of a listing; `mark_read` |
| `DeleteSim`, `UnregisterDevice`, `Rebind`, `SetStatus` | the administrator, with the keys that cascade or set NULL |

Left out or folded: conversations are always open; heartbeat columns; the checks that
admit a request (signature, age, size); the fallback for MMS stored by an older version
under another identity, unreachable for rows this version writes; what a late
`mms:received` writes into the metadata (event and webhook id, over those of the
download). Texts and MMS share one namespace of keys, `mms:...` for the latter, which
`InboxAssumption` separates; it also says that `mms:received`, which tells of an MMS
before its content is there, has no body (`mms_webhook_service.py` writes NULL). SIM deletions may leave several open conversations
without a SIM; a text whose SIM is not known is filed under any one of these (`Home`), as
the statement that looks for it names no order.

### Registry
`call` is a device's update between the verdict on its token and its transaction,
`page` the admin page of one browser with its dialog. Transactions that lock in one
order and read nothing before are one step; saving an account and disabling a SIM
(`DisableSim`, `Disabled`) are several, because they judge or see rows that are not
locked and write later. What an operator chooses or types is chosen where the model
first needs it: nothing else sees it before. `WriteSims` is what any statement on
`sim_cards` does, with the history trigger. `said`, `wanted` and `torn` are history:
the numbers a row ever had, the SIMs of the last save that wrote an account's row, the
accounts bound since by a save that did not.

A save of an account goes from "account" to "clearing" once its UPDATE (or INSERT) has
written and locked the row, to "binding" once its DELETE has got all the bindings its
snapshot saw (`old`), waiting for saves that have deleted one (`RowsFree`), and commits
in `Bound`. An UPDATE of an account that is gone writes nothing, locks nothing and
raises nothing, and the save goes on ("missed"): if the other service makes an account
of that id before the bindings are inserted, the two saves mix, and a main SIM may
lose its binding. `SavedWhole` and `MainIsBound` say that this is the only way, and
that it lasts until the account is saved again or deleted. A binding deleted and made
again is another row, which a page that waits for the old one does not delete
(`Forget`).

| Action | Code |
|---|---|
| `Register` | `DeviceService.register` |
| `UpdateEnter`, `UpdateRefused`, `Update`, `Collide` | `DeviceService.update`: the list upserted slot by slot (`Upserted`), slots it lacks set inactive; given up when the random ids drawn exist three times (a registration, or an update that draws again, leaves nothing and has no step) |
| `OpenSim`, `SaveSim`, `DisableSim`, `Disabled`, `DeleteSim` | the SIM's dialog, `update_sim_card`, `disable_sim`, `delete_sim` |
| `Unregister` | `unregister_device`, with the trigger that deletes the SIMs |
| `OpenAccount`, `SaveAccount`, `SaveNowhere`, `Missed`, `Cleared`, `Bound`, `DeleteAccount`, `Fail` | the account's dialog and its transaction |

What the model has and no property forbids: a SIM that is being disabled can be bound
(`MayBind` is judged without a lock); enabling a SIM whose card is out makes it
"active"; a number that an inactive row holds refuses a registration (409); dialogs
overwrite what was reported meanwhile (the number goes to the history). Left out: the
403 for a path whose id is not the token's; device names; accounts' other fields.

### RowLocks
A call is the set of its lock requests, one operator per endpoint (`CreateLocks`,
`ReplyLocks`, ...). A request has its rows (mostly one), a mode and a step: those of one
step come in any order (a plan's, or that of the ids), some must be made, some may be.
`Take` gets a free lock, `Wait` and `Grant` one that is not, `Abort` is PostgreSQL ending
one of a circle. `Try` and `Skim` are SKIP LOCKED, which never waits. Rows are devices,
SIMs, conversations, messages (one per conversation), contacts, checks, accounts and
bindings; what a deletion does to rows that refer to a SIM comes in the order in which the
schema declares the keys.

These pairs can deadlock (`Circles`), and the loser gets a 500 and may retry:

* a reply (a create by conversation, which locks the conversation before the device)
  with a create, an inbound text, the second event of an MMS, a status report, a SIM's
  deletion or an unregistration;
* any two of the calls that expire everybody's checks: polls, reports, diagnostic texts
  and the page of results (`Checking`), also the ordinary polls of two devices;
* any two of a SIM being disabled, one being deleted and a device being unregistered
  (`Dropping`), which make accounts forget SIMs;
* a SIM's deletion with an inbound text, an MMS's second event or a status report, which
  lock conversation or message before the SIM, or after;
* the save of an account with one of `Dropping`, or with a device's update (whose SIMs
  the bindings refer to);
* the save of an account that is gone, and is there again when its bindings refer to it,
  with another save of it, its deletion, a SIM's deletion, an unregistration or an update;
* the deletion of an account with a SIM being disabled or a device unregistered.

Two batches of reports of two devices cross over the contacts of two messages as well as
over checks. `HarmlessNeverDeadlock` is about more than two: the calls of `Harmless` form
no circle by themselves, unless one of them waits for a check.

Left out, as no circle goes through them: advisory locks (the first request of their
calls, or asked for with the device locked); recipients, history and attachments (of a
message that is locked); sessions; rows that are new. Menus (`products`) take two
deletions of accounts and two menus each names to deadlock. A refused report stands for
those that name several foreign messages, which they lock in the order of ids. A contact's
or a user's new name is a change of a key, which is a mode of its own (`ContactLocks`,
`SaveAccountLocks`); a device's name is changed by a call of one request, which is
`ReadLocks` of another row. The monitor's copies request the same locks, so a worker
stands for a transaction of either service.

### Agents
`idle -> asked -> known -> judged -> done`, one transaction per arrow: *Authenticate*
reads session, account and area; *Judge...* reads the contact's area or the
conversation's binding, for a remark or a call about one conversation (`Opens`: its
messages, marking it read, a reply); the last does the work. `via` says which service
answers: the monitor's copy judges conversations by the area their SIM had when they
began (`HomeArea`, never updated), a reply by the binding too, and lists menus by area.
`held` is history: every right that was true at some moment of the call, so that
`EntitledDuringCall` may ask for each at its own moment, which is all the code promises.

A reply with a new key (`SendNew`) asks whether the SIM can send and is remembered in
`sent`; one with a known key (`SendAgain`) is answered 200 without a look at the SIM, or
409. A SIM may stay bound and not be able to send: its device reports it missing
(`ReportSim`), or an account's save overlaps its disabling (`SaveSim`, `unseen`). That a
device is offline is one of the reasons why a reply may be refused at any time.

What the model has and no property forbids: a reply judges the binding in its own
transaction and not again in the create's (`agent-app-sim-routing-adaptation.md:295`
asks for it); a remark may be answered ok without a row; a text moves its sender to the
SIM's area, or out of all when that is NULL; an operator's dialog overwrites an agent's
remark; sessions outlive a change of password and a disabling that is taken back; an
account deleted and made again under its id is acted for by calls under way; messages
are listed after the judgement whatever has become of it (the unread counter is judged
again with its update, the reply's SIM with its message); an own
menu with a NULL area (or, at the monitor, a NULL area of a conversation) fails the
whole list; contacts made by an outbound message have no area. Left out: passwords
(right, or the login does not start), search, `reply_as_account` and its like, which no
router calls.

### Dashboard
`lists` and `lane` are the requests under way, `Alive` what a new list request leaves
of the older ones (`AbortController`), `StillShown` the guard of a refresh's answer.
What a choice matches (`Matches`) changes under the page: by the last message for
`waiting`, the one status that the page offers (`Waiting`; `Replies` are the places of
messages to customers), and by accounts, bindings and remarks, which `Regroup` changes
to another of `Groupings`. Cards are not looked at again until the list is reloaded, so a
conversation that was replied to is shown as waiting for up to ten seconds, and an answer
may show one that matches only since. `seen` is history: the conversations that matched
the choice at some moment since the last reload; `CardsAreCurrent` asks that cards are
of these, and that none has two. A conversation is opened by its card, or by the page's
address before anything else was (`Untouched`).
`stray` marks that an older page, or the refresh of a conversation closed and opened
again, was put into the drawer without looking: `OneConversation` is about all other
ways. Not forbidden: a late `openDetail` overwrites a newer one's conversation
with its own (`main.js:200`), messages and title together; a refresh shows the newest
page only, so more than 50 messages in five seconds leave a gap; a message that
is committed behind later ones is not shown until the drawer is reopened. Left out: the
login, its rate limit and the counts per agent, which `list_agents` puts together from
three transactions with a snapshot each.

## 4. Runs

| Run | Instance | Checks |
|---|---|---|
| `create` | 2 threads, 2 devices with a SIM each, 1 key, 2 message ids, clock to 2, crashes, administrator | `OneMessagePerKey`, `AcksNameTheMessage`, `BornOnUsableSim`, `DisabledDeviceFrozen`, `StillValid` |
| `report` | 2 threads, 1 device, 2 keys and messages, batches of one and two reports, polls of one message in both orders | `ClaimedOnce`, `RowsAgree`, `NeverRegresses`, `DeliveryImplemented` |
| `handover` | 2 threads, 1 device, 2 scheduled messages, polls of one, SIM lists, no crash | `PendingIsHandedOver` |
| `streams` | 1 key, 2 connections, 2 threads, 2 events each | `OpenIsRegistered`, `RegisteredIsOpen`, `InOrder`, `AcceptedIsSent`, `ReplacedStreamEnds` |
| `launch` | 2 operators, 2 keys, 2 runs, a SIM that is edited, rollbacks | `OneRunAtATime`, `OneRunPerKey` |
| `checks` | 1 run, 2 SIMs on 2 devices, outside receiver, reports of Sent and Failed, cycles of row locks | `NoHalfVerdict`, `HandedOnce`, `VerdictFinal`, `EveryCheckCallEnds`, `PendingResolves` |
| `inbox` | 2 threads, 1 agent, 1 SIM, 2 ids, 2 parts, 5 bodies (two texts of one id, both events of an MMS, a download that differs), failures | `FiledOnce`, `UnreadIsFresh`, `FiledBySim`, `DownloadIsWhole`, `RowsHaveObjects`, `ListedWhole`, `ToldOncePerEvent` |
| `administration` | 1 device, 2 SIM rows, 2 lists that move a card between slots, 1 account, 2 pages of 2 processes | `GoneIsBare`, `NumbersKept`, `MainIsBound`, `SavedWhole`, `OperatorsEnable` |
| `locks` | 2 transactions, 2 devices with 3 SIMs, 2 contacts, 4 conversations, 1 account, 2 checks | `HarmlessNeverDeadlock`, `CirclesAreKnown` |
| `access` | 1 of each, clock to 1, both services, all operators' steps, no text of a remark | `EntitledDuringCall`, `RemarkOkIsWritten` |
| `dashboard` | 2 conversations, 3 messages, one of them a reply, 2 choices (all, waiting), 2 groupings, pages of 1, 2 drawer requests | `CardsAreCurrent`, `OneConversation` |
| `retrynotrefused` | the smallest that shows it | the divergence of section 7 |

Why these bounds are enough: all conflicts of the code are between two
transactions, or a transaction and an operator, over one key, device, SIM, message,
check or account; two actors, with as many rows as one call can touch plus one for
the other to take, have all of them. Two posts per thread let a stream have events
before and after its replacement. `locks` has every pair of calls with the rows that
a pair can cross over, two of a type where the order within it matters; circles of three
and more are left to the proof. In `access` one call meets everything operators, devices,
texts and the clock do between its transactions, and calls of two agents share no row
that both write; what a remark says is told apart by no property. Pages of one card and one message make every list longer than a page. A clock
of two readings gives a call that began earlier and commits later, a scheduled time
that comes, a deadline or session that expires. All safety properties are proved for
all bounds besides. Deadlock is checked in every passing run. Each property has a
mutant, a plausible bug of one definition, that breaks it under its run.

`inbox` takes `Segment` as injective; two ids that `object_storage.py:18` sanitises to
one would share objects.

Symmetry under permutation of threads, connections, runs, random ids is used for
safety only.

## 5. Fairness

* `Outbound`: a call whose next step is possible again and again takes it (`SF`:
  worker threads run, PostgreSQL queues lock waits in order); an enabled device polls
  again and again, in the endpoint's default order; time passes. Nobody is obliged to
  create, report or update.
* `Sse`: threads finish the put they are in; the loop runs its callbacks, runnable
  generators and expired timeouts; `SF` for the lock that publishers share. A getter
  that was not told of its item has no claim to be resumed, only its timeout has.
  Nobody is obliged to connect, publish or leave.
* `SmsCheck`: as `Outbound`; two transactions in a cycle end because PostgreSQL
  aborts one; somebody asks for results again and again (the page refreshes every
  five seconds, `pg/sms_check_ui.py`). Without that nothing expires: the
  code has no timer, and `PendingResolves` is false.
* The other modules state safety only: their calls are sequences of steps that wait
  for locks alone, which `RowLocks` is about, or for nothing.

## 6. Proofs

All theorems hold for any sets of threads, devices, SIMs, keys, messages,
connections, and are checked by TLAPS from the named `ASSUME` of their module alone.

* `OutboundProofs`. `IInv` strengthens `TypeOK` by `CallShape` (what a call's record
  holds in each phase), `Exclusive` (no two calls in `holding` share a device or key),
  `StillValid` (what a call read under locks still holds) and `Unclaimed`. It is
  needed because a commit does not test again what its claim tested: that a commit
  keeps `OneMessagePerKey` rests on the key still being free, which rests on
  `Exclusive` through the locks. Each action preserves `Exclusive` because its claim
  asks for the lock, `StillValid` because every other writer of the row is held out by
  that lock. `Invariance`, then `TypeCorrect`, `LocksSuffice`, `Idempotent`,
  `AcksTrue`, `AtMostOnce`, `RowsConsistent`, and the action properties `Monotone`,
  `BornUsable`, `DisabledFrozen`.
  `Implements` proves `Spec => D!DeliverySpec`: creates map to `Accept`, pull commits
  to `HandOut`, status commits to `Learn`, the rest stutters. Of the judges of a report,
  `TransitionOrder` (transitions are a partial order, so reports that are lost are made
  good by later ones) and `AggregateAdvances` (recipients that advance never make their
  message regress, for any number of recipients).
* `SseProofs`. `IInv` joins `Detached` (a thread that is about to close a connection
  has taken it off the registry) and `OnePublisher` to the two properties; neither
  `RegisteredIsOpen` nor `OpenIsRegistered` is inductive without them. For `Ordered`,
  a connection is one line, what its generator took, its queue and the callbacks not
  yet run, and the line has the events 1 to `posted`, each once, with markers anywhere
  between (`InLine`). A publication may enter the line at its end, by the loop, or in
  its middle, straight into the queue; the second is harmless because the choice is made
  under the registry's lock while the connection is unbound, and then no callback with an
  event is under way (`NoneCrosses`).
* `SmsCheckProofs`: `IInv` adds `CallShape` (what each call has in hand; what it read of
  a row it has locked is still so), `Locked` (no two calls lock one row), `OneLaunch`
  (one start is past the launch lock; its key is free, and it has locked all that is
  pending) and `Grounded` (a check has a run, and is sent only when handed out).
  `OneRunAtATime` and `OneRunPerKey` need `OneLaunch`: a start inserts its checks long
  after it saw nothing pending and its key free. `NoHalfVerdict`, `HandedOnce` and
  `VerdictFinal` need `CallShape` through `Locked`: a commit writes over the row by
  what the call read before. `Invariance`, then `OneAtATime`, `Idempotent`, `Grounds`,
  `AtMostOnce` and the action property `Final`.
* `InboxProofs`. `IInv` rests on the device's row lock: at most one receipt is between its
  look for an existing message and its commit (`OneReceipt`), so what it found is so
  when it writes (`Filing`), although SIMs vanish and readers reset counters meanwhile.
  `Once` and `BySim` are parts of it. `Unread` and `ToldOnce` count against sets: each
  step leaves `fresh` or `Settled` as it is, adds one, or empties it. `RowsBacked` has
  an assumption, `SegmentsDiffer`: without it a second id overwrites the object.
  `DownloadStored` and `DownloadListed` have an invariant of their own (`Whole`): an
  upload under way has stored exactly the parts it has put behind it, in the order of the
  request, the last of a name winning (`FilesUpTo`); and what a list has read as
  downloaded keeps its attachments, since a message is downloaded once.
* `RegistryProofs`. Every statement on SIMs goes through `WriteSims`, shown once to keep
  all of it (`WriteKeeps`). `OneSave` and `MainBound` need `Exclusive`: one page at a
  time has written an account's row, and what it deletes is all the account has unless
  the account is torn. Also `GoneBare`,
  `NothingLost`, and the action property `OperatorsAlone`.
* `AgentsProofs`. `held` is only added to while a call runs (`Grow`), so each transaction
  need find its part of the grounds only (`Formed`, `Known`, `Judged`, `Shown`, by the
  place of the call); a token's session changes only with its account's deletion
  (`SessionStep`). `Entitled` and `RemarkWritten` follow.
* `RowLocksProofs`. Each endpoint's requests, whatever order a statement takes its rows
  in, are reduced to a few facts (`Shape`): of which type of row it asks for one while it
  holds one of which type (`After`); that it has the device, or the account, before the
  rows that belong to it (`Covered`, `Owned`); modes; whose bindings. `Granted`: locks
  that are held are compatible, and a call has what it must have before what it has or
  waits for. Two calls that lock one device first, or one account, are then never both
  under way past it (`DeviceClash`, `AccountClash`). `TwoInACircle`: two that wait for
  each other need opposite orders (`OppositeOrders`), and those that are left are the
  listed ones, so the list in section 3 is complete for any number of rows.
  `HarmlessSafe` is about circles of any length: `Awaits` is a least closed set, so each
  member has a member before it and one after it (`Predecessor`, `Successor`); a
  harmless one between harmless ones would hold a contact and ask for one
  (`NeighboursMeetAtContact`), and none does.
* `DashboardProofs`, for pages of any size. `CardsCurrent` rests on `ListInv`: the one
  request under way is for what is chosen and goes on where the cards end, what matches
  by now has been counted as seen, and each card has a message at or after
  the cursor, whatever came in since; the next page's conversations have none, so none is
  there twice. `OneShown` rests on `DrawerInv`. Its hard case is a refresh and an older
  page under way together: the refresh would put messages under the older page's if it
  reached back past the oldest shown. It does not, for there are older messages to ask
  for only when a page or more is newer (`PageAfter`), and a refresh returns one page.
  What `Sorted` returns is shown in `SortedHas` and `SortedOrder`.

Recursion and the folds and filters of the community modules stay opaque to the provers.
`Dashboard` and `Inbox` therefore say what their sorts, pages and uploads return, by rank
or by the greatest index, rather than how. Facts about sizes of sets are proved from a
least counterexample (`WFMin`, in `Least` and `Greatest`) instead of by induction.

Every safety and action property of the passing runs is stated by a theorem. Model-checked
only: the liveness properties `PendingIsHandedOver`, `AcceptedIsSent`,
`ReplacedStreamEnds`, `EveryCheckCallEnds` and `PendingResolves`, which are beyond this
prover; and the divergence of section 7, which is a counterexample.

## 7. Where documents and code differ

* `RetryNotRefused`: the create design promises 200 for a repeated request; the code
  judges `validUntil` before it looks the key up, so a retry after the deadline gets 400.

In the models as the code has them, without a run of their own:

* The status design (`2026-06-22-message-status-design.md:135`) answers contradictory
  histories with 409; the code (`message_status.py:108`) compares Failed and Delivered
  within one request, so two requests leave both in the history.
* The SSE design (`2026-06-22-sse-events-design.md:61`) cleans the registry in `finally`;
  a response cancelled before the generator's first step has no `finally` to run, and
  its connection stays registered (and accepts events) until the device connects again.
* The same design (line 69) avoids operating a queue across loops; `put_event` reads
  `loop` as None, and the generator may start before the put, which then wakes nobody:
  the event waits for the next heartbeat (20 s). `AcceptedIsSent` holds because of it.
* A poll or report that began earlier and commits later moves `last_seen_at` back; a
  create is refused with 422 while a poll holds its only device (`SKIP LOCKED`); the
  transport state of a pending check follows the last report that comes in, not the
  newest.

## 8. Not modelled

Wiring, error mapping and configuration have no state. The seed script, the mock phone,
images, downloads and resource limits are tools. Of the admin UI the layout and the
display of numbers, of the monitor the supervisor's login and its counts. Regions are
free text to everything else. Formatting of JSON and phone numbers. Search. Of the
schema, views and read-only roles. What each component leaves out is in its section
above, and in its note in `PROJECT.json`.
