-------------------------------- MODULE Inbox --------------------------------
(***************************************************************************)
(* What comes in: a device posts received texts to POST /mobile/v1/inbox   *)
(* and the events of MMS to the webhook, again and again until it gets an  *)
(* answer; the main service files each under a conversation, stores the    *)
(* attachments of an MMS, and tells the agents bound to the receiving SIM. *)
(* Meanwhile agents open conversations and mark them read, and an          *)
(* administrator deletes SIMs, changes bindings and unregisters the        *)
(* device.                                                                 *)
(*                                                                         *)
(* One device and one sender: every receipt holds the row of its device    *)
(* from its first statement to its commit, and receipts of two devices or  *)
(* two senders meet at no row of this module (RowLocks has the contacts    *)
(* rows, where they do).  A receipt is                                     *)
(*                                                                         *)
(*    idle --Enter--> waiting --Resolve--> resolved --Insert--> writing    *)
(*                      | \------------Merge----------------^      |       *)
(*       Refuse, Replay, Conflict                       Upload*, Commit    *)
(*                      v                                          v       *)
(*    idle <-----------idle <------Finish------ publishing <-------+       *)
(*                                                                         *)
(* and Abort takes it back to idle from anywhere: an open transaction      *)
(* rolls back, uploaded objects stay, what was not published never is.     *)
(***************************************************************************)
EXTENDS Naturals, Sequences, FiniteSets, SequencesExt

CONSTANTS
    Threads,    \* worker threads of the service
    Accounts,   \* agents
    Sims,       \* SIM rows of the device at the start
    Ids,        \* `id' of texts and `messageId' of MMS, as idempotency keys
    Parts,      \* `partId' of attachments
    Contents,   \* what a text, an MMS or an attachment says
    Requests,   \* the bodies the device posts, valid ones only
    Segment,    \* the part of an object key that an id is sanitised to
    Convs,      \* ids of conversations (random in the code)
    Msgs,       \* ids of messages (random in the code)
    MayAbort,   \* whether transactions may fail and threads may die
    Nil

Kind == {"text", "received", "downloaded"}

\* A body, up to what its digest covers: `slot' and `number' are the SIMs that
\* simNumber and recipient match, `ident' what an MMS must repeat in each of
\* its events (recipient, SIM number, subject), `files' its attachments.
File    == [part: Parts, data: Contents \union {Nil}]
Request == [kind: Kind, id: Ids, slot: Sims \union {Nil},
            number: Sims \union {Nil}, ident: Contents,
            body: Contents \union {Nil}, files: Seq(File)]

ASSUME InboxAssumption ==
    /\ Requests \subseteq Request
    /\ \A r \in Requests : r.kind # "downloaded" => r.files = <<>>
    /\ \A r \in Requests : r.kind = "received" => r.body = Nil
    /\ \A r, q \in Requests :
          r.id = q.id => (r.kind = "text" <=> q.kind = "text")
    /\ Ids \subseteq DOMAIN Segment
    /\ MayAbort \in BOOLEAN
    /\ Nil \notin Sims /\ Nil \notin Contents /\ Nil \notin Requests
    /\ Nil \notin Convs /\ Nil \notin Msgs

VARIABLES
    enabled,    \* devices.enabled
    sims,       \* ids of the rows of sim_cards
    bound,      \* account_sim_cards
    active,     \* accounts with status ACTIVE
    conv,       \* conversations, all OPEN
    msg,        \* inbound messages and their attachments
    object,     \* the object store
    call,       \* what each thread is doing
    told,       \* how often an account's stream got a message's event
    fresh,      \* messages filed in a conversation since it was last read
    acks        \* accepted requests and the messages their answers named

admin == <<enabled, sims, bound, active>>
filed == <<conv, msg, object, fresh>>
vars == <<enabled, sims, bound, active, conv, msg, object, call,
          told, fresh, acks>>

-----------------------------------------------------------------------------
(* Rows *)

ConvRow == [there: BOOLEAN, sim: Sims \union {Nil}, unread: Nat]
NoConv  == [there |-> FALSE, sim |-> Nil, unread |-> 0]

\* `got' is requestDigest, receivedDigest and downloadedDigest; `files' the
\* rows of message_attachments.
MsgRow == [there: BOOLEAN, id: Ids \union {Nil}, conv: Convs \union {Nil},
           sim: Sims \union {Nil}, ident: Contents \union {Nil},
           got: [Kind -> Requests \union {Nil}],
           body: Contents \union {Nil},
           files: [Parts -> Contents \union {Nil}]]
NoFiles == [p \in Parts |-> Nil]
NoMsg   == [there |-> FALSE, id |-> Nil, conv |-> Nil, sim |-> Nil,
            ident |-> Nil, got |-> [k \in Kind |-> Nil], body |-> Nil,
            files |-> NoFiles]

Call == [pc: {"idle", "waiting", "resolved", "writing", "publishing",
              "opening", "listing", "listed", "reading", "clearing"},
         req: Requests \union {Nil}, sim: Sims \union {Nil},
         conv: Convs \union {Nil}, msg: Msgs \union {Nil}, new: BOOLEAN,
         left: Seq(File), files: [Parts -> Contents \union {Nil}],
         to: SUBSET Accounts, acc: Accounts \union {Nil},
         whole: SUBSET Msgs, stored: SUBSET (Msgs \X Parts), mine: SUBSET Sims]
IdleCall == [pc |-> "idle", req |-> Nil, sim |-> Nil, conv |-> Nil,
             msg |-> Nil, new |-> FALSE, left |-> <<>>, files |-> NoFiles,
             to |-> {}, acc |-> Nil, whole |-> {}, stored |-> {}, mine |-> {}]

Become(t, c) == call' = [call EXCEPT ![t] = c]
End(t)       == Become(t, IdleCall)

\* What an attachment makes of the attachment rows.
Stored(files, f) == IF f.data = Nil THEN files ELSE [files EXCEPT ![f.part] = f.data]

-----------------------------------------------------------------------------
(* Locks *)

\* devices row, FOR UPDATE (and, within it, the advisory locks on the id and on
\* the conversation): held from the first statement of a receipt to its end.
DeviceFree == \A t \in Threads : call[t].pc \notin {"resolved", "writing"}

\* conversations row: locked where a new message is filed, so not by a merge.
ConvFree(c) == \A t \in Threads : ~(call[t].pc = "writing" /\ call[t].new /\ call[t].conv = c)

\* sim_cards row, FOR KEY SHARE: the rows inserted refer to it.
SimFree(s) == \A t \in Threads : ~(call[t].pc = "writing" /\ call[t].new /\ call[t].sim = s)

-----------------------------------------------------------------------------
(* Receiving *)

\* The token of a device that posts a text is judged first, in a transaction of
\* its own; the webhook's events are signed, whatever the device is.
Enter(t, r) ==
    /\ call[t].pc = "idle"
    /\ r.kind = "text" => enabled
    /\ Become(t, [IdleCall EXCEPT !.pc = "waiting", !.req = r])
    /\ UNCHANGED <<admin, filed, told, acks>>

Locked(t) == call[t].pc = "waiting" /\ DeviceFree

\* 403
Refuse(t) ==
    /\ Locked(t) /\ ~enabled
    /\ End(t)
    /\ UNCHANGED <<admin, filed, told, acks>>

\* Mutant of Existing: the id is looked up among the messages of the SIM.
ExistingOfSim(r) == {m \in Msgs : /\ msg[m].there /\ msg[m].id = r.id
                                  /\ msg[m].sim = r.slot}

Existing(r) == {m \in Msgs : msg[m].there /\ msg[m].id = r.id}

\* Mutant of Conflicts: a second download of an MMS replaces the first.
ConflictsUnlessDownloaded(m, r) ==
    r.kind # "downloaded" /\ msg[m].got[r.kind] \notin {Nil, r}

\* What a stored message says against the request: an event of an MMS may be
\* new, a text may not.
Conflicts(m, r) == \/ r.kind # "text" /\ msg[m].ident # r.ident
                   \/ msg[m].got[r.kind] \notin {Nil, r}

\* 409
Conflict(t) ==
    /\ Locked(t) /\ enabled
    /\ \E m \in Existing(call[t].req) : Conflicts(m, call[t].req)
    /\ End(t)
    /\ UNCHANGED <<admin, filed, told, acks>>

Agents(s) == {a \in active : <<a, s>> \in bound}

\* Mutant of Replay: the answer to a repeated request is followed by events.
ReplayLoudly(t) ==
    /\ Locked(t) /\ enabled
    /\ \E m \in Existing(call[t].req) :
          /\ ~Conflicts(m, call[t].req)
          /\ msg[m].got[call[t].req.kind] = call[t].req
          /\ Become(t, [call[t] EXCEPT !.pc = "publishing", !.msg = m,
                          !.to = {a \in active : <<a, msg[m].sim>> \in bound}])
    /\ UNCHANGED <<admin, filed, told, acks>>

\* 200, `created' false, nothing written and nothing published
Replay(t) ==
    /\ Locked(t) /\ enabled
    /\ \E m \in Existing(call[t].req) :
          /\ ~Conflicts(m, call[t].req)
          /\ msg[m].got[call[t].req.kind] = call[t].req
          /\ acks' = acks \union {<<call[t].req, m>>}
    /\ End(t)
    /\ UNCHANGED <<admin, filed, told>>

\* Another event of an MMS that is stored: it joins the message.
Merge(t) ==
    /\ Locked(t) /\ enabled
    /\ \E m \in Existing(call[t].req) :
          /\ ~Conflicts(m, call[t].req)
          /\ msg[m].got[call[t].req.kind] # call[t].req
          /\ Become(t, [call[t] EXCEPT !.pc = "writing", !.msg = m,
                 !.conv = msg[m].conv, !.to = Agents(msg[m].sim),
                 !.left = call[t].req.files, !.files = msg[m].files])
    /\ UNCHANGED <<admin, filed, told, acks>>

\* The SIM by simNumber, else by recipient, else none; disabled and inactive
\* SIMs count.
Resolved(r) == IF r.slot \in sims THEN r.slot
               ELSE IF r.number \in sims THEN r.number ELSE Nil

\* The SIM row is read without a lock, and the agents to tell with it.
Resolve(t) ==
    /\ Locked(t) /\ enabled /\ Existing(call[t].req) = {}
    /\ LET s == Resolved(call[t].req) IN
       Become(t, [call[t] EXCEPT !.pc = "resolved", !.sim = s, !.to = Agents(s)])
    /\ UNCHANGED <<admin, filed, told, acks>>

\* Mutant of Home: the conversation is looked for by sender and device alone.
HomeOfAnySim(s) == {c \in Convs : conv[c].there}

\* The sender's conversations on this device and SIM.
Home(s) == {c \in Convs : conv[c].there /\ conv[c].sim = s}

\* The contact, the conversation and the message are written, none of them
\* visible yet; a SIM deleted meanwhile fails the foreign key (see Abort).
Insert(t) ==
    /\ call[t].pc = "resolved"
    /\ call[t].sim \in sims \union {Nil}
    /\ \E c \in (IF Home(call[t].sim) # {} THEN Home(call[t].sim)
                 ELSE {v \in Convs : ~conv[v].there}) :
       \E m \in {n \in Msgs : ~msg[n].there} :
          Become(t, [call[t] EXCEPT !.pc = "writing", !.conv = c, !.msg = m,
                 !.new = TRUE, !.left = call[t].req.files])
    /\ UNCHANGED <<admin, filed, told, acks>>

\* build_mms_object_key, for one device: the name of a part is that of its data.
Key(id, part) == <<Segment[id], part>>
Keys == {Key(i, p) : i \in Ids, p \in Parts}

\* Mutant of Upload: the first part without data ends the loop.
UploadUntilBare(t) ==
    /\ call[t].pc = "writing" /\ call[t].left # <<>>
    /\ LET f == Head(call[t].left) IN
       /\ object' = IF f.data = Nil THEN object
                    ELSE [object EXCEPT ![Key(call[t].req.id, f.part)] = f.data]
       /\ Become(t, [call[t] EXCEPT !.left = IF f.data = Nil THEN <<>> ELSE Tail(@),
                                    !.files = Stored(@, f)])
    /\ UNCHANGED <<admin, conv, msg, fresh, told, acks>>

\* One attachment after the other: put_object, which no rollback undoes, then
\* the upsert of its row.  A part without data is passed over.
Upload(t) ==
    /\ call[t].pc = "writing" /\ call[t].left # <<>>
    /\ LET f == Head(call[t].left) IN
       /\ object' = IF f.data = Nil THEN object
                    ELSE [object EXCEPT ![Key(call[t].req.id, f.part)] = f.data]
       /\ Become(t, [call[t] EXCEPT !.left = Tail(@), !.files = Stored(@, f)])
    /\ UNCHANGED <<admin, conv, msg, fresh, told, acks>>

\* The message as the transaction leaves it: COALESCE keeps a body that an
\* event without one would clear.
Written(c) ==
    LET old == IF c.new THEN [NoMsg EXCEPT !.there = TRUE, !.id = c.req.id,
                  !.conv = c.conv, !.sim = c.sim, !.ident = c.req.ident]
               ELSE msg[c.msg]
    IN [old EXCEPT !.got[c.req.kind] = c.req, !.files = c.files,
                   !.body = IF c.req.body # Nil THEN c.req.body ELSE @]

\* Mutant of Counts: every event of an MMS raises the unread count.
CountsEvents(c) == TRUE

Counts(c) == c.new

\* A merged `received' is not announced.
Announced(c) == c.new \/ c.req.kind = "downloaded"

Commit(t) ==
    /\ call[t].pc = "writing" /\ call[t].left = <<>>
    /\ LET c == call[t]
           k == c.conv
           was == IF conv[k].there THEN conv[k]
                  ELSE [there |-> TRUE, sim |-> c.sim, unread |-> 0] IN
       /\ msg' = [msg EXCEPT ![c.msg] = Written(c)]
       /\ conv' = [conv EXCEPT ![k] =
                      [was EXCEPT !.unread = IF Counts(c) THEN @ + 1 ELSE @]]
       /\ fresh' = [fresh EXCEPT ![k] = IF c.new THEN @ \union {c.msg} ELSE @]
       /\ Become(t, [c EXCEPT !.pc = "publishing",
                              !.to = IF Announced(c) THEN @ ELSE {}])
    /\ UNCHANGED <<admin, object, told, acks>>

\* After the commit, agent by agent; an agent without an open stream, which
\* module Sse's registry decides, misses it.
Publish(t) ==
    /\ call[t].pc = "publishing"
    /\ \E a \in call[t].to :
          /\ told' \in {told, [told EXCEPT ![<<a, call[t].msg>>] = @ + 1]}
          /\ Become(t, [call[t] EXCEPT !.to = @ \ {a}])
    /\ UNCHANGED <<admin, filed, acks>>

\* 201 (200 from the webhook)
Finish(t) ==
    /\ call[t].pc = "publishing" /\ call[t].to = {}
    /\ acks' = acks \union {<<call[t].req, call[t].msg>>}
    /\ End(t)
    /\ UNCHANGED <<admin, filed, told>>

\* A foreign key or the object store fails, the transaction is a deadlock's
\* victim, or the thread dies: nothing is written, an answer due is lost.
Abort(t) ==
    /\ \/ MayAbort
       \/ call[t].pc = "resolved" /\ call[t].sim \notin sims \union {Nil}
    /\ call[t].pc \in {"waiting", "resolved", "writing", "publishing"}
    /\ End(t)
    /\ UNCHANGED <<admin, filed, told, acks>>

-----------------------------------------------------------------------------
(* Agents *)

\* _ensure_account_access, also the condition of every list an agent gets
Assigned(a, c) == conv[c].there /\ <<a, conv[c].sim>> \in bound

\* An agent, authenticated, asks for messages or marks them read: access is
\* judged in a transaction of its own.
Open(t, a, c, next) ==
    /\ call[t].pc = "idle"
    /\ a \in active /\ Assigned(a, c)
    /\ Become(t, [IdleCall EXCEPT !.pc = next, !.acc = a, !.conv = c])
    /\ UNCHANGED <<admin, filed, told, acks>>

\* Messages whose download is in the rows, and the attachment rows.
Downloaded(c) == {m \in Msgs : /\ msg[m].there /\ msg[m].conv = c
                               /\ msg[m].got["downloaded"] # Nil}
FileRows(c)   == {x \in Msgs \X Parts : /\ msg[x[1]].there /\ msg[x[1]].conv = c
                                        /\ msg[x[1]].files[x[2]] # Nil}

\* Mutant of List: the attachments are read before the messages.
ListBackwards(t) ==
    /\ \/ /\ call[t].pc = "opening"
          /\ Become(t, [call[t] EXCEPT !.pc = "listing", !.stored = FileRows(call[t].conv)])
       \/ /\ call[t].pc = "listing"
          /\ Become(t, [call[t] EXCEPT !.pc = "listed", !.whole = Downloaded(call[t].conv)])
       \/ call[t].pc = "listed" /\ End(t)
    /\ UNCHANGED <<admin, filed, told, acks>>

\* Two statements of one transaction, each with a snapshot of its own: the
\* messages, then the attachments.
List(t) ==
    /\ \/ /\ call[t].pc = "opening"
          /\ Become(t, [call[t] EXCEPT !.pc = "listing", !.whole = Downloaded(call[t].conv)])
       \/ /\ call[t].pc = "listing"
          /\ Become(t, [call[t] EXCEPT !.pc = "listed", !.stored = FileRows(call[t].conv)])
       \/ call[t].pc = "listed" /\ End(t)
    /\ UNCHANGED <<admin, filed, told, acks>>

\* The update's snapshot: the bindings it sees, while it may wait for the row.
ReadStart(t) ==
    /\ call[t].pc = "reading"
    /\ LET a == call[t].acc IN
       IF Assigned(a, call[t].conv)
       THEN Become(t, [call[t] EXCEPT !.pc = "clearing", !.mine = {s \in Sims : <<a, s>> \in bound}])
       ELSE End(t)
    /\ UNCHANGED <<admin, filed, told, acks>>

\* The row as it is once it is free decides, the bindings as they were.
ReadCommit(t) ==
    /\ call[t].pc = "clearing"
    /\ LET c == call[t].conv IN
       /\ ConvFree(c)
       /\ IF conv[c].sim \in call[t].mine
          THEN /\ conv' = [conv EXCEPT ![c].unread = 0]
               /\ fresh' = [fresh EXCEPT ![c] = {}]
          ELSE UNCHANGED <<conv, fresh>>
    /\ End(t)
    /\ UNCHANGED <<admin, msg, object, told, acks>>

-----------------------------------------------------------------------------
(* The administrator *)

\* Rows of SIMs vanish: bindings go with them, messages and conversations stay
\* and forget their SIM (ON DELETE CASCADE and SET NULL).
Vanish(gone) ==
    /\ sims' = sims \ gone
    /\ bound' = {b \in bound : b[2] \notin gone}
    /\ conv' = [c \in Convs |-> IF conv[c].sim \in gone
                                THEN [conv[c] EXCEPT !.sim = Nil] ELSE conv[c]]
    /\ msg' = [m \in Msgs |-> IF msg[m].sim \in gone
                              THEN [msg[m] EXCEPT !.sim = Nil] ELSE msg[m]]

DeleteSim(s) ==
    /\ s \in sims /\ SimFree(s)
    /\ Vanish({s})
    /\ UNCHANGED <<enabled, active, object, call, told, fresh, acks>>

\* The device row is updated, and a trigger deletes the SIMs.
UnregisterDevice ==
    /\ enabled /\ DeviceFree
    /\ enabled' = FALSE
    /\ Vanish(sims)
    /\ UNCHANGED <<active, object, call, told, fresh, acks>>

\* Saving an account or a SIM grants and withdraws bindings, saving an account
\* also enables and disables it.
Rebind(a, s) ==
    /\ s \in sims
    /\ bound' = IF <<a, s>> \in bound THEN bound \ {<<a, s>>} ELSE bound \union {<<a, s>>}
    /\ UNCHANGED <<enabled, sims, active, filed, call, told, acks>>

SetStatus(a) ==
    /\ active' = IF a \in active THEN active \ {a} ELSE active \union {a}
    /\ UNCHANGED <<enabled, sims, bound, filed, call, told, acks>>

-----------------------------------------------------------------------------
(* Specification *)

Init ==
    /\ enabled = TRUE /\ sims = Sims
    /\ bound = Accounts \X Sims /\ active = Accounts
    /\ conv = [c \in Convs |-> NoConv] /\ msg = [m \in Msgs |-> NoMsg]
    /\ object = [x \in Keys |-> Nil]
    /\ call = [t \in Threads |-> IdleCall]
    /\ told = [x \in Accounts \X Msgs |-> 0]
    /\ fresh = [c \in Convs |-> {}] /\ acks = {}

ReceiptStep(t) ==
    \/ Refuse(t) \/ Conflict(t) \/ Replay(t) \/ Merge(t) \/ Resolve(t)
    \/ Insert(t) \/ Upload(t) \/ Commit(t) \/ Publish(t) \/ Finish(t) \/ Abort(t)

AgentStep(t) == List(t) \/ ReadStart(t) \/ ReadCommit(t)

Next ==
    \/ \E t \in Threads : ReceiptStep(t) \/ AgentStep(t)
    \/ \E t \in Threads, r \in Requests : Enter(t, r)
    \/ \E t \in Threads, a \in Accounts, c \in Convs, next \in {"opening", "reading"} :
          Open(t, a, c, next)
    \/ \E a \in Accounts : SetStatus(a)
    \/ \E a \in Accounts, s \in Sims : Rebind(a, s)
    \/ \E s \in Sims : DeleteSim(s)
    \/ UnregisterDevice

Spec == Init /\ [][Next]_vars

-----------------------------------------------------------------------------
(* Properties *)

TypeOK ==
    /\ enabled \in BOOLEAN /\ sims \subseteq Sims
    /\ bound \subseteq Accounts \X Sims
    /\ active \subseteq Accounts
    /\ conv \in [Convs -> ConvRow] /\ msg \in [Msgs -> MsgRow]
    /\ object \in [Keys -> Contents \union {Nil}]
    /\ call \in [Threads -> Call]
    /\ told \in [Accounts \X Msgs -> Nat]
    /\ fresh \in [Convs -> SUBSET Msgs]
    /\ acks \subseteq Requests \X Msgs

\* A receipt is filed once: no two messages have one id, and whatever is
\* retried, by whatever thread, every accepted body of an id is stored in the
\* message its answer named.
FiledOnce ==
    /\ \A m, n \in Msgs : msg[m].there /\ msg[n].there /\ msg[m].id = msg[n].id => m = n
    /\ \A x \in acks : msg[x[2]].there /\ msg[x[2]].got[x[1].kind] = x[1]

\* The unread count of a conversation is the number of messages, not of
\* events, filed in it since it was last marked read.
UnreadIsFresh == \A c \in Convs : conv[c].unread = Cardinality(fresh[c])

\* A message and its conversation belong to one SIM, and lose it together.
FiledBySim == \A m \in Msgs : msg[m].there =>
    conv[msg[m].conv].there /\ conv[msg[m].conv].sim = msg[m].sim

\* The rows that the first n of these attachments make: of each part, what the
\* last of them that has data says.
FilesUpTo(files, n) == [p \in Parts |->
    LET Says == {i \in 1..n : files[i].part = p /\ files[i].data # Nil} IN
    IF Says = {} THEN Nil ELSE files[Max(Says)].data]
FilesOf(r) == FilesUpTo(r.files, Len(r.files))

\* A stored download is whole: its body, and a row for each part with data;
\* before a download there is no attachment.
DownloadIsWhole == \A m \in Msgs :
    LET r == msg[m].got["downloaded"] IN
    /\ msg[m].files = IF r = Nil THEN NoFiles ELSE FilesOf(r)
    /\ r # Nil /\ r.body # Nil => msg[m].body = r.body

\* An attachment row names an object that is in the store and says the same,
\* though uploads are not undone when their transaction is.
RowsHaveObjects == \A m \in Msgs, p \in Parts :
    msg[m].files[p] # Nil => object[Key(msg[m].id, p)] = msg[m].files[p]

\* An agent whose list shows a downloaded MMS gets its attachments in the same
\* answer, though the two are read by two statements.
ListedWhole == \A t \in Threads : call[t].pc = "listed" =>
    \A m \in call[t].whole, p \in Parts :
        FilesOf(msg[m].got["downloaded"])[p] # Nil => <<m, p>> \in call[t].stored

\* No agent's stream gets more events of a message than it had accepted ones:
\* redelivery is silent.
ToldOncePerEvent == \A a \in Accounts, m \in Msgs :
    told[<<a, m>>] <= Cardinality({k \in Kind : msg[m].got[k] # Nil})
=============================================================================
