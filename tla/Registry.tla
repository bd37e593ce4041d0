------------------------------ MODULE Registry ------------------------------
(***************************************************************************)
(* Who has which SIM: devices register and report their SIM cards, and     *)
(* operators, each on a page of the admin UI of the main service or of the *)
(* monitor, edit SIMs and accounts, delete them and unregister devices.    *)
(*                                                                         *)
(* A page's dialog shows a row as it was when its table was last loaded    *)
(* and saves the whole row, whatever happened since.  A save runs on the   *)
(* event loop of its process, so saves of one process never overlap; saves *)
(* of the two processes and the calls of devices do.                       *)
(*                                                                         *)
(* Transactions that take their locks in one order and read nothing before *)
(* are one step.  Two are not: saving an account updates its row, deletes  *)
(* its bindings, judges the SIMs chosen without locking them and binds     *)
(* them; disabling a SIM deletes the bindings it saw and then clears the   *)
(* accounts.  An account's row is locked by its update only if it is there *)
(* to be updated: the save of one that is gone goes on without.            *)
(***************************************************************************)
EXTENDS Naturals, Sequences, FiniteSets

CONSTANTS
    Devices,    \* identities: id and login, token (random in the code)
    SimIds,     \* ids of SIM rows (random in the code); bounds their number
    Slots,      \* slotIndex
    Numbers,    \* simNumber
    Phones,     \* phone numbers, as digits
    Cards,      \* hashes of ICCIDs
    Lists,      \* the simCards that devices send, valid ones only
    Accounts,   \* ids of accounts, which operators type
    Threads,    \* worker threads, for the calls of devices
    Pages,      \* pages of the admin UI
    Process,    \* the process that serves a page
    Nil

Item == [slot: Slots, number: Numbers, phone: Phones \union {Nil},
         card: Cards \union {Nil}]

\* reject_duplicate_sim_identity
Valid(l) == \A i, j \in DOMAIN l :
    i # j => l[i].slot # l[j].slot /\ l[i].number # l[j].number

ASSUME RegistryAssumption ==
    /\ Lists \subseteq Seq(Item)
    /\ \A l \in Lists : Valid(l)
    /\ Pages \subseteq DOMAIN Process
    /\ Nil \notin Devices /\ Nil \notin SimIds /\ Nil \notin Phones
    /\ Nil \notin Cards /\ Nil \notin Accounts /\ Nil \notin Lists

VARIABLES
    device,     \* whether an identity is registered, and enabled
    sim,        \* sim_cards
    history,    \* sim_card_history
    account,    \* accounts
    bound,      \* account_sim_cards
    call,       \* calls of devices
    page,       \* what each page is doing
    said,       \* numbers a row has ever had
    wanted,     \* the SIMs the last save of an account's row chose
    torn        \* accounts bound by a save that did not find their row

table == <<device, sim, history, account, bound>>
vars == <<device, sim, history, account, bound, call, page, said,
          wanted, torn>>

-----------------------------------------------------------------------------
(* Rows *)

SimRow == [there: BOOLEAN, dev: Devices \union {Nil}, slot: Slots \union {Nil},
           number: Numbers \union {Nil}, phone: Phones \union {Nil},
           card: Cards \union {Nil}, enabled: BOOLEAN,
           status: {"active", "inactive", "disabled"}]
NoSim  == [there |-> FALSE, dev |-> Nil, slot |-> Nil, number |-> Nil,
           phone |-> Nil, card |-> Nil, enabled |-> FALSE, status |-> "disabled"]

\* `main' is use_sims_id.
AccountRow == [there: BOOLEAN, main: SimIds \union {Nil}]
NoAccount  == [there |-> FALSE, main |-> Nil]

Archive == SimIds \X (Phones \union {Nil}) \X (Cards \union {Nil})
                  \X {"DELETED", "REPLACED"}

\* An update between its token's verdict and its transaction.  The list it carries
\* is chosen where the transaction reads it; a registration, which reads nothing
\* before its transaction, is one step.
Call == [pc: {"idle", "update"}, dev: Devices \union {Nil}]
IdleCall == [pc |-> "idle", dev |-> Nil]

\* A page: the dialog it shows with the row in it, and the save under way.
\* `seen' and `old' are the binding rows that its DELETE saw: of a SIM being
\* disabled by their accounts, of an account by their SIMs.  `found' says that the
\* save has written the account's row, which a save at "missed" has not.
Page == [at: {"table", "sim", "account", "disabling", "missed", "clearing", "binding"},
         sim: SimIds \union {Nil}, account: Accounts \union {Nil},
         new: BOOLEAN, found: BOOLEAN,
         sims: SUBSET SimIds, old: SUBSET SimIds, seen: SUBSET Accounts]
TablePage == [at |-> "table", sim |-> Nil, account |-> Nil, new |-> FALSE,
              found |-> FALSE, sims |-> {}, old |-> {}, seen |-> {}]

OfDevice(d) == {s \in SimIds : sim[s].there /\ sim[s].dev = d}
InSlot(d, k) == {s \in OfDevice(d) : sim[s].slot = k}

\* Ids that secrets.token_hex has not given yet.
FreshIds == {s \in SimIds : ~sim[s].there /\ \A h \in history : h[1] # s}

\* Mutant of Replaces: the trigger watches the card alone.
ReplacesNumber(old, new) == old.card # Nil /\ new.card # Nil /\ old.card # new.card

\* The condition of the trigger archive_sim_card_change
Replaces(old, new) ==
    \/ old.phone # Nil /\ old.phone # new.phone
    \/ old.card # Nil /\ new.card # Nil /\ old.card # new.card

\* Every statement that writes or deletes SIM rows writes through the triggers
\* and the foreign keys: history, bindings, the accounts' main SIM.
WriteSims(new) ==
    LET gone == {s \in SimIds : sim[s].there /\ ~new[s].there}
        over == {s \in SimIds : sim[s].there /\ new[s].there /\ Replaces(sim[s], new[s])}
    IN /\ sim' = new
       /\ history' = history
            \union {<<s, sim[s].phone, sim[s].card, "DELETED">> : s \in gone}
            \union {<<s, sim[s].phone, sim[s].card, "REPLACED">> : s \in over}
       /\ bound' = {b \in bound : b[2] \notin gone}
       /\ account' = [a \in Accounts |-> IF account[a].main \in gone
              THEN [account[a] EXCEPT !.main = Nil] ELSE account[a]]
       /\ said' = [s \in SimIds |-> said[s] \union
              (IF new[s].there /\ new[s].phone # Nil THEN {new[s].phone} ELSE {})]

-----------------------------------------------------------------------------
(* Locks *)

\* Rows a disabling has updated
SimFree(s) == \A p \in Pages : ~(page[p].at = "disabling" /\ page[p].sim = s)

\* Mutant of AccountFree: the row is not written before its bindings.
AccountFreeUnlocked(a) == TRUE

\* Rows an account's save has written before it binds
AccountFree(a) == \A p \in Pages :
    ~(page[p].at \in {"clearing", "binding"} /\ page[p].found /\ page[p].account = a)

\* Binding rows a page has deleted
Taken(p) == CASE page[p].at = "disabling" -> page[p].seen \X {page[p].sim}
              [] page[p].at = "binding"   -> {page[p].account} \X page[p].old
              [] OTHER                    -> {}

RowsFree(p, rows) == \A q \in Pages \ {p} : Taken(q) \intersect rows = {}

\* What a page still waits for or holds once others' rows are gone: a binding made
\* again is another row.
Forget(q, rows) ==
    [page[q] EXCEPT !.old  = {s \in @ : <<page[q].account, s>> \notin rows},
                    !.seen = {a \in @ : <<a, page[q].sim>> \notin rows}]

Saving == {"disabling", "missed", "clearing", "binding"}

\* The event loop of a process runs one save at a time.
LoopFree(p) == \A q \in Pages : q # p /\ Process[q] = Process[p] =>
                   page[q].at \notin Saving

-----------------------------------------------------------------------------
(* Devices *)

Become(t, c) == call' = [call EXCEPT ![t] = c]
End(t)       == Become(t, IdleCall)

\* The token is judged in a transaction of its own.
UpdateEnter(t, d) ==
    /\ call[t].pc = "idle" /\ device[d] = "registered"
    /\ Become(t, [pc |-> "update", dev |-> d])
    /\ UNCHANGED <<table, page, said, wanted, torn>>

\* An inserted row is born enabled; an upserted row keeps `enabled'.
Born(d, x) == [there |-> TRUE, dev |-> d, slot |-> x.slot, number |-> x.number,
               phone |-> x.phone, card |-> x.card, enabled |-> TRUE, status |-> "active"]

\* Mutant of Upserted: a reported SIM is enabled again.
UpsertedEnabled(row, x) ==
    [row EXCEPT !.number = x.number, !.phone = x.phone, !.card = x.card,
                !.status = "active", !.enabled = TRUE]

Upserted(row, x) ==
    [row EXCEPT !.number = x.number, !.phone = x.phone, !.card = x.card,
                !.status = "active"]

\* The item of a list for a slot, as a set of at most one.
ItemFor(l, k) == {i \in DOMAIN l : l[i].slot = k}

\* The rows once device d's rows have been set inactive and list l upserted,
\* item i under id[i] where its slot is new.
Reported(d, l, id) ==
    [s \in SimIds |->
        IF sim[s].there
        THEN IF sim[s].dev # d THEN sim[s]
             ELSE IF ItemFor(l, sim[s].slot) = {} THEN [sim[s] EXCEPT !.status = "inactive"]
             ELSE Upserted(sim[s], l[CHOOSE i \in ItemFor(l, sim[s].slot) : TRUE])
        ELSE IF \E i \in DOMAIN id : id[i] = s
             THEN Born(d, l[CHOOSE i \in DOMAIN id : id[i] = s])
             ELSE sim[s]]

\* Items that need a row, and ids for them.
Missing(d, l) == {i \in DOMAIN l : InSlot(d, l[i].slot) = {}}
Ids(d, l)     == {id \in [Missing(d, l) -> FreshIds] :
                    \A i, j \in Missing(d, l) : i # j => id[i] # id[j]}

\* uq_sim_device_number, judged row by row in the order of the list: the number
\* of item i is held by a row of another slot that no earlier item has rewritten.
Clashes(d, l) ==
    \E i \in DOMAIN l, s \in OfDevice(d) :
       /\ sim[s].number = l[i].number /\ sim[s].slot # l[i].slot
       /\ \A j \in 1 .. (i - 1) : l[j].slot # sim[s].slot

\* Ids of SIMs that are drawn exist already, three times: each transaction rolls
\* back.  (A registration that draws ids that exist leaves nothing either.)
Collide(t) ==
    /\ call[t].pc = "update"
    /\ \E s \in SimIds : sim[s].there
    /\ \E l \in Lists : Missing(call[t].dev, l) # {}
    /\ End(t)
    /\ UNCHANGED <<table, page, said, wanted, torn>>

\* 201: device and SIM rows in one transaction
Register(t) ==
    /\ call[t].pc = "idle"
    /\ \E d \in Devices :
          /\ device[d] = "unknown"
          /\ device' = [device EXCEPT ![d] = "registered"]
          /\ \E l \in Lists : \E id \in Ids(d, l) : WriteSims(Reported(d, l, id))
    /\ UNCHANGED <<call, page, wanted, torn>>

\* Mutant of Enabled: the token's verdict is trusted.
EnabledBefore(d) == TRUE

\* SELECT enabled ... FOR UPDATE
Enabled(d) == device[d] = "registered"

\* 403, or 409 with nothing written
UpdateRefused(t) ==
    /\ call[t].pc = "update"
    /\ ~Enabled(call[t].dev) \/ (\E l \in Lists : Clashes(call[t].dev, l))
    /\ End(t)
    /\ UNCHANGED <<table, page, said, wanted, torn>>

\* 200
Update(t) ==
    /\ call[t].pc = "update"
    /\ LET d == call[t].dev IN
       /\ Enabled(d)
       /\ \A s \in OfDevice(d) : SimFree(s)
       /\ \E l \in Lists :
             /\ ~Clashes(d, l)
             /\ \E id \in Ids(d, l) : WriteSims(Reported(d, l, id))
    /\ End(t)
    /\ UNCHANGED <<device, page, wanted, torn>>

-----------------------------------------------------------------------------
(* Operators: SIMs and devices *)

Show(p, s) == page' = [page EXCEPT ![p] = s]

OpenSim(p, s) ==
    /\ page[p].at = "table" /\ sim[s].there
    /\ Show(p, [TablePage EXCEPT !.at = "sim", !.sim = s])
    /\ UNCHANGED <<table, call, said, wanted, torn>>

\* Cancel, or a table loaded again
Close(p) ==
    /\ page[p].at \in {"sim", "account"}
    /\ Show(p, TablePage)
    /\ UNCHANGED <<table, call, said, wanted, torn>>

\* The row as the dialog has it; `status' follows `enabled', whatever the device
\* last reported.
Edited(row, phone, enabled) ==
    [row EXCEPT !.phone = phone, !.enabled = enabled,
                !.status = IF enabled THEN "active" ELSE "disabled"]

\* What the operator leaves in the number's field: the number the dialog showed,
\* another one or none
Typed == Phones \union {Nil}

\* Saved as enabled, one statement; no row, no effect
SaveSim(p) ==
    /\ page[p].at = "sim" /\ LoopFree(p)
    /\ LET s == page[p].sim IN
       /\ SimFree(s)
       /\ \E ph \in Typed :
             WriteSims([sim EXCEPT ![s] = IF @.there THEN Edited(@, ph, TRUE) ELSE @])
    /\ Show(p, TablePage)
    /\ UNCHANGED <<device, call, wanted, torn>>

\* Saved as disabled: the row is written, then the bindings that the next
\* statement sees are deleted, those another save has deleted once it ends.
DisableSim(p) ==
    /\ page[p].at = "sim" /\ LoopFree(p)
    /\ LET s    == page[p].sim
           seen == {a \in Accounts : <<a, s>> \in bound} IN
       /\ SimFree(s)
       /\ Show(p, [page[p] EXCEPT !.at = "disabling", !.seen = seen])
    /\ UNCHANGED <<table, call, said, wanted, torn>>

\* Mutant of Released: the accounts keep their main SIM.
ReleasedBindings(s, gone) ==
    /\ bound' = bound \ gone
    /\ UNCHANGED account

\* The bindings deleted, and the accounts whose main SIM it is now.
Released(s, gone) ==
    /\ bound' = bound \ gone
    /\ account' = [a \in Accounts |-> IF account[a].main = s
                      THEN [account[a] EXCEPT !.main = Nil] ELSE account[a]]

\* The commit, once the bindings' and the accounts' rows are free, which shows the
\* row that was written
Disabled(p) ==
    /\ page[p].at = "disabling"
    /\ LET s    == page[p].sim
           gone == page[p].seen \X {s} IN
       /\ RowsFree(p, gone)
       /\ \A a \in Accounts : account[a].main = s => AccountFree(a)
       /\ Released(s, gone)
       /\ \E ph \in Typed :
             LET new == IF sim[s].there THEN Edited(sim[s], ph, FALSE) ELSE sim[s] IN
             /\ sim' = [sim EXCEPT ![s] = new]
             /\ history' = history \union
                   (IF sim[s].there /\ Replaces(sim[s], new)
                    THEN {<<s, sim[s].phone, sim[s].card, "REPLACED">>} ELSE {})
             /\ said' = [said EXCEPT ![s] = @ \union
                   (IF new.there /\ new.phone # Nil THEN {new.phone} ELSE {})]
       /\ page' = [q \in Pages |-> IF q = p THEN TablePage ELSE Forget(q, gone)]
    /\ UNCHANGED <<device, call, wanted, torn>>

DeleteSim(p, s) ==
    /\ page[p].at = "table" /\ LoopFree(p) /\ SimFree(s) /\ sim[s].there
    /\ WriteSims([sim EXCEPT ![s] = NoSim])
    /\ UNCHANGED <<device, call, page, wanted, torn>>

\* The update of the device's row fires the trigger that deletes its SIMs.
Unregister(p, d) ==
    /\ page[p].at = "table" /\ LoopFree(p) /\ device[d] = "registered"
    /\ \A s \in OfDevice(d) : SimFree(s)
    /\ device' = [device EXCEPT ![d] = "unregistered"]
    /\ WriteSims([s \in SimIds |-> IF s \in OfDevice(d) THEN NoSim ELSE sim[s]])
    /\ UNCHANGED <<call, page, wanted, torn>>

-----------------------------------------------------------------------------
(* Operators: accounts *)

MayBind(s) == sim[s].there /\ sim[s].enabled /\ sim[s].status = "active"

\* The SIMs of a row of the accounts' table
Listed(a) == LET sims == {s \in SimIds : <<a, s>> \in bound}
             IN IF sims = {} THEN {account[a].main} \ {Nil} ELSE sims

\* A new account, or one with the SIMs its row listed; the operator chooses among
\* these and the SIMs that may be bound now.
OpenAccount(p, a, new) ==
    /\ page[p].at = "table"
    /\ new \/ account[a].there
    /\ LET offered == {s \in SimIds : MayBind(s)} \union (IF new THEN {} ELSE Listed(a)) IN
       \E chosen \in SUBSET offered :
          Show(p, [TablePage EXCEPT !.at = "account", !.account = a, !.new = new,
                                    !.sims = chosen])
    /\ UNCHANGED <<table, call, said, wanted, torn>>

\* Page p's save deletes the account's bindings that are there now, those another
\* save has deleted once it ends.
Clear(p, found) ==
    Show(p, [page[p] EXCEPT !.at = "clearing", !.found = found,
                 !.old = {s \in SimIds : <<page[p].account, s>> \in bound}])

\* The account's row is inserted, which fails where the id exists, or updated and
\* so locked; nothing is visible yet.
SaveAccount(p) ==
    /\ page[p].at = "account" /\ LoopFree(p)
    /\ LET a == page[p].account IN
       /\ AccountFree(a)
       /\ account[a].there = ~page[p].new
    /\ Clear(p, TRUE)
    /\ UNCHANGED <<table, call, said, wanted, torn>>

\* The update finds no row, not even one that another save is inserting: it locks
\* nothing and the save goes on.
SaveNowhere(p) ==
    /\ page[p].at = "account" /\ LoopFree(p)
    /\ ~page[p].new /\ ~account[page[p].account].there
    /\ Show(p, [page[p] EXCEPT !.at = "missed"])
    /\ UNCHANGED <<table, call, said, wanted, torn>>

Missed(p) ==
    /\ page[p].at = "missed"
    /\ Clear(p, FALSE)
    /\ UNCHANGED <<table, call, said, wanted, torn>>

\* The bindings are deleted and the SIMs chosen are judged.
Cleared(p) ==
    /\ page[p].at = "clearing"
    /\ RowsFree(p, {page[p].account} \X page[p].old)
    /\ \A s \in page[p].sims : MayBind(s)
    /\ Show(p, [page[p] EXCEPT !.at = "binding"])
    /\ UNCHANGED <<table, call, said, wanted, torn>>

\* The bindings are inserted, which their keys allow, and all of it is committed.
\* The first SIM chosen is the main one, in a row that the save has written.
Bound(p) ==
    /\ page[p].at = "binding"
    /\ LET c    == page[p]
           a    == c.account
           gone == bound \intersect ({a} \X c.old)
           kept == bound \ gone
           made == {a} \X c.sims IN
       /\ \A s \in c.sims : sim[s].there
       /\ c.found \/ account[a].there \/ c.sims = {}
       /\ kept \intersect made = {}
       /\ bound' = kept \union made
       /\ page' = [q \in Pages |-> IF q = p THEN TablePage ELSE Forget(q, gone)]
       /\ IF c.found
          THEN /\ \E m \in IF c.sims = {} THEN {Nil} ELSE c.sims :
                     account' = [account EXCEPT ![a] = [there |-> TRUE, main |-> m]]
               /\ wanted' = [wanted EXCEPT ![a] = c.sims]
               /\ torn' = IF \E s \in SimIds : <<a, s>> \in kept THEN torn ELSE torn \ {a}
          ELSE /\ torn' = IF gone \union made = {} THEN torn ELSE torn \union {a}
               /\ UNCHANGED <<account, wanted>>
    /\ UNCHANGED <<device, sim, history, call, said>>

DeleteAccount(p, a) ==
    /\ page[p].at = "table" /\ LoopFree(p)
    /\ account[a].there /\ AccountFree(a) /\ RowsFree(p, {a} \X SimIds)
    /\ account' = [account EXCEPT ![a] = NoAccount]
    /\ bound' = {b \in bound : b[1] # a}
    /\ wanted' = [wanted EXCEPT ![a] = {}] /\ torn' = torn \ {a}
    /\ page' = [q \in Pages |-> Forget(q, {a} \X SimIds)]
    /\ UNCHANGED <<device, sim, history, call, said>>

\* A save fails: a SIM chosen may not be bound, is bound already or is gone, the
\* account is gone, or the transaction is a deadlock's victim.  The dialog stays
\* open.
Fail(p) ==
    /\ page[p].at \in Saving
    /\ Show(p, [page[p] EXCEPT !.at = IF @ = "disabling" THEN "sim" ELSE "account",
                               !.found = FALSE, !.old = {}, !.seen = {}])
    /\ UNCHANGED <<table, call, said, wanted, torn>>

-----------------------------------------------------------------------------
(* Specification *)

Init ==
    /\ device = [d \in Devices |-> "unknown"]
    /\ sim = [s \in SimIds |-> NoSim]
    /\ history = {}
    /\ account = [a \in Accounts |-> NoAccount] /\ bound = {}
    /\ call = [t \in Threads |-> IdleCall]
    /\ page = [p \in Pages |-> TablePage]
    /\ said = [s \in SimIds |-> {}] /\ wanted = [a \in Accounts |-> {}]
    /\ torn = {}

DeviceStep(t) ==
    \/ \E d \in Devices : UpdateEnter(t, d)
    \/ Collide(t) \/ Register(t) \/ UpdateRefused(t) \/ Update(t)

PageStep(p) ==
    \/ \E s \in SimIds : OpenSim(p, s) \/ DeleteSim(p, s)
    \/ \E d \in Devices : Unregister(p, d)
    \/ \E a \in Accounts, new \in BOOLEAN : OpenAccount(p, a, new)
    \/ \E a \in Accounts : DeleteAccount(p, a)
    \/ Close(p) \/ SaveSim(p) \/ DisableSim(p) \/ Disabled(p)
    \/ SaveAccount(p) \/ SaveNowhere(p) \/ Missed(p) \/ Cleared(p)
    \/ Bound(p) \/ Fail(p)

Next == (\E t \in Threads : DeviceStep(t)) \/ (\E p \in Pages : PageStep(p))

Spec == Init /\ [][Next]_vars

-----------------------------------------------------------------------------
(* Properties *)

TypeOK ==
    /\ device \in [Devices -> {"unknown", "registered", "unregistered"}]
    /\ sim \in [SimIds -> SimRow]
    /\ history \subseteq Archive
    /\ account \in [Accounts -> AccountRow]
    /\ bound \subseteq Accounts \X SimIds
    /\ call \in [Threads -> Call]
    /\ page \in [Pages -> Page]
    /\ said \in [SimIds -> SUBSET Phones]
    /\ wanted \in [Accounts -> SUBSET SimIds]
    /\ torn \subseteq Accounts

\* A SIM row belongs to a registered device: one that is unregistered has no
\* rows and gets none, not even from an update that was under way.
GoneIsBare == \A s \in SimIds : sim[s].there => device[sim[s].dev] = "registered"

\* No number is lost: what a row has ever been called by is its number or in
\* the history, though dialogs overwrite reports they never saw.
NumbersKept == \A s \in SimIds, n \in Phones : n \in said[s] =>
    \/ sim[s].there /\ sim[s].phone = n
    \/ \E h \in history : h[1] = s /\ h[2] = n

\* An account's main SIM is one of its SIMs, whichever saves of the account and
\* of the SIM overlap.  Only a save that was of an account deleted meanwhile, and
\* made again before it ended, may leave it otherwise (`torn'): until the account
\* is saved again or deleted.
MainIsBound == \A a \in Accounts : account[a].main # Nil =>
    /\ account[a].there
    /\ <<a, account[a].main>> \in bound \/ a \in torn

\* The SIMs of an account come from the one save that wrote its row: two operators
\* never mix theirs, with the same exception.  They are SIMs that exist.
SavedWhole == \A a \in Accounts, s \in SimIds : <<a, s>> \in bound =>
    /\ account[a].there /\ sim[s].there
    /\ s \in wanted[a] \/ a \in torn

\* Devices do not undo an operator: a row is enabled only as a save of its dialog
\* as enabled ends, and disabled only as a save of its dialog as disabled ends.
OperatorsEnable == [][\A s \in SimIds :
    sim[s].there /\ sim'[s].there /\ sim[s].enabled # sim'[s].enabled =>
        \E p \in Pages :
            /\ page[p].sim = s /\ page'[p].at = "table"
            /\ page[p].at = IF sim'[s].enabled THEN "sim" ELSE "disabling"]_vars

=============================================================================
