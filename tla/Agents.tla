------------------------------- MODULE Agents -------------------------------
(***************************************************************************)
(* What agents may see and do.  An agent logs in and then calls with the   *)
(* token of the session.  A call takes up to three transactions: one that  *)
(* authenticates the token and reads the agent's area, one that judges     *)
(* access to a contact (by area) or a conversation (by SIM binding), one   *)
(* that does the work.  Between them operators edit accounts, SIMs,        *)
(* contacts and menus, texts come in, and time passes.                     *)
(*                                                                         *)
(* Each contact has one conversation.  What its messages are and how many  *)
(* are unread is in module Inbox, the rows and locks of the message that a *)
(* reply creates in module Outbound.                                       *)
(*                                                                         *)
(* The monitor serves the same calls from the same rows.  Its copy judges  *)
(* a conversation by its area, and a reply by area and binding, and lists  *)
(* the menus of the agent's area instead of the agent's own.               *)
(*                                                                         *)
(* idle --LoginRead--> login --LoginInsert--> idle                         *)
(* idle --Ask--> asked --Authenticate--> known [--Judge..--> judged] --> done *)
(***************************************************************************)
EXTENDS Naturals

CONSTANTS
    Threads,    \* worker threads of the service
    Accounts,   \* agents
    Tokens,     \* tokens of sessions (random in the code)
    Sims,       \* SIM cards
    Contacts,   \* contacts, and the conversation with each
    Menus,      \* rows of products
    Areas,      \* areas, as trimmed text; blank and NULL are Nil
    Remarks,    \* texts of remarks; blank and NULL are Nil
    Keys,       \* idempotency keys of replies
    HomeSim,    \* the SIM of each contact's conversation
    HomeArea,   \* the area of that SIM when the conversation began
    Ttl,        \* session_ttl_seconds
    MaxTime,    \* bound of the clock
    Nil

ASSUME AgentsAssumption ==
    /\ HomeSim \in [Contacts -> Sims]
    /\ HomeArea \in [Contacts -> Areas \union {Nil}]
    /\ Ttl \in Nat \ {0} /\ MaxTime \in Nat
    /\ Nil \notin Areas \union Accounts \union Sims \union Contacts \union Tokens \union Remarks
                  \union Keys

VARIABLES
    now,        \* the clock
    account,    \* accounts
    session,    \* agent_sessions
    bound,      \* account_sim_cards
    sim,        \* sim_cards
    contact,    \* contacts
    conv,       \* conversations: the SIM of each
    menu,       \* products
    sent,       \* messages that replies made: agent, conversation and key
    call,       \* what each thread is doing
    held        \* what was so at some moment of each call

rows == <<account, session, bound, sim, contact, conv, menu, sent>>
vars == <<now, rows, call, held>>

AccountRow == [there: BOOLEAN, active: BOOLEAN, area: Areas \union {Nil}]
NoAccount  == [there |-> FALSE, active |-> FALSE, area |-> Nil]
SessionRow == [by: Accounts \union {Nil}, expires: 0 .. (MaxTime + Ttl)]
NoSession  == [by |-> Nil, expires |-> 0]
SimRow     == [there: BOOLEAN, enabled: BOOLEAN, active: BOOLEAN]
ContactRow == [area: Areas \union {Nil}, remark: Remarks \union {Nil}]
MenuRow    == [there: BOOLEAN, by: Accounts \union {Nil}, area: Areas \union {Nil}]
NoMenu     == [there |-> FALSE, by |-> Nil, area |-> Nil]

Opens  == {"reply", "messages", "read"}     \* calls about one conversation
Kinds  == Opens \union {"remark", "contacts", "conversations", "sims", "menus"}
Differ == Opens \union {"conversations", "menus"}   \* where the monitor's code does

\* `via' is the service called, `at' the time the call read, `area' the agent's area
\* as authenticated, `did' what the answer shows or the call changed, `again' the
\* key of an earlier reply that this one repeats.
Call == [pc: {"idle", "login", "asked", "known", "judged", "done"},
         kind: Kinds \union {Nil}, via: {"main", "monitor"}, token: Tokens \union {Nil},
         by: Accounts \union {Nil}, on: Contacts \union {Nil},
         at: 0 .. MaxTime, area: Areas \union {Nil}, ok: BOOLEAN,
         again: Keys \union {Nil}, did: SUBSET (Contacts \union Sims \union Menus)]
IdleCall == [pc |-> "idle", kind |-> Nil, via |-> "main", token |-> Nil, by |-> Nil, on |-> Nil,
             at |-> 0, area |-> Nil, ok |-> FALSE, again |-> Nil, did |-> {}]

-----------------------------------------------------------------------------
(* What holds at a moment, of the agent of call c *)

Assigned(a, x) == <<a, conv[x]>> \in bound
InArea(x, area) == area # Nil /\ contact[x].area = area

\* IS NOT DISTINCT FROM: no area is the area of a conversation without one.
SameArea(x, area) == HomeArea[x] = area
Usable(s) == s \in Sims /\ sim[s].there /\ sim[s].enabled /\ sim[s].active

\* Once authenticated, a call goes by the id of the account, even if that is
\* deleted and made again.
AgentOf(c) == IF c.by # Nil \/ c.token = Nil THEN c.by ELSE session[c.token].by

Facts(c) ==
    LET a == AgentOf(c) IN
    IF a = Nil \/ c.token = Nil THEN {}
    ELSE (IF session[c.token].expires > now THEN {<<"session">>} ELSE {})
         \union (IF account[a].active THEN {<<"active">>} ELSE {})
         \union
         CASE c.kind \in {"remark", "contacts"} ->
                 {<<"area", account[a].area>>}
                 \union {<<"contact", x, contact[x].area>> : x \in Contacts}
           [] c.kind \in Opens \union {"conversations"} ->
                 (IF c.via = "monitor" THEN {<<"area", account[a].area>>} ELSE {})
                 \union {<<"assigned", x>> : x \in {x \in Contacts : Assigned(a, x)}}
                 \union
                 (IF c.kind # "reply" THEN {}
                  ELSE {<<"sends", x>> : x \in {x \in Contacts : Usable(conv[x])}}
                       \union {<<"sent", m[2], m[3]>> : m \in {m \in sent : m[1] = a}})
           [] c.kind = "sims"  -> {<<"sim", s>> : s \in {s \in Sims : <<a, s>> \in bound /\ Usable(s)}}
           [] c.kind = "menus" ->
                 IF c.via = "main"
                 THEN {<<"menu", m>> : m \in {m \in Menus : menu[m].there /\ menu[m].by = a}}
                 ELSE {<<"area", account[a].area>>}
                      \union {<<"menu", m, menu[m].area>> : m \in {m \in Menus : menu[m].there}}

\* Recorded by every step until the call is answered.
Watch == held' = [t \in Threads |->
            IF call'[t].token = Nil THEN {}
            ELSE IF call[t].pc = "done" THEN held[t] ELSE held[t] \union Facts(call[t])']

Become(t, c) == call' = [call EXCEPT ![t] = c] /\ UNCHANGED now
Refuse(t)      == Become(t, IdleCall)
Answer(t, did) == Become(t, [call[t] EXCEPT !.pc = "done", !.ok = TRUE, !.did = did])

-----------------------------------------------------------------------------
(* Sessions *)

\* The account is read and its password verified, in the transaction that goes
\* on to insert the session.
LoginRead(t, a) ==
    /\ call[t].pc = "idle" /\ account[a].active
    /\ Become(t, [IdleCall EXCEPT !.pc = "login", !.by = a, !.at = now])
    /\ UNCHANGED rows /\ Watch

\* An account deleted meanwhile fails the foreign key, one disabled does not.
LoginInsert(t) ==
    /\ call[t].pc = "login"
    /\ IF account[call[t].by].there
       THEN \E k \in {k \in Tokens : session[k] = NoSession} :
               session' = [session EXCEPT ![k] =
                               [by |-> call[t].by, expires |-> call[t].at + Ttl]]
       ELSE UNCHANGED session
    /\ Become(t, IdleCall)
    /\ UNCHANGED <<account, bound, sim, contact, conv, menu, sent>> /\ Watch

\* A call with a token that was once given: its clock is read.
Ask(t, k, kind, via, x) ==
    /\ call[t].pc = "idle" /\ session[k] # NoSession
    /\ x = Nil <=> kind \notin Opens \union {"remark"}
    /\ via = "monitor" => kind \in Differ
    /\ Become(t, [IdleCall EXCEPT !.pc = "asked", !.token = k, !.kind = kind,
                                  !.via = via, !.on = x, !.at = now])
    /\ UNCHANGED rows /\ Watch

Authentic(c) ==
    /\ session[c.token].by # Nil
    /\ account[session[c.token].by].active
    /\ session[c.token].expires > c.at

\* 401 otherwise
Authenticate(t) ==
    LET c == call[t] IN
    /\ c.pc = "asked"
    /\ IF Authentic(c)
       THEN LET a == session[c.token].by IN
            Become(t, [c EXCEPT !.pc = "known", !.by = a, !.area = account[a].area])
       ELSE Refuse(t)
    /\ UNCHANGED rows /\ Watch

-----------------------------------------------------------------------------
(* Contacts *)

\* Mutant of JudgeRemark: any contact that exists may be remarked on.
JudgeRemarkNever(t) ==
    /\ call[t].pc = "known" /\ call[t].kind = "remark"
    /\ Become(t, [call[t] EXCEPT !.pc = "judged"])
    /\ UNCHANGED rows /\ Watch

\* _ensure_access: 403 for a contact of another area
JudgeRemark(t) ==
    LET c == call[t] IN
    /\ c.pc = "known" /\ c.kind = "remark"
    /\ IF InArea(c.on, c.area) THEN Become(t, [c EXCEPT !.pc = "judged"]) ELSE Refuse(t)
    /\ UNCHANGED rows /\ Watch

\* The update has the condition again, and answers ok whether or not it found
\* the row.
WriteRemark(t) ==
    LET c == call[t] IN
    /\ c.pc = "judged" /\ c.kind = "remark"
    /\ IF InArea(c.on, c.area)
       THEN \E r \in Remarks \union {Nil} :
               /\ contact' = [contact EXCEPT ![c.on].remark = r]
               /\ Answer(t, {c.on})
       ELSE Answer(t, {}) /\ UNCHANGED contact
    /\ UNCHANGED <<account, session, bound, sim, conv, menu, sent>> /\ Watch

-----------------------------------------------------------------------------
(* Conversations *)

\* Mutant of JudgeConversation: the conversation is found by its id alone.
JudgeConversationOfAnyone(t) ==
    LET c == call[t] IN
    /\ c.pc = "known" /\ c.kind \in Opens /\ c.via = "main"
    /\ IF conv[c.on] # Nil THEN Become(t, [c EXCEPT !.pc = "judged"]) ELSE Refuse(t)
    /\ UNCHANGED rows /\ Watch

\* 403 without a binding
JudgeConversation(t) ==
    LET c == call[t] IN
    /\ c.pc = "known" /\ c.kind \in Opens /\ c.via = "main"
    /\ IF Assigned(c.by, c.on) THEN Become(t, [c EXCEPT !.pc = "judged"]) ELSE Refuse(t)
    /\ UNCHANGED rows /\ Watch

\* The monitor's judgement: 403 for a conversation of another area, and for a
\* reply also without a binding.
JudgeConversationInArea(t) ==
    LET c == call[t] IN
    /\ c.pc = "known" /\ c.kind \in Opens /\ c.via = "monitor"
    /\ IF SameArea(c.on, c.area) /\ (c.kind = "reply" => Assigned(c.by, c.on))
       THEN Become(t, [c EXCEPT !.pc = "judged"]) ELSE Refuse(t)
    /\ UNCHANGED rows /\ Watch

\* The messages are read by the conversation's id, whatever holds by now.
ListMessages(t) ==
    /\ call[t].pc = "judged" /\ call[t].kind = "messages"
    /\ Answer(t, {call[t].on})
    /\ UNCHANGED rows /\ Watch

\* The update has the condition again, and answers ok whether or not it found
\* the row.
MarkRead(t) ==
    LET c == call[t] IN
    /\ c.pc = "judged" /\ c.kind = "read"
    /\ IF c.via = "monitor" \/ Assigned(c.by, c.on) THEN Answer(t, {c.on}) ELSE Answer(t, {})
    /\ UNCHANGED rows /\ Watch

\* The agent and the conversation are part of the key.  A key that is known is
\* answered without a look at the SIM, or refused with 409 if its text differs.
SendAgain(t, key) ==
    LET c == call[t] IN
    /\ c.pc = "judged" /\ c.kind = "reply" /\ <<c.by, c.on, key>> \in sent
    /\ \/ Become(t, [c EXCEPT !.pc = "done", !.ok = TRUE, !.again = key, !.did = {c.on}])
       \/ Refuse(t)
    /\ UNCHANGED rows /\ Watch

\* The create routes by the conversation, whoever is bound to its SIM by now;
\* 409 when the SIM is gone, 422 when it or its device may not send.
SendNew(t, key) ==
    LET c == call[t] IN
    /\ c.pc = "judged" /\ c.kind = "reply" /\ <<c.by, c.on, key>> \notin sent
    /\ \/ /\ Usable(conv[c.on])
          /\ sent' = sent \union {<<c.by, c.on, key>>}
          /\ Answer(t, {c.on})
       \/ Refuse(t) /\ UNCHANGED sent
    /\ UNCHANGED <<account, session, bound, sim, contact, conv, menu>> /\ Watch

-----------------------------------------------------------------------------
(* Lists *)

Own(a) == {m \in Menus : menu[m].there /\ menu[m].by = a}

Contents(c) ==
    CASE c.kind = "contacts"      -> {x \in Contacts : InArea(x, c.area)}
      [] c.kind = "conversations" -> {x \in Contacts : Assigned(c.by, x)}
      [] c.kind = "sims"          -> {s \in Sims : <<c.by, s>> \in bound /\ Usable(s)}
      [] c.kind = "menus"         -> Own(c.by)

\* One statement.  A menu without an area is not a valid AgentMenuItem, and
\* fails the whole answer.
ListRows(t) ==
    LET c == call[t] IN
    /\ c.pc = "known" /\ c.kind \notin Opens \union {"remark"} /\ c.via = "main"
    /\ IF c.kind = "menus" /\ \E m \in Own(c.by) : menu[m].area = Nil
       THEN Refuse(t) ELSE Answer(t, Contents(c))
    /\ UNCHANGED rows /\ Watch

OfArea(area) == {m \in Menus : menu[m].there /\ area # Nil /\ menu[m].area = area}

\* The monitor's lists.  A conversation without an area is shown to agents
\* without one, is not a valid AgentConversationItem, and fails the answer.
ListByArea(t) ==
    LET c == call[t]
        same == {x \in Contacts : SameArea(x, c.area)} IN
    /\ c.pc = "known" /\ c.via = "monitor"
    /\ \/ c.kind = "menus" /\ Answer(t, OfArea(c.area))
       \/ /\ c.kind = "conversations"
          /\ IF c.area = Nil /\ same # {} THEN Refuse(t) ELSE Answer(t, same)
    /\ UNCHANGED rows /\ Watch

Answered(t) ==
    /\ call[t].pc = "done"
    /\ Become(t, IdleCall)
    /\ UNCHANGED rows /\ Watch

-----------------------------------------------------------------------------
(* Operators, texts that come in, time *)

\* Status, area and bindings in one transaction
SaveAccount(a, active, area, sims) ==
    /\ account' = [account EXCEPT ![a] = [there |-> TRUE, active |-> active, area |-> area]]
    /\ bound' = {b \in bound : b[1] # a} \union ({a} \X sims)
    /\ UNCHANGED <<now, session, sim, contact, conv, menu, sent, call>> /\ Watch

\* Sessions and bindings go with the account, menus stay and forget it.
DeleteAccount(a) ==
    /\ account[a].there
    /\ account' = [account EXCEPT ![a] = NoAccount]
    /\ session' = [k \in Tokens |-> IF session[k].by = a
                                    THEN [session[k] EXCEPT !.by = Nil] ELSE session[k]]
    /\ bound' = {b \in bound : b[1] # a}
    /\ menu' = [m \in Menus |-> IF menu[m].by = a THEN [menu[m] EXCEPT !.by = Nil] ELSE menu[m]]
    /\ UNCHANGED <<now, sim, contact, conv, sent, call>> /\ Watch

\* A SIM that is disabled loses its bindings, but for those of accounts whose
\* save overlapped: it judged the SIM before, and the DELETE does not see what it
\* inserts (module Registry).
SaveSim(s, enabled, unseen) ==
    /\ sim[s].there
    /\ sim' = [sim EXCEPT ![s] = [there |-> TRUE, enabled |-> enabled, active |-> enabled]]
    /\ bound' = IF enabled THEN bound
                ELSE {b \in bound : b[2] # s \/ (sim[s].enabled /\ sim[s].active /\ b[1] \in unseen)}
    /\ UNCHANGED <<now, account, session, contact, conv, menu, sent, call>> /\ Watch

DeleteSim(s) ==
    /\ sim[s].there
    /\ sim' = [sim EXCEPT ![s] = [there |-> FALSE, enabled |-> FALSE, active |-> FALSE]]
    /\ bound' = {b \in bound : b[2] # s}
    /\ conv' = [x \in Contacts |-> IF conv[x] = s THEN Nil ELSE conv[x]]
    /\ UNCHANGED <<now, account, session, contact, menu, sent, call>> /\ Watch

\* A device reports the SIMs it has: those it left out are inactive, those it
\* has are active, also a disabled one.  Bindings stay.
ReportSim(s, active) ==
    /\ sim[s].there
    /\ sim' = [sim EXCEPT ![s].active = active]
    /\ UNCHANGED <<now, account, session, bound, contact, conv, menu, sent, call>> /\ Watch

\* The dialog writes the whole row as it is on the screen, over what agents
\* wrote since.
SaveContact(x, area, remark) ==
    /\ contact' = [contact EXCEPT ![x] = [area |-> area, remark |-> remark]]
    /\ UNCHANGED <<now, account, session, bound, sim, conv, menu, sent, call>> /\ Watch

SaveMenu(m, by, area) ==
    /\ account[by].there
    /\ menu' = [menu EXCEPT ![m] = [there |-> TRUE, by |-> by, area |-> area]]
    /\ UNCHANGED <<now, account, session, bound, sim, contact, conv, sent, call>> /\ Watch

DeleteMenu(m) ==
    /\ menu[m].there
    /\ menu' = [menu EXCEPT ![m] = NoMenu]
    /\ UNCHANGED <<now, account, session, bound, sim, contact, conv, sent, call>> /\ Watch

\* A text that comes in moves its sender to the area of the SIM, which is what
\* operators made it, or out of all.
Inbound(x, area) ==
    /\ conv[x] # Nil
    /\ contact' = [contact EXCEPT ![x].area = area]
    /\ UNCHANGED <<now, account, session, bound, sim, conv, menu, sent, call>> /\ Watch

Tick ==
    /\ now < MaxTime
    /\ now' = now + 1
    /\ UNCHANGED <<rows, call>> /\ Watch

-----------------------------------------------------------------------------
(* Specification *)

Init ==
    /\ now = 0
    /\ account = [a \in Accounts |-> NoAccount]
    /\ session = [k \in Tokens |-> NoSession]
    /\ bound = {}
    /\ sim = [s \in Sims |-> [there |-> TRUE, enabled |-> TRUE, active |-> TRUE]]
    /\ contact = [x \in Contacts |-> [area |-> Nil, remark |-> Nil]]
    /\ conv = HomeSim
    /\ menu = [m \in Menus |-> NoMenu]
    /\ sent = {}
    /\ call = [t \in Threads |-> IdleCall]
    /\ held = [t \in Threads |-> {}]

CallStep(t) ==
    \/ \E a \in Accounts : LoginRead(t, a)
    \/ LoginInsert(t)
    \/ \E k \in Tokens, kind \in Kinds, via \in {"main", "monitor"},
          x \in Contacts \union {Nil} : Ask(t, k, kind, via, x)
    \/ Authenticate(t)
    \/ JudgeRemark(t) \/ WriteRemark(t)
    \/ JudgeConversation(t) \/ JudgeConversationInArea(t)
    \/ ListMessages(t) \/ MarkRead(t)
    \/ \E key \in Keys : SendAgain(t, key) \/ SendNew(t, key)
    \/ ListRows(t) \/ ListByArea(t) \/ Answered(t)

\* The fields of the dialogs are the operator's to fill in.
ContactDialog == \E x \in Contacts, area \in Areas \union {Nil}, r \in Remarks \union {Nil} :
    SaveContact(x, area, r)
MenuDialog == \E m \in Menus, by \in Accounts, area \in Areas \union {Nil} : SaveMenu(m, by, area)

OperatorStep ==
    \/ \E a \in Accounts, active \in BOOLEAN, area \in Areas \union {Nil}, sims \in SUBSET
            {s \in Sims : Usable(s)} : SaveAccount(a, active, area, sims)
    \/ \E a \in Accounts : DeleteAccount(a)
    \/ \E s \in Sims, enabled \in BOOLEAN, unseen \in SUBSET Accounts : SaveSim(s, enabled, unseen)
    \/ \E s \in Sims : DeleteSim(s)
    \/ ContactDialog \/ MenuDialog
    \/ \E m \in Menus : DeleteMenu(m)

Next ==
    \/ \E t \in Threads : CallStep(t)
    \/ OperatorStep
    \/ \E s \in Sims, active \in BOOLEAN : ReportSim(s, active)
    \/ \E x \in Contacts, area \in Areas \union {Nil} : Inbound(x, area)
    \/ Tick

Spec == Init /\ [][Next]_vars

-----------------------------------------------------------------------------
(* Properties *)

TypeOK ==
    /\ now \in 0 .. MaxTime
    /\ account \in [Accounts -> AccountRow]
    /\ session \in [Tokens -> SessionRow]
    /\ bound \subseteq Accounts \X Sims
    /\ sim \in [Sims -> SimRow]
    /\ contact \in [Contacts -> ContactRow]
    /\ conv \in [Contacts -> Sims \union {Nil}]
    /\ menu \in [Menus -> MenuRow]
    /\ sent \subseteq Accounts \X Contacts \X Keys
    /\ call \in [Threads -> Call]

\* What a call needs to have shown or done x
Needs(c, x, facts) ==
    CASE c.kind \in {"remark", "contacts"} ->
            \E area \in Areas : {<<"area", area>>, <<"contact", x, area>>} \subseteq facts
      [] c.kind \in Opens ->
            /\ c.via = "main" \/ c.kind = "reply" => <<"assigned", x>> \in facts
            /\ c.via = "monitor" => <<"area", HomeArea[x]>> \in facts
            /\ c.kind = "reply" => IF c.again = Nil THEN <<"sends", x>> \in facts
                                   ELSE <<"sent", x, c.again>> \in facts
      [] c.kind = "conversations" ->
            IF c.via = "main" THEN <<"assigned", x>> \in facts
                              ELSE <<"area", HomeArea[x]>> \in facts
      [] c.kind = "sims" -> <<"sim", x>> \in facts
      [] c.kind = "menus" ->
            IF c.via = "main" THEN <<"menu", x>> \in facts
            ELSE \E area \in Areas : {<<"area", area>>, <<"menu", x, area>>} \subseteq facts

\* A call shows and does only what its agent was entitled to while it ran: the
\* session lived, the account was active, the contact, or to the monitor the
\* conversation, was in the agent's area, the conversation's SIM was bound to the
\* agent, and a new reply's SIM could send, each at some moment between the call's
\* beginning and its answer, though no transaction holds what an earlier one
\* judged and a SIM may be bound that cannot send.  A reply that is repeated rests
\* on the binding and on the same agent's message in the conversation.
EntitledDuringCall == \A t \in Threads :
    LET c == call[t] IN
    c.pc = "done" /\ c.ok =>
        /\ {<<"session">>, <<"active">>} \subseteq held[t]
        /\ \A x \in c.did : Needs(c, x, held[t])

\* A remark that was answered ok is in the row, unless the contact changed its
\* area between the judgement and the update, which then finds no row.
RemarkOkIsWritten == \A t \in Threads :
    LET c == call[t] IN
    c.pc = "done" /\ c.ok /\ c.kind = "remark" /\ c.did = {} =>
        \E x, y \in Areas \union {Nil} :
            x # y /\ {<<"contact", c.on, x>>, <<"contact", c.on, y>>} \subseteq held[t]

=============================================================================
