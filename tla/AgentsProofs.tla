---------------------------- MODULE AgentsProofs ----------------------------
(***************************************************************************)
(* What agents are shown and what they do rests on rights they had while   *)
(* the call ran: Agents!EntitledDuringCall and Agents!RemarkOkIsWritten,   *)
(* for any threads, accounts, sessions, SIMs, contacts and menus.          *)
(*                                                                         *)
(* The argument: what held is only added to as long as a call runs         *)
(* (Grow), so each transaction need only find its own part of the grounds  *)
(* in the rows it reads.  A token's session never changes but for the      *)
(* account that is deleted (SessionStep), which is why a session alive     *)
(* when the call read its clock may be judged afterwards.                  *)
(***************************************************************************)
EXTENDS Agents, TLAPS

USE AgentsAssumption DEF AgentsAssumption, Opens

-----------------------------------------------------------------------------
(* The inductive invariant *)

\* What a call c has to go on, h being what was so while it ran, and s the
\* sessions.
Formed(c) ==
    /\ c.token \in Tokens /\ c.kind \in Kinds
    /\ c.on \in Contacts <=> c.kind \in Opens \union {"remark"}
    /\ c.via = "monitor" => c.kind \in Differ
    /\ c.pc # "done" => ~c.ok /\ c.again = Nil

Known(c, h) ==
    /\ c.by \in Accounts
    /\ <<"session">> \in h /\ <<"active">> \in h
    /\ c.kind \in {"remark", "contacts"} \/ c.via = "monitor" => <<"area", c.area>> \in h

Judged(c, h) ==
    \/ c.kind = "remark" /\ c.area \in Areas /\ <<"contact", c.on, c.area>> \in h
    \/ /\ c.kind \in Opens
       /\ c.via = "main" \/ c.kind = "reply" => <<"assigned", c.on>> \in h
       /\ c.via = "monitor" => HomeArea[c.on] = c.area

Shown(c, h) ==
    /\ <<"session">> \in h /\ <<"active">> \in h
    /\ \A x \in c.did : Needs(c, x, h)
    /\ c.kind = "remark" /\ c.did = {} =>
          \E x, y \in Areas \union {Nil} :
             x # y /\ <<"contact", c.on, x>> \in h /\ <<"contact", c.on, y>> \in h

Grounds(c, h, s) ==
    /\ c.pc \in {"asked", "known", "judged", "done"} => Formed(c)
    /\ c.pc = "asked" =>
          /\ c.by = Nil /\ s[c.token].expires > 0
          /\ s[c.token].by # Nil /\ s[c.token].expires > c.at => <<"session">> \in h
    /\ c.pc \in {"known", "judged"} => Known(c, h)
    /\ c.pc = "judged" => Judged(c, h)
    /\ c.pc = "done" /\ c.ok => Shown(c, h)

AllGrounded == \A t \in Threads : Grounds(call[t], held[t], session)
Given == \A k \in Tokens : session[k] # NoSession => session[k].expires > 0

IInv == TypeOK /\ Given /\ AllGrounded

\* What any step may do to a session that was given.
SessionStep == \A k \in Tokens : session[k].expires > 0 =>
    /\ session'[k].expires = session[k].expires
    /\ session'[k].by \in {session[k].by, Nil}

-----------------------------------------------------------------------------
(* What held while a call runs *)

LEMMA HeldAfter ==
    ASSUME NEW t \in Threads, Watch, call'[t].token # Nil
    PROVE  held[t] \subseteq held'[t]
  BY DEF Watch

\* A step that changes no row adds what is so now.
LEMMA HeldNow ==
    ASSUME TypeOK, NEW t \in Threads, NEW c \in Call, Become(t, c), Watch,
           call[t].pc # "done", UNCHANGED rows, c.token # Nil
    PROVE  held'[t] = held[t] \union Facts(c)
  <1>1. call'[t] = c /\ now' = now
    BY DEF Become, TypeOK
  <1>2. held'[t] = held[t] \union Facts(call[t])'
    BY <1>1 DEF Watch
  <1>3. Facts(call[t])' = Facts(c)
    BY <1>1 DEF rows, Facts, AgentOf, Assigned, Usable
  <1>. QED
    BY <1>2, <1>3

LEMMA NeedsGrow ==
    ASSUME NEW c \in Call, c.kind \in Kinds, NEW h, NEW g, h \subseteq g, NEW x,
           Needs(c, x, h)
    PROVE  Needs(c, x, g)
  <1>1. CASE c.kind \in {"remark", "contacts"}
    BY <1>1 DEF Needs
  <1>2. CASE c.kind \in Opens
    BY <1>2 DEF Needs
  <1>3. CASE c.kind \in {"conversations", "sims"}
    BY <1>3 DEF Needs
  <1>4. CASE c.kind = "menus"
    BY <1>4 DEF Needs
  <1>. QED
    BY <1>1, <1>2, <1>3, <1>4 DEF Kinds

LEMMA Grow ==
    ASSUME NEW c \in Call, NEW h, NEW g, h \subseteq g, NEW s, NEW r,
           Grounds(c, h, s),
           c.token \in Tokens /\ s[c.token].expires > 0 =>
               /\ r[c.token].expires = s[c.token].expires
               /\ r[c.token].by \in {s[c.token].by, Nil}
    PROVE  Grounds(c, g, r)
  <1>1. c.pc = "done" /\ c.ok => Shown(c, g)
    BY NeedsGrow DEF Grounds, Formed, Shown
  <1>2. c.pc \in {"known", "judged"} => Known(c, g)
    BY DEF Grounds, Known
  <1>3. c.pc = "judged" => Judged(c, g)
    BY DEF Grounds, Judged
  <1>4. c.pc = "asked" =>
          /\ c.by = Nil /\ r[c.token].expires > 0
          /\ r[c.token].by # Nil /\ r[c.token].expires > c.at => <<"session">> \in g
    BY DEF Grounds, Formed
  <1>. QED
    BY <1>1, <1>2, <1>3, <1>4 DEF Grounds

\* A thread whose call a step leaves alone keeps its grounds.
LEMMA OtherKeeps ==
    ASSUME IInv, NEW u \in Threads, Watch, SessionStep, call'[u] = call[u]
    PROVE  Grounds(call'[u], held'[u], session')
  <1>1. call[u] \in Call /\ Grounds(call[u], held[u], session)
    BY DEF IInv, TypeOK, AllGrounded
  <1>2. CASE call[u].token # Nil
    <2>1. held[u] \subseteq held'[u]
      BY <1>2, HeldAfter
    <2>. QED
      BY <1>1, <2>1, Grow DEF SessionStep
  <1>3. CASE call[u].token = Nil
    <2>1. Nil \notin Tokens
      BY DEF AgentsAssumption
    <2>2. call[u].pc \notin {"asked", "known", "judged", "done"}
      BY <1>1, <1>3, <2>1 DEF Grounds, Formed
    <2>. QED
      BY <1>1, <2>2 DEF Grounds
  <1>. QED
    BY <1>2, <1>3

\* A step of thread t that leaves call c behind.
LEMMA CallKeeps ==
    ASSUME IInv, NEW t \in Threads, NEW c \in Call, Become(t, c), Watch, SessionStep,
           Grounds(c, held'[t], session')
    PROVE  now' = now /\ call' \in [Threads -> Call] /\ AllGrounded'
  <1>1. now' = now /\ call' \in [Threads -> Call] /\ call'[t] = c
    BY DEF Become, IInv, TypeOK
  <1>2. \A u \in Threads : u # t => call'[u] = call[u]
    BY DEF Become, IInv, TypeOK
  <1>3. \A u \in Threads : Grounds(call'[u], held'[u], session')
    BY <1>1, <1>2, OtherKeeps
  <1>. QED
    BY <1>1, <1>3 DEF AllGrounded

\* The same for a call that changes no row.
LEMMA ReadKeeps ==
    ASSUME IInv, NEW t \in Threads, NEW c \in Call, Become(t, c), Watch,
           UNCHANGED rows,
           Grounds(c, held'[t], session)
    PROVE  IInv'
  <1>1. SessionStep /\ session' = session
    BY DEF rows, SessionStep
  <1>2. now' = now /\ call' \in [Threads -> Call] /\ AllGrounded'
    BY <1>1, CallKeeps
  <1>. QED
    BY <1>2 DEF IInv, TypeOK, Given, rows

\* A step of nobody's call.
LEMMA RowsKeep ==
    ASSUME IInv, Watch, SessionStep, UNCHANGED call
    PROVE  AllGrounded'
  BY OtherKeeps DEF AllGrounded

-----------------------------------------------------------------------------
(* Calls as records *)

LEMMA IdleType == IdleCall \in Call
  BY DEF IdleCall, Call

LEMMA CallRecord ==
    ASSUME NEW x \in Call
    PROVE  /\ \A v \in {"asked", "login", "known"} : [x EXCEPT !.pc = v] \in Call
           /\ \A v \in Accounts \union {Nil} : [x EXCEPT !.by = v] \in Call
           /\ \A v \in Areas \union {Nil} : [x EXCEPT !.area = v] \in Call
           /\ \A v \in 0 .. MaxTime : [x EXCEPT !.at = v] \in Call
           /\ \A v \in Tokens \union {Nil} : [x EXCEPT !.token = v] \in Call
           /\ \A v \in Kinds : [x EXCEPT !.kind = v] \in Call
           /\ \A v \in {"main", "monitor"} : [x EXCEPT !.via = v] \in Call
           /\ \A v \in Contacts \union {Nil} : [x EXCEPT !.on = v] \in Call
  BY DEF Call

LEMMA Judging ==
    ASSUME NEW c \in Call
    PROVE  [c EXCEPT !.pc = "judged"] \in Call
  BY DEF Call

LEMMA Replied ==
    ASSUME NEW c \in Call, NEW did \in SUBSET (Contacts \union Sims \union Menus)
    PROVE  [c EXCEPT !.pc = "done", !.ok = TRUE, !.did = did] \in Call
  BY DEF Call

LEMMA Repeated ==
    ASSUME NEW c \in Call, NEW key \in Keys, NEW did \in SUBSET (Contacts \union Sims \union Menus)
    PROVE  [c EXCEPT !.pc = "done", !.ok = TRUE, !.again = key, !.did = did] \in Call
  BY DEF Call

-----------------------------------------------------------------------------
(* Sessions *)

LEMMA LoginReadKeeps ==
    ASSUME IInv, NEW t \in Threads, NEW a \in Accounts, LoginRead(t, a)
    PROVE  IInv'
  <1>1. now \in 0 .. MaxTime
    BY DEF IInv, TypeOK
  <1>2. PICK u \in Call : u = [IdleCall EXCEPT !.pc = "login"]
    BY IdleType, CallRecord
  <1>3. PICK v \in Call : v = [u EXCEPT !.by = a]
    BY CallRecord
  <1>4. PICK c \in Call : c = [v EXCEPT !.at = now]
    BY <1>1, CallRecord
  <1>5. c = [IdleCall EXCEPT !.pc = "login", !.by = a, !.at = now] /\ c.pc = "login"
    BY <1>2, <1>3, <1>4 DEF IdleCall
  <1>6. Grounds(c, held'[t], session)
    BY <1>5 DEF Grounds
  <1>. QED
    BY <1>5, <1>6, ReadKeeps DEF LoginRead

LEMMA LoginInsertKeeps ==
    ASSUME IInv, NEW t \in Threads, LoginInsert(t)
    PROVE  IInv'
  <1>1. call[t] \in Call /\ MaxTime \in Nat /\ Ttl \in Nat \ {0}
    BY DEF IInv, TypeOK, AgentsAssumption
  <1>2. call[t].at \in 0 .. MaxTime /\ call[t].by \in Accounts \union {Nil}
    BY <1>1 DEF Call
  <1>3. \/ session' = session
        \/ \E k \in Tokens : /\ session[k] = NoSession
              /\ session' = [session EXCEPT ![k] = [by |-> call[t].by, expires |-> call[t].at + Ttl]]
    BY DEF LoginInsert
  <1>4. session' \in [Tokens -> SessionRow] /\ SessionStep /\ Given'
    <2>1. CASE session' = session
      BY <2>1 DEF IInv, TypeOK, SessionStep, Given
    <2>2. CASE session' # session
      <3>1. PICK k \in Tokens : /\ session[k] = NoSession
              /\ session' = [session EXCEPT ![k] = [by |-> call[t].by, expires |-> call[t].at + Ttl]]
        BY <1>3, <2>2
      <3>2. PICK r : r = [by |-> call[t].by, expires |-> call[t].at + Ttl]
        OBVIOUS
      <3>3. r \in SessionRow /\ r.expires > 0
        BY <1>1, <1>2, <3>2 DEF SessionRow
      <3>4. session' \in [Tokens -> SessionRow] /\ session'[k] = r
            /\ \A j \in Tokens : j # k => session'[j] = session[j]
        BY <3>1, <3>2, <3>3 DEF IInv, TypeOK
      <3>5. session[k].expires = 0
        BY <3>1 DEF NoSession
      <3>6. SessionStep
        BY <3>4, <3>5 DEF SessionStep
      <3>. QED
        BY <3>3, <3>4, <3>6 DEF IInv, Given
    <2>. QED
      BY <2>1, <2>2
  <1>5. Grounds(IdleCall, held'[t], session')
    BY DEF Grounds, IdleCall
  <1>6. now' = now /\ call' \in [Threads -> Call] /\ AllGrounded'
    BY <1>4, <1>5, IdleType, CallKeeps DEF LoginInsert
  <1>. QED
    BY <1>4, <1>6 DEF IInv, TypeOK, LoginInsert

LEMMA AskKeeps ==
    ASSUME IInv, NEW t \in Threads, NEW k \in Tokens, NEW kind \in Kinds,
           NEW via \in {"main", "monitor"}, NEW x \in Contacts \union {Nil},
           Ask(t, k, kind, via, x)
    PROVE  IInv'
  <1>1. now \in 0 .. MaxTime /\ session[k].expires > 0 /\ Nil \notin Tokens /\ Nil \notin Contacts
    BY DEF IInv, TypeOK, Given, Ask, AgentsAssumption
  <1>2. PICK u \in Call : u = [IdleCall EXCEPT !.pc = "asked"]
    BY IdleType, CallRecord
  <1>3. PICK v \in Call : v = [u EXCEPT !.token = k]
    BY CallRecord
  <1>4. PICK w \in Call : w = [v EXCEPT !.kind = kind]
    BY CallRecord
  <1>5. PICK y \in Call : y = [w EXCEPT !.via = via]
    BY CallRecord
  <1>6. PICK z \in Call : z = [y EXCEPT !.on = x]
    BY CallRecord
  <1>7. PICK c \in Call : c = [z EXCEPT !.at = now]
    BY <1>1, CallRecord
  <1>8. /\ c = [IdleCall EXCEPT !.pc = "asked", !.token = k, !.kind = kind,
                                !.via = via, !.on = x, !.at = now]
        /\ c.pc = "asked" /\ c.token = k /\ c.kind = kind /\ c.via = via /\ c.on = x
        /\ c.at = now /\ c.by = Nil /\ c.ok = FALSE /\ c.again = Nil
    BY <1>2, <1>3, <1>4, <1>5, <1>6, <1>7 DEF IdleCall
  <1>9. Formed(c)
    BY <1>1, <1>8 DEF Formed, Ask
  <1>10. Become(t, c) /\ Watch /\ UNCHANGED rows /\ call[t].pc # "done"
    BY <1>8 DEF Ask
  <1>11. held'[t] = held[t] \union Facts(c)
    BY <1>1, <1>8, <1>10, HeldNow DEF IInv
  <1>12. session[k].by # Nil /\ session[k].expires > now => <<"session">> \in Facts(c)
    BY <1>1, <1>8 DEF Facts, AgentOf
  <1>13. Grounds(c, held'[t], session)
    BY <1>1, <1>8, <1>9, <1>11, <1>12 DEF Grounds
  <1>. QED
    BY <1>10, <1>13, ReadKeeps

\* A call that is refused needs no grounds.
LEMMA RefuseKeeps ==
    ASSUME IInv, NEW t \in Threads, Refuse(t), Watch, UNCHANGED rows
    PROVE  IInv'
  <1>1. Grounds(IdleCall, held'[t], session)
    BY DEF Grounds, IdleCall
  <1>. QED
    BY <1>1, IdleType, ReadKeeps DEF Refuse

LEMMA AuthenticateKeeps ==
    ASSUME IInv, NEW t \in Threads, Authenticate(t)
    PROVE  IInv'
  <1>1. call[t] \in Call /\ Grounds(call[t], held[t], session) /\ call[t].pc = "asked"
        /\ Nil \notin Tokens
    BY DEF IInv, TypeOK, AllGrounded, Authenticate, AgentsAssumption
  <1>2. CASE ~Authentic(call[t])
    BY <1>1, <1>2, RefuseKeeps DEF Authenticate
  <1>3. CASE Authentic(call[t])
    <2>1. PICK a : a = session[call[t].token].by
      OBVIOUS
    <2>2. a \in Accounts /\ account[a].active /\ account[a].area \in Areas \union {Nil}
          /\ <<"session">> \in held[t]
      <3>1. call[t].token \in Tokens
        BY <1>1 DEF Grounds, Formed
      <3>2. a \in Accounts \union {Nil} /\ a # Nil
        BY <1>3, <2>1, <3>1 DEF IInv, TypeOK, SessionRow, Authentic
      <3>. QED
        BY <1>1, <1>3, <2>1, <3>2 DEF Authentic, Grounds, IInv, TypeOK, AccountRow
    <2>3. PICK u \in Call : u = [call[t] EXCEPT !.pc = "known"]
      BY <1>1, CallRecord
    <2>4. PICK v \in Call : v = [u EXCEPT !.by = a]
      BY <2>2, CallRecord
    <2>5. PICK c \in Call : c = [v EXCEPT !.area = account[a].area]
      BY <2>2, CallRecord
    <2>6. /\ c = [call[t] EXCEPT !.pc = "known", !.by = a, !.area = account[a].area]
          /\ c.pc = "known" /\ c.by = a /\ c.area = account[a].area
          /\ c.token = call[t].token /\ c.kind = call[t].kind /\ c.on = call[t].on
          /\ c.via = call[t].via /\ c.ok = call[t].ok /\ c.again = call[t].again
      BY <1>1, <2>3, <2>4, <2>5 DEF Call
    <2>7. Become(t, c) /\ Watch /\ UNCHANGED rows
      BY <1>3, <2>1, <2>6 DEF Authenticate
    <2>8. Formed(c) /\ c.token # Nil
      BY <1>1, <2>6 DEF Grounds, Formed
    <2>9. held'[t] = held[t] \union Facts(c)
      BY <1>1, <2>7, <2>8, HeldNow DEF IInv
    <2>10. a # Nil
      BY <2>2 DEF AgentsAssumption
    <2>11. AgentOf(c) = a
      BY <2>6, <2>10 DEF AgentOf
    <2>12. <<"active">> \in Facts(c)
      BY <2>2, <2>8, <2>10, <2>11 DEF Facts
    <2>13. c.kind \in {"remark", "contacts"} \/ c.via = "monitor" =>
              <<"area", c.area>> \in Facts(c)
      <3>1. CASE c.kind \in {"remark", "contacts"}
        BY <3>1, <2>6, <2>8, <2>10, <2>11 DEF Facts
      <3>2. CASE c.via = "monitor" /\ c.kind \in Opens \union {"conversations"}
        BY <3>2, <2>6, <2>8, <2>10, <2>11 DEF Facts
      <3>3. CASE c.via = "monitor" /\ c.kind = "menus"
        BY <3>3, <2>6, <2>8, <2>10, <2>11 DEF Facts
      <3>. QED
        BY <3>1, <3>2, <3>3, <2>8 DEF Formed, Differ
    <2>14. Grounds(c, held'[t], session)
      BY <2>2, <2>6, <2>8, <2>9, <2>12, <2>13 DEF Grounds, Known
    <2>. QED
      BY <2>7, <2>14, ReadKeeps
  <1>. QED
    BY <1>2, <1>3

-----------------------------------------------------------------------------
(* Access *)

\* A call goes from known to judged on grounds found now.
LEMMA JudgedKeeps ==
    ASSUME IInv, NEW t \in Threads, call[t].pc = "known", Watch, UNCHANGED rows,
           NEW c, c = [call[t] EXCEPT !.pc = "judged"], Become(t, c),
           \A h : Facts(c) \subseteq h => Judged(c, h)
    PROVE  IInv'
  <1>1. call[t] \in Call /\ Grounds(call[t], held[t], session) /\ Nil \notin Tokens
    BY DEF IInv, TypeOK, AllGrounded, AgentsAssumption
  <1>2. c \in Call
    BY <1>1, Judging
  <1>3. /\ c.pc = "judged" /\ c.token = call[t].token /\ c.kind = call[t].kind
        /\ c.on = call[t].on /\ c.via = call[t].via /\ c.ok = call[t].ok
        /\ c.by = call[t].by /\ c.area = call[t].area /\ c.again = call[t].again
    BY <1>1 DEF Call
  <1>4. Formed(c) /\ c.token # Nil /\ Known(c, held[t])
    BY <1>1, <1>3 DEF Grounds, Formed, Known
  <1>5. held'[t] = held[t] \union Facts(c)
    BY <1>2, <1>4, HeldNow DEF IInv
  <1>6. Grounds(c, held'[t], session)
    BY <1>3, <1>4, <1>5 DEF Grounds, Known
  <1>. QED
    BY <1>2, <1>6, ReadKeeps

LEMMA JudgeRemarkKeeps ==
    ASSUME IInv, NEW t \in Threads, JudgeRemark(t)
    PROVE  IInv'
  <1>1. call[t] \in Call /\ Grounds(call[t], held[t], session)
        /\ call[t].pc = "known" /\ call[t].kind = "remark" /\ Watch /\ UNCHANGED rows
    BY DEF IInv, TypeOK, AllGrounded, JudgeRemark
  <1>2. CASE ~InArea(call[t].on, call[t].area)
    BY <1>1, <1>2, RefuseKeeps DEF JudgeRemark
  <1>3. CASE InArea(call[t].on, call[t].area)
    <2>1. PICK c \in Call : c = [call[t] EXCEPT !.pc = "judged"]
      BY <1>1, Judging
    <2>2. /\ c.token = call[t].token /\ c.kind = "remark" /\ c.by = call[t].by
          /\ c.on = call[t].on /\ c.area = call[t].area
      BY <1>1, <2>1 DEF Call
    <2>3. Formed(call[t]) /\ c.by # Nil /\ c.token # Nil /\ c.on \in Contacts
      BY <1>1, <2>2 DEF Grounds, Formed, Known, AgentsAssumption
    <2>4. c.area \in Areas /\ contact[c.on].area = c.area
      BY <1>1, <1>3, <2>2 DEF InArea, Call
    <2>5. <<"contact", c.on, c.area>> \in Facts(c)
      BY <2>2, <2>3, <2>4 DEF Facts, AgentOf
    <2>6. \A h : Facts(c) \subseteq h => Judged(c, h)
      BY <2>2, <2>4, <2>5 DEF Judged
    <2>7. Become(t, c)
      BY <1>3, <2>1 DEF JudgeRemark
    <2>. QED
      BY <1>1, <2>1, <2>6, <2>7, JudgedKeeps
  <1>. QED
    BY <1>2, <1>3

LEMMA JudgeConversationKeeps ==
    ASSUME IInv, NEW t \in Threads, JudgeConversation(t) \/ JudgeConversationInArea(t)
    PROVE  IInv'
  <1>1. call[t] \in Call /\ Grounds(call[t], held[t], session)
        /\ call[t].pc = "known" /\ call[t].kind \in Opens /\ Watch /\ UNCHANGED rows
    BY DEF IInv, TypeOK, AllGrounded, JudgeConversation, JudgeConversationInArea
  <1>2. CASE Refuse(t)
    BY <1>1, <1>2, RefuseKeeps
  <1>3. CASE /\ Become(t, [call[t] EXCEPT !.pc = "judged"])
             /\ call[t].via = "main" \/ call[t].kind = "reply" => Assigned(call[t].by, call[t].on)
             /\ call[t].via = "monitor" => SameArea(call[t].on, call[t].area)
    <2>1. PICK c \in Call : c = [call[t] EXCEPT !.pc = "judged"]
      BY <1>1, Judging
    <2>2. /\ c.token = call[t].token /\ c.kind = call[t].kind /\ c.by = call[t].by
          /\ c.on = call[t].on /\ c.area = call[t].area /\ c.via = call[t].via
      BY <1>1, <2>1 DEF Call
    <2>3. c.by # Nil /\ c.token # Nil /\ c.on \in Contacts
      BY <1>1, <2>2 DEF Grounds, Formed, Known, AgentsAssumption
    <2>4. ASSUME c.via = "main" \/ c.kind = "reply"
          PROVE  <<"assigned", c.on>> \in Facts(c)
      <3>1. Assigned(c.by, c.on) /\ AgentOf(c) = c.by
        BY <1>3, <2>2, <2>3, <2>4 DEF AgentOf
      <3>2. <<"assigned", c.on>> \in {<<"assigned", x>> : x \in {x \in Contacts : Assigned(c.by, x)}}
        BY <2>3, <3>1
      <3>3. c.kind \in Opens \union {"conversations"} /\ c.kind \notin {"remark", "contacts"}
        BY <1>1, <2>2
      <3>. QED
        BY <2>3, <3>1, <3>2, <3>3 DEF Facts
    <2>5. ASSUME NEW h, Facts(c) \subseteq h
          PROVE  Judged(c, h)
      <3>1. c.kind \in Opens /\ (c.via = "monitor" => HomeArea[c.on] = c.area)
        BY <1>1, <1>3, <2>2 DEF SameArea
      <3>2. c.via = "main" \/ c.kind = "reply" => <<"assigned", c.on>> \in h
        BY <2>4, <2>5
      <3>. QED
        BY <3>1, <3>2 DEF Judged
    <2>6. Become(t, c)
      BY <1>3, <2>1
    <2>. QED
      BY <1>1, <2>1, <2>5, <2>6, JudgedKeeps
  <1>. QED
    BY <1>2, <1>3 DEF JudgeConversation, JudgeConversationInArea

-----------------------------------------------------------------------------
(* Answers *)

\* An answer stands on what was held and, if it changed no row, on what is so.
LEMMA AnswerKeeps ==
    ASSUME IInv, NEW t \in Threads, call[t].pc \in {"known", "judged"}, Watch,
           NEW did \in SUBSET (Contacts \union Sims \union Menus), Answer(t, did),
           SessionStep,
           \A c \in Call : \A h :
              /\ c.kind = call[t].kind /\ c.via = call[t].via /\ c.on = call[t].on
              /\ c.by = call[t].by /\ c.token = call[t].token /\ c.did = did
              /\ c.again = Nil
              /\ held[t] \subseteq h
              /\ UNCHANGED rows => Facts(c) \subseteq h
              => Shown(c, h)
    PROVE  now' = now /\ call' \in [Threads -> Call] /\ AllGrounded'
  <1>1. call[t] \in Call /\ Grounds(call[t], held[t], session) /\ Nil \notin Tokens
    BY DEF IInv, TypeOK, AllGrounded, AgentsAssumption
  <1>2. PICK c \in Call : c = [call[t] EXCEPT !.pc = "done", !.ok = TRUE, !.did = did]
    BY <1>1, Replied
  <1>3. /\ c.pc = "done" /\ c.token = call[t].token /\ c.kind = call[t].kind
        /\ c.on = call[t].on /\ c.via = call[t].via /\ c.did = did /\ c.by = call[t].by
        /\ c.again = call[t].again
    BY <1>1, <1>2 DEF Call
  <1>4. Formed(c) /\ c.token # Nil /\ c.again = Nil
    BY <1>1, <1>3 DEF Grounds, Formed
  <1>5. Become(t, c) /\ call'[t] = c
    BY <1>2 DEF Answer, Become, IInv, TypeOK
  <1>6. held[t] \subseteq held'[t] /\ (UNCHANGED rows => Facts(c) \subseteq held'[t])
    BY <1>4, <1>5, HeldAfter, HeldNow DEF IInv
  <1>7. Shown(c, held'[t])
    BY <1>3, <1>4, <1>6
  <1>8. Grounds(c, held'[t], session')
    BY <1>3, <1>4, <1>7 DEF Grounds
  <1>. QED
    BY <1>5, <1>8, CallKeeps

LEMMA WriteRemarkKeeps ==
    ASSUME IInv, NEW t \in Threads, WriteRemark(t)
    PROVE  IInv'
  <1>1. call[t] \in Call /\ Grounds(call[t], held[t], session) /\ Nil \notin Areas
        /\ call[t].pc = "judged" /\ call[t].kind = "remark" /\ Watch
    BY DEF IInv, TypeOK, AllGrounded, WriteRemark, AgentsAssumption
  <1>2. /\ Formed(call[t]) /\ Known(call[t], held[t]) /\ call[t].area \in Areas
        /\ <<"contact", call[t].on, call[t].area>> \in held[t] /\ call[t].on \in Contacts
        /\ <<"area", call[t].area>> \in held[t]
    BY <1>1 DEF Grounds, Judged, Formed, Known
  <1>3. SessionStep
    BY DEF WriteRemark, SessionStep
  <1>4. CASE InArea(call[t].on, call[t].area)
    <2>1. PICK r \in Remarks \union {Nil} :
            contact' = [contact EXCEPT ![call[t].on].remark = r] /\ Answer(t, {call[t].on})
      BY <1>4 DEF WriteRemark
    <2>2. contact' \in [Contacts -> ContactRow]
      <3>1. contact[call[t].on] \in ContactRow
        BY <1>2 DEF IInv, TypeOK
      <3>2. PICK row \in ContactRow : row = [contact[call[t].on] EXCEPT !.remark = r]
        BY <3>1 DEF ContactRow
      <3>3. contact' = [contact EXCEPT ![call[t].on] = row]
        BY <2>1, <3>2
      <3>. QED
        BY <3>3 DEF IInv, TypeOK
    <2>3. ASSUME NEW c \in Call, NEW h,
                 c.kind = call[t].kind, c.on = call[t].on, c.did = {call[t].on},
                 held[t] \subseteq h
          PROVE  Shown(c, h)
      <3>1. Needs(c, c.on, h)
        BY <1>1, <1>2, <2>3 DEF Needs
      <3>. QED
        BY <1>2, <2>3, <3>1 DEF Shown, Known
    <2>4. now' = now /\ call' \in [Threads -> Call] /\ AllGrounded'
      BY <1>1, <1>2, <1>3, <2>1, <2>3, AnswerKeeps
    <2>. QED
      BY <2>2, <2>4 DEF IInv, TypeOK, Given, WriteRemark
  <1>5. CASE ~InArea(call[t].on, call[t].area)
    <2>1. Answer(t, {}) /\ UNCHANGED rows
      BY <1>5 DEF WriteRemark, rows
    <2>2. PICK other : other = contact[call[t].on].area
      OBVIOUS
    <2>3. other # call[t].area /\ other \in Areas \union {Nil}
      BY <1>1, <1>2, <1>5, <2>2 DEF InArea, IInv, TypeOK, ContactRow
    <2>4. ASSUME NEW c \in Call, NEW h,
                 c.kind = call[t].kind, c.on = call[t].on, c.by = call[t].by,
                 c.token = call[t].token, c.did = {}, held[t] \subseteq h, Facts(c) \subseteq h
          PROVE  Shown(c, h)
      <3>1. c.by # Nil /\ c.token # Nil
        BY <1>2, <2>4 DEF Known, Formed, AgentsAssumption
      <3>2. <<"contact", c.on, other>> \in Facts(c)
        BY <1>1, <1>2, <2>2, <2>4, <3>1 DEF Facts, AgentOf
      <3>. QED
        BY <1>2, <2>3, <2>4, <3>2 DEF Shown, Known
    <2>5. now' = now /\ call' \in [Threads -> Call] /\ AllGrounded'
      BY <1>1, <1>3, <2>1, <2>4, AnswerKeeps
    <2>. QED
      BY <2>1, <2>5 DEF IInv, TypeOK, Given, rows
  <1>. QED
    BY <1>4, <1>5

\* What an answer that reads rows has to show.
LEMMA ShowKeeps ==
    ASSUME IInv, NEW t \in Threads, call[t].pc \in {"known", "judged"}, Watch, UNCHANGED rows,
           NEW did \in SUBSET (Contacts \union Sims \union Menus), Answer(t, did),
           call[t].kind # "remark",
           \A c \in Call : \A h, x :
              /\ c.kind = call[t].kind /\ c.via = call[t].via /\ c.again = Nil
              /\ AgentOf(c) = call[t].by /\ call[t].by # Nil /\ c.token # Nil
              /\ x \in did /\ held[t] \subseteq h /\ Facts(c) \subseteq h
              => Needs(c, x, h)
    PROVE  IInv'
  <1>1. call[t] \in Call /\ Grounds(call[t], held[t], session)
    BY DEF IInv, TypeOK, AllGrounded
  <1>2. Formed(call[t]) /\ Known(call[t], held[t]) /\ call[t].by # Nil /\ call[t].token # Nil
    BY <1>1 DEF Grounds, Known, Formed, AgentsAssumption
  <1>3. SessionStep
    BY DEF SessionStep, rows
  <1>4. ASSUME NEW c \in Call, NEW h,
               c.kind = call[t].kind, c.via = call[t].via, c.by = call[t].by,
               c.token = call[t].token, c.did = did, c.again = Nil, held[t] \subseteq h, Facts(c) \subseteq h
        PROVE  Shown(c, h)
    <2>1. AgentOf(c) = call[t].by
      BY <1>2, <1>4 DEF AgentOf
    <2>2. \A x \in c.did : Needs(c, x, h)
      BY <1>2, <1>4, <2>1
    <2>. QED
      BY <1>2, <1>4, <2>2 DEF Shown, Known
  <1>5. now' = now /\ call' \in [Threads -> Call] /\ AllGrounded'
    BY <1>3, <1>4, AnswerKeeps
  <1>. QED
    BY <1>5 DEF IInv, TypeOK, Given, rows

\* What a judged call about a conversation rests on.
LEMMA JudgedOpens ==
    ASSUME IInv, NEW t \in Threads, call[t].pc = "judged", call[t].kind \in Opens
    PROVE  /\ call[t] \in Call /\ Grounds(call[t], held[t], session)
           /\ Formed(call[t]) /\ Known(call[t], held[t]) /\ call[t].on \in Contacts
           /\ call[t].via = "main" \/ call[t].kind = "reply" =>
                 <<"assigned", call[t].on>> \in held[t]
           /\ call[t].via = "monitor" => <<"area", HomeArea[call[t].on]>> \in held[t]
           /\ call[t].again = Nil /\ call[t].token # Nil /\ call[t].by # Nil
  <1>1. call[t] \in Call /\ Grounds(call[t], held[t], session) /\ Nil \notin Tokens
        /\ Nil \notin Accounts
    BY DEF IInv, TypeOK, AllGrounded, AgentsAssumption
  <1>. QED
    BY <1>1 DEF Grounds, Judged, Formed, Known

LEMMA ListMessagesKeeps ==
    ASSUME IInv, NEW t \in Threads, ListMessages(t) \/ MarkRead(t)
    PROVE  IInv'
  <1>1. call[t].pc = "judged" /\ call[t].kind \in {"messages", "read"} /\ Watch /\ UNCHANGED rows
    BY DEF ListMessages, MarkRead
  <1>2. PICK did \in SUBSET (Contacts \union Sims \union Menus) :
            Answer(t, did) /\ did \subseteq {call[t].on}
    <2>1. call[t].on \in Contacts
      BY <1>1, JudgedOpens
    <2>2. Answer(t, {call[t].on}) \/ Answer(t, {})
      BY DEF ListMessages, MarkRead
    <2>. QED
      BY <2>1, <2>2
  <1>3. ASSUME NEW c \in Call, NEW h, NEW x \in did, c.kind = call[t].kind,
               c.via = call[t].via, held[t] \subseteq h
        PROVE  Needs(c, x, h)
    <2>1. x = call[t].on
      BY <1>2
    <2>. QED
      BY <1>1, <1>3, <2>1, JudgedOpens DEF Needs
  <1>. QED
    BY <1>1, <1>2, <1>3, ShowKeeps

LEMMA SendAgainKeeps ==
    ASSUME IInv, NEW t \in Threads, NEW key \in Keys, SendAgain(t, key)
    PROVE  IInv'
  <1>1. call[t].pc = "judged" /\ call[t].kind = "reply" /\ call[t].kind \in Opens
        /\ Watch /\ UNCHANGED rows /\ Nil \notin Keys
    BY DEF SendAgain, Opens, AgentsAssumption
  <1>2. CASE Refuse(t)
    BY <1>1, <1>2, RefuseKeeps
  <1>3. CASE Become(t, [call[t] EXCEPT !.pc = "done", !.ok = TRUE, !.again = key,
                                       !.did = {call[t].on}])
    <2>1. PICK c \in Call : c = [call[t] EXCEPT !.pc = "done", !.ok = TRUE, !.again = key,
                                              !.did = {call[t].on}]
      <3>1. {call[t].on} \in SUBSET (Contacts \union Sims \union Menus)
        BY <1>1, JudgedOpens
      <3>. QED
        BY <1>1, <3>1, JudgedOpens, Repeated
    <2>2. /\ c.pc = "done" /\ c.token = call[t].token /\ c.kind = "reply" /\ c.again = key
          /\ c.on = call[t].on /\ c.via = call[t].via /\ c.by = call[t].by /\ c.did = {c.on}
      BY <1>1, <2>1, JudgedOpens DEF Call
    <2>3. Formed(c) /\ c.token # Nil /\ c.by # Nil /\ AgentOf(c) = c.by
      BY <1>1, <2>2, JudgedOpens DEF Formed, AgentOf
    <2>4. Become(t, c)
      BY <1>3, <2>1
    <2>5. held'[t] = held[t] \union Facts(c)
      BY <1>1, <2>3, <2>4, HeldNow DEF IInv
    <2>6. <<"sent", c.on, key>> \in Facts(c)
      <3>1. PICK m \in sent : m = <<c.by, c.on, key>>
        BY <2>2 DEF SendAgain
      <3>2. m[1] = c.by /\ m[2] = c.on /\ m[3] = key
        BY <3>1
      <3>3. <<"sent", c.on, key>> \in {<<"sent", n[2], n[3]>> : n \in {n \in sent : n[1] = c.by}}
        BY <3>2
      <3>. QED
        BY <1>1, <2>2, <2>3, <3>3 DEF Facts
    <2>7. Needs(c, c.on, held'[t])
      BY <1>1, <2>2, <2>5, <2>6, JudgedOpens DEF Needs
    <2>8. Shown(c, held'[t])
      BY <1>1, <2>2, <2>5, <2>7, JudgedOpens DEF Shown, Known
    <2>9. Grounds(c, held'[t], session)
      BY <2>2, <2>3, <2>8 DEF Grounds
    <2>. QED
      BY <1>1, <2>4, <2>9, ReadKeeps
  <1>. QED
    BY <1>2, <1>3 DEF SendAgain

\* A new message changes a row, yet not what its SIM may do.
LEMMA SendNewKeeps ==
    ASSUME IInv, NEW t \in Threads, NEW key \in Keys, SendNew(t, key)
    PROVE  IInv'
  <1>1. call[t].pc = "judged" /\ call[t].kind = "reply" /\ call[t].kind \in Opens /\ Watch
        /\ UNCHANGED <<account, session, bound, sim, contact, conv, menu>>
    BY DEF SendNew
  <1>2. CASE Refuse(t) /\ UNCHANGED sent
    BY <1>1, <1>2, RefuseKeeps DEF rows
  <1>3. CASE /\ Usable(conv[call[t].on])
             /\ sent' = sent \union {<<call[t].by, call[t].on, key>>}
             /\ Answer(t, {call[t].on})
    <2>1. PICK c \in Call : c = [call[t] EXCEPT !.pc = "done", !.ok = TRUE,
                                              !.did = {call[t].on}]
      <3>1. {call[t].on} \in SUBSET (Contacts \union Sims \union Menus)
        BY <1>1, JudgedOpens
      <3>. QED
        BY <1>1, <3>1, JudgedOpens, Replied
    <2>2. /\ c.pc = "done" /\ c.token = call[t].token /\ c.kind = "reply" /\ c.again = Nil
          /\ c.on = call[t].on /\ c.via = call[t].via /\ c.by = call[t].by /\ c.did = {c.on}
      BY <1>1, <2>1, JudgedOpens DEF Call
    <2>3. Formed(c) /\ c.token # Nil /\ c.by # Nil /\ c.on \in Contacts
      BY <1>1, <2>2, JudgedOpens DEF Formed
    <2>4. Become(t, c) /\ call'[t] = c
      BY <1>3, <2>1 DEF Answer, Become, IInv, TypeOK
    <2>5. held'[t] = held[t] \union Facts(call[t])'
      BY <1>1, <2>3, <2>4 DEF Watch
    <2>6. <<"sends", c.on>> \in Facts(call[t])'
      BY <1>1, <1>3, <2>2, <2>3, <2>4 DEF Facts, AgentOf, Usable
    <2>7. Needs(c, c.on, held'[t])
      BY <1>1, <2>2, <2>5, <2>6, JudgedOpens DEF Needs
    <2>8. Shown(c, held'[t])
      BY <1>1, <2>2, <2>5, <2>7, JudgedOpens DEF Shown, Known
    <2>9. SessionStep /\ session' = session
      BY <1>1 DEF SessionStep
    <2>10. Grounds(c, held'[t], session')
      BY <2>2, <2>3, <2>8 DEF Grounds
    <2>11. now' = now /\ call' \in [Threads -> Call] /\ AllGrounded'
      BY <1>1, <2>4, <2>9, <2>10, CallKeeps
    <2>12. sent' \subseteq Accounts \X Contacts \X Keys
      <3>1. sent \subseteq Accounts \X Contacts \X Keys
        BY DEF IInv, TypeOK
      <3>2. call[t].by \in Accounts /\ call[t].on \in Contacts
        BY <1>1, JudgedOpens DEF Known
      <3>. QED
        BY <1>3, <3>1, <3>2
    <2>. QED
      BY <1>1, <2>11, <2>12 DEF IInv, TypeOK, Given
  <1>. QED
    BY <1>2, <1>3 DEF SendNew

LEMMA ListRowsKeeps ==
    ASSUME IInv, NEW t \in Threads, ListRows(t)
    PROVE  IInv'
  <1>1. call[t] \in Call /\ Grounds(call[t], held[t], session) /\ call[t].via = "main"
        /\ call[t].pc = "known" /\ Watch /\ UNCHANGED rows
    BY DEF IInv, TypeOK, AllGrounded, ListRows
  <1>2. /\ Known(call[t], held[t])
        /\ call[t].kind \in {"contacts", "conversations", "sims", "menus"}
    BY <1>1 DEF Grounds, Formed, ListRows, Kinds
  <1>3. CASE Refuse(t)
    BY <1>1, <1>3, RefuseKeeps
  <1>4. CASE Answer(t, Contents(call[t]))
    <2>1. CASE call[t].kind = "contacts"
      <3>1. PICK did : did = {x \in Contacts : InArea(x, call[t].area)}
        OBVIOUS
      <3>2. Answer(t, did)
        BY <1>4, <2>1, <3>1 DEF Contents
      <3>3. ASSUME NEW c \in Call, NEW h, NEW x \in did, c.kind = "contacts",
                   AgentOf(c) = call[t].by, call[t].by # Nil, c.token # Nil,
                   held[t] \subseteq h, Facts(c) \subseteq h
            PROVE  Needs(c, x, h)
        <4>1. x \in Contacts /\ contact[x].area = call[t].area /\ call[t].area \in Areas
          BY <1>1, <3>1 DEF InArea, Call
        <4>2. <<"contact", x, call[t].area>> \in Facts(c)
          BY <3>3, <4>1 DEF Facts
        <4>3. <<"area", call[t].area>> \in h
          BY <1>2, <2>1, <3>3 DEF Known
        <4>. QED
          BY <3>3, <4>1, <4>2, <4>3 DEF Needs
      <3>. QED
        BY <1>1, <2>1, <3>1, <3>2, <3>3, ShowKeeps
    <2>2. CASE call[t].kind = "conversations"
      <3>1. PICK did : did = {x \in Contacts : Assigned(call[t].by, x)}
        OBVIOUS
      <3>2. Answer(t, did)
        BY <1>4, <2>2, <3>1 DEF Contents
      <3>3. ASSUME NEW c \in Call, NEW h, NEW x \in did, c.kind = "conversations",
                   c.via = "main", AgentOf(c) = call[t].by, call[t].by # Nil, c.token # Nil,
                   Facts(c) \subseteq h
            PROVE  Needs(c, x, h)
        <4>1. <<"assigned", x>> \in Facts(c)
          BY <3>1, <3>3 DEF Facts
        <4>. QED
          BY <3>3, <4>1 DEF Needs
      <3>. QED
        BY <1>1, <2>2, <3>1, <3>2, <3>3, ShowKeeps
    <2>3. CASE call[t].kind = "sims"
      <3>1. PICK did : did = {s \in Sims : <<call[t].by, s>> \in bound /\ Usable(s)}
        OBVIOUS
      <3>2. Answer(t, did)
        BY <1>4, <2>3, <3>1 DEF Contents
      <3>3. ASSUME NEW c \in Call, NEW h, NEW x \in did, c.kind = "sims",
                   AgentOf(c) = call[t].by, call[t].by # Nil, c.token # Nil, Facts(c) \subseteq h
            PROVE  Needs(c, x, h)
        <4>1. <<"sim", x>> \in Facts(c)
          BY <3>1, <3>3 DEF Facts
        <4>. QED
          BY <3>3, <4>1 DEF Needs
      <3>. QED
        BY <1>1, <2>3, <3>1, <3>2, <3>3, ShowKeeps
    <2>4. CASE call[t].kind = "menus"
      <3>1. PICK did : did = Own(call[t].by)
        OBVIOUS
      <3>2. Answer(t, did) /\ did \in SUBSET Menus
        BY <1>4, <2>4, <3>1 DEF Contents, Own
      <3>3. ASSUME NEW c \in Call, NEW h, NEW x \in did, c.kind = "menus", c.via = "main",
                   AgentOf(c) = call[t].by, call[t].by # Nil, c.token # Nil, Facts(c) \subseteq h
            PROVE  Needs(c, x, h)
        <4>1. <<"menu", x>> \in Facts(c)
          BY <3>1, <3>3 DEF Facts, Own
        <4>. QED
          BY <3>3, <4>1 DEF Needs
      <3>. QED
        BY <1>1, <2>4, <3>2, <3>3, ShowKeeps
    <2>. QED
      BY <1>2, <2>1, <2>2, <2>3, <2>4
  <1>. QED
    BY <1>3, <1>4 DEF ListRows

LEMMA ListByAreaKeeps ==
    ASSUME IInv, NEW t \in Threads, ListByArea(t)
    PROVE  IInv'
  <1>1. call[t] \in Call /\ Grounds(call[t], held[t], session) /\ call[t].via = "monitor"
        /\ call[t].pc = "known" /\ Watch /\ UNCHANGED rows
    BY DEF IInv, TypeOK, AllGrounded, ListByArea
  <1>2. <<"area", call[t].area>> \in held[t]
    BY <1>1 DEF Grounds, Known
  <1>3. CASE Refuse(t)
    BY <1>1, <1>3, RefuseKeeps
  <1>4. CASE call[t].kind = "menus" /\ Answer(t, OfArea(call[t].area))
    <2>1. PICK did : did = OfArea(call[t].area)
      OBVIOUS
    <2>2. Answer(t, did) /\ did \in SUBSET Menus
      BY <1>4, <2>1 DEF OfArea
    <2>3. ASSUME NEW c \in Call, NEW h, NEW x \in did, c.kind = "menus", c.via = "monitor",
                 AgentOf(c) = call[t].by, call[t].by # Nil, c.token # Nil,
                 held[t] \subseteq h, Facts(c) \subseteq h
          PROVE  Needs(c, x, h)
      <3>1. x \in Menus /\ menu[x].there /\ menu[x].area = call[t].area /\ call[t].area \in Areas
        BY <1>1, <2>1 DEF OfArea, Call
      <3>2. <<"menu", x, call[t].area>> \in Facts(c)
        BY <2>3, <3>1 DEF Facts
      <3>. QED
        BY <1>2, <2>3, <3>1, <3>2 DEF Needs
    <2>. QED
      BY <1>1, <1>4, <2>2, <2>3, ShowKeeps
  <1>5. CASE /\ call[t].kind = "conversations"
             /\ Answer(t, {x \in Contacts : SameArea(x, call[t].area)})
    <2>1. PICK did : did = {x \in Contacts : SameArea(x, call[t].area)}
      OBVIOUS
    <2>2. ASSUME NEW c \in Call, NEW h, NEW x \in did, c.kind = "conversations",
                 c.via = "monitor", held[t] \subseteq h
          PROVE  Needs(c, x, h)
      BY <1>2, <2>1, <2>2 DEF Needs, SameArea
    <2>. QED
      BY <1>1, <1>5, <2>1, <2>2, ShowKeeps
  <1>. QED
    BY <1>3, <1>4, <1>5 DEF ListByArea

LEMMA AnsweredKeeps ==
    ASSUME IInv, NEW t \in Threads, Answered(t)
    PROVE  IInv'
  <1>1. Grounds(IdleCall, held'[t], session)
    BY DEF Grounds, IdleCall
  <1>. QED
    BY <1>1, IdleType, ReadKeeps DEF Answered

LEMMA CallStepKeeps ==
    ASSUME IInv, NEW t \in Threads, CallStep(t)
    PROVE  IInv'
  BY LoginReadKeeps, LoginInsertKeeps, AskKeeps, AuthenticateKeeps, JudgeRemarkKeeps,
     WriteRemarkKeeps, JudgeConversationKeeps, ListMessagesKeeps, SendAgainKeeps, SendNewKeeps,
     ListRowsKeeps, ListByAreaKeeps, AnsweredKeeps
  DEF CallStep

-----------------------------------------------------------------------------
(* Operators, texts that come in, time *)

\* Steps that leave sessions and calls alone: only the types are to be shown.
LEMMA OperatorKeeps ==
    ASSUME IInv, Watch, UNCHANGED <<session, call>>, TypeOK'
    PROVE  IInv'
  BY RowsKeep DEF IInv, SessionStep, Given

LEMMA SaveAccountKeeps ==
    ASSUME IInv, NEW a \in Accounts, NEW active \in BOOLEAN, NEW area \in Areas \union {Nil},
           NEW sims \in SUBSET Sims, SaveAccount(a, active, area, sims)
    PROVE  IInv'
  <1>1. PICK r \in AccountRow : r = [there |-> TRUE, active |-> active, area |-> area]
    BY DEF AccountRow
  <1>2. account' \in [Accounts -> AccountRow] /\ bound' \subseteq Accounts \X Sims
    BY <1>1 DEF SaveAccount, IInv, TypeOK
  <1>. QED
    BY <1>2, OperatorKeeps DEF SaveAccount, IInv, TypeOK

LEMMA DeleteAccountKeeps ==
    ASSUME IInv, NEW a \in Accounts, DeleteAccount(a)
    PROVE  IInv'
  <1>1. account' \in [Accounts -> AccountRow] /\ bound' \subseteq Accounts \X Sims
    BY DEF DeleteAccount, IInv, TypeOK, NoAccount, AccountRow
  <1>2. \A k \in Tokens : [session[k] EXCEPT !.by = Nil] \in SessionRow
    BY DEF IInv, TypeOK, SessionRow
  <1>3. session' \in [Tokens -> SessionRow]
    BY <1>2 DEF DeleteAccount, IInv, TypeOK
  <1>4. \A m \in Menus : [menu[m] EXCEPT !.by = Nil] \in MenuRow
    BY DEF IInv, TypeOK, MenuRow
  <1>5. menu' \in [Menus -> MenuRow]
    BY <1>4 DEF DeleteAccount, IInv, TypeOK
  <1>6. \A k \in Tokens : /\ session'[k].expires = session[k].expires
                          /\ session'[k].by \in {session[k].by, Nil}
                          /\ session[k].by # a => session'[k] = session[k]
    BY DEF DeleteAccount, IInv, TypeOK, SessionRow
  <1>7. SessionStep
    BY <1>6 DEF SessionStep
  <1>8. Given'
    <2> SUFFICES ASSUME NEW k \in Tokens, session'[k] # NoSession
                 PROVE  session'[k].expires > 0
      BY DEF Given
    <2>1. CASE session[k].by = a
      <3>1. session[k] # NoSession
        BY <2>1 DEF NoSession, AgentsAssumption
      <3>. QED
        BY <1>6, <3>1 DEF IInv, Given
    <2>2. CASE session[k].by # a
      BY <1>6, <2>2 DEF IInv, Given
    <2>. QED
      BY <2>1, <2>2
  <1>9. AllGrounded'
    BY <1>7, RowsKeep DEF DeleteAccount
  <1>. QED
    BY <1>1, <1>3, <1>5, <1>8, <1>9 DEF IInv, TypeOK, DeleteAccount

LEMMA SaveSimKeeps ==
    ASSUME IInv, NEW s \in Sims, NEW enabled \in BOOLEAN, NEW unseen \in SUBSET Accounts,
           SaveSim(s, enabled, unseen)
    PROVE  IInv'
  <1>1. PICK r \in SimRow : r = [there |-> TRUE, enabled |-> enabled, active |-> enabled]
    BY DEF SimRow
  <1>2. sim' \in [Sims -> SimRow] /\ bound' \subseteq Accounts \X Sims
    BY <1>1 DEF SaveSim, IInv, TypeOK
  <1>. QED
    BY <1>2, OperatorKeeps DEF SaveSim, IInv, TypeOK

LEMMA ReportSimKeeps ==
    ASSUME IInv, NEW s \in Sims, NEW active \in BOOLEAN, ReportSim(s, active)
    PROVE  IInv'
  <1>0. sim[s] \in SimRow
    BY DEF IInv, TypeOK
  <1>1. PICK r \in SimRow : r = [sim[s] EXCEPT !.active = active]
    BY <1>0 DEF SimRow
  <1>2. sim' \in [Sims -> SimRow]
    BY <1>1 DEF ReportSim, IInv, TypeOK
  <1>. QED
    BY <1>2, OperatorKeeps DEF ReportSim, IInv, TypeOK

LEMMA DeleteSimKeeps ==
    ASSUME IInv, NEW s \in Sims, DeleteSim(s)
    PROVE  IInv'
  <1>1. PICK r \in SimRow : r = [there |-> FALSE, enabled |-> FALSE, active |-> FALSE]
    BY DEF SimRow
  <1>2. sim' \in [Sims -> SimRow] /\ bound' \subseteq Accounts \X Sims
        /\ conv' \in [Contacts -> Sims \union {Nil}]
    BY <1>1 DEF DeleteSim, IInv, TypeOK
  <1>. QED
    BY <1>2, OperatorKeeps DEF DeleteSim, IInv, TypeOK

LEMMA ContactsKeep ==
    ASSUME IInv, NEW x \in Contacts,
           (\E area \in Areas \union {Nil}, r \in Remarks \union {Nil} :
                SaveContact(x, area, r)) \/ (\E area \in Areas \union {Nil} : Inbound(x, area))
    PROVE  IInv'
  <1>1. contact[x] \in ContactRow
    BY DEF IInv, TypeOK
  <1>2. contact' \in [Contacts -> ContactRow]
    <2>1. ASSUME NEW area \in Areas \union {Nil}, NEW r \in Remarks \union {Nil},
                 SaveContact(x, area, r)
          PROVE  contact' \in [Contacts -> ContactRow]
      <3>1. PICK row \in ContactRow : row = [area |-> area, remark |-> r]
        BY DEF ContactRow
      <3>. QED
        BY <2>1, <3>1 DEF SaveContact, IInv, TypeOK
    <2>2. ASSUME NEW area \in Areas \union {Nil}, Inbound(x, area)
          PROVE  contact' \in [Contacts -> ContactRow]
      <3>1. PICK row \in ContactRow : row = [contact[x] EXCEPT !.area = area]
        BY <1>1 DEF ContactRow
      <3>. QED
        BY <2>2, <3>1 DEF Inbound, IInv, TypeOK
    <2>. QED
      BY <2>1, <2>2
  <1>. QED
    BY <1>2, OperatorKeeps DEF SaveContact, Inbound, IInv, TypeOK

LEMMA MenusKeep ==
    ASSUME IInv, NEW m \in Menus,
           (\E by \in Accounts, area \in Areas \union {Nil} : SaveMenu(m, by, area))
              \/ DeleteMenu(m)
    PROVE  IInv'
  <1>1. menu' \in [Menus -> MenuRow]
    <2>1. ASSUME NEW by \in Accounts, NEW area \in Areas \union {Nil}, SaveMenu(m, by, area)
          PROVE  menu' \in [Menus -> MenuRow]
      <3>1. PICK row \in MenuRow : row = [there |-> TRUE, by |-> by, area |-> area]
        BY DEF MenuRow
      <3>. QED
        BY <2>1, <3>1 DEF SaveMenu, IInv, TypeOK
    <2>2. CASE DeleteMenu(m)
      BY <2>2 DEF DeleteMenu, NoMenu, MenuRow, IInv, TypeOK
    <2>. QED
      BY <2>1, <2>2
  <1>. QED
    BY <1>1, OperatorKeeps DEF SaveMenu, DeleteMenu, IInv, TypeOK

LEMMA OperatorStepKeeps ==
    ASSUME IInv, OperatorStep
    PROVE  IInv'
  BY SaveAccountKeeps, DeleteAccountKeeps, SaveSimKeeps, DeleteSimKeeps, ContactsKeep, MenusKeep
  DEF OperatorStep, ContactDialog, MenuDialog

LEMMA TickKeeps ==
    ASSUME IInv, Tick
    PROVE  IInv'
  <1>1. now' \in 0 .. MaxTime
    BY DEF Tick, IInv, TypeOK, AgentsAssumption
  <1>. QED
    BY <1>1, OperatorKeeps DEF Tick, rows, IInv, TypeOK

-----------------------------------------------------------------------------
(* Theorems *)

LEMMA InitIInv == Init => IInv
  <1> SUFFICES ASSUME Init PROVE IInv
    OBVIOUS
  <1>1. TypeOK
    BY IdleType DEF Init, TypeOK, NoAccount, AccountRow, NoSession, SessionRow, SimRow,
       ContactRow, NoMenu, MenuRow, AgentsAssumption
  <1>2. Given
    BY DEF Init, Given
  <1>3. AllGrounded
    BY DEF Init, AllGrounded, Grounds, IdleCall
  <1>. QED
    BY <1>1, <1>2, <1>3 DEF IInv

LEMMA NextIInv == IInv /\ [Next]_vars => IInv'
  <1> SUFFICES ASSUME IInv, [Next]_vars PROVE IInv'
    OBVIOUS
  <1>1. CASE Next
    BY <1>1, CallStepKeeps, OperatorStepKeeps, ReportSimKeeps, ContactsKeep, TickKeeps DEF Next
  <1>2. CASE UNCHANGED vars
    BY <1>2 DEF vars, rows, IInv, TypeOK, Given, AllGrounded
  <1>. QED
    BY <1>1, <1>2

\* The inductive invariant: every call has the grounds for what it goes on to do.
THEOREM Invariance == Spec => []IInv
  BY InitIInv, NextIInv, PTL DEF Spec

\* Type correctness of the agents' rows and calls.
THEOREM TypeCorrect == Spec => []TypeOK
  <1>1. IInv => TypeOK
    BY DEF IInv
  <1>. QED
    BY <1>1, Invariance, PTL

\* A call shows and does only what its agent was entitled to while it ran.
THEOREM Entitled == Spec => []EntitledDuringCall
  <1>1. IInv => EntitledDuringCall
    BY DEF IInv, AllGrounded, Grounds, Shown, EntitledDuringCall
  <1>. QED
    BY <1>1, Invariance, PTL

\* A remark answered ok is written, unless its contact moved meanwhile.
THEOREM RemarkWritten == Spec => []RemarkOkIsWritten
  <1>1. ASSUME IInv, NEW t \in Threads, call[t].pc = "done", call[t].ok,
               call[t].kind = "remark", call[t].did = {}
        PROVE  \E x, y \in Areas \union {Nil} : x # y /\
                  {<<"contact", call[t].on, x>>, <<"contact", call[t].on, y>>} \subseteq held[t]
    <2>1. Shown(call[t], held[t])
      BY <1>1 DEF IInv, AllGrounded, Grounds
    <2>2. PICK x, y \in Areas \union {Nil} : x # y /\
             <<"contact", call[t].on, x>> \in held[t] /\ <<"contact", call[t].on, y>> \in held[t]
      BY <1>1, <2>1 DEF Shown
    <2>. QED
      BY <2>2
  <1>2. IInv => RemarkOkIsWritten
    BY <1>1 DEF RemarkOkIsWritten
  <1>. QED
    BY <1>2, Invariance, PTL

=============================================================================
