--------------------------- MODULE RegistryProofs ---------------------------
(***************************************************************************)
(* Registry's invariants, for any devices, SIMs, lists, accounts, threads  *)
(* and pages: unregistered devices have no rows, no number of a SIM is     *)
(* lost, an account's main SIM is bound to it and its SIMs come from one   *)
(* save, unless a save that did not find the account bound it; and only    *)
(* the dialog of a SIM changes whether it is enabled.                      *)
(*                                                                         *)
(* Every statement on sim_cards goes through WriteSims, which is shown     *)
(* once to keep all of it (WriteKeeps).  What is left is the overlap of    *)
(* two saves of an account: one at a time has written its row, and what it *)
(* deleted is still all the account has when it commits, unless the        *)
(* account is torn by then (Exclusive).                                    *)
(***************************************************************************)
EXTENDS Registry, TLAPS

USE RegistryAssumption DEF RegistryAssumption

-----------------------------------------------------------------------------
(* The inductive invariant *)

\* Dialogs are about a row, updates about a device.
CallFilled(c) == c.pc = "update" => c.dev \in Devices

PageFilled(g) ==
    /\ g.at \in {"sim", "disabling"} => g.sim \in SimIds
    /\ g.at \in {"account", "missed", "clearing", "binding"} => g.account \in Accounts

Filled == (\A t \in Threads : CallFilled(call[t])) /\ (\A p \in Pages : PageFilled(page[p]))

\* A page whose save has written the account's row
Holds(g) == g.at \in {"clearing", "binding"} /\ g.found

\* Such a page deletes all the account is bound to, unless it is torn, and no other
\* page has written the same row.
Exclusive == \A p \in Pages : Holds(page[p]) =>
    /\ \/ page[p].account \in torn
       \/ \A s \in SimIds : <<page[p].account, s>> \in bound => s \in page[p].old
    /\ \A q \in Pages : Holds(page[q]) /\ page[q].account = page[p].account => q = p

\* Rows belong to devices.
Owned == \A s \in SimIds : sim[s].there => sim[s].dev \in Devices

IInv == /\ TypeOK /\ Filled /\ Exclusive /\ Owned
        /\ GoneIsBare /\ NumbersKept /\ MainIsBound /\ SavedWhole

-----------------------------------------------------------------------------
(* Records *)

LEMMA SimRecord ==
    ASSUME NEW x \in SimRow
    PROVE  /\ \A v \in Numbers : [x EXCEPT !.number = v] \in SimRow
           /\ \A v \in Phones \union {Nil} : [x EXCEPT !.phone = v] \in SimRow
           /\ \A v \in Cards \union {Nil} : [x EXCEPT !.card = v] \in SimRow
           /\ \A v \in BOOLEAN : [x EXCEPT !.enabled = v] \in SimRow
           /\ \A v \in {"active", "inactive", "disabled"} : [x EXCEPT !.status = v] \in SimRow
  BY DEF SimRow

LEMMA PageRecord ==
    ASSUME NEW x \in Page
    PROVE  /\ \A v \in {"table", "sim", "account", "disabling", "missed", "clearing", "binding"} :
                 [x EXCEPT !.at = v] \in Page
           /\ \A v \in SimIds : [x EXCEPT !.sim = v] \in Page
           /\ \A v \in Accounts : [x EXCEPT !.account = v] \in Page
           /\ \A v \in BOOLEAN : [x EXCEPT !.new = v] \in Page
           /\ \A v \in BOOLEAN : [x EXCEPT !.found = v] \in Page
           /\ \A v \in SUBSET SimIds : [x EXCEPT !.sims = v] \in Page
           /\ \A v \in SUBSET SimIds : [x EXCEPT !.old = v] \in Page
           /\ \A v \in SUBSET Accounts : [x EXCEPT !.seen = v] \in Page
  BY DEF Page

LEMMA TablePageType == TablePage \in Page /\ TablePage.at = "table"
  BY DEF TablePage, Page

LEMMA NoSimType == NoSim \in SimRow /\ ~NoSim.there
  BY DEF NoSim, SimRow

LEMMA EditedType ==
    ASSUME NEW x \in SimRow, NEW ph \in Phones \union {Nil}, NEW e \in BOOLEAN
    PROVE  /\ Edited(x, ph, e) \in SimRow
           /\ Edited(x, ph, e).there = x.there /\ Edited(x, ph, e).dev = x.dev
           /\ Edited(x, ph, e).phone = ph /\ Edited(x, ph, e).card = x.card
  <1>1. PICK u \in SimRow : u = [x EXCEPT !.phone = ph]
    BY SimRecord
  <1>2. PICK v \in SimRow : v = [u EXCEPT !.enabled = e]
    BY SimRecord
  <1>3. PICK st \in {"active", "disabled"} : st = IF e THEN "active" ELSE "disabled"
    OBVIOUS
  <1>4. PICK w \in SimRow : w = [v EXCEPT !.status = st]
    BY SimRecord
  <1>5. w = Edited(x, ph, e)
    BY <1>1, <1>2, <1>3, <1>4 DEF Edited, SimRow
  <1>. QED
    BY <1>1, <1>2, <1>4, <1>5 DEF SimRow

LEMMA UpsertedType ==
    ASSUME NEW x \in SimRow, NEW i \in Item
    PROVE  /\ Upserted(x, i) \in SimRow
           /\ Upserted(x, i).there = x.there /\ Upserted(x, i).dev = x.dev
           /\ Upserted(x, i).enabled = x.enabled
  <1>1. i.number \in Numbers /\ i.phone \in Phones \union {Nil} /\ i.card \in Cards \union {Nil}
    BY DEF Item
  <1>2. PICK u \in SimRow : u = [x EXCEPT !.number = i.number]
    BY <1>1, SimRecord
  <1>3. PICK v \in SimRow : v = [u EXCEPT !.phone = i.phone]
    BY <1>1, SimRecord
  <1>4. PICK w \in SimRow : w = [v EXCEPT !.card = i.card]
    BY <1>1, SimRecord
  <1>5. PICK y \in SimRow : y = [w EXCEPT !.status = "active"]
    BY SimRecord
  <1>6. y = Upserted(x, i)
    BY <1>2, <1>3, <1>4, <1>5 DEF Upserted, SimRow
  <1>7. /\ u.there = x.there /\ u.dev = x.dev /\ u.enabled = x.enabled
        /\ v.there = u.there /\ v.dev = u.dev /\ v.enabled = u.enabled
    BY <1>2, <1>3 DEF SimRow
  <1>8. /\ w.there = v.there /\ w.dev = v.dev /\ w.enabled = v.enabled
        /\ y.there = w.there /\ y.dev = w.dev /\ y.enabled = w.enabled
    BY <1>4, <1>5 DEF SimRow
  <1>. QED
    BY <1>6, <1>7, <1>8

LEMMA BornType ==
    ASSUME NEW d \in Devices, NEW i \in Item
    PROVE  Born(d, i) \in SimRow /\ Born(d, i).dev = d
  BY DEF Born, Item, SimRow

\* What a report makes of each row.
LEMMA ReportedRows ==
    ASSUME TypeOK, NEW d \in Devices, NEW l \in Lists, NEW id \in Ids(d, l), NEW s \in SimIds
    PROVE  /\ Reported(d, l, id)[s] \in SimRow
           /\ sim[s].there => /\ Reported(d, l, id)[s].there
                              /\ Reported(d, l, id)[s].dev = sim[s].dev
                              /\ Reported(d, l, id)[s].enabled = sim[s].enabled
           /\ ~sim[s].there /\ Reported(d, l, id)[s].there => Reported(d, l, id)[s].dev = d
  <1>1. sim[s] \in SimRow /\ l \in Seq(Item)
    BY DEF TypeOK, RegistryAssumption
  <1>2. \A i \in DOMAIN l : l[i] \in Item
    BY <1>1
  <1>3. CASE sim[s].there /\ sim[s].dev # d
    BY <1>1, <1>3 DEF Reported
  <1>4. CASE sim[s].there /\ sim[s].dev = d /\ ItemFor(l, sim[s].slot) = {}
    <2>1. PICK y \in SimRow : y = [sim[s] EXCEPT !.status = "inactive"]
      BY <1>1, SimRecord
    <2>2. Reported(d, l, id)[s] = y
      BY <1>4, <2>1 DEF Reported
    <2>. QED
      BY <1>1, <1>4, <2>1, <2>2 DEF SimRow
  <1>5. CASE sim[s].there /\ sim[s].dev = d /\ ItemFor(l, sim[s].slot) # {}
    <2>1. PICK i : i = CHOOSE j \in ItemFor(l, sim[s].slot) : TRUE
      OBVIOUS
    <2>2. i \in DOMAIN l
      BY <1>5, <2>1 DEF ItemFor
    <2>3. Reported(d, l, id)[s] = Upserted(sim[s], l[i])
      BY <1>5, <2>1 DEF Reported
    <2>. QED
      BY <1>1, <1>2, <1>5, <2>2, <2>3, UpsertedType
  <1>6. CASE ~sim[s].there
    <2>1. CASE \E i \in DOMAIN id : id[i] = s
      <3>1. PICK i : i = CHOOSE j \in DOMAIN id : id[j] = s
        OBVIOUS
      <3>2. i \in DOMAIN l
        BY <2>1, <3>1 DEF Ids, Missing
      <3>3. Reported(d, l, id)[s] = Born(d, l[i])
        BY <1>6, <2>1, <3>1 DEF Reported
      <3>. QED
        BY <1>2, <1>6, <3>2, <3>3, BornType
    <2>2. CASE ~\E i \in DOMAIN id : id[i] = s
      BY <1>1, <1>6, <2>2 DEF Reported
    <2>. QED
      BY <2>1, <2>2
  <1>. QED
    BY <1>3, <1>4, <1>5, <1>6

LEMMA ReportedType ==
    ASSUME TypeOK, NEW d \in Devices, NEW l \in Lists, NEW id \in Ids(d, l)
    PROVE  Reported(d, l, id) \in [SimIds -> SimRow]
  <1>1. \A s \in SimIds : Reported(d, l, id)[s] \in SimRow
    BY ReportedRows
  <1>2. PICK f : f = Reported(d, l, id)
    OBVIOUS
  <1>3. DOMAIN f = SimIds /\ f = [s \in DOMAIN f |-> f[s]]
    BY <1>2 DEF Reported
  <1>. QED
    BY <1>1, <1>2, <1>3

-----------------------------------------------------------------------------
(* Statements on sim_cards *)

LEMMA WriteKeeps ==
    ASSUME IInv, NEW new \in [SimIds -> SimRow], WriteSims(new), UNCHANGED <<wanted, torn>>
    PROVE  /\ sim' \in [SimIds -> SimRow] /\ history' \subseteq Archive
           /\ account' \in [Accounts -> AccountRow] /\ bound' \subseteq bound
           /\ said' \in [SimIds -> SUBSET Phones]
           /\ NumbersKept' /\ MainIsBound' /\ SavedWhole'
  <1> DEFINE gone == {s \in SimIds : sim[s].there /\ ~new[s].there}
             over == {s \in SimIds : sim[s].there /\ new[s].there /\ Replaces(sim[s], new[s])}
  <1>1. /\ sim' = new
        /\ history' = history
              \union {<<s, sim[s].phone, sim[s].card, "DELETED">> : s \in gone}
              \union {<<s, sim[s].phone, sim[s].card, "REPLACED">> : s \in over}
        /\ bound' = {b \in bound : b[2] \notin gone}
        /\ account' = [a \in Accounts |-> IF account[a].main \in gone
              THEN [account[a] EXCEPT !.main = Nil] ELSE account[a]]
        /\ said' = [s \in SimIds |-> said[s] \union
              (IF new[s].there /\ new[s].phone # Nil THEN {new[s].phone} ELSE {})]
    BY DEF WriteSims
  <1>2. \A s \in SimIds : sim[s] \in SimRow /\ new[s] \in SimRow
    BY DEF IInv, TypeOK
  <1>3. history' \subseteq Archive
    BY <1>1, <1>2 DEF IInv, TypeOK, Archive, SimRow
  <1>4. said' \in [SimIds -> SUBSET Phones]
    BY <1>1, <1>2 DEF IInv, TypeOK, SimRow
  <1>5. \A a \in Accounts : /\ account'[a] \in AccountRow
                            /\ account'[a].there = account[a].there
                            /\ account'[a].main # Nil => account'[a].main = account[a].main
                                                         /\ account[a].main \notin gone
    BY <1>1 DEF IInv, TypeOK, AccountRow
  <1>6. account' \in [Accounts -> AccountRow]
    BY <1>1, <1>5
  <1>7. NumbersKept'
    <2> SUFFICES ASSUME NEW s \in SimIds, NEW n \in Phones, n \in said'[s]
                 PROVE  \/ sim'[s].there /\ sim'[s].phone = n
                        \/ \E h \in history' : h[1] = s /\ h[2] = n
      BY DEF NumbersKept
    <2>1. CASE n \notin said[s]
      BY <1>1, <2>1 DEF IInv, TypeOK
    <2>2. CASE n \in said[s] /\ \E h \in history : h[1] = s /\ h[2] = n
      BY <1>1, <2>2
    <2>3. CASE sim[s].there /\ sim[s].phone = n /\ ~new[s].there
      <3>1. <<s, n, sim[s].card, "DELETED">> \in history'
        BY <1>1, <2>3
      <3>. QED
        BY <3>1
    <2>4. CASE sim[s].there /\ sim[s].phone = n /\ new[s].there /\ new[s].phone # n
      <3>1. s \in over
        BY <2>4 DEF Replaces, RegistryAssumption
      <3>2. <<s, n, sim[s].card, "REPLACED">> \in history'
        BY <1>1, <2>4, <3>1
      <3>. QED
        BY <3>2
    <2>5. CASE new[s].there /\ new[s].phone = n
      BY <1>1, <2>5
    <2>. QED
      BY <2>1, <2>2, <2>3, <2>4, <2>5 DEF IInv, NumbersKept
  <1>8. MainIsBound'
    BY <1>1, <1>5 DEF IInv, MainIsBound
  <1>9. SavedWhole'
    BY <1>1, <1>5 DEF IInv, SavedWhole
  <1>. QED
    BY <1>1, <1>3, <1>4, <1>6, <1>7, <1>8, <1>9

-----------------------------------------------------------------------------
(* Calls and pages *)

LEMMA BecomeKeeps ==
    ASSUME IInv, NEW t \in Threads, NEW c \in Call, Become(t, c), CallFilled(c)
    PROVE  call' \in [Threads -> Call] /\ \A u \in Threads : CallFilled(call'[u])
  BY DEF Become, IInv, TypeOK, Filled

LEMMA IdleType == IdleCall \in Call /\ CallFilled(IdleCall)
  BY DEF IdleCall, Call, CallFilled

LEMMA EndKeeps ==
    ASSUME IInv, NEW t \in Threads, End(t)
    PROVE  call' \in [Threads -> Call] /\ \A u \in Threads : CallFilled(call'[u])
  BY IdleType, BecomeKeeps DEF End

\* Bindings taken away, which pages may forget, and pages that hold no row that
\* they did not hold leave Exclusive as it is.
LEMMA ExclusiveKeeps ==
    ASSUME IInv,
           \A q \in Pages : Holds(page'[q]) =>
               /\ Holds(page[q]) /\ page'[q].account = page[q].account
               /\ page[q].account \in torn => page[q].account \in torn'
               /\ \/ page[q].account \in torn'
                  \/ \A s \in SimIds : <<page[q].account, s>> \in bound' =>
                        /\ <<page[q].account, s>> \in bound
                        /\ s \in page[q].old => s \in page'[q].old
    PROVE  Exclusive'
  <1> SUFFICES ASSUME NEW p \in Pages, Holds(page'[p])
               PROVE  /\ \/ page'[p].account \in torn'
                         \/ \A s \in SimIds : <<page'[p].account, s>> \in bound' =>
                               s \in page'[p].old
                      /\ \A q \in Pages : Holds(page'[q]) /\ page'[q].account = page'[p].account
                            => q = p
    BY DEF Exclusive, Holds
  <1>1. \A q \in Pages : Holds(page'[q]) => Holds(page[q]) /\ page'[q].account = page[q].account
    OBVIOUS
  <1>2. \/ page[p].account \in torn
        \/ \A s \in SimIds : <<page[p].account, s>> \in bound => s \in page[p].old
    BY DEF IInv, Exclusive
  <1>3. \A q \in Pages : Holds(page[q]) /\ page[q].account = page[p].account => q = p
    BY DEF IInv, Exclusive
  <1>. QED
    BY <1>1, <1>2, <1>3

\* Pages that forget rows
LEMMA ForgetType ==
    ASSUME IInv, NEW q \in Pages, NEW rows \in SUBSET (Accounts \X SimIds)
    PROVE  /\ Forget(q, rows) \in Page
           /\ Forget(q, rows).at = page[q].at /\ Forget(q, rows).sim = page[q].sim
           /\ Forget(q, rows).account = page[q].account /\ Forget(q, rows).found = page[q].found
           /\ \A s \in SimIds : s \in Forget(q, rows).old <=>
                    s \in page[q].old /\ <<page[q].account, s>> \notin rows
  <1>1. page[q] \in Page
    BY DEF IInv, TypeOK
  <1>2. PICK old \in SUBSET SimIds : old = {s \in page[q].old : <<page[q].account, s>> \notin rows}
    BY <1>1 DEF Page
  <1>3. PICK seen \in SUBSET Accounts : seen = {a \in page[q].seen : <<a, page[q].sim>> \notin rows}
    BY <1>1 DEF Page
  <1>4. Forget(q, rows) = [page[q] EXCEPT !.old = old, !.seen = seen]
    BY <1>2, <1>3 DEF Forget
  <1>5. PICK u \in Page : u = [page[q] EXCEPT !.old = old]
    BY <1>1, PageRecord
  <1>6. PICK v \in Page : v = [u EXCEPT !.seen = seen]
    BY PageRecord
  <1>7. v = Forget(q, rows)
    BY <1>1, <1>4, <1>5, <1>6 DEF Page
  <1>. QED
    <2>1. /\ u.at = page[q].at /\ u.sim = page[q].sim /\ u.account = page[q].account
          /\ u.found = page[q].found /\ u.old = old
      BY <1>1, <1>5 DEF Page
    <2>2. /\ v.at = u.at /\ v.sim = u.sim /\ v.account = u.account
          /\ v.found = u.found /\ v.old = u.old
      BY <1>6 DEF Page
    <2>. QED
      BY <1>2, <1>7, <2>1, <2>2

\* A page that ends, and the others, which forget rows.
LEMMA ForgetKeeps ==
    ASSUME IInv, NEW p \in Pages, NEW rows \in SUBSET (Accounts \X SimIds),
           page' = [q \in Pages |-> IF q = p THEN TablePage ELSE Forget(q, rows)]
    PROVE  /\ page' \in [Pages -> Page] /\ \A q \in Pages : PageFilled(page'[q])
           /\ page'[p].at = "table"
           /\ \A q \in Pages : Holds(page'[q]) =>
                 /\ q # p /\ Holds(page[q]) /\ page'[q].account = page[q].account
                 /\ \A s \in SimIds : s \in page'[q].old <=>
                          s \in page[q].old /\ <<page[q].account, s>> \notin rows
  <1>1. page'[p] = TablePage /\ \A q \in Pages : q # p => page'[q] = Forget(q, rows)
    OBVIOUS
  <1>2. \A q \in Pages : page'[q] \in Page
    BY <1>1, ForgetType, TablePageType
  <1>3. PICK g : g = page'
    OBVIOUS
  <1>4. DOMAIN g = Pages /\ g = [q \in DOMAIN g |-> g[q]]
    BY <1>3
  <1>5. page' \in [Pages -> Page]
    BY <1>2, <1>3, <1>4
  <1>6. ASSUME NEW q \in Pages
        PROVE  PageFilled(page'[q])
    <2>1. CASE q = p
      BY <1>1, <2>1, TablePageType DEF PageFilled
    <2>2. CASE q # p
      <3>1. /\ page'[q].at = page[q].at /\ page'[q].sim = page[q].sim
            /\ page'[q].account = page[q].account
        BY <1>1, <2>2, ForgetType
      <3>. QED
        BY <3>1 DEF PageFilled, IInv, Filled
    <2>. QED
      BY <2>1, <2>2
  <1>7. ASSUME NEW q \in Pages, Holds(page'[q])
        PROVE  /\ q # p /\ Holds(page[q]) /\ page'[q].account = page[q].account
               /\ \A s \in SimIds : s \in page'[q].old <=>
                        s \in page[q].old /\ <<page[q].account, s>> \notin rows
    <2>1. q # p
      BY <1>1, <1>7, TablePageType DEF Holds
    <2>. QED
      BY <1>1, <1>7, <2>1, ForgetType DEF Holds
  <1>. QED
    BY <1>1, <1>5, <1>6, <1>7, TablePageType

LEMMA ShowKeeps ==
    ASSUME IInv, NEW p \in Pages, NEW x \in Page, Show(p, x), PageFilled(x),
           ~Holds(x), bound' \subseteq bound, UNCHANGED torn
    PROVE  /\ page' \in [Pages -> Page] /\ Exclusive'
           /\ \A q \in Pages : PageFilled(page'[q])
  <1>1. page' \in [Pages -> Page] /\ page'[p] = x
        /\ \A q \in Pages : q # p => page'[q] = page[q]
    BY DEF Show, IInv, TypeOK
  <1>2. \A q \in Pages : PageFilled(page'[q])
    BY <1>1 DEF IInv, Filled
  <1>3. \A q \in Pages : Holds(page'[q]) => page'[q] = page[q]
    BY <1>1
  <1>. QED
    BY <1>1, <1>2, <1>3, ExclusiveKeeps

\* Steps that change no row.
LEMMA TableKeeps ==
    ASSUME IInv, UNCHANGED <<table, said, wanted, torn>>,
           call' \in [Threads -> Call], \A u \in Threads : CallFilled(call'[u]),
           page' \in [Pages -> Page], \A q \in Pages : PageFilled(page'[q]),
           Exclusive'
    PROVE  IInv'
  BY DEF IInv, TypeOK, Filled, Owned, table, GoneIsBare, NumbersKept, MainIsBound, SavedWhole

LEMMA CallKeeps ==
    ASSUME IInv, UNCHANGED <<table, page, said, wanted, torn>>,
           call' \in [Threads -> Call], \A u \in Threads : CallFilled(call'[u])
    PROVE  IInv'
  <1>1. Exclusive'
    BY ExclusiveKeeps DEF table
  <1>. QED
    BY <1>1, TableKeeps DEF IInv, TypeOK, Filled

LEMMA DialogKeeps ==
    ASSUME IInv, UNCHANGED <<table, call, said, wanted, torn>>,
           NEW p \in Pages, NEW x \in Page, Show(p, x), PageFilled(x), ~Holds(x)
    PROVE  IInv'
  <1>1. page' \in [Pages -> Page] /\ Exclusive' /\ \A q \in Pages : PageFilled(page'[q])
    BY ShowKeeps DEF table
  <1>. QED
    BY <1>1, TableKeeps DEF IInv, TypeOK, Filled

-----------------------------------------------------------------------------
(* Devices *)

LEMMA EnterKeeps ==
    ASSUME IInv, NEW t \in Threads, NEW d \in Devices, UpdateEnter(t, d)
    PROVE  IInv'
  <1>1. [pc |-> "update", dev |-> d] \in Call
    BY DEF Call
  <1>2. PICK c \in Call : c = [pc |-> "update", dev |-> d]
    BY <1>1, Zenon
  <1>3. CallFilled(c) /\ Become(t, c)
    BY <1>2 DEF CallFilled, UpdateEnter
  <1>. QED
    BY <1>3, BecomeKeeps, CallKeeps DEF UpdateEnter

LEMMA RegisterKeeps ==
    ASSUME IInv, NEW t \in Threads, Register(t)
    PROVE  IInv'
  <1>1. PICK d \in Devices :
          /\ device[d] = "unknown"
          /\ device' = [device EXCEPT ![d] = "registered"]
          /\ \E l \in Lists : \E id \in Ids(d, l) : WriteSims(Reported(d, l, id))
    BY DEF Register
  <1>2. PICK l \in Lists : \E id \in Ids(d, l) : WriteSims(Reported(d, l, id))
    BY <1>1
  <1>3. PICK id \in Ids(d, l) : WriteSims(Reported(d, l, id))
    BY <1>2
  <1>4. PICK new \in [SimIds -> SimRow] : new = Reported(d, l, id)
    BY ReportedType DEF IInv
  <1>5. WriteSims(new) /\ UNCHANGED <<wanted, torn>> /\ sim' = new
    BY <1>3, <1>4 DEF Register, WriteSims
  <1>6. /\ sim' \in [SimIds -> SimRow] /\ history' \subseteq Archive
        /\ account' \in [Accounts -> AccountRow] /\ bound' \subseteq bound
        /\ said' \in [SimIds -> SUBSET Phones]
        /\ NumbersKept' /\ MainIsBound' /\ SavedWhole'
    BY <1>5, WriteKeeps
  <1>7. /\ device' \in [Devices -> {"unknown", "registered", "unregistered"}]
        /\ device'[d] = "registered"
        /\ \A e \in Devices : device[e] = "registered" => device'[e] = "registered"
    BY <1>1 DEF IInv, TypeOK
  <1>8. GoneIsBare' /\ Owned'
    <2> SUFFICES ASSUME NEW s \in SimIds, new[s].there
                 PROVE  new[s].dev \in Devices /\ device'[new[s].dev] = "registered"
      BY <1>5 DEF GoneIsBare, Owned
    <2>1. CASE sim[s].there
      <3>1. new[s].dev = sim[s].dev
        BY <1>4, <2>1, ReportedRows DEF IInv
      <3>. QED
        BY <1>7, <2>1, <3>1 DEF IInv, GoneIsBare, Owned
    <2>2. CASE ~sim[s].there
      <3>1. new[s].dev = d
        BY <1>4, <2>2, ReportedRows DEF IInv
      <3>. QED
        BY <1>7, <3>1
    <2>. QED
      BY <2>1, <2>2
  <1>9. Exclusive'
    BY <1>6, ExclusiveKeeps DEF Register
  <1>. QED
    BY <1>6, <1>7, <1>8, <1>9 DEF IInv, TypeOK, Filled, Register

LEMMA UpdateKeeps ==
    ASSUME IInv, NEW t \in Threads, Update(t)
    PROVE  IInv'
  <1>1. PICK d \in Devices : d = call[t].dev
    BY DEF Update, IInv, Filled, CallFilled
  <1>2. device[d] = "registered"
    BY <1>1 DEF Update, Enabled
  <1>3. PICK l \in Lists : \E id \in Ids(d, l) : WriteSims(Reported(d, l, id))
    BY <1>1 DEF Update
  <1>4. PICK id \in Ids(d, l) : WriteSims(Reported(d, l, id))
    BY <1>3
  <1>5. PICK new \in [SimIds -> SimRow] : new = Reported(d, l, id)
    BY ReportedType DEF IInv
  <1>6. WriteSims(new) /\ UNCHANGED <<wanted, torn>> /\ sim' = new
    BY <1>4, <1>5 DEF Update, WriteSims
  <1>7. /\ sim' \in [SimIds -> SimRow] /\ history' \subseteq Archive
        /\ account' \in [Accounts -> AccountRow] /\ bound' \subseteq bound
        /\ said' \in [SimIds -> SUBSET Phones]
        /\ NumbersKept' /\ MainIsBound' /\ SavedWhole'
    BY <1>6, WriteKeeps
  <1>8. GoneIsBare' /\ Owned'
    <2> SUFFICES ASSUME NEW s \in SimIds, new[s].there
                 PROVE  new[s].dev \in Devices /\ device[new[s].dev] = "registered"
      BY <1>6 DEF GoneIsBare, Owned, Update
    <2>1. CASE sim[s].there
      <3>1. new[s].dev = sim[s].dev
        BY <1>5, <2>1, ReportedRows DEF IInv
      <3>. QED
        BY <2>1, <3>1 DEF IInv, GoneIsBare, Owned
    <2>2. CASE ~sim[s].there
      <3>1. new[s].dev = d
        BY <1>5, <2>2, ReportedRows DEF IInv
      <3>. QED
        BY <1>2, <3>1
    <2>. QED
      BY <2>1, <2>2
  <1>9. call' \in [Threads -> Call] /\ \A u \in Threads : CallFilled(call'[u])
    BY EndKeeps DEF Update
  <1>10. Exclusive'
    BY <1>7, ExclusiveKeeps DEF Update
  <1>. QED
    BY <1>7, <1>8, <1>9, <1>10 DEF IInv, TypeOK, Filled, Update

LEMMA DeviceStepKeeps ==
    ASSUME IInv, NEW t \in Threads, DeviceStep(t)
    PROVE  IInv'
  <1>1. CASE UpdateRefused(t)
    BY <1>1, EndKeeps, CallKeeps DEF UpdateRefused
  <1>2. CASE Collide(t)
    BY <1>2, EndKeeps, CallKeeps DEF Collide
  <1>. QED
    BY <1>1, <1>2, EnterKeeps, RegisterKeeps, UpdateKeeps DEF DeviceStep

-----------------------------------------------------------------------------
(* Dialogs *)

LEMMA OpenSimKeeps ==
    ASSUME IInv, NEW p \in Pages, NEW s \in SimIds, OpenSim(p, s)
    PROVE  IInv'
  <1>1. PICK u \in Page : u = [TablePage EXCEPT !.at = "sim"]
    BY TablePageType, PageRecord
  <1>2. PICK x \in Page : x = [u EXCEPT !.sim = s]
    BY PageRecord
  <1>3. x = [TablePage EXCEPT !.at = "sim", !.sim = s] /\ x.at = "sim" /\ x.sim = s
    BY <1>1, <1>2 DEF TablePage
  <1>4. PageFilled(x) /\ Show(p, x) /\ ~Holds(x)
    BY <1>3 DEF PageFilled, OpenSim, Holds
  <1>. QED
    BY <1>4, DialogKeeps DEF OpenSim

LEMMA CloseKeeps ==
    ASSUME IInv, NEW p \in Pages, Close(p)
    PROVE  IInv'
  <1>1. PageFilled(TablePage) /\ ~Holds(TablePage)
    BY TablePageType DEF PageFilled, Holds
  <1>. QED
    BY <1>1, TablePageType, DialogKeeps DEF Close

LEMMA DisableSimKeeps ==
    ASSUME IInv, NEW p \in Pages, DisableSim(p)
    PROVE  IInv'
  <1>1. page[p] \in Page /\ page[p].at = "sim" /\ page[p].sim \in SimIds
    BY DEF DisableSim, IInv, TypeOK, Filled, PageFilled
  <1>2. PICK seen \in SUBSET Accounts : seen = {a \in Accounts : <<a, page[p].sim>> \in bound}
    OBVIOUS
  <1>3. Show(p, [page[p] EXCEPT !.at = "disabling", !.seen = seen])
    BY <1>2 DEF DisableSim
  <1>4. PICK u \in Page : u = [page[p] EXCEPT !.at = "disabling"]
    BY <1>1, PageRecord
  <1>5. PICK x \in Page : x = [u EXCEPT !.seen = seen]
    BY PageRecord
  <1>6. x = [page[p] EXCEPT !.at = "disabling", !.seen = seen]
        /\ x.at = "disabling" /\ x.sim = page[p].sim
    BY <1>1, <1>4, <1>5 DEF Page
  <1>7. PageFilled(x) /\ Show(p, x) /\ ~Holds(x)
    BY <1>1, <1>3, <1>6 DEF PageFilled, Holds
  <1>. QED
    BY <1>7, DialogKeeps DEF DisableSim

LEMMA OpenAccountKeeps ==
    ASSUME IInv, NEW p \in Pages, NEW a \in Accounts, NEW new \in BOOLEAN, OpenAccount(p, a, new)
    PROVE  IInv'
  <1>1. Listed(a) \subseteq SimIds
    BY DEF Listed, IInv, TypeOK, AccountRow
  <1>2. PICK offered \in SUBSET SimIds :
          offered = {s \in SimIds : MayBind(s)} \union (IF new THEN {} ELSE Listed(a))
    BY <1>1
  <1>3. PICK chosen \in SUBSET SimIds :
          Show(p, [TablePage EXCEPT !.at = "account", !.account = a, !.new = new, !.sims = chosen])
    BY <1>2 DEF OpenAccount
  <1>4. PICK u \in Page : u = [TablePage EXCEPT !.at = "account"]
    BY TablePageType, PageRecord
  <1>5. PICK v \in Page : v = [u EXCEPT !.account = a]
    BY PageRecord
  <1>6. PICK w \in Page : w = [v EXCEPT !.new = new]
    BY PageRecord
  <1>7. PICK x \in Page : x = [w EXCEPT !.sims = chosen]
    BY PageRecord
  <1>8. x = [TablePage EXCEPT !.at = "account", !.account = a, !.new = new, !.sims = chosen]
        /\ x.at = "account" /\ x.account = a
    BY <1>4, <1>5, <1>6, <1>7 DEF TablePage
  <1>9. PageFilled(x) /\ Show(p, x) /\ ~Holds(x)
    BY <1>3, <1>8 DEF PageFilled, Holds
  <1>. QED
    BY <1>9, DialogKeeps DEF OpenAccount

LEMMA FailKeeps ==
    ASSUME IInv, NEW p \in Pages, Fail(p)
    PROVE  IInv'
  <1>1. page[p] \in Page /\ PageFilled(page[p]) /\ page[p].at \in Saving
    BY DEF Fail, IInv, TypeOK, Filled
  <1>2. PICK at \in {"account", "sim"} :
          at = IF page[p].at = "disabling" THEN "sim" ELSE "account"
    OBVIOUS
  <1>3. PICK u \in Page : u = [page[p] EXCEPT !.at = at]
    BY <1>1, PageRecord
  <1>4. PICK v \in Page : v = [u EXCEPT !.found = FALSE]
    BY PageRecord
  <1>5. PICK w \in Page : w = [v EXCEPT !.old = {}]
    BY PageRecord
  <1>6. PICK x \in Page : x = [w EXCEPT !.seen = {}]
    BY PageRecord
  <1>7. x = [page[p] EXCEPT !.at = at, !.found = FALSE, !.old = {}, !.seen = {}]
        /\ x.at = at /\ x.sim = page[p].sim /\ x.account = page[p].account
    BY <1>1, <1>3, <1>4, <1>5, <1>6 DEF Page
  <1>8. Show(p, x)
    BY <1>2, <1>7 DEF Fail
  <1>9. PageFilled(x) /\ ~Holds(x)
    BY <1>1, <1>2, <1>7 DEF PageFilled, Holds, Saving
  <1>. QED
    BY <1>8, <1>9, DialogKeeps DEF Fail

-----------------------------------------------------------------------------
(* Saves of SIMs and devices *)

LEMMA TableFilled == PageFilled(TablePage) /\ ~Holds(TablePage)
  BY TablePageType DEF PageFilled, Holds

LEMMA SaveSimKeeps ==
    ASSUME IInv, NEW p \in Pages, SaveSim(p)
    PROVE  IInv'
  <1>1. PICK s \in SimIds : s = page[p].sim
    BY DEF SaveSim, IInv, Filled, PageFilled
  <1>2. PICK ph \in Typed :
          WriteSims([sim EXCEPT ![s] = IF @.there THEN Edited(@, ph, TRUE) ELSE @])
    BY <1>1 DEF SaveSim
  <1>3. ph \in Phones \union {Nil} /\ sim[s] \in SimRow
    BY DEF Typed, IInv, TypeOK
  <1>4. PICK row : row = IF sim[s].there THEN Edited(sim[s], ph, TRUE) ELSE sim[s]
    OBVIOUS
  <1>5. row \in SimRow /\ row.there = sim[s].there /\ row.dev = sim[s].dev
    BY <1>3, <1>4, EditedType
  <1>6. PICK new \in [SimIds -> SimRow] : new = [sim EXCEPT ![s] = row]
    BY <1>5 DEF IInv, TypeOK
  <1>7. new = [sim EXCEPT ![s] = IF @.there THEN Edited(@, ph, TRUE) ELSE @]
    BY <1>4, <1>6
  <1>8. PICK f : /\ f = [sim EXCEPT ![s] = IF @.there THEN Edited(@, ph, TRUE) ELSE @]
                 /\ WriteSims(f)
    BY <1>2, Zenon
  <1>9. f = new /\ WriteSims(f)
    BY <1>7, <1>8, Zenon
  <1>10. WriteSims(new) /\ UNCHANGED <<wanted, torn>> /\ sim' = new
    <2>1. WriteSims(new) /\ sim' = new
      BY <1>9 DEF WriteSims
    <2>. QED
      BY <2>1 DEF SaveSim
  <1>11. /\ sim' \in [SimIds -> SimRow] /\ history' \subseteq Archive
        /\ account' \in [Accounts -> AccountRow] /\ bound' \subseteq bound
        /\ said' \in [SimIds -> SUBSET Phones]
        /\ NumbersKept' /\ MainIsBound' /\ SavedWhole'
    BY <1>10, WriteKeeps
  <1>12. \A x \in SimIds : new[x].there = sim[x].there /\ new[x].dev = sim[x].dev
    BY <1>5, <1>6 DEF IInv, TypeOK
  <1>13. GoneIsBare' /\ Owned'
    BY <1>10, <1>12 DEF SaveSim, IInv, GoneIsBare, Owned
  <1>14. page' \in [Pages -> Page] /\ Exclusive' /\ \A q \in Pages : PageFilled(page'[q])
    BY <1>11, TablePageType, TableFilled, ShowKeeps DEF SaveSim
  <1>. QED
    BY <1>11, <1>13, <1>14 DEF IInv, TypeOK, Filled, SaveSim

LEMMA DisabledKeeps ==
    ASSUME IInv, NEW p \in Pages, Disabled(p)
    PROVE  IInv'
  <1>1. PICK s \in SimIds : s = page[p].sim
    BY DEF Disabled, IInv, Filled, PageFilled
  <1>2. PICK gone \in SUBSET (Accounts \X SimIds) : gone = page[p].seen \X {s}
    BY DEF IInv, TypeOK, Page
  <1>3. PICK ph \in Typed :
          LET new == IF sim[s].there THEN Edited(sim[s], ph, FALSE) ELSE sim[s] IN
          /\ sim' = [sim EXCEPT ![s] = new]
          /\ history' = history \union
                (IF sim[s].there /\ Replaces(sim[s], new)
                 THEN {<<s, sim[s].phone, sim[s].card, "REPLACED">>} ELSE {})
          /\ said' = [said EXCEPT ![s] = @ \union
                (IF new.there /\ new.phone # Nil THEN {new.phone} ELSE {})]
    BY <1>1 DEF Disabled
  <1>4. /\ ph \in Phones \union {Nil} /\ sim[s] \in SimRow
    BY DEF Typed, IInv, TypeOK
  <1>5. PICK new : new = IF sim[s].there THEN Edited(sim[s], ph, FALSE) ELSE sim[s]
    OBVIOUS
  <1>6. /\ new \in SimRow /\ new.there = sim[s].there /\ new.dev = sim[s].dev
        /\ sim[s].there => new.phone = ph
    BY <1>4, <1>5, EditedType
  <1>7. /\ bound' = bound \ gone
        /\ account' = [a \in Accounts |-> IF account[a].main = s
                          THEN [account[a] EXCEPT !.main = Nil] ELSE account[a]]
        /\ sim' = [sim EXCEPT ![s] = new]
        /\ history' = history \union
              (IF sim[s].there /\ Replaces(sim[s], new)
               THEN {<<s, sim[s].phone, sim[s].card, "REPLACED">>} ELSE {})
        /\ said' = [said EXCEPT ![s] = @ \union
              (IF new.there /\ new.phone # Nil THEN {new.phone} ELSE {})]
        /\ page' = [q \in Pages |-> IF q = p THEN TablePage ELSE Forget(q, gone)]
        /\ UNCHANGED <<device, call, wanted, torn>>
    BY <1>1, <1>2, <1>3, <1>5 DEF Disabled, Released
  <1>8. \A a \in Accounts : /\ account'[a] \in AccountRow
                            /\ account'[a].there = account[a].there
                            /\ account'[a].main # Nil => /\ account'[a].main = account[a].main
                                                         /\ account[a].main # s
    BY <1>7 DEF IInv, TypeOK, AccountRow
  <1>9. account' \in [Accounts -> AccountRow]
    BY <1>7, <1>8
  <1>10. sim' \in [SimIds -> SimRow]
        /\ \A x \in SimIds : sim'[x].there = sim[x].there /\ sim'[x].dev = sim[x].dev
    BY <1>6, <1>7 DEF IInv, TypeOK
  <1>11. history' \subseteq Archive
    BY <1>4, <1>7 DEF IInv, TypeOK, Archive, SimRow
  <1>12. said' \in [SimIds -> SUBSET Phones]
    BY <1>6, <1>7 DEF IInv, TypeOK, SimRow
  <1>13. bound' \subseteq Accounts \X SimIds /\ bound' \subseteq bound
    BY <1>7 DEF IInv, TypeOK
  <1>14. NumbersKept'
    <2> SUFFICES ASSUME NEW x \in SimIds, NEW n \in Phones, n \in said'[x]
                 PROVE  \/ sim'[x].there /\ sim'[x].phone = n
                        \/ \E h \in history' : h[1] = x /\ h[2] = n
      BY DEF NumbersKept
    <2>1. CASE x # s
      <3>1. n \in said[x] /\ sim'[x] = sim[x] /\ history \subseteq history'
        BY <1>7, <2>1 DEF IInv, TypeOK
      <3>. QED
        BY <3>1 DEF IInv, NumbersKept
    <2>2. CASE x = s /\ n \notin said[s]
      <3>1. new.there /\ new.phone = n /\ sim'[x] = new
        BY <1>7, <2>2 DEF IInv, TypeOK
      <3>. QED
        BY <3>1
    <2>3. CASE x = s /\ \E h \in history : h[1] = s /\ h[2] = n
      BY <1>7, <2>3
    <2>4. CASE x = s /\ sim[s].there /\ sim[s].phone = n /\ new.phone # n
      <3>1. Replaces(sim[s], new)
        BY <2>4 DEF Replaces, RegistryAssumption
      <3>2. <<s, n, sim[s].card, "REPLACED">> \in history'
        BY <1>7, <2>4, <3>1
      <3>. QED
        BY <2>4, <3>2
    <2>5. CASE x = s /\ sim[s].there /\ new.phone = n
      <3>1. sim'[x] = new
        BY <1>7, <2>5 DEF IInv, TypeOK
      <3>. QED
        BY <1>6, <2>5, <3>1
    <2>. QED
      BY <2>1, <2>2, <2>3, <2>4, <2>5 DEF IInv, NumbersKept
  <1>15. MainIsBound'
    <2> SUFFICES ASSUME NEW b \in Accounts, account'[b].main # Nil
                 PROVE  /\ account'[b].there
                        /\ <<b, account'[b].main>> \in bound' \/ b \in torn'
      BY DEF MainIsBound
    <2>1. account'[b].main = account[b].main /\ account[b].main # s
      BY <1>8
    <2>2. <<b, account[b].main>> \notin gone
      BY <1>2, <2>1
    <2>. QED
      BY <1>7, <1>8, <2>1, <2>2 DEF IInv, MainIsBound
  <1>16. SavedWhole'
    BY <1>7, <1>8, <1>10 DEF IInv, SavedWhole
  <1>17. GoneIsBare' /\ Owned'
    BY <1>7, <1>10 DEF IInv, GoneIsBare, Owned
  <1>18. /\ page' \in [Pages -> Page] /\ \A q \in Pages : PageFilled(page'[q])
         /\ \A q \in Pages : Holds(page'[q]) =>
               /\ Holds(page[q]) /\ page'[q].account = page[q].account
               /\ \A x \in SimIds : x \in page'[q].old <=>
                        x \in page[q].old /\ <<page[q].account, x>> \notin gone
    BY <1>7, ForgetKeeps
  <1>19. Exclusive'
    BY <1>7, <1>18, ExclusiveKeeps
  <1>. QED
    BY <1>7, <1>9, <1>10, <1>11, <1>12, <1>13, <1>14, <1>15, <1>16, <1>17, <1>18, <1>19
    DEF IInv, TypeOK, Filled

LEMMA DeleteSimKeeps ==
    ASSUME IInv, NEW p \in Pages, NEW s \in SimIds, DeleteSim(p, s)
    PROVE  IInv'
  <1>1. PICK new \in [SimIds -> SimRow] : new = [sim EXCEPT ![s] = NoSim]
    BY NoSimType DEF IInv, TypeOK
  <1>2. WriteSims(new) /\ UNCHANGED <<wanted, torn>> /\ sim' = new
    BY <1>1 DEF DeleteSim, WriteSims
  <1>3. /\ sim' \in [SimIds -> SimRow] /\ history' \subseteq Archive
        /\ account' \in [Accounts -> AccountRow] /\ bound' \subseteq bound
        /\ said' \in [SimIds -> SUBSET Phones]
        /\ NumbersKept' /\ MainIsBound' /\ SavedWhole'
    BY <1>2, WriteKeeps
  <1>4. \A x \in SimIds : new[x].there => sim[x].there /\ new[x].dev = sim[x].dev
    BY <1>1, NoSimType DEF IInv, TypeOK
  <1>5. GoneIsBare' /\ Owned'
    BY <1>2, <1>4 DEF DeleteSim, IInv, GoneIsBare, Owned
  <1>6. Exclusive'
    BY <1>3, ExclusiveKeeps DEF DeleteSim
  <1>. QED
    BY <1>3, <1>5, <1>6 DEF IInv, TypeOK, Filled, DeleteSim

LEMMA UnregisterKeeps ==
    ASSUME IInv, NEW p \in Pages, NEW d \in Devices, Unregister(p, d)
    PROVE  IInv'
  <1>1. PICK new : new = [s \in SimIds |-> IF s \in OfDevice(d) THEN NoSim ELSE sim[s]]
    OBVIOUS
  <1>2. new \in [SimIds -> SimRow]
    BY <1>1, NoSimType DEF IInv, TypeOK
  <1>3. WriteSims(new) /\ UNCHANGED <<wanted, torn>> /\ sim' = new
    BY <1>1 DEF Unregister, WriteSims
  <1>4. /\ sim' \in [SimIds -> SimRow] /\ history' \subseteq Archive
        /\ account' \in [Accounts -> AccountRow] /\ bound' \subseteq bound
        /\ said' \in [SimIds -> SUBSET Phones]
        /\ NumbersKept' /\ MainIsBound' /\ SavedWhole'
    BY <1>2, <1>3, WriteKeeps
  <1>5. \A x \in SimIds : new[x].there => sim[x].there /\ new[x].dev = sim[x].dev /\ sim[x].dev # d
    BY <1>1, NoSimType DEF OfDevice
  <1>6. /\ device' \in [Devices -> {"unknown", "registered", "unregistered"}]
        /\ \A e \in Devices : e # d => device'[e] = device[e]
    BY DEF Unregister, IInv, TypeOK
  <1>7. GoneIsBare' /\ Owned'
    BY <1>3, <1>5, <1>6 DEF IInv, GoneIsBare, Owned
  <1>8. Exclusive'
    BY <1>4, ExclusiveKeeps DEF Unregister
  <1>. QED
    BY <1>4, <1>6, <1>7, <1>8 DEF IInv, TypeOK, Filled, Unregister

-----------------------------------------------------------------------------
(* Saves of accounts *)

\* A page whose save deletes the bindings there are; if it has written the account's
\* row, no other page has.
LEMMA ClearKeeps ==
    ASSUME IInv, NEW p \in Pages, NEW found \in BOOLEAN, Clear(p, found),
           UNCHANGED <<table, call, said, wanted, torn>>,
           page[p].account \in Accounts,
           found => AccountFree(page[p].account)
    PROVE  IInv'
  <1>1. page[p] \in Page
    BY DEF IInv, TypeOK
  <1>2. PICK old \in SUBSET SimIds : old = {s \in SimIds : <<page[p].account, s>> \in bound}
    OBVIOUS
  <1>3. PICK u \in Page : u = [page[p] EXCEPT !.at = "clearing"]
    BY <1>1, PageRecord
  <1>4. PICK v \in Page : v = [u EXCEPT !.found = found]
    BY PageRecord
  <1>5. PICK x \in Page : x = [v EXCEPT !.old = old]
    BY PageRecord
  <1>6. x = [page[p] EXCEPT !.at = "clearing", !.found = found, !.old = old]
        /\ x.at = "clearing" /\ x.account = page[p].account /\ x.old = old /\ x.found = found
    BY <1>1, <1>3, <1>4, <1>5 DEF Page
  <1>7. /\ page' \in [Pages -> Page] /\ page'[p] = x
        /\ \A q \in Pages : q # p => page'[q] = page[q]
    BY <1>2, <1>6 DEF Clear, Show, IInv, TypeOK
  <1>8. \A q \in Pages : PageFilled(page'[q])
    BY <1>1, <1>6, <1>7 DEF PageFilled, IInv, Filled
  <1>9. found => \A q \in Pages : Holds(page[q]) => page[q].account # page[p].account
    BY DEF AccountFree, Holds
  <1>10. Exclusive'
    <2> SUFFICES ASSUME NEW r \in Pages, Holds(page'[r])
                 PROVE  /\ \/ page'[r].account \in torn'
                           \/ \A s \in SimIds : <<page'[r].account, s>> \in bound' =>
                                 s \in page'[r].old
                        /\ \A q \in Pages : Holds(page'[q])
                              /\ page'[q].account = page'[r].account => q = r
      BY DEF Exclusive, Holds
    <2>1. bound' = bound /\ torn' = torn
      BY DEF table
    <2>2. CASE r = p
      <3>1. found
        BY <1>6, <1>7, <2>2 DEF Holds
      <3>. QED
        BY <1>2, <1>6, <1>7, <1>9, <2>1, <2>2, <3>1
    <2>3. CASE r # p
      <3>1. Holds(page[r]) /\ page'[r] = page[r]
        BY <1>7, <2>3
      <3>2. Holds(page'[p]) => page'[p].account # page[r].account
        BY <1>6, <1>7, <1>9, <3>1 DEF Holds
      <3>. QED
        BY <1>7, <2>1, <2>3, <3>1, <3>2 DEF IInv, Exclusive
    <2>. QED
      BY <2>2, <2>3
  <1>. QED
    BY <1>7, <1>8, <1>10, TableKeeps DEF IInv, TypeOK, Filled

LEMMA SaveAccountKeeps ==
    ASSUME IInv, NEW p \in Pages,
           SaveAccount(p) \/ SaveNowhere(p) \/ Missed(p)
    PROVE  IInv'
  <1>1. page[p] \in Page /\ page[p].account \in Accounts
    BY DEF SaveAccount, SaveNowhere, Missed, IInv, TypeOK, Filled, PageFilled
  <1>2. CASE SaveAccount(p)
    BY <1>1, <1>2, ClearKeeps DEF SaveAccount
  <1>3. CASE SaveNowhere(p)
    <2>1. PICK x \in Page : x = [page[p] EXCEPT !.at = "missed"]
      BY <1>1, PageRecord
    <2>2. x.at = "missed" /\ x.account = page[p].account
      BY <1>1, <2>1 DEF Page
    <2>3. PageFilled(x) /\ ~Holds(x) /\ Show(p, x)
      BY <1>1, <1>3, <2>1, <2>2 DEF PageFilled, Holds, SaveNowhere
    <2>. QED
      BY <1>3, <2>3, DialogKeeps DEF SaveNowhere
  <1>4. CASE Missed(p)
    BY <1>1, <1>4, ClearKeeps DEF Missed
  <1>. QED
    BY <1>2, <1>3, <1>4

LEMMA ClearedKeeps ==
    ASSUME IInv, NEW p \in Pages, Cleared(p)
    PROVE  IInv'
  <1>1. page[p] \in Page /\ page[p].at = "clearing" /\ page[p].account \in Accounts
    BY DEF Cleared, IInv, TypeOK, Filled, PageFilled
  <1>2. PICK x \in Page : x = [page[p] EXCEPT !.at = "binding"]
    BY <1>1, PageRecord
  <1>3. /\ x.at = "binding" /\ x.account = page[p].account /\ x.old = page[p].old
        /\ x.found = page[p].found
    BY <1>1, <1>2 DEF Page
  <1>4. /\ page' \in [Pages -> Page] /\ page'[p] = x
        /\ \A q \in Pages : q # p => page'[q] = page[q]
    BY <1>2 DEF Cleared, Show, IInv, TypeOK
  <1>5. \A q \in Pages : PageFilled(page'[q])
    BY <1>1, <1>3, <1>4 DEF PageFilled, IInv, Filled
  <1>6. \A q \in Pages : Holds(page'[q]) =>
           Holds(page[q]) /\ page'[q].account = page[q].account /\ page'[q].old = page[q].old
    BY <1>1, <1>3, <1>4 DEF Holds
  <1>7. UNCHANGED <<bound, torn>>
    BY DEF Cleared, table
  <1>8. Exclusive'
    BY <1>6, <1>7, ExclusiveKeeps
  <1>. QED
    BY <1>4, <1>5, <1>8, TableKeeps DEF Cleared, IInv, TypeOK, Filled

\* The rows that a commit deletes, and those it inserts
Gone(p) == bound \intersect ({page[p].account} \X page[p].old)
Made(p) == {page[p].account} \X page[p].sims

\* What a commit does, whether the save has written the account's row or not.
LEMMA BoundStep ==
    ASSUME IInv, NEW p \in Pages, Bound(p)
    PROVE  /\ \A s \in page[p].sims : sim[s].there
           /\ page[p].found \/ account[page[p].account].there \/ page[p].sims = {}
           /\ bound' = (bound \ Gone(p)) \union Made(p)
           /\ UNCHANGED <<device, sim, history, call, said>>
           /\ bound' \subseteq Accounts \X SimIds
           /\ \A b \in Accounts, s \in SimIds : b # page[p].account =>
                 (<<b, s>> \in bound' <=> <<b, s>> \in bound)
           /\ page' \in [Pages -> Page] /\ \A q \in Pages : PageFilled(page'[q])
           /\ \A q \in Pages : Holds(page'[q]) =>
                 /\ q # p /\ Holds(page[q]) /\ page'[q].account = page[q].account
                 /\ \A s \in SimIds : s \in page'[q].old <=>
                          s \in page[q].old /\ <<page[q].account, s>> \notin Gone(p)
  <1>1. page[p] \in Page /\ page[p].account \in Accounts
    BY DEF Bound, IInv, TypeOK, Filled, PageFilled
  <1>2. /\ \A s \in page[p].sims : sim[s].there
        /\ page[p].found \/ account[page[p].account].there \/ page[p].sims = {}
        /\ bound' = (bound \ Gone(p)) \union Made(p)
        /\ page' = [q \in Pages |-> IF q = p THEN TablePage ELSE Forget(q, Gone(p))]
        /\ UNCHANGED <<device, sim, history, call, said>>
    BY DEF Bound, Gone, Made
  <1>3. Gone(p) \in SUBSET (Accounts \X SimIds) /\ Made(p) \in SUBSET (Accounts \X SimIds)
    BY <1>1 DEF Gone, Made, IInv, TypeOK, Page
  <1>4. bound' \subseteq Accounts \X SimIds
    BY <1>2, <1>3 DEF IInv, TypeOK
  <1>5. \A b \in Accounts, s \in SimIds : b # page[p].account =>
           (<<b, s>> \in bound' <=> <<b, s>> \in bound)
    BY <1>2 DEF Gone, Made
  <1>6. /\ page' \in [Pages -> Page] /\ \A q \in Pages : PageFilled(page'[q])
        /\ \A q \in Pages : Holds(page'[q]) =>
              /\ q # p /\ Holds(page[q]) /\ page'[q].account = page[q].account
              /\ \A s \in SimIds : s \in page'[q].old <=>
                       s \in page[q].old /\ <<page[q].account, s>> \notin Gone(p)
    <2>1. PICK rows \in SUBSET (Accounts \X SimIds) : rows = Gone(p)
      BY <1>3
    <2>2. page' = [q \in Pages |-> IF q = p THEN TablePage ELSE Forget(q, rows)]
      BY <1>2, <2>1
    <2>3. /\ page' \in [Pages -> Page] /\ \A q \in Pages : PageFilled(page'[q])
          /\ \A q \in Pages : Holds(page'[q]) =>
                /\ q # p /\ Holds(page[q]) /\ page'[q].account = page[q].account
                /\ \A s \in SimIds : s \in page'[q].old <=>
                         s \in page[q].old /\ <<page[q].account, s>> \notin rows
      BY <2>2, ForgetKeeps
    <2>. QED
      BY <2>1, <2>3
  <1>. QED
    BY <1>2, <1>4, <1>5, <1>6

LEMMA BoundFoundKeeps ==
    ASSUME IInv, NEW p \in Pages, Bound(p), page[p].found
    PROVE  IInv'
  <1>1. /\ page[p] \in Page /\ page[p].at = "binding" /\ page[p].account \in Accounts
        /\ Holds(page[p])
    BY DEF Bound, IInv, TypeOK, Filled, PageFilled, Holds
  <1>2. PICK a \in Accounts, sims \in SUBSET SimIds :
          a = page[p].account /\ sims = page[p].sims
    BY <1>1 DEF Page
  <1>3. PICK gone \in SUBSET (Accounts \X SimIds), made \in SUBSET (Accounts \X SimIds) :
          /\ gone = Gone(p) /\ made = Made(p)
          /\ gone = bound \intersect ({a} \X page[p].old) /\ made = {a} \X sims
    BY <1>2 DEF IInv, TypeOK, Gone, Made
  <1>4. /\ \A s \in sims : sim[s].there
        /\ bound' = (bound \ gone) \union made
        /\ UNCHANGED <<device, sim, history, call, said>>
        /\ bound' \subseteq Accounts \X SimIds
        /\ \A b \in Accounts, s \in SimIds : b # a => (<<b, s>> \in bound' <=> <<b, s>> \in bound)
        /\ page' \in [Pages -> Page] /\ \A q \in Pages : PageFilled(page'[q])
        /\ \A q \in Pages : Holds(page'[q]) =>
              /\ q # p /\ Holds(page[q]) /\ page'[q].account = page[q].account
              /\ \A s \in SimIds : s \in page'[q].old <=>
                       s \in page[q].old /\ <<page[q].account, s>> \notin gone
    BY <1>2, <1>3, BoundStep
  <1>5. PICK m \in IF sims = {} THEN {Nil} ELSE sims :
          account' = [account EXCEPT ![a] = [there |-> TRUE, main |-> m]]
    BY <1>2 DEF Bound
  <1>6. /\ wanted' = [wanted EXCEPT ![a] = sims]
        /\ torn' = IF \E s \in SimIds : <<a, s>> \in bound \ gone THEN torn ELSE torn \ {a}
    BY <1>2, <1>3 DEF Bound
  <1>7. m \in SimIds \union {Nil} /\ (m # Nil => m \in sims)
    BY <1>2, <1>5
  <1>8. PICK row : row = [there |-> TRUE, main |-> m]
    OBVIOUS
  <1>9. row \in AccountRow /\ row.there /\ row.main = m
    BY <1>7, <1>8 DEF AccountRow
  <1>10. /\ account' \in [Accounts -> AccountRow] /\ account'[a] = row
         /\ \A b \in Accounts : b # a => account'[b] = account[b]
    BY <1>5, <1>8, <1>9 DEF IInv, TypeOK
  <1>11. /\ wanted' \in [Accounts -> SUBSET SimIds] /\ wanted'[a] = sims
         /\ \A b \in Accounts : b # a => wanted'[b] = wanted[b]
    BY <1>6 DEF IInv, TypeOK
  <1>12. torn' \subseteq Accounts /\ \A b \in Accounts : b # a => (b \in torn' <=> b \in torn)
    BY <1>6 DEF IInv, TypeOK
  <1>13. a \in torn' \/ \A s \in SimIds : <<a, s>> \notin bound \ gone
    BY <1>1, <1>2, <1>3, <1>6 DEF IInv, Exclusive
  <1>14. \A s \in sims : <<a, s>> \in bound'
    BY <1>3, <1>4
  <1>15. \A s \in SimIds : <<a, s>> \in bound' => s \in sims \/ (a \in torn' /\ <<a, s>> \in bound)
    BY <1>3, <1>4, <1>13
  <1>16. MainIsBound'
    <2> SUFFICES ASSUME NEW b \in Accounts, account'[b].main # Nil
                 PROVE  /\ account'[b].there
                        /\ <<b, account'[b].main>> \in bound' \/ b \in torn'
      BY DEF MainIsBound
    <2>1. CASE b = a
      BY <1>7, <1>9, <1>10, <1>14, <2>1
    <2>2. CASE b # a
      <3>1. account'[b] = account[b] /\ account[b].main \in SimIds
        BY <1>10, <2>2 DEF IInv, TypeOK, AccountRow
      <3>. QED
        BY <1>4, <1>12, <2>2, <3>1 DEF IInv, MainIsBound
    <2>. QED
      BY <2>1, <2>2
  <1>17. SavedWhole'
    <2> SUFFICES ASSUME NEW b \in Accounts, NEW s \in SimIds, <<b, s>> \in bound'
                 PROVE  /\ account'[b].there /\ sim'[s].there
                        /\ s \in wanted'[b] \/ b \in torn'
      BY DEF SavedWhole
    <2>1. CASE b = a
      <3>1. sim[s].there /\ (s \in sims \/ a \in torn')
        BY <1>4, <1>15, <2>1 DEF IInv, SavedWhole
      <3>. QED
        BY <1>4, <1>9, <1>10, <1>11, <2>1, <3>1
    <2>2. CASE b # a
      BY <1>4, <1>10, <1>11, <1>12, <2>2 DEF IInv, SavedWhole
    <2>. QED
      BY <2>1, <2>2
  <1>18. Exclusive'
    <2>1. ASSUME NEW q \in Pages, Holds(page'[q])
          PROVE  /\ Holds(page[q]) /\ page'[q].account = page[q].account
                 /\ page[q].account # a /\ page[q].account \in Accounts
      <3>1. q # p /\ Holds(page[q]) /\ page'[q].account = page[q].account
        BY <1>4, <2>1
      <3>2. page[q].account # a
        BY <1>1, <1>2, <3>1 DEF IInv, Exclusive
      <3>3. page[q].account \in Accounts
        BY <3>1 DEF Holds, IInv, Filled, PageFilled
      <3>. QED
        BY <3>1, <3>2, <3>3
    <2>2. ASSUME NEW q \in Pages, Holds(page'[q]), NEW s \in SimIds,
                 <<page[q].account, s>> \in bound'
          PROVE  /\ <<page[q].account, s>> \in bound
                 /\ s \in page[q].old => s \in page'[q].old
      <3>1. page[q].account # a /\ page[q].account \in Accounts
        BY <2>1, <2>2
      <3>2. <<page[q].account, s>> \notin gone
        BY <1>3, <3>1
      <3>. QED
        BY <1>4, <2>2, <3>1, <3>2
    <2>. QED
      BY <1>12, <2>1, <2>2, ExclusiveKeeps
  <1>19. NumbersKept' /\ GoneIsBare' /\ Owned'
    BY <1>4 DEF IInv, NumbersKept, GoneIsBare, Owned
  <1>. QED
    BY <1>4, <1>10, <1>11, <1>12, <1>16, <1>17, <1>18, <1>19 DEF IInv, TypeOK, Filled

LEMMA BoundNowhereKeeps ==
    ASSUME IInv, NEW p \in Pages, Bound(p), ~page[p].found
    PROVE  IInv'
  <1>1. page[p] \in Page /\ page[p].at = "binding" /\ page[p].account \in Accounts
    BY DEF Bound, IInv, TypeOK, Filled, PageFilled
  <1>2. PICK a \in Accounts, sims \in SUBSET SimIds :
          a = page[p].account /\ sims = page[p].sims
    BY <1>1 DEF Page
  <1>3. PICK gone \in SUBSET (Accounts \X SimIds), made \in SUBSET (Accounts \X SimIds) :
          /\ gone = Gone(p) /\ made = Made(p)
          /\ gone = bound \intersect ({a} \X page[p].old) /\ made = {a} \X sims
    BY <1>2 DEF IInv, TypeOK, Gone, Made
  <1>4. /\ \A s \in sims : sim[s].there
        /\ account[a].there \/ sims = {}
        /\ bound' = (bound \ gone) \union made
        /\ UNCHANGED <<device, sim, history, call, said>>
        /\ bound' \subseteq Accounts \X SimIds
        /\ \A b \in Accounts, s \in SimIds : b # a => (<<b, s>> \in bound' <=> <<b, s>> \in bound)
        /\ page' \in [Pages -> Page] /\ \A q \in Pages : PageFilled(page'[q])
        /\ \A q \in Pages : Holds(page'[q]) =>
              /\ Holds(page[q]) /\ page'[q].account = page[q].account
              /\ \A s \in SimIds : s \in page'[q].old <=>
                       s \in page[q].old /\ <<page[q].account, s>> \notin gone
    BY <1>2, <1>3, BoundStep
  <1>5. UNCHANGED <<account, wanted>>
        /\ torn' = IF gone \union made = {} THEN torn ELSE torn \union {a}
    BY <1>2, <1>3 DEF Bound
  <1>6. /\ torn \subseteq torn' /\ torn' \subseteq Accounts
        /\ a \in torn' \/ (gone = {} /\ made = {})
    BY <1>5 DEF IInv, TypeOK
  <1>7. \A b \in Accounts, s \in SimIds : b \in torn' \/ (<<b, s>> \in bound' <=> <<b, s>> \in bound)
    BY <1>4, <1>6
  <1>8. MainIsBound'
    <2> SUFFICES ASSUME NEW b \in Accounts, account[b].main # Nil
                 PROVE  account[b].there /\ (<<b, account[b].main>> \in bound' \/ b \in torn')
      BY <1>5 DEF MainIsBound
    <2>1. account[b].main \in SimIds
      BY DEF IInv, TypeOK, AccountRow
    <2>. QED
      BY <1>6, <1>7, <2>1 DEF IInv, MainIsBound
  <1>9. SavedWhole'
    <2> SUFFICES ASSUME NEW b \in Accounts, NEW s \in SimIds, <<b, s>> \in bound'
                 PROVE  /\ account[b].there /\ sim[s].there
                        /\ s \in wanted[b] \/ b \in torn'
      BY <1>4, <1>5 DEF SavedWhole
    <2>1. CASE <<b, s>> \in bound
      BY <1>6, <2>1 DEF IInv, SavedWhole
    <2>2. CASE <<b, s>> \in made
      <3>1. b = a /\ s \in sims /\ made # {}
        BY <1>3, <2>2
      <3>. QED
        BY <1>4, <1>6, <3>1
    <2>. QED
      BY <1>4, <2>1, <2>2
  <1>10. Exclusive'
    <2>1. ASSUME NEW q \in Pages, Holds(page'[q])
          PROVE  page[q].account \in Accounts
      BY <1>4, <2>1 DEF Holds, IInv, Filled, PageFilled
    <2>2. ASSUME NEW q \in Pages, Holds(page'[q]), page[q].account \notin torn',
                 NEW s \in SimIds, <<page[q].account, s>> \in bound'
          PROVE  /\ <<page[q].account, s>> \in bound
                 /\ s \in page[q].old => s \in page'[q].old
      <3>1. <<page[q].account, s>> \notin gone
        BY <1>3, <1>6, <2>2
      <3>2. <<page[q].account, s>> \in bound
        BY <1>7, <2>1, <2>2
      <3>. QED
        BY <1>4, <2>2, <3>1, <3>2
    <2>. QED
      BY <1>4, <1>6, <2>1, <2>2, ExclusiveKeeps
  <1>11. NumbersKept' /\ GoneIsBare' /\ Owned'
    BY <1>4 DEF IInv, NumbersKept, GoneIsBare, Owned
  <1>. QED
    BY <1>4, <1>5, <1>6, <1>8, <1>9, <1>10, <1>11 DEF IInv, TypeOK, Filled

LEMMA DeleteAccountKeeps ==
    ASSUME IInv, NEW p \in Pages, NEW a \in Accounts, DeleteAccount(p, a)
    PROVE  IInv'
  <1>1. PICK rows \in SUBSET (Accounts \X SimIds) : rows = {a} \X SimIds
    OBVIOUS
  <1>2. /\ account' = [account EXCEPT ![a] = NoAccount] /\ bound' = {b \in bound : b[1] # a}
        /\ wanted' = [wanted EXCEPT ![a] = {}] /\ torn' = torn \ {a}
        /\ page' = [q \in Pages |-> Forget(q, rows)]
        /\ UNCHANGED <<device, sim, history, call, said>>
    BY <1>1 DEF DeleteAccount
  <1>3. /\ account' \in [Accounts -> AccountRow] /\ account'[a].main = Nil
        /\ \A b \in Accounts : b # a => account'[b] = account[b]
    BY <1>2 DEF IInv, TypeOK, NoAccount, AccountRow
  <1>4. bound' \subseteq bound /\ bound' \subseteq Accounts \X SimIds
    BY <1>2 DEF IInv, TypeOK
  <1>5. /\ wanted' \in [Accounts -> SUBSET SimIds] /\ torn' \subseteq Accounts
        /\ \A b \in Accounts : b # a => wanted'[b] = wanted[b] /\ (b \in torn <=> b \in torn')
    BY <1>2 DEF IInv, TypeOK
  <1>6. \A b \in Accounts, s \in SimIds : <<b, s>> \in bound' <=> b # a /\ <<b, s>> \in bound
    BY <1>2
  <1>7. MainIsBound'
    <2> SUFFICES ASSUME NEW b \in Accounts, account'[b].main # Nil
                 PROVE  /\ account'[b].there
                        /\ <<b, account'[b].main>> \in bound' \/ b \in torn'
      BY DEF MainIsBound
    <2>1. b # a /\ account'[b] = account[b]
      BY <1>3
    <2>2. account[b].main \in SimIds
      BY <2>1 DEF IInv, TypeOK, AccountRow
    <2>. QED
      BY <1>5, <1>6, <2>1, <2>2 DEF IInv, MainIsBound
  <1>8. SavedWhole'
    BY <1>2, <1>3, <1>5, <1>6 DEF IInv, SavedWhole
  <1>9. NumbersKept' /\ GoneIsBare' /\ Owned'
    BY <1>2 DEF IInv, NumbersKept, GoneIsBare, Owned
  <1>10. \A q \in Pages : page'[q] = Forget(q, rows)
    BY <1>2
  <1>11. \A q \in Pages : /\ page'[q] \in Page /\ page'[q].at = page[q].at
                           /\ page'[q].sim = page[q].sim /\ page'[q].account = page[q].account
                           /\ page'[q].found = page[q].found
                           /\ \A s \in SimIds : s \in page'[q].old <=>
                                 s \in page[q].old /\ <<page[q].account, s>> \notin rows
    BY <1>10, ForgetType
  <1>12. page' \in [Pages -> Page]
    <2>1. PICK g : g = page'
      OBVIOUS
    <2>2. DOMAIN g = Pages /\ g = [q \in DOMAIN g |-> g[q]]
      BY <1>2, <2>1
    <2>. QED
      BY <1>11, <2>1, <2>2
  <1>13. \A q \in Pages : PageFilled(page'[q])
    BY <1>11 DEF PageFilled, IInv, Filled
  <1>14. Exclusive'
    <2>1. ASSUME NEW q \in Pages, Holds(page'[q])
          PROVE  /\ Holds(page[q]) /\ page'[q].account = page[q].account
                 /\ page[q].account # a /\ page[q].account \in Accounts
      <3>1. Holds(page[q])
        BY <1>11, <2>1 DEF Holds
      <3>. QED
        BY <1>11, <3>1 DEF Holds, DeleteAccount, AccountFree, IInv, Filled, PageFilled
    <2>2. ASSUME NEW q \in Pages, Holds(page'[q]), NEW s \in SimIds,
                 <<page[q].account, s>> \in bound'
          PROVE  /\ <<page[q].account, s>> \in bound
                 /\ s \in page[q].old => s \in page'[q].old
      <3>1. <<page[q].account, s>> \notin rows
        BY <1>1, <2>1, <2>2
      <3>. QED
        BY <1>4, <1>11, <2>2, <3>1
    <2>. QED
      BY <1>5, <2>1, <2>2, ExclusiveKeeps
  <1>. QED
    BY <1>2, <1>3, <1>4, <1>5, <1>7, <1>8, <1>9, <1>12, <1>13, <1>14 DEF IInv, TypeOK, Filled

LEMMA PageStepKeeps ==
    ASSUME IInv, NEW p \in Pages, PageStep(p)
    PROVE  IInv'
  BY OpenSimKeeps, CloseKeeps, DisableSimKeeps, OpenAccountKeeps, FailKeeps, SaveSimKeeps,
     DisabledKeeps, DeleteSimKeeps, UnregisterKeeps, SaveAccountKeeps, ClearedKeeps,
     BoundFoundKeeps, BoundNowhereKeeps, DeleteAccountKeeps
  DEF PageStep

-----------------------------------------------------------------------------
(* Theorems *)

LEMMA InitIInv == Init => IInv
  <1> SUFFICES ASSUME Init PROVE IInv
    OBVIOUS
  <1>1. TypeOK
    <2>1. NoAccount \in AccountRow
      BY DEF NoAccount, AccountRow
    <2>. QED
      BY <2>1, IdleType, NoSimType, TablePageType DEF Init, TypeOK
  <1>2. Filled
    BY IdleType, TableFilled DEF Init, Filled
  <1>3. Exclusive
    BY TableFilled DEF Init, Exclusive
  <1>4. Owned /\ GoneIsBare
    BY NoSimType DEF Init, Owned, GoneIsBare
  <1>5. NumbersKept /\ MainIsBound /\ SavedWhole
    BY DEF Init, NumbersKept, MainIsBound, SavedWhole, NoAccount
  <1>. QED
    BY <1>1, <1>2, <1>3, <1>4, <1>5 DEF IInv

LEMMA NextIInv == IInv /\ [Next]_vars => IInv'
  <1> SUFFICES ASSUME IInv, [Next]_vars PROVE IInv'
    OBVIOUS
  <1>1. CASE Next
    BY <1>1, DeviceStepKeeps, PageStepKeeps DEF Next
  <1>2. CASE UNCHANGED vars
    BY <1>2 DEF vars, IInv, TypeOK, Filled, Exclusive, Holds, Owned, GoneIsBare, NumbersKept,
       MainIsBound, SavedWhole
  <1>. QED
    BY <1>1, <1>2

\* The inductive invariant of the registry.
THEOREM Invariance == Spec => []IInv
  BY InitIInv, NextIInv, PTL DEF Spec

\* Type correctness of the rows, calls and pages.
THEOREM TypeCorrect == Spec => []TypeOK
  <1>1. IInv => TypeOK
    BY DEF IInv
  <1>. QED
    BY <1>1, Invariance, PTL

\* A device that is unregistered has no SIM rows and gets none.
THEOREM GoneBare == Spec => []GoneIsBare
  <1>1. IInv => GoneIsBare
    BY DEF IInv
  <1>. QED
    BY <1>1, Invariance, PTL

\* What a SIM was ever called by is its number or in the history.
THEOREM NothingLost == Spec => []NumbersKept
  <1>1. IInv => NumbersKept
    BY DEF IInv
  <1>. QED
    BY <1>1, Invariance, PTL

\* An account's main SIM is bound to it, unless a save that did not find the
\* account's row bound it.
THEOREM MainBound == Spec => []MainIsBound
  <1>1. IInv => MainIsBound
    BY DEF IInv
  <1>. QED
    BY <1>1, Invariance, PTL

\* The SIMs of an account are those of the one save that wrote its row, with the
\* same exception.
THEOREM OneSave == Spec => []SavedWhole
  <1>1. IInv => SavedWhole
    BY DEF IInv
  <1>. QED
    BY <1>1, Invariance, PTL

-----------------------------------------------------------------------------
(* Enabling *)

\* Whether row s is enabled changes only as a save of its dialog ends, to what the
\* dialog said.
LEMMA EnabledKept ==
    ASSUME IInv, Next, NEW s \in SimIds, sim[s].there, sim'[s].there,
           sim[s].enabled # sim'[s].enabled
    PROVE  \E p \in Pages :
              /\ page[p].sim = s /\ page'[p].at = "table"
              /\ page[p].at = IF sim'[s].enabled THEN "sim" ELSE "disabling"
  <1>1. ASSUME NEW t \in Threads, DeviceStep(t)
        PROVE  FALSE
    <2>1. CASE Register(t)
      <3>1. PICK d \in Devices, l \in Lists : \E id \in Ids(d, l) : sim' = Reported(d, l, id)
        BY <2>1 DEF Register, WriteSims
      <3>. QED
        BY <3>1, ReportedRows DEF IInv
    <2>2. CASE Update(t)
      <3>1. call[t].dev \in Devices
        BY <2>2 DEF Update, IInv, Filled, CallFilled
      <3>2. PICK l \in Lists : \E id \in Ids(call[t].dev, l) : sim' = Reported(call[t].dev, l, id)
        BY <2>2 DEF Update, WriteSims
      <3>. QED
        BY <3>1, <3>2, ReportedRows DEF IInv
    <2>3. CASE sim' = sim
      BY <2>3
    <2>. QED
      BY <1>1, <2>1, <2>2, <2>3
      DEF DeviceStep, UpdateEnter, Collide, UpdateRefused, table
  <1>2. ASSUME NEW p \in Pages, PageStep(p)
        PROVE  /\ page[p].sim = s /\ page'[p].at = "table"
               /\ page[p].at = IF sim'[s].enabled THEN "sim" ELSE "disabling"
    <2>1. CASE SaveSim(p)
      <3>1. PICK ph : WriteSims([sim EXCEPT ![page[p].sim] = IF @.there THEN Edited(@, ph, TRUE) ELSE @])
        BY <2>1 DEF SaveSim
      <3>2. sim' = [sim EXCEPT ![page[p].sim] = IF @.there THEN Edited(@, ph, TRUE) ELSE @]
        BY <3>1 DEF WriteSims
      <3>3. page[p].sim = s
        BY <3>2 DEF IInv, TypeOK
      <3>4. sim'[s] = Edited(sim[s], ph, TRUE) /\ sim[s] \in SimRow
        BY <3>2, <3>3 DEF IInv, TypeOK
      <3>5. sim'[s].enabled = TRUE
        BY <3>4 DEF Edited, SimRow
      <3>6. page[p].at = "sim" /\ page'[p].at = "table"
        BY <2>1, TablePageType DEF SaveSim, Show, IInv, TypeOK
      <3>. QED
        BY <3>3, <3>5, <3>6
    <2>2. CASE Disabled(p)
      <3>1. PICK ph : sim' = [sim EXCEPT ![page[p].sim] =
              IF sim[page[p].sim].there THEN Edited(sim[page[p].sim], ph, FALSE)
              ELSE sim[page[p].sim]]
        BY <2>2 DEF Disabled
      <3>2. page[p].sim = s
        BY <3>1 DEF IInv, TypeOK
      <3>3. sim'[s] = Edited(sim[s], ph, FALSE) /\ sim[s] \in SimRow
        BY <3>1, <3>2 DEF IInv, TypeOK
      <3>4. sim'[s].enabled = FALSE
        BY <3>3 DEF Edited, SimRow
      <3>5. page[p].at = "disabling" /\ page'[p].at = "table"
        BY <2>2, TablePageType DEF Disabled
      <3>. QED
        BY <3>2, <3>4, <3>5
    <2>3. ASSUME NEW x \in SimIds, DeleteSim(p, x)
          PROVE  FALSE
      BY <2>3, NoSimType DEF DeleteSim, WriteSims, IInv, TypeOK
    <2>4. ASSUME NEW d \in Devices, Unregister(p, d)
          PROVE  FALSE
      BY <2>4, NoSimType DEF Unregister, WriteSims, IInv, TypeOK
    <2>5. CASE sim' = sim
      BY <2>5
    <2>. QED
      BY <1>2, <2>1, <2>2, <2>3, <2>4, <2>5
      DEF PageStep, OpenSim, Close, DisableSim, OpenAccount, SaveAccount, SaveNowhere,
          Missed, Cleared, Bound, DeleteAccount, Fail, table
  <1>. QED
    BY <1>1, <1>2 DEF Next

\* Only the dialog of a SIM, as it saves, changes whether the SIM is enabled, and
\* to what it said.
THEOREM OperatorsAlone == Spec => OperatorsEnable
  <1>1. ASSUME IInv, [Next]_vars
        PROVE  [\A s \in SimIds :
                  sim[s].there /\ sim'[s].there /\ sim[s].enabled # sim'[s].enabled =>
                     \E p \in Pages :
                        /\ page[p].sim = s /\ page'[p].at = "table"
                        /\ page[p].at = IF sim'[s].enabled THEN "sim" ELSE "disabling"]_vars
    <2>1. CASE Next
      BY <1>1, <2>1, EnabledKept
    <2>2. CASE UNCHANGED vars
      BY <2>2
    <2>. QED
      BY <1>1, <2>1, <2>2
  <1>. QED
    BY <1>1, Invariance, PTL DEF Spec, OperatorsEnable

=============================================================================
