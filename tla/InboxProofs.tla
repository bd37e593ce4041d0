---------------------------- MODULE InboxProofs ----------------------------
(***************************************************************************)
(* Inbox's invariants, for any threads, accounts, SIMs, ids, bodies, rows  *)
(* and failures.                                                           *)
(*                                                                         *)
(* The argument: the device's row lock leaves one receipt between its      *)
(* look for an existing message and its commit (OneReceipt), so what it    *)
(* read is still so when it writes (Filing).  SIMs that vanish and         *)
(* conversations that are read touch other fields (SameRows, Vanish).      *)
(* Unread counts and events are then counted against sets that every step  *)
(* leaves, adds one to, or empties (Fresh, Settled); and the objects an    *)
(* upload in hand has stored stay until it commits or aborts (Backed).     *)
(* A download in hand has stored its first attachments and no others, and  *)
(* what a list has read of downloads does not change any more (Whole).     *)
(***************************************************************************)
EXTENDS Inbox, FiniteSetTheorems, TLAPS

-----------------------------------------------------------------------------
(* The inductive invariant *)

Receiving == {"waiting", "resolved", "writing", "publishing"}
Holding   == {"resolved", "writing"}

\* No message of rows M has id i.
Unknown(i, M) == \A m \in Msgs : M[m].there => M[m].id # i

\* What a receipt c is about to write, with messages M and conversations V.
Filing(c, M, V) ==
    /\ c.msg \in Msgs /\ c.conv \in Convs
    /\ c.left # <<>> => c.req.kind = "downloaded"
    /\ c.new => /\ Unknown(c.req.id, M) /\ ~M[c.msg].there
                /\ V[c.conv].there => V[c.conv].sim = c.sim
                /\ c.req.kind # "downloaded" => c.files = NoFiles
    /\ ~c.new => /\ M[c.msg].there /\ M[c.msg].id = c.req.id
                 /\ M[c.msg].got[c.req.kind] = Nil
                 /\ M[c.msg].conv = c.conv
                 /\ c.req.kind # "downloaded" => c.files = M[c.msg].files

CallOK(c, M, V) ==
    /\ c.pc \in Receiving => c.req \in Requests
    /\ c.pc \in {"waiting", "resolved"} => c.files = NoFiles /\ ~c.new
    /\ c.pc = "resolved" => Unknown(c.req.id, M)
    /\ c.pc = "writing" => Filing(c, M, V)
    /\ c.pc = "publishing" =>
          c.msg \in Msgs /\ M[c.msg].there /\ M[c.msg].got[c.req.kind] = c.req
    /\ c.pc \in {"reading", "clearing"} => c.conv \in Convs

AllOK == \A t \in Threads : CallOK(call[t], msg, conv)

OneReceipt == \A t, u \in Threads :
    call[t].pc \in Holding /\ call[u].pc \in Holding => t = u

OnePublisher == \A t, u \in Threads :
    /\ call[t].pc = "publishing" /\ call[u].pc = "publishing"
    /\ call[t].msg = call[u].msg /\ call[t].req.kind = call[u].req.kind
    => t = u

RowsOK(M, V) ==
    /\ \A m \in Msgs : M[m].there =>
          /\ M[m].id \in Ids /\ M[m].conv \in Convs
          /\ V[M[m].conv].there /\ V[M[m].conv].sim = M[m].sim
    /\ \A m, n \in Msgs : M[m].there /\ M[n].there /\ M[m].id = M[n].id => m = n
    /\ \A m \in Msgs : M[m].got["downloaded"] = Nil => M[m].files = NoFiles
    /\ \A c \in Convs : ~V[c].there => V[c] = NoConv

AcksOK(A, M) == \A x \in A : M[x[2]].there /\ M[x[2]].got[x[1].kind] = x[1]

IInv == /\ TypeOK /\ AllOK /\ OneReceipt /\ OnePublisher
        /\ RowsOK(msg, conv) /\ AcksOK(acks, msg)

-----------------------------------------------------------------------------
(* Records *)

LEMMA NilIsNone ==
    Nil \notin Sims /\ Nil \notin Contents /\ Nil \notin Requests
    /\ Nil \notin Convs /\ Nil \notin Msgs
  BY InboxAssumption DEF InboxAssumption

LEMMA RequestType ==
    ASSUME NEW r \in Requests
    PROVE  /\ r \in Request /\ r.kind \in Kind /\ r.id \in Ids /\ r # Nil
           /\ r.slot \in Sims \union {Nil} /\ r.number \in Sims \union {Nil}
           /\ r.ident \in Contents /\ r.body \in Contents \union {Nil}
           /\ r.files \in Seq(File)
           /\ r.kind # "downloaded" => r.files = <<>>
  <1>1. r \in Request /\ r # Nil /\ (r.kind # "downloaded" => r.files = <<>>)
    BY InboxAssumption DEF InboxAssumption
  <1>. QED
    BY <1>1 DEF Request

LEMMA NoFilesType == NoFiles \in [Parts -> Contents \union {Nil}]
  BY DEF NoFiles

LEMMA StoredType ==
    ASSUME NEW fs \in [Parts -> Contents \union {Nil}], NEW f \in File
    PROVE  Stored(fs, f) \in [Parts -> Contents \union {Nil}]
  BY DEF Stored, File

LEMMA IdleType == IdleCall \in Call
  BY NoFilesType DEF IdleCall, Call

LEMMA CallFields ==
    ASSUME NEW c \in Call
    PROVE  /\ \A v \in {"idle", "waiting", "resolved", "writing", "publishing",
                        "opening", "listing", "listed", "reading", "clearing"} :
                 [c EXCEPT !.pc = v] \in Call
           /\ \A v \in Requests \union {Nil} : [c EXCEPT !.req = v] \in Call
           /\ \A v \in Sims \union {Nil} : [c EXCEPT !.sim = v] \in Call
           /\ \A v \in Convs \union {Nil} : [c EXCEPT !.conv = v] \in Call
           /\ \A v \in Msgs \union {Nil} : [c EXCEPT !.msg = v] \in Call
           /\ \A v \in BOOLEAN : [c EXCEPT !.new = v] \in Call
           /\ \A v \in Seq(File) : [c EXCEPT !.left = v] \in Call
           /\ \A v \in [Parts -> Contents \union {Nil}] : [c EXCEPT !.files = v] \in Call
           /\ \A v \in SUBSET Accounts : [c EXCEPT !.to = v] \in Call
           /\ \A v \in Accounts \union {Nil} : [c EXCEPT !.acc = v] \in Call
           /\ \A v \in SUBSET Msgs : [c EXCEPT !.whole = v] \in Call
           /\ \A v \in SUBSET (Msgs \X Parts) : [c EXCEPT !.stored = v] \in Call
           /\ \A v \in SUBSET Sims : [c EXCEPT !.mine = v] \in Call
  <1>1. \A v \in {"idle", "waiting", "resolved", "writing", "publishing",
                        "opening", "listing", "listed", "reading", "clearing"} : [c EXCEPT !.pc = v] \in Call
    BY DEF Call
  <1>2. \A v \in Requests \union {Nil} : [c EXCEPT !.req = v] \in Call
    BY DEF Call
  <1>3. \A v \in Sims \union {Nil} : [c EXCEPT !.sim = v] \in Call
    BY DEF Call
  <1>4. \A v \in Convs \union {Nil} : [c EXCEPT !.conv = v] \in Call
    BY DEF Call
  <1>5. \A v \in Msgs \union {Nil} : [c EXCEPT !.msg = v] \in Call
    BY DEF Call
  <1>6. \A v \in BOOLEAN : [c EXCEPT !.new = v] \in Call
    BY DEF Call
  <1>7. \A v \in Seq(File) : [c EXCEPT !.left = v] \in Call
    BY DEF Call
  <1>8. \A v \in [Parts -> Contents \union {Nil}] : [c EXCEPT !.files = v] \in Call
    BY DEF Call
  <1>9. \A v \in SUBSET Accounts : [c EXCEPT !.to = v] \in Call
    BY DEF Call
  <1>10. \A v \in Accounts \union {Nil} : [c EXCEPT !.acc = v] \in Call
    BY DEF Call
  <1>11. \A v \in SUBSET Msgs : [c EXCEPT !.whole = v] \in Call
    BY DEF Call
  <1>12. \A v \in SUBSET (Msgs \X Parts) : [c EXCEPT !.stored = v] \in Call
    BY DEF Call
  <1>13. \A v \in SUBSET Sims : [c EXCEPT !.mine = v] \in Call
    BY DEF Call
  <1>. QED
    BY <1>1, <1>2, <1>3, <1>4, <1>5, <1>6, <1>7, <1>8, <1>9, <1>10, <1>11, <1>12, <1>13

LEMMA MergingType ==
    ASSUME NEW c \in Call, NEW m \in Msgs, NEW v \in Convs, NEW a \in SUBSET Accounts,
           NEW l \in Seq(File), NEW f \in [Parts -> Contents \union {Nil}]
    PROVE  [c EXCEPT !.pc = "writing", !.msg = m, !.conv = v, !.to = a,
                     !.left = l, !.files = f] \in Call
  BY DEF Call

LEMMA WrittenRow ==
    ASSUME TypeOK, NEW c \in Call, c.req \in Requests, c.msg \in Msgs, c.conv \in Convs
    PROVE  LET w == Written(c) IN
           /\ w \in MsgRow
           /\ c.new => w.there /\ w.id = c.req.id /\ w.conv = c.conv /\ w.sim = c.sim
           /\ ~c.new => /\ w.there = msg[c.msg].there /\ w.id = msg[c.msg].id
                        /\ w.conv = msg[c.msg].conv /\ w.sim = msg[c.msg].sim
           /\ w.got[c.req.kind] = c.req
           /\ \A k \in Kind : k # c.req.kind =>
                 w.got[k] = IF c.new THEN Nil ELSE msg[c.msg].got[k]
           /\ w.files = c.files
           /\ w.body = IF c.req.body # Nil THEN c.req.body
                       ELSE IF c.new THEN Nil ELSE msg[c.msg].body
  <1>. DEFINE new == [NoMsg EXCEPT !.there = TRUE, !.id = c.req.id,
                  !.conv = c.conv, !.sim = c.sim, !.ident = c.req.ident]
              old == IF c.new THEN new ELSE msg[c.msg]
              w == [old EXCEPT !.got[c.req.kind] = c.req, !.files = c.files,
                   !.body = IF c.req.body # Nil THEN c.req.body ELSE @]
  <1>1. new \in MsgRow /\ new.there /\ new.id = c.req.id /\ new.conv = c.conv /\ new.sim = c.sim
        /\ new.got = [k \in Kind |-> Nil] /\ new.body = Nil
    BY RequestType, NoFilesType DEF NoMsg, MsgRow, Call
  <1>2. old \in MsgRow
    BY <1>1 DEF TypeOK
  <1>3. c.files \in [Parts -> Contents \union {Nil}]
    BY DEF Call
  <1>4. w.got = [old.got EXCEPT ![c.req.kind] = c.req] /\ w.files = c.files
        /\ w.there = old.there /\ w.id = old.id /\ w.conv = old.conv /\ w.sim = old.sim
        /\ w \in MsgRow
    <2>. HIDE DEF old
    <2>. QED
      BY <1>2, <1>3, RequestType DEF MsgRow
  <1>4a. w.body = IF c.req.body # Nil THEN c.req.body ELSE old.body
    <2>. HIDE DEF old
    <2>. QED
      BY <1>2 DEF MsgRow
  <1>5. old.got \in [Kind -> Requests \union {Nil}]
    <2>. HIDE DEF old
    <2>. QED
      BY <1>2 DEF MsgRow
  <1>6. Written(c) = w
    BY DEF Written
  <1>7. c.new => old = new
    OBVIOUS
  <1>8. ~c.new => old = msg[c.msg]
    OBVIOUS
  <1>9. \A k \in Kind : k # c.req.kind => w.got[k] = old.got[k]
    <2>. HIDE DEF old, w
    <2>. QED
      BY <1>4, <1>5
  <1>10. w.got[c.req.kind] = c.req
    <2>. HIDE DEF old, w
    <2>. QED
      BY <1>4, <1>5, RequestType
  <1>. HIDE DEF old, w, new
  <1>11. CASE c.new
    BY <1>1, <1>4, <1>6, <1>7, <1>9, <1>10, <1>11, <1>4a
  <1>12. CASE ~c.new
    BY <1>4, <1>6, <1>8, <1>9, <1>10, <1>12, <1>4a
  <1>. QED
    BY <1>11, <1>12

-----------------------------------------------------------------------------
(* Steps of one call *)

\* A step that leaves t with call c, and messages and conversations alone.
LEMMA CallKeeps ==
    ASSUME IInv, NEW t \in Threads, NEW c \in Call, Become(t, c),
           UNCHANGED <<conv, msg>>, CallOK(c, msg, conv),
           c.pc \in Holding => call[t].pc \in Holding \/ DeviceFree,
           c.pc = "publishing" => /\ call[t].pc = "publishing"
                                  /\ c.msg = call[t].msg /\ c.req = call[t].req
    PROVE  /\ call' \in [Threads -> Call]
           /\ AllOK' /\ OneReceipt' /\ OnePublisher' /\ RowsOK(msg, conv)'
  <1>1. call \in [Threads -> Call]
    BY DEF IInv, TypeOK
  <1>2. call' \in [Threads -> Call] /\ call'[t] = c
        /\ \A u \in Threads : u # t => call'[u] = call[u]
    BY <1>1 DEF Become
  <1>3. AllOK'
    <2>1. \A u \in Threads : CallOK(call'[u], msg, conv)
      BY <1>2 DEF IInv, AllOK
    <2>2. msg' = msg /\ conv' = conv
      OBVIOUS
    <2>. QED
      BY <2>1, <2>2 DEF AllOK
  <1>4. OneReceipt'
    BY <1>2 DEF IInv, OneReceipt, DeviceFree, Holding
  <1>5. OnePublisher'
    BY <1>2 DEF IInv, OnePublisher
  <1>6. RowsOK(msg, conv)'
    <2>1. RowsOK(msg, conv) /\ msg' = msg /\ conv' = conv
      BY DEF IInv
    <2>. QED
      BY <2>1
  <1>. QED
    BY <1>2, <1>3, <1>4, <1>5, <1>6

\* The same for a step that writes no row at all.
LEMMA ReadKeeps ==
    ASSUME IInv, NEW t \in Threads, NEW c \in Call, Become(t, c),
           UNCHANGED <<admin, filed, told, acks>>, CallOK(c, msg, conv),
           c.pc \in Holding => call[t].pc \in Holding \/ DeviceFree,
           c.pc # "publishing"
    PROVE  IInv'
  <1>1. UNCHANGED <<conv, msg, enabled, sims, bound, active, object, fresh>>
    BY DEF filed, admin
  <1>2. call' \in [Threads -> Call] /\ AllOK' /\ OneReceipt' /\ OnePublisher'
        /\ RowsOK(msg, conv)'
    BY <1>1, CallKeeps
  <1>3. TypeOK'
    BY <1>1, <1>2 DEF IInv, TypeOK
  <1>4. AcksOK(acks, msg)'
    BY <1>1 DEF IInv, AcksOK
  <1>. QED
    BY <1>2, <1>3, <1>4 DEF IInv

LEMMA IdleOK == CallOK(IdleCall, msg, conv) /\ IdleCall.pc = "idle"
  BY DEF CallOK, IdleCall, Receiving

\* A call that ends.
LEMMA EndKeeps ==
    ASSUME IInv, NEW t \in Threads, End(t), UNCHANGED <<conv, msg>>
    PROVE  /\ call' \in [Threads -> Call]
           /\ AllOK' /\ OneReceipt' /\ OnePublisher' /\ RowsOK(msg, conv)'
  <1>1. Become(t, IdleCall)
    BY DEF End
  <1>. QED
    BY <1>1, IdleOK, IdleType, CallKeeps DEF Holding

LEMMA EndReadKeeps ==
    ASSUME IInv, NEW t \in Threads, End(t), UNCHANGED <<admin, filed, told, acks>>
    PROVE  IInv'
  <1>1. Become(t, IdleCall)
    BY DEF End
  <1>. QED
    BY <1>1, IdleOK, IdleType, ReadKeeps DEF Holding

-----------------------------------------------------------------------------
(* Receipts *)

LEMMA EnterKeeps ==
    ASSUME IInv, NEW t \in Threads, NEW r \in Requests, Enter(t, r)
    PROVE  IInv'
  <1>. DEFINE c == [IdleCall EXCEPT !.pc = "waiting", !.req = r]
  <1>1. c \in Call
    BY IdleType DEF Call
  <1>2. c.pc = "waiting" /\ c.req = r /\ c.files = NoFiles /\ ~c.new
    BY DEF IdleCall
  <1>3. CallOK(c, msg, conv)
    BY <1>2 DEF CallOK
  <1>4. Become(t, c) /\ UNCHANGED <<admin, filed, told, acks>>
    BY DEF Enter
  <1>. HIDE DEF c
  <1>. QED
    BY <1>1, <1>2, <1>3, <1>4, ReadKeeps DEF Holding

LEMMA MineOK ==
    ASSUME IInv, NEW t \in Threads
    PROVE  call[t] \in Call /\ CallOK(call[t], msg, conv)
  BY DEF IInv, TypeOK, AllOK

LEMMA ReplayKeeps ==
    ASSUME IInv, NEW t \in Threads, Replay(t)
    PROVE  IInv'
  <1>1. PICK m \in Existing(call[t].req) :
          /\ msg[m].got[call[t].req.kind] = call[t].req
          /\ acks' = acks \union {<<call[t].req, m>>}
    BY DEF Replay
  <1>2. m \in Msgs /\ msg[m].there /\ call[t].req \in Requests
    BY MineOK DEF Existing, Replay, Locked, CallOK, Receiving
  <1>3. UNCHANGED <<conv, msg, enabled, sims, bound, active, object, fresh, told>> /\ End(t)
    BY DEF Replay, admin, filed
  <1>4. call' \in [Threads -> Call] /\ AllOK' /\ OneReceipt' /\ OnePublisher'
        /\ RowsOK(msg, conv)'
    BY <1>3, EndKeeps
  <1>5. TypeOK'
    BY <1>1, <1>2, <1>3, <1>4 DEF IInv, TypeOK
  <1>6. AcksOK(acks, msg)'
    BY <1>1, <1>2, <1>3 DEF IInv, AcksOK
  <1>. QED
    BY <1>4, <1>5, <1>6 DEF IInv

LEMMA MergeKeeps ==
    ASSUME IInv, NEW t \in Threads, Merge(t)
    PROVE  IInv'
  <1>. DEFINE r == call[t].req
  <1>1. PICK m \in Existing(r) :
          /\ ~Conflicts(m, r)
          /\ msg[m].got[r.kind] # r
          /\ Become(t, [call[t] EXCEPT !.pc = "writing", !.msg = m,
                 !.conv = msg[m].conv, !.to = Agents(msg[m].sim),
                 !.left = r.files, !.files = msg[m].files])
    BY DEF Merge
  <1>2. PICK c : c = [call[t] EXCEPT !.pc = "writing", !.msg = m,
                 !.conv = msg[m].conv, !.to = Agents(msg[m].sim),
                 !.left = r.files, !.files = msg[m].files]
    OBVIOUS
  <1>3. call[t] \in Call /\ r \in Requests /\ DeviceFree /\ ~call[t].new
    BY MineOK DEF Merge, Locked, CallOK, Receiving
  <1>4. m \in Msgs /\ msg[m].there /\ msg[m].id = r.id /\ msg[m].got[r.kind] = Nil
    BY <1>1 DEF Existing, Conflicts
  <1>5. /\ msg[m] \in MsgRow /\ msg[m].conv \in Convs /\ Agents(msg[m].sim) \subseteq Accounts
        /\ msg[m].files \in [Parts -> Contents \union {Nil}]
    BY <1>4 DEF IInv, TypeOK, RowsOK, Agents, MsgRow
  <1>6. c \in Call
    <2>1. r.files \in Seq(File) /\ Agents(msg[m].sim) \in SUBSET Accounts
      BY <1>3, <1>5, RequestType
    <2>. QED
      BY <1>2, <1>3, <1>4, <1>5, <2>1, MergingType, Zenon
  <1>7. /\ c.pc = "writing" /\ c.msg = m /\ ~c.new /\ c.conv = msg[m].conv
        /\ c.left = r.files /\ c.files = msg[m].files /\ c.req = r
    BY <1>2, <1>3 DEF Call
  <1>8. CallOK(c, msg, conv)
    BY <1>3, <1>4, <1>5, <1>7, RequestType DEF CallOK, Filing
  <1>9. Become(t, c) /\ UNCHANGED <<admin, filed, told, acks>>
    BY <1>1, <1>2 DEF Merge
  <1>. QED
    BY <1>3, <1>6, <1>7, <1>8, <1>9, ReadKeeps

LEMMA ResolveKeeps ==
    ASSUME IInv, NEW t \in Threads, Resolve(t)
    PROVE  IInv'
  <1>. DEFINE s == Resolved(call[t].req)
  <1>1. PICK c : c = [call[t] EXCEPT !.pc = "resolved", !.sim = s, !.to = Agents(s)]
    OBVIOUS
  <1>2. call[t] \in Call /\ call[t].req \in Requests /\ DeviceFree
        /\ call[t].files = NoFiles /\ ~call[t].new /\ Existing(call[t].req) = {}
    BY MineOK DEF Resolve, Locked, CallOK, Receiving
  <1>3. s \in Sims \union {Nil} /\ Agents(s) \subseteq Accounts
    BY DEF IInv, TypeOK, Resolved, Agents
  <1>4. c \in Call
    BY <1>1, <1>2, <1>3 DEF Call
  <1>5. c.pc = "resolved" /\ c.req = call[t].req /\ c.files = NoFiles /\ ~c.new
    BY <1>1, <1>2 DEF Call
  <1>6. Unknown(c.req.id, msg)
    BY <1>2, <1>5 DEF Existing, Unknown
  <1>7. CallOK(c, msg, conv)
    BY <1>2, <1>5, <1>6 DEF CallOK
  <1>8. Become(t, c) /\ UNCHANGED <<admin, filed, told, acks>>
    BY <1>1 DEF Resolve
  <1>. QED
    BY <1>2, <1>4, <1>5, <1>7, <1>8, ReadKeeps

LEMMA InsertKeeps ==
    ASSUME IInv, NEW t \in Threads, Insert(t)
    PROVE  IInv'
  <1>1. PICK v \in (IF Home(call[t].sim) # {} THEN Home(call[t].sim)
                    ELSE {v \in Convs : ~conv[v].there}) :
        \E m \in {n \in Msgs : ~msg[n].there} :
          Become(t, [call[t] EXCEPT !.pc = "writing", !.conv = v, !.msg = m,
                 !.new = TRUE, !.left = call[t].req.files])
    BY DEF Insert
  <1>2. PICK m \in {n \in Msgs : ~msg[n].there} :
          Become(t, [call[t] EXCEPT !.pc = "writing", !.conv = v, !.msg = m,
                 !.new = TRUE, !.left = call[t].req.files])
    BY <1>1
  <1>3. PICK c : c = [call[t] EXCEPT !.pc = "writing", !.conv = v, !.msg = m,
                 !.new = TRUE, !.left = call[t].req.files]
    OBVIOUS
  <1>4. /\ call[t] \in Call /\ call[t].pc = "resolved" /\ call[t].req \in Requests
        /\ call[t].files = NoFiles /\ Unknown(call[t].req.id, msg)
    BY MineOK DEF Insert, CallOK, Receiving
  <1>5. v \in Convs /\ (conv[v].there => conv[v].sim = call[t].sim)
    BY <1>1 DEF Home
  <1>6. c \in Call
    BY <1>2, <1>3, <1>4, <1>5, RequestType DEF Call
  <1>7. /\ c.pc = "writing" /\ c.msg = m /\ c.new /\ c.conv = v /\ c.req = call[t].req
        /\ c.left = c.req.files /\ c.files = NoFiles /\ c.sim = call[t].sim
    BY <1>3, <1>4 DEF Call
  <1>8. CallOK(c, msg, conv)
    BY <1>2, <1>4, <1>5, <1>7, RequestType DEF CallOK, Filing
  <1>9. Become(t, c) /\ UNCHANGED <<admin, filed, told, acks>>
    BY <1>2, <1>3 DEF Insert
  <1>. QED
    BY <1>4, <1>6, <1>7, <1>8, <1>9, ReadKeeps DEF Holding

LEMMA UploadKeeps ==
    ASSUME IInv, NEW t \in Threads, Upload(t)
    PROVE  IInv'
  <1>. DEFINE f == Head(call[t].left)
  <1>1. /\ call[t] \in Call /\ call[t].pc = "writing" /\ call[t].left # <<>>
        /\ CallOK(call[t], msg, conv)
    BY MineOK DEF Upload
  <1>2. f \in File /\ Tail(call[t].left) \in Seq(File)
        /\ call[t].files \in [Parts -> Contents \union {Nil}]
    BY <1>1 DEF Call
  <1>3. PICK c : c = [call[t] EXCEPT !.left = Tail(@), !.files = Stored(@, f)]
    OBVIOUS
  <1>4. Stored(call[t].files, f) \in [Parts -> Contents \union {Nil}]
    BY <1>2, StoredType
  <1>5. c \in Call
    <2>1. PICK c1 \in Call : c1 = [call[t] EXCEPT !.left = Tail(call[t].left)]
      BY <1>1, <1>2, CallFields
    <2>2. [c1 EXCEPT !.files = Stored(call[t].files, f)] \in Call
      BY <2>1, <1>4, CallFields
    <2>. QED
      BY <1>1, <1>3, <2>1, <2>2 DEF Call
  <1>6. /\ c.pc = "writing" /\ c.req = call[t].req /\ c.msg = call[t].msg /\ c.new = call[t].new
        /\ c.conv = call[t].conv /\ c.sim = call[t].sim
    BY <1>1, <1>3 DEF Call
  <1>7. CallOK(c, msg, conv)
    BY <1>1, <1>6 DEF CallOK, Filing, Receiving
  <1>8. Become(t, c) /\ UNCHANGED <<enabled, sims, bound, active, conv, msg, fresh, told, acks>>
    BY <1>3 DEF Upload, admin
  <1>9. /\ call' \in [Threads -> Call]
        /\ AllOK' /\ OneReceipt' /\ OnePublisher' /\ RowsOK(msg, conv)'
    BY <1>1, <1>5, <1>6, <1>7, <1>8, CallKeeps DEF Holding
  <1>10. object' \in [Keys -> Contents \union {Nil}]
    <2>1. object \in [Keys -> Contents \union {Nil}]
      BY DEF IInv, TypeOK
    <2>2. f.data \in Contents \union {Nil}
      BY <1>2 DEF File
    <2>3. object' = IF f.data = Nil THEN object
                    ELSE [object EXCEPT ![Key(call[t].req.id, f.part)] = f.data]
      BY DEF Upload
    <2>. QED
      BY <2>1, <2>2, <2>3
  <1>11. TypeOK'
    BY <1>8, <1>9, <1>10 DEF IInv, TypeOK
  <1>12. AcksOK(acks, msg)'
    BY <1>8 DEF IInv, AcksOK
  <1>. QED
    BY <1>9, <1>11, <1>12 DEF IInv

\* What a commit makes of messages and conversations.
LEMMA CommitRows ==
    ASSUME IInv, NEW t \in Threads, Commit(t)
    PROVE  LET c == call[t]
               w == msg'[c.msg]
               x == conv'[c.conv] IN
           /\ c \in Call /\ c.pc = "writing" /\ c.req \in Requests /\ c.left = <<>>
           /\ Filing(c, msg, conv)
           /\ msg' \in [Msgs -> MsgRow] /\ conv' \in [Convs -> ConvRow]
           /\ \A m \in Msgs : m # c.msg => msg'[m] = msg[m]
           /\ \A v \in Convs : v # c.conv => conv'[v] = conv[v]
           /\ c.new => w.there /\ w.id = c.req.id /\ w.conv = c.conv /\ w.sim = c.sim
           /\ ~c.new => /\ w.there /\ w.id = msg[c.msg].id
                        /\ w.conv = msg[c.msg].conv /\ w.sim = msg[c.msg].sim
           /\ w.got[c.req.kind] = c.req
           /\ \A k \in Kind : k # c.req.kind =>
                 w.got[k] = IF c.new THEN Nil ELSE msg[c.msg].got[k]
           /\ w.files = c.files
           /\ w.body = IF c.req.body # Nil THEN c.req.body
                       ELSE IF c.new THEN Nil ELSE msg[c.msg].body
           /\ x.there
           /\ conv[c.conv].there => x.sim = conv[c.conv].sim
           /\ ~conv[c.conv].there => x.sim = c.sim
           /\ x.unread = (IF conv[c.conv].there THEN conv[c.conv].unread ELSE 0)
                         + (IF c.new THEN 1 ELSE 0)
  <1>. DEFINE c == call[t]
              k == c.conv
              was == IF conv[k].there THEN conv[k]
                     ELSE [there |-> TRUE, sim |-> c.sim, unread |-> 0]
              x == [was EXCEPT !.unread = IF Counts(c) THEN @ + 1 ELSE @]
  <1>1. c \in Call /\ c.pc = "writing" /\ c.req \in Requests /\ c.left = <<>>
        /\ Filing(c, msg, conv)
    BY MineOK DEF Commit, CallOK, Receiving
  <1>2. c.msg \in Msgs /\ c.conv \in Convs
    BY <1>1 DEF Filing
  <1>3. msg \in [Msgs -> MsgRow] /\ conv \in [Convs -> ConvRow]
    BY DEF IInv, TypeOK
  <1>4. msg' = [msg EXCEPT ![c.msg] = Written(c)] /\ conv' = [conv EXCEPT ![k] = x]
    BY DEF Commit
  <1>5. c.new \in BOOLEAN /\ c.sim \in Sims \union {Nil}
    BY <1>1 DEF Call
  <1>6. was \in ConvRow /\ was.there
        /\ was.unread = (IF conv[k].there THEN conv[k].unread ELSE 0)
        /\ was.sim = (IF conv[k].there THEN conv[k].sim ELSE c.sim)
    BY <1>2, <1>3, <1>5 DEF ConvRow
  <1>7. x \in ConvRow /\ x.there /\ x.sim = was.sim
        /\ x.unread = was.unread + (IF c.new THEN 1 ELSE 0)
    <2>. HIDE DEF was
    <2>. QED
      BY <1>5, <1>6 DEF ConvRow, Counts
  <1>8. conv' \in [Convs -> ConvRow] /\ conv'[c.conv] = x
        /\ \A v \in Convs : v # c.conv => conv'[v] = conv[v]
    <2>. HIDE DEF x, c
    <2>. QED
      BY <1>2, <1>3, <1>4, <1>7
  <1>9. Written(c) \in MsgRow
    BY <1>1, <1>2, WrittenRow DEF IInv
  <1>10. msg' \in [Msgs -> MsgRow] /\ msg'[c.msg] = Written(c)
         /\ \A m \in Msgs : m # c.msg => msg'[m] = msg[m]
    <2>. HIDE DEF c
    <2>. QED
      BY <1>2, <1>3, <1>4, <1>9
  <1>11. ~c.new => msg[c.msg].there
    BY <1>1 DEF Filing
  <1>12. LET w == Written(c) IN
           /\ c.new => w.there /\ w.id = c.req.id /\ w.conv = c.conv /\ w.sim = c.sim
           /\ ~c.new => /\ w.there = msg[c.msg].there /\ w.id = msg[c.msg].id
                        /\ w.conv = msg[c.msg].conv /\ w.sim = msg[c.msg].sim
           /\ w.got[c.req.kind] = c.req
           /\ \A kk \in Kind : kk # c.req.kind =>
                 w.got[kk] = IF c.new THEN Nil ELSE msg[c.msg].got[kk]
           /\ w.files = c.files
           /\ w.body = IF c.req.body # Nil THEN c.req.body
                       ELSE IF c.new THEN Nil ELSE msg[c.msg].body
    BY <1>1, <1>2, WrittenRow, Zenon DEF IInv
  <1>. HIDE DEF c, x, was
  <1>13. \A kk \in Kind : kk # c.req.kind =>
             msg'[c.msg].got[kk] = IF c.new THEN Nil ELSE msg[c.msg].got[kk]
    BY <1>10, <1>12
  <1>14. /\ c.new => /\ msg'[c.msg].there /\ msg'[c.msg].id = c.req.id
                     /\ msg'[c.msg].conv = c.conv /\ msg'[c.msg].sim = c.sim
         /\ ~c.new => /\ msg'[c.msg].there /\ msg'[c.msg].id = msg[c.msg].id
                      /\ msg'[c.msg].conv = msg[c.msg].conv /\ msg'[c.msg].sim = msg[c.msg].sim
         /\ msg'[c.msg].got[c.req.kind] = c.req
         /\ msg'[c.msg].files = c.files
         /\ msg'[c.msg].body = IF c.req.body # Nil THEN c.req.body
                               ELSE IF c.new THEN Nil ELSE msg[c.msg].body
    BY <1>10, <1>11, <1>12
  <1>15. /\ conv'[c.conv].there
         /\ conv[c.conv].there => conv'[c.conv].sim = conv[c.conv].sim
         /\ ~conv[c.conv].there => conv'[c.conv].sim = c.sim
         /\ conv'[c.conv].unread = (IF conv[c.conv].there THEN conv[c.conv].unread ELSE 0)
                                   + (IF c.new THEN 1 ELSE 0)
    BY <1>6, <1>7, <1>8 DEF k
  <1>. QED
    BY <1>1, <1>8, <1>10, <1>13, <1>14, <1>15, Zenon DEF c

LEMMA CommitKeeps ==
    ASSUME IInv, NEW t \in Threads, Commit(t)
    PROVE  IInv'
  <1>1. PICK c \in Call : c = call[t]
    BY CommitRows
  <1>2. c.msg \in Msgs /\ c.conv \in Convs /\ c.req \in Requests /\ c.req.kind \in Kind
        /\ c.req # Nil /\ c.pc = "writing"
    BY <1>1, CommitRows, RequestType DEF Filing
  <1>3. ~c.new => /\ msg[c.msg].there /\ msg[c.msg].conv = c.conv
                  /\ msg[c.msg].got[c.req.kind] = Nil
                  /\ conv[c.conv].there /\ conv[c.conv].sim = msg[c.msg].sim
                  /\ c.req.kind # "downloaded" => c.files = msg[c.msg].files
    BY <1>1, <1>2, CommitRows DEF Filing, IInv, RowsOK
  <1>4. c.new => /\ ~msg[c.msg].there /\ Unknown(c.req.id, msg)
                 /\ conv[c.conv].there => conv[c.conv].sim = c.sim
                 /\ c.req.kind # "downloaded" => c.files = NoFiles
    BY <1>1, CommitRows DEF Filing
  <1>5. /\ \A m \in Msgs : m # c.msg => msg'[m] = msg[m]
        /\ \A v \in Convs : v # c.conv => conv'[v] = conv[v]
    BY <1>1, CommitRows
  <1>6. /\ msg'[c.msg].there
        /\ c.new => msg'[c.msg].id = c.req.id
        /\ ~c.new => msg'[c.msg].id = msg[c.msg].id
        /\ msg'[c.msg].conv = c.conv
        /\ c.new => msg'[c.msg].sim = c.sim
        /\ ~c.new => msg'[c.msg].sim = msg[c.msg].sim
    BY <1>1, <1>3, CommitRows
  <1>7. /\ msg'[c.msg].got[c.req.kind] = c.req
        /\ msg'[c.msg].files = c.files
        /\ \A k \in Kind : k # c.req.kind =>
              /\ c.new => msg'[c.msg].got[k] = Nil
              /\ ~c.new => msg'[c.msg].got[k] = msg[c.msg].got[k]
    BY <1>1, CommitRows
  <1>8. /\ conv'[c.conv].there /\ conv'[c.conv].sim = msg'[c.msg].sim
        /\ conv[c.conv].there => conv'[c.conv].sim = conv[c.conv].sim
    BY <1>1, <1>3, <1>4, <1>6, CommitRows
  \* What a stored message has got it keeps.
  <1>9. ASSUME NEW m \in Msgs, NEW r \in Requests, msg[m].there, msg[m].got[r.kind] = r
        PROVE  msg'[m].there /\ msg'[m].got[r.kind] = r /\ (m = c.msg => r.kind # c.req.kind)
    <2>1. r.kind \in Kind /\ r # Nil
      BY RequestType
    <2>2. m = c.msg => ~c.new /\ r.kind # c.req.kind
      BY <1>3, <1>4, <1>9, <2>1
    <2>. QED
      BY <1>5, <1>6, <1>7, <1>9, <2>1, <2>2
  <1>10. RowsOK(msg', conv')
    <2>1. RowsOK(msg, conv)
      BY DEF IInv
    <2>2. ASSUME NEW m \in Msgs, msg'[m].there
          PROVE  /\ msg'[m].id \in Ids /\ msg'[m].conv \in Convs
                 /\ conv'[msg'[m].conv].there /\ conv'[msg'[m].conv].sim = msg'[m].sim
      <3>1. CASE m = c.msg
        BY <1>2, <1>3, <1>6, <1>8, <2>1, <3>1, RequestType DEF RowsOK
      <3>2. CASE m # c.msg
        <4>1. /\ msg[m].id \in Ids /\ msg[m].conv \in Convs
              /\ conv[msg[m].conv].there /\ conv[msg[m].conv].sim = msg[m].sim
              /\ msg'[m] = msg[m]
          BY <1>5, <2>1, <2>2, <3>2 DEF RowsOK
        <4>. QED
          BY <1>5, <1>8, <4>1
      <3>. QED
        BY <3>1, <3>2
    <2>3. ASSUME NEW m \in Msgs, NEW n \in Msgs, msg'[m].there, msg'[n].there,
                 msg'[m].id = msg'[n].id
          PROVE  m = n
      <3>1. CASE c.new
        BY <1>4, <1>5, <1>6, <2>1, <2>3, <3>1 DEF Unknown, RowsOK
      <3>2. CASE ~c.new
        BY <1>3, <1>5, <1>6, <2>1, <2>3, <3>2 DEF RowsOK
      <3>. QED
        BY <3>1, <3>2
    <2>4. ASSUME NEW m \in Msgs, msg'[m].got["downloaded"] = Nil
          PROVE  msg'[m].files = NoFiles
      <3>1. CASE m # c.msg
        BY <1>5, <2>1, <2>4, <3>1 DEF RowsOK
      <3>2. CASE m = c.msg
        <4>1. c.req.kind # "downloaded" /\ "downloaded" \in Kind
          BY <1>2, <1>7, <2>4, <3>2 DEF Kind
        <4>2. c.new => c.files = NoFiles
          BY <1>4, <4>1
        <4>3. ~c.new => c.files = NoFiles
          BY <1>2, <1>3, <1>7, <2>1, <2>4, <3>2, <4>1 DEF RowsOK
        <4>. QED
          BY <1>7, <3>2, <4>2, <4>3
      <3>. QED
        BY <3>1, <3>2
    <2>5. \A v \in Convs : ~conv'[v].there => conv'[v] = NoConv
      BY <1>5, <1>8, <2>1 DEF RowsOK
    <2>. QED
      BY <2>2, <2>3, <2>4, <2>5 DEF RowsOK
  <1>11. PICK d : /\ d = [c EXCEPT !.pc = "publishing",
                                   !.to = IF Announced(c) THEN @ ELSE {}]
                  /\ call' = [call EXCEPT ![t] = d]
    BY <1>1 DEF Commit, Become
  <1>12. d \in Call /\ d.pc = "publishing" /\ d.msg = c.msg /\ d.req = c.req
    <2>1. (IF Announced(c) THEN c.to ELSE {}) \in SUBSET Accounts
      BY DEF Call
    <2>. QED
      BY <1>11, <2>1 DEF Call
  <1>13. call \in [Threads -> Call]
    BY DEF IInv, TypeOK
  <1>14. call' \in [Threads -> Call] /\ call'[t] = d
         /\ \A u \in Threads : u # t => call'[u] = call[u]
    BY <1>11, <1>12, <1>13
  <1>15. \A u \in Threads : u # t => call[u].pc \notin Holding
    BY <1>1, <1>2 DEF IInv, OneReceipt, Holding
  <1>16. \A u \in Threads : CallOK(call'[u], msg', conv')
    <2>1. CallOK(d, msg', conv')
      BY <1>2, <1>6, <1>7, <1>12 DEF CallOK, Receiving
    <2>2. ASSUME NEW u \in Threads, u # t
          PROVE  CallOK(call[u], msg', conv')
      <3>1. CallOK(call[u], msg, conv) /\ call[u].pc \notin Holding
        BY <1>15, <2>2, MineOK
      <3>2. call[u].pc = "publishing" =>
                msg'[call[u].msg].there /\ msg'[call[u].msg].got[call[u].req.kind] = call[u].req
        BY <1>9, <3>1 DEF CallOK, Receiving
      <3>. QED
        BY <3>1, <3>2 DEF CallOK, Holding
    <2>. QED
      BY <1>14, <2>1, <2>2
  <1>17. OneReceipt'
    BY <1>12, <1>14, <1>15 DEF OneReceipt, Holding
  <1>18. OnePublisher'
    <2>1. ASSUME NEW u \in Threads, u # t, call[u].pc = "publishing", call[u].msg = c.msg
          PROVE  call[u].req.kind # c.req.kind
      <3>1. /\ call[u].msg \in Msgs /\ call[u].req \in Requests
            /\ msg[call[u].msg].there
            /\ msg[call[u].msg].got[call[u].req.kind] = call[u].req
        BY <2>1, MineOK DEF CallOK, Receiving
      <3>. QED
        BY <1>9, <2>1, <3>1
    <2>2. OnePublisher
      BY DEF IInv
    <2>. QED
      BY <1>12, <1>14, <2>1, <2>2 DEF OnePublisher
  <1>19. AcksOK(acks', msg')
    <2>1. ASSUME NEW y \in acks
          PROVE  msg'[y[2]].there /\ msg'[y[2]].got[y[1].kind] = y[1]
      <3>1. y[1] \in Requests /\ y[2] \in Msgs
        BY DEF IInv, TypeOK
      <3>2. msg[y[2]].there /\ msg[y[2]].got[y[1].kind] = y[1]
        BY DEF IInv, AcksOK
      <3>. QED
        BY <1>9, <3>1, <3>2
    <2>2. acks' = acks
      BY DEF Commit
    <2>. QED
      BY <2>1, <2>2 DEF AcksOK
  <1>20. TypeOK'
    <2>1. msg' \in [Msgs -> MsgRow] /\ conv' \in [Convs -> ConvRow]
      BY CommitRows
    <2>2. fresh' \in [Convs -> SUBSET Msgs]
      <3>1. fresh' = [fresh EXCEPT ![c.conv] = IF c.new THEN @ \union {c.msg} ELSE @]
        BY <1>1 DEF Commit
      <3>2. fresh \in [Convs -> SUBSET Msgs]
        BY DEF IInv, TypeOK
      <3>. QED
        BY <1>2, <3>1, <3>2
    <2>3. UNCHANGED <<enabled, sims, bound, active, object, told, acks>>
      BY DEF Commit, admin
    <2>. QED
      BY <1>14, <2>1, <2>2, <2>3 DEF IInv, TypeOK
  <1>. QED
    BY <1>10, <1>14, <1>16, <1>17, <1>18, <1>19, <1>20 DEF IInv, AllOK

LEMMA PublishKeeps ==
    ASSUME IInv, NEW t \in Threads, Publish(t)
    PROVE  IInv'
  <1>1. PICK a \in call[t].to :
          /\ told' \in {told, [told EXCEPT ![<<a, call[t].msg>>] = @ + 1]}
          /\ Become(t, [call[t] EXCEPT !.to = @ \ {a}])
    BY DEF Publish
  <1>2. PICK c : c = [call[t] EXCEPT !.to = @ \ {a}]
    OBVIOUS
  <1>3. /\ call[t] \in Call /\ call[t].pc = "publishing" /\ CallOK(call[t], msg, conv)
        /\ call[t].to \in SUBSET Accounts
    BY MineOK DEF Publish, Call
  <1>4. c \in Call /\ c.pc = "publishing" /\ c.req = call[t].req /\ c.msg = call[t].msg
    <2>1. call[t].to \ {a} \in SUBSET Accounts
      BY <1>3
    <2>. QED
      BY <1>2, <1>3, <2>1 DEF Call
  <1>5. CallOK(c, msg, conv)
    BY <1>3, <1>4 DEF CallOK, Receiving
  <1>6. Become(t, c) /\ UNCHANGED <<enabled, sims, bound, active, conv, msg, object, fresh, acks>>
    BY <1>1, <1>2 DEF Publish, admin, filed
  <1>7. /\ call' \in [Threads -> Call]
        /\ AllOK' /\ OneReceipt' /\ OnePublisher' /\ RowsOK(msg, conv)'
    BY <1>3, <1>4, <1>5, <1>6, CallKeeps DEF Holding
  <1>8. told' \in [Accounts \X Msgs -> Nat]
    <2>1. told \in [Accounts \X Msgs -> Nat]
      BY DEF IInv, TypeOK
    <2>. QED
      BY <1>1, <2>1
  <1>9. TypeOK' /\ AcksOK(acks, msg)'
    BY <1>6, <1>7, <1>8 DEF IInv, TypeOK, AcksOK
  <1>. QED
    BY <1>7, <1>9 DEF IInv

LEMMA FinishKeeps ==
    ASSUME IInv, NEW t \in Threads, Finish(t)
    PROVE  IInv'
  <1>1. /\ call[t].req \in Requests /\ call[t].msg \in Msgs
        /\ msg[call[t].msg].there /\ msg[call[t].msg].got[call[t].req.kind] = call[t].req
    BY MineOK DEF Finish, CallOK, Receiving
  <1>2. /\ UNCHANGED <<conv, msg, enabled, sims, bound, active, object, fresh, told>>
        /\ acks' = acks \union {<<call[t].req, call[t].msg>>} /\ End(t)
    BY DEF Finish, admin, filed
  <1>3. call' \in [Threads -> Call] /\ AllOK' /\ OneReceipt' /\ OnePublisher'
        /\ RowsOK(msg, conv)'
    BY <1>2, EndKeeps
  <1>4. TypeOK'
    BY <1>1, <1>2, <1>3 DEF IInv, TypeOK
  <1>5. AcksOK(acks, msg)'
    BY <1>1, <1>2 DEF IInv, AcksOK
  <1>. QED
    BY <1>3, <1>4, <1>5 DEF IInv

LEMMA ReceiptKeeps ==
    ASSUME IInv, NEW t \in Threads, ReceiptStep(t)
    PROVE  IInv'
  <1>1. CASE Refuse(t) \/ Conflict(t) \/ Abort(t)
    BY <1>1, EndReadKeeps DEF Refuse, Conflict, Abort
  <1>. QED
    BY <1>1, ReplayKeeps, MergeKeeps, ResolveKeeps, InsertKeeps, UploadKeeps, CommitKeeps,
       PublishKeeps, FinishKeeps DEF ReceiptStep

-----------------------------------------------------------------------------
(* Agents *)

LEMMA OpenKeeps ==
    ASSUME IInv, NEW t \in Threads, NEW a \in Accounts, NEW v \in Convs,
           NEW next \in {"opening", "reading"}, Open(t, a, v, next)
    PROVE  IInv'
  <1>. DEFINE c == [IdleCall EXCEPT !.pc = next, !.acc = a, !.conv = v]
  <1>1. c \in Call /\ c.pc = next
    BY IdleType DEF Call
  <1>2. CallOK(c, msg, conv) /\ c.pc \notin Holding /\ c.pc # "publishing"
    BY <1>1 DEF CallOK, Receiving, Holding
  <1>3. Become(t, c) /\ UNCHANGED <<admin, filed, told, acks>>
    BY DEF Open
  <1>. HIDE DEF c
  <1>. QED
    BY <1>1, <1>2, <1>3, ReadKeeps

LEMMA ListKeeps ==
    ASSUME IInv, NEW t \in Threads, List(t)
    PROVE  IInv'
  <1>1. call[t] \in Call
    BY MineOK
  <1>2. Downloaded(call[t].conv) \in SUBSET Msgs /\ FileRows(call[t].conv) \in SUBSET (Msgs \X Parts)
    BY DEF Downloaded, FileRows
  <1>3. UNCHANGED <<admin, filed, told, acks>>
    BY DEF List
  <1>4. ASSUME NEW c \in Call, c.pc \in {"listing", "listed"}, Become(t, c)
        PROVE  IInv'
    <2>1. CallOK(c, msg, conv) /\ c.pc \notin Holding /\ c.pc # "publishing"
      BY <1>4 DEF CallOK, Receiving, Holding
    <2>. QED
      BY <1>3, <1>4, <2>1, ReadKeeps
  <1>5. CASE Become(t, [call[t] EXCEPT !.pc = "listing", !.whole = Downloaded(call[t].conv)])
    <2>1. PICK c : c = [call[t] EXCEPT !.pc = "listing", !.whole = Downloaded(call[t].conv)]
      OBVIOUS
    <2>2. c \in Call /\ c.pc = "listing"
      BY <1>1, <1>2, <2>1 DEF Call
    <2>. QED
      BY <1>4, <1>5, <2>1, <2>2
  <1>6. CASE Become(t, [call[t] EXCEPT !.pc = "listed", !.stored = FileRows(call[t].conv)])
    <2>1. PICK c : c = [call[t] EXCEPT !.pc = "listed", !.stored = FileRows(call[t].conv)]
      OBVIOUS
    <2>2. c \in Call /\ c.pc = "listed"
      <3>1. PICK d \in Call : d = [call[t] EXCEPT !.pc = "listed"]
        BY <1>1, CallFields
      <3>2. [d EXCEPT !.stored = FileRows(call[t].conv)] \in Call
        BY <1>2, <3>1, CallFields
      <3>. QED
        BY <1>1, <2>1, <3>1, <3>2 DEF Call
    <2>. QED
      BY <1>4, <1>6, <2>1, <2>2
  <1>7. CASE End(t)
    BY <1>3, <1>7, EndReadKeeps
  <1>. QED
    BY <1>5, <1>6, <1>7 DEF List

LEMMA ReadStartKeeps ==
    ASSUME IInv, NEW t \in Threads, ReadStart(t)
    PROVE  IInv'
  <1>1. call[t] \in Call /\ UNCHANGED <<admin, filed, told, acks>>
    BY MineOK DEF ReadStart
  <1>. DEFINE mine == {s \in Sims : <<call[t].acc, s>> \in bound}
  <1>2. CASE /\ Assigned(call[t].acc, call[t].conv)
             /\ Become(t, [call[t] EXCEPT !.pc = "clearing", !.mine = mine])
    <2>1. PICK c : c = [call[t] EXCEPT !.pc = "clearing", !.mine = mine]
      OBVIOUS
    <2>2. c \in Call /\ c.pc = "clearing" /\ c.conv = call[t].conv
      BY <1>1, <2>1 DEF Call
    <2>3. call[t].conv \in Convs
      BY <1>2, MineOK DEF CallOK, ReadStart
    <2>4. CallOK(c, msg, conv)
      BY <2>2, <2>3 DEF CallOK, Receiving
    <2>. QED
      BY <1>1, <1>2, <2>1, <2>2, <2>4, ReadKeeps DEF Holding
  <1>3. CASE End(t)
    BY <1>1, <1>3, EndReadKeeps
  <1>. QED
    BY <1>2, <1>3 DEF ReadStart

\* What marking a conversation read makes of the conversations.
LEMMA ReadCommitRows ==
    ASSUME IInv, NEW t \in Threads, ReadCommit(t)
    PROVE  LET k == call[t].conv IN
           /\ k \in Convs
           /\ conv' \in [Convs -> ConvRow] /\ fresh' \in [Convs -> SUBSET Msgs]
           /\ \A v \in Convs : /\ conv'[v].there = conv[v].there /\ conv'[v].sim = conv[v].sim
                               /\ ~conv[v].there => conv'[v] = conv[v]
                               /\ \/ conv'[v].unread = 0 /\ fresh'[v] = {}
                                  \/ conv'[v].unread = conv[v].unread /\ fresh'[v] = fresh[v]
  <1>. DEFINE k == call[t].conv
  <1>1. k \in Convs /\ call[t] \in Call
    BY MineOK DEF ReadCommit, CallOK
  <1>2. conv \in [Convs -> ConvRow] /\ fresh \in [Convs -> SUBSET Msgs]
    BY DEF IInv, TypeOK
  <1>3. CASE conv[k].sim \in call[t].mine
    <2>1. conv' = [conv EXCEPT ![k].unread = 0] /\ fresh' = [fresh EXCEPT ![k] = {}]
      BY <1>3 DEF ReadCommit
    <2>2. conv[k].there
      <3>1. call[t].mine \subseteq Sims
        BY <1>1 DEF Call
      <3>. QED
        BY <1>1, <1>3, <3>1, NilIsNone DEF IInv, RowsOK, NoConv
    <2>3. PICK x : x = [conv[k] EXCEPT !.unread = 0]
      OBVIOUS
    <2>4. x \in ConvRow /\ x.there = conv[k].there /\ x.sim = conv[k].sim /\ x.unread = 0
      BY <1>1, <1>2, <2>3 DEF ConvRow
    <2>5. conv' = [conv EXCEPT ![k] = x]
      BY <2>1, <2>3
    <2>. HIDE DEF k
    <2>. QED
      BY <1>1, <1>2, <2>1, <2>2, <2>4, <2>5 DEF k
  <1>4. CASE conv[k].sim \notin call[t].mine
    <2>1. conv' = conv /\ fresh' = fresh
      BY <1>4 DEF ReadCommit
    <2>. QED
      BY <1>1, <1>2, <2>1
  <1>. QED
    BY <1>3, <1>4

-----------------------------------------------------------------------------
(* Steps that change no message but its SIM *)

\* Messages and conversations keep all but their SIMs and counts, and a
\* conversation that a message is being filed in keeps its SIM.
SameRows ==
    /\ \A m \in Msgs : /\ msg'[m].there = msg[m].there /\ msg'[m].id = msg[m].id
                       /\ msg'[m].conv = msg[m].conv /\ msg'[m].got = msg[m].got
                       /\ msg'[m].files = msg[m].files
    /\ \A v \in Convs : conv'[v].there = conv[v].there
    /\ \A u \in Threads : call[u].pc = "writing" /\ call[u].new =>
          (conv[call[u].conv].there => conv'[call[u].conv].sim = conv[call[u].conv].sim)

LEMMA SameCallOK ==
    ASSUME IInv, SameRows, NEW u \in Threads
    PROVE  CallOK(call[u], msg', conv')
  <1>1. CallOK(call[u], msg, conv)
    BY MineOK
  <1>2. call[u].pc = "resolved" => Unknown(call[u].req.id, msg')
    BY <1>1 DEF CallOK, SameRows, Unknown
  <1>3. ASSUME call[u].pc = "writing" PROVE Filing(call[u], msg', conv')
    <2>1. Filing(call[u], msg, conv)
      BY <1>1, <1>3 DEF CallOK
    <2>2. call[u].msg \in Msgs /\ call[u].conv \in Convs
      BY <2>1 DEF Filing
    <2>3. CASE call[u].new
      BY <1>3, <2>1, <2>2, <2>3 DEF SameRows, Filing, Unknown
    <2>4. CASE ~call[u].new
      BY <2>1, <2>2, <2>4 DEF SameRows, Filing
    <2>. QED
      BY <2>3, <2>4
  <1>4. call[u].pc = "publishing" =>
          /\ call[u].msg \in Msgs /\ msg'[call[u].msg].there
          /\ msg'[call[u].msg].got[call[u].req.kind] = call[u].req
    BY <1>1 DEF CallOK, SameRows
  <1>. QED
    BY <1>1, <1>2, <1>3, <1>4 DEF CallOK

LEMMA ReadCommitKeeps ==
    ASSUME IInv, NEW t \in Threads, ReadCommit(t)
    PROVE  IInv'
  <1>1. /\ \A v \in Convs : /\ conv'[v].there = conv[v].there /\ conv'[v].sim = conv[v].sim
                            /\ ~conv[v].there => conv'[v] = conv[v]
        /\ conv' \in [Convs -> ConvRow] /\ fresh' \in [Convs -> SUBSET Msgs]
    BY ReadCommitRows
  <1>2. End(t) /\ UNCHANGED <<enabled, sims, bound, active, msg, object, told, acks>>
    BY DEF ReadCommit, admin
  <1>3. SameRows
    BY <1>1, <1>2, MineOK DEF SameRows, CallOK, Filing
  <1>4. /\ call' \in [Threads -> Call] /\ call'[t] = IdleCall
        /\ \A u \in Threads : u # t => call'[u] = call[u]
    BY <1>2, IdleType DEF End, Become, IInv, TypeOK
  <1>5. \A u \in Threads : CallOK(call'[u], msg', conv')
    <2>1. CallOK(IdleCall, msg', conv')
      BY DEF CallOK, IdleCall, Receiving
    <2>. QED
      BY <1>3, <1>4, <2>1, SameCallOK
  <1>6. OneReceipt' /\ OnePublisher'
    BY <1>4, IdleOK DEF IInv, OneReceipt, OnePublisher, Holding
  <1>7. RowsOK(msg', conv')
    BY <1>1, <1>2 DEF IInv, RowsOK
  <1>8. TypeOK' /\ AcksOK(acks', msg')
    BY <1>1, <1>2, <1>4 DEF IInv, TypeOK, AcksOK
  <1>. QED
    BY <1>5, <1>6, <1>7, <1>8 DEF IInv, AllOK

-----------------------------------------------------------------------------
(* The administrator *)

LEMMA VanishRows ==
    ASSUME IInv, NEW gone \in SUBSET Sims, Vanish(gone)
    PROVE  /\ msg' \in [Msgs -> MsgRow] /\ conv' \in [Convs -> ConvRow]
           /\ \A m \in Msgs : /\ msg'[m].there = msg[m].there /\ msg'[m].id = msg[m].id
                              /\ msg'[m].conv = msg[m].conv /\ msg'[m].got = msg[m].got
                              /\ msg'[m].files = msg[m].files /\ msg'[m].body = msg[m].body
                              /\ msg'[m].sim = IF msg[m].sim \in gone THEN Nil ELSE msg[m].sim
           /\ \A v \in Convs : /\ conv'[v].there = conv[v].there
                               /\ conv'[v].unread = conv[v].unread
                               /\ conv'[v].sim = IF conv[v].sim \in gone THEN Nil ELSE conv[v].sim
                               /\ conv[v].sim \notin gone => conv'[v] = conv[v]
  <1>1. msg \in [Msgs -> MsgRow] /\ conv \in [Convs -> ConvRow]
    BY DEF IInv, TypeOK
  <1>2. ASSUME NEW m \in Msgs
        PROVE  /\ msg'[m] \in MsgRow
               /\ msg'[m].there = msg[m].there /\ msg'[m].id = msg[m].id
               /\ msg'[m].conv = msg[m].conv /\ msg'[m].got = msg[m].got
               /\ msg'[m].files = msg[m].files /\ msg'[m].body = msg[m].body
               /\ msg'[m].sim = IF msg[m].sim \in gone THEN Nil ELSE msg[m].sim
    <2>1. msg'[m] = IF msg[m].sim \in gone THEN [msg[m] EXCEPT !.sim = Nil] ELSE msg[m]
      BY DEF Vanish
    <2>2. msg[m] \in MsgRow
      BY <1>1
    <2>. QED
      BY <2>1, <2>2 DEF MsgRow
  <1>3. ASSUME NEW v \in Convs
        PROVE  /\ conv'[v] \in ConvRow
               /\ conv'[v].there = conv[v].there /\ conv'[v].unread = conv[v].unread
               /\ conv'[v].sim = IF conv[v].sim \in gone THEN Nil ELSE conv[v].sim
               /\ conv[v].sim \notin gone => conv'[v] = conv[v]
    <2>1. conv'[v] = IF conv[v].sim \in gone THEN [conv[v] EXCEPT !.sim = Nil] ELSE conv[v]
      BY DEF Vanish
    <2>2. conv[v] \in ConvRow
      BY <1>1
    <2>. QED
      BY <2>1, <2>2 DEF ConvRow
  <1>4. msg' \in [Msgs -> MsgRow]
    <2>1. msg' = [m \in Msgs |-> msg'[m]]
      BY DEF Vanish
    <2>. QED
      BY <1>2, <2>1
  <1>5. conv' \in [Convs -> ConvRow]
    <2>1. conv' = [v \in Convs |-> conv'[v]]
      BY DEF Vanish
    <2>. QED
      BY <1>3, <2>1
  <1>. QED
    BY <1>2, <1>3, <1>4, <1>5

LEMMA VanishKeeps ==
    ASSUME IInv, NEW gone \in SUBSET Sims, Vanish(gone),
           UNCHANGED <<active, object, call, told, fresh, acks>>, enabled' \in BOOLEAN,
           \A u \in Threads : call[u].pc = "writing" /\ call[u].new => call[u].sim \notin gone
    PROVE  IInv'
  <1>1. SameRows
    <2>1. ASSUME NEW u \in Threads, call[u].pc = "writing", call[u].new,
                 conv[call[u].conv].there
          PROVE  conv'[call[u].conv].sim = conv[call[u].conv].sim
      <3>1. call[u].conv \in Convs /\ conv[call[u].conv].sim = call[u].sim
        BY <2>1, MineOK DEF CallOK, Filing
      <3>. QED
        BY <2>1, <3>1, VanishRows
    <2>. QED
      BY <2>1, VanishRows DEF SameRows
  <1>2. AllOK'
    BY <1>1, SameCallOK DEF AllOK
  <1>3. OneReceipt' /\ OnePublisher'
    BY DEF IInv, OneReceipt, OnePublisher
  <1>4. RowsOK(msg', conv')
    <2>1. RowsOK(msg, conv)
      BY DEF IInv
    <2>2. ASSUME NEW v \in Convs, ~conv'[v].there
          PROVE  conv'[v] = NoConv
      <3>1. conv[v] = NoConv
        BY <2>1, <2>2, VanishRows DEF RowsOK
      <3>2. conv[v].sim \notin gone
        BY <3>1, NilIsNone DEF NoConv
      <3>. QED
        BY <3>1, <3>2, VanishRows
    <2>. QED
      BY <2>1, <2>2, VanishRows DEF RowsOK
  <1>5. AcksOK(acks', msg')
    <2>1. ASSUME NEW y \in acks
          PROVE  msg'[y[2]].there /\ msg'[y[2]].got[y[1].kind] = y[1]
      <3>1. y[2] \in Msgs /\ msg[y[2]].there /\ msg[y[2]].got[y[1].kind] = y[1]
        BY DEF IInv, TypeOK, AcksOK
      <3>. QED
        BY <3>1, VanishRows
    <2>. QED
      BY <2>1 DEF AcksOK
  <1>6. sims' \subseteq Sims /\ bound' \subseteq Accounts \X Sims
    BY DEF Vanish, IInv, TypeOK
  <1>7. TypeOK'
    BY <1>6, VanishRows DEF IInv, TypeOK
  <1>. QED
    BY <1>2, <1>3, <1>4, <1>5, <1>7 DEF IInv

LEMMA DeleteSimKeeps ==
    ASSUME IInv, NEW s \in Sims, DeleteSim(s)
    PROVE  IInv'
  <1>1. {s} \in SUBSET Sims /\ Vanish({s})
        /\ UNCHANGED <<enabled, active, object, call, told, fresh, acks>>
    BY DEF DeleteSim
  <1>2. \A u \in Threads : call[u].pc = "writing" /\ call[u].new => call[u].sim \notin {s}
    BY DEF DeleteSim, SimFree
  <1>3. enabled' \in BOOLEAN
    BY <1>1 DEF IInv, TypeOK
  <1>. QED
    BY <1>1, <1>2, <1>3, VanishKeeps

LEMMA UnregisterKeeps ==
    ASSUME IInv, UnregisterDevice
    PROVE  IInv'
  <1>1. sims \in SUBSET Sims /\ Vanish(sims) /\ enabled' = FALSE
        /\ UNCHANGED <<active, object, call, told, fresh, acks>>
    BY DEF UnregisterDevice, IInv, TypeOK
  <1>2. \A u \in Threads : call[u].pc = "writing" /\ call[u].new => call[u].sim \notin sims
    BY DEF UnregisterDevice, DeviceFree
  <1>. QED
    BY <1>1, <1>2, VanishKeeps

\* Steps of the administrator that touch neither calls nor what is filed.
LEMMA GrantKeeps ==
    ASSUME IInv, UNCHANGED <<enabled, sims, filed, call, told, acks>>,
           bound' \subseteq Accounts \X Sims, active' \subseteq Accounts
    PROVE  IInv'
  <1>1. UNCHANGED <<conv, msg, object, fresh>>
    BY DEF filed
  <1>2. TypeOK'
    BY <1>1 DEF IInv, TypeOK
  <1>3. AllOK' /\ OneReceipt' /\ OnePublisher' /\ RowsOK(msg', conv') /\ AcksOK(acks', msg')
    BY <1>1 DEF IInv, AllOK, OneReceipt, OnePublisher
  <1>. QED
    BY <1>2, <1>3 DEF IInv

-----------------------------------------------------------------------------
(* The invariant *)

LEMMA InitIInv == Init => IInv
  <1>. SUFFICES ASSUME Init PROVE IInv
    OBVIOUS
  <1>1. /\ \A t \in Threads : call[t] = IdleCall
        /\ \A m \in Msgs : msg[m] = NoMsg
        /\ \A c \in Convs : conv[c] = NoConv
    BY DEF Init
  <1>2. NoMsg \in MsgRow /\ ~NoMsg.there /\ NoMsg.files = NoFiles
    BY NoFilesType DEF NoMsg, MsgRow
  <1>3. NoConv \in ConvRow /\ ~NoConv.there
    BY DEF NoConv, ConvRow
  <1>4. TypeOK
    BY <1>2, <1>3, IdleType DEF Init, TypeOK
  <1>5. AllOK
    BY <1>1 DEF AllOK, CallOK, IdleCall, Receiving
  <1>6. OneReceipt /\ OnePublisher
    BY <1>1 DEF OneReceipt, OnePublisher, IdleCall, Holding
  <1>7. RowsOK(msg, conv)
    BY <1>1, <1>2, <1>3 DEF RowsOK
  <1>8. AcksOK(acks, msg)
    BY DEF Init, AcksOK
  <1>. QED
    BY <1>4, <1>5, <1>6, <1>7, <1>8 DEF IInv

LEMMA NextIInv == IInv /\ [Next]_vars => IInv'
  <1>. SUFFICES ASSUME IInv, [Next]_vars PROVE IInv'
    OBVIOUS
  <1>1. ASSUME NEW t \in Threads, ReceiptStep(t) \/ AgentStep(t) PROVE IInv'
    BY <1>1, ReceiptKeeps, ListKeeps, ReadStartKeeps, ReadCommitKeeps DEF AgentStep
  <1>2. ASSUME NEW t \in Threads, NEW r \in Requests, Enter(t, r) PROVE IInv'
    BY <1>2, EnterKeeps
  <1>3. ASSUME NEW t \in Threads, NEW a \in Accounts, NEW c \in Convs,
               NEW next \in {"opening", "reading"}, Open(t, a, c, next)
        PROVE  IInv'
    BY <1>3, OpenKeeps
  <1>4. ASSUME NEW a \in Accounts, SetStatus(a) PROVE IInv'
    <2>1. active' \subseteq Accounts /\ bound' \subseteq Accounts \X Sims
      BY <1>4 DEF SetStatus, IInv, TypeOK
    <2>. QED
      BY <1>4, <2>1, GrantKeeps DEF SetStatus
  <1>5. ASSUME NEW a \in Accounts, NEW s \in Sims, Rebind(a, s) PROVE IInv'
    <2>1. active' \subseteq Accounts /\ bound' \subseteq Accounts \X Sims
      BY <1>5 DEF Rebind, IInv, TypeOK
    <2>. QED
      BY <1>5, <2>1, GrantKeeps DEF Rebind
  <1>6. ASSUME NEW s \in Sims, DeleteSim(s) PROVE IInv'
    BY <1>6, DeleteSimKeeps
  <1>7. CASE UnregisterDevice
    BY <1>7, UnregisterKeeps
  <1>8. CASE UNCHANGED vars
    <2>1. UNCHANGED <<enabled, sims, filed, call, told, acks>> /\ bound' = bound /\ active' = active
      BY <1>8 DEF vars, filed
    <2>. QED
      BY <2>1, GrantKeeps DEF IInv, TypeOK
  <1>. QED
    BY <1>1, <1>2, <1>3, <1>4, <1>5, <1>6, <1>7, <1>8 DEF Next

\* The inductive invariant of receipts, lists and deletions.
THEOREM Invariance == Spec => []IInv
  BY InitIInv, NextIInv, PTL DEF Spec

\* Type correctness of rows and calls.
THEOREM TypeCorrect == Spec => []TypeOK
  <1>1. IInv => TypeOK
    BY DEF IInv
  <1>. QED
    BY <1>1, Invariance, PTL

\* No id is filed twice, and every answer names the message that has the body.
THEOREM Once == Spec => []FiledOnce
  <1>1. IInv => FiledOnce
    BY DEF IInv, RowsOK, AcksOK, FiledOnce
  <1>. QED
    BY <1>1, Invariance, PTL

\* Messages are of the SIM their conversation is of.
THEOREM BySim == Spec => []FiledBySim
  <1>1. IInv => FiledBySim
    BY DEF IInv, RowsOK, FiledBySim
  <1>. QED
    BY <1>1, Invariance, PTL

-----------------------------------------------------------------------------
(* The unread count *)

\* What was filed since the last reading is filed, in a conversation there is,
\* and is as much as is counted.
Fresh == \A v \in Convs :
    /\ IsFiniteSet(fresh[v]) /\ conv[v].unread = Cardinality(fresh[v])
    /\ \A m \in fresh[v] : msg[m].there
    /\ ~conv[v].there => fresh[v] = {}

LEMMA CommitFresh ==
    ASSUME IInv, Fresh, NEW t \in Threads, Commit(t)
    PROVE  Fresh'
  <1>1. PICK c \in Call : c = call[t]
    BY CommitRows
  <1>2. /\ c.msg \in Msgs /\ c.conv \in Convs
        /\ \A m \in Msgs : msg[m].there => msg'[m].there
        /\ msg'[c.msg].there
        /\ \A v \in Convs : v # c.conv => conv'[v] = conv[v]
        /\ conv'[c.conv].there
        /\ conv'[c.conv].unread = (IF conv[c.conv].there THEN conv[c.conv].unread ELSE 0)
                                  + (IF c.new THEN 1 ELSE 0)
        /\ c.new => ~msg[c.msg].there
    BY <1>1, CommitRows DEF Filing
  <1>3. /\ fresh \in [Convs -> SUBSET Msgs]
        /\ fresh' = [fresh EXCEPT ![c.conv] = IF c.new THEN @ \union {c.msg} ELSE @]
    BY <1>1 DEF Commit, IInv, TypeOK
  <1>4. ASSUME NEW v \in Convs, v # c.conv
        PROVE  /\ IsFiniteSet(fresh'[v]) /\ conv'[v].unread = Cardinality(fresh'[v])
               /\ \A m \in fresh'[v] : msg'[m].there
               /\ ~conv'[v].there => fresh'[v] = {}
    <2>1. fresh'[v] = fresh[v] /\ conv'[v] = conv[v] /\ fresh[v] \subseteq Msgs
      BY <1>2, <1>3, <1>4
    <2>. QED
      BY <1>2, <2>1 DEF Fresh
  <1>5. /\ IsFiniteSet(fresh[c.conv]) /\ fresh[c.conv] \subseteq Msgs
        /\ conv[c.conv].unread = Cardinality(fresh[c.conv])
        /\ \A m \in fresh[c.conv] : msg[m].there
        /\ ~conv[c.conv].there => fresh[c.conv] = {}
    BY <1>2, <1>3 DEF Fresh
  <1>6. (IF conv[c.conv].there THEN conv[c.conv].unread ELSE 0) = Cardinality(fresh[c.conv])
    BY <1>5, FS_EmptySet
  <1>7. CASE c.new
    <2>1. fresh'[c.conv] = fresh[c.conv] \union {c.msg} /\ c.msg \notin fresh[c.conv]
      BY <1>2, <1>3, <1>5, <1>7
    <2>2. /\ IsFiniteSet(fresh'[c.conv])
          /\ Cardinality(fresh'[c.conv]) = Cardinality(fresh[c.conv]) + 1
      <3>1. /\ IsFiniteSet(fresh[c.conv] \union {c.msg})
            /\ Cardinality(fresh[c.conv] \union {c.msg}) =
                  IF c.msg \in fresh[c.conv] THEN Cardinality(fresh[c.conv])
                                             ELSE Cardinality(fresh[c.conv]) + 1
        BY <1>5, FS_AddElement
      <3>. QED
        BY <2>1, <3>1
    <2>3. \A m \in fresh'[c.conv] : msg'[m].there
      BY <1>2, <1>5, <2>1
    <2>. QED
      BY <1>2, <1>4, <1>6, <1>7, <2>2, <2>3 DEF Fresh
  <1>8. CASE ~c.new
    <2>1. fresh'[c.conv] = fresh[c.conv]
      BY <1>2, <1>3, <1>8
    <2>2. Cardinality(fresh[c.conv]) \in Nat
      BY <1>5, FS_CardinalityType
    <2>. QED
      BY <1>2, <1>4, <1>5, <1>6, <1>8, <2>1, <2>2 DEF Fresh
  <1>. QED
    BY <1>7, <1>8

LEMMA SameFresh ==
    ASSUME IInv, Fresh, UNCHANGED fresh,
           \A m \in Msgs : msg'[m].there = msg[m].there,
           \A v \in Convs : conv'[v].there = conv[v].there /\ conv'[v].unread = conv[v].unread
    PROVE  Fresh'
  <1>1. \A v \in Convs : fresh[v] \subseteq Msgs
    BY DEF IInv, TypeOK
  <1>. QED
    BY <1>1 DEF Fresh

LEMMA ReadFresh ==
    ASSUME IInv, Fresh, NEW t \in Threads, ReadCommit(t)
    PROVE  Fresh'
  <1>1. msg' = msg /\ \A v \in Convs : fresh[v] \subseteq Msgs
    BY DEF ReadCommit, IInv, TypeOK
  <1>2. ASSUME NEW v \in Convs
        PROVE  /\ IsFiniteSet(fresh'[v]) /\ conv'[v].unread = Cardinality(fresh'[v])
               /\ \A m \in fresh'[v] : msg'[m].there
               /\ ~conv'[v].there => fresh'[v] = {}
    <2>1. conv'[v].there = conv[v].there
      BY ReadCommitRows
    <2>2. CASE conv'[v].unread = 0 /\ fresh'[v] = {}
      BY <2>2, FS_EmptySet
    <2>3. CASE conv'[v].unread = conv[v].unread /\ fresh'[v] = fresh[v]
      BY <1>1, <2>1, <2>3 DEF Fresh
    <2>. QED
      BY <2>2, <2>3, ReadCommitRows
  <1>. QED
    BY <1>2 DEF Fresh

LEMMA VanishFresh ==
    ASSUME IInv, Fresh, NEW gone \in SUBSET Sims, Vanish(gone), UNCHANGED fresh
    PROVE  Fresh'
  BY VanishRows, SameFresh

LEMMA NextFresh == IInv /\ Fresh /\ [Next]_vars => Fresh'
  <1>. SUFFICES ASSUME IInv, Fresh, [Next]_vars PROVE Fresh'
    OBVIOUS
  <1>1. CASE UNCHANGED <<conv, msg, fresh>>
    BY <1>1, SameFresh
  <1>2. ASSUME NEW t \in Threads, ReceiptStep(t) \/ AgentStep(t) PROVE Fresh'
    <2>1. CASE Commit(t)
      BY <2>1, CommitFresh
    <2>2. CASE ReadCommit(t)
      BY <2>2, ReadFresh
    <2>3. CASE \/ Refuse(t) \/ Conflict(t) \/ Replay(t) \/ Merge(t) \/ Resolve(t)
               \/ Insert(t) \/ Upload(t) \/ Publish(t) \/ Finish(t) \/ Abort(t)
               \/ List(t) \/ ReadStart(t)
      BY <1>1, <2>3 DEF Refuse, Conflict, Replay, Merge, Resolve, Insert, Upload, Publish,
           Finish, Abort, List, ReadStart, filed
    <2>. QED
      BY <1>2, <2>1, <2>2, <2>3 DEF ReceiptStep, AgentStep
  <1>3. ASSUME NEW s \in Sims, DeleteSim(s) PROVE Fresh'
    <2>1. {s} \in SUBSET Sims /\ Vanish({s}) /\ UNCHANGED fresh
      BY <1>3 DEF DeleteSim
    <2>. QED
      BY <2>1, VanishFresh
  <1>4. CASE UnregisterDevice
    <2>1. sims \in SUBSET Sims /\ Vanish(sims) /\ UNCHANGED fresh
      BY <1>4 DEF UnregisterDevice, IInv, TypeOK
    <2>. QED
      BY <2>1, VanishFresh
  <1>5. ASSUME NEW t \in Threads, NEW r \in Requests, Enter(t, r) PROVE Fresh'
    BY <1>1, <1>5 DEF Enter, filed
  <1>6. ASSUME NEW t \in Threads, NEW a \in Accounts, NEW c \in Convs,
               NEW next \in {"opening", "reading"}, Open(t, a, c, next)
        PROVE  Fresh'
    BY <1>1, <1>6 DEF Open, filed
  <1>7. ASSUME NEW a \in Accounts, SetStatus(a) PROVE Fresh'
    BY <1>1, <1>7 DEF SetStatus, filed
  <1>8. ASSUME NEW a \in Accounts, NEW s \in Sims, Rebind(a, s) PROVE Fresh'
    BY <1>1, <1>8 DEF Rebind, filed
  <1>9. CASE UNCHANGED vars
    BY <1>1, <1>9 DEF vars
  <1>. QED
    BY <1>2, <1>3, <1>4, <1>5, <1>6, <1>7, <1>8, <1>9 DEF Next

\* The unread count is the number of messages filed since the last reading.
THEOREM Unread == Spec => []UnreadIsFresh
  <1>1. Init => Fresh
    BY FS_EmptySet DEF Init, Fresh, NoConv
  <1>2. Fresh => UnreadIsFresh
    BY DEF Fresh, UnreadIsFresh
  <1>. QED
    BY <1>1, <1>2, Invariance, NextFresh, PTL DEF Spec

-----------------------------------------------------------------------------
(* Attachments and their objects *)

SegmentsDiffer == \A i, j \in Ids : Segment[i] = Segment[j] => i = j

\* Rows have their objects, and so have those about to be written.
Backed ==
    /\ RowsHaveObjects
    /\ \A m \in Msgs : ~msg[m].there => msg[m].files = NoFiles
    /\ \A t \in Threads, p \in Parts :
          call[t].pc = "writing" /\ call[t].files[p] # Nil =>
              object[Key(call[t].req.id, p)] = call[t].files[p]

LEMMA KeysDiffer ==
    ASSUME SegmentsDiffer, NEW i \in Ids, NEW j \in Ids, NEW p, NEW q, Key(i, p) = Key(j, q)
    PROVE  i = j /\ p = q
  BY DEF SegmentsDiffer, Key

LEMMA UploadBacked ==
    ASSUME SegmentsDiffer, IInv, Backed, NEW t \in Threads, Upload(t)
    PROVE  Backed'
  <1>. DEFINE f == Head(call[t].left)
  <1>1. /\ call[t] \in Call /\ call[t].pc = "writing" /\ call[t].left # <<>>
        /\ Filing(call[t], msg, conv) /\ call[t].req \in Requests
    BY MineOK DEF Upload, CallOK, Receiving
  <1>2. f \in File /\ call[t].files \in [Parts -> Contents \union {Nil}]
    BY <1>1 DEF Call
  <1>3. call[t].req.id \in Ids /\ f.part \in Parts /\ f.data \in Contents \union {Nil}
    BY <1>1, <1>2, RequestType DEF File
  <1>4. object \in [Keys -> Contents \union {Nil}] /\ Key(call[t].req.id, f.part) \in Keys
    BY <1>3 DEF IInv, TypeOK, Keys
  <1>5. /\ object' = IF f.data = Nil THEN object
                     ELSE [object EXCEPT ![Key(call[t].req.id, f.part)] = f.data]
        /\ msg' = msg
    BY DEF Upload
  \* No stored message has attachments under this id.
  <1>6. ASSUME NEW m \in Msgs, NEW p \in Parts, msg[m].there, msg[m].id = call[t].req.id
        PROVE  msg[m].files[p] = Nil
    <2>1. call[t].req.kind = "downloaded"
      BY <1>1 DEF Filing
    <2>2. ~call[t].new /\ m = call[t].msg
      BY <1>1, <1>6 DEF Filing, Unknown, IInv, RowsOK
    <2>3. msg[m].files = NoFiles
      BY <1>1, <2>1, <2>2 DEF Filing, IInv, RowsOK
    <2>. QED
      BY <2>3 DEF NoFiles
  <1>7. ASSUME NEW j \in Ids, NEW p \in Parts, j # call[t].req.id \/ p # f.part
        PROVE  object'[Key(j, p)] = object[Key(j, p)]
    <2>1. Key(j, p) # Key(call[t].req.id, f.part)
      BY <1>3, <1>7, KeysDiffer
    <2>. QED
      BY <1>4, <1>5, <2>1
  <1>8. RowsHaveObjects'
    <2>1. ASSUME NEW m \in Msgs, NEW p \in Parts, msg[m].files[p] # Nil
          PROVE  object'[Key(msg[m].id, p)] = msg[m].files[p]
      <3>1. msg[m].there
        BY <2>1 DEF Backed, NoFiles
      <3>2. msg[m].id \in Ids /\ msg[m].id # call[t].req.id
        BY <1>6, <2>1, <3>1 DEF IInv, RowsOK
      <3>. QED
        BY <1>7, <2>1, <3>2 DEF Backed, RowsHaveObjects
    <2>. QED
      BY <1>5, <2>1 DEF RowsHaveObjects
  <1>9. call'[t] = [call[t] EXCEPT !.left = Tail(@), !.files = Stored(@, f)]
        /\ \A u \in Threads : u # t => call'[u] = call[u]
    BY DEF Upload, Become, IInv, TypeOK
  <1>10. call'[t].req = call[t].req /\ call'[t].files = Stored(call[t].files, f)
    BY <1>1, <1>9 DEF Call
  <1>11. ASSUME NEW p \in Parts, call'[t].files[p] # Nil
         PROVE  object'[Key(call[t].req.id, p)] = call'[t].files[p]
    <2>1. CASE f.data # Nil /\ p = f.part
      BY <1>2, <1>3, <1>4, <1>5, <1>10, <2>1 DEF Stored
    <2>2. CASE f.data = Nil
      BY <1>1, <1>5, <1>10, <1>11, <2>2 DEF Stored, Backed
    <2>3. CASE f.data # Nil /\ p # f.part
      <3>1. call'[t].files[p] = call[t].files[p]
        BY <1>2, <1>10, <2>3 DEF Stored
      <3>. QED
        BY <1>1, <1>3, <1>7, <1>11, <2>3, <3>1 DEF Backed
    <2>. QED
      BY <2>1, <2>2, <2>3
  <1>12. \A u \in Threads : u # t => call[u].pc # "writing"
    BY <1>1 DEF IInv, OneReceipt, Holding
  <1>13. ASSUME NEW u \in Threads, NEW p \in Parts, call'[u].pc = "writing",
                call'[u].files[p] # Nil
         PROVE  object'[Key(call'[u].req.id, p)] = call'[u].files[p]
    <2>1. u = t
      BY <1>9, <1>12, <1>13
    <2>. QED
      BY <1>10, <1>11, <1>13, <2>1
  <1>14. \A m \in Msgs : ~msg'[m].there => msg'[m].files = NoFiles
    BY <1>5 DEF Backed
  <1>. QED
    BY <1>8, <1>13, <1>14 DEF Backed

LEMMA CommitBacked ==
    ASSUME IInv, Backed, NEW t \in Threads, Commit(t)
    PROVE  Backed'
  <1>1. PICK c \in Call : c = call[t]
    BY CommitRows
  <1>2. /\ c.pc = "writing" /\ c.msg \in Msgs
        /\ \A m \in Msgs : m # c.msg => msg'[m] = msg[m]
        /\ msg'[c.msg].there /\ msg'[c.msg].files = c.files /\ msg'[c.msg].id = c.req.id
    BY <1>1, CommitRows DEF Filing
  <1>3. object' = object
    BY DEF Commit
  <1>4. RowsHaveObjects'
    BY <1>1, <1>2, <1>3 DEF Backed, RowsHaveObjects
  <1>5. call'[t].pc # "writing" /\ \A u \in Threads : u # t => call'[u] = call[u]
    BY <1>1 DEF Commit, Become, IInv, TypeOK, Call
  <1>6. \A m \in Msgs : ~msg'[m].there => msg'[m].files = NoFiles
    BY <1>2 DEF Backed
  <1>. QED
    BY <1>3, <1>4, <1>5, <1>6 DEF Backed

\* Steps that store no object and no attachment, and let nobody else write.
LEMMA SameBacked ==
    ASSUME IInv, Backed, UNCHANGED object,
           \A m \in Msgs : /\ msg'[m].there = msg[m].there /\ msg'[m].id = msg[m].id
                           /\ msg'[m].files = msg[m].files,
           \A u \in Threads : call'[u].pc = "writing" =>
               \/ call[u].pc = "writing" /\ call'[u].files = call[u].files
                                         /\ call'[u].req = call[u].req
               \/ call'[u].files = NoFiles
               \/ \E m \in Msgs : /\ call'[u].files = msg[m].files
                                  /\ call'[u].req.id = msg[m].id
    PROVE  Backed'
  <1>1. RowsHaveObjects'
    BY DEF Backed, RowsHaveObjects
  <1>2. ASSUME NEW u \in Threads, NEW p \in Parts, call'[u].pc = "writing",
               call'[u].files[p] # Nil
        PROVE  object'[Key(call'[u].req.id, p)] = call'[u].files[p]
    <2>1. CASE call[u].pc = "writing" /\ call'[u].files = call[u].files
               /\ call'[u].req = call[u].req
      BY <1>2, <2>1 DEF Backed
    <2>2. CASE call'[u].files = NoFiles
      BY <1>2, <2>2 DEF NoFiles
    <2>3. CASE \E m \in Msgs : call'[u].files = msg[m].files /\ call'[u].req.id = msg[m].id
      BY <1>2, <2>3 DEF Backed, RowsHaveObjects
    <2>. QED
      BY <1>2, <2>1, <2>2, <2>3
  <1>3. \A m \in Msgs : ~msg'[m].there => msg'[m].files = NoFiles
    BY DEF Backed
  <1>. QED
    BY <1>1, <1>2, <1>3 DEF Backed

LEMMA BecomeCalls ==
    ASSUME IInv, NEW t \in Threads, NEW c, Become(t, c)
    PROVE  call'[t] = c /\ \A u \in Threads : u # t => call'[u] = call[u]
  BY DEF Become, IInv, TypeOK

\* A step of t that leaves its call out of "writing" and stores nothing.
LEMMA QuietBacked ==
    ASSUME IInv, Backed, NEW t \in Threads, NEW c, Become(t, c), c.pc # "writing",
           UNCHANGED object,
           \A m \in Msgs : /\ msg'[m].there = msg[m].there /\ msg'[m].id = msg[m].id
                           /\ msg'[m].files = msg[m].files
    PROVE  Backed'
  BY BecomeCalls, SameBacked

LEMMA EndBacked ==
    ASSUME IInv, Backed, NEW t \in Threads, End(t), UNCHANGED <<object, msg>>
    PROVE  Backed'
  BY IdleOK, QuietBacked DEF End

LEMMA MergeBacked ==
    ASSUME IInv, Backed, NEW t \in Threads, Merge(t)
    PROVE  Backed'
  <1>1. PICK m \in Existing(call[t].req) :
          Become(t, [call[t] EXCEPT !.pc = "writing", !.msg = m,
                 !.conv = msg[m].conv, !.to = Agents(msg[m].sim),
                 !.left = call[t].req.files, !.files = msg[m].files])
    BY DEF Merge
  <1>2. m \in Msgs /\ msg[m].id = call[t].req.id
    BY DEF Existing
  <1>3. PICK c : c = [call[t] EXCEPT !.pc = "writing", !.msg = m,
                 !.conv = msg[m].conv, !.to = Agents(msg[m].sim),
                 !.left = call[t].req.files, !.files = msg[m].files]
    OBVIOUS
  <1>4. c.files = msg[m].files /\ c.req = call[t].req
    BY <1>3, MineOK DEF Call
  <1>5. Become(t, c) /\ UNCHANGED <<msg, object>>
    BY <1>1, <1>3 DEF Merge, filed
  <1>6. call'[t] = c /\ \A u \in Threads : u # t => call'[u] = call[u]
    BY <1>5, BecomeCalls
  <1>. QED
    BY <1>2, <1>4, <1>5, <1>6, SameBacked

LEMMA InsertBacked ==
    ASSUME IInv, Backed, NEW t \in Threads, Insert(t)
    PROVE  Backed'
  <1>1. PICK v, m : Become(t, [call[t] EXCEPT !.pc = "writing", !.conv = v, !.msg = m,
                 !.new = TRUE, !.left = call[t].req.files])
    BY DEF Insert
  <1>2. PICK c : c = [call[t] EXCEPT !.pc = "writing", !.conv = v, !.msg = m,
                 !.new = TRUE, !.left = call[t].req.files]
    OBVIOUS
  <1>3. c.files = NoFiles
    BY <1>2, MineOK DEF Call, Insert, CallOK
  <1>4. Become(t, c) /\ UNCHANGED <<msg, object>>
    BY <1>1, <1>2 DEF Insert, filed
  <1>5. call'[t] = c /\ \A u \in Threads : u # t => call'[u] = call[u]
    BY <1>4, BecomeCalls
  <1>. QED
    BY <1>3, <1>4, <1>5, SameBacked

LEMMA ReceiptBacked ==
    ASSUME SegmentsDiffer, IInv, Backed, NEW t \in Threads, ReceiptStep(t)
    PROVE  Backed'
  <1>1. CASE Refuse(t) \/ Conflict(t) \/ Replay(t) \/ Finish(t) \/ Abort(t)
    BY <1>1, EndBacked DEF Refuse, Conflict, Replay, Finish, Abort, filed
  <1>2. CASE Resolve(t)
    <2>1. PICK c : c = [call[t] EXCEPT !.pc = "resolved", !.sim = Resolved(call[t].req),
                                       !.to = Agents(Resolved(call[t].req))]
      OBVIOUS
    <2>2. c.pc = "resolved"
      BY <2>1, MineOK DEF Call
    <2>3. Become(t, c) /\ UNCHANGED <<msg, object>>
      BY <1>2, <2>1 DEF Resolve, filed
    <2>. QED
      BY <2>2, <2>3, QuietBacked
  <1>3. CASE Publish(t)
    <2>1. PICK a : Become(t, [call[t] EXCEPT !.to = @ \ {a}])
      BY <1>3 DEF Publish
    <2>2. PICK c : c = [call[t] EXCEPT !.to = @ \ {a}]
      OBVIOUS
    <2>3. c.pc = "publishing"
      BY <1>3, <2>2, MineOK DEF Call, Publish
    <2>4. Become(t, c) /\ UNCHANGED <<msg, object>>
      BY <1>3, <2>1, <2>2 DEF Publish, filed
    <2>. QED
      BY <2>3, <2>4, QuietBacked
  <1>. QED
    BY <1>1, <1>2, <1>3, MergeBacked, InsertBacked, UploadBacked, CommitBacked
       DEF ReceiptStep

LEMMA AgentBacked ==
    ASSUME IInv, Backed, NEW t \in Threads, AgentStep(t)
    PROVE  Backed'
  <1>1. ASSUME NEW next \in {"listing", "listed", "clearing"}, NEW c, c.pc = next,
               Become(t, c), UNCHANGED <<msg, object>>
        PROVE  Backed'
    BY <1>1, QuietBacked
  <1>2. CASE List(t)
    <2>1. UNCHANGED <<msg, object>>
      BY <1>2 DEF List, filed
    <2>2. CASE Become(t, [call[t] EXCEPT !.pc = "listing", !.whole = Downloaded(call[t].conv)])
      <3>1. PICK c : c = [call[t] EXCEPT !.pc = "listing", !.whole = Downloaded(call[t].conv)]
        OBVIOUS
      <3>2. c.pc = "listing"
        BY <3>1, MineOK DEF Call
      <3>. QED
        BY <1>1, <2>1, <2>2, <3>1, <3>2
    <2>3. CASE Become(t, [call[t] EXCEPT !.pc = "listed", !.stored = FileRows(call[t].conv)])
      <3>1. PICK c : c = [call[t] EXCEPT !.pc = "listed", !.stored = FileRows(call[t].conv)]
        OBVIOUS
      <3>2. c.pc = "listed"
        BY <3>1, MineOK DEF Call
      <3>. QED
        BY <1>1, <2>1, <2>3, <3>1, <3>2
    <2>. QED
      BY <1>2, <2>1, <2>2, <2>3, EndBacked DEF List
  <1>3. CASE ReadStart(t)
    <2>1. UNCHANGED <<msg, object>>
      BY <1>3 DEF ReadStart, filed
    <2>. DEFINE mine == {s \in Sims : <<call[t].acc, s>> \in bound}
    <2>2. CASE Become(t, [call[t] EXCEPT !.pc = "clearing", !.mine = mine])
      <3>1. PICK c : c = [call[t] EXCEPT !.pc = "clearing", !.mine = mine]
        OBVIOUS
      <3>2. c.pc = "clearing"
        BY <3>1, MineOK DEF Call
      <3>. QED
        BY <1>1, <2>1, <2>2, <3>1, <3>2
    <2>. QED
      BY <1>3, <2>1, <2>2, EndBacked DEF ReadStart
  <1>4. CASE ReadCommit(t)
    BY <1>4, EndBacked DEF ReadCommit
  <1>. QED
    BY <1>2, <1>3, <1>4 DEF AgentStep

LEMMA NextBacked ==
    ASSUME SegmentsDiffer, IInv, Backed, [Next]_vars
    PROVE  Backed'
  <1>1. CASE UNCHANGED <<msg, object, call>>
    BY <1>1, SameBacked
  <1>2. ASSUME NEW t \in Threads, ReceiptStep(t) \/ AgentStep(t) PROVE Backed'
    BY <1>2, ReceiptBacked, AgentBacked
  <1>3. ASSUME NEW gone \in SUBSET Sims, Vanish(gone), UNCHANGED <<object, call>>
        PROVE  Backed'
    BY <1>3, VanishRows, SameBacked
  <1>4. ASSUME NEW s \in Sims, DeleteSim(s) PROVE Backed'
    <2>1. {s} \in SUBSET Sims /\ Vanish({s}) /\ UNCHANGED <<object, call>>
      BY <1>4 DEF DeleteSim
    <2>. QED
      BY <1>3, <2>1
  <1>5. CASE UnregisterDevice
    <2>1. sims \in SUBSET Sims /\ Vanish(sims) /\ UNCHANGED <<object, call>>
      BY <1>5 DEF UnregisterDevice, IInv, TypeOK
    <2>. QED
      BY <1>3, <2>1
  <1>6. ASSUME NEW t \in Threads, NEW r \in Requests, Enter(t, r) PROVE Backed'
    <2>1. PICK c : c = [IdleCall EXCEPT !.pc = "waiting", !.req = r]
      OBVIOUS
    <2>2. c.pc = "waiting"
      BY <2>1, IdleType DEF Call
    <2>3. Become(t, c) /\ UNCHANGED <<msg, object>>
      BY <1>6, <2>1 DEF Enter, filed
    <2>. QED
      BY <2>2, <2>3, QuietBacked
  <1>7. ASSUME NEW t \in Threads, NEW a \in Accounts, NEW v \in Convs,
               NEW next \in {"opening", "reading"}, Open(t, a, v, next)
        PROVE  Backed'
    <2>1. PICK c : c = [IdleCall EXCEPT !.pc = next, !.acc = a, !.conv = v]
      OBVIOUS
    <2>2. c.pc # "writing"
      BY <2>1, IdleType DEF Call
    <2>3. Become(t, c) /\ UNCHANGED <<msg, object>>
      BY <1>7, <2>1 DEF Open, filed
    <2>. QED
      BY <2>2, <2>3, QuietBacked
  <1>8. ASSUME NEW a \in Accounts, SetStatus(a) PROVE Backed'
    BY <1>1, <1>8 DEF SetStatus, filed
  <1>9. ASSUME NEW a \in Accounts, NEW s \in Sims, Rebind(a, s) PROVE Backed'
    BY <1>1, <1>9 DEF Rebind, filed
  <1>10. CASE UNCHANGED vars
    BY <1>1, <1>10 DEF vars
  <1>. QED
    BY <1>2, <1>4, <1>5, <1>6, <1>7, <1>8, <1>9, <1>10 DEF Next

\* Attachment rows have their objects, if no two ids have the same part in the
\* names of objects.
THEOREM RowsBacked == ASSUME SegmentsDiffer PROVE Spec => []RowsHaveObjects
  <1>1. Init => Backed
    BY DEF Init, Backed, RowsHaveObjects, NoMsg, NoFiles, IdleCall
  <1>2. Backed => RowsHaveObjects
    BY DEF Backed
  <1>3. IInv /\ Backed /\ [Next]_vars => Backed'
    BY NextBacked
  <1>. QED
    BY <1>1, <1>2, <1>3, Invariance, PTL DEF Spec

-----------------------------------------------------------------------------
(* Events *)

Due(u, a, m, k) == /\ call[u].pc = "publishing" /\ call[u].msg = m
                   /\ call[u].req.kind = k /\ a \in call[u].to

\* Events of message m that account a has been told of, or never will be.
Settled(a, m) == {k \in Kind : /\ msg[m].got[k] # Nil
                               /\ \A u \in Threads : ~Due(u, a, m, k)}

Silent ==
    /\ \A a \in Accounts, m \in Msgs : told[<<a, m>>] <= Cardinality(Settled(a, m))
    /\ \A m \in Msgs : ~msg[m].there => \A k \in Kind : msg[m].got[k] = Nil

LEMMA KindFinite == IsFiniteSet(Kind)
  <1>1. IsFiniteSet({}) /\ IsFiniteSet({} \union {"text"})
    BY FS_EmptySet, FS_AddElement
  <1>2. IsFiniteSet(({} \union {"text"}) \union {"received"})
    BY <1>1, FS_AddElement
  <1>3. IsFiniteSet((({} \union {"text"}) \union {"received"}) \union {"downloaded"})
    BY <1>2, FS_AddElement
  <1>4. Kind = (({} \union {"text"}) \union {"received"}) \union {"downloaded"}
    BY DEF Kind
  <1>. QED
    BY <1>3, <1>4

LEMMA KindsCount ==
    ASSUME NEW S \in SUBSET Kind, NEW T \in SUBSET Kind, S \subseteq T
    PROVE  /\ IsFiniteSet(S) /\ Cardinality(S) \in Nat /\ Cardinality(T) \in Nat
           /\ Cardinality(S) <= Cardinality(T)
  <1>1. IsFiniteSet(S) /\ IsFiniteSet(T) /\ Cardinality(S) <= Cardinality(T)
    BY KindFinite, FS_Subset
  <1>2. Cardinality(S) \in Nat /\ Cardinality(T) \in Nat
    BY <1>1, FS_CardinalityType
  <1>. QED
    BY <1>1, <1>2

\* Who is due an event was due it before, or the event is new.
LEMMA SettledGrows ==
    ASSUME Silent, UNCHANGED told, told \in [Accounts \X Msgs -> Nat],
           \A m \in Msgs : ~msg'[m].there => ~msg[m].there /\ msg'[m].got = msg[m].got,
           \A m \in Msgs, k \in Kind : msg[m].got[k] # Nil => msg'[m].got[k] # Nil,
           \A u \in Threads, a \in Accounts, m \in Msgs, k \in Kind :
               Due(u, a, m, k)' => Due(u, a, m, k) \/ msg[m].got[k] = Nil
    PROVE  Silent'
  <1>1. ASSUME NEW a \in Accounts, NEW m \in Msgs
        PROVE  told'[<<a, m>>] <= Cardinality(Settled(a, m)')
    <2>1. Settled(a, m) \subseteq Settled(a, m)'
      BY DEF Settled
    <2>2. Settled(a, m) \in SUBSET Kind /\ Settled(a, m)' \in SUBSET Kind
      BY DEF Settled
    <2>3. /\ Cardinality(Settled(a, m)) \in Nat /\ Cardinality(Settled(a, m)') \in Nat
          /\ Cardinality(Settled(a, m)) <= Cardinality(Settled(a, m)')
      BY <2>1, <2>2, KindsCount
    <2>4. told'[<<a, m>>] = told[<<a, m>>] /\ told[<<a, m>>] \in Nat
          /\ told[<<a, m>>] <= Cardinality(Settled(a, m))
      BY DEF Silent
    <2>. QED
      BY <2>3, <2>4
  <1>2. \A m \in Msgs : ~msg'[m].there => \A k \in Kind : msg'[m].got[k] = Nil
    BY DEF Silent
  <1>. QED
    BY <1>1, <1>2 DEF Silent

\* A step of t that publishes nothing and writes no message.
LEMMA QuietSilent ==
    ASSUME IInv, Silent, NEW t \in Threads, NEW c, Become(t, c), c.pc # "publishing",
           UNCHANGED <<msg, told>>
    PROVE  Silent'
  <1>1. call'[t] = c /\ \A u \in Threads : u # t => call'[u] = call[u]
    BY BecomeCalls
  <1>2. \A u \in Threads, a \in Accounts, m \in Msgs, k \in Kind :
            Due(u, a, m, k)' => Due(u, a, m, k)
    BY <1>1 DEF Due
  <1>3. told \in [Accounts \X Msgs -> Nat]
    BY DEF IInv, TypeOK
  <1>. QED
    BY <1>2, <1>3, SettledGrows

LEMMA EndSilent ==
    ASSUME IInv, Silent, NEW t \in Threads, End(t), UNCHANGED <<msg, told>>
    PROVE  Silent'
  BY IdleOK, QuietSilent DEF End

LEMMA SameSilent ==
    ASSUME IInv, Silent, UNCHANGED <<call, told>>,
           \A m \in Msgs : msg'[m].there = msg[m].there /\ msg'[m].got = msg[m].got
    PROVE  Silent'
  <1>1. \A u \in Threads, a \in Accounts, m \in Msgs, k \in Kind :
            Due(u, a, m, k)' => Due(u, a, m, k)
    BY DEF Due
  <1>2. told \in [Accounts \X Msgs -> Nat]
    BY DEF IInv, TypeOK
  <1>. QED
    BY <1>1, <1>2, SettledGrows

LEMMA CommitSilent ==
    ASSUME IInv, Silent, NEW t \in Threads, Commit(t)
    PROVE  Silent'
  <1>1. PICK c \in Call : c = call[t]
    BY CommitRows
  <1>2. /\ c.pc = "writing" /\ c.msg \in Msgs /\ c.req \in Requests
        /\ c.req # Nil /\ c.req.kind \in Kind
        /\ \A m \in Msgs : m # c.msg => msg'[m] = msg[m]
        /\ msg'[c.msg].there /\ msg'[c.msg].got[c.req.kind] = c.req
    BY <1>1, CommitRows, RequestType DEF Filing
  <1>3. /\ c.new => ~msg[c.msg].there
        /\ ~c.new => msg[c.msg].got[c.req.kind] = Nil
        /\ \A k \in Kind : k # c.req.kind /\ ~c.new => msg'[c.msg].got[k] = msg[c.msg].got[k]
    BY <1>1, CommitRows DEF Filing
  <1>4. msg[c.msg].got[c.req.kind] = Nil
    BY <1>2, <1>3 DEF Silent
  <1>5. \A m \in Msgs, k \in Kind : msg[m].got[k] # Nil => msg'[m].got[k] # Nil
    BY <1>2, <1>3 DEF Silent
  <1>6. PICK d : /\ d = [c EXCEPT !.pc = "publishing",
                                  !.to = IF Announced(c) THEN @ ELSE {}]
                 /\ Become(t, d)
    BY <1>1 DEF Commit
  <1>7. d.msg = c.msg /\ d.req = c.req
    BY <1>6 DEF Call
  <1>8. call'[t] = d /\ \A u \in Threads : u # t => call'[u] = call[u]
    BY <1>6, BecomeCalls
  <1>9. \A u \in Threads, a \in Accounts, m \in Msgs, k \in Kind :
            Due(u, a, m, k)' => Due(u, a, m, k) \/ msg[m].got[k] = Nil
    BY <1>4, <1>7, <1>8 DEF Due
  <1>10. told' = told /\ told \in [Accounts \X Msgs -> Nat]
    BY DEF Commit, IInv, TypeOK
  <1>11. \A m \in Msgs : ~msg'[m].there => ~msg[m].there /\ msg'[m].got = msg[m].got
    BY <1>2
  <1>. QED
    BY <1>5, <1>9, <1>10, <1>11, SettledGrows

LEMMA PublishSilent ==
    ASSUME IInv, Silent, NEW t \in Threads, Publish(t)
    PROVE  Silent'
  <1>1. PICK b \in call[t].to :
          /\ told' \in {told, [told EXCEPT ![<<b, call[t].msg>>] = @ + 1]}
          /\ Become(t, [call[t] EXCEPT !.to = @ \ {b}])
    BY DEF Publish
  <1>2. PICK c : c = [call[t] EXCEPT !.to = @ \ {b}]
    OBVIOUS
  <1>3. PICK n, r : n = call[t].msg /\ r = call[t].req
    OBVIOUS
  <1>4. /\ call[t] \in Call /\ call[t].pc = "publishing" /\ n \in Msgs /\ r \in Requests
        /\ msg[n].got[r.kind] = r /\ r # Nil /\ r.kind \in Kind
    BY <1>3, MineOK, RequestType DEF Publish, CallOK, Receiving
  <1>5. b \in Accounts
    BY <1>4 DEF Call
  <1>6. c.pc = "publishing" /\ c.msg = n /\ c.req = r /\ c.to = call[t].to \ {b}
    BY <1>2, <1>4, <1>3 DEF Call
  <1>7. call'[t] = c /\ \A u \in Threads : u # t => call'[u] = call[u]
    BY <1>1, <1>2, BecomeCalls
  <1>8. msg' = msg
    BY DEF Publish, filed
  <1>9. told \in [Accounts \X Msgs -> Nat]
    BY DEF IInv, TypeOK
  <1>10. ASSUME NEW a \in Accounts, NEW m \in Msgs
        PROVE  Settled(a, m) \subseteq Settled(a, m)' /\ Settled(a, m)' \in SUBSET Kind
               /\ Settled(a, m) \in SUBSET Kind
    <2>1. \A u \in Threads, k \in Kind : Due(u, a, m, k)' => Due(u, a, m, k)
      BY <1>4, <1>6, <1>7, <1>3 DEF Due
    <2>. QED
      BY <1>8, <2>1 DEF Settled
  <1>11. r.kind \notin Settled(b, n) /\ r.kind \in Settled(b, n)'
    <2>1. Due(t, b, n, r.kind)
      BY <1>4, <1>3 DEF Due
    <2>2. \A u \in Threads : ~Due(u, b, n, r.kind)'
      BY <1>4, <1>6, <1>7, <1>3 DEF Due, IInv, OnePublisher
    <2>. QED
      BY <1>4, <1>8, <2>1, <2>2 DEF Settled
  <1>12. ASSUME NEW a \in Accounts, NEW m \in Msgs
         PROVE  told'[<<a, m>>] <= Cardinality(Settled(a, m)')
    <2>1. /\ IsFiniteSet(Settled(a, m))
          /\ Cardinality(Settled(a, m)) \in Nat /\ Cardinality(Settled(a, m)') \in Nat
          /\ Cardinality(Settled(a, m)) <= Cardinality(Settled(a, m)')
      BY <1>10, KindsCount
    <2>2. told[<<a, m>>] \in Nat /\ told[<<a, m>>] <= Cardinality(Settled(a, m))
      BY <1>9 DEF Silent
    <2>3. CASE told'[<<a, m>>] = told[<<a, m>>]
      BY <2>1, <2>2, <2>3
    <2>4. CASE a = b /\ m = n /\ told'[<<a, m>>] = told[<<a, m>>] + 1
      <3>1. Settled(a, m) \union {r.kind} \subseteq Settled(a, m)'
            /\ Settled(a, m) \union {r.kind} \in SUBSET Kind
        BY <1>10, <1>11, <2>4
      <3>2. Cardinality(Settled(a, m) \union {r.kind}) \in Nat
            /\ Cardinality(Settled(a, m) \union {r.kind}) <= Cardinality(Settled(a, m)')
        BY <1>10, <3>1, KindsCount
      <3>3. Cardinality(Settled(a, m) \union {r.kind}) =
               IF r.kind \in Settled(a, m) THEN Cardinality(Settled(a, m))
                                           ELSE Cardinality(Settled(a, m)) + 1
        BY <2>1, FS_AddElement
      <3>4. r.kind \notin Settled(a, m)
        BY <1>11, <2>4
      <3>. QED
        BY <2>1, <2>2, <2>4, <3>2, <3>3, <3>4
    <2>5. told'[<<a, m>>] = told[<<a, m>>] \/ (a = b /\ m = n /\ told'[<<a, m>>] = told[<<a, m>>] + 1)
      BY <1>1, <1>4, <1>5, <1>9, <1>3
    <2>. QED
      BY <2>3, <2>4, <2>5
  <1>13. \A m \in Msgs : ~msg'[m].there => \A k \in Kind : msg'[m].got[k] = Nil
    BY <1>8 DEF Silent
  <1>. QED
    BY <1>12, <1>13 DEF Silent

LEMMA ReceiptSilent ==
    ASSUME IInv, Silent, NEW t \in Threads, ReceiptStep(t)
    PROVE  Silent'
  <1>1. CASE Refuse(t) \/ Conflict(t) \/ Replay(t) \/ Finish(t) \/ Abort(t)
    BY <1>1, EndSilent DEF Refuse, Conflict, Replay, Finish, Abort, filed
  <1>2. CASE Resolve(t)
    <2>1. PICK c : c = [call[t] EXCEPT !.pc = "resolved", !.sim = Resolved(call[t].req),
                                       !.to = Agents(Resolved(call[t].req))]
      OBVIOUS
    <2>2. c.pc = "resolved"
      BY <2>1, MineOK DEF Call
    <2>3. Become(t, c) /\ UNCHANGED <<msg, told>>
      BY <1>2, <2>1 DEF Resolve, filed
    <2>. QED
      BY <2>2, <2>3, QuietSilent
  <1>3. CASE Merge(t)
    <2>1. PICK m : Become(t, [call[t] EXCEPT !.pc = "writing", !.msg = m,
                 !.conv = msg[m].conv, !.to = Agents(msg[m].sim),
                 !.left = call[t].req.files, !.files = msg[m].files])
      BY <1>3 DEF Merge
    <2>2. PICK c : c = [call[t] EXCEPT !.pc = "writing", !.msg = m,
                 !.conv = msg[m].conv, !.to = Agents(msg[m].sim),
                 !.left = call[t].req.files, !.files = msg[m].files]
      OBVIOUS
    <2>3. c.pc = "writing"
      BY <2>2, MineOK DEF Call
    <2>4. Become(t, c) /\ UNCHANGED <<msg, told>>
      BY <1>3, <2>1, <2>2 DEF Merge, filed
    <2>. QED
      BY <2>3, <2>4, QuietSilent
  <1>4. CASE Insert(t)
    <2>1. PICK v, m : Become(t, [call[t] EXCEPT !.pc = "writing", !.conv = v, !.msg = m,
                 !.new = TRUE, !.left = call[t].req.files])
      BY <1>4 DEF Insert
    <2>2. PICK c : c = [call[t] EXCEPT !.pc = "writing", !.conv = v, !.msg = m,
                 !.new = TRUE, !.left = call[t].req.files]
      OBVIOUS
    <2>3. c.pc = "writing"
      BY <2>2, MineOK DEF Call
    <2>4. Become(t, c) /\ UNCHANGED <<msg, told>>
      BY <1>4, <2>1, <2>2 DEF Insert, filed
    <2>. QED
      BY <2>3, <2>4, QuietSilent
  <1>5. CASE Upload(t)
    <2>1. PICK c : c = [call[t] EXCEPT !.left = Tail(@), !.files = Stored(@, Head(call[t].left))]
      OBVIOUS
    <2>2. c.pc = "writing"
      BY <1>5, <2>1, MineOK DEF Call, Upload
    <2>3. Become(t, c) /\ UNCHANGED <<msg, told>>
      BY <1>5, <2>1 DEF Upload
    <2>. QED
      BY <2>2, <2>3, QuietSilent
  <1>. QED
    BY <1>1, <1>2, <1>3, <1>4, <1>5, CommitSilent, PublishSilent DEF ReceiptStep

LEMMA AgentSilent ==
    ASSUME IInv, Silent, NEW t \in Threads, AgentStep(t)
    PROVE  Silent'
  <1>1. CASE List(t)
    <2>1. UNCHANGED <<msg, told>>
      BY <1>1 DEF List, filed
    <2>2. CASE Become(t, [call[t] EXCEPT !.pc = "listing", !.whole = Downloaded(call[t].conv)])
      <3>1. PICK c : c = [call[t] EXCEPT !.pc = "listing", !.whole = Downloaded(call[t].conv)]
        OBVIOUS
      <3>2. c.pc = "listing"
        BY <3>1, MineOK DEF Call
      <3>. QED
        BY <2>1, <2>2, <3>1, <3>2, QuietSilent
    <2>3. CASE Become(t, [call[t] EXCEPT !.pc = "listed", !.stored = FileRows(call[t].conv)])
      <3>1. PICK c : c = [call[t] EXCEPT !.pc = "listed", !.stored = FileRows(call[t].conv)]
        OBVIOUS
      <3>2. c.pc = "listed"
        BY <3>1, MineOK DEF Call
      <3>. QED
        BY <2>1, <2>3, <3>1, <3>2, QuietSilent
    <2>. QED
      BY <1>1, <2>1, <2>2, <2>3, EndSilent DEF List
  <1>2. CASE ReadStart(t)
    <2>1. UNCHANGED <<msg, told>>
      BY <1>2 DEF ReadStart, filed
    <2>. DEFINE mine == {s \in Sims : <<call[t].acc, s>> \in bound}
    <2>2. CASE Become(t, [call[t] EXCEPT !.pc = "clearing", !.mine = mine])
      <3>1. PICK c : c = [call[t] EXCEPT !.pc = "clearing", !.mine = mine]
        OBVIOUS
      <3>2. c.pc = "clearing"
        BY <3>1, MineOK DEF Call
      <3>. QED
        BY <2>1, <2>2, <3>1, <3>2, QuietSilent
    <2>. QED
      BY <1>2, <2>1, <2>2, EndSilent DEF ReadStart
  <1>3. CASE ReadCommit(t)
    BY <1>3, EndSilent DEF ReadCommit
  <1>. QED
    BY <1>1, <1>2, <1>3 DEF AgentStep

LEMMA NextSilent == IInv /\ Silent /\ [Next]_vars => Silent'
  <1>. SUFFICES ASSUME IInv, Silent, [Next]_vars PROVE Silent'
    OBVIOUS
  <1>1. CASE UNCHANGED <<msg, told, call>>
    BY <1>1, SameSilent
  <1>2. ASSUME NEW t \in Threads, ReceiptStep(t) \/ AgentStep(t) PROVE Silent'
    BY <1>2, ReceiptSilent, AgentSilent
  <1>3. ASSUME NEW gone \in SUBSET Sims, Vanish(gone), UNCHANGED <<told, call>>
        PROVE  Silent'
    BY <1>3, VanishRows, SameSilent
  <1>4. ASSUME NEW s \in Sims, DeleteSim(s) PROVE Silent'
    <2>1. {s} \in SUBSET Sims /\ Vanish({s}) /\ UNCHANGED <<told, call>>
      BY <1>4 DEF DeleteSim
    <2>. QED
      BY <1>3, <2>1
  <1>5. CASE UnregisterDevice
    <2>1. sims \in SUBSET Sims /\ Vanish(sims) /\ UNCHANGED <<told, call>>
      BY <1>5 DEF UnregisterDevice, IInv, TypeOK
    <2>. QED
      BY <1>3, <2>1
  <1>6. ASSUME NEW t \in Threads, NEW r \in Requests, Enter(t, r) PROVE Silent'
    <2>1. PICK c : c = [IdleCall EXCEPT !.pc = "waiting", !.req = r]
      OBVIOUS
    <2>2. c.pc = "waiting"
      BY <2>1, IdleType DEF Call
    <2>3. Become(t, c) /\ UNCHANGED <<msg, told>>
      BY <1>6, <2>1 DEF Enter, filed
    <2>. QED
      BY <2>2, <2>3, QuietSilent
  <1>7. ASSUME NEW t \in Threads, NEW a \in Accounts, NEW v \in Convs,
               NEW next \in {"opening", "reading"}, Open(t, a, v, next)
        PROVE  Silent'
    <2>1. PICK c : c = [IdleCall EXCEPT !.pc = next, !.acc = a, !.conv = v]
      OBVIOUS
    <2>2. c.pc # "publishing"
      BY <2>1, IdleType DEF Call
    <2>3. Become(t, c) /\ UNCHANGED <<msg, told>>
      BY <1>7, <2>1 DEF Open, filed
    <2>. QED
      BY <2>2, <2>3, QuietSilent
  <1>8. ASSUME NEW a \in Accounts, SetStatus(a) PROVE Silent'
    BY <1>1, <1>8 DEF SetStatus, filed
  <1>9. ASSUME NEW a \in Accounts, NEW s \in Sims, Rebind(a, s) PROVE Silent'
    BY <1>1, <1>9 DEF Rebind, filed
  <1>10. CASE UNCHANGED vars
    BY <1>1, <1>10 DEF vars
  <1>. QED
    BY <1>2, <1>4, <1>5, <1>6, <1>7, <1>8, <1>9, <1>10 DEF Next

\* No stream is told of a message more often than the message has events.
THEOREM ToldOnce == Spec => []ToldOncePerEvent
  <1>1. ASSUME Init PROVE Silent
    <2>1. ASSUME NEW a \in Accounts, NEW m \in Msgs
          PROVE  told[<<a, m>>] <= Cardinality(Settled(a, m))
      <3>1. Settled(a, m) \in SUBSET Kind
        BY DEF Settled
      <3>2. Cardinality(Settled(a, m)) \in Nat
        BY <3>1, KindsCount
      <3>3. told[<<a, m>>] = 0
        BY <1>1 DEF Init
      <3>. QED
        BY <3>2, <3>3
    <2>2. \A m \in Msgs, k \in Kind : msg[m].got[k] = Nil
      BY <1>1 DEF Init, NoMsg
    <2>. QED
      BY <2>1, <2>2 DEF Silent
  <1>2. ASSUME IInv, Silent PROVE ToldOncePerEvent
    <2>1. ASSUME NEW a \in Accounts, NEW m \in Msgs
          PROVE  told[<<a, m>>] <= Cardinality({k \in Kind : msg[m].got[k] # Nil})
      <3>1. told[<<a, m>>] \in Nat /\ told[<<a, m>>] <= Cardinality(Settled(a, m))
        BY <1>2 DEF Silent, IInv, TypeOK
      <3>2. /\ Settled(a, m) \in SUBSET Kind
            /\ {k \in Kind : msg[m].got[k] # Nil} \in SUBSET Kind
            /\ Settled(a, m) \subseteq {k \in Kind : msg[m].got[k] # Nil}
        BY DEF Settled
      <3>3. /\ Cardinality(Settled(a, m)) \in Nat
            /\ Cardinality({k \in Kind : msg[m].got[k] # Nil}) \in Nat
            /\ Cardinality(Settled(a, m)) <= Cardinality({k \in Kind : msg[m].got[k] # Nil})
        BY <3>2, KindsCount
      <3>. QED
        BY <3>1, <3>3
    <2>. QED
      BY <2>1 DEF ToldOncePerEvent
  <1>. QED
    BY <1>1, <1>2, Invariance, NextSilent, PTL DEF Spec

-----------------------------------------------------------------------------
(* Downloads, stored and listed *)

\* c has stored the first k attachments of its download and no other.
UnderWay(c) == c.pc = "writing" /\ c.req.kind = "downloaded" =>
    \E k \in 0 .. Len(c.req.files) :
        /\ Len(c.left) = Len(c.req.files) - k
        /\ \A i \in 1 .. Len(c.left) : c.left[i] = c.req.files[k + i]
        /\ c.files = FilesUpTo(c.req.files, k)

\* What a list has read is still so, and is read whole.
Listing(c, M) ==
    /\ c.pc \in {"listing", "listed"} =>
          \A m \in c.whole : /\ M[m].there /\ M[m].conv = c.conv
                             /\ M[m].got["downloaded"] # Nil
    /\ c.pc = "listed" =>
          \A m \in c.whole, p \in Parts : M[m].files[p] # Nil => <<m, p>> \in c.stored

Downloads == \A m \in Msgs :
    LET r == msg[m].got["downloaded"] IN
    r # Nil => msg[m].there /\ r.kind = "downloaded" /\ r.id = msg[m].id

Whole == /\ DownloadIsWhole /\ Downloads
         /\ \A t \in Threads : UnderWay(call[t]) /\ Listing(call[t], msg)

LEMMA NoneUpTo == ASSUME NEW s PROVE FilesUpTo(s, 0) = NoFiles
  BY DEF FilesUpTo, NoFiles

LEMMA OneUpTo ==
    ASSUME NEW s \in Seq(File), NEW k \in Nat, k < Len(s)
    PROVE  FilesUpTo(s, k + 1) = Stored(FilesUpTo(s, k), s[k + 1])
  <1>. DEFINE Says(n, p) == {i \in 1 .. n : s[i].part = p /\ s[i].data # Nil}
              At(n, p) == IF Says(n, p) = {} THEN Nil ELSE s[Max(Says(n, p))].data
  <1>1. PICK f \in File : f = s[k + 1]
    OBVIOUS
  <1>2. \A n : FilesUpTo(s, n) = [p \in Parts |-> At(n, p)]
    BY DEF FilesUpTo
  <1>3. ASSUME NEW p \in Parts, f.data # Nil, f.part = p
        PROVE  At(k + 1, p) = f.data
    <2>1. k + 1 \in Says(k + 1, p) /\ \A i \in Says(k + 1, p) : i \in Nat /\ i <= k + 1
      BY <1>1, <1>3
    <2>2. PICK S : S = Says(k + 1, p)
      OBVIOUS
    <2>3. Max(S) \in S /\ \A i \in S : Max(S) >= i
      BY <2>1, <2>2 DEF Max
    <2>4. Max(S) = k + 1
      BY <2>1, <2>2, <2>3
    <2>. QED
      BY <1>1, <2>1, <2>2, <2>4
  <1>4. ASSUME NEW p \in Parts, ~(f.data # Nil /\ f.part = p)
        PROVE  At(k + 1, p) = At(k, p)
    <2>1. Says(k + 1, p) = Says(k, p)
      BY <1>1, <1>4
    <2>. QED
      BY <2>1
  <1>. HIDE DEF At, Says
  <1>5. ASSUME NEW p \in Parts
        PROVE  At(k + 1, p) = Stored(FilesUpTo(s, k), f)[p]
    <2>1. FilesUpTo(s, k)[p] = At(k, p)
      BY <1>2
    <2>2. DOMAIN FilesUpTo(s, k) = Parts /\ f.part \in Parts
      BY <1>2 DEF File
    <2>. QED
      BY <1>2, <1>3, <1>4, <2>1, <2>2 DEF Stored
  <1>6. /\ Stored(FilesUpTo(s, k), f) = [p \in Parts |-> Stored(FilesUpTo(s, k), f)[p]]
    BY <1>2 DEF Stored
  <1>. QED
    BY <1>1, <1>2, <1>5, <1>6

\* Calls that are neither writing nor listing.
LEMMA Elsewhere ==
    ASSUME NEW c, NEW M, c.pc \notin {"writing", "listing", "listed"}
    PROVE  UnderWay(c) /\ Listing(c, M)
  BY DEF UnderWay, Listing

\* Rows as they were, and one call that is as it should be.
LEMMA OneCallWhole ==
    ASSUME IInv, Whole, NEW t \in Threads, NEW c, Become(t, c), UNCHANGED msg,
           UnderWay(c), Listing(c, msg)
    PROVE  Whole'
  <1>1. call'[t] = c /\ \A u \in Threads : u # t => call'[u] = call[u]
    BY BecomeCalls
  <1>2. \A u \in Threads : UnderWay(call'[u]) /\ Listing(call'[u], msg')
    BY <1>1 DEF Whole
  <1>3. DownloadIsWhole' /\ Downloads'
    BY DEF Whole, DownloadIsWhole, Downloads
  <1>. QED
    BY <1>2, <1>3 DEF Whole

LEMMA EndWhole ==
    ASSUME IInv, Whole, NEW t \in Threads, End(t), UNCHANGED msg
    PROVE  Whole'
  BY IdleOK, Elsewhere, OneCallWhole DEF End

LEMMA MergeWhole ==
    ASSUME IInv, Whole, NEW t \in Threads, Merge(t)
    PROVE  Whole'
  <1>1. PICK m \in Existing(call[t].req) :
          /\ ~Conflicts(m, call[t].req)
          /\ msg[m].got[call[t].req.kind] # call[t].req
          /\ Become(t, [call[t] EXCEPT !.pc = "writing", !.msg = m,
                 !.conv = msg[m].conv, !.to = Agents(msg[m].sim),
                 !.left = call[t].req.files, !.files = msg[m].files])
    BY DEF Merge
  <1>2. PICK c : c = [call[t] EXCEPT !.pc = "writing", !.msg = m,
                 !.conv = msg[m].conv, !.to = Agents(msg[m].sim),
                 !.left = call[t].req.files, !.files = msg[m].files]
    OBVIOUS
  <1>3. /\ c.pc = "writing" /\ c.left = c.req.files /\ c.req = call[t].req
        /\ c.files = msg[m].files /\ c.req \in Requests /\ m \in Msgs
        /\ msg[m].got[c.req.kind] = Nil
    BY <1>1, <1>2, MineOK DEF Call, Merge, Locked, CallOK, Receiving, Existing, Conflicts
  <1>4. UnderWay(c)
    <2>1. c.req.kind = "downloaded" => c.files = FilesUpTo(c.req.files, 0)
      BY <1>3, NoneUpTo DEF IInv, RowsOK
    <2>2. 0 \in 0 .. Len(c.req.files) /\ Len(c.left) = Len(c.req.files) - 0
          /\ \A i \in 1 .. Len(c.left) : c.left[i] = c.req.files[0 + i]
      BY <1>3, RequestType
    <2>. QED
      BY <2>1, <2>2 DEF UnderWay
  <1>5. Listing(c, msg)
    BY <1>3 DEF Listing
  <1>6. Become(t, c) /\ UNCHANGED msg
    BY <1>1, <1>2 DEF Merge, filed
  <1>. QED
    BY <1>4, <1>5, <1>6, OneCallWhole

LEMMA InsertWhole ==
    ASSUME IInv, Whole, NEW t \in Threads, Insert(t)
    PROVE  Whole'
  <1>1. PICK v, m : Become(t, [call[t] EXCEPT !.pc = "writing", !.conv = v, !.msg = m,
                 !.new = TRUE, !.left = call[t].req.files])
    BY DEF Insert
  <1>2. PICK c : c = [call[t] EXCEPT !.pc = "writing", !.conv = v, !.msg = m,
                 !.new = TRUE, !.left = call[t].req.files]
    OBVIOUS
  <1>3. /\ c.pc = "writing" /\ c.left = c.req.files /\ c.files = NoFiles
        /\ c.req \in Requests
    BY <1>2, MineOK DEF Call, Insert, CallOK, Receiving
  <1>4. UnderWay(c)
    <2>1. c.files = FilesUpTo(c.req.files, 0)
      BY <1>3, NoneUpTo
    <2>2. 0 \in 0 .. Len(c.req.files) /\ Len(c.left) = Len(c.req.files) - 0
          /\ \A i \in 1 .. Len(c.left) : c.left[i] = c.req.files[0 + i]
      BY <1>3, RequestType
    <2>. QED
      BY <2>1, <2>2 DEF UnderWay
  <1>5. Listing(c, msg)
    BY <1>3 DEF Listing
  <1>6. Become(t, c) /\ UNCHANGED msg
    BY <1>1, <1>2 DEF Insert, filed
  <1>. QED
    BY <1>4, <1>5, <1>6, OneCallWhole

LEMMA UploadWhole ==
    ASSUME IInv, Whole, NEW t \in Threads, Upload(t)
    PROVE  Whole'
  <1>1. PICK b \in Call : b = call[t]
    BY MineOK
  <1>2. /\ b.pc = "writing" /\ b.left # <<>> /\ b.left \in Seq(File)
        /\ b.req \in Requests /\ b.req.kind = "downloaded"
        /\ UnderWay(b)
    BY <1>1, MineOK DEF Upload, CallOK, Receiving, Filing, Whole, Call
  <1>3. PICK c : c = [b EXCEPT !.left = Tail(b.left), !.files = Stored(b.files, Head(b.left))]
    OBVIOUS
  <1>4. /\ c.pc = "writing" /\ c.req = b.req /\ c.left = Tail(b.left)
        /\ c.files = Stored(b.files, Head(b.left))
    BY <1>2, <1>3 DEF Call
  <1>5. PICK k \in 0 .. Len(b.req.files) :
        /\ Len(b.left) = Len(b.req.files) - k
        /\ \A i \in 1 .. Len(b.left) : b.left[i] = b.req.files[k + i]
        /\ b.files = FilesUpTo(b.req.files, k)
    BY <1>2 DEF UnderWay
  <1>6. PICK s \in Seq(File) : s = b.req.files
    BY <1>2, RequestType
  <1>7. PICK l \in Seq(File) : l = b.left /\ l # <<>> /\ Len(l) \in Nat /\ Len(l) > 0
    BY <1>2
  <1>8. k < Len(s) /\ Head(l) = s[k + 1] /\ Len(s) \in Nat /\ Head(l) = l[1]
    BY <1>5, <1>6, <1>7
  <1>9. c.files = FilesUpTo(s, k + 1)
    BY <1>4, <1>5, <1>6, <1>7, <1>8, OneUpTo
  <1>10. /\ Len(Tail(l)) = Len(s) - (k + 1)
         /\ \A i \in 1 .. Len(Tail(l)) : Tail(l)[i] = s[(k + 1) + i]
    <2>1. Len(Tail(l)) = Len(l) - 1
      BY <1>7
    <2>2. ASSUME NEW i \in 1 .. Len(Tail(l)) PROVE Tail(l)[i] = s[(k + 1) + i]
      <3>1. i + 1 \in 1 .. Len(l) /\ Tail(l)[i] = l[i + 1]
        BY <1>7, <2>1
      <3>2. l[i + 1] = s[k + (i + 1)]
        BY <1>5, <1>6, <1>7, <3>1
      <3>3. k + (i + 1) = (k + 1) + i
        BY <2>1, <1>7
      <3>. QED
        BY <3>1, <3>2, <3>3
    <2>. QED
      BY <1>5, <1>6, <1>7, <2>1, <2>2
  <1>11. UnderWay(c)
    <2>1. k + 1 \in 0 .. Len(s)
      BY <1>8
    <2>. QED
      BY <1>4, <1>6, <1>7, <1>9, <1>10, <2>1 DEF UnderWay
  <1>12. Listing(c, msg)
    BY <1>4 DEF Listing
  <1>13. Become(t, c) /\ UNCHANGED msg
    BY <1>1, <1>3 DEF Upload
  <1>. QED
    BY <1>11, <1>12, <1>13, OneCallWhole

\* What a row that lists may have read has got its download for good.
LEMMA CommitWhole ==
    ASSUME IInv, Whole, NEW t \in Threads, Commit(t)
    PROVE  Whole'
  <1>1. PICK c \in Call : c = call[t]
    BY CommitRows
  <1>2. /\ c.pc = "writing" /\ c.req \in Requests /\ c.left = <<>> /\ c.msg \in Msgs
        /\ Filing(c, msg, conv) /\ UnderWay(c)
        /\ c.req.kind \in Kind /\ c.req # Nil /\ "downloaded" \in Kind
    BY <1>1, CommitRows, RequestType DEF Filing, Whole, Kind
  <1>3. PICK w \in MsgRow : w = msg'[c.msg]
    BY <1>1, <1>2, CommitRows
  <1>4. PICK o \in MsgRow : o = msg[c.msg]
    BY <1>2 DEF IInv, TypeOK
  <1>5. /\ \A m \in Msgs : m # c.msg => msg'[m] = msg[m]
        /\ w.there /\ w.files = c.files
        /\ c.new => w.id = c.req.id /\ w.conv = c.conv
        /\ ~c.new => w.id = o.id /\ w.conv = o.conv
        /\ w.got[c.req.kind] = c.req
        /\ \A k \in Kind : k # c.req.kind => w.got[k] = IF c.new THEN Nil ELSE o.got[k]
        /\ w.body = IF c.req.body # Nil THEN c.req.body
                    ELSE IF c.new THEN Nil ELSE o.body
    BY <1>1, <1>3, <1>4, CommitRows
  <1>6. /\ c.new => ~o.there /\ (c.req.kind # "downloaded" => c.files = NoFiles)
        /\ ~c.new => /\ o.there /\ o.id = c.req.id /\ o.got[c.req.kind] = Nil
                     /\ c.req.kind # "downloaded" => c.files = o.files
    BY <1>2, <1>4 DEF Filing
  <1>7. /\ o.files = IF o.got["downloaded"] = Nil THEN NoFiles ELSE FilesOf(o.got["downloaded"])
        /\ o.got["downloaded"] # Nil => /\ o.there /\ o.got["downloaded"].id = o.id
                                        /\ o.got["downloaded"].kind = "downloaded"
        /\ o.got["downloaded"] # Nil /\ o.got["downloaded"].body # Nil =>
              o.body = o.got["downloaded"].body
        /\ o.got["downloaded"] \in Requests \union {Nil}
    BY <1>2, <1>4 DEF Whole, DownloadIsWhole, Downloads, MsgRow
  <1>8. c.req.kind = "downloaded" => c.files = FilesOf(c.req)
    <2>. SUFFICES ASSUME c.req.kind = "downloaded" PROVE c.files = FilesOf(c.req)
      OBVIOUS
    <2>1. PICK k \in 0 .. Len(c.req.files) :
            Len(c.left) = Len(c.req.files) - k /\ c.files = FilesUpTo(c.req.files, k)
      BY <1>2 DEF UnderWay
    <2>2. k = Len(c.req.files)
      BY <1>2, <2>1, RequestType
    <2>. QED
      BY <2>1, <2>2 DEF FilesOf
  \* A message that has a download got it before this commit or by it.
  <1>9. /\ w.files = IF w.got["downloaded"] = Nil THEN NoFiles ELSE FilesOf(w.got["downloaded"])
        /\ w.got["downloaded"] # Nil /\ w.got["downloaded"].body # Nil =>
              w.body = w.got["downloaded"].body
        /\ w.got["downloaded"] # Nil => w.got["downloaded"].kind = "downloaded"
                                        /\ w.got["downloaded"].id = w.id
    <2>1. CASE c.req.kind = "downloaded"
      BY <1>5, <1>6, <1>8, <1>2, <2>1
    <2>2. CASE c.req.kind # "downloaded" /\ c.new
      BY <1>5, <1>6, <1>2, <2>2
    <2>3. CASE c.req.kind # "downloaded" /\ ~c.new
      <3>1. w.got["downloaded"] = o.got["downloaded"] /\ w.files = o.files
        BY <1>2, <1>5, <1>6, <2>3
      <3>2. o.got["downloaded"] # Nil => c.req.kind = "received"
        BY <1>2, <1>6, <1>7, <2>3, InboxAssumption DEF InboxAssumption, Kind
      <3>3. c.req.kind = "received" => c.req.body = Nil
        BY <1>2, InboxAssumption DEF InboxAssumption
      <3>. QED
        BY <1>5, <1>6, <1>7, <2>3, <3>1, <3>2, <3>3
    <2>. QED
      BY <2>1, <2>2, <2>3
  <1>10. DownloadIsWhole'
    <2>1. ASSUME NEW m \in Msgs
          PROVE  LET r == msg'[m].got["downloaded"] IN
                 /\ msg'[m].files = IF r = Nil THEN NoFiles ELSE FilesOf(r)
                 /\ r # Nil /\ r.body # Nil => msg'[m].body = r.body
      <3>1. CASE m = c.msg
        BY <1>3, <1>9, <3>1
      <3>2. CASE m # c.msg
        BY <1>5, <3>2 DEF Whole, DownloadIsWhole
      <3>. QED
        BY <3>1, <3>2
    <2>. QED
      BY <2>1 DEF DownloadIsWhole
  <1>11. Downloads'
    <2>1. ASSUME NEW m \in Msgs, msg'[m].got["downloaded"] # Nil
          PROVE  LET r == msg'[m].got["downloaded"] IN
                 msg'[m].there /\ r.kind = "downloaded" /\ r.id = msg'[m].id
      <3>1. CASE m = c.msg
        BY <1>3, <1>5, <1>9, <2>1, <3>1
      <3>2. CASE m # c.msg
        BY <1>5, <2>1, <3>2 DEF Whole, Downloads
      <3>. QED
        BY <3>1, <3>2
    <2>. QED
      BY <2>1 DEF Downloads
  <1>12. call'[t].pc = "publishing" /\ \A u \in Threads : u # t => call'[u] = call[u]
    BY <1>1 DEF Commit, Become, IInv, TypeOK, Call
  <1>13. ASSUME NEW m \in Msgs, msg[m].there, msg[m].got["downloaded"] # Nil
         PROVE  /\ msg'[m].there /\ msg'[m].conv = msg[m].conv
                /\ msg'[m].got["downloaded"] # Nil /\ msg'[m].files = msg[m].files
    <2>1. CASE m # c.msg
      BY <1>5, <1>13, <2>1
    <2>2. CASE m = c.msg
      <3>1. ~c.new /\ c.req.kind # "downloaded"
        BY <1>4, <1>6, <1>13, <2>2
      <3>. QED
        BY <1>2, <1>3, <1>4, <1>5, <1>6, <1>13, <2>2, <3>1
    <2>. QED
      BY <2>1, <2>2
  <1>14. ASSUME NEW u \in Threads
         PROVE  UnderWay(call'[u]) /\ Listing(call'[u], msg')
    <2>1. CASE u = t
      BY <1>12, <2>1, Elsewhere
    <2>2. CASE u # t
      <3>1. PICK d \in Call : d = call[u] /\ UnderWay(d) /\ Listing(d, msg) /\ call'[u] = d
        BY <1>12, <2>2, MineOK DEF Whole
      <3>2. \A m \in d.whole : m \in Msgs
        BY <3>1 DEF Call
      <3>3. Listing(d, msg')
        BY <1>13, <3>1, <3>2 DEF Listing
      <3>. QED
        BY <3>1, <3>3
    <2>. QED
      BY <2>1, <2>2
  <1>. QED
    BY <1>10, <1>11, <1>14 DEF Whole

LEMMA ListWhole ==
    ASSUME IInv, Whole, NEW t \in Threads, List(t)
    PROVE  Whole'
  <1>1. UNCHANGED msg
    BY DEF List, filed
  <1>2. PICK b \in Call : b = call[t] /\ Listing(b, msg)
    BY MineOK DEF Whole
  <1>3. CASE Become(t, [b EXCEPT !.pc = "listing", !.whole = Downloaded(b.conv)])
    <2>1. PICK c : c = [b EXCEPT !.pc = "listing", !.whole = Downloaded(b.conv)]
      OBVIOUS
    <2>2. c.pc = "listing" /\ c.conv = b.conv /\ c.whole = Downloaded(b.conv)
      BY <2>1 DEF Call
    <2>3. UnderWay(c) /\ Listing(c, msg)
      BY <2>2 DEF UnderWay, Listing, Downloaded
    <2>. QED
      BY <1>1, <1>3, <2>1, <2>3, OneCallWhole
  <1>4. CASE b.pc = "listing" /\ Become(t, [b EXCEPT !.pc = "listed", !.stored = FileRows(b.conv)])
    <2>1. PICK c : c = [b EXCEPT !.pc = "listed", !.stored = FileRows(b.conv)]
      OBVIOUS
    <2>2. /\ c.pc = "listed" /\ c.conv = b.conv /\ c.whole = b.whole
          /\ c.stored = FileRows(b.conv) /\ b.whole \subseteq Msgs
      BY <2>1 DEF Call
    <2>3. \A m \in c.whole : /\ msg[m].there /\ msg[m].conv = c.conv
                             /\ msg[m].got["downloaded"] # Nil
      BY <1>2, <1>4, <2>2 DEF Listing
    <2>4. \A m \in c.whole, p \in Parts : msg[m].files[p] # Nil => <<m, p>> \in c.stored
      BY <2>2, <2>3 DEF FileRows
    <2>5. UnderWay(c) /\ Listing(c, msg)
      BY <2>2, <2>3, <2>4 DEF UnderWay, Listing
    <2>. QED
      BY <1>1, <1>4, <2>1, <2>5, OneCallWhole
  <1>5. CASE End(t)
    BY <1>1, <1>5, EndWhole
  <1>. QED
    BY <1>2, <1>3, <1>4, <1>5 DEF List

LEMMA StepWhole ==
    ASSUME IInv, Whole, NEW t \in Threads, ReceiptStep(t) \/ AgentStep(t)
    PROVE  Whole'
  <1>1. ASSUME NEW c, Become(t, c), UNCHANGED msg,
               c.pc \in {"resolved", "publishing", "clearing"}
        PROVE  Whole'
    BY <1>1, Elsewhere, OneCallWhole
  <1>2. CASE Refuse(t) \/ Conflict(t) \/ Replay(t) \/ Finish(t) \/ Abort(t) \/ ReadCommit(t)
    BY <1>2, EndWhole DEF Refuse, Conflict, Replay, Finish, Abort, ReadCommit, filed
  <1>3. CASE Resolve(t)
    <2>1. PICK c : c = [call[t] EXCEPT !.pc = "resolved", !.sim = Resolved(call[t].req),
                                       !.to = Agents(Resolved(call[t].req))]
      OBVIOUS
    <2>2. c.pc = "resolved"
      BY <2>1, MineOK DEF Call
    <2>3. Become(t, c) /\ UNCHANGED msg
      BY <1>3, <2>1 DEF Resolve, filed
    <2>. QED
      BY <1>1, <2>2, <2>3
  <1>4. CASE Publish(t)
    <2>1. PICK a : Become(t, [call[t] EXCEPT !.to = @ \ {a}])
      BY <1>4 DEF Publish
    <2>2. PICK c : c = [call[t] EXCEPT !.to = @ \ {a}]
      OBVIOUS
    <2>3. c.pc = "publishing"
      BY <1>4, <2>2, MineOK DEF Call, Publish
    <2>4. Become(t, c) /\ UNCHANGED msg
      BY <1>4, <2>1, <2>2 DEF Publish, filed
    <2>. QED
      BY <1>1, <2>3, <2>4
  <1>5. CASE ReadStart(t)
    <2>. DEFINE mine == {s \in Sims : <<call[t].acc, s>> \in bound}
    <2>1. UNCHANGED msg
      BY <1>5 DEF ReadStart, filed
    <2>2. CASE Become(t, [call[t] EXCEPT !.pc = "clearing", !.mine = mine])
      <3>1. PICK c : c = [call[t] EXCEPT !.pc = "clearing", !.mine = mine]
        OBVIOUS
      <3>2. c.pc = "clearing"
        BY <3>1, MineOK DEF Call
      <3>. QED
        BY <1>1, <2>1, <2>2, <3>1, <3>2
    <2>. QED
      BY <1>5, <2>1, <2>2, EndWhole DEF ReadStart
  <1>. QED
    BY <1>2, <1>3, <1>4, <1>5, MergeWhole, InsertWhole, UploadWhole, CommitWhole, ListWhole
       DEF ReceiptStep, AgentStep

LEMMA NextWhole ==
    ASSUME IInv, Whole, [Next]_vars
    PROVE  Whole'
  <1>1. ASSUME UNCHANGED call,
               \A m \in Msgs : /\ msg'[m].there = msg[m].there /\ msg'[m].id = msg[m].id
                               /\ msg'[m].conv = msg[m].conv /\ msg'[m].got = msg[m].got
                               /\ msg'[m].files = msg[m].files /\ msg'[m].body = msg[m].body
        PROVE  Whole'
    <2>1. DownloadIsWhole' /\ Downloads'
      BY <1>1 DEF Whole, DownloadIsWhole, Downloads
    <2>2. ASSUME NEW u \in Threads PROVE UnderWay(call'[u]) /\ Listing(call'[u], msg')
      <3>1. PICK d \in Call : d = call[u] /\ call'[u] = d /\ UnderWay(d) /\ Listing(d, msg)
        BY <1>1, MineOK DEF Whole
      <3>2. Listing(d, msg')
        <4>1. d.whole \subseteq Msgs
          BY DEF Call
        <4>. QED
          BY <1>1, <3>1, <4>1 DEF Listing
      <3>. QED
        BY <3>1, <3>2
    <2>. QED
      BY <2>1, <2>2 DEF Whole
  <1>2. ASSUME NEW gone \in SUBSET Sims, Vanish(gone), UNCHANGED call PROVE Whole'
    BY <1>1, <1>2, VanishRows
  <1>3. ASSUME NEW s \in Sims, DeleteSim(s) PROVE Whole'
    <2>1. {s} \in SUBSET Sims /\ Vanish({s}) /\ UNCHANGED call
      BY <1>3 DEF DeleteSim
    <2>. QED
      BY <1>2, <2>1
  <1>4. CASE UnregisterDevice
    <2>1. sims \in SUBSET Sims /\ Vanish(sims) /\ UNCHANGED call
      BY <1>4 DEF UnregisterDevice, IInv, TypeOK
    <2>. QED
      BY <1>2, <2>1
  <1>5. ASSUME NEW t \in Threads, NEW r \in Requests, Enter(t, r) PROVE Whole'
    <2>1. PICK c : c = [IdleCall EXCEPT !.pc = "waiting", !.req = r]
      OBVIOUS
    <2>2. c.pc = "waiting"
      BY <2>1, IdleType DEF Call
    <2>3. Become(t, c) /\ UNCHANGED msg
      BY <1>5, <2>1 DEF Enter, filed
    <2>. QED
      BY <2>2, <2>3, Elsewhere, OneCallWhole
  <1>6. ASSUME NEW t \in Threads, NEW a \in Accounts, NEW v \in Convs,
               NEW next \in {"opening", "reading"}, Open(t, a, v, next)
        PROVE  Whole'
    <2>1. PICK c : c = [IdleCall EXCEPT !.pc = next, !.acc = a, !.conv = v]
      OBVIOUS
    <2>2. c.pc \in {"opening", "reading"}
      BY <2>1, IdleType DEF Call
    <2>3. Become(t, c) /\ UNCHANGED msg
      BY <1>6, <2>1 DEF Open, filed
    <2>. QED
      BY <2>2, <2>3, Elsewhere, OneCallWhole
  <1>7. CASE UNCHANGED <<msg, call>>
    BY <1>1, <1>7
  <1>8. ASSUME NEW a \in Accounts, SetStatus(a) PROVE Whole'
    BY <1>7, <1>8 DEF SetStatus, filed
  <1>9. ASSUME NEW a \in Accounts, NEW s \in Sims, Rebind(a, s) PROVE Whole'
    BY <1>7, <1>9 DEF Rebind, filed
  <1>10. CASE UNCHANGED vars
    BY <1>7, <1>10 DEF vars
  <1>. QED
    BY <1>3, <1>4, <1>5, <1>6, <1>8, <1>9, <1>10, StepWhole DEF Next

LEMMA WholeInit == Init => Whole
  <1>. SUFFICES ASSUME Init PROVE Whole
    OBVIOUS
  <1>1. \A t \in Threads : UnderWay(call[t]) /\ Listing(call[t], msg)
    BY IdleOK, Elsewhere DEF Init
  <1>2. DownloadIsWhole /\ Downloads
    BY DEF Init, DownloadIsWhole, Downloads, NoMsg, Kind
  <1>. QED
    BY <1>1, <1>2 DEF Whole

\* A stored download is its body and, for each part, the last attachment with
\* data; whatever is redelivered, merged or retried, it is never a mixture.
THEOREM DownloadStored == Spec => []DownloadIsWhole
  <1>1. Whole => DownloadIsWhole
    BY DEF Whole
  <1>2. IInv /\ Whole /\ [Next]_vars => Whole'
    BY NextWhole
  <1>. QED
    BY <1>1, <1>2, WholeInit, Invariance, PTL DEF Spec

\* A list that shows a download shows its attachments, though the messages and
\* the attachments are read by two statements.
THEOREM DownloadListed == Spec => []ListedWhole
  <1>1. IInv /\ Whole => ListedWhole
    <2>. SUFFICES ASSUME IInv, Whole, NEW t \in Threads, call[t].pc = "listed",
                         NEW m \in call[t].whole, NEW p \in Parts,
                         FilesOf(msg[m].got["downloaded"])[p] # Nil
                  PROVE  <<m, p>> \in call[t].stored
      BY DEF ListedWhole
    <2>1. m \in Msgs /\ Listing(call[t], msg)
      BY MineOK DEF Call, Whole
    <2>2. msg[m].got["downloaded"] # Nil
      BY <2>1 DEF Listing
    <2>3. msg[m].files[p] # Nil
      BY <2>1, <2>2 DEF Whole, DownloadIsWhole
    <2>. QED
      BY <2>1, <2>3 DEF Listing
  <1>2. IInv /\ Whole /\ [Next]_vars => Whole'
    BY NextWhole
  <1>. QED
    BY <1>1, <1>2, WholeInit, Invariance, PTL DEF Spec
=============================================================================
